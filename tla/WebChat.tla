------------------------------ MODULE WebChat ------------------------------
(***************************************************************************)
(* Chat in the browser: the WebSocket relay (bin/rift-ws-relay), the page  *)
(* www/app.js over crates/rift-wasm, and the client of rift-web-chat.      *)
(*                                                                         *)
(* The relay repeats what is said in a room to all who have joined it,     *)
(* through a broadcast channel that keeps the last Capacity messages.  An  *)
(* identity is fresh for every invite that is joined.  The wasm code of a  *)
(* browser runs in one thread, and calls JavaScript back in the middle.    *)
(***************************************************************************)
EXTENDS Integers, Sequences, FiniteSets, SequencesExt

CONSTANTS
    Browser,
    Chats,        \* browsers that run rift-web-chat; the others run app.js
    Greeters,     \* Chats whose on_connect callback sends
    Answerers,    \* Chats whose on_message callback sends
    Invite,       \* the invites, each to a room of its own
    Capacity,     \* of a room's broadcast channel (256)
    Buffer,       \* messages that a WebSocket takes before its sender waits
    MaxIdentities, MaxSockets, MaxTexts    \* bounds, in a behaviour

ASSUME WebChatAssumption ==
    /\ Chats \subseteq Browser /\ Greeters \subseteq Chats /\ Answerers \subseteq Chats
    /\ Capacity \in Nat \ {0} /\ Buffer \in Nat \ {0}
    /\ MaxIdentities \in Nat /\ MaxSockets \in Nat /\ MaxTexts \in Nat

VARIABLES
    me,           \* me[b]: the client: invite and identity, and its seq
    socket,       \* socket[b]: readyState, and which socket it is
    upward,       \* upward[b]: envelopes on their way to the relay
    downward,     \* downward[b]: and from the relay
    member,       \* member[b]: handle_socket: whether it awaits the join, or
                  \* the room and the position in it of rx
    said,         \* said[i]: all that was sent through the room's channel
    jammed,       \* the client of b is left borrowed by a call that panicked
    identities, sockets, texts,   \* so far
    shown         \* shown[b]: the messages shown since the socket was opened,
                  \* and the identity they were shown to

webVars == <<me, socket, upward, downward, member, said, jammed, identities, sockets,
             texts, shown>>

Nobody   == [id |-> 0]
Unopened == [st |-> "none", at |-> 0]
Gone     == [st |-> "gone"]
JoinEnvelope(b) == [type |-> "join", room |-> me[b].room]

WebInit ==
    /\ me = [b \in Browser |-> Nobody]
    /\ socket = [b \in Browser |-> Unopened]
    /\ upward = [b \in Browser |-> <<>>]
    /\ downward = [b \in Browser |-> <<>>]
    /\ member = [b \in Browser |-> Gone]
    /\ said = [i \in Invite |-> <<>>]
    /\ jammed = [b \in Browser |-> FALSE]
    /\ identities = 0 /\ sockets = 0 /\ texts = 0
    /\ shown = [b \in Browser |-> <<>>]

Joins(b) ==
    /\ identities < MaxIdentities
    /\ identities' = identities + 1
    /\ \E i \in Invite : me' = [me EXCEPT ![b] = [id |-> identities + 1, room |-> i, seq |-> 0]]

Connects(b) ==
    /\ socket[b].st = "none"
    /\ sockets < MaxSockets
    /\ sockets' = sockets + 1
    /\ socket' = [socket EXCEPT ![b] = [st |-> "connecting", at |-> sockets + 1]]
    /\ shown' = [shown EXCEPT ![b] = <<>>]

\* new WebChat: a client is connected once.
NewWebChat(b) ==
    /\ b \in Chats /\ me[b] = Nobody
    /\ Joins(b) /\ Connects(b)
    /\ UNCHANGED <<upward, downward, member, said, jammed, texts>>

\* "Join" of the page, connected or not: a new client takes the old one's place.
JoinInvite(b) ==
    /\ b \notin Chats
    /\ Joins(b)
    /\ UNCHANGED <<socket, upward, downward, member, said, jammed, sockets, texts, shown>>

\* "Connect" of the page.
ConnectPage(b) ==
    /\ b \notin Chats /\ me[b] # Nobody
    /\ Connects(b)
    /\ UNCHANGED <<me, upward, downward, member, said, jammed, identities, texts>>

\* onopen: the Join goes first.  The closure of rift-web-chat holds its state
\* borrowed while it calls back, so that a send in the callback panics.
SocketOpens(b) ==
    /\ socket[b].st = "connecting"
    /\ socket' = [socket EXCEPT ![b].st = "open"]
    /\ member' = [member EXCEPT ![b] = [st |-> "new"]]
    /\ upward' = [upward EXCEPT ![b] = <<JoinEnvelope(b)>>]
    /\ jammed' = [jammed EXCEPT ![b] = @ \/ b \in Greeters]
    /\ UNCHANGED <<me, downward, said, identities, sockets, texts, shown>>

Data(b) == [type |-> "data", room |-> me[b].room, id |-> me[b].id, n |-> me[b].seq,
            by |-> socket[b].at]

\* send, of either client.  The number is used up in any case; a socket that
\* is not open throws or throws the message away, and so does a connection
\* whose end the browser has yet to see.
SendText(b) ==
    /\ me[b] # Nobody /\ socket[b].st # "none" /\ ~jammed[b]
    /\ texts < MaxTexts
    /\ texts' = texts + 1
    /\ me' = [me EXCEPT ![b].seq = @ + 1]
    /\ upward' = IF socket[b].st # "open" \/ member[b] = Gone THEN upward
                 ELSE [upward EXCEPT ![b] = Append(@, Data(b))]
    /\ UNCHANGED <<socket, downward, member, said, jammed, identities, sockets, shown>>

\* disconnect: nothing that still comes is shown.
HangUp(b) ==
    /\ socket[b].st = "open" /\ ~jammed[b]
    /\ socket' = [socket EXCEPT ![b].st = "closing"]
    /\ upward' = IF member[b] = Gone THEN upward
                 ELSE [upward EXCEPT ![b] = Append(@, [type |-> "close"])]
    /\ UNCHANGED <<me, downward, member, said, jammed, identities, sockets, texts, shown>>

-----------------------------------------------------------------------------
\* The relay's tasks of a socket have ended, or the connection has: nothing
\* more is read from it.
Ends(b) ==
    /\ member' = [member EXCEPT ![b] = Gone]
    /\ upward' = [upward EXCEPT ![b] = <<>>]
Taken(b) == upward' = [upward EXCEPT ![b] = Tail(@)]

\* handle_socket: the first message must be a Join; the room is made by it.
RelayAdmits(b) ==
    /\ member[b].st = "new" /\ upward[b] # <<>>
    /\ LET first == Head(upward[b])
       IN  IF first.type = "join"
           THEN /\ Taken(b)
                /\ member' = [member EXCEPT ![b] =
                      [st |-> "in", room |-> first.room, next |-> Len(said[first.room]) + 1]]
           ELSE Ends(b)
    /\ UNCHANGED <<me, socket, downward, said, jammed, identities, sockets, texts, shown>>

\* recv_task: what is for another room, and a second Join, is ignored.
RelayReads(b) ==
    /\ member[b].st = "in" /\ upward[b] # <<>>
    /\ LET text == Head(upward[b])
           mine == text.type = "data" /\ text.room = member[b].room
       IN  /\ said' = IF mine THEN [said EXCEPT ![text.room] = Append(@, text)] ELSE said
           /\ IF text.type = "close" THEN Ends(b) ELSE Taken(b) /\ UNCHANGED member
    /\ UNCHANGED <<me, socket, downward, jammed, identities, sockets, texts, shown>>

Behind(b) == member[b].next + Capacity <= Len(said[member[b].room])

\* Mutant: the loop goes on when rx reports that it has lagged.
Mutant_Lags(b) ==
    /\ member' = [member EXCEPT ![b].next = Len(said[member[b].room]) - Capacity + 1]
    /\ UNCHANGED upward

\* rx.recv fails when its oldest message has been overwritten: send_task ends.
Lags(b) == Ends(b)

RelayWrites(b) ==
    /\ member[b].st = "in"
    /\ member[b].next <= Len(said[member[b].room])
    /\ IF Behind(b)
       THEN Lags(b) /\ UNCHANGED downward
       ELSE /\ Len(downward[b]) < Buffer
            /\ downward' = [downward EXCEPT ![b] =
                              Append(@, said[member[b].room][member[b].next])]
            /\ member' = [member EXCEPT ![b].next = @ + 1]
            /\ UNCHANGED upward
    /\ UNCHANGED <<me, socket, said, jammed, identities, sockets, texts, shown>>

ConnectionBreaks(b) ==
    /\ member[b] # Gone
    /\ Ends(b)
    /\ UNCHANGED <<me, socket, downward, said, jammed, identities, sockets, texts, shown>>

-----------------------------------------------------------------------------
\* What another invite's key has sealed does not decode.
Decodes(b, text) == text.room = me[b].room

\* One's own messages are skipped.
Shows(b, text) == text.id # me[b].id /\ Decodes(b, text)

\* onmessage.  The callback of rift-web-chat is called as in SocketOpens.
MessageArrives(b) ==
    /\ socket[b].st = "open" /\ downward[b] # <<>>
    /\ downward' = [downward EXCEPT ![b] = Tail(@)]
    /\ LET text == Head(downward[b])
           shows == Shows(b, text)
       IN  /\ shown' = IF shows
                       THEN [shown EXCEPT ![b] = Append(@, [text |-> text, to |-> me[b].id])]
                       ELSE shown
           /\ jammed' = [jammed EXCEPT ![b] = @ \/ (shows /\ b \in Answerers)]
    /\ UNCHANGED <<me, socket, upward, member, said, identities, sockets, texts>>

\* onclose, or an attempt to connect that failed.
SocketCloses(b) ==
    /\ \/ socket[b].st \in {"open", "closing"} /\ member[b] = Gone
       \/ socket[b].st = "connecting"
    /\ socket' = [socket EXCEPT ![b].st = "none"]
    /\ downward' = [downward EXCEPT ![b] = <<>>]
    /\ UNCHANGED <<me, upward, member, said, jammed, identities, sockets, texts, shown>>

WebNext ==
    \E b \in Browser :
       \/ NewWebChat(b)
       \/ JoinInvite(b)
       \/ ConnectPage(b)
       \/ SocketOpens(b)
       \/ SendText(b)
       \/ HangUp(b)
       \/ RelayAdmits(b)
       \/ RelayReads(b)
       \/ RelayWrites(b)
       \/ ConnectionBreaks(b)
       \/ MessageArrives(b)
       \/ SocketCloses(b)

WebSpec == WebInit /\ [][WebNext]_webVars

-----------------------------------------------------------------------------
Place(i, text) == CHOOSE k \in DOMAIN said[i] : said[i][k] = text

\* Everybody in a room is shown its messages in one order, and those that came
\* over one socket without a gap, for as long as one keeps one's own identity:
\* whoever cannot keep up is disconnected instead (recv_task, send_task, the
\* room's broadcast channel).
OneConversation ==
    \A b \in Browser : \A j \in DOMAIN shown[b] : \A k \in 1..(j - 1) :
       LET x == shown[b][k].text
           y == shown[b][j].text
       IN  /\ x.room = y.room => Place(x.room, x) < Place(y.room, y)
           /\ x.id = y.id /\ x.by = y.by /\ shown[b][k].to = shown[b][j].to =>
                 \A n \in (x.n + 1)..(y.n - 1) :
                    \E h \in (k + 1)..(j - 1) :
                       shown[b][h].text.id = x.id /\ shown[b][h].text.n = n

\* An application may send from its callbacks, as the example in the crate's
\* documentation does: chat.send("Hello, world!") in on_connect.
CallbacksMaySend == \A b \in Chats : ~jammed[b]
=============================================================================
