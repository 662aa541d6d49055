---------------------------- MODULE CallsProofs ----------------------------
(***************************************************************************)
(* Theorems about Calls for every set of nodes, whichever of them run the   *)
(* Qt client, and all bounds.                                               *)
(*                                                                         *)
(* Consent rests on one fact: a call is put to one user, once.  A call that *)
(* was started is an Invite on its way, an event in the callee's queue, the *)
(* call its front end shows as ringing, or none of these, but never two;    *)
(* and once it is answered it is none of them, so the answer is the last    *)
(* word and only an accepted call is in the Accept messages and in the      *)
(* accept_call that is under way.                                           *)
(*                                                                         *)
(* From this, that each other participant is told of the answer once        *)
(* (ToldOnce): nothing can put a terminal user back who has left.           *)
(***************************************************************************)
EXTENDS Calls, TLAPS

Answered == accepted \union declined

(* The i-th message from s to r invites to c; the i-th event of n's queue   *)
(* announces c.                                                             *)
Invited(s, r, i, c) ==
    i \in 1..Len(net[s][r]) /\ net[s][r][i] = Msg("Invite", c)

Queued(n, i, c) ==
    i \in 1..Len(events[n]) /\ events[n][i] = Msg("Incoming", c)

Rings(n, c) == incoming[n] = c

(* An unanswered call that was started: what can still be put to a user.    *)
Open(c) == c <= calls /\ c \notin Answered

InvitedOnce(c) ==
    \A s \in Node, r \in Node, i \in Nat :
        Invited(s, r, i, c) =>
            /\ Open(c)
            /\ \A s2, r2 \in Node, j \in Nat :
                   Invited(s2, r2, j, c) => s2 = s /\ r2 = r /\ j = i
            /\ \A n \in Node, j \in Nat : ~Queued(n, j, c)
            /\ \A n \in Node : ~Rings(n, c)

QueuedOnce(c) ==
    \A n \in Node, i \in Nat :
        Queued(n, i, c) =>
            /\ Open(c)
            /\ \A m \in Node, j \in Nat : Queued(m, j, c) => m = n /\ j = i
            /\ \A m \in Node : ~Rings(m, c)

RingsOnce(c) ==
    \A n \in Node :
        Rings(n, c) =>
            /\ c <= calls
            /\ answering[n] # c => Open(c)
            /\ \A m \in Node : Rings(m, c) => m = n

Once(c) == InvitedOnce(c) /\ QueuedOnce(c) /\ RingsOnce(c)

AnsweredStarted == \A c \in Answered : c <= calls

(* The calls an answer or an accept_call may be about.                      *)
Agreed == accepted \ declined

Answering ==
    \A n \in Node :
        answering[n] # None => Rings(n, answering[n]) /\ answering[n] \in Agreed

AcceptsSent ==
    \A s, r \in Node : \A i \in 1..Len(net[s][r]) :
        net[s][r][i].kind = "Accept" => net[s][r][i].call \in Agreed

IInv ==
    /\ TypeOK
    /\ \A c \in Call : Once(c)
    /\ AnsweredStarted
    /\ Answering
    /\ AcceptsSent
    /\ Consent

-----------------------------------------------------------------------------
(* Types.                                                                   *)

LEMMA EntryType ==
    ASSUME NEW S, NEW f \in [Node -> S], NEW n \in Node, NEW v \in S
    PROVE  [f EXCEPT ![n] = v] \in [Node -> S]
OBVIOUS

LEMMA PostType ==
    ASSUME TypeOK, NEW n \in Node, NEW ms, NEW msg \in Frame,
           PostAll(n, ms, msg)
    PROVE  /\ net' \in [Node -> [Node -> Seq(Frame)]]
           /\ lost' \in 0..MaxLost
<1>1. PICK gone \in SUBSET ms :
        /\ gone # {} => lost < MaxLost
        /\ lost' = IF gone = {} THEN lost ELSE lost + 1
        /\ net' = [net EXCEPT ![n] = [m \in Node |->
                      IF m \in ms \ gone THEN Append(net[n][m], msg)
                      ELSE net[n][m]]]
  BY DEF PostAll
<1>2. [m \in Node |-> IF m \in ms \ gone THEN Append(net[n][m], msg)
                      ELSE net[n][m]] \in [Node -> Seq(Frame)]
  BY DEF TypeOK
<1>3. lost' \in 0..MaxLost
  BY <1>1, CallsAssumption DEF TypeOK
<1>4. QED
  BY <1>1, <1>2, <1>3, EntryType DEF TypeOK

LEMMA GotType ==
    ASSUME TypeOK, NEW s \in Node, NEW r \in Node, net[s][r] # <<>>
    PROVE  Got(s, r) \in Call /\ Tail(net[s][r]) \in Seq(Frame)
<1>1. net[s][r] \in Seq(Frame)
  BY DEF TypeOK
<1>2. Head(net[s][r]) \in Frame /\ Tail(net[s][r]) \in Seq(Frame)
  BY <1>1
<1>3. QED
  BY <1>2 DEF Got, Frame

LEMMA HandleType ==
    ASSUME TypeOK, NEW s \in Node, NEW r \in Node, net[s][r] # <<>>,
           NEW event \in {"Incoming", "Active", "Ended"},
           Handle(s, r, event)
    PROVE  /\ net' \in [Node -> [Node -> Seq(Frame)]]
           /\ events' \in [Node -> Seq(Event)]
<1>1. net[s][r] \in Seq(Frame) /\ events[r] \in Seq(Event)
  BY DEF TypeOK
<1>2. Msg(event, Got(s, r)) \in Event
  <2>1. Got(s, r) \in Call
    BY GotType
  <2>2. QED
    BY <2>1 DEF Msg, Event
<1>3. Append(events[r], Msg(event, Got(s, r))) \in Seq(Event)
  BY <1>1, <1>2
<1>4. events' = [events EXCEPT ![r] = Append(events[r], Msg(event, Got(s, r)))]
  BY DEF Handle
<1>5. Tail(net[s][r]) \in Seq(Frame)
  BY GotType
<1>6. net' \in [Node -> [Node -> Seq(Frame)]]
  BY <1>5 DEF Handle, TypeOK
<1>7. QED
  BY <1>3, <1>4, <1>6, EntryType DEF TypeOK

LEMMA ToldType ==
    ASSUME TypeOK, NEW n \in Node, events[n] # <<>>
    PROVE  Told(n) \in Call /\ Tail(events[n]) \in Seq(Event)
<1>1. events[n] \in Seq(Event)
  BY DEF TypeOK
<1>2. Head(events[n]) \in Event /\ Tail(events[n]) \in Seq(Event)
  BY <1>1
<1>3. QED
  BY <1>2 DEF Told, Event

LEMMA StateType ==
    ASSUME TypeOK, NEW n \in Node, NEW c \in Call,
           NEW s \in States, SetState(n, c, s)
    PROVE  state' \in [Node -> [Call -> States]]
BY DEF SetState, TypeOK

LEMMA MembersType ==
    ASSUME TypeOK, NEW n \in Node, NEW c \in Call,
           NEW ms \in SUBSET Node, AddMembers(n, c, ms)
    PROVE  members' \in [Node -> [Call -> SUBSET Node]]
BY DEF AddMembers, TypeOK

LEMMA LeaveType ==
    ASSUME TypeOK, NEW n, NEW c
    PROVE  Leave(n, c) \in [Node -> Call \union {None}]
BY DEF Leave, TypeOK

LEMMA StateNames ==
    "Ringing" \in States /\ "Active" \in States /\ "Ended" \in States
BY DEF States

LEMMA TypeInit == Init => TypeOK
BY CallsAssumption DEF Init, TypeOK, States

LEMMA TypeStart ==
    ASSUME TypeOK, NEW n \in Node, NEW m \in Node, Start(n, m)
    PROVE  TypeOK'
<1>1. calls + 1 \in Call /\ calls' = calls + 1 /\ calls' \in 0..MaxCall
  BY CallsAssumption DEF Start, Call, TypeOK
<1>2. Msg("Invite", calls + 1) \in Frame
  BY <1>1 DEF Msg, Frame, Kinds
<1>3. net' \in [Node -> [Node -> Seq(Frame)]] /\ lost' \in 0..MaxLost
  BY <1>2, PostType DEF Start
<1>4. /\ state' \in [Node -> [Call -> States]]
      /\ members' \in [Node -> [Call -> SUBSET Node]]
  <2>1. SetState(n, calls + 1, "Ringing") /\ AddMembers(n, calls + 1, {n, m})
    BY DEF Start
  <2>2. {n, m} \in SUBSET Node
    OBVIOUS
  <2>3. QED
    BY <1>1, <2>1, <2>2, StateType, MembersType, StateNames
<1>5. caller' \in [Call -> Node \union {None}]
  BY <1>1 DEF Start, TypeOK
<1>6. /\ incoming' \in [Node -> Call \union {None}]
      /\ shown' \in [Node -> Call \union {None}]
  BY <1>1 DEF Start, TypeOK, front
<1>7. QED
  BY <1>1, <1>3, <1>4, <1>5, <1>6 DEF Start, TypeOK

LEMMA TypeAccept ==
    ASSUME TypeOK, NEW n \in Node, Accept(n)
    PROVE  TypeOK'
<1> DEFINE c == incoming[n]
<1>1. c \in Call
  BY DEF Accept, TypeOK
<1>2. Msg("Accept", c) \in Frame
  BY <1>1 DEF Msg, Frame, Kinds
<1>3. net' \in [Node -> [Node -> Seq(Frame)]] /\ lost' \in 0..MaxLost
  BY <1>2, PostType DEF Accept
<1>4. /\ state' \in [Node -> [Call -> States]]
      /\ members' \in [Node -> [Call -> SUBSET Node]]
  <2>1. SetState(n, c, "Active") /\ AddMembers(n, c, {n})
    BY DEF Accept
  <2>2. {n} \in SUBSET Node
    OBVIOUS
  <2>3. QED
    BY <1>1, <2>1, <2>2, StateType, MembersType, StateNames
<1>5. answering' \in [Node -> Call \union {None}] /\ accepted' \subseteq Call
  BY <1>1 DEF Accept, TypeOK
<1>6. QED
  BY <1>3, <1>4, <1>5 DEF Accept, TypeOK, front

LEMMA TypeAccepted ==
    ASSUME TypeOK, NEW n \in Node, Accepted(n)
    PROVE  TypeOK'
BY DEF Accepted, TypeOK, history

LEMMA TypeDeclineCall ==
    ASSUME TypeOK, NEW n \in Node, NEW c \in Call, DeclineCall(n, c),
           incoming' \in [Node -> Call \union {None}],
           shown' \in [Node -> Call \union {None}],
           events' \in [Node -> Seq(Event)]
    PROVE  TypeOK'
<1>1. Msg("Decline", c) \in Frame
  BY DEF Msg, Frame, Kinds
<1>2. net' \in [Node -> [Node -> Seq(Frame)]] /\ lost' \in 0..MaxLost
  BY <1>1, PostType DEF DeclineCall
<1>3. /\ state' \in [Node -> [Call -> States]]
      /\ active' \in [Node -> Call \union {None}]
  BY StateType, LeaveType, StateNames DEF DeclineCall
<1>4. QED
  BY <1>2, <1>3 DEF DeclineCall, TypeOK

LEMMA TypeDecline ==
    ASSUME TypeOK, NEW n \in Node, Decline(n)
    PROVE  TypeOK'
<1>1. incoming[n] \in Call /\ DeclineCall(n, incoming[n])
  BY DEF Decline, TypeOK
<1>2. /\ incoming' \in [Node -> Call \union {None}]
      /\ shown' \in [Node -> Call \union {None}]
      /\ events' \in [Node -> Seq(Event)]
  BY DEF Decline, TypeOK
<1>3. QED
  BY <1>1, <1>2, TypeDeclineCall

LEMMA TypeHangUp ==
    ASSUME TypeOK, NEW n \in Node, HangUp(n)
    PROVE  TypeOK'
<1> DEFINE c == shown[n]
<1>1. c \in Call
  BY DEF HangUp, TypeOK
<1>2. Msg("Bye", c) \in Frame
  BY <1>1 DEF Msg, Frame, Kinds
<1>3. net' \in [Node -> [Node -> Seq(Frame)]] /\ lost' \in 0..MaxLost
  BY <1>2, PostType DEF HangUp
<1>4. /\ state' \in [Node -> [Call -> States]]
      /\ active' \in [Node -> Call \union {None}]
  BY <1>1, StateType, LeaveType, StateNames DEF HangUp
<1>5. /\ hungUp' \subseteq Node \X Call
      /\ shown' \in [Node -> Call \union {None}]
  BY <1>1 DEF HangUp, TypeOK
<1>6. QED
  BY <1>3, <1>4, <1>5 DEF HangUp, TypeOK

LEMMA TypeReceive ==
    ASSUME TypeOK, NEW s \in Node, NEW r \in Node, Receive(s, r)
    PROVE  TypeOK'
<1> DEFINE c == Got(s, r)
<1>1. net[s][r] # <<>>
  BY DEF Receive, RecvInvite, RecvAccept, RecvEnd, Arrives
<1>2. c \in Call
  BY <1>1, GotType
<1>3. PICK event \in {"Incoming", "Active", "Ended"} : Handle(s, r, event)
  BY DEF Receive, RecvInvite, RecvAccept, RecvEnd
<1>4. /\ net' \in [Node -> [Node -> Seq(Frame)]]
      /\ events' \in [Node -> Seq(Event)]
  BY <1>1, <1>3, HandleType
<1>5. /\ state' \in [Node -> [Call -> States]]
      /\ members' \in [Node -> [Call -> SUBSET Node]]
      /\ active' \in [Node -> Call \union {None}]
  <2>1. CASE RecvInvite(s, r)
    <3>1. /\ SetState(r, c, "Ringing") /\ AddMembers(r, c, {s, r})
          /\ UNCHANGED active
      BY <2>1 DEF RecvInvite
    <3>2. {s, r} \in SUBSET Node
      OBVIOUS
    <3>3. active' \in [Node -> Call \union {None}]
      BY <1>2, <3>1 DEF TypeOK
    <3>4. QED
      BY <1>2, <3>1, <3>2, <3>3, StateType, MembersType, StateNames
  <2>2. CASE RecvAccept(s, r)
    <3>1. /\ SetState(r, c, "Active") /\ AddMembers(r, c, {s, r})
          /\ active' = [active EXCEPT ![r] = c]
      BY <2>2 DEF RecvAccept
    <3>2. {s, r} \in SUBSET Node
      OBVIOUS
    <3>3. active' \in [Node -> Call \union {None}]
      BY <1>2, <3>1 DEF TypeOK
    <3>4. QED
      BY <1>2, <3>1, <3>2, <3>3, StateType, MembersType, StateNames
  <2>3. CASE RecvEnd(s, r)
    BY <2>3, <1>2, StateType, LeaveType, StateNames DEF RecvEnd, TypeOK
  <2>4. QED
    BY <2>1, <2>2, <2>3 DEF Receive
<1>6. QED
  BY <1>3, <1>4, <1>5 DEF Handle, TypeOK, front, history

LEMMA TypeShow ==
    ASSUME TypeOK, NEW n \in Node, Show(n)
    PROVE  TypeOK'
<1>1. events[n] # <<>> /\ NextEvent(n)
  BY DEF Show, ShowIncoming, Busy, ShowNothing, ShowActive, ShowEnded, Shows
<1>2. Told(n) \in Call /\ Tail(events[n]) \in Seq(Event)
  BY <1>1, ToldType
<1>3. events' \in [Node -> Seq(Event)]
  BY <1>1, <1>2 DEF NextEvent, TypeOK
<1>4. CASE ShowIncoming(n)
  BY <1>2, <1>3, <1>4 DEF ShowIncoming, TypeOK, mesh, history
<1>5. CASE Busy(n)
  BY <1>2, <1>3, <1>5, TypeDeclineCall DEF Busy, front, TypeOK
<1>6. CASE ShowNothing(n)
  BY <1>3, <1>6 DEF ShowNothing, TypeOK, mesh, front, history
<1>7. CASE ShowActive(n)
  BY <1>2, <1>3, <1>7 DEF ShowActive, TypeOK, mesh, history
<1>8. CASE ShowEnded(n)
  BY <1>2, <1>3, <1>8 DEF ShowEnded, TypeOK, mesh, history
<1>9. QED
  BY <1>4, <1>5, <1>6, <1>7, <1>8 DEF Show

LEMMA TypeNext == TypeOK /\ [Next]_vars => TypeOK'
<1> SUFFICES ASSUME TypeOK, [Next]_vars PROVE TypeOK'
  OBVIOUS
<1>1. ASSUME NEW n \in Node, User(n) PROVE TypeOK'
  BY <1>1, TypeStart, TypeAccept, TypeDecline, TypeHangUp DEF User
<1>2. ASSUME NEW n \in Node, Accepted(n) PROVE TypeOK'
  BY <1>2, TypeAccepted
<1>3. ASSUME NEW n \in Node, Show(n) PROVE TypeOK'
  BY <1>3, TypeShow
<1>4. ASSUME NEW s \in Node, NEW r \in Node, Receive(s, r) PROVE TypeOK'
  BY <1>4, TypeReceive
<1>5. CASE UNCHANGED vars
  BY <1>5 DEF TypeOK, vars, mesh, front, history
<1>6. QED
  BY <1>1, <1>2, <1>3, <1>4, <1>5 DEF Next

(* The tables and queues of every node hold what they should, whatever the  *)
(* users do and whatever is lost.                                           *)
THEOREM TypeCorrect == Spec => []TypeOK
<1>1. Spec => []TypeOK
  BY TypeInit, TypeNext, PTL DEF Spec
<1>2. QED
  BY <1>1

-----------------------------------------------------------------------------
(* What the steps do to the messages and the events, position by position.  *)

LEMMA MsgFields ==
    ASSUME NEW k, NEW c
    PROVE  Msg(k, c).kind = k /\ Msg(k, c).call = c
BY DEF Msg

(* PostAll puts its message at the end of some queues of n.                 *)
LEMMA PostFrames ==
    ASSUME TypeOK, NEW n \in Node, NEW ms, NEW msg \in Frame,
           PostAll(n, ms, msg),
           NEW s \in Node, NEW r \in Node, NEW i \in 1..Len(net'[s][r])
    PROVE  \/ i \in 1..Len(net[s][r]) /\ net'[s][r][i] = net[s][r][i]
           \/ /\ s = n /\ r \in ms /\ i = Len(net[s][r]) + 1
              /\ net'[s][r][i] = msg
<1>1. PICK gone \in SUBSET ms :
        net' = [net EXCEPT ![n] = [m \in Node |->
                   IF m \in ms \ gone THEN Append(net[n][m], msg)
                   ELSE net[n][m]]]
  BY DEF PostAll
<1>2. net[s][r] \in Seq(Frame)
  BY DEF TypeOK
<1>3. CASE s = n /\ r \in ms \ gone
  <2>1. net'[s][r] = Append(net[s][r], msg)
    BY <1>1, <1>3 DEF TypeOK
  <2>2. QED
    BY <1>2, <1>3, <2>1
<1>4. CASE ~(s = n /\ r \in ms \ gone)
  <2>1. net'[s][r] = net[s][r]
    BY <1>1, <1>4 DEF TypeOK
  <2>2. QED
    BY <2>1
<1>5. QED
  BY <1>3, <1>4

(* Handle takes the first message from s to r.                              *)
LEMMA TakeFrames ==
    ASSUME TypeOK, NEW s \in Node, NEW r \in Node, net[s][r] # <<>>,
           NEW event, Handle(s, r, event),
           NEW x \in Node, NEW y \in Node, NEW i \in 1..Len(net'[x][y])
    PROVE  \/ /\ x # s \/ y # r
              /\ i \in 1..Len(net[x][y]) /\ net'[x][y][i] = net[x][y][i]
           \/ /\ x = s /\ y = r
              /\ i + 1 \in 1..Len(net[x][y])
              /\ net'[x][y][i] = net[x][y][i + 1]
<1>1. net[s][r] \in Seq(Frame)
  BY DEF TypeOK
<1>2. net' = [net EXCEPT ![s][r] = Tail(net[s][r])]
  BY DEF Handle
<1>3. CASE x = s /\ y = r
  <2>1. net'[x][y] = Tail(net[s][r])
    BY <1>2, <1>3 DEF TypeOK
  <2>2. QED
    BY <1>1, <1>3, <2>1
<1>4. CASE x # s \/ y # r
  <2>1. net'[x][y] = net[x][y]
    BY <1>2, <1>4 DEF TypeOK
  <2>2. QED
    BY <1>4, <2>1
<1>5. QED
  BY <1>3, <1>4

(* Handle puts its event at the end of r's queue.                           *)
LEMMA HandleEvents ==
    ASSUME TypeOK, NEW s \in Node, NEW r \in Node,
           NEW event, Handle(s, r, event),
           NEW n \in Node, NEW i \in 1..Len(events'[n])
    PROVE  \/ i \in 1..Len(events[n]) /\ events'[n][i] = events[n][i]
           \/ /\ n = r /\ i = Len(events[n]) + 1
              /\ events'[n][i] = Msg(event, Got(s, r))
<1>1. events[n] \in Seq(Event)
  BY DEF TypeOK
<1>2. events' = [events EXCEPT ![r] = Append(events[r], Msg(event, Got(s, r)))]
  BY DEF Handle
<1>3. CASE n = r
  <2>1. events'[n] = Append(events[n], Msg(event, Got(s, r)))
    BY <1>2, <1>3 DEF TypeOK
  <2>2. QED
    BY <1>1, <1>3, <2>1
<1>4. CASE n # r
  BY <1>2, <1>4 DEF TypeOK
<1>5. QED
  BY <1>3, <1>4

(* The front end takes the first event of n's queue.                        *)
LEMMA TakeEvents ==
    ASSUME TypeOK, NEW n \in Node, events[n] # <<>>, NextEvent(n),
           NEW m \in Node, NEW i \in 1..Len(events'[m])
    PROVE  \/ /\ m # n
              /\ i \in 1..Len(events[m]) /\ events'[m][i] = events[m][i]
           \/ /\ m = n
              /\ i + 1 \in 1..Len(events[m])
              /\ events'[m][i] = events[m][i + 1]
<1>1. events[n] \in Seq(Event)
  BY DEF TypeOK
<1>2. CASE m = n
  <2>1. events'[m] = Tail(events[n])
    BY <1>2 DEF NextEvent, TypeOK
  <2>2. QED
    BY <1>1, <1>2, <2>1
<1>3. CASE m # n
  BY <1>3 DEF NextEvent, TypeOK
<1>4. QED
  BY <1>2, <1>3

LEMMA HeadOfQueue ==
    ASSUME NEW S, NEW q \in Seq(S), q # <<>>
    PROVE  Head(q) = q[1] /\ 1 \in 1..Len(q)
OBVIOUS

-----------------------------------------------------------------------------
(* A call that a step does not put to anyone stays as it was: the positions *)
(* of its Invite and of its event only move up, by sh and eh.               *)
LEMMA Undisturbed ==
    ASSUME NEW c \in Call, Once(c),
           NEW sh \in [Node -> [Node -> Nat]], NEW eh \in [Node -> Nat],
           \A s \in Node, r \in Node, i \in Nat :
               Invited(s, r, i, c)' => Invited(s, r, i + sh[s][r], c),
           \A n \in Node, i \in Nat : Queued(n, i, c)' => Queued(n, i + eh[n], c),
           \A n \in Node :
               Rings(n, c)' => Rings(n, c) /\ (answering[n] = c => answering'[n] = c),
           Open(c) => Open(c)',
           c <= calls => c <= calls'
    PROVE  Once(c)'
<1>1. \A s, r \in Node, i \in Nat : i + sh[s][r] \in Nat
  OBVIOUS
<1>2. \A n \in Node, i \in Nat : i + eh[n] \in Nat
  OBVIOUS
<1>3. InvitedOnce(c)'
  <2> SUFFICES ASSUME NEW s \in Node, NEW r \in Node, NEW i \in Nat,
                      Invited(s, r, i, c)'
               PROVE  /\ Open(c)'
                      /\ \A s2, r2 \in Node, j \in Nat :
                             Invited(s2, r2, j, c)' => s2 = s /\ r2 = r /\ j = i
                      /\ \A n \in Node, j \in Nat : ~Queued(n, j, c)'
                      /\ \A n \in Node : ~Rings(n, c)'
    BY DEF InvitedOnce
  <2>1. Invited(s, r, i + sh[s][r], c)
    OBVIOUS
  <2>2. /\ Open(c)
        /\ \A s2, r2 \in Node, j \in Nat :
               Invited(s2, r2, j, c) => s2 = s /\ r2 = r /\ j = i + sh[s][r]
        /\ \A n \in Node, j \in Nat : ~Queued(n, j, c)
        /\ \A n \in Node : ~Rings(n, c)
    BY <1>1, <2>1 DEF Once, InvitedOnce
  <2>3. ASSUME NEW s2 \in Node, NEW r2 \in Node, NEW j \in Nat,
               Invited(s2, r2, j, c)'
        PROVE  s2 = s /\ r2 = r /\ j = i
    <3>1. Invited(s2, r2, j + sh[s2][r2], c)
      BY <2>3
    <3>2. s2 = s /\ r2 = r /\ j + sh[s2][r2] = i + sh[s][r]
      BY <1>1, <2>2, <3>1
    <3>3. sh[s][r] \in Nat
      OBVIOUS
    <3>4. QED
      BY <3>2, <3>3
  <2>4. QED
    BY <1>2, <2>2, <2>3
<1>4. QueuedOnce(c)'
  <2> SUFFICES ASSUME NEW n \in Node, NEW i \in Nat, Queued(n, i, c)'
               PROVE  /\ Open(c)'
                      /\ \A m \in Node, j \in Nat :
                             Queued(m, j, c)' => m = n /\ j = i
                      /\ \A m \in Node : ~Rings(m, c)'
    BY DEF QueuedOnce
  <2>1. Queued(n, i + eh[n], c)
    OBVIOUS
  <2>2. /\ Open(c)
        /\ \A m \in Node, j \in Nat : Queued(m, j, c) => m = n /\ j = i + eh[n]
        /\ \A m \in Node : ~Rings(m, c)
    BY <1>2, <2>1 DEF Once, QueuedOnce
  <2>3. ASSUME NEW m \in Node, NEW j \in Nat, Queued(m, j, c)'
        PROVE  m = n /\ j = i
    <3>1. Queued(m, j + eh[m], c)
      BY <2>3
    <3>2. m = n /\ j + eh[m] = i + eh[n]
      BY <1>2, <2>2, <3>1
    <3>3. eh[n] \in Nat
      OBVIOUS
    <3>4. QED
      BY <3>2, <3>3
  <2>4. QED
    BY <2>2, <2>3
<1>5. RingsOnce(c)'
  BY DEF Once, RingsOnce
<1>6. QED
  BY <1>3, <1>4, <1>5 DEF Once

(* A call that nobody is asked about any more.                              *)
LEMMA Settles ==
    ASSUME NEW c \in Call,
           \A s, r \in Node, i \in Nat : ~Invited(s, r, i, c)',
           \A n \in Node, i \in Nat : ~Queued(n, i, c)',
           \A n \in Node : ~Rings(n, c)'
    PROVE  Once(c)'
BY DEF Once, InvitedOnce, QueuedOnce, RingsOnce

(* Sending something that is not an Invite puts no call to anyone.          *)
LEMMA PostInvites ==
    ASSUME TypeOK, NEW n \in Node, NEW ms, NEW msg \in Frame,
           PostAll(n, ms, msg), msg.kind # "Invite",
           NEW s \in Node, NEW r \in Node, NEW i \in Nat, NEW c,
           Invited(s, r, i, c)'
    PROVE  Invited(s, r, i, c)
<1>1. i \in 1..Len(net'[s][r]) /\ net'[s][r][i] = Msg("Invite", c)
  BY DEF Invited
<1>2. net'[s][r][i] # msg
  BY <1>1, MsgFields
<1>3. QED
  BY <1>1, <1>2, PostFrames DEF Invited

LEMMA TakeInvites ==
    ASSUME TypeOK, NEW s \in Node, NEW r \in Node, net[s][r] # <<>>,
           NEW event, Handle(s, r, event),
           NEW x \in Node, NEW y \in Node, NEW i \in Nat, NEW c,
           Invited(x, y, i, c)'
    PROVE  Invited(x, y, IF x = s /\ y = r THEN i + 1 ELSE i, c)
<1>1. i \in 1..Len(net'[x][y]) /\ net'[x][y][i] = Msg("Invite", c)
  BY DEF Invited
<1>2. QED
  BY <1>1, TakeFrames DEF Invited

LEMMA TakeQueued ==
    ASSUME TypeOK, NEW n \in Node, events[n] # <<>>, NextEvent(n),
           NEW m \in Node, NEW i \in Nat, NEW c,
           Queued(m, i, c)'
    PROVE  Queued(m, IF m = n THEN i + 1 ELSE i, c)
<1>1. i \in 1..Len(events'[m]) /\ events'[m][i] = Msg("Incoming", c)
  BY DEF Queued
<1>2. QED
  BY <1>1, TakeEvents DEF Queued

(* No shift: for the steps that take nothing from a queue.                  *)
Still == [s \in Node |-> [r \in Node |-> 0]]
Idle  == [n \in Node |-> 0]

(* The first message of a queue, and the first event.                       *)
LEMMA GotHead ==
    ASSUME TypeOK, NEW s \in Node, NEW r \in Node, NEW kind,
           Arrives(s, r, kind)
    PROVE  /\ net[s][r] # <<>>
           /\ 1 \in 1..Len(net[s][r])
           /\ net[s][r][1] = Msg(kind, Got(s, r))
           /\ Got(s, r) \in Call
<1>1. net[s][r] \in Seq(Frame) /\ net[s][r] # <<>>
  BY DEF TypeOK, Arrives
<1>2. Head(net[s][r]) = net[s][r][1] /\ 1 \in 1..Len(net[s][r])
  BY <1>1, HeadOfQueue
<1>3. net[s][r][1] \in Frame
  BY <1>1, <1>2
<1>4. QED
  BY <1>1, <1>2, <1>3 DEF Arrives, Got, Frame, Msg

LEMMA ToldHead ==
    ASSUME TypeOK, NEW n \in Node, NEW kind, Shows(n, kind)
    PROVE  /\ events[n] # <<>>
           /\ 1 \in 1..Len(events[n])
           /\ events[n][1] = Msg(kind, Told(n))
           /\ Told(n) \in Call
<1>1. events[n] \in Seq(Event) /\ events[n] # <<>>
  BY DEF TypeOK, Shows
<1>2. Head(events[n]) = events[n][1] /\ 1 \in 1..Len(events[n])
  BY <1>1, HeadOfQueue
<1>3. events[n][1] \in Event
  BY <1>1, <1>2
<1>4. QED
  BY <1>1, <1>2, <1>3 DEF Shows, Told, Event, Msg

(* The call a front end shows as ringing is put to nobody else.             *)
LEMMA OnlyRings ==
    ASSUME IInv, NEW n \in Node, NEW c \in Call, Rings(n, c)
    PROVE  /\ \A s, r \in Node, i \in Nat : ~Invited(s, r, i, c)
           /\ \A m \in Node, i \in Nat : ~Queued(m, i, c)
           /\ \A m \in Node : Rings(m, c) => m = n
           /\ c <= calls
           /\ answering[n] # c => Open(c)
<1>1. Once(c)
  BY DEF IInv
<1>2. QED
  BY <1>1 DEF Once, InvitedOnce, QueuedOnce, RingsOnce

LEMMA OnlyQueued ==
    ASSUME IInv, NEW n \in Node, NEW k \in Nat, NEW c \in Call, Queued(n, k, c)
    PROVE  /\ \A s, r \in Node, i \in Nat : ~Invited(s, r, i, c)
           /\ \A m \in Node, i \in Nat : Queued(m, i, c) => m = n /\ i = k
           /\ \A m \in Node : ~Rings(m, c)
           /\ Open(c)
<1>1. Once(c)
  BY DEF IInv
<1>2. QED
  BY <1>1 DEF Once, InvitedOnce, QueuedOnce

LEMMA OnlyInvited ==
    ASSUME IInv, NEW x \in Node, NEW y \in Node, NEW k \in Nat, NEW c \in Call,
           Invited(x, y, k, c)
    PROVE  /\ \A s, r \in Node, i \in Nat :
                  Invited(s, r, i, c) => s = x /\ r = y /\ i = k
           /\ \A m \in Node, i \in Nat : ~Queued(m, i, c)
           /\ \A m \in Node : ~Rings(m, c)
           /\ Open(c)
<1>1. Once(c)
  BY DEF IInv
<1>2. QED
  BY <1>1 DEF Once, InvitedOnce

-----------------------------------------------------------------------------
(* Every step puts a call to one user at most.                              *)

LEMMA OnceStart ==
    ASSUME IInv, NEW n \in Node, NEW m \in Node, Start(n, m), NEW c \in Call
    PROVE  Once(c)'
<1> DEFINE d == calls + 1
           k == Len(net[n][m]) + 1
<1>1. TypeOK /\ Once(c) /\ AnsweredStarted
  BY DEF IInv
<1>2. d \in Call /\ calls \in Nat /\ c \in Nat /\ calls' = d
  BY <1>1, CallsAssumption DEF Start, Call, TypeOK
<1>3. Msg("Invite", d) \in Frame /\ PostAll(n, {m}, Msg("Invite", d))
  BY <1>2 DEF Msg, Frame, Kinds, Start
<1>4. ASSUME NEW s \in Node, NEW r \in Node, NEW i \in Nat, Invited(s, r, i, c)'
      PROVE  Invited(s, r, i, c) \/ (c = d /\ s = n /\ r = m /\ i = k)
  <2>1. i \in 1..Len(net'[s][r]) /\ net'[s][r][i] = Msg("Invite", c)
    BY <1>4 DEF Invited
  <2>2. \/ i \in 1..Len(net[s][r]) /\ net'[s][r][i] = net[s][r][i]
        \/ /\ s = n /\ r \in {m} /\ i = Len(net[s][r]) + 1
           /\ net'[s][r][i] = Msg("Invite", d)
    BY <1>1, <1>3, <2>1, PostFrames
  <2>3. QED
    BY <2>1, <2>2, MsgFields DEF Invited
<1>5. \A p \in Node, i \in Nat : Queued(p, i, c)' => Queued(p, i, c)
  BY DEF Start, Queued
<1>6. \A p \in Node : Rings(p, c)' => Rings(p, c)
  <2>1. CASE UNCHANGED incoming
    BY <2>1 DEF Rings
  <2>2. CASE incoming' = [incoming EXCEPT ![n] = None]
    BY <1>1, <2>2 DEF Rings, TypeOK, None, Call
  <2>3. QED
    BY <2>1, <2>2 DEF Start, front
<1>7. UNCHANGED <<answering, accepted, declined>>
  BY DEF Start
<1>8. (Open(c) => Open(c)') /\ (c <= calls => c <= calls')
  BY <1>2, <1>7 DEF Open, Answered
<1>9. CASE c # d
  <2>1. \A s, r \in Node, i \in Nat :
            Invited(s, r, i, c)' => Invited(s, r, i + Still[s][r], c)
    BY <1>4, <1>9 DEF Still
  <2>2. \A p \in Node, i \in Nat : Queued(p, i, c)' => Queued(p, i + Idle[p], c)
    BY <1>5 DEF Idle
  <2>3. Still \in [Node -> [Node -> Nat]] /\ Idle \in [Node -> Nat]
    BY DEF Still, Idle
  <2>4. QED
    BY <1>1, <1>6, <1>7, <1>8, <2>1, <2>2, <2>3, Undisturbed
<1>10. CASE c = d
  <2>1. ~(c <= calls) /\ c \notin Answered
    BY <1>1, <1>2, <1>10 DEF AnsweredStarted
  <2>2. /\ \A s, r \in Node, i \in Nat : ~Invited(s, r, i, c)
        /\ \A p \in Node, i \in Nat : ~Queued(p, i, c)
        /\ \A p \in Node : ~Rings(p, c)
    BY <1>1, <2>1 DEF Once, InvitedOnce, QueuedOnce, RingsOnce, Open
  <2>3. Open(c)'
    BY <1>2, <1>7, <1>10, <2>1 DEF Open, Answered
  <2>4. /\ \A s, r \in Node, i \in Nat :
               Invited(s, r, i, c)' => s = n /\ r = m /\ i = k
        /\ \A p \in Node, i \in Nat : ~Queued(p, i, c)'
        /\ \A p \in Node : ~Rings(p, c)'
    BY <1>4, <1>5, <1>6, <2>2
  <2>5. QED
    BY <2>3, <2>4 DEF Once, InvitedOnce, QueuedOnce, RingsOnce
<1>11. QED
  BY <1>9, <1>10

(* The steps of n that send anything but an Invite and take no event.       *)
LEMMA OncePost ==
    ASSUME IInv, NEW n \in Node, NEW ms, NEW msg \in Frame,
           PostAll(n, ms, msg), msg.kind # "Invite",
           UNCHANGED <<events, calls>>, NEW c \in Call,
           \A m \in Node :
               Rings(m, c)' => Rings(m, c) /\ (answering[m] = c => answering'[m] = c),
           Open(c) => Open(c)'
    PROVE  Once(c)'
<1>1. TypeOK /\ Once(c)
  BY DEF IInv
<1>2. \A s, r \in Node, i \in Nat :
          Invited(s, r, i, c)' => Invited(s, r, i + Still[s][r], c)
  BY <1>1, PostInvites DEF Still
<1>3. \A p \in Node, i \in Nat : Queued(p, i, c)' => Queued(p, i + Idle[p], c)
  BY DEF Idle, Queued
<1>4. Still \in [Node -> [Node -> Nat]] /\ Idle \in [Node -> Nat]
  BY DEF Still, Idle
<1>5. QED
  BY <1>1, <1>2, <1>3, <1>4, Undisturbed

LEMMA OnceAccept ==
    ASSUME IInv, NEW n \in Node, Accept(n), NEW c \in Call
    PROVE  Once(c)'
<1> DEFINE d == incoming[n]
<1>1. TypeOK
  BY DEF IInv
<1>2. d \in Call /\ Msg("Accept", d) \in Frame /\ answering[n] = None
  BY <1>1 DEF Accept, TypeOK, Msg, Frame, Kinds, Free
<1>3. Msg("Accept", d).kind # "Invite"
  BY MsgFields
<1>4. PostAll(n, members[n][d] \ {n}, Msg("Accept", d))
  BY DEF Accept
<1>5. UNCHANGED <<events, calls, incoming, declined>>
  BY DEF Accept, front
<1>6. answering' = [answering EXCEPT ![n] = d] /\ accepted' = accepted \union {d}
  BY DEF Accept
<1>7. CASE c # d
  <2>1. Open(c) => Open(c)'
    BY <1>5, <1>6, <1>7 DEF Open, Answered
  <2>2. \A m \in Node : answering[m] = c => answering'[m] = c
    BY <1>1, <1>2, <1>6 DEF TypeOK, None, Call
  <2>3. \A m \in Node : Rings(m, c)' => Rings(m, c)
    BY <1>5 DEF Rings
  <2>4. QED
    BY <1>2, <1>3, <1>4, <1>5, <2>1, <2>2, <2>3, OncePost
<1>8. CASE c = d
  <2>1. Rings(n, c)
    BY <1>8 DEF Rings
  <2>2. /\ \A s, r \in Node, i \in Nat : ~Invited(s, r, i, c)
        /\ \A m \in Node, i \in Nat : ~Queued(m, i, c)
        /\ \A m \in Node : Rings(m, c) => m = n
        /\ c <= calls
    BY <2>1, OnlyRings
  <2>3. /\ \A s, r \in Node, i \in Nat : ~Invited(s, r, i, c)'
        /\ \A m \in Node, i \in Nat : ~Queued(m, i, c)'
        /\ \A m \in Node : Rings(m, c)' => m = n
        /\ c <= calls'
    BY <1>1, <1>2, <1>3, <1>4, <1>5, <2>2, PostInvites DEF Queued, Rings
  <2>4. answering'[n] = c
    BY <1>1, <1>6, <1>8 DEF TypeOK
  <2>5. QED
    BY <2>3, <2>4 DEF Once, InvitedOnce, QueuedOnce, RingsOnce
<1>9. QED
  BY <1>7, <1>8

LEMMA OnceAccepted ==
    ASSUME IInv, NEW n \in Node, Accepted(n), NEW c \in Call
    PROVE  Once(c)'
<1> DEFINE d == answering[n]
<1>1. TypeOK /\ Once(c) /\ Rings(n, d) /\ d \in Call
  BY DEF IInv, Answering, Accepted, Free, TypeOK
<1>2. UNCHANGED <<net, events, calls, accepted, declined>>
  BY DEF Accepted, history
<1>3. /\ answering' = [answering EXCEPT ![n] = None]
      /\ incoming' = [incoming EXCEPT ![n] = None]
  BY DEF Accepted
<1>4. \A m \in Node : Rings(m, c)' => m # n /\ Rings(m, c) /\ answering'[m] = answering[m]
  BY <1>1, <1>3 DEF Rings, TypeOK, None, Call
<1>5. \A s, r \in Node, i \in Nat :
          Invited(s, r, i, c)' => Invited(s, r, i + Still[s][r], c)
  BY <1>2 DEF Still, Invited
<1>6. \A p \in Node, i \in Nat : Queued(p, i, c)' => Queued(p, i + Idle[p], c)
  BY <1>2 DEF Idle, Queued
<1>7. Still \in [Node -> [Node -> Nat]] /\ Idle \in [Node -> Nat]
  BY DEF Still, Idle
<1>8. (Open(c) => Open(c)') /\ (c <= calls => c <= calls')
  BY <1>2 DEF Open, Answered
<1>9. QED
  BY <1>1, <1>4, <1>5, <1>6, <1>7, <1>8, Undisturbed

(* decline_call: the call is one that could still be answered, and nobody   *)
(* is asked about it afterwards.                                            *)
LEMMA OnceDecline ==
    ASSUME IInv, NEW n \in Node, Decline(n), NEW c \in Call
    PROVE  Once(c)'
<1> DEFINE d == incoming[n]
<1>1. TypeOK
  BY DEF IInv
<1>2. d \in Call /\ Msg("Decline", d) \in Frame
  BY <1>1 DEF Decline, TypeOK, Msg, Frame, Kinds
<1>3. Msg("Decline", d).kind # "Invite"
  BY MsgFields
<1>4. PostAll(n, members[n][d] \ {n}, Msg("Decline", d))
  BY DEF Decline, DeclineCall
<1>5. UNCHANGED <<events, calls, answering, accepted>>
  BY DEF Decline, DeclineCall
<1>6. /\ declined' = declined \union {d}
      /\ incoming' = [incoming EXCEPT ![n] = None]
  BY DEF Decline, DeclineCall
<1>7. \A m \in Node : Rings(m, c)' => Rings(m, c) /\ m # n
  BY <1>1, <1>6 DEF Rings, TypeOK, None, Call
<1>8. CASE c # d
  <2>1. Open(c) => Open(c)'
    BY <1>5, <1>6, <1>8 DEF Open, Answered
  <2>2. QED
    BY <1>2, <1>3, <1>4, <1>5, <1>7, <2>1, OncePost
<1>9. CASE c = d
  <2>1. Rings(n, c)
    BY <1>9 DEF Rings
  <2>2. /\ \A s, r \in Node, i \in Nat : ~Invited(s, r, i, c)'
        /\ \A m \in Node, i \in Nat : ~Queued(m, i, c)'
        /\ \A m \in Node : ~Rings(m, c)'
    BY <1>1, <1>2, <1>3, <1>4, <1>5, <1>7, <2>1, OnlyRings, PostInvites DEF Queued
  <2>3. QED
    BY <2>2, Settles
<1>10. QED
  BY <1>8, <1>9

LEMMA OnceHangUp ==
    ASSUME IInv, NEW n \in Node, HangUp(n), NEW c \in Call
    PROVE  Once(c)'
<1> DEFINE d == shown[n]
<1>1. Msg("Bye", d) \in Frame
  BY DEF IInv, HangUp, TypeOK, Msg, Frame, Kinds
<1>2. Msg("Bye", d).kind # "Invite"
  BY MsgFields
<1>3. PostAll(n, members[n][d] \ {n}, Msg("Bye", d))
  BY DEF HangUp
<1>4. UNCHANGED <<events, calls, answering, incoming, accepted, declined>>
  BY DEF HangUp
<1>5. \A m \in Node : Rings(m, c)' => Rings(m, c) /\ (answering[m] = c => answering'[m] = c)
  BY <1>4 DEF Rings
<1>6. Open(c) => Open(c)'
  BY <1>4 DEF Open, Answered
<1>7. QED
  BY <1>1, <1>2, <1>3, <1>4, <1>5, <1>6, OncePost

(* handle_call: an Invite becomes the event that announces it.              *)
LEMMA OnceReceive ==
    ASSUME IInv, NEW s \in Node, NEW r \in Node, Receive(s, r), NEW c \in Call
    PROVE  Once(c)'
<1> DEFINE d == Got(s, r)
           sh == [x \in Node |-> [y \in Node |-> IF x = s /\ y = r THEN 1 ELSE 0]]
<1>1. TypeOK /\ Once(c)
  BY DEF IInv
<1>2. net[s][r] # <<>>
  BY DEF Receive, RecvInvite, RecvAccept, RecvEnd, Arrives
<1>3. PICK event \in {"Incoming", "Active", "Ended"} :
        Handle(s, r, event) /\ (event = "Incoming" => Arrives(s, r, "Invite"))
  BY DEF Receive, RecvInvite, RecvAccept, RecvEnd
<1>4. ASSUME NEW x \in Node, NEW y \in Node, NEW i \in Nat, Invited(x, y, i, c)'
      PROVE  Invited(x, y, i + sh[x][y], c)
  <2>1. Invited(x, y, IF x = s /\ y = r THEN i + 1 ELSE i, c)
    BY <1>1, <1>2, <1>3, <1>4, TakeInvites
  <2>2. i + sh[x][y] = IF x = s /\ y = r THEN i + 1 ELSE i
    OBVIOUS
  <2>3. QED
    BY <2>1, <2>2
<1>5. ASSUME NEW p \in Node, NEW i \in Nat, Queued(p, i, c)'
      PROVE  \/ Queued(p, i, c)
             \/ /\ event = "Incoming" /\ c = d
                /\ p = r /\ i = Len(events[r]) + 1
  <2>1. i \in 1..Len(events'[p]) /\ events'[p][i] = Msg("Incoming", c)
    BY <1>5 DEF Queued
  <2>2. \/ i \in 1..Len(events[p]) /\ events'[p][i] = events[p][i]
        \/ /\ p = r /\ i = Len(events[p]) + 1
           /\ events'[p][i] = Msg(event, d)
    BY <1>1, <1>3, <2>1, HandleEvents
  <2>3. QED
    BY <2>1, <2>2, MsgFields DEF Queued
<1>6. UNCHANGED <<answering, incoming, calls, accepted, declined>>
  BY <1>3 DEF Handle, front, history
<1>7. \A m \in Node : Rings(m, c)' => Rings(m, c) /\ (answering[m] = c => answering'[m] = c)
  BY <1>6 DEF Rings
<1>8. (Open(c) => Open(c)') /\ (c <= calls => c <= calls')
  BY <1>6 DEF Open, Answered
<1>9. CASE ~(event = "Incoming" /\ c = d)
  <2>1. \A p \in Node, i \in Nat : Queued(p, i, c)' => Queued(p, i + Idle[p], c)
    BY <1>5, <1>9 DEF Idle
  <2>2. sh \in [Node -> [Node -> Nat]] /\ Idle \in [Node -> Nat]
    BY DEF Idle
  <2> HIDE DEF sh
  <2>3. QED
    BY <1>1, <1>4, <1>7, <1>8, <2>1, <2>2, Undisturbed
<1>10. CASE event = "Incoming" /\ c = d
  <2>1. Invited(s, r, 1, c)
    BY <1>1, <1>3, <1>10, GotHead DEF Invited
  <2>2. /\ \A x, y \in Node, i \in Nat :
               Invited(x, y, i, c) => x = s /\ y = r /\ i = 1
        /\ \A m \in Node, i \in Nat : ~Queued(m, i, c)
        /\ \A m \in Node : ~Rings(m, c)
        /\ Open(c)
    BY <2>1, OnlyInvited
  <2>3. ASSUME NEW x \in Node, NEW y \in Node, NEW i \in Nat, Invited(x, y, i, c)'
        PROVE  FALSE
    <3>1. Invited(x, y, IF x = s /\ y = r THEN i + 1 ELSE i, c)
      BY <1>1, <1>2, <1>3, <2>3, TakeInvites
    <3>2. x = s /\ y = r /\ i + 1 = 1
      BY <2>2, <3>1
    <3>3. i \in 1..Len(net'[x][y])
      BY <2>3 DEF Invited
    <3>4. QED
      BY <3>2, <3>3
  <2>4. \A p \in Node, i \in Nat :
            Queued(p, i, c)' => p = r /\ i = Len(events[r]) + 1
    BY <1>5, <2>2
  <2>5. \A m \in Node : ~Rings(m, c)'
    BY <1>7, <2>2
  <2>6. Open(c)'
    BY <1>8, <2>2
  <2>7. QED
    BY <2>3, <2>4, <2>5, <2>6 DEF Once, InvitedOnce, QueuedOnce, RingsOnce
<1>11. QED
  BY <1>9, <1>10

(* The front end's events: one that announces a call makes it ring, is      *)
(* answered with "busy", or is another event.                               *)
LEMMA OnceShow ==
    ASSUME IInv, NEW n \in Node, Show(n), NEW c \in Call
    PROVE  Once(c)'
<1> DEFINE d == Told(n)
           eh == [p \in Node |-> IF p = n THEN 1 ELSE 0]
<1>1. TypeOK /\ Once(c)
  BY DEF IInv
<1>2. Free(n) /\ events[n] # <<>> /\ NextEvent(n)
  BY DEF Show, ShowIncoming, Busy, ShowNothing, ShowActive, ShowEnded, Shows
<1>3. UNCHANGED <<answering, calls, accepted>>
  BY DEF Show, ShowIncoming, Busy, ShowNothing, ShowActive, ShowEnded,
         DeclineCall, history
<1>4. ASSUME NEW p \in Node, NEW i \in Nat, Queued(p, i, c)'
      PROVE  Queued(p, i + eh[p], c)
  <2>1. Queued(p, IF p = n THEN i + 1 ELSE i, c)
    BY <1>1, <1>2, <1>4, TakeQueued
  <2>2. i + eh[p] = IF p = n THEN i + 1 ELSE i
    OBVIOUS
  <2>3. QED
    BY <2>1, <2>2
<1>5. eh \in [Node -> Nat] /\ Still \in [Node -> [Node -> Nat]]
  BY DEF Still
<1> HIDE DEF eh
<1>6. ASSUME NEW s \in Node, NEW r \in Node, NEW i \in Nat, Invited(s, r, i, c)'
      PROVE  Invited(s, r, i, c)
  <2>1. CASE Busy(n)
    <3>1. /\ Msg("Decline", d) \in Frame
          /\ PostAll(n, members[n][d] \ {n}, Msg("Decline", d))
      BY <1>1, <2>1, ToldHead DEF Busy, DeclineCall, Msg, Frame, Kinds
    <3>2. Msg("Decline", d).kind # "Invite"
      BY MsgFields
    <3>3. QED
      BY <1>1, <1>6, <3>1, <3>2, PostInvites
  <2>2. CASE ~Busy(n)
    <3>1. UNCHANGED net
      BY <2>2 DEF Show, ShowIncoming, ShowNothing, ShowActive, ShowEnded
    <3>2. QED
      BY <1>6, <3>1 DEF Invited
  <2>3. QED
    BY <2>1, <2>2
<1>7. \A s, r \in Node, i \in Nat :
          Invited(s, r, i, c)' => Invited(s, r, i + Still[s][r], c)
  BY <1>6 DEF Still
<1>8. ASSUME Shows(n, "Incoming"), c = d
      PROVE  /\ \A s, r \in Node, i \in Nat : ~Invited(s, r, i, c)'
             /\ \A p \in Node, i \in Nat : ~Queued(p, i, c)'
             /\ \A p \in Node : ~Rings(p, c)
             /\ Open(c)
  <2>1. Queued(n, 1, c)
    BY <1>1, <1>8, ToldHead DEF Queued
  <2>2. /\ \A s, r \in Node, i \in Nat : ~Invited(s, r, i, c)
        /\ \A m \in Node, i \in Nat : Queued(m, i, c) => m = n /\ i = 1
        /\ \A m \in Node : ~Rings(m, c)
        /\ Open(c)
    BY <2>1, OnlyQueued
  <2>3. ASSUME NEW p \in Node, NEW i \in Nat, Queued(p, i, c)'
        PROVE  FALSE
    <3>1. Queued(p, IF p = n THEN i + 1 ELSE i, c)
      BY <1>1, <1>2, <2>3, TakeQueued
    <3>2. p = n /\ i + 1 = 1
      BY <2>2, <3>1
    <3>3. i \in 1..Len(events'[p])
      BY <2>3 DEF Queued
    <3>4. QED
      BY <3>2, <3>3
  <2>4. QED
    BY <1>6, <2>2, <2>3
<1>9. ASSUME \A p \in Node : Rings(p, c)' => Rings(p, c), Open(c) => Open(c)'
      PROVE  Once(c)'
  BY <1>1, <1>3, <1>4, <1>5, <1>7, <1>9, Undisturbed
<1>10. CASE ShowIncoming(n)
  <2>1. incoming' = [incoming EXCEPT ![n] = d] /\ UNCHANGED declined
    BY <1>10 DEF ShowIncoming, history
  <2>2. (Open(c) => Open(c)') /\ (c <= calls => c <= calls')
    BY <1>3, <2>1 DEF Open, Answered
  <2>3. CASE c # d
    <3>1. \A p \in Node : Rings(p, c)' => Rings(p, c)
      BY <1>1, <2>1, <2>3 DEF Rings, TypeOK
    <3>2. QED
      BY <1>9, <2>2, <3>1
  <2>4. CASE c = d
    <3>1. Shows(n, "Incoming")
      BY <1>10 DEF ShowIncoming
    <3>2. /\ \A s, r \in Node, i \in Nat : ~Invited(s, r, i, c)'
          /\ \A p \in Node, i \in Nat : ~Queued(p, i, c)'
          /\ \A p \in Node : ~Rings(p, c)
          /\ Open(c)
      BY <1>8, <2>4, <3>1
    <3>3. \A p \in Node : Rings(p, c)' => p = n
      BY <1>1, <2>1, <3>2 DEF Rings, TypeOK
    <3>4. c <= calls'
      BY <2>2, <3>2 DEF Open
    <3>5. QED
      BY <2>2, <3>2, <3>3, <3>4 DEF Once, InvitedOnce, QueuedOnce, RingsOnce
  <2>5. QED
    BY <2>3, <2>4
<1>11. CASE Busy(n)
  <2>1. declined' = declined \union {d} /\ UNCHANGED incoming
    BY <1>11 DEF Busy, DeclineCall, front
  <2>2. \A p \in Node : Rings(p, c)' => Rings(p, c)
    BY <2>1 DEF Rings
  <2>3. CASE c # d
    <3>1. Open(c) => Open(c)'
      BY <1>3, <2>1, <2>3 DEF Open, Answered
    <3>2. QED
      BY <1>9, <2>2, <3>1
  <2>4. CASE c = d
    <3>1. Shows(n, "Incoming")
      BY <1>11 DEF Busy
    <3>2. QED
      BY <1>8, <2>2, <2>4, <3>1, Settles
  <2>5. QED
    BY <2>3, <2>4
<1>12. CASE ShowNothing(n) \/ ShowActive(n) \/ ShowEnded(n)
  <2>1. UNCHANGED declined
    BY <1>12 DEF ShowNothing, ShowActive, ShowEnded, history
  <2>2. Open(c) => Open(c)'
    BY <1>3, <2>1 DEF Open, Answered
  <2>3. \A p \in Node : Rings(p, c)' => Rings(p, c)
    BY <1>1, <1>12
       DEF ShowNothing, ShowActive, ShowEnded, front, Rings, TypeOK, None, Call
  <2>4. QED
    BY <1>9, <2>2, <2>3
<1>13. QED
  BY <1>10, <1>11, <1>12 DEF Show

LEMMA OnceNext ==
    ASSUME IInv, [Next]_vars
    PROVE  \A c \in Call : Once(c)'
<1> SUFFICES ASSUME NEW c \in Call PROVE Once(c)'
  OBVIOUS
<1>1. ASSUME NEW n \in Node, User(n) PROVE Once(c)'
  BY <1>1, OnceStart, OnceAccept, OnceDecline, OnceHangUp DEF User
<1>2. ASSUME NEW n \in Node, Accepted(n) PROVE Once(c)'
  BY <1>2, OnceAccepted
<1>3. ASSUME NEW n \in Node, Show(n) PROVE Once(c)'
  BY <1>3, OnceShow
<1>4. ASSUME NEW s \in Node, NEW r \in Node, Receive(s, r) PROVE Once(c)'
  BY <1>4, OnceReceive
<1>5. CASE UNCHANGED vars
  <2>1. Once(c)
    BY DEF IInv
  <2>2. QED
    BY <1>5, <2>1 DEF vars, front, history, Once, InvitedOnce, QueuedOnce,
       RingsOnce, Invited, Queued, Rings, Open, Answered
<1>6. QED
  BY <1>1, <1>2, <1>3, <1>4, <1>5 DEF Next

-----------------------------------------------------------------------------
(* An answer is about a call nobody has answered before, and is the last    *)
(* word on it.                                                              *)

LEMMA DeclineIsFirst ==
    ASSUME IInv, NEW n \in Node, Decline(n)
    PROVE  incoming[n] \in Call /\ Open(incoming[n])
<1>1. incoming[n] \in Call /\ Free(n)
  BY DEF IInv, Decline, TypeOK
<1>2. Rings(n, incoming[n]) /\ answering[n] # incoming[n]
  BY <1>1 DEF Rings, Free, None, Call
<1>3. QED
  BY <1>1, <1>2, OnlyRings

LEMMA AcceptIsFirst ==
    ASSUME IInv, NEW n \in Node, Accept(n)
    PROVE  incoming[n] \in Call /\ Open(incoming[n])
<1>1. incoming[n] \in Call /\ Free(n)
  BY DEF IInv, Accept, TypeOK
<1>2. Rings(n, incoming[n]) /\ answering[n] # incoming[n]
  BY <1>1 DEF Rings, Free, None, Call
<1>3. QED
  BY <1>1, <1>2, OnlyRings

LEMMA BusyIsFirst ==
    ASSUME IInv, NEW n \in Node, Busy(n)
    PROVE  Told(n) \in Call /\ Open(Told(n))
<1>1. Shows(n, "Incoming")
  BY DEF Busy
<1>2. Queued(n, 1, Told(n)) /\ Told(n) \in Call
  BY <1>1, ToldHead DEF IInv, Queued
<1>3. QED
  BY <1>2, OnlyQueued

LEMMA AnswersNext ==
    ASSUME IInv, [Next]_vars
    PROVE  Agreed \subseteq Agreed' /\ AnsweredStarted'
<1> USE DEF Agreed, AnsweredStarted, Answered
<1>1. TypeOK /\ AnsweredStarted /\ calls \in Int
  BY DEF IInv, TypeOK
<1> DEFINE Goal == Agreed \subseteq Agreed' /\ AnsweredStarted'
<1>2. ASSUME NEW n \in Node, NEW m \in Node, Start(n, m) PROVE Goal
  <2>1. accepted \subseteq Call /\ declined \subseteq Call
    BY <1>1 DEF TypeOK
  <2>2. calls' = calls + 1 /\ UNCHANGED <<accepted, declined>>
    BY <1>2 DEF Start
  <2>3. QED
    BY <1>1, <2>1, <2>2 DEF Call
<1>3. ASSUME NEW n \in Node, Accept(n) PROVE Goal
  <2>1. /\ accepted' = accepted \union {incoming[n]}
        /\ UNCHANGED <<declined, calls>>
    BY <1>3 DEF Accept
  <2>2. incoming[n] <= calls
    BY <1>3, AcceptIsFirst DEF Open
  <2>3. QED
    BY <1>1, <2>1, <2>2
<1>4. ASSUME NEW n \in Node, Decline(n) PROVE Goal
  <2>1. /\ declined' = declined \union {incoming[n]}
        /\ UNCHANGED <<accepted, calls>>
    BY <1>4 DEF Decline, DeclineCall
  <2>2. incoming[n] <= calls /\ incoming[n] \notin accepted
    BY <1>4, DeclineIsFirst DEF Open
  <2>3. QED
    BY <1>1, <2>1, <2>2
<1>5. ASSUME NEW n \in Node, Busy(n) PROVE Goal
  <2>1. /\ declined' = declined \union {Told(n)}
        /\ UNCHANGED <<accepted, calls>>
    BY <1>5 DEF Busy, DeclineCall
  <2>2. Told(n) <= calls /\ Told(n) \notin accepted
    BY <1>5, BusyIsFirst DEF Open
  <2>3. QED
    BY <1>1, <2>1, <2>2
<1>6. ASSUME UNCHANGED <<accepted, declined, calls>> PROVE Goal
  BY <1>1, <1>6
<1>7. ASSUME NEW n \in Node, HangUp(n) \/ Accepted(n) PROVE Goal
  BY <1>6, <1>7 DEF HangUp, Accepted, history
<1>8. ASSUME NEW n \in Node, Show(n), ~Busy(n) PROVE Goal
  BY <1>6, <1>8
     DEF Show, ShowIncoming, ShowNothing, ShowActive, ShowEnded, history
<1>9. ASSUME NEW s \in Node, NEW r \in Node, Receive(s, r) PROVE Goal
  BY <1>6, <1>9
     DEF Receive, RecvInvite, RecvAccept, RecvEnd, Handle, history
<1>10. ASSUME UNCHANGED vars PROVE Goal
  BY <1>6, <1>10 DEF vars, history
<1> HIDE DEF Goal
<1>11. Goal
  BY <1>2, <1>3, <1>4, <1>5, <1>7, <1>8, <1>9, <1>10 DEF Next, User
<1>12. QED
  BY <1>11 DEF Goal

(* While accept_call is under way the front end still shows its call.       *)
LEMMA AnsweringNext ==
    ASSUME IInv, [Next]_vars
    PROVE  Answering'
<1>1. TypeOK /\ Answering
  BY DEF IInv
<1>2. Agreed \subseteq Agreed'
  BY AnswersNext
<1> SUFFICES ASSUME NEW p \in Node, answering'[p] # None
             PROVE  incoming'[p] = answering'[p] /\ answering'[p] \in Agreed'
  BY DEF Answering, Rings
<1>3. ASSUME answering'[p] = answering[p], incoming'[p] = incoming[p]
      PROVE  incoming'[p] = answering'[p] /\ answering'[p] \in Agreed'
  BY <1>1, <1>2, <1>3 DEF Answering, Rings
<1>4. ASSUME NEW n \in Node, Accept(n)
      PROVE  incoming'[p] = answering'[p] /\ answering'[p] \in Agreed'
  <2>1. /\ answering' = [answering EXCEPT ![n] = incoming[n]]
        /\ accepted' = accepted \union {incoming[n]}
        /\ UNCHANGED <<incoming, declined>>
    BY <1>4 DEF Accept, front
  <2>2. CASE p = n
    <3>1. incoming[n] \notin declined
      BY <1>4, AcceptIsFirst DEF Open, Answered
    <3>2. QED
      BY <1>1, <2>1, <2>2, <3>1 DEF Agreed, Rings, TypeOK
  <2>3. CASE p # n
    BY <1>1, <1>3, <2>1, <2>3 DEF TypeOK
  <2>4. QED
    BY <2>2, <2>3
<1>5. ASSUME NEW n \in Node, Accepted(n)
      PROVE  incoming'[p] = answering'[p] /\ answering'[p] \in Agreed'
  BY <1>1, <1>3, <1>5 DEF Accepted, TypeOK
<1>6. ASSUME NEW n \in Node, (\E m \in Node : Start(n, m)) \/ Decline(n) \/ HangUp(n)
      PROVE  incoming'[p] = answering'[p] /\ answering'[p] \in Agreed'
  <2>1. UNCHANGED answering /\ answering[n] = None
    BY <1>6 DEF Start, Decline, DeclineCall, HangUp, Free
  <2>2. p # n
    BY <2>1
  <2>3. UNCHANGED incoming \/ incoming' = [incoming EXCEPT ![n] = None]
    BY <1>6 DEF Start, Decline, HangUp, front
  <2>4. incoming'[p] = incoming[p]
    BY <1>1, <2>2, <2>3 DEF TypeOK
  <2>5. QED
    BY <1>3, <2>1, <2>4
<1>7. ASSUME NEW n \in Node, Show(n)
      PROVE  incoming'[p] = answering'[p] /\ answering'[p] \in Agreed'
  <2>1. UNCHANGED answering /\ answering[n] = None
    BY <1>7 DEF Show, ShowIncoming, Busy, ShowNothing, ShowActive, ShowEnded,
                DeclineCall, Shows, Free
  <2>2. p # n
    BY <2>1
  <2>3. incoming'[p] = incoming[p]
    BY <1>1, <1>7, <2>2
       DEF Show, ShowIncoming, Busy, ShowNothing, ShowActive, ShowEnded,
           front, TypeOK
  <2>4. QED
    BY <1>3, <2>1, <2>3
<1>8. ASSUME NEW s \in Node, NEW r \in Node, Receive(s, r)
      PROVE  incoming'[p] = answering'[p] /\ answering'[p] \in Agreed'
  BY <1>3, <1>8 DEF Receive, RecvInvite, RecvAccept, RecvEnd, Handle, front
<1>9. CASE UNCHANGED vars
  BY <1>3, <1>9 DEF vars, front
<1>10. QED
  BY <1>4, <1>5, <1>6, <1>7, <1>8, <1>9 DEF Next, User

(* Only accept_call sends an Accept.                                        *)
LEMMA AcceptsNext ==
    ASSUME IInv, [Next]_vars
    PROVE  AcceptsSent'
<1>1. TypeOK /\ AcceptsSent
  BY DEF IInv
<1>2. Agreed \subseteq Agreed'
  BY AnswersNext
<1> DEFINE Sound == \A s, r \in Node : \A i \in 1..Len(net'[s][r]) :
                        net'[s][r][i].kind = "Accept"
                            => net'[s][r][i].call \in Agreed'
<1>3. ASSUME NEW n \in Node, NEW ms, NEW msg \in Frame, PostAll(n, ms, msg),
             msg.kind = "Accept" => msg.call \in Agreed'
      PROVE  Sound
  <2> SUFFICES ASSUME NEW s \in Node, NEW r \in Node,
                      NEW i \in 1..Len(net'[s][r]),
                      net'[s][r][i].kind = "Accept"
               PROVE  net'[s][r][i].call \in Agreed'
    OBVIOUS
  <2>1. \/ i \in 1..Len(net[s][r]) /\ net'[s][r][i] = net[s][r][i]
        \/ net'[s][r][i] = msg
    BY <1>1, <1>3, PostFrames
  <2>2. QED
    BY <1>1, <1>2, <1>3, <2>1 DEF AcceptsSent
<1>4. ASSUME NEW n \in Node, NEW m \in Node, Start(n, m) PROVE Sound
  <2>1. calls + 1 \in Call
    BY <1>1, <1>4, CallsAssumption DEF Start, Call, TypeOK
  <2>2. Msg("Invite", calls + 1) \in Frame
    BY <2>1 DEF Msg, Frame, Kinds
  <2>3. PostAll(n, {m}, Msg("Invite", calls + 1))
    BY <1>4 DEF Start
  <2>4. Msg("Invite", calls + 1).kind # "Accept"
    BY MsgFields
  <2>5. QED
    BY <1>3, <2>2, <2>3, <2>4
<1>5. ASSUME NEW n \in Node, Accept(n) PROVE Sound
  <2> DEFINE d == incoming[n]
  <2>1. d \in Call /\ Open(d)
    BY <1>5, AcceptIsFirst
  <2>2. Msg("Accept", d) \in Frame
    BY <2>1 DEF Msg, Frame, Kinds
  <2>3. PostAll(n, members[n][d] \ {n}, Msg("Accept", d))
    BY <1>5 DEF Accept
  <2>4. d \in Agreed'
    BY <1>5, <2>1 DEF Accept, Agreed, Open, Answered
  <2>5. Msg("Accept", d).call \in Agreed'
    BY <2>4, MsgFields
  <2>6. QED
    BY <1>3, <2>2, <2>3, <2>5
<1>6. ASSUME NEW n \in Node, NEW d \in Call, DeclineCall(n, d) PROVE Sound
  <2>1. Msg("Decline", d) \in Frame /\ Msg("Decline", d).kind # "Accept"
    BY DEF Msg, Frame, Kinds
  <2>2. PostAll(n, members[n][d] \ {n}, Msg("Decline", d))
    BY <1>6 DEF DeclineCall
  <2>3. QED
    BY <1>3, <2>1, <2>2
<1>7. ASSUME NEW n \in Node, HangUp(n) PROVE Sound
  <2> DEFINE d == shown[n]
  <2>1. Msg("Bye", d) \in Frame /\ Msg("Bye", d).kind # "Accept"
    BY <1>1, <1>7 DEF HangUp, TypeOK, Msg, Frame, Kinds
  <2>2. PostAll(n, members[n][d] \ {n}, Msg("Bye", d))
    BY <1>7 DEF HangUp
  <2>3. QED
    BY <1>3, <2>1, <2>2
<1>8. ASSUME UNCHANGED net PROVE Sound
  BY <1>1, <1>2, <1>8 DEF AcceptsSent
<1>9. ASSUME NEW n \in Node, Decline(n) PROVE Sound
  <2>1. incoming[n] \in Call /\ DeclineCall(n, incoming[n])
    BY <1>9, DeclineIsFirst DEF Decline
  <2>2. QED
    BY <1>6, <2>1
<1>10. ASSUME NEW n \in Node, Show(n) PROVE Sound
  <2>1. CASE Busy(n)
    <3>1. Told(n) \in Call /\ DeclineCall(n, Told(n))
      BY <2>1, BusyIsFirst DEF Busy
    <3>2. QED
      BY <1>6, <3>1
  <2>2. CASE ~Busy(n)
    <3>1. UNCHANGED net
      BY <1>10, <2>2 DEF Show, ShowIncoming, ShowNothing, ShowActive, ShowEnded
    <3>2. QED
      BY <1>8, <3>1
  <2>3. QED
    BY <2>1, <2>2
<1>11. ASSUME NEW s \in Node, NEW r \in Node, Receive(s, r) PROVE Sound
  <2>1. net[s][r] # <<>>
    BY <1>11 DEF Receive, RecvInvite, RecvAccept, RecvEnd, Arrives
  <2>2. PICK event : Handle(s, r, event)
    BY <1>11 DEF Receive, RecvInvite, RecvAccept, RecvEnd
  <2> SUFFICES ASSUME NEW x \in Node, NEW y \in Node,
                      NEW i \in 1..Len(net'[x][y]),
                      net'[x][y][i].kind = "Accept"
               PROVE  net'[x][y][i].call \in Agreed'
    OBVIOUS
  <2>3. PICK j \in 1..Len(net[x][y]) : net'[x][y][i] = net[x][y][j]
    BY <1>1, <2>1, <2>2, TakeFrames
  <2>4. QED
    BY <1>1, <1>2, <2>3 DEF AcceptsSent
<1>12. ASSUME NEW n \in Node, Accepted(n) PROVE Sound
  BY <1>8, <1>12 DEF Accepted
<1>13. ASSUME UNCHANGED vars PROVE Sound
  <2>1. UNCHANGED net
    BY <1>13 DEF vars
  <2>2. QED
    BY <1>8, <2>1
<1> HIDE DEF Sound
<1>14. Sound
  BY <1>4, <1>5, <1>7, <1>9, <1>10, <1>11, <1>12, <1>13 DEF Next, User
<1>15. QED
  BY <1>14 DEF Sound, AcceptsSent

LEMMA ConsentNext ==
    ASSUME IInv, [Next]_vars
    PROVE  Consent'
<1>1. TypeOK /\ Consent /\ Answering /\ AcceptsSent
  BY DEF IInv
<1>2. Agreed \subseteq Agreed'
  BY AnswersNext
<1> SUFFICES ASSUME NEW p \in Node, active'[p] # None
             PROVE  active'[p] \in Agreed'
  BY DEF Consent, Agreed
<1>3. ASSUME active'[p] = active[p] PROVE active'[p] \in Agreed'
  BY <1>1, <1>2, <1>3 DEF Consent, Agreed
<1>4. ASSUME NEW n \in Node, NEW c, active' = Leave(n, c)
      PROVE  active'[p] \in Agreed'
  <2>1. active'[p] = active[p]
    BY <1>1, <1>4 DEF Leave, TypeOK
  <2>2. QED
    BY <1>3, <2>1
<1>5. ASSUME NEW n \in Node, NEW c \in Agreed,
             active' = [active EXCEPT ![n] = c]
      PROVE  active'[p] \in Agreed'
  BY <1>1, <1>2, <1>3, <1>5 DEF TypeOK
<1>6. ASSUME NEW n \in Node, User(n) PROVE active'[p] \in Agreed'
  <2>1. ASSUME NEW m \in Node, Start(n, m) PROVE active'[p] \in Agreed'
    BY <1>3, <2>1 DEF Start
  <2>2. CASE Accept(n)
    BY <1>3, <2>2 DEF Accept
  <2>3. CASE Decline(n)
    BY <1>4, <2>3 DEF Decline, DeclineCall
  <2>4. CASE HangUp(n)
    BY <1>4, <2>4 DEF HangUp
  <2>5. QED
    BY <1>6, <2>1, <2>2, <2>3, <2>4 DEF User
<1>7. ASSUME NEW n \in Node, Accepted(n) PROVE active'[p] \in Agreed'
  <2>1. answering[n] \in Agreed
    BY <1>1, <1>7 DEF Accepted, Free, Answering
  <2>2. QED
    BY <1>5, <1>7, <2>1 DEF Accepted
<1>8. ASSUME NEW s \in Node, NEW r \in Node, Receive(s, r)
      PROVE  active'[p] \in Agreed'
  <2>1. CASE RecvInvite(s, r)
    BY <1>3, <2>1 DEF RecvInvite
  <2>2. CASE RecvAccept(s, r)
    <3>1. Arrives(s, r, "Accept")
      BY <2>2 DEF RecvAccept
    <3>2. /\ 1 \in 1..Len(net[s][r])
          /\ net[s][r][1] = Msg("Accept", Got(s, r))
      BY <1>1, <3>1, GotHead
    <3>3. Got(s, r) \in Agreed
      BY <1>1, <3>2, MsgFields DEF AcceptsSent
    <3>4. QED
      BY <1>5, <2>2, <3>3 DEF RecvAccept
  <2>3. CASE RecvEnd(s, r)
    BY <1>4, <2>3 DEF RecvEnd
  <2>4. QED
    BY <1>8, <2>1, <2>2, <2>3 DEF Receive
<1>9. ASSUME NEW n \in Node, Show(n) PROVE active'[p] \in Agreed'
  <2>1. CASE Busy(n)
    BY <1>4, <2>1 DEF Busy, DeclineCall
  <2>2. CASE ~Busy(n)
    BY <1>3, <1>9, <2>2
       DEF Show, ShowIncoming, ShowNothing, ShowActive, ShowEnded, mesh
  <2>3. QED
    BY <2>1, <2>2
<1>10. CASE UNCHANGED vars
  BY <1>3, <1>10 DEF vars, mesh
<1>11. QED
  BY <1>6, <1>7, <1>8, <1>9, <1>10 DEF Next

-----------------------------------------------------------------------------
LEMMA IInvInit == Init => IInv
<1> SUFFICES ASSUME Init PROVE IInv
  OBVIOUS
<1>1. TypeOK
  BY TypeInit
<1>2. \A c \in Call : Once(c)
  <2> SUFFICES ASSUME NEW c \in Call PROVE Once(c)
    OBVIOUS
  <2>1. \A s, r \in Node, i \in Nat : ~Invited(s, r, i, c)
    BY DEF Init, Invited
  <2>2. \A n \in Node, i \in Nat : ~Queued(n, i, c)
    BY DEF Init, Queued
  <2>3. \A n \in Node : ~Rings(n, c)
    <3>1. c # None
      BY CallsAssumption DEF None, Call
    <3>2. QED
      BY <3>1 DEF Init, Rings
  <2>4. QED
    BY <2>1, <2>2, <2>3 DEF Once, InvitedOnce, QueuedOnce, RingsOnce
<1>3. AnsweredStarted /\ Answering /\ AcceptsSent /\ Consent
  BY DEF Init, AnsweredStarted, Answered, Answering, AcceptsSent, Consent
<1>4. QED
  BY <1>1, <1>2, <1>3 DEF IInv

LEMMA IInvNext == IInv /\ [Next]_vars => IInv'
<1> SUFFICES ASSUME IInv, [Next]_vars PROVE IInv'
  OBVIOUS
<1>1. TypeOK'
  BY TypeNext DEF IInv
<1>2. \A c \in Call : Once(c)'
  BY OnceNext
<1>3. AnsweredStarted' /\ Answering' /\ AcceptsSent' /\ Consent'
  BY AnswersNext, AnsweringNext, AcceptsNext, ConsentNext
<1>4. QED
  BY <1>1, <1>2, <1>3 DEF IInv

(* Nobody plays or sends the voice of a call its callee has not accepted,   *)
(* nor of one that was declined: in whatever order calls cross, however     *)
(* many ring at once, whatever is lost.                                     *)
THEOREM ConsentHolds == Spec => []Consent
<1>1. IInv => Consent
  BY DEF IInv
<1>2. QED
  BY <1>1, IInvInit, IInvNext, PTL DEF Spec


-----------------------------------------------------------------------------
(* Who hangs up stays out, in the terminal.  An Accept on its way is the    *)
(* only thing that could put somebody back, so it must be shown that there  *)
(* is none to a node that has seen the answer, has given it, or has hung    *)
(* up: a call is answered once, and each other participant is told once.    *)

AcceptTo(s, n, i, c) ==
    i \in 1..Len(net[s][n]) /\ net[s][n][i] = Msg("Accept", c)

AnswerQueued(n, c) ==
    \E i \in 1..Len(events[n]) : events[n][i] = Msg("Active", c)

(* n's user is in c, is about to be told so, or has left it.                *)
Settled(n, c) == shown[n] = c \/ AnswerQueued(n, c) \/ <<n, c>> \in hungUp

SettledAnswered(n, c) == Settled(n, c) => c \in Answered

OutOfIt(n, c) == <<n, c>> \in hungUp => active[n] # c /\ answering[n] # c

ToldOnce(n, c) ==
    \A s \in Node, i \in Nat :
        AcceptTo(s, n, i, c) =>
            /\ ~Settled(n, c)
            /\ answering[n] # c
            /\ \A t \in Node, j \in Nat : AcceptTo(t, n, j, c) => t = s /\ j = i

Out(n, c) == SettledAnswered(n, c) /\ OutOfIt(n, c) /\ ToldOnce(n, c)

OutInv == \A n \in Node \ Qt, c \in Call : Out(n, c)

(* A step that sends c's answer to nobody and tells n's user nothing new.   *)
LEMMA OutStays ==
    ASSUME NEW n \in Node, NEW c \in Call, Out(n, c),
           NEW sh \in [Node -> {0, 1}],
           \A s \in Node, i \in Nat :
               AcceptTo(s, n, i, c)' => AcceptTo(s, n, i + sh[s], c),
           Settled(n, c)' => Settled(n, c),
           <<n, c>> \in hungUp' => <<n, c>> \in hungUp,
           answering'[n] = c => answering[n] = c,
           active'[n] = c => active[n] = c,
           Answered \subseteq Answered'
    PROVE  Out(n, c)'
<1>1. SettledAnswered(n, c)' /\ OutOfIt(n, c)'
  BY DEF Out, SettledAnswered, OutOfIt
<1>2. ToldOnce(n, c)'
  <2> SUFFICES ASSUME NEW s \in Node, NEW i \in Nat, AcceptTo(s, n, i, c)'
      PROVE  /\ ~Settled(n, c)'
             /\ answering'[n] # c
             /\ \A t \in Node, j \in Nat : AcceptTo(t, n, j, c)' => t = s /\ j = i
    BY DEF ToldOnce
  <2>1. i + sh[s] \in Nat /\ AcceptTo(s, n, i + sh[s], c)
    OBVIOUS
  <2>2. /\ ~Settled(n, c) /\ answering[n] # c
        /\ \A t \in Node, j \in Nat : AcceptTo(t, n, j, c) => t = s /\ j = i + sh[s]
    BY <2>1 DEF Out, ToldOnce
  <2>3. ASSUME NEW t \in Node, NEW j \in Nat, AcceptTo(t, n, j, c)'
        PROVE  t = s /\ j = i
    <3>1. j + sh[t] \in Nat /\ AcceptTo(t, n, j + sh[t], c)
      BY <2>3
    <3>2. t = s /\ j + sh[t] = i + sh[s]
      BY <2>2, <3>1
    <3> QED
      BY <3>2
  <2> QED
    BY <2>2, <2>3
<1> QED
  BY <1>1, <1>2 DEF Out

LEMMA PostAccepts ==
    ASSUME TypeOK, NEW p \in Node, NEW ms, NEW msg \in Frame, PostAll(p, ms, msg),
           NEW s \in Node, NEW n \in Node, NEW i \in Nat, NEW c, AcceptTo(s, n, i, c)',
           msg # Msg("Accept", c)
    PROVE  AcceptTo(s, n, i, c)
<1>1. i \in 1..Len(net'[s][n]) /\ net'[s][n][i] = Msg("Accept", c)
  BY DEF AcceptTo
<1> QED
  BY <1>1, PostFrames DEF AcceptTo

LEMMA TakeAccepts ==
    ASSUME TypeOK, NEW s \in Node, NEW r \in Node, net[s][r] # <<>>,
           NEW event, Handle(s, r, event),
           NEW x \in Node, NEW y \in Node, NEW i \in Nat, NEW c, AcceptTo(x, y, i, c)'
    PROVE  AcceptTo(x, y, IF x = s /\ y = r THEN i + 1 ELSE i, c)
<1>1. i \in 1..Len(net'[x][y]) /\ net'[x][y][i] = Msg("Accept", c)
  BY DEF AcceptTo
<1> QED
  BY <1>1, TakeFrames DEF AcceptTo

LEMMA NothingQueued ==
    ASSUME NEW n \in Node, NEW c, UNCHANGED events, AnswerQueued(n, c)'
    PROVE  AnswerQueued(n, c)
  BY DEF AnswerQueued

(* Taking an event from a queue leaves no other answer in it.               *)
LEMMA StillQueued ==
    ASSUME TypeOK, NEW p \in Node, events[p] # <<>>, NextEvent(p), NEW n \in Node, NEW c,
           AnswerQueued(n, c)'
    PROVE  AnswerQueued(n, c)
<1>1. PICK i \in 1..Len(events'[n]) : events'[n][i] = Msg("Active", c)
  BY DEF AnswerQueued
<1>2. PICK j \in 1..Len(events[n]) : events'[n][i] = events[n][j]
  BY <1>1, TakeEvents
<1> QED
  BY <1>1, <1>2 DEF AnswerQueued

(* An unanswered call has not got to anybody's user, and is not under way.  *)
LEMMA OpenOut ==
    ASSUME IInv, NEW n \in Node, NEW c \in Call, Out(n, c), Open(c)
    PROVE  /\ ~Settled(n, c) /\ answering[n] # c
           /\ \A s \in Node, i \in Nat : ~AcceptTo(s, n, i, c)
<1>1. c \notin Answered
  BY DEF Open
<1>2. ~Settled(n, c)
  BY <1>1 DEF Out, SettledAnswered
<1>3. answering[n] # c
  <2>1. c # None
    BY DEF Call, None
  <2> QED
    BY <1>1, <2>1 DEF IInv, Answering, Agreed, Answered
<1>4. ASSUME NEW s \in Node, NEW i \in Nat, AcceptTo(s, n, i, c) PROVE FALSE
  BY <1>1, <1>4, MsgFields DEF IInv, AcceptsSent, AcceptTo, Agreed, Answered
<1> QED
  BY <1>2, <1>3, <1>4

-----------------------------------------------------------------------------
(* Step by step, for a node with the terminal and a call.                   *)

NoShift == [s \in Node |-> 0]

LEMMA OutStart ==
    ASSUME IInv, NEW n \in Node \ Qt, NEW c \in Call, Out(n, c),
           NEW p \in Node, NEW m \in Node, Start(p, m)
    PROVE  Out(n, c)'
<1>1. TypeOK
  BY DEF IInv
<1>2. UNCHANGED <<active, events, answering, accepted, declined, hungUp>>
  BY DEF Start
<1>3. calls + 1 \in Call
  BY <1>1, CallsAssumption DEF Start, Call, TypeOK
<1>4. Msg("Invite", calls + 1) \in Frame /\ PostAll(p, {m}, Msg("Invite", calls + 1))
  BY <1>3 DEF Msg, Frame, Kinds, Start
<1>5. Msg("Invite", calls + 1) # Msg("Accept", c)
  BY DEF Msg
<1>6. shown'[n] = shown[n]
  BY <1>1 DEF Start, TypeOK, front
<1>7. Settled(n, c)' => Settled(n, c)
  BY <1>2, <1>6, NothingQueued DEF Settled
<1>8. \A s \in Node, i \in Nat : AcceptTo(s, n, i, c)' => AcceptTo(s, n, i + NoShift[s], c)
  BY <1>1, <1>4, <1>5, PostAccepts DEF NoShift
<1>9. NoShift \in [Node -> {0, 1}]
  BY DEF NoShift
<1> QED
  BY <1>2, <1>7, <1>8, <1>9, OutStays DEF Answered

(* The one step that sends answers: nobody has had one before.              *)
LEMMA OutAccept ==
    ASSUME IInv, NEW n \in Node \ Qt, NEW c \in Call, Out(n, c),
           NEW p \in Node, Accept(p)
    PROVE  Out(n, c)'
<1> DEFINE d == incoming[p]
<1>1. TypeOK /\ d \in Call /\ Open(d)
  BY AcceptIsFirst DEF IInv
<1>2. /\ UNCHANGED <<active, events, shown, declined, hungUp>>
      /\ answering' = [answering EXCEPT ![p] = d]
      /\ accepted' = accepted \union {d}
  BY DEF Accept, front
<1>3. Msg("Accept", d) \in Frame /\ PostAll(p, members[p][d] \ {p}, Msg("Accept", d))
  BY <1>1 DEF Msg, Frame, Kinds, Accept
<1>4. Settled(n, c)' => Settled(n, c)
  BY <1>2, NothingQueued DEF Settled
<1>5. answering'[n] = IF n = p THEN d ELSE answering[n]
  BY <1>1, <1>2 DEF TypeOK
<1> HIDE DEF d
<1>6. CASE c # d
  <2>1. Msg("Accept", d) # Msg("Accept", c)
    BY <1>6 DEF Msg
  <2>2. \A s \in Node, i \in Nat :
          AcceptTo(s, n, i, c)' => AcceptTo(s, n, i + NoShift[s], c)
    BY <1>1, <1>3, <2>1, PostAccepts DEF NoShift
  <2>3. NoShift \in [Node -> {0, 1}]
    BY DEF NoShift
  <2>4. answering'[n] = c => answering[n] = c
    BY <1>5, <1>6
  <2> QED
    BY <1>2, <1>4, <2>2, <2>3, <2>4, OutStays DEF Answered
<1>7. CASE c = d
  <2>1. /\ ~Settled(n, c) /\ answering[n] # c
        /\ \A s \in Node, i \in Nat : ~AcceptTo(s, n, i, c)
    BY <1>1, <1>7, OpenOut
  <2>2. <<n, c>> \notin hungUp'
    BY <1>2, <2>1 DEF Settled
  <2>3. ASSUME NEW s \in Node, NEW i \in Nat, AcceptTo(s, n, i, c)'
        PROVE  s = p /\ n # p /\ i = Len(net[p][n]) + 1
    <3>1. i \in 1..Len(net'[s][n]) /\ net'[s][n][i] = Msg("Accept", c)
      BY <2>3 DEF AcceptTo
    <3>2. \/ i \in 1..Len(net[s][n]) /\ net'[s][n][i] = net[s][n][i]
          \/ s = p /\ n \in members[p][d] \ {p} /\ i = Len(net[s][n]) + 1
      BY <1>1, <1>3, <3>1, PostFrames
    <3>3. ~(i \in 1..Len(net[s][n]) /\ net'[s][n][i] = net[s][n][i])
      BY <2>1, <3>1 DEF AcceptTo
    <3> QED
      BY <3>2, <3>3
  <2>4. ToldOnce(n, c)'
    <3> SUFFICES ASSUME NEW s \in Node, NEW i \in Nat, AcceptTo(s, n, i, c)'
        PROVE  /\ ~Settled(n, c)'
               /\ answering'[n] # c
               /\ \A t \in Node, j \in Nat : AcceptTo(t, n, j, c)' => t = s /\ j = i
      BY DEF ToldOnce
    <3>1. s = p /\ n # p /\ i = Len(net[p][n]) + 1
      BY <2>3
    <3>2. \A t \in Node, j \in Nat : AcceptTo(t, n, j, c)' => t = s /\ j = i
      BY <2>3, <3>1
    <3> QED
      BY <1>4, <1>5, <2>1, <3>1, <3>2
  <2>5. SettledAnswered(n, c)' /\ OutOfIt(n, c)'
    BY <1>4, <2>1, <2>2 DEF SettledAnswered, OutOfIt
  <2> QED
    BY <2>4, <2>5 DEF Out
<1> QED
  BY <1>6, <1>7

LEMMA OutAccepted ==
    ASSUME IInv, NEW n \in Node \ Qt, NEW c \in Call, Out(n, c),
           NEW p \in Node, Accepted(p)
    PROVE  Out(n, c)'
<1>1. TypeOK /\ Answering /\ answering[p] # None
  BY DEF IInv, Accepted, Free
<1>2. /\ active' = [active EXCEPT ![p] = answering[p]]
      /\ shown' = [shown EXCEPT ![p] = answering[p]]
      /\ answering' = [answering EXCEPT ![p] = None]
      /\ UNCHANGED <<events, net, accepted, declined, hungUp>>
  BY DEF Accepted, history
<1>3. \A s \in Node, i \in Nat : AcceptTo(s, n, i, c)' => AcceptTo(s, n, i, c)
  BY <1>2 DEF AcceptTo
<1>4. CASE n = p /\ answering[n] = c
  <2>1. \A s \in Node, i \in Nat : ~AcceptTo(s, n, i, c)'
    BY <1>3, <1>4 DEF Out, ToldOnce
  <2>2. c \in Answered'
    BY <1>1, <1>2, <1>4 DEF Answering, Agreed, Answered
  <2>3. <<n, c>> \notin hungUp'
    BY <1>2, <1>4 DEF Out, OutOfIt
  <2> QED
    BY <2>1, <2>2, <2>3 DEF Out, SettledAnswered, OutOfIt, ToldOnce
<1>5. CASE ~(n = p /\ answering[n] = c)
  <2>1. shown'[n] = c => shown[n] = c
    BY <1>1, <1>2, <1>5 DEF TypeOK
  <2>2. active'[n] = c => active[n] = c
    BY <1>1, <1>2, <1>5 DEF TypeOK
  <2>3. c # None
    BY DEF Call, None
  <2>4. answering'[n] = c => answering[n] = c
    BY <1>1, <1>2, <2>3 DEF TypeOK
  <2>5. Settled(n, c)' => Settled(n, c)
    BY <1>2, <2>1, NothingQueued DEF Settled
  <2>6. \A s \in Node, i \in Nat :
          AcceptTo(s, n, i, c)' => AcceptTo(s, n, i + NoShift[s], c)
    BY <1>3 DEF NoShift
  <2>7. NoShift \in [Node -> {0, 1}]
    BY DEF NoShift
  <2> QED
    BY <1>2, <2>2, <2>4, <2>5, <2>6, <2>7, OutStays DEF Answered
<1> QED
  BY <1>4, <1>5

(* decline_call, by the user or because the user is busy.                   *)
LEMMA OutDecline ==
    ASSUME IInv, NEW n \in Node \ Qt, NEW c \in Call, Out(n, c),
           NEW p \in Node, NEW d \in Call, DeclineCall(p, d),
           Settled(n, c)' => Settled(n, c)
    PROVE  Out(n, c)'
<1>1. TypeOK
  BY DEF IInv
<1>2. /\ UNCHANGED <<answering, accepted, hungUp>>
      /\ active' = Leave(p, d) /\ declined \subseteq declined'
      /\ PostAll(p, members[p][d] \ {p}, Msg("Decline", d))
  BY DEF DeclineCall
<1>3. Msg("Decline", d) \in Frame /\ Msg("Decline", d) # Msg("Accept", c)
  BY DEF Msg, Frame, Kinds
<1>4. \A s \in Node, i \in Nat : AcceptTo(s, n, i, c)' => AcceptTo(s, n, i + NoShift[s], c)
  BY <1>1, <1>2, <1>3, PostAccepts DEF NoShift
<1>5. NoShift \in [Node -> {0, 1}]
  BY DEF NoShift
<1>6. active'[n] = c => active[n] = c
  <2>1. c # None
    BY DEF Call, None
  <2> QED
    BY <1>1, <1>2, <2>1 DEF Leave, TypeOK
<1> QED
  BY <1>2, <1>4, <1>5, <1>6, OutStays DEF Answered

LEMMA OutHangUp ==
    ASSUME IInv, NEW n \in Node \ Qt, NEW c \in Call, Out(n, c),
           NEW p \in Node, HangUp(p)
    PROVE  Out(n, c)'
<1> DEFINE d == shown[p]
<1>1. TypeOK /\ d \in Call /\ answering[p] = None
  BY DEF IInv, HangUp, TypeOK, Free
<1>2. /\ UNCHANGED <<events, answering, accepted, declined>>
      /\ active' = Leave(p, d) /\ hungUp' = hungUp \union {<<p, d>>}
      /\ shown' = [shown EXCEPT ![p] = None]
      /\ PostAll(p, members[p][d] \ {p}, Msg("Bye", d))
  BY DEF HangUp
<1>3. Msg("Bye", d) \in Frame /\ Msg("Bye", d) # Msg("Accept", c)
  BY <1>1 DEF Msg, Frame, Kinds
<1>4. \A s \in Node, i \in Nat : AcceptTo(s, n, i, c)' => AcceptTo(s, n, i, c)
  BY <1>1, <1>2, <1>3, PostAccepts
<1>5. c # None
  BY DEF Call, None
<1>6. Settled(n, c)' => Settled(n, c)
  <2>1. shown'[n] = c => shown[n] = c
    BY <1>1, <1>2, <1>5 DEF TypeOK
  <2>2. <<n, c>> \in hungUp' => <<n, c>> \in hungUp \/ shown[n] = c
    BY <1>2
  <2> QED
    BY <1>2, <2>1, <2>2, NothingQueued DEF Settled
<1>7. active'[n] = c => active[n] = c
  BY <1>1, <1>2, <1>5 DEF Leave, TypeOK
<1>8. CASE n = p /\ c = d
  <2>1. Settled(n, c)
    BY <1>8 DEF Settled
  <2>2. \A s \in Node, i \in Nat : ~AcceptTo(s, n, i, c)'
    BY <1>4, <2>1 DEF Out, ToldOnce
  <2>3. c \in Answered'
    BY <1>2, <2>1 DEF Out, SettledAnswered, Answered
  <2>4. active'[n] # c
    BY <1>1, <1>2, <1>5, <1>8 DEF Leave, TypeOK
  <2>5. answering'[n] # c
    BY <1>1, <1>2, <1>5, <1>8
  <2> QED
    BY <2>2, <2>3, <2>4, <2>5 DEF Out, SettledAnswered, OutOfIt, ToldOnce
<1>9. CASE ~(n = p /\ c = d)
  <2>1. <<n, c>> \in hungUp' => <<n, c>> \in hungUp
    BY <1>2, <1>9
  <2>2. \A s \in Node, i \in Nat :
          AcceptTo(s, n, i, c)' => AcceptTo(s, n, i + NoShift[s], c)
    BY <1>4 DEF NoShift
  <2>3. NoShift \in [Node -> {0, 1}]
    BY DEF NoShift
  <2> QED
    BY <1>2, <1>6, <1>7, <2>1, <2>2, <2>3, OutStays DEF Answered
<1> QED
  BY <1>8, <1>9

(* The answer arrives, or something else.                                   *)
LEMMA OutReceive ==
    ASSUME IInv, NEW n \in Node \ Qt, NEW c \in Call, Out(n, c),
           NEW s \in Node, NEW r \in Node, Receive(s, r)
    PROVE  Out(n, c)'
<1> DEFINE d == Got(s, r)
           sh == [t \in Node |-> IF t = s /\ n = r THEN 1 ELSE 0]
<1>1. TypeOK /\ AcceptsSent
  BY DEF IInv
<1>2. net[s][r] # <<>>
  BY DEF Receive, RecvInvite, RecvAccept, RecvEnd, Arrives
<1>3. PICK event \in {"Incoming", "Active", "Ended"} :
        Handle(s, r, event) /\ (event = "Active" => RecvAccept(s, r))
  BY DEF Receive, RecvInvite, RecvAccept, RecvEnd
<1>4. UNCHANGED <<answering, shown, accepted, declined, hungUp>>
  BY <1>3 DEF Handle, front, history
<1>5. \A t \in Node, i \in Nat : AcceptTo(t, n, i, c)' => AcceptTo(t, n, i + sh[t], c)
  <2> SUFFICES ASSUME NEW t \in Node, NEW i \in Nat, AcceptTo(t, n, i, c)'
      PROVE  AcceptTo(t, n, i + sh[t], c)
    OBVIOUS
  <2>1. AcceptTo(t, n, IF t = s /\ n = r THEN i + 1 ELSE i, c)
    BY <1>1, <1>2, <1>3, TakeAccepts
  <2> QED
    BY <2>1
<1>6. sh \in [Node -> {0, 1}]
  OBVIOUS
<1>7. AnswerQueued(n, c)' => AnswerQueued(n, c) \/ (n = r /\ c = d /\ event = "Active")
  <2> SUFFICES ASSUME AnswerQueued(n, c)'
      PROVE  AnswerQueued(n, c) \/ (n = r /\ c = d /\ event = "Active")
    OBVIOUS
  <2>1. PICK i \in 1..Len(events'[n]) : events'[n][i] = Msg("Active", c)
    BY DEF AnswerQueued
  <2>2. \/ i \in 1..Len(events[n]) /\ events'[n][i] = events[n][i]
        \/ n = r /\ events'[n][i] = Msg(event, d)
    BY <1>1, <1>3, HandleEvents
  <2> QED
    BY <2>1, <2>2, MsgFields DEF AnswerQueued
<1>8. CASE RecvAccept(s, r) /\ n = r /\ c = d
  <2>1. AcceptTo(s, n, 1, c)
    BY <1>1, <1>8, GotHead DEF RecvAccept, AcceptTo
  <2>2. ~Settled(n, c) /\ \A t \in Node, j \in Nat : AcceptTo(t, n, j, c) => t = s /\ j = 1
    BY <2>1 DEF Out, ToldOnce
  <2>3. ASSUME NEW t \in Node, NEW i \in Nat, AcceptTo(t, n, i, c)' PROVE FALSE
    <3>1. i + sh[t] \in Nat /\ AcceptTo(t, n, i + sh[t], c)
      BY <1>5, <2>3
    <3>2. t = s /\ i + sh[t] = 1
      BY <2>2, <3>1
    <3>3. i = 0
      BY <1>8, <3>2
    <3> QED
      BY <2>3, <3>3 DEF AcceptTo
  <2>4. c \in Agreed
    BY <1>1, <2>1, MsgFields DEF AcceptsSent, AcceptTo
  <2>5. c \in Answered'
    BY <1>4, <2>4 DEF Agreed, Answered
  <2>6. <<n, c>> \notin hungUp'
    BY <1>4, <2>2 DEF Settled
  <2> QED
    BY <2>3, <2>5, <2>6 DEF Out, SettledAnswered, OutOfIt, ToldOnce
<1>9. CASE ~(RecvAccept(s, r) /\ n = r /\ c = d)
  <2>1. Settled(n, c)' => Settled(n, c)
    BY <1>3, <1>4, <1>7, <1>9 DEF Settled
  <2>2. active'[n] = c => active[n] = c
    <3>1. c # None
      BY DEF Call, None
    <3>2. CASE RecvAccept(s, r)
      BY <1>1, <1>9, <3>2 DEF RecvAccept, TypeOK
    <3>3. CASE RecvInvite(s, r) \/ RecvEnd(s, r)
      BY <1>1, <3>1, <3>3 DEF RecvInvite, RecvEnd, Leave, TypeOK
    <3> QED
      BY <3>2, <3>3 DEF Receive
  <2> HIDE DEF sh
  <2> QED
    BY <1>4, <1>5, <1>6, <2>1, <2>2, OutStays DEF Answered
<1> QED
  BY <1>8, <1>9

(* What the front end shows it has been told.                               *)
LEMMA OutShow ==
    ASSUME IInv, NEW n \in Node \ Qt, NEW c \in Call, Out(n, c),
           NEW p \in Node, Show(p)
    PROVE  Out(n, c)'
<1>1. TypeOK
  BY DEF IInv
<1>2. /\ events[p] # <<>> /\ NextEvent(p) /\ UNCHANGED hungUp
  BY DEF Show, ShowIncoming, Busy, ShowNothing, ShowActive, ShowEnded, Shows, DeclineCall,
         history
<1>3. AnswerQueued(n, c)' => AnswerQueued(n, c)
  BY <1>1, <1>2, StillQueued
<1>4. shown'[n] = c => shown[n] = c \/ AnswerQueued(n, c)
  <2>1. CASE ShowActive(p)
    <3>1. CASE n = p
      <4>1. shown'[n] = Told(n)
        BY <1>1, <2>1, <3>1 DEF ShowActive, TypeOK
      <4>2. 1 \in 1..Len(events[n]) /\ events[n][1] = Msg("Active", Told(n))
        BY <1>1, <2>1, <3>1, ToldHead DEF ShowActive
      <4> QED
        BY <4>1, <4>2 DEF AnswerQueued
    <3>2. CASE n # p
      BY <1>1, <2>1, <3>2 DEF ShowActive, TypeOK
    <3> QED
      BY <3>1, <3>2
  <2>2. CASE ShowEnded(p)
    <3>1. c # None
      BY DEF Call, None
    <3> QED
      BY <1>1, <2>2, <3>1 DEF ShowEnded, TypeOK
  <2>3. CASE ShowIncoming(p) \/ Busy(p) \/ ShowNothing(p)
    BY <2>3 DEF ShowIncoming, Busy, ShowNothing, front
  <2> QED
    BY <2>1, <2>2, <2>3 DEF Show
<1>5. Settled(n, c)' => Settled(n, c)
  BY <1>2, <1>3, <1>4 DEF Settled
<1>6. CASE Busy(p)
  <2>1. Told(p) \in Call /\ DeclineCall(p, Told(p))
    BY <1>6, BusyIsFirst DEF Busy
  <2> QED
    BY <1>5, <2>1, OutDecline
<1>7. CASE ~Busy(p)
  <2>1. UNCHANGED <<active, answering, net, accepted, declined, hungUp>>
    BY <1>7 DEF Show, ShowIncoming, ShowNothing, ShowActive, ShowEnded, mesh, history
  <2>2. \A s \in Node, i \in Nat :
          AcceptTo(s, n, i, c)' => AcceptTo(s, n, i + NoShift[s], c)
    BY <2>1 DEF AcceptTo, NoShift
  <2>3. NoShift \in [Node -> {0, 1}]
    BY DEF NoShift
  <2> QED
    BY <1>5, <2>1, <2>2, <2>3, OutStays DEF Answered
<1> QED
  BY <1>6, <1>7

LEMMA OutNext == IInv /\ OutInv /\ [Next]_vars => OutInv'
<1> SUFFICES ASSUME IInv, OutInv, [Next]_vars, NEW n \in Node \ Qt, NEW c \in Call
    PROVE  Out(n, c)'
  BY DEF OutInv
<1>1. Out(n, c)
  BY DEF OutInv
<1>2. ASSUME NEW p \in Node, NEW m \in Node, Start(p, m) PROVE Out(n, c)'
  BY <1>1, <1>2, OutStart
<1>3. ASSUME NEW p \in Node, Accept(p) \/ Accepted(p) \/ HangUp(p) PROVE Out(n, c)'
  BY <1>1, <1>3, OutAccept, OutAccepted, OutHangUp
<1>4. ASSUME NEW p \in Node, Decline(p) PROVE Out(n, c)'
  <2>1. incoming[p] \in Call /\ DeclineCall(p, incoming[p])
    BY <1>4, DeclineIsFirst DEF Decline
  <2>2. shown'[n] = c => shown[n] = c
    <3>1. c # None /\ TypeOK
      BY DEF Call, None, IInv
    <3> QED
      BY <1>4, <3>1 DEF Decline, TypeOK
  <2>3. Settled(n, c)' => Settled(n, c)
    BY <1>4, <2>2, NothingQueued DEF Settled, Decline, DeclineCall
  <2> QED
    BY <1>1, <2>1, <2>3, OutDecline
<1>5. ASSUME NEW p \in Node, Show(p) PROVE Out(n, c)'
  BY <1>1, <1>5, OutShow
<1>6. ASSUME NEW s \in Node, NEW r \in Node, Receive(s, r) PROVE Out(n, c)'
  BY <1>1, <1>6, OutReceive
<1>7. CASE UNCHANGED vars
  BY <1>1, <1>7
     DEF vars, mesh, front, history, Out, SettledAnswered, OutOfIt, ToldOnce, Settled,
         AnswerQueued, AcceptTo, Answered
<1> QED
  BY <1>2, <1>3, <1>4, <1>5, <1>6, <1>7 DEF Next, User

LEMMA OutInit == Init => OutInv
<1> SUFFICES ASSUME Init, NEW n \in Node \ Qt, NEW c \in Call PROVE Out(n, c)
  BY DEF OutInv
<1>1. c # None
  BY DEF Call, None
<1>2. ~Settled(n, c) /\ hungUp = {}
  BY <1>1 DEF Init, Settled, AnswerQueued
<1>3. \A s \in Node, i \in Nat : ~AcceptTo(s, n, i, c)
  BY DEF Init, AcceptTo
<1> QED
  BY <1>2, <1>3 DEF Out, SettledAnswered, OutOfIt, ToldOnce

(* Whoever has hung up a call in the terminal is not put back into it: by   *)
(* no answer still on its way, no accept_call under way and nothing the     *)
(* other's user does, however many calls and losses there are.              *)
THEOREM StaysOutHolds == Spec => []TerminalStaysOut
<1>1. OutInv /\ TypeOK => TerminalStaysOut
  BY DEF OutInv, Out, OutOfIt, TerminalStaysOut, StaysOut, TypeOK
<1>2. IInv => TypeOK
  BY DEF IInv
<1> QED
  BY <1>1, <1>2, IInvInit, IInvNext, OutInit, OutNext, PTL DEF Spec
=============================================================================
