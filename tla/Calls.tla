------------------------------- MODULE Calls -------------------------------
(***************************************************************************)
(* Ad-hoc voice calls: the session manager of crates/rift-mesh (start_call, *)
(* accept_call, decline_call, end_call, handle_call) together with the two  *)
(* front ends that drive it, the terminal client (bin/rift) and the Qt      *)
(* client's CallManager, which receive its events through a queue.          *)
(*                                                                         *)
(* Calls stand on the packet layer: what one peer sends another arrives in  *)
(* order, unless it is lost on the way.  A call is a number, its random     *)
(* SessionId; None is the channel's own session.                            *)
(***************************************************************************)
EXTENDS Integers, Sequences

CONSTANTS
    Node,
    Qt,         \* the nodes whose front end is CallManager
    MaxCall,    \* bound: calls started
    MaxLost     \* bound: control messages lost

ASSUME CallsAssumption ==
    /\ Qt \subseteq Node
    /\ MaxCall \in Nat
    /\ MaxLost \in Nat

Call == 1..MaxCall
None == 0

States == {"Unknown", "Ringing", "Active", "Ended"}
Kinds  == {"Invite", "Accept", "Decline", "Bye"}
Frame  == [kind : Kinds, call : Call]

(* What reaches the front end: IncomingCall, and CallStateChanged with its  *)
(* two states.                                                              *)
Event == [kind : {"Incoming", "Active", "Ended"}, call : Call]

VARIABLES
    state,      \* state[n][c]: the session manager's CallState
    members,    \* members[n][c]: its participants
    active,     \* active[n]: active_session, the one whose voice is played
    events,     \* events[n]: the queue of events to the front end
    answering,  \* answering[n]: the call whose accept_call is not done yet
    incoming,   \* incoming[n]: the call the front end shows as ringing
    shown,      \* shown[n]: the call the front end says the user is in
    net,        \* net[n][m]: the control messages in flight from n to m
    calls,      \* the calls started
    lost,       \* the messages lost
    caller,     \* history: who has started which call
    accepted,   \* history: the calls the callee's user has accepted
    declined,   \* history: the calls declined
    hungUp      \* history: who has hung up which call

mesh    == <<state, members, active>>
front   == <<incoming, shown>>
history == <<caller, accepted, declined, hungUp>>
vars    == <<mesh, events, answering, front, net, calls, lost, history>>

Init ==
    /\ state = [n \in Node |-> [c \in Call |-> "Unknown"]]
    /\ members = [n \in Node |-> [c \in Call |-> {}]]
    /\ active = [n \in Node |-> None]
    /\ events = [n \in Node |-> <<>>]
    /\ answering = [n \in Node |-> None]
    /\ incoming = [n \in Node |-> None]
    /\ shown = [n \in Node |-> None]
    /\ net = [n \in Node |-> [m \in Node |-> <<>>]]
    /\ calls = 0 /\ lost = 0
    /\ caller = [c \in Call |-> None]
    /\ accepted = {} /\ declined = {} /\ hungUp = {}

-----------------------------------------------------------------------------
Msg(kind, c) == [kind |-> kind, call |-> c]

SetState(n, c, s) == state' = [state EXCEPT ![n][c] = s]

AddMembers(n, c, ms) == members' = [members EXCEPT ![n][c] = @ \union ms]

(* send_call_to_peer to each of ms; those in gone never get it.  What it    *)
(* returns is ignored by every caller but start_call.                       *)
PostAll(n, ms, msg) ==
    \E gone \in SUBSET ms :
        /\ gone # {} => lost < MaxLost
        /\ lost' = IF gone = {} THEN lost ELSE lost + 1
        /\ net' = [net EXCEPT ![n] = [m \in Node |->
                      IF m \in ms \ gone THEN Append(net[n][m], msg)
                      ELSE net[n][m]]]

Leave(n, c) == IF active[n] = c THEN [active EXCEPT ![n] = None] ELSE active

(* The front end runs one call of the API, or handles one event, at a time. *)
Free(n) == answering[n] = None

-----------------------------------------------------------------------------
(* The user's operations.                                                   *)

(* CallManager refuses a second call, the terminal does not.                *)
MayStart(n) == n \in Qt => shown[n] = None

(* start_call.  An error in sending is returned, and then the front end     *)
(* shows nothing; the session stays.                                        *)
Start(n, m) ==
    /\ Free(n) /\ n # m /\ MayStart(n) /\ calls < MaxCall
    /\ LET c == calls + 1
       IN  /\ calls' = c
           /\ caller' = [caller EXCEPT ![c] = n]
           /\ SetState(n, c, "Ringing")
           /\ AddMembers(n, c, {n, m})
           /\ PostAll(n, {m}, Msg("Invite", c))
           /\ \/ UNCHANGED front /\ lost' # lost
              \/ /\ n \in Qt
                 /\ shown' = [shown EXCEPT ![n] = c]
                 /\ UNCHANGED incoming
              \/ /\ n \notin Qt
                 /\ incoming' = [incoming EXCEPT ![n] = None]
                 /\ UNCHANGED shown
    /\ UNCHANGED <<active, events, answering, accepted, declined, hungUp>>

(* accept_call up to its last lock: whatever state the session was in, it   *)
(* is Active, and everyone else in it is told.                              *)
Accept(n) ==
    /\ Free(n) /\ incoming[n] # None
    /\ LET c == incoming[n]
       IN  /\ SetState(n, c, "Active")
           /\ AddMembers(n, c, {n})
           /\ PostAll(n, members[n][c] \ {n}, Msg("Accept", c))
           /\ answering' = [answering EXCEPT ![n] = c]
           /\ accepted' = accepted \union {c}
    /\ UNCHANGED <<active, events, front, calls, caller, declined, hungUp>>

(* Mutation: the front end goes on showing the call as ringing.             *)
Mutant_Accepted(n) ==
    /\ ~Free(n)
    /\ active' = [active EXCEPT ![n] = answering[n]]
    /\ shown' = [shown EXCEPT ![n] = answering[n]]
    /\ answering' = [answering EXCEPT ![n] = None]
    /\ UNCHANGED <<state, members, events, incoming, net, calls, lost, history>>

(* The rest of accept_call, and the front end's update once it has returned.*)
Accepted(n) ==
    /\ ~Free(n)
    /\ active' = [active EXCEPT ![n] = answering[n]]
    /\ shown' = [shown EXCEPT ![n] = answering[n]]
    /\ incoming' = [incoming EXCEPT ![n] = None]
    /\ answering' = [answering EXCEPT ![n] = None]
    /\ UNCHANGED <<state, members, events, net, calls, lost, history>>

(* decline_call.                                                            *)
DeclineCall(n, c) ==
    /\ SetState(n, c, "Ended")
    /\ active' = Leave(n, c)
    /\ PostAll(n, members[n][c] \ {n}, Msg("Decline", c))
    /\ declined' = declined \union {c}
    /\ UNCHANGED <<members, answering, calls, caller, accepted, hungUp>>

Decline(n) ==
    /\ Free(n) /\ incoming[n] # None
    /\ DeclineCall(n, incoming[n])
    /\ incoming' = [incoming EXCEPT ![n] = None]
    /\ shown' = IF n \notin Qt /\ shown[n] = incoming[n]
                THEN [shown EXCEPT ![n] = None] ELSE shown
    /\ UNCHANGED events

(* Mutation: the peer is not told.                                          *)
Mutant_HangUp(n) ==
    /\ Free(n) /\ shown[n] # None
    /\ SetState(n, shown[n], "Ended")
    /\ active' = Leave(n, shown[n])
    /\ hungUp' = hungUp \union {<<n, shown[n]>>}
    /\ shown' = [shown EXCEPT ![n] = None]
    /\ UNCHANGED <<members, events, answering, incoming, net, calls, lost,
                   caller, accepted, declined>>

(* end_call.  CallManager shows a call it has started as the current one,   *)
(* so that its user can hang up before the other has answered; in the       *)
(* terminal /hangup ends only a call that is active.                        *)
HangUp(n) ==
    /\ Free(n) /\ shown[n] # None
    /\ LET c == shown[n]
       IN  /\ SetState(n, c, "Ended")
           /\ active' = Leave(n, c)
           /\ PostAll(n, members[n][c] \ {n}, Msg("Bye", c))
           /\ hungUp' = hungUp \union {<<n, c>>}
    /\ shown' = [shown EXCEPT ![n] = None]
    /\ UNCHANGED <<members, events, answering, incoming, calls, caller,
                   accepted, declined>>

-----------------------------------------------------------------------------
(* handle_call.  Each handler, like decline_call and end_call, takes the    *)
(* locks of the session manager and of active_session in turn; what a step  *)
(* of another task in between does is what it does before or after it.  The *)
(* exception is accept_call, whose second lock is the step Accepted.        *)

Arrives(s, r, kind) == net[s][r] # <<>> /\ Head(net[s][r]).kind = kind

Got(s, r) == Head(net[s][r]).call

Handle(s, r, event) ==
    /\ net' = [net EXCEPT ![s][r] = Tail(@)]
    /\ events' = [events EXCEPT ![r] = Append(@, Msg(event, Got(s, r)))]
    /\ UNCHANGED <<answering, front, calls, lost, history>>

(* Mutation: the callee is in the call as soon as it is invited.            *)
Mutant_RecvInvite(s, r) ==
    /\ Arrives(s, r, "Invite")
    /\ SetState(r, Got(s, r), "Active")
    /\ AddMembers(r, Got(s, r), {s, r})
    /\ active' = [active EXCEPT ![r] = Got(s, r)]
    /\ Handle(s, r, "Incoming")

RecvInvite(s, r) ==
    /\ Arrives(s, r, "Invite")
    /\ SetState(r, Got(s, r), "Ringing")
    /\ AddMembers(r, Got(s, r), {s, r})
    /\ UNCHANGED active
    /\ Handle(s, r, "Incoming")

(* Mutation: the session's state is not updated.                            *)
Mutant_RecvAccept(s, r) ==
    /\ Arrives(s, r, "Accept")
    /\ AddMembers(r, Got(s, r), {s, r})
    /\ active' = [active EXCEPT ![r] = Got(s, r)]
    /\ UNCHANGED state
    /\ Handle(s, r, "Active")

(* Whatever state the session was in, it is Active and the one played.      *)
RecvAccept(s, r) ==
    /\ Arrives(s, r, "Accept")
    /\ SetState(r, Got(s, r), "Active")
    /\ AddMembers(r, Got(s, r), {s, r})
    /\ active' = [active EXCEPT ![r] = Got(s, r)]
    /\ Handle(s, r, "Active")

RecvEnd(s, r) ==
    /\ Arrives(s, r, "Decline") \/ Arrives(s, r, "Bye")
    /\ SetState(r, Got(s, r), "Ended")
    /\ active' = Leave(r, Got(s, r))
    /\ UNCHANGED members
    /\ Handle(s, r, "Ended")

-----------------------------------------------------------------------------
(* The front ends' event handlers.                                          *)

Shows(n, kind) == Free(n) /\ events[n] # <<>> /\ Head(events[n]).kind = kind

Told(n) == Head(events[n]).call

NextEvent(n) == events' = [events EXCEPT ![n] = Tail(@)]

(* A second incoming call replaces the first.                               *)
ShowIncoming(n) ==
    /\ Shows(n, "Incoming")
    /\ n \in Qt => shown[n] = None
    /\ NextEvent(n)
    /\ incoming' = [incoming EXCEPT ![n] = Told(n)]
    /\ UNCHANGED <<mesh, answering, shown, net, calls, lost, history>>

(* CallManager::onIncomingCall, in a call: "busy".                          *)
Busy(n) ==
    /\ Shows(n, "Incoming")
    /\ n \in Qt /\ shown[n] # None
    /\ NextEvent(n)
    /\ DeclineCall(n, Told(n))
    /\ UNCHANGED front

(* The C interface drops the state that came with the event, so CallManager *)
(* shows neither the answer nor the end.                                    *)
ShowNothing(n) ==
    /\ n \in Qt
    /\ Shows(n, "Active") \/ Shows(n, "Ended")
    /\ NextEvent(n)
    /\ UNCHANGED <<mesh, answering, front, net, calls, lost, history>>

ShowActive(n) ==
    /\ n \notin Qt
    /\ Shows(n, "Active")
    /\ NextEvent(n)
    /\ shown' = [shown EXCEPT ![n] = Told(n)]
    /\ incoming' = [incoming EXCEPT ![n] = IF @ = Told(n) THEN None ELSE @]
    /\ UNCHANGED <<mesh, answering, net, calls, lost, history>>

(* The terminal does not look at the incoming call here.                    *)
ShowEnded(n) ==
    /\ n \notin Qt
    /\ Shows(n, "Ended")
    /\ NextEvent(n)
    /\ shown' = [shown EXCEPT ![n] = IF @ = Told(n) THEN None ELSE @]
    /\ UNCHANGED <<mesh, answering, incoming, net, calls, lost, history>>

-----------------------------------------------------------------------------

User(n) ==
    \/ \E m \in Node : Start(n, m)
    \/ Accept(n)
    \/ Decline(n)
    \/ HangUp(n)

Receive(s, r) ==
    \/ RecvInvite(s, r)
    \/ RecvAccept(s, r)
    \/ RecvEnd(s, r)

Show(n) ==
    \/ ShowIncoming(n)
    \/ Busy(n)
    \/ ShowNothing(n)
    \/ ShowActive(n)
    \/ ShowEnded(n)

Next ==
    \/ \E n \in Node : User(n) \/ Accepted(n) \/ Show(n)
    \/ \E s, r \in Node : Receive(s, r)

Spec == Init /\ [][Next]_vars

(* A node's receive loop runs on, and an accept_call that began is finished; *)
(* the users and the front ends need not do anything.                       *)
Fairness ==
    \A n \in Node :
        /\ WF_vars(\E s \in Node : Receive(s, n))
        /\ WF_vars(Accepted(n))

FairSpec == Spec /\ Fairness

-----------------------------------------------------------------------------
(* Every table entry, message and event is of its type.                     *)
TypeOK ==
    /\ state \in [Node -> [Call -> States]]
    /\ members \in [Node -> [Call -> SUBSET Node]]
    /\ active \in [Node -> Call \union {None}]
    /\ events \in [Node -> Seq(Event)]
    /\ answering \in [Node -> Call \union {None}]
    /\ incoming \in [Node -> Call \union {None}]
    /\ shown \in [Node -> Call \union {None}]
    /\ net \in [Node -> [Node -> Seq(Frame)]]
    /\ calls \in 0..MaxCall
    /\ lost \in 0..MaxLost
    /\ caller \in [Call -> Node \union {None}]
    /\ accepted \subseteq Call
    /\ declined \subseteq Call
    /\ hungUp \subseteq Node \X Call

(* Nobody plays or sends the voice of a call that its callee has not        *)
(* accepted, nor of one that has been declined, whatever both users do with *)
(* this call and with others (accept_call, decline_call and handle_call).   *)
Consent == \A n \in Node : active[n] # None => active[n] \in accepted \ declined

(* Who has hung up a call is not put back into it ("/hangup or /bye to end  *)
(* an active call", README.md): neither by an answer that was on its way    *)
(* nor by what the other's user does.                                       *)
StaysOut(n) == active[n] = None \/ <<n, active[n]>> \notin hungUp

TerminalStaysOut == \A n \in Node \ Qt : StaysOut(n)

(* A call that ended at one end ends at the other (Decline and Bye of       *)
(* handle_call), if no message is lost and the caller uses the terminal.    *)
EndsTogether ==
    \A c \in Call :
        caller[c] \notin Qt /\ (\E n \in Node : state[n][c] = "Ended")
            ~> lost > 0 \/ \A n \in Node : state[n][c] \in {"Unknown", "Ended"}

(* A caller learns of the answer (Accept and Decline of handle_call).       *)
CallerLearns ==
    \A c \in Call :
        c \in accepted \union declined
            ~> lost > 0 \/ \A n \in Node : caller[c] = n => state[n][c] # "Ringing"
=============================================================================
