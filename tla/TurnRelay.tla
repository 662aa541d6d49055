----------------------------- MODULE TurnRelay -----------------------------
(***************************************************************************)
(* The TURN client of rift-nat: a relay is allocated in at most two        *)
(* exchanges with the server, and then used by several tasks at once, the  *)
(* keepalive among them.  Each send first sees to a permission and to a    *)
(* channel number for its peer, neither of which waits for the server's    *)
(* answer; the client's tables are caches of the server's.                 *)
(*                                                                         *)
(* The server and the network are the environment.  Messages are kept in   *)
(* sets that only grow: a message may be taken late, in any order, more    *)
(* than once or never.  The server and its peers follow the protocol.      *)
(***************************************************************************)
EXTENDS Naturals, FiniteSets, Functions

CONSTANTS
    Peer,          \* addresses that are sent to through the relay
    Task           \* tasks of the mesh that send

(* With more peers AllocateNumber would come to numbers that is_channel_data *)
(* does not take for one.                                                    *)
ASSUME TurnAssumption ==
    /\ IsFiniteSet(Peer) /\ Cardinality(Peer) < 16384
    /\ IsFiniteSet(Task)

\* The relay's own address, to which the keepalive sends.
Own == "own"
Keepalive == "keepalive"

Addresses == Peer \cup {Own}
Senders   == Task \cup {Keepalive}
FirstNumber == 16384                               \* 0x4000
Numbers   == FirstNumber .. FirstNumber + Cardinality(Addresses)

LongTerm == {"username", "realm", "nonce", "integrity"}

VARIABLES
    demands,       \* whether the server asks for long-term credentials
    config,        \* what of {"username", "credential"} is configured
    alloc,         \* the allocation: [st, attempt, challenged]
    asked,         \* Allocate requests on their way: [tx, attrs]
    answers,       \* answers to them: [tx, kind]
    permissions,   \* the client's cache of permissions
    channels,      \* the client's channel numbers: peer -> number
    task,          \* the send of each task: [pc, peer, number]
    uplink,        \* messages to the server
    allowed,       \* the server's permissions
    bound,         \* the server's channel bindings: number -> peer
    downlink,      \* messages from the server
    delivered,     \* <<peer meant, peer reached>>
    reported,      \* <<peer it came from, peer the mesh is told>>
    raced          \* two tasks have chosen one number for different peers

turnVars == <<demands, config, alloc, asked, answers, permissions, channels,
              task, uplink, allowed, bound, downlink, delivered, reported, raced>>

allocation == <<demands, config, alloc, asked, answers>>
client     == <<permissions, channels, task, raced>>
outside    == <<allowed, bound, delivered>>

Resting == [pc |-> "idle", peer |-> Own, number |-> 0]

\* What is configured matters only to a server that asks for it.
TurnInit ==
    /\ demands \in BOOLEAN
    /\ config \in IF demands THEN SUBSET {"username", "credential"} ELSE {{}}
    /\ alloc = [st |-> "idle", attempt |-> 0, challenged |-> FALSE]
    /\ asked = {} /\ answers = {}
    /\ permissions = {} /\ channels = <<>>
    /\ task = [t \in Senders |-> Resting]
    /\ uplink = {} /\ allowed = {} /\ bound = <<>> /\ downlink = {}
    /\ delivered = {} /\ reported = {} /\ raced = FALSE

-----------------------------------------------------------------------------
(* Allocation.                                                             *)

AllocateAttributes ==
    (config \cap {"username"})
        \cup (IF alloc.challenged THEN {"realm", "nonce"} ELSE {})
        \cup (IF alloc.challenged /\ config = {"username", "credential"}
              THEN {"integrity"} ELSE {})

\* One exchange: the request is sent with a transaction of its own.
Allocate ==
    /\ alloc.st = "idle"
    /\ asked' = asked \cup {[tx |-> alloc.attempt, attrs |-> AllocateAttributes]}
    /\ alloc' = [alloc EXCEPT !.st = "waiting"]
    /\ UNCHANGED <<demands, config, answers, client, outside, uplink, downlink, reported>>

Satisfied(attrs) == demands => LongTerm \subseteq attrs

ServerAnswers ==
    /\ \E q \in asked :
          \E kind \in IF Satisfied(q.attrs) THEN {"success", "error"} ELSE {"challenge"} :
             answers' = answers \cup {[tx |-> q.tx, kind |-> kind]}
    /\ UNCHANGED <<demands, config, alloc, asked, client, outside, uplink, downlink, reported>>

\* How an answer is understood: one to another transaction is invalid.
ResponseKind(a) == IF a.tx = alloc.attempt THEN a.kind ELSE "invalid"

\* What follows the first datagram that is read.  Answers that come after a
\* success are read by recv_from, which passes over them.
Answered ==
    /\ alloc.st = "waiting"
    /\ \E a \in answers :
          \/ /\ ResponseKind(a) = "success"
             /\ alloc' = [alloc EXCEPT !.st = "relay"]
             /\ asked' = {} /\ answers' = {}
          \/ /\ ResponseKind(a) = "challenge"
             /\ UNCHANGED <<asked, answers>>
             /\ alloc' = IF alloc.attempt = 0
                         THEN [st |-> "idle", attempt |-> 1, challenged |-> TRUE]
                         ELSE [alloc EXCEPT !.st = "failed"]
          \/ /\ ResponseKind(a) \in {"error", "invalid"}
             /\ alloc' = [alloc EXCEPT !.st = "failed"]
             /\ UNCHANGED <<asked, answers>>
    /\ UNCHANGED <<demands, config, client, outside, uplink, downlink, reported>>

AllocationTimesOut ==
    /\ alloc.st = "waiting"
    /\ alloc' = [alloc EXCEPT !.st = "failed"]
    /\ UNCHANGED <<demands, config, asked, answers, client, outside, uplink, downlink, reported>>

-----------------------------------------------------------------------------
(* Sending through the relay.                                              *)

ShouldAuth == config = {"username", "credential"} /\ alloc.challenged

\* What add_auth appends; the other long-term attributes are not sent.
Signature == IF ShouldAuth THEN {"integrity"} ELSE {}

\* The three messages about a peer.
PermitRequest(p)  == [type |-> "permit", peer |-> p, attrs |-> Signature]
BindRequest(p, n) == [type |-> "bind", peer |-> p, number |-> n, attrs |-> Signature]
IndicationTo(p)   == [type |-> "indication", peer |-> p]

StartSend(t) ==
    /\ alloc.st = "relay" /\ task[t].pc = "idle"
    /\ \E p \in IF t = Keepalive THEN {Own} ELSE Peer :
          task' = [task EXCEPT ![t] = [pc |-> "permit", peer |-> p, number |-> 0]]
    /\ UNCHANGED <<allocation, permissions, channels, raced, outside, uplink, downlink, reported>>

\* ensure_permission: entered as soon as the request has been sent.  If that
\* fails the send is over.
Permit(t) ==
    /\ task[t].pc = "permit"
    /\ LET p == task[t].peer IN
       \/ /\ p \in permissions
          /\ task' = [task EXCEPT ![t].pc = "lookup"]
          /\ UNCHANGED <<permissions, uplink>>
       \/ /\ p \notin permissions
          /\ uplink' = uplink \cup {PermitRequest(p)}
          /\ permissions' = permissions \cup {p}
          /\ task' = [task EXCEPT ![t].pc = "lookup"]
       \/ /\ p \notin permissions
          /\ task' = [task EXCEPT ![t] = Resting]
          /\ UNCHANGED <<permissions, uplink>>
    /\ UNCHANGED <<allocation, channels, raced, outside, downlink, reported>>

\* Mutant: the numbers in use are not looked at.
NumberUnchecked(table) == FirstNumber

\* The least number that no entry of the table has.
AllocateNumber(table) ==
    CHOOSE n \in Numbers :
       /\ n \notin Range(table)
       /\ \A k \in FirstNumber .. n - 1 : k \in Range(table)

\* ensure_channel: a number is chosen under a lock that is released before
\* the number is entered.
Lookup(t) ==
    /\ task[t].pc = "lookup"
    /\ LET p == task[t].peer IN
       IF p \in DOMAIN channels
       THEN /\ task' = [task EXCEPT ![t].pc = "send", ![t].number = channels[p]]
            /\ UNCHANGED raced
       ELSE LET n == AllocateNumber(channels) IN
            /\ task' = [task EXCEPT ![t].pc = "bind", ![t].number = n]
            /\ raced' = (raced \/ \E u \in Senders : /\ task[u].pc = "bind"
                                                      /\ task[u].peer # p
                                                      /\ task[u].number = n)
    /\ UNCHANGED <<allocation, permissions, channels, outside, uplink, downlink, reported>>

\* The binding is asked for and entered; if the request cannot be sent, the
\* data goes out without a channel.
Bind(t) ==
    /\ task[t].pc = "bind"
    /\ LET p == task[t].peer
           n == task[t].number IN
       \/ /\ uplink' = uplink \cup {BindRequest(p, n)}
          /\ channels' = [q \in DOMAIN channels \cup {p} |-> IF q = p THEN n ELSE channels[q]]
          /\ task' = [task EXCEPT ![t].pc = "send"]
       \/ /\ task' = [task EXCEPT ![t].pc = "indicate"]
          /\ UNCHANGED <<uplink, channels>>
    /\ UNCHANGED <<allocation, permissions, raced, outside, downlink, reported>>

SendData(t) ==
    /\ task[t].pc = "send"
    /\ uplink' = uplink \cup {[type |-> "data", number |-> task[t].number, meant |-> task[t].peer]}
    /\ task' = [task EXCEPT ![t] = Resting]
    /\ UNCHANGED <<allocation, permissions, channels, raced, outside, downlink, reported>>

SendIndication(t) ==
    /\ task[t].pc = "indicate"
    /\ uplink' = uplink \cup {IndicationTo(task[t].peer)}
    /\ task' = [task EXCEPT ![t] = Resting]
    /\ UNCHANGED <<allocation, permissions, channels, raced, outside, downlink, reported>>

-----------------------------------------------------------------------------
(* The server and the peers.                                               *)

\* A number stays with the peer it was first bound to, and a peer with its
\* number.
ServerBinds ==
    \E m \in uplink :
       /\ m.type = "bind" /\ Satisfied(m.attrs)
       /\ m.number \notin DOMAIN bound /\ m.peer \notin Range(bound)
       /\ bound' = [k \in DOMAIN bound \cup {m.number} |->
                       IF k = m.number THEN m.peer ELSE bound[k]]
       /\ allowed' = allowed \cup {m.peer}
       /\ UNCHANGED <<allocation, client, uplink, downlink, delivered, reported>>

ServerPermits ==
    \E m \in uplink :
       /\ m.type = "permit" /\ Satisfied(m.attrs)
       /\ allowed' = allowed \cup {m.peer}
       /\ UNCHANGED <<allocation, client, uplink, bound, downlink, delivered, reported>>

ServerRelays ==
    \E m \in uplink :
       /\ \/ /\ m.type = "data" /\ m.number \in DOMAIN bound
             /\ bound[m.number] \in allowed
             /\ delivered' = delivered \cup {<<m.meant, bound[m.number]>>}
          \/ /\ m.type = "indication" /\ m.peer \in allowed
             /\ delivered' = delivered \cup {<<m.peer, m.peer>>}
       /\ UNCHANGED <<allocation, client, uplink, allowed, bound, downlink, reported>>

PeerSends ==
    \E p \in allowed :
       /\ downlink' = downlink \cup
             IF p \in Range(bound)
             THEN {[type |-> "data", number |-> n, from |-> p] :
                      n \in {k \in DOMAIN bound : bound[k] = p}}
             ELSE {[type |-> "indication", from |-> p]}
       /\ UNCHANGED <<allocation, client, uplink, outside, reported>>

-----------------------------------------------------------------------------
(* recv_from: of several peers with the number it reports whichever the    *)
(* table yields first; data on a number it does not know is passed over.   *)

Sources(m) ==
    IF m.type = "data" THEN {p \in DOMAIN channels : channels[p] = m.number} ELSE {m.from}

Recv ==
    \E m \in downlink :
       /\ \E p \in Sources(m) : reported' = reported \cup {<<m.from, p>>}
       /\ UNCHANGED <<allocation, client, outside, uplink, downlink>>

AllocationNext == Allocate \/ ServerAnswers \/ Answered \/ AllocationTimesOut

RelayNext ==
    \/ \E t \in Senders : \/ StartSend(t) \/ Permit(t) \/ Lookup(t) \/ Bind(t)
                          \/ SendData(t) \/ SendIndication(t)
    \/ ServerBinds \/ ServerPermits \/ ServerRelays \/ PeerSends \/ Recv

TurnNext == AllocationNext \/ RelayNext

TurnSpec == TurnInit /\ [][TurnNext]_turnVars

-----------------------------------------------------------------------------
(* What is sent through the relay reaches the peer it is meant for and     *)
(* nobody else, and what comes back is taken for that of the peer it comes *)
(* from, whatever the network does to the requests of either table, unless *)
(* two tasks have chosen the same number for different peers at the same   *)
(* time (TurnRelay::ensure_channel, recv_from).                            *)
ReachesPeer ==
    ~raced => \A d \in delivered \cup reported : d[1] = d[2]
=============================================================================
