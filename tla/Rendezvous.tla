----------------------------- MODULE Rendezvous -----------------------------
(***************************************************************************)
(* Predictive rendezvous: peers that share a token send one another a      *)
(* probe in every slot of its window, without a server.                    *)
(*                                                                         *)
(* There are two users of it.  RndzvConnector::connect and                 *)
(* RndzvListener::accept (crates/rift-rndzv) have a socket of their own    *)
(* and run a Noise handshake after the probe, through a TURN relay if the  *)
(* probes of a connector stay unanswered.  run_rendezvous (crates/         *)
(* rift-mesh) gets its probes from the receive task of the mesh and leaves *)
(* the handshake to the mesh.  What a session does then is                 *)
(* ReliableChannel's part.                                                 *)
(*                                                                         *)
(* All hold the same token.  Clocks agree on nothing: each party's slot    *)
(* advances by itself, and every time limit may expire at any moment.  The *)
(* network loses what it does not deliver, and may repeat and reorder.     *)
(***************************************************************************)
EXTENDS Integers, Sequences, FiniteSets, SequencesExt

CONSTANTS
    Connector,    \* callers of connect; each calls once
    Listener,     \* callers of accept
    Mesh,         \* nodes that call run_rendezvous
    Casts,        \* sets of parties that may take part in one rendezvous
    RemoteAddrs,  \* remote_addrs, potential_remote_addrs: a sequence for each
    Hints,        \* what the DHT knows in mode RndzvWithDhtHints, else {}
    Servers,      \* relay_servers in the modes that use them, else 0
    Allowed,      \* allowed_fingerprints of each party's token
    LastSlot,     \* the window has the slots 1..LastSlot
    MaxAccepts,   \* bound: calls of accept
    MaxRuns,      \* bound: calls of run_rendezvous by a mesh node
    Runs,         \* bound: those of each
    QueueCap,     \* room for probes in the queue of a run (64)
    Dup           \* whether the network repeats datagrams

Party == Connector \union Listener \union Mesh
Run   == 1..MaxRuns

ASSUME RendezvousAssumption ==
    /\ Casts \subseteq SUBSET Party
    /\ LastSlot \in Nat \ {0} /\ MaxAccepts \in Nat
    /\ MaxRuns \in Nat /\ Runs \in [Mesh -> 0..MaxRuns]
    /\ QueueCap \in Nat \ {0} /\ Dup \in BOOLEAN
    /\ Servers \in [Connector -> Nat]
    /\ Allowed \in [Party -> SUBSET Party]
    /\ Hints \in [Connector -> SUBSET Party]

(* What the datagrams of c come from when server k relays them.             *)
Relayed(c, k) == [via |-> k, owner |-> c]

(* A socket that c binds when its relayed handshake is over.                *)
Fresh(c) == [fresh |-> c]

Nobody == "nobody"       \* the fingerprint of a probe through a relay
Junk   == "junk"         \* an ephemeral key nobody holds
None   == [at |-> Nobody]

Probe(s, p)  == [kind |-> "probe", slot |-> s, sender |-> p]
First(i)     == [kind |-> "first", i |-> i]
Second(i, r) == [kind |-> "second", i |-> i, r |-> r]
Third(i, r)  == [kind |-> "third", i |-> i, r |-> r]

VARIABLES
    cast,      \* the parties of this rendezvous
    slot,      \* what each party's clock says: 0 before t0, then the slot
    last,      \* last_slot of each connector, 0 if none
    stage,     \* where each call of connect or accept stands
    hs,        \* its handshake
    hop,       \* connect_via_relay: server and position in remote_addrs
    accepts,   \* calls of accept so far
    run,       \* the runs of each mesh node: state, last slot and queue
    table,     \* pr_sessions of each mesh node for this token, 0 if none
    hand,      \* the probe that the receive task holds, and its run's sender
    leaving,   \* runs whose guard is dropped and not yet unregistered
    net,       \* datagrams on their way
    completed  \* history: handshakes that somebody saw the end of, each with
               \* the addresses it ran between and the path of its session

callVars == <<last, stage, hs, hop, accepts>>
meshVars == <<run, table, hand, leaving>>
vars == <<cast, slot, callVars, meshVars, net, completed>>

Datagram(a, b, body) == [from |-> a, to |-> b, body |-> body]

(* compute_slot_params: no slot before t0 and after the window.             *)
InWindow(s) == s \in 1..LastSlot

(* parse_probe_payload, validate_probe_for_token and identity_allows.       *)
Valid(p, body) ==
    /\ body.kind = "probe"
    /\ Allowed[p] = {} \/ body.sender \in Allowed[p]

(* The keys of run_handshake are made for it, so that no list names them.   *)
IdentityHolds(p) == Allowed[p] = {}

(* d has been read, and ds are sent.                                        *)
Exchanged(d, ds) == net' = (IF Dup THEN net ELSE net \ {d}) \union ds

-----------------------------------------------------------------------------
(* RndzvConnector::connect.                                                 *)

(* Without a candidate the probes are broadcast, to a port that no listener *)
(* is bound to.                                                             *)
Candidates(c) == Range(RemoteAddrs[c]) \union Hints[c]

SendProbes(c) ==
    /\ stage[c] = "probing" /\ InWindow(slot[c]) /\ last[c] # slot[c]
    /\ last' = [last EXCEPT ![c] = slot[c]]
    /\ net' = net \union
         {Datagram(c, a, Probe(slot[c], c)) : a \in Candidates(c)}
    /\ UNCHANGED <<cast, slot, stage, hs, hop, accepts, meshVars, completed>>

(* A valid probe makes the connector the initiator of a handshake with its  *)
(* sender; other datagrams are dropped.  A connector makes one handshake,   *)
(* so its ephemeral key bears its name.                                     *)
ReadAnswer(c, d) ==
    /\ stage[c] = "probing" /\ d.to = c
    /\ IF Valid(c, d.body)
       THEN /\ stage' = [stage EXCEPT ![c] = "second"]
            /\ hs' = [hs EXCEPT ![c] = [at |-> c, with |-> d.from]]
            /\ Exchanged(d, {Datagram(c, d.from, First(c))})
       ELSE Exchanged(d, {}) /\ UNCHANGED <<stage, hs>>
    /\ UNCHANGED <<cast, slot, last, hop, accepts, meshVars, completed>>

Deadline(c) ==
    /\ stage[c] = "probing"
    /\ stage' = [stage EXCEPT ![c] = IF Servers[c] > 0 THEN "allocating" ELSE "failed"]
    /\ UNCHANGED <<cast, slot, last, hs, hop, accepts, meshVars, net, completed>>

(* The PathBinding of a session on p's own socket, None if it has none.     *)
OwnPath(p) ==
    IF IdentityHolds(p) THEN [socket |-> p, to |-> hs[p].with] ELSE None

(* The rest of the handshake.  Whatever comes next is taken for message 2,  *)
(* and a failure ends the call.                                             *)
Finished(c, r, path) ==
    /\ completed' = completed \union
         {[role |-> "I", at |-> hs[c].at, with |-> hs[c].with, i |-> c, r |-> r,
           path |-> path]}
    /\ stage' = [stage EXCEPT ![c] = IF path = None THEN "failed" ELSE "done"]

Readable(c, body) == body.kind = "second" /\ body.i = c

ReadSecond(c, d) ==
    /\ stage[c] = "second" /\ d.to = c
    /\ IF Readable(c, d.body)
       THEN /\ Finished(c, d.body.r, OwnPath(c))
            /\ Exchanged(d, {Datagram(c, hs[c].with, Third(c, d.body.r))})
       ELSE /\ stage' = [stage EXCEPT ![c] = "failed"]
            /\ Exchanged(d, {})
            /\ UNCHANGED completed
    /\ UNCHANGED <<cast, slot, last, hs, hop, accepts, meshVars>>

-----------------------------------------------------------------------------
(* connect_via_relay: every address through every server, in turn.          *)

(* On to the next server.                                                   *)
NextServer(c) ==
    /\ hop' = [hop EXCEPT ![c] = [server |-> @.server + 1, addr |-> 1]]
    /\ stage' = [stage EXCEPT ![c] =
                    IF hop[c].server < Servers[c] THEN "allocating" ELSE "failed"]

(* allocate_turn_relay, which the server may refuse or not answer.          *)
Allocate(c) ==
    /\ stage[c] = "allocating"
    /\ \/ stage' = [stage EXCEPT ![c] = "relaying"] /\ UNCHANGED hop
       \/ NextServer(c)
    /\ UNCHANGED <<cast, slot, last, hs, accepts, meshVars, net, completed>>

(* The probe of a relay names slot 0 and nobody.                            *)
RelayProbe(c) ==
    /\ stage[c] = "relaying"
    /\ IF hop[c].addr > Len(RemoteAddrs[c])
       THEN NextServer(c) /\ UNCHANGED net
       ELSE /\ stage' = [stage EXCEPT ![c] = "answer"]
            /\ net' = net \union
                 {Datagram(Relayed(c, hop[c].server), RemoteAddrs[c][hop[c].addr],
                           Probe(0, Nobody))}
            /\ UNCHANGED hop
    /\ UNCHANGED <<cast, slot, last, hs, accepts, meshVars, completed>>

NextAddr(c) ==
    /\ stage' = [stage EXCEPT ![c] = "relaying"]
    /\ hop' = [hop EXCEPT ![c].addr = @ + 1]

(* The first datagram within 500 ms, whatever it is, is the answer.         *)
ReadRelayAnswer(c, d) ==
    /\ stage[c] = "answer" /\ d.to = Relayed(c, hop[c].server)
    /\ IF Valid(c, d.body)
       THEN /\ stage' = [stage EXCEPT ![c] = "relaysecond"]
            /\ hs' = [hs EXCEPT ![c] = [at |-> d.to, with |-> d.from]]
            /\ Exchanged(d, {Datagram(d.to, d.from, First(c))})
            /\ UNCHANGED hop
       ELSE NextAddr(c) /\ Exchanged(d, {}) /\ UNCHANGED hs
    /\ UNCHANGED <<cast, slot, last, accepts, meshVars, completed>>

(* No answer, or the probe could not be sent.                               *)
NoRelayAnswer(c) ==
    /\ stage[c] = "answer"
    /\ NextAddr(c)
    /\ UNCHANGED <<cast, slot, last, hs, accepts, meshVars, net, completed>>

(* The session is bound to a fresh socket and sends to the connector's own  *)
(* relayed address.                                                         *)
RelayedPath(c) == [socket |-> Fresh(c), to |-> hs[c].at]

(* run_handshake_over_relay; the bind after it may fail.                    *)
ReadRelaySecond(c, d) ==
    /\ stage[c] = "relaysecond" /\ d.to = hs[c].at
    /\ IF Readable(c, d.body)
       THEN /\ \/ Finished(c, d.body.r, None)
               \/ IdentityHolds(c) /\ Finished(c, d.body.r, RelayedPath(c))
            /\ Exchanged(d, {Datagram(d.to, hs[c].with, Third(c, d.body.r))})
       ELSE /\ stage' = [stage EXCEPT ![c] = "failed"]
            /\ Exchanged(d, {})
            /\ UNCHANGED completed
    /\ UNCHANGED <<cast, slot, last, hs, hop, accepts, meshVars>>

-----------------------------------------------------------------------------
(* RndzvListener::accept.  A call makes one handshake, so its ephemeral key *)
(* is named by the listener and the number of the call.                     *)

Accept(l) ==
    /\ l \in cast /\ stage[l] \in {"idle", "failed"} /\ accepts[l] < MaxAccepts
    /\ accepts' = [accepts EXCEPT ![l] = @ + 1]
    /\ stage' = [stage EXCEPT ![l] = "listening"]
    /\ UNCHANGED <<cast, slot, last, hs, hop, meshVars, net, completed>>

ReadProbe(l, d) ==
    /\ stage[l] = "listening" /\ d.to = l
    /\ IF Valid(l, d.body)
       THEN /\ stage' = [stage EXCEPT ![l] = "first"]
            /\ hs' = [hs EXCEPT ![l] = [at |-> l, with |-> d.from]]
            /\ Exchanged(d, {Datagram(l, d.from, Probe(d.body.slot, l))})
       ELSE Exchanged(d, {}) /\ UNCHANGED <<stage, hs>>
    /\ UNCHANGED <<cast, slot, last, hop, accepts, meshVars, completed>>

Responder(l) == <<l, accepts[l]>>

(* Whatever comes next is taken for message 1: nothing in it is             *)
(* authenticated, so that any datagram will do, a second probe for one; the *)
(* answer goes to the sender of the probe that was accepted.                *)
ReadFirst(l, d) ==
    /\ stage[l] = "first" /\ d.to = l
    /\ LET i == IF d.body.kind = "first" THEN d.body.i ELSE Junk
       IN  /\ hs' = [hs EXCEPT ![l] = [at |-> l, with |-> hs[l].with, i |-> i]]
           /\ Exchanged(d, {Datagram(l, hs[l].with, Second(i, Responder(l)))})
    /\ stage' = [stage EXCEPT ![l] = "third"]
    /\ UNCHANGED <<cast, slot, last, hop, accepts, meshVars, completed>>

(* Mutation: the third message is not waited for.                           *)
Mutant_Concludes(l, body) == body.kind \in {"probe", "first", "third"}

Concludes(l, body) ==
    /\ body.kind = "third"
    /\ body.i = hs[l].i /\ body.r = Responder(l)

ReadThird(l, d) ==
    /\ stage[l] = "third" /\ d.to = l
    /\ IF Concludes(l, d.body)
       THEN /\ completed' = completed \union
                 {[role |-> "R", at |-> l, with |-> hs[l].with, i |-> hs[l].i,
                   r |-> Responder(l), path |-> OwnPath(l)]}
            /\ stage' = [stage EXCEPT ![l] = IF OwnPath(l) = None THEN "failed" ELSE "done"]
       ELSE stage' = [stage EXCEPT ![l] = "failed"] /\ UNCHANGED completed
    /\ Exchanged(d, {})
    /\ UNCHANGED <<cast, slot, last, hs, hop, accepts, meshVars>>

(* Mutation: recv_from in run_handshake has no time limit.                  *)
Mutant_GivesUp(p) ==
    /\ stage[p] \in {"listening", "relaysecond"}
    /\ stage' = [stage EXCEPT ![p] = "failed"]
    /\ UNCHANGED <<cast, slot, last, hs, hop, accepts, meshVars, net, completed>>

(* The deadline of accept, the time limit of a read of run_handshake, or an *)
(* error of the socket.                                                     *)
GivesUp(p) ==
    /\ stage[p] \in {"listening", "first", "second", "third", "relaysecond"}
    /\ stage' = [stage EXCEPT ![p] = "failed"]
    /\ UNCHANGED <<cast, slot, last, hs, hop, accepts, meshVars, net, completed>>

-----------------------------------------------------------------------------
(* MeshHandle::run_rendezvous.                                              *)

NoRun == [state |-> "new", last |-> 0, queue |-> <<>>]

NoHand == [run |-> 0]

Ended == {"refused", "met", "closed", "over"}

(* register_pr_session.  A run that finds an entry is refused before it has *)
(* a guard.                                                                 *)
StartRun(m, k) ==
    /\ m \in cast /\ k <= Runs[m] /\ run[m][k].state = "new"
    /\ \A j \in 1..(k - 1) : run[m][j].state # "new"
    /\ IF table[m] # 0
       THEN run' = [run EXCEPT ![m][k].state = "refused"] /\ UNCHANGED table
       ELSE /\ run' = [run EXCEPT ![m][k].state = "running"]
            /\ table' = [table EXCEPT ![m] = k]
    /\ UNCHANGED <<cast, slot, callVars, hand, leaving, net, completed>>

Emit(m, k) ==
    /\ run[m][k].state = "running"
    /\ InWindow(slot[m]) /\ run[m][k].last # slot[m]
    /\ run' = [run EXCEPT ![m][k].last = slot[m]]
    /\ net' = net \union
         {Datagram(m, a, Probe(slot[m], m)) : a \in Range(RemoteAddrs[m])}
    /\ UNCHANGED <<cast, slot, callVars, table, hand, leaving, completed>>

(* The run returns: its queue is closed, and its guard leaves a task behind *)
(* that unregisters it later.                                               *)
Return(m, k, how) ==
    /\ run' = [run EXCEPT ![m][k] = [state |-> how, last |-> 0, queue |-> <<>>]]
    /\ leaving' = [leaving EXCEPT ![m] = @ \union {k}]
    /\ UNCHANGED <<cast, slot, callVars, table, hand, net, completed>>

(* RendezvousState::record_received_probe: the first valid one is it.       *)
TakeProbe(m, k) ==
    /\ run[m][k].state = "running" /\ run[m][k].queue # <<>>
    /\ IF Valid(m, Head(run[m][k].queue))
       THEN Return(m, k, "met")
       ELSE /\ run' = [run EXCEPT ![m][k].queue = Tail(@)]
            /\ UNCHANGED <<cast, slot, callVars, table, hand, leaving, net, completed>>

(* Nobody holds a sender of the queue any more.                             *)
FindClosed(m, k) ==
    /\ run[m][k].state = "running" /\ run[m][k].queue = <<>>
    /\ table[m] # k /\ hand[m].run # k
    /\ Return(m, k, "closed")

(* max_duration is over, the window is, or a probe cannot be sent.          *)
RunOut(m, k) == run[m][k].state = "running" /\ Return(m, k, "over")

(* unregister_pr_session removes the token's entry, whosever it is.         *)
Unregister(m, k) ==
    /\ k \in leaving[m]
    /\ leaving' = [leaving EXCEPT ![m] = @ \ {k}]
    /\ table' = [table EXCEPT ![m] = 0]
    /\ UNCHANGED <<cast, slot, callVars, run, hand, net, completed>>

(* try_handle_pr_probe, up to the send.  Without an entry the datagram goes *)
(* on to the packet layer.                                                  *)
PickUp(m, d) ==
    /\ m \in cast /\ d.to = m /\ hand[m] = NoHand
    /\ hand' = [hand EXCEPT ![m] =
                   IF table[m] = 0 THEN NoHand ELSE [run |-> table[m], probe |-> d.body]]
    /\ Exchanged(d, {})
    /\ UNCHANGED <<cast, slot, callVars, run, table, leaving, completed>>

(* Mutation: try_send instead of send, so that a full queue looks closed.   *)
Mutant_HandOver(m) ==
    /\ hand[m] # NoHand
    /\ LET k == hand[m].run
       IN  IF run[m][k].state = "running" /\ Len(run[m][k].queue) < QueueCap
           THEN /\ run' = [run EXCEPT ![m][k].queue = Append(@, hand[m].probe)]
                /\ UNCHANGED table
           ELSE table' = [table EXCEPT ![m] = 0] /\ UNCHANGED run
    /\ hand' = [hand EXCEPT ![m] = NoHand]
    /\ UNCHANGED <<cast, slot, callVars, leaving, net, completed>>

(* The send awaits room in the queue.  It fails if the run has returned,    *)
(* and the token's entry is removed, whosever it is by now.                 *)
HandOver(m) ==
    /\ hand[m] # NoHand
    /\ LET k == hand[m].run
       IN  IF run[m][k].state = "running"
           THEN /\ Len(run[m][k].queue) < QueueCap
                /\ run' = [run EXCEPT ![m][k].queue = Append(@, hand[m].probe)]
                /\ UNCHANGED table
           ELSE table' = [table EXCEPT ![m] = 0] /\ UNCHANGED run
    /\ hand' = [hand EXCEPT ![m] = NoHand]
    /\ UNCHANGED <<cast, slot, callVars, leaving, net, completed>>

-----------------------------------------------------------------------------

Init ==
    /\ cast \in Casts
    /\ slot = [p \in Connector \union Mesh |-> 0]
    /\ last = [c \in Connector |-> 0]
    /\ stage = [p \in Connector \union Listener |->
                   IF p \in cast /\ p \in Connector THEN "probing" ELSE "idle"]
    /\ hs = [p \in Connector \union Listener |-> None]
    /\ hop = [c \in Connector |-> [server |-> 1, addr |-> 1]]
    /\ accepts = [l \in Listener |-> 0]
    /\ run = [m \in Mesh |-> [k \in Run |-> NoRun]]
    /\ table = [m \in Mesh |-> 0]
    /\ hand = [m \in Mesh |-> NoHand]
    /\ leaving = [m \in Mesh |-> {}]
    /\ net = {}
    /\ completed = {}

Tick(p) ==
    /\ p \in cast /\ slot[p] <= LastSlot
    /\ slot' = [slot EXCEPT ![p] = @ + 1]
    /\ UNCHANGED <<cast, callVars, meshVars, net, completed>>

Connecting(c) ==
    \/ SendProbes(c) \/ Deadline(c)
    \/ Allocate(c) \/ RelayProbe(c) \/ NoRelayAnswer(c)
    \/ GivesUp(c)

ReadByConnector(c, d) ==
    \/ ReadAnswer(c, d) \/ ReadSecond(c, d)
    \/ ReadRelayAnswer(c, d) \/ ReadRelaySecond(c, d)

ReadByListener(l, d) ==
    \/ ReadProbe(l, d) \/ ReadFirst(l, d) \/ ReadThird(l, d)

Running(m, k) ==
    \/ StartRun(m, k) \/ Emit(m, k) \/ TakeProbe(m, k)
    \/ FindClosed(m, k) \/ RunOut(m, k) \/ Unregister(m, k)

Next ==
    \/ \E p \in Connector \union Mesh : Tick(p)
    \/ \E c \in Connector : Connecting(c)
    \/ \E l \in Listener : Accept(l) \/ GivesUp(l)
    \/ \E m \in Mesh, k \in Run : Running(m, k)
    \/ \E m \in Mesh : HandOver(m)
    \/ \E d \in net :
         \/ \E c \in Connector : ReadByConnector(c, d)
         \/ \E l \in Listener : ReadByListener(l, d)
         \/ \E m \in Mesh : PickUp(m, d)

(* Time limits expire and tasks run on; nobody has to call, and no datagram *)
(* has to arrive.                                                           *)
Fairness ==
    /\ \A c \in Connector : WF_vars(Deadline(c) \/ Allocate(c) \/ RelayProbe(c)
                                    \/ NoRelayAnswer(c) \/ GivesUp(c))
    /\ \A l \in Listener : WF_vars(GivesUp(l))
    /\ \A m \in Mesh : WF_vars(HandOver(m))
    /\ \A m \in Mesh, k \in Run : WF_vars(RunOut(m, k)) /\ WF_vars(TakeProbe(m, k))

Spec == Init /\ [][Next]_vars /\ Fairness

-----------------------------------------------------------------------------
(* Properties.                                                              *)

(* Two sessions send to each other's socket.                                *)
Facing(p, q) == p.to = q.socket /\ q.to = p.socket

(* Whoever accepted a session did so with the connector that ran the very   *)
(* same handshake to its end, between the same two addresses, and without a *)
(* relay the two sessions send to each other, although nobody looks at      *)
(* where a handshake message comes from (run_handshake), a listener may be  *)
(* called again on the same port, and several connectors and relays may     *)
(* send to it at once.  A relayed handshake agrees on keys and addresses as *)
(* well, but the session of its connector is on a socket that the listener  *)
(* has no address of (connect_via_relay).                                   *)
SessionsAgree ==
    \A x \in completed : x.role = "R" =>
        \E y \in completed :
            /\ y.role = "I" /\ y.i = x.i /\ y.r = x.r
            /\ y.with = x.at /\ x.with = y.at
            /\ x.path # None /\ y.path # None =>
                 y.path.socket = Fresh(y.i) \/ Facing(x.path, y.path)

(* A run's queue is never closed on it unless an earlier run of the node    *)
(* has ended, whose late unregister or whose undeliverable probe removed    *)
(* the entry: a full queue and a busy receive task do not close it          *)
(* (try_handle_pr_probe, PrGuard).                                          *)
ClosedByEarlier ==
    \A m \in Mesh, k \in Run :
        run[m][k].state = "closed" =>
            \E j \in 1..(k - 1) : run[m][j].state \in Ended \ {"refused"}

(* Nobody is in a call and the receive task holds nothing.                  *)
Quiet ==
    /\ \A p \in Connector \union Listener : stage[p] \in {"idle", "done", "failed"}
    /\ \A m \in Mesh : hand[m] = NoHand /\ \A k \in Run : run[m][k].state # "running"

(* Every call of connect, accept and run_rendezvous returns, whatever the   *)
(* network does to the handshake, and the mesh's receive task, which awaits *)
(* room in a run's queue, always gets on: as calls are finitely many, again *)
(* and again there is none.                                                 *)
CallsReturn == []<>Quiet
=============================================================================
