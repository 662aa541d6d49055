------------------------------ MODULE MeshLink ------------------------------
(***************************************************************************)
(* The packet layer of crates/rift-mesh: the Noise XX handshake over UDP,  *)
(* the `pending` and `connections` tables of MeshInner, and the strictly   *)
(* sequential transport of snow::TransportState on top of which every      *)
(* other part of the mesh runs.                                            *)
(*                                                                         *)
(* One socket per node is modelled, so an address and a node are the same  *)
(* thing and `pending` (keyed by (socket_idx, addr)) and `connections`     *)
(* (keyed by addr) are both indexed by [node][peer].                       *)
(*                                                                         *)
(* An ephemeral key pair is a number drawn from nextEph; a Noise session   *)
(* is the pair <<ei, er>> of the initiator's and the responder's           *)
(* ephemerals.  Ephemeral Junk stands for the first 32 bytes of a datagram *)
(* that was never a first handshake message: nobody holds its private key. *)
(***************************************************************************)
EXTENDS Integers, Sequences, FiniteSets, Functions

CONSTANTS
    Node,          \* the peers of the mesh
    Token,         \* Token[n]: the auth token n is configured with, or NoToken
    NoToken,
    AuthRequired,  \* AuthRequired[n]: MeshConfig.require_auth of n
    Dialers,       \* nodes whose user joins by invite, connected or not
    Discoverers,   \* nodes whose user has started LAN discovery
    Rekeyers,      \* nodes with a rekey interval
    Faults,        \* what the network and the scheduler may do, see FaultKinds
    MaxDial,       \* bound: handshakes started by Dial and Discover
    MaxEph,        \* bound: ephemeral keys generated in a behaviour
    MaxTx,         \* bound: application frames are sent below this nonce
    MaxDown        \* bound: disconnects and restarts in a behaviour

(* "dup", "reorder": UDP; with "dup" whatever was sent stays on the wire    *)
(* and may arrive any number of times or, a lost datagram, never.           *)
(* "senderr": sending the third handshake message fails.  "overtake": the   *)
(* peer's answer to a first message is handled before initiate_handshake    *)
(* has inserted its pending entry.                                          *)
FaultKinds == {"dup", "reorder", "senderr", "overtake"}

ASSUME ConfigAssumption ==
    /\ Dialers \subseteq Node
    /\ Discoverers \subseteq Node
    /\ Rekeyers \subseteq Node
    /\ Faults \subseteq FaultKinds
    /\ AuthRequired \in [Node -> BOOLEAN]
    /\ MaxDial \in Nat
    /\ MaxEph \in Nat
    /\ MaxTx \in Nat
    /\ MaxDown \in Nat

Junk == 0
Eph  == 1..MaxEph
Role == {"I", "R"}
Other(role) == IF role = "I" THEN "R" ELSE "I"

DataFrames == {"Auth", "Join", "PeerState", "PeerList", "Hello", "App"}
Frames     == {"hs1", "hs2", "hs3"} \union DataFrames

(* A message: handshake message, or transport message number n of the       *)
(* sender's direction of session <<ei, er>>.  A datagram on the wire also   *)
(* has a position; those with the same position arrive in any order.        *)
Message  == [frame : Frames, ei : Eph \union {Junk}, er : Eph \union {Junk},
             role : Role, n : Nat]
Datagram == [msg : Message, at : Nat]

None == [st |-> "none"]

(* PendingHandshake: an initiator that sent message 1, a responder that     *)
(* sent message 2.                                                          *)
Await2(ei)     == [st |-> "await2", ei |-> ei]
Await3(ei, er) == [st |-> "await3", ei |-> ei, er |-> er]
Pending == [st : {"none"}] \union [st : {"await2"}, ei : Eph]
            \union [st : {"await3"}, ei : Eph \union {Junk}, er : Eph]

(* PeerConnection: the session, its two nonce counters, `authenticated`,    *)
(* and whether `peer_id` has been learned from a Join.                      *)
Connection == [st : {"up"}, ei : Eph \union {Junk}, er : Eph \union {Junk},
               role : Role, tx : Nat, rx : Nat, auth : BOOLEAN, id : BOOLEAN]

VARIABLES
    pending,    \* pending[n][m]: MeshInner::pending of n for m's address
    starting,   \* starting[n][m]: handshakes n has begun or answered by a message,
                \* whose pending entry is not yet inserted
    conn,       \* conn[n][m]: MeshInner::connections of n for m's address
    joined,     \* joined[n][m]: m is in peers_by_id (and routes) of n
    net,        \* net[s][r]: the datagrams on the wire from s to r
    sends,      \* sends[s][r]: datagrams sent so far from s to r
    nextEph,    \* the next fresh ephemeral key
    dials,      \* dials so far
    downs,      \* disconnects and restarts so far
    installed,  \* history: every install_connection
    encrypted,  \* history: every frame encrypted under a session
    decrypted   \* history: every frame decrypted, and whether it was handled

nodeVars == <<pending, starting, conn, joined>>
histVars == <<installed, encrypted, decrypted>>
vars == <<pending, starting, conn, joined, net, sends, nextEph, dials, downs, histVars>>

-----------------------------------------------------------------------------

Init ==
    /\ pending   = [n \in Node |-> [m \in Node |-> None]]
    /\ starting  = [n \in Node |-> [m \in Node |-> {}]]
    /\ conn      = [n \in Node |-> [m \in Node |-> None]]
    /\ joined    = [n \in Node |-> [m \in Node |-> FALSE]]
    /\ net       = [n \in Node |-> [m \in Node |-> {}]]
    /\ sends     = [n \in Node |-> [m \in Node |-> 0]]
    /\ nextEph   = 1
    /\ dials     = 0
    /\ downs     = 0
    /\ installed = {}
    /\ encrypted = {}
    /\ decrypted = {}

Handshake(frame, ei, er, role) ==
    [frame |-> frame, ei |-> ei, er |-> er, role |-> role, n |-> 0]

(* The datagrams n hands to its socket for m when it sends the messages ms: *)
(* behind everything sent before, or beside it if the network reorders.     *)
Datagrams(n, m, ms) ==
    {[msg |-> ms[i], at |-> IF "reorder" \in Faults THEN 0 ELSE sends[n][m] + i] :
        i \in 1..Len(ms)}

(* n sends the messages ms to m, outside the receive loop.                  *)
Emit(n, m, ms) ==
    /\ net' = [net EXCEPT ![n][m] = @ \union Datagrams(n, m, ms)]
    /\ sends' = [sends EXCEPT ![n][m] = @ + Len(ms)]

(* The frames fs encrypted one after the other by the session of c:         *)
(* TransportState::write_message uses nonce tx, tx + 1, ...                 *)
Encrypt(c, fs) ==
    [i \in 1..Len(fs) |-> [frame |-> fs[i], ei |-> c.ei, er |-> c.er,
                           role |-> c.role, n |-> c.tx + i - 1]]

(* Mutation: a receive window instead of a counter.                         *)
Mutant_DecryptsLater(c, d) ==
    /\ d.frame \in DataFrames
    /\ d.ei = c.ei /\ d.er = c.er /\ d.role = Other(c.role)
    /\ d.n >= c.rx

(* TransportState::read_message succeeds exactly on the message the peer    *)
(* encrypted in the other direction of the same session with nonce rx.      *)
Decrypts(c, d) ==
    /\ d.frame \in DataFrames
    /\ d.ei = c.ei /\ d.er = c.er /\ d.role = Other(c.role)
    /\ d.n = c.rx

(* What install_connection sends at once over the new connection of n.      *)
Greeting(n) ==
    (IF Token[n] # NoToken THEN <<"Auth">> ELSE <<>>)
        \o <<"Join", "PeerState", "PeerList", "Hello">>

(* handle_frame rejects these from a connection that has not authenticated. *)
Gated(frame) == frame \in {"PeerList", "App"}

-----------------------------------------------------------------------------
(* initiate_handshake and start_responder send their message and only then, *)
(* without a lock held across the two, insert the pending entry, replacing  *)
(* any other.                                                               *)

Initiate(n, m) ==
    /\ n # m
    /\ nextEph \in Eph
    /\ Emit(n, m, <<Handshake("hs1", nextEph, Junk, "I")>>)
    /\ starting' = [starting EXCEPT ![n][m] = @ \union {Await2(nextEph)}]
    /\ nextEph' = nextEph + 1
    /\ UNCHANGED <<pending, conn, joined, downs, histVars>>

(* join_invite: whatever the state of the address.                          *)
Dial(n, m) ==
    /\ n \in Dialers /\ dials < MaxDial
    /\ Initiate(n, m)
    /\ dials' = dials + 1

(* start_lan_discovery: a node publishes its channel, id and port over mDNS. *)
Advertised(m) == m \in Discoverers

(* A record of the channel, which Node shares, and of somebody else.  mDNS   *)
(* keeps records, and may resolve one again and again or never.             *)
Resolved(n, m) == Advertised(m) /\ m # n

(* spawn_discovery, and its retries: unless the address is connected.       *)
Discover(n, m) ==
    /\ n \in Discoverers /\ dials < MaxDial
    /\ Resolved(n, m)
    /\ conn[n][m] = None
    /\ Initiate(n, m)
    /\ dials' = dials + 1

(* spawn_rekey: a new handshake with every directly routed peer.            *)
Rekey(n, m) ==
    /\ n \in Rekeyers
    /\ joined[n][m]
    /\ Initiate(n, m)
    /\ dials' = dials

InsertPending(n, m) ==
    \E x \in starting[n][m] :
        /\ starting' = [starting EXCEPT ![n][m] = @ \ {x}]
        /\ pending' = [pending EXCEPT ![n][m] = x]
        /\ UNCHANGED <<conn, joined, net, sends, nextEph, dials, downs, histVars>>

-----------------------------------------------------------------------------
(* The receive loop.  handle_packet tries the pending handshake of the      *)
(* source address, then its connection, then answers as a responder; each   *)
(* action below is one outcome of that cascade for a datagram g from s.     *)

(* The receive loop is in start_responder, between its message and its      *)
(* entry.                                                                   *)
Answering(r) == \E m \in Node : \E x \in starting[r][m] : x.st = "await3"

Arrives(s, r, g) ==
    /\ s # r
    /\ \A h \in net[s][r] : g.at =< h.at
    /\ ~Answering(r)
    /\ starting[r][s] = {} \/ "overtake" \in Faults

(* The datagrams from s once g has been delivered.                          *)
Rest(s, r, g) == IF "dup" \in Faults THEN net[s][r] ELSE net[s][r] \ {g}

(* r takes g off the wire and hands out[m] to its socket for every m.       *)
Wire(s, r, g, out) ==
    /\ net' = [net EXCEPT ![s][r] = Rest(s, r, g),
                          ![r] = [m \in Node |->
                              net[r][m] \union Datagrams(r, m, out[m])]]
    /\ sends' = [sends EXCEPT ![r] = [m \in Node |-> sends[r][m] + Len(out[m])]]

Only(m, ms) == [x \in Node |-> IF x = m THEN ms ELSE <<>>]
Silent      == [x \in Node |-> <<>>]

(* Mutation: the responder does not check which of its answers is answered. *)
Mutant_ReadableInPending(p, d) ==
    \/ p.st = "await2" /\ d.frame = "hs2" /\ d.ei = p.ei
    \/ p.st = "await3" /\ d.frame = "hs3" /\ d.ei = p.ei

ReadableInPending(p, d) ==
    \/ p.st = "await2" /\ d.frame = "hs2" /\ d.ei = p.ei
    \/ p.st = "await3" /\ d.frame = "hs3" /\ d.ei = p.ei /\ d.er = p.er

(* Mutation: a new connection counts as authenticated.                      *)
Mutant_NewConnection(r, ei, er, role) ==
    [st |-> "up", ei |-> ei, er |-> er, role |-> role, tx |-> 0, rx |-> 0,
     auth |-> TRUE, id |-> FALSE]

NewConnection(r, ei, er, role) ==
    [st |-> "up", ei |-> ei, er |-> er, role |-> role, tx |-> 0, rx |-> 0,
     auth |-> ~AuthRequired[r], id |-> FALSE]

Mutant_Advanced(c) == c   \* the receiving nonce stands still
Advanced(c)      == [c EXCEPT !.rx = @ + 1]
Authenticated(c) == [c EXCEPT !.auth = TRUE]
Identified(c)    == [c EXCEPT !.id = TRUE]
Mutant_Sending(c, k) == [c EXCEPT !.tx = k]   \* = for +=
Sending(c, k)    == [c EXCEPT !.tx = @ + k]

(* Mutation: the greeting overtakes the third handshake message.            *)
Mutant_InstallConnection(s, r, g, c, first) ==
    LET greeting == Encrypt(c, Greeting(r))
    IN  /\ conn' = [conn EXCEPT ![r][s] = Sending(c, Len(greeting))]
        /\ Wire(s, r, g, Only(s, greeting \o first))
        /\ installed' = installed \union
               {[by |-> r, with |-> s, ei |-> c.ei, er |-> c.er, role |-> c.role]}
        /\ encrypted' = encrypted \union Range(greeting)

(* install_connection replaces whatever connection the address had and      *)
(* sends the greeting; first holds what the caller has sent before it.      *)
InstallConnection(s, r, g, c, first) ==
    LET greeting == Encrypt(c, Greeting(r))
    IN  /\ conn' = [conn EXCEPT ![r][s] = Sending(c, Len(greeting))]
        /\ Wire(s, r, g, Only(s, first \o greeting))
        /\ installed' = installed \union
               {[by |-> r, with |-> s, ei |-> c.ei, er |-> c.er, role |-> c.role]}
        /\ encrypted' = encrypted \union Range(greeting)

(* try_handle_pending, InitiatorAwait2: message 2 is answered by message 3. *)
RecvSecond(s, r, g) ==
    /\ Arrives(s, r, g)
    /\ LET p == pending[r][s]
           d == g.msg
       IN  /\ p.st = "await2" /\ ReadableInPending(p, d)
           /\ pending' = [pending EXCEPT ![r][s] = None]
           /\ InstallConnection(s, r, g, NewConnection(r, p.ei, d.er, "I"),
                                  <<Handshake("hs3", p.ei, d.er, "I")>>)
           /\ UNCHANGED <<starting, joined, nextEph, dials, downs, decrypted>>

(* try_handle_pending, ResponderAwait3.                                     *)
RecvThird(s, r, g) ==
    /\ Arrives(s, r, g)
    /\ LET p == pending[r][s]
           d == g.msg
       IN  /\ p.st = "await3" /\ ReadableInPending(p, d)
           /\ pending' = [pending EXCEPT ![r][s] = None]
           /\ InstallConnection(s, r, g,
                                  NewConnection(r, p.ei, p.er, "R"), <<>>)
           /\ UNCHANGED <<starting, joined, nextEph, dials, downs, decrypted>>

(* The pending entry was removed before the message was read: a message it  *)
(* cannot read, or a failed send of message 3, loses the handshake and the  *)
(* datagram.                                                                *)
RecvSpoilsPending(s, r, g) ==
    /\ Arrives(s, r, g)
    /\ pending[r][s] # None
    /\ \/ ~ReadableInPending(pending[r][s], g.msg)
       \/ "senderr" \in Faults /\ pending[r][s].st = "await2"
    /\ pending' = [pending EXCEPT ![r][s] = None]
    /\ Wire(s, r, g, Silent)
    /\ UNCHANGED <<starting, conn, joined, nextEph, dials, downs, histVars>>

(* start_responder: neither pending nor connected, so the datagram is taken *)
(* for a first message.  Noise XX reads any 32 bytes as one.  (A failed     *)
(* send of message 2 leaves nothing behind: it is the loss of the datagram.)*)
(* Until the entry is inserted the loop reads nothing, but a handshake that *)
(* the node has begun itself may put its own entry in first.                *)
StartResponder(s, r, g) ==
    /\ Arrives(s, r, g)
    /\ pending[r][s] = None /\ conn[r][s] = None
    /\ nextEph \in Eph
    /\ LET d  == g.msg
           ei == IF d.frame = "hs1" THEN d.ei ELSE Junk
       IN  /\ starting' = [starting EXCEPT ![r][s] = @ \union {Await3(ei, nextEph)}]
           /\ Wire(s, r, g, Only(s, <<Handshake("hs2", ei, nextEph, "R")>>))
    /\ nextEph' = nextEph + 1
    /\ UNCHANGED <<pending, conn, joined, dials, downs, histVars>>

(* The connection's session cannot decrypt the datagram: it is dropped.     *)
RecvUndecryptable(s, r, g) ==
    /\ Arrives(s, r, g)
    /\ pending[r][s] = None /\ conn[r][s] # None
    /\ ~Decrypts(conn[r][s], g.msg)
    /\ Wire(s, r, g, Silent)
    /\ UNCHANGED <<nodeVars, nextEph, dials, downs, histVars>>

-----------------------------------------------------------------------------
(* A datagram the connection decrypts: the nonce advances, the frame is     *)
(* decoded and handed to handle_frame.                                      *)

Decrypted(s, r, g) ==
    /\ Arrives(s, r, g)
    /\ pending[r][s] = None /\ conn[r][s] # None
    /\ Decrypts(conn[r][s], g.msg)

Record(s, r, d, handled) ==
    decrypted' = decrypted \union
        {[by |-> r, from |-> s, ei |-> d.ei, er |-> d.er, role |-> d.role,
          n |-> d.n, frame |-> d.frame, handled |-> handled]}

TokenAccepted(s, r) == ~AuthRequired[r] \/ Token[s] = Token[r]

(* ControlMessage::Auth with the wrong token runs disconnect_addr.          *)
RecvAuthRejected(s, r, g) ==
    /\ Decrypted(s, r, g)
    /\ g.msg.frame = "Auth" /\ ~TokenAccepted(s, r)
    /\ conn' = [conn EXCEPT ![r][s] = None]
    /\ joined' = [joined EXCEPT ![r][s] = joined[r][s] /\ ~conn[r][s].id]
    /\ Wire(s, r, g, Silent)
    /\ Record(s, r, g.msg, TRUE)
    /\ UNCHANGED <<pending, starting, nextEph, dials, downs, installed, encrypted>>

RecvAuth(s, r, g) ==
    /\ Decrypted(s, r, g)
    /\ g.msg.frame = "Auth" /\ TokenAccepted(s, r)
    /\ conn' = [conn EXCEPT ![r][s] = Authenticated(Advanced(conn[r][s]))]
    /\ Wire(s, r, g, Silent)
    /\ Record(s, r, g.msg, TRUE)
    /\ UNCHANGED <<pending, starting, joined, nextEph, dials, downs, installed,
                   encrypted>>

(* ControlMessage::Join: the peer enters peers_by_id and routes, then the   *)
(* new peer list goes to it and to every other known peer.                  *)
RecvJoin(s, r, g) ==
    LET known == {m \in Node : conn[r][m] # None /\ (m = s \/ joined[r][m])}
        list  == [m \in Node |-> IF m \in known
                                 THEN Encrypt(conn[r][m], <<"PeerList">>)
                                 ELSE <<>>]
        told  == [m \in Node |-> IF m \in known THEN Sending(conn[r][m], 1)
                                                ELSE conn[r][m]]
    IN  /\ Decrypted(s, r, g)
        /\ g.msg.frame = "Join"
        /\ conn' = [conn EXCEPT
              ![r] = [told EXCEPT ![s] = Identified(Advanced(told[s]))]]
        /\ joined' = [joined EXCEPT ![r][s] = TRUE]
        /\ Wire(s, r, g, list)
        /\ encrypted' = encrypted \union UNION {Range(list[m]) : m \in known}
        /\ Record(s, r, g.msg, TRUE)
        /\ UNCHANGED <<pending, starting, nextEph, dials, downs, installed>>

(* Any other frame: handled, unless the authentication gate rejects it.     *)
RecvOther(s, r, g) ==
    LET frame == g.msg.frame
    IN  /\ Decrypted(s, r, g)
        /\ frame \notin {"Auth", "Join"}
        /\ conn' = [conn EXCEPT ![r][s] = Advanced(conn[r][s])]
        /\ Wire(s, r, g, Silent)
        /\ Record(s, r, g.msg,
                  AuthRequired[r] /\ Gated(frame) => conn[r][s].auth)
        /\ UNCHANGED <<pending, starting, joined, nextEph, dials, downs, installed,
                       encrypted>>

-----------------------------------------------------------------------------
(* send_payload on a direct route: a ping, chat, voice, call or key         *)
(* exchange frame of the layers above.                                      *)
AppSend(n, m) ==
    /\ n # m
    /\ joined[n][m] /\ conn[n][m] # None
    /\ conn[n][m].tx < MaxTx
    /\ LET ds == Encrypt(conn[n][m], <<"App">>)
       IN  /\ Emit(n, m, ds)
           /\ encrypted' = encrypted \union Range(ds)
    /\ conn' = [conn EXCEPT ![n][m] = Sending(conn[n][m], 1)]
    /\ UNCHANGED <<pending, starting, joined, nextEph, dials, downs, installed, decrypted>>

(* MeshHandle::disconnect_peer, disconnect_addr.                            *)
Disconnect(n, m) ==
    /\ downs < MaxDown
    /\ joined[n][m]
    /\ downs' = downs + 1
    /\ conn' = [conn EXCEPT ![n][m] = None]
    /\ joined' = [joined EXCEPT ![n][m] =
                    joined[n][m] /\ ~(conn[n][m] # None /\ conn[n][m].id)]
    /\ UNCHANGED <<pending, starting, net, sends, nextEph, dials, histVars>>

(* The process ends and starts again at the same address: Mesh::new.        *)
Restart(n) ==
    /\ downs < MaxDown
    /\ downs' = downs + 1
    /\ pending'  = [pending  EXCEPT ![n] = [m \in Node |-> None]]
    /\ starting' = [starting EXCEPT ![n] = [m \in Node |-> {}]]
    /\ conn'     = [conn     EXCEPT ![n] = [m \in Node |-> None]]
    /\ joined'   = [joined   EXCEPT ![n] = [m \in Node |-> FALSE]]
    /\ UNCHANGED <<net, sends, nextEph, dials, histVars>>

-----------------------------------------------------------------------------

Receive(s, r, g) ==
    \/ RecvSecond(s, r, g)
    \/ RecvThird(s, r, g)
    \/ RecvSpoilsPending(s, r, g)
    \/ StartResponder(s, r, g)
    \/ RecvUndecryptable(s, r, g)
    \/ RecvAuthRejected(s, r, g)
    \/ RecvAuth(s, r, g)
    \/ RecvJoin(s, r, g)
    \/ RecvOther(s, r, g)

Next ==
    \/ \E n, m \in Node :
         \/ Dial(n, m)
         \/ Discover(n, m)
         \/ Rekey(n, m)
         \/ InsertPending(n, m)
         \/ AppSend(n, m)
         \/ Disconnect(n, m)
         \/ \E g \in net[n][m] : Receive(n, m, g)
    \/ \E n \in Node : Restart(n)

Spec == Init /\ [][Next]_vars

(* The runtime keeps its tasks running: a handshake whose message is sent   *)
(* gets its pending entry, and a datagram that arrived is read by the       *)
(* receive loop.  Nothing forces a user, a network fault or a timer.        *)
Fairness ==
    \A n, m \in Node :
        /\ WF_vars(InsertPending(n, m))
        /\ WF_vars(\E g \in net[n][m] : Receive(n, m, g))

FairSpec == Spec /\ Fairness

-----------------------------------------------------------------------------
(* Properties.                                                              *)

(* Every table entry, datagram and history record is of its type.           *)
TypeOK ==
    /\ pending \in [Node -> [Node -> Pending]]
    /\ starting \in [Node -> [Node -> SUBSET (Pending \ {None})]]
    /\ conn \in [Node -> [Node -> Connection \union {None}]]
    /\ joined \in [Node -> [Node -> BOOLEAN]]
    /\ net \in [Node -> [Node -> SUBSET Datagram]]
    /\ sends \in [Node -> [Node -> Nat]]
    /\ nextEph \in 1..(MaxEph + 1)
    /\ dials \in 0..MaxDial
    /\ downs \in 0..MaxDown
    /\ installed \subseteq [by : Node, with : Node, ei : Eph \union {Junk},
                            er : Eph \union {Junk}, role : Role]
    /\ encrypted \subseteq Message
    /\ decrypted \subseteq [by : Node, from : Node, ei : Eph \union {Junk},
                            er : Eph \union {Junk}, role : Role, n : Nat,
                            frame : DataFrames, handled : BOOLEAN]

(* A responder installs a session only with the peer that installed the     *)
(* same session with it as initiator, whatever the network did to the three *)
(* messages (install_connection from ResponderAwait3).                      *)
ResponderAgreement ==
    \A x \in installed :
        x.role = "R" =>
            [by |-> x.with, with |-> x.by, ei |-> x.ei, er |-> x.er,
             role |-> "I"] \in installed

(* "Session keys are not reused across reconnects" (docs/SECURITY.md): no   *)
(* two different frames are ever encrypted under the same key and nonce,    *)
(* which a handshake installed a second time would do (pending.remove in    *)
(* try_handle_pending, install_connection).                                 *)
NonceUsedOnce ==
    \A d, e \in encrypted :
        d.ei = e.ei /\ d.er = e.er /\ d.role = e.role /\ d.n = e.n => d = e

(* Frames behind the authentication gate are handled only when they come    *)
(* from a node configured with the same token.                              *)
GateHolds ==
    \A x \in decrypted :
        x.handled /\ Gated(x.frame) => TokenAccepted(x.from, x.by)

(* The nonces of every session both ends hold are in step: what the sender  *)
(* has encrypted and the receiver has not decrypted is still in flight.     *)
(* Once this fails the session is dead, since no later datagram decrypts.   *)
InStep ==
    \A n, m \in Node :
        LET c == conn[n][m]
            d == conn[m][n]
        IN  /\ c # None /\ d # None
            /\ c.ei = d.ei /\ c.er = d.er /\ c.role = Other(d.role)
            => \A k \in d.rx..(c.tx - 1) :
                 \E g \in net[n][m] :
                    /\ g.msg.frame \in DataFrames
                    /\ g.msg.ei = c.ei /\ g.msg.er = c.er
                    /\ g.msg.role = c.role /\ g.msg.n = k

(* The streams of OrderedStream read off the histories.                     *)
Direction == (Eph \union {Junk}) \X Eph \X Role

FramesOn(k, S) ==
    LET on == {d \in S : <<d.ei, d.er, d.role>> = k}
    IN  [i \in 1..Cardinality(on) |->
            (CHOOSE d \in on :
                Cardinality({e \in on : e.n < d.n}) = i - 1).frame]

Promise == INSTANCE OrderedStream WITH
    Stream <- Direction,
    sent   <- [k \in Direction |-> FramesOn(k, encrypted)],
    got    <- [k \in Direction |-> FramesOn(k, decrypted)]

(* The packet layer implements OrderedStream over a network that loses,     *)
(* repeats and reorders datagrams.                                          *)
ImplementsStream == Promise!Spec

(* Both nodes hold the two ends of one session and know each other.         *)
Linked(n, m) ==
    /\ conn[n][m] # None /\ conn[m][n] # None
    /\ conn[n][m].ei = conn[m][n].ei /\ conn[n][m].er = conn[m][n].er
    /\ joined[n][m] /\ joined[m][n]

(* Every handshake that was started ends with the two peers linked, which   *)
(* is what join_invite is for and what the end-to-end tests wait for.       *)
DialsSucceed ==
    \A n, m \in Node : starting[n][m] # {} ~> Linked(n, m)
=============================================================================
