------------------------------ MODULE Routing ------------------------------
(***************************************************************************)
(* Routes of the mesh (crates/rift-mesh/src/lib.rs): how a node learns     *)
(* peers from Join and PeerList frames, falls back to a relay when a hole  *)
(* punch fails, moves a peer between its direct and its relayed route, and *)
(* how relayed frames are forwarded.                                       *)
(*                                                                         *)
(* A connection is what MeshLink proves of it: two ends, each a stream of  *)
(* frames that may stop.  One address per node is modelled, so an address  *)
(* and a node are the same thing, and authentication is off.  A handler is *)
(* one step; spawn_scaling, which works from copies of the tables, is two. *)
(***************************************************************************)
EXTENDS Integers, Sequences, FiniteSets, SequencesExt

CONSTANTS
    Node,
    Capable,      \* nodes configured with relay_capable
    Reachable,    \* pairs of nodes that reach each other without a hole punch
    Settlements,  \* sets of pairs that may have joined each other before the start
    MaxDirect,    \* MeshConfig.max_direct_peers
    StatsWith,    \* bound: the frames with which statistics reach consider_route
    MaxDials,     \* bound: dials, and hole punches that succeed
    MaxEvents     \* bound: pings, such statistics, disconnects and ticks of
                  \* spawn_scaling in a behaviour

Pairs == {{n, m} : n, m \in Node} \ {{n} : n \in Node}

ASSUME RoutingAssumption ==
    /\ Capable \subseteq Node
    /\ Reachable \subseteq Pairs
    /\ Settlements \subseteq SUBSET Reachable
    /\ MaxDirect \in Nat
    /\ MaxDials \in Nat /\ MaxEvents \in Nat

(* PeerRoute.  via = the peer itself stands for Direct.                     *)
NoRoute   == [kind |-> "none"]
Direct    == [kind |-> "direct"]
Relay(v)  == [kind |-> "relayed", via |-> v]
Route     == {NoRoute, Direct} \union {Relay(v) : v \in Node}
Relayed(x) == x.kind = "relayed"

Entry == [peer : Node, capable : BOOLEAN]

(* Frames that are handled, with header.source as src, and the envelope     *)
(* they may travel in.                                                      *)
Inner == [type : {"Join", "PeerState", "Ping", "Pong", "IceCheck", "IceCheckAck"}]
         \union [type : {"PeerList"}, peers : SUBSET Entry]
Frame == [src : Node, target : Node, relay : BOOLEAN, inner : Inner]

VARIABLES
    conn,       \* conn[n][m]: "none", "new", or "known" once Join named m
    peers,      \* peers_by_id
    caps,       \* peer_caps (absent = FALSE)
    route,      \* routes
    cand,       \* relay_candidates: cand[n][m] is a set of at most one relay
    link,       \* link[n][m]: the frames on their way from n to m
    dialing,    \* handshakes under way, as pairs <<initiator, responder>>
    scaling,    \* scaling[n]: what spawn_scaling copied and has left to do
    stale,      \* history: stale[n], peers whose direct route at n may lead nowhere
    punched,    \* history: whether a hole punch has succeeded
    dials,      \* dials and punches so far
    events      \* events so far

tables == <<conn, peers, caps, route, cand>>
vars == <<tables, link, dialing, scaling, stale, punched, dials, events>>

-----------------------------------------------------------------------------

NotScaling == [on |-> FALSE]

Joined(settled, n) == {m \in Node : {n, m} \in settled}

(* The relay through which n and m have heard of each other, if any.        *)
Shared(settled, n, m) ==
    IF m \in Joined(settled, n) \union {n} THEN {}
    ELSE Capable \intersect Joined(settled, n) \intersect Joined(settled, m)

(* The tables after the joins of the settled pairs: the peers of a relay    *)
(* have its list, and no hole punch between them has succeeded.             *)
Settled(settled) ==
    LET joined(n) == Joined(settled, n)
        shared(n, m) == Shared(settled, n, m)
        relay(n, m) == CHOOSE v \in shared(n, m) : TRUE
    IN  /\ conn = [n \in Node |-> [m \in Node |-> IF m \in joined(n) THEN "known" ELSE "none"]]
        /\ peers = [n \in Node |-> joined(n)]
        /\ caps = [n \in Node |-> [m \in Node |-> m \in joined(n) \intersect Capable]]
        /\ route = [n \in Node |-> [m \in Node |->
                      IF m \in joined(n) THEN Direct
                      ELSE IF shared(n, m) # {} THEN Relay(relay(n, m))
                      ELSE NoRoute]]
        /\ cand = [n \in Node |-> [m \in Node |->
                      IF shared(n, m) # {} THEN {relay(n, m)} ELSE {}]]

(* Mesh::new, or later.                                                     *)
Init ==
    /\ \E settled \in Settlements : Settled(settled)
    /\ link = [n \in Node |-> [m \in Node |-> <<>>]]
    /\ dialing = {}
    /\ scaling = [n \in Node |-> NotScaling]
    /\ stale = [n \in Node |-> {}]
    /\ punched = FALSE
    /\ dials = 0
    /\ events = 0

Dials(k) ==
    /\ dials + k <= MaxDials
    /\ dials' = dials + k

Events(k) ==
    /\ events + k <= MaxEvents
    /\ events' = events + k

Say(n, m, inner) ==
    [src |-> n, target |-> m, relay |-> FALSE, inner |-> inner]

(* send_peer_list, for the peers of ms.                                     *)
PeerList(n, ms) ==
    [type |-> "PeerList",
     peers |-> {[peer |-> m, capable |-> caps[n][m]] : m \in ms}]

(* Frames fs[m] handed to the connection n has to m: send_payload fails     *)
(* where there is none, and a peer that dropped its end decrypts nothing.   *)
Posted(n, fs) ==
    [link EXCEPT ![n] = [m \in Node |->
        IF "none" \in {conn[n][m], conn[m][n]} THEN @[m] ELSE @[m] \o fs[m]]]

Nothing == [m \in Node |-> <<>>]

(* send_control_to_peer, over the route in routes: straight to the peer, or *)
(* in an envelope to a relay that is still in peers_by_id.                  *)
Control(routes, n, m, inner) ==
    LET r == routes[n][m]
        f == Say(n, m, inner)
    IN  CASE r.kind = "direct" -> [Nothing EXCEPT ![m] = <<f>>]
          [] Relayed(r) /\ r.via \in peers[n] ->
                [Nothing EXCEPT ![r.via] = <<[f EXCEPT !.relay = TRUE]>>]
          [] OTHER -> Nothing

-----------------------------------------------------------------------------
(* Connections.                                                             *)

(* What install_connection sends: Join, PeerState and the peer list.        *)
Greeting(n, m) ==
    <<Say(n, m, [type |-> "Join"]), Say(n, m, [type |-> "PeerState"]),
      Say(n, m, PeerList(n, peers[n]))>>

(* A handshake (MeshLink) has ended: both ends install a new session over   *)
(* an old one, whose frames no longer decrypt, and greet each other.        *)
Install(n, m) ==
    /\ conn' = [conn EXCEPT ![n][m] = "new", ![m][n] = "new"]
    /\ link' = [link EXCEPT ![n][m] = Greeting(n, m), ![m][n] = Greeting(m, n)]
    /\ UNCHANGED <<peers, caps, route, cand, scaling, stale>>

(* join_invite, connect_addr, discovery: the peer is reached directly.      *)
Dial(n, m) ==
    /\ {n, m} \in Reachable
    /\ Dials(1)
    /\ Install(n, m)
    /\ UNCHANGED <<dialing, punched, events>>

(* The handshake that follows a hole punch.                                 *)
Finish(n, m) ==
    /\ <<n, m>> \in dialing
    /\ dialing' = dialing \ {<<n, m>>}
    /\ Install(n, m)
    /\ UNCHANGED <<punched, dials, events>>

(* Mutation: the route stays.                                               *)
Mutant_Disconnect(n, m) ==
    /\ m \in peers[n]
    /\ Events(1)
    /\ conn' = [conn EXCEPT ![n][m] = "none"]
    /\ link' = [link EXCEPT ![m][n] = <<>>]
    /\ IF conn[n][m] = "known"
       THEN peers' = [peers EXCEPT ![n] = @ \ {m}] /\ UNCHANGED stale
       ELSE UNCHANGED peers /\ stale' = [stale EXCEPT ![n] = @ \union {m}]
    /\ UNCHANGED <<caps, route, cand, dialing, scaling, punched, dials>>

(* disconnect_peer, disconnect_addr: the peer is not told, and what it      *)
(* sends from now on is not decrypted.  A session that has replaced another *)
(* and not seen its Join yet has no peer_id: disconnect_addr returns early  *)
(* and everything else about the peer stays.  Routes through the peer, its  *)
(* relay candidates and its capability stay in any case.                    *)
Disconnect(n, m) ==
    /\ m \in peers[n]
    /\ Events(1)
    /\ conn' = [conn EXCEPT ![n][m] = "none"]
    /\ link' = [link EXCEPT ![m][n] = <<>>]
    /\ IF conn[n][m] = "known"
       THEN /\ peers' = [peers EXCEPT ![n] = @ \ {m}]
            /\ route' = [route EXCEPT ![n][m] = NoRoute]
            /\ UNCHANGED stale
       ELSE /\ stale' = [stale EXCEPT ![n] = @ \union {m}]
            /\ UNCHANGED <<peers, route>>
    /\ UNCHANGED <<caps, cand, dialing, scaling, punched, dials>>

-----------------------------------------------------------------------------
(* handle_packet: the statistics of header.source first, then the frame.    *)

(* consider_route for peer m on good or bad statistics: bad ones move it to *)
(* its relay candidate if that is in peers_by_id, good ones to its address. *)
Considered(n, m, quality) ==
    CASE quality = "bad" /\ cand[n][m] \intersect peers[n] # {} /\ ~Relayed(route[n][m]) ->
            [route EXCEPT ![n][m] = Relay(CHOOSE v \in cand[n][m] : TRUE)]
      [] quality = "good" /\ m \in peers[n] ->
            [route EXCEPT ![n][m] = Direct]
      [] OTHER -> route

(* What update_link_stats and update_rtt may find with frame f: unchanged   *)
(* stands for statistics that move nothing, or none so soon after the last. *)
Qualities(n, f) ==
    {q \in {"good", "bad"} :
        /\ n # f.src /\ f.inner.type \in StatsWith /\ events < MaxEvents
        /\ Considered(n, f.src, q) # route}
    \union {"unchanged"}

Taken(n, m) == [link EXCEPT ![m][n] = Tail(@)]

(* n takes the head of m's stream and sends fs.                             *)
Answer(n, m, fs) ==
    link' = [Taken(n, m) EXCEPT ![n] = [k \in Node |->
                IF "none" \in {conn[n][k], conn[k][n]} THEN @[k] ELSE @[k] \o fs[k]]]

(* Mutation: only the new peer is sent the list.                            *)
Mutant_Lists(n, m, k) ==
    IF k = m
    THEN <<Say(n, k, PeerList(n, peers[n] \union {m}))>>
    ELSE <<>>

(* The list of peers, m among them now, goes to m and to every other peer.  *)
Lists(n, m, k) ==
    IF k \in peers[n] \union {m}
    THEN <<Say(n, k, PeerList(n, peers[n] \union {m}))>>
    ELSE <<>>

(* Join: the sender is a peer with a direct route from now on.              *)
RecvJoin(n, m, f, base) ==
    /\ f.inner.type = "Join"
    /\ conn' = [conn EXCEPT ![n][m] = "known"]
    /\ peers' = [peers EXCEPT ![n] = @ \union {m}]
    /\ route' = [base EXCEPT ![n][m] = Direct]
    /\ Answer(n, m, [k \in Node |-> Lists(n, m, k)])
    /\ UNCHANGED <<caps, cand, dialing, stale>>

RecvPeerState(n, m, f, base) ==
    /\ f.inner.type = "PeerState"
    /\ caps' = [caps EXCEPT ![n][f.src] = f.src \in Capable]
    /\ route' = base
    /\ link' = Taken(n, m)
    /\ UNCHANGED <<conn, peers, cand, dialing, stale>>

(* The entries of a list that are about other nodes than n.                 *)
Listed(n, f) == {e \in f.inner.peers : e.peer # n}

(* The sender of the list is known by name and has said that it relays.     *)
CanRelay(n, m) == conn[n][m] = "known" /\ caps[n][m]

(* handle_peer_list: a hole punch towards every listed peer we neither know *)
(* nor hold a connection to; where it fails, a route through the sender.    *)
RecvPeerList(n, m, f, base) ==
    /\ f.inner.type = "PeerList"
    /\ LET listed == Listed(n, f)
           fresh  == {e.peer : e \in listed} \ (peers[n] \union
                                                 {k \in Node : conn[n][k] # "none"})
       IN
        /\ caps' = [caps EXCEPT ![n] = [k \in Node |->
                       IF \E e \in listed : e.peer = k
                       THEN [peer |-> k, capable |-> TRUE] \in listed
                       ELSE @[k]]]
        /\ \E ok \in SUBSET fresh :
             LET failed == IF CanRelay(n, m) THEN fresh \ ok ELSE {}
             IN  /\ dialing' = dialing \union ({n} \X ok)
                 /\ cand' = [cand EXCEPT ![n] = [k \in Node |->
                                IF k \in failed THEN {m} ELSE @[k]]]
                 /\ route' = [base EXCEPT ![n] = [k \in Node |->
                                IF k \in failed /\ @[k].kind # "direct"
                                THEN Relay(m) ELSE @[k]]]
        /\ link' = Taken(n, m)
        /\ UNCHANGED <<conn, peers, stale>>

(* Ping is answered with Pong and IceCheck with IceCheckAck, over whatever  *)
(* route leads to header.source.                                            *)
RecvRequest(n, m, f, base) ==
    /\ f.inner.type \in {"Ping", "IceCheck"}
    /\ route' = base
    /\ Answer(n, m, Control(base, n, f.src,
                 [type |-> IF f.inner.type = "Ping" THEN "Pong" ELSE "IceCheckAck"]))
    /\ UNCHANGED <<conn, peers, caps, cand, dialing, stale>>

(* Pong gives a round trip time, which the statistics have already had.     *)
RecvPong(n, m, f, base) ==
    /\ f.inner.type = "Pong"
    /\ route' = base
    /\ link' = Taken(n, m)
    /\ UNCHANGED <<conn, peers, caps, cand, dialing, stale>>

(* IceCheckAck makes the route direct, whether or not there is a connection *)
(* to the candidate's address.                                              *)
RecvIceCheckAck(n, m, f, base) ==
    /\ f.inner.type = "IceCheckAck"
    /\ route' = [base EXCEPT ![n][f.src] = Direct]
    /\ stale' = IF conn[n][f.src] = "none"
                THEN [stale EXCEPT ![n] = @ \union {f.src}] ELSE stale
    /\ link' = Taken(n, m)
    /\ UNCHANGED <<conn, peers, caps, cand, dialing>>

(* Relay for another node: forward_relay passes the envelope on over its    *)
(* own route to the target, or drops it.                                    *)
Forward(n, m, f, base) ==
    LET r == base[n][f.target]
    IN  /\ f.target # n
        /\ route' = base
        /\ Answer(n, m,
              CASE r.kind = "direct" -> [Nothing EXCEPT ![f.target] = <<f>>]
                [] Relayed(r) /\ r.via \in peers[n] -> [Nothing EXCEPT ![r.via] = <<f>>]
                [] OTHER -> Nothing)
        /\ UNCHANGED <<conn, peers, caps, cand, dialing, stale>>

Receive(n, m) ==
    /\ link[m][n] # <<>>
    /\ \E f \in {Head(link[m][n])} : \E q \in Qualities(n, f) :
         LET base == Considered(n, f.src, q)
         IN  /\ \/ Forward(n, m, f, base)
                \/ /\ f.target = n
                   /\ \/ RecvJoin(n, m, f, base)
                      \/ RecvPeerState(n, m, f, base)
                      \/ RecvPeerList(n, m, f, base)
                      \/ RecvRequest(n, m, f, base)
                      \/ RecvPong(n, m, f, base)
                      \/ RecvIceCheckAck(n, m, f, base)
             /\ Dials(Cardinality(dialing' \ dialing))
             /\ Events(IF q = "unchanged" THEN 0 ELSE 1)
             /\ punched' = (punched \/ dialing' # dialing)
    /\ UNCHANGED scaling

-----------------------------------------------------------------------------
(* Background tasks.                                                        *)

(* One ping of spawn_pinger, every two seconds to every peer with a route.  *)
Ping(n, m) ==
    /\ Events(1)
    /\ route[n][m] # NoRoute
    /\ link' = Posted(n, Control(route, n, m, [type |-> "Ping"]))
    /\ UNCHANGED <<tables, dialing, scaling, stale, punched, dials>>

(* spawn_auto_upgrade: a hole punch to a relayed peer succeeds.             *)
AutoUpgrade(n, m) ==
    /\ Relayed(route[n][m])
    /\ Dials(1)
    /\ dialing' = dialing \union {<<n, m>>}
    /\ punched' = TRUE
    /\ UNCHANGED <<tables, link, scaling, stale, events>>

(* spawn_candidate_checks: a hole punch to a peer without a direct route    *)
(* succeeds; as soon as the first handshake message is out the peer is sent *)
(* an IceCheck over the route it has.                                       *)
CandidateCheck(n, m) ==
    /\ Relayed(route[n][m])
    /\ Dials(1)
    /\ dialing' = dialing \union {<<n, m>>}
    /\ link' = Posted(n, Control(route, n, m, [type |-> "IceCheck"]))
    /\ punched' = TRUE
    /\ UNCHANGED <<tables, scaling, stale, events>>

DirectPeers(n) == {m \in Node : route[n][m].kind = "direct"}

(* spawn_scaling, each 10 s: copies of routes and relay_candidates.         *)
ScaleBegin(n) ==
    /\ ~scaling[n].on
    /\ Events(1)
    /\ Cardinality(DirectPeers(n)) > MaxDirect
    /\ scaling' = [scaling EXCEPT ![n] =
          [on |-> TRUE, cand |-> cand[n], todo |-> DirectPeers(n),
           count |-> Cardinality(DirectPeers(n))]]
    /\ UNCHANGED <<tables, link, dialing, stale, punched, dials>>

(* One peer of the copy: it goes to the relay it was a candidate for then.  *)
(* The routes are unlocked between two peers.  (The code takes the peers in *)
(* the order of their ids, which is any order; its way back to direct       *)
(* routes after the loop is never reached.)                                 *)
ScaleStep(n, m) ==
    LET s == scaling[n]
    IN  /\ s.on /\ m \in s.todo /\ s.count > MaxDirect
        /\ IF s.cand[m] = {} \/ Relayed(route[n][m])
           THEN /\ scaling' = [scaling EXCEPT ![n].todo = @ \ {m}]
                /\ UNCHANGED route
           ELSE /\ scaling' = [scaling EXCEPT ![n].todo = s.todo \ {m},
                                              ![n].count = s.count - 1]
                /\ route' = [route EXCEPT ![n][m] = Relay(CHOOSE v \in s.cand[m] : TRUE)]
        /\ UNCHANGED <<conn, peers, caps, cand, link, dialing, stale, punched, dials, events>>

ScaleEnd(n) ==
    /\ scaling[n].on
    /\ scaling[n].todo = {} \/ scaling[n].count <= MaxDirect
    /\ scaling' = [scaling EXCEPT ![n] = NotScaling]
    /\ UNCHANGED <<tables, link, dialing, stale, punched, dials, events>>

Next ==
    \E n \in Node :
        \/ \E m \in Node :
             \/ Dial(n, m)
             \/ Finish(n, m)
             \/ Disconnect(n, m)
             \/ Receive(n, m)
             \/ Ping(n, m)
             \/ AutoUpgrade(n, m)
             \/ CandidateCheck(n, m)
             \/ ScaleStep(n, m)
        \/ ScaleBegin(n)
        \/ ScaleEnd(n)

Spec == Init /\ [][Next]_vars

-----------------------------------------------------------------------------
(* Properties.                                                              *)

(* Every table entry and every frame on its way is of its type, and a node  *)
(* has no connection, route or relay candidate to itself.                   *)
TypeOK ==
    /\ conn \in [Node -> [Node -> {"none", "new", "known"}]]
    /\ peers \in [Node -> SUBSET Node]
    /\ caps \in [Node -> [Node -> BOOLEAN]]
    /\ route \in [Node -> [Node -> Route]]
    /\ cand \in [Node -> [Node -> SUBSET Node]]
    /\ \A n \in Node : /\ n \notin peers[n]
                       /\ conn[n][n] = "none" /\ route[n][n] = NoRoute
                       /\ cand[n][n] = {}
    /\ link \in [Node -> [Node -> Seq(Frame)]]
    /\ dialing \subseteq Node \X Node
    /\ stale \in [Node -> SUBSET Node]

(* A direct route leads to a connection, unless an IceCheckAck made it      *)
(* direct or a disconnect came between a new session and its Join.          *)
DirectIsConnected ==
    \A n, m \in Node :
        route[n][m].kind = "direct" => conn[n][m] # "none" \/ m \in stale[n]

Linked(n, m) ==
    /\ conn[n][m] = "known" /\ conn[m][n] = "known"
    /\ m \in peers[n] /\ n \in peers[m]

Quiet == dialing = {} /\ \A n, m \in Node : link[n][m] = <<>>

(* Once nothing is on its way, two peers of one relay that cannot reach     *)
(* each other have routes to each other (Join and handle_peer_list); a      *)
(* punch that succeeds excuses it, since nothing then falls back to the     *)
(* relay.                                                                   *)
RelayIsFound ==
    Quiet /\ ~punched =>
        \A r \in Capable : \A n, m \in Node \ {r} :
            n # m /\ Linked(n, r) /\ Linked(m, r) => route[n][m] # NoRoute
=============================================================================
