----------------------------- MODULE GroupVoice -----------------------------
(***************************************************************************)
(* Voice in the channel of a mesh without relays (crates/rift-mesh): who   *)
(* is known to take part, which node decides on the topology, which one    *)
(* forwards, and how a voice frame is sealed, forwarded, opened and        *)
(* played.                                                                 *)
(*                                                                         *)
(* Peer ids are numbers.  The frames between two nodes are a stream, as    *)
(* MeshLink promises; Routing has the relays and hole punching, which need *)
(* enable_nat and are left out; an end-to-end exchange (E2ee) is one step. *)
(***************************************************************************)
EXTENDS Integers, Sequences, FiniteSets, SequencesExt, FiniteSetsExt

CONSTANTS
    Node,         \* peer ids
    Capable,      \* nodes configured with relay_capable
    MeshMax,      \* GROUP_MESH_MAX
    GroupKey,     \* the channel has a key of its own (MeshConfig.e2ee_key)
    Groups,       \* sets of nodes that may be in the channel at the start
    Dials,        \* pairs that may connect
    Secret,       \* pairs that may exchange keys
    Leavers,      \* nodes that may disconnect from others
    Speakers,     \* nodes that may speak
    MaxEvents,    \* bound: connections, disconnects and frames spoken
    MaxHops       \* bound: a copy forwarded as often is not followed further

ASSUME GroupAssumption ==
    /\ Node \subseteq Nat /\ IsFiniteSet(Node) /\ Cardinality(Node) > 2
    /\ Capable \subseteq Node /\ Groups \subseteq SUBSET Node \ {{}}
    /\ Leavers \subseteq Node /\ Speakers \subseteq Node
    /\ Dials \subseteq SUBSET Node /\ Secret \subseteq SUBSET Node
    /\ MeshMax \in Nat /\ GroupKey \in BOOLEAN
    /\ MaxEvents \in Nat /\ MaxHops \in Nat \ {0}

(* GroupMode *)
Mesh      == [kind |-> "mesh"]
Hybrid(f) == [kind |-> "hybrid", forwarder |-> f]
Mode      == {Mesh} \union {Hybrid(f) : f \in Node}

(* How a payload is sealed: not at all, with the channel's key, or with the *)
(* key of a pair.  A key is named by the nodes that have it.                *)
Clear    == {}
Channel  == Node
SealKind == {Clear, Channel} \union {{n, m} : n, m \in Node}

VARIABLES
    conn,      \* conn[n]: the peers n has a connection to
    peers,     \* peers_by_id and, with routes that are all direct, routes
    members,   \* participants of the channel's session
    caps,      \* peer_caps (absent = FALSE)
    mode,      \* group_topology of the channel
    key,       \* e2ee_keys: key[n], the peers n shares a key with
    ready,     \* e2ee_ready, both flags set
    heard,     \* voice_seq: the last frame of m that n played, or 0
    spoken,    \* the last frame each node spoke, or 0
    link,      \* link[n][m]: the frames on their way from n to m
    events,    \* events so far
    owed,      \* history: frames spoken in settled times and not yet played
    played     \* history: played[n][m], what n played of m

tables == <<conn, peers, members, caps, mode, key, ready, heard, spoken>>
history == <<owed, played>>
vars == <<tables, link, events, history>>

-----------------------------------------------------------------------------
(* The topology.                                                            *)

(* is_topology_coordinator, for participants ms.                            *)
IsCoordinator(n, ms) == \A m \in ms : n <= m

(* select_forwarder: participants that relay, and oneself if one relays.    *)
Candidates(n, ms, cs) ==
    {m \in ms : cs[m] \/ m = n} \union (IF n \in Capable THEN {n} ELSE {})

(* Oneself first, then whichever has the best statistics.                   *)
Forwarders(n, ms, cs) ==
    IF n \in Candidates(n, ms, cs) THEN {n} ELSE Candidates(n, ms, cs)

(* update_group_topology: the modes n may come to.                          *)
Topologies(n, ms, cs) ==
    IF ~IsCoordinator(n, ms) THEN {mode[n]}
    ELSE IF Cardinality(ms) + 1 <= MeshMax \/ ~GroupKey \/ Forwarders(n, ms, cs) = {}
    THEN {Mesh}
    ELSE {Hybrid(f) : f \in Forwarders(n, ms, cs)}

Linked(n, m) == m \in conn[n] /\ n \in conn[m]

(* The frames fs[m] are handed to the connection n has to m; a peer that    *)
(* dropped its end decrypts nothing.                                        *)
Posted(links, n, fs) ==
    [links EXCEPT ![n] = [m \in Node |->
        IF Linked(n, m) THEN @[m] \o fs[m] ELSE @[m]]]

Nothing == [m \in Node |-> <<>>]

(* The participants of ms are told of a new mode x, those n has a route to. *)
Announced(n, ms, x, to) ==
    [m \in Node |-> IF x # mode[n] /\ m \in (ms \intersect to) \ {n}
                    THEN <<[type |-> "Topology", mode |-> x]>> ELSE <<>>]

(* Nobody who hears of the change owes anything for what was spoken before. *)
Settles(n, x) ==
    /\ mode' = [mode EXCEPT ![n] = x]
    /\ owed' = IF x = mode[n] THEN owed ELSE {}

-----------------------------------------------------------------------------
(* Connections.                                                             *)

Entry(m, cs) == [peer |-> m, capable |-> cs[m]]

PeerList(n) == [type |-> "PeerList", peers |-> {Entry(m, caps[n]) : m \in peers[n]}]

Greeting(n) ==
    <<[type |-> "Join"], [type |-> "PeerState", capable |-> n \in Capable], PeerList(n)>>

Event ==
    /\ events < MaxEvents
    /\ events' = events + 1

(* A handshake has ended; frames of an earlier session are not decrypted.   *)
Connect(n, m) ==
    /\ {n, m} \in Dials /\ n # m /\ ~Linked(n, m)
    /\ Event
    /\ conn' = [conn EXCEPT ![n] = @ \union {m}, ![m] = @ \union {n}]
    /\ link' = [link EXCEPT ![n][m] = Greeting(n), ![m][n] = Greeting(m)]
    /\ UNCHANGED <<peers, members, caps, mode, key, ready, heard, spoken, history>>

(* disconnect_addr: the participants of the channel, voice_seq, e2ee_ready  *)
(* and the topology stay.  The peer is not told.                            *)
Disconnect(n, m) ==
    /\ n \in Leavers /\ m \in peers[n] /\ m \in conn[n]
    /\ Event
    /\ conn' = [conn EXCEPT ![n] = @ \ {m}]
    /\ peers' = [peers EXCEPT ![n] = @ \ {m}]
    /\ key' = [key EXCEPT ![n] = @ \ {m}]
    /\ link' = [link EXCEPT ![m][n] = <<>>]
    /\ owed' = {}
    /\ UNCHANGED <<members, caps, mode, ready, heard, spoken, played>>

(* E2eeInit, E2eeResp and both EncryptedReady between two nodes without     *)
(* keys; who still has one does not start, or does not answer.              *)
Exchange(n, m) ==
    /\ {n, m} \in Secret /\ n < m /\ Linked(n, m)
    /\ m \in peers[n] /\ n \in peers[m]
    /\ m \notin key[n] /\ n \notin key[m]
    /\ key' = [key EXCEPT ![n] = @ \union {m}, ![m] = @ \union {n}]
    /\ ready' = [ready EXCEPT ![n] = @ \union {m}, ![m] = @ \union {n}]
    /\ owed' = {}
    /\ UNCHANGED <<conn, peers, members, caps, mode, heard, spoken, link, events,
                   played>>

-----------------------------------------------------------------------------
(* Speaking.                                                                *)

(* maybe_encrypt_payload for voice to m: the kinds of seal, none if the     *)
(* frame cannot be sent for want of any key.                                *)
Seals(n, m) ==
    CASE mode[n].kind = "hybrid" /\ GroupKey -> {Channel}
      [] OTHER ->
           IF m \notin key[n] /\ ~GroupKey THEN {}
           ELSE IF m \notin ready[n] THEN {Clear}
           ELSE {IF m \in key[n] THEN {n, m} ELSE Channel}

Voice(n, k, seal) ==
    [type |-> "Voice", src |-> n, seq |-> k, seal |-> seal, hops |-> 0]

(* The nodes broadcast_voice sends to.                                      *)
Audience(n) ==
    IF mode[n].kind = "hybrid" /\ mode[n].forwarder # n
    THEN peers[n] \intersect {mode[n].forwarder}
    ELSE peers[n]

(* Times in which nothing stands in the way: everybody knows everybody, is  *)
(* of one mode, and no change of it is on its way.  In the hybrid mode      *)
(* somebody who shares a key with the speaker cannot open the frame, since  *)
(* decrypt_payload tries that key alone.                                    *)
Settled ==
    /\ \A n, m \in Node : /\ n # m => m \in peers[n] /\ m \in members[n] /\ m \in conn[n]
                          /\ mode[n] = mode[m]
                          /\ Range(link[n][m]) \subseteq [type : {"Voice"}, src : Node,
                                 seq : Nat, seal : SealKind, hops : Nat]
    /\ \A n \in Node : mode[n].kind = "hybrid" => key[n] = {}
    /\ \A n, m \in Node : n # m => GroupKey \/ m \in key[n]
    /\ \A n, m \in Node : m \in key[n] <=> n \in key[m]

Speak(n) ==
    /\ n \in Speakers
    /\ Event
    /\ LET k == spoken[n] + 1
       IN  /\ spoken' = [spoken EXCEPT ![n] = k]
           /\ link' = Posted(link, n, [m \in Node |->
                         IF m \in Audience(n)
                         THEN SetToSeq({Voice(n, k, s) : s \in Seals(n, m)})
                         ELSE <<>>])
           /\ owed' = IF Settled
                      THEN owed \union {[src |-> n, seq |-> k, by |-> m] : m \in Node \ {n}}
                      ELSE owed
    /\ UNCHANGED <<conn, peers, members, caps, mode, key, ready, heard,
                   played>>

-----------------------------------------------------------------------------
(* handle_frame.                                                            *)

Taken(n, m) == [link EXCEPT ![m][n] = Tail(@)]

(* Join: known from now on; the topology is decided anew, then everybody    *)
(* gets the list of peers.                                                  *)
RecvJoin(n, m) ==
    LET ms == members[n] \union {m}
        ps == peers[n] \union {m}
    IN  /\ Head(link[m][n]).type = "Join"
        /\ peers' = [peers EXCEPT ![n] = ps]
        /\ members' = [members EXCEPT ![n] = ms]
        /\ \E x \in Topologies(n, ms, caps[n]) :
             /\ Settles(n, x)
             /\ link' = Posted(Taken(n, m), n, [k \in Node |->
                           Announced(n, ms, x, ps)[k]
                           \o IF k \in ps THEN <<[type |-> "PeerList",
                                                  peers |-> {Entry(p, caps[n]) : p \in ps}]>>
                              ELSE <<>>])
        /\ UNCHANGED <<conn, caps, key, ready, heard, spoken, played>>

RecvPeerState(n, m) ==
    /\ Head(link[m][n]).type = "PeerState"
    /\ caps' = [caps EXCEPT ![n][m] = Head(link[m][n]).capable]
    /\ link' = Taken(n, m)
    /\ UNCHANGED <<conn, peers, members, mode, key, ready, heard, spoken, history>>

Listed(n, list) == {e.peer : e \in list} \ {n}

(* handle_peer_list without enable_nat: everybody listed takes part, and    *)
(* that is all.                                                             *)
RecvPeerList(n, m) ==
    LET ms == members[n] \union Listed(n, Head(link[m][n]).peers)
    IN  /\ Head(link[m][n]).type = "PeerList"
        /\ members' = [members EXCEPT ![n] = ms]
        /\ \E x \in Topologies(n, ms, caps[n]) :
             /\ Settles(n, x)
             /\ link' = Posted(Taken(n, m), n, Announced(n, ms, x, peers[n]))
        /\ UNCHANGED <<conn, peers, caps, key, ready, heard, spoken, played>>

(* GroupControl::Topology is believed, whoever sends it.                    *)
RecvTopology(n, m) ==
    /\ Head(link[m][n]).type = "Topology"
    /\ Settles(n, Head(link[m][n]).mode)
    /\ link' = Taken(n, m)
    /\ UNCHANGED <<conn, peers, members, caps, key, ready, heard, spoken, played>>

(* Mutation: only a coordinator forwards.                                   *)
Mutant_FirstForwards(n, f) ==
    f.src # n /\ mode[n] = Hybrid(n) /\ IsCoordinator(n, members[n])

(* should_forward_voice                                                     *)
ShouldForward(n, f) == f.src # n /\ mode[n] = Hybrid(n)

(* Mutation: the speaker gets it as well.                                   *)
Mutant_Listeners(n, f) == members[n] \ {n}

Listeners(n, f) == members[n] \ {n, f.src}

(* forward_group_voice: frame f as it is to all participants but its source.*)
Forwarded(n, f) ==
    [k \in Node |-> IF ShouldForward(n, f) /\ f.hops < MaxHops
                       /\ k \in Listeners(n, f) \intersect peers[n]
                    THEN <<[f EXCEPT !.hops = @ + 1]>> ELSE <<>>]

(* decrypt_payload: with the key shared with the source if there is one,    *)
(* else with the channel's.                                                 *)
Opens(n, f) ==
    \/ f.seal = Clear
    \/ f.seal = IF f.src \in key[n] THEN {n, f.src} ELSE Channel

(* Mutation: every frame that can be read is played.                        *)
Mutant_Fresh(n, f) == Opens(n, f)

(* The frame can be read, and is later than what was last played.           *)
Fresh(n, f) == Opens(n, f) /\ f.seq > heard[n][f.src]

(* A sealed frame is forwarded as it comes, and once more after it has been *)
(* opened, if it is fresh.                                                  *)
RecvVoice(n, m) ==
    LET f == Head(link[m][n])
        sealed == IF f.seal # Clear THEN Forwarded(n, f) ELSE Nothing
        opened == IF Fresh(n, f) THEN Forwarded(n, [f EXCEPT !.seal = Clear]) ELSE Nothing
    IN  /\ f.type = "Voice"
        /\ link' = Posted(Taken(n, m), n, [k \in Node |-> sealed[k] \o opened[k]])
        /\ IF Fresh(n, f)
           THEN /\ heard' = [heard EXCEPT ![n][f.src] = f.seq]
                /\ played' = [played EXCEPT ![n][f.src] = Append(@, f.seq)]
                /\ owed' = owed \ {[src |-> f.src, seq |-> f.seq, by |-> n]}
           ELSE UNCHANGED <<heard, played, owed>>
        /\ UNCHANGED <<conn, peers, members, caps, mode, key, ready, spoken>>

Receive(n, m) ==
    /\ link[m][n] # <<>>
    /\ \/ RecvJoin(n, m)
       \/ RecvPeerState(n, m)
       \/ RecvPeerList(n, m)
       \/ RecvTopology(n, m)
       \/ RecvVoice(n, m)
    /\ UNCHANGED events

-----------------------------------------------------------------------------

(* The nodes of group g have joined each other in some order; the lowest    *)
(* has decided on the topology, and told the others when it came to it.     *)
Init ==
    \E g \in Groups :
      LET others(n) == IF n \in g THEN g \ {n} ELSE {}
          first == Min(g)
          relays == {m \in g : m \in Capable}
          modes == IF Cardinality(g) <= MeshMax \/ ~GroupKey \/ relays = {} THEN {Mesh}
                   ELSE IF first \in relays THEN {Hybrid(first)}
                   ELSE {Hybrid(f) : f \in relays}
      IN
    /\ conn = [n \in Node |-> others(n)]
    /\ peers = conn /\ members = conn
    /\ caps = [n \in Node |-> [m \in Node |-> m \in others(n) \intersect Capable]]
    /\ \E x \in modes : mode = [n \in Node |-> IF n \in g THEN x ELSE Mesh]
    /\ key = [n \in Node |-> {}]
    /\ ready = key
    /\ heard = [n \in Node |-> [m \in Node |-> 0]]
    /\ spoken = [n \in Node |-> 0]
    /\ link = [n \in Node |-> [m \in Node |-> <<>>]]
    /\ events = 0
    /\ owed = {}
    /\ played = [n \in Node |-> [m \in Node |-> <<>>]]

Next ==
    \E n \in Node :
        \/ Speak(n)
        \/ \E m \in Node : Connect(n, m) \/ Disconnect(n, m) \/ Exchange(n, m) \/ Receive(n, m)

Spec == Init /\ [][Next]_vars

-----------------------------------------------------------------------------
(* Properties.                                                              *)

Frame ==
    [type : {"Join"}] \union [type : {"PeerState"}, capable : BOOLEAN]
    \union [type : {"PeerList"}, peers : SUBSET [peer : Node, capable : BOOLEAN]]
    \union [type : {"Topology"}, mode : Mode]
    \union [type : {"Voice"}, src : Node, seq : Nat, seal : SealKind, hops : 0..MaxHops]

(* Every table and every frame is of its type, a node neither takes part in *)
(* its own list nor sends itself frames, and its peers take part.           *)
TypeOK ==
    /\ \A n \in Node : /\ conn[n] \subseteq Node \ {n}
                       /\ peers[n] \subseteq conn[n]
                       /\ members[n] \subseteq Node \ {n}
                       /\ key[n] \subseteq ready[n]
                       /\ link[n][n] = <<>>
    /\ peers \in [Node -> SUBSET Node]
    /\ caps \in [Node -> [Node -> BOOLEAN]]
    /\ mode \in [Node -> Mode]
    /\ ready \in [Node -> SUBSET Node]
    /\ heard \in [Node -> [Node -> Nat]]
    /\ spoken \in [Node -> Nat]
    /\ link \in [Node -> [Node -> Seq(Frame)]]

(* Whatever copies of a frame travel, and by whichever path, each frame is  *)
(* played at most once and never after a later one of the same speaker.     *)
PlayedInOrder ==
    \A n, m \in Node : \A i \in 1..(Len(played[n][m]) - 1) :
        played[n][m][i] < played[n][m][i + 1]

(* Nobody hears himself, even where several nodes take themselves for the   *)
(* forwarder and pass copies of copies on.                                  *)
NoEcho == \A n \in Node : played[n][n] = <<>>

Quiet == \A n, m \in Node : link[n][m] = <<>>

(* A frame spoken in settled times is played by everybody else once nothing *)
(* is on its way, unless somebody leaves or the topology or the keys change *)
(* meanwhile.                                                               *)
AllHear == Quiet => owed = {}
=============================================================================
