---------------------------- MODULE PeersProofs ----------------------------
(***************************************************************************)
(* What a device makes of the others, for all sets of nodes, listeners and *)
(* devices and all bounds: its direct routes lead somewhere, it finds the  *)
(* peers of its relay, its voice is understood, and no lookup in the DHT   *)
(* waits for ever.                                                         *)
(***************************************************************************)
EXTENDS Peers, FiniteSetTheorems, TLAPS

-----------------------------------------------------------------------------
(* DirectIsConnected.  A peer that is listed, or routed to directly, has a  *)
(* connection or has left one behind.                                       *)

Met(n, m) == conn[n][m] # "none" \/ m \in stale[n]

RouteTables ==
    /\ conn \in [Node -> [Node -> {"none", "new", "known"}]]
    /\ peers \in [Node -> SUBSET Node]
    /\ DOMAIN stale = Node
    /\ DOMAIN route = Node /\ \A n \in Node : DOMAIN route[n] = Node

RouteInv ==
    /\ RouteTables
    /\ \A n, m \in Node : route[n][m].kind = "direct" \/ m \in peers[n] => Met(n, m)

LEMMA RouteKinds ==
    /\ Direct.kind = "direct" /\ NoRoute.kind # "direct"
    /\ \A v : Relay(v).kind # "direct"
BY DEF Direct, NoRoute, Relay

(* The routes of other peers stay, and those of m are rt.                   *)
Reroutes(f, g, n, m, rt) ==
    /\ DOMAIN g = Node /\ \A x \in Node : DOMAIN g[x] = Node
    /\ \A x, y \in Node : g[x][y] = IF x = n /\ y = m THEN rt ELSE f[x][y]

LEMMA OneRoute ==
    ASSUME NEW f, DOMAIN f = Node, \A x \in Node : DOMAIN f[x] = Node,
           NEW n \in Node, NEW m, NEW rt
    PROVE  Reroutes(f, [f EXCEPT ![n][m] = rt], n, m, rt)
BY DEF Reroutes

(* consider_route makes no route direct but that of a listed peer.          *)
LEMMA ConsideredRoutes ==
    ASSUME RouteInv, NEW n \in Node, NEW k, NEW q
    PROVE  /\ DOMAIN Considered(n, k, q) = Node
           /\ \A x \in Node : DOMAIN Considered(n, k, q)[x] = Node
           /\ \A x, y \in Node : Considered(n, k, q)[x][y].kind = "direct" => Met(x, y)
<1> DEFINE v == CHOOSE v \in cand[n][k] : TRUE
<1>0. RouteTables
  BY DEF RouteInv
<1>1. \/ Considered(n, k, q) = route
      \/ Considered(n, k, q) = [route EXCEPT ![n][k] = Relay(v)]
      \/ k \in peers[n] /\ Considered(n, k, q) = [route EXCEPT ![n][k] = Direct]
  BY DEF Considered
<1> HIDE DEF v
<1>2. CASE Considered(n, k, q) = route
  BY <1>0, <1>2 DEF RouteInv, RouteTables
<1>3. ASSUME NEW rt, Considered(n, k, q) = [route EXCEPT ![n][k] = rt],
             rt.kind # "direct" \/ k \in peers[n]
      PROVE  /\ DOMAIN Considered(n, k, q) = Node
             /\ \A x \in Node : DOMAIN Considered(n, k, q)[x] = Node
             /\ \A x, y \in Node : Considered(n, k, q)[x][y].kind = "direct" => Met(x, y)
  <2>1. PICK g : g = Considered(n, k, q)
    OBVIOUS
  <2>0. DOMAIN route = Node /\ \A x \in Node : DOMAIN route[x] = Node
    BY <1>0 DEF RouteTables
  <2>5. Reroutes(route, [route EXCEPT ![n][k] = rt], n, k, rt)
    BY <2>0, OneRoute
  <2>2. Reroutes(route, g, n, k, rt)
    BY <1>3, <2>1, <2>5
  <2>3. \A x, y \in Node : g[x][y].kind = "direct" => Met(x, y)
    <3> SUFFICES ASSUME NEW x \in Node, NEW y \in Node, g[x][y].kind = "direct"
                 PROVE  Met(x, y)
      OBVIOUS
    <3>1. CASE x = n /\ y = k
      BY <1>3, <2>2, <3>1 DEF Reroutes, RouteInv
    <3>2. CASE ~(x = n /\ y = k)
      BY <2>2, <3>2 DEF Reroutes, RouteInv
    <3>3. QED
      BY <3>1, <3>2
  <2>4. QED
    BY <2>1, <2>2, <2>3 DEF Reroutes
<1>4. CASE Considered(n, k, q) = [route EXCEPT ![n][k] = Relay(v)]
  BY <1>3, <1>4, RouteKinds
<1>5. QED
  BY <1>1, <1>2, <1>3, <1>4

(* Nobody is met less, and what is listed or routed to directly is met.     *)
LEMMA RoutesKept ==
    ASSUME RouteInv,
           DOMAIN route' = Node, \A n \in Node : DOMAIN route'[n] = Node,
           UNCHANGED <<peers, conn, stale>>,
           \A n, m \in Node : route'[n][m].kind = "direct" => Met(n, m)
    PROVE  RouteInv'
<1>1. \A n, m \in Node : Met(n, m)' <=> Met(n, m)
  BY DEF Met
<1>2. RouteTables'
  BY DEF RouteInv, RouteTables
<1>3. \A n, m \in Node : m \in peers'[n] => Met(n, m)
  BY DEF RouteInv
<1>4. QED
  BY <1>1, <1>2, <1>3 DEF RouteInv

LEMMA DirectInit == PeersInit => RouteInv
<1> SUFFICES ASSUME PeersInit PROVE RouteInv
  OBVIOUS
<1>1. PICK pairs \in Settlements : Settled(pairs)
  BY DEF PeersInit, Init
<1>2. stale = [n \in Node |-> {}]
  BY DEF PeersInit, Init
<1> DEFINE joined(n) == Joined(pairs, n)
           relay(n, m) == CHOOSE v \in Shared(pairs, n, m) : TRUE
<1>3. /\ conn = [n \in Node |-> [m \in Node |-> IF m \in joined(n) THEN "known" ELSE "none"]]
      /\ peers = [n \in Node |-> joined(n)]
      /\ route = [n \in Node |-> [m \in Node |->
                    IF m \in joined(n) THEN Direct
                    ELSE IF Shared(pairs, n, m) # {} THEN Relay(relay(n, m))
                    ELSE NoRoute]]
  BY <1>1 DEF Settled
<1>4. \A n \in Node : joined(n) \subseteq Node
  BY DEF Joined
<1> HIDE DEF joined, relay
<1>5. RouteTables
  BY <1>2, <1>3, <1>4 DEF RouteTables
<1>6. \A n, m \in Node : route[n][m].kind = "direct" => m \in joined(n)
  <2> SUFFICES ASSUME NEW n \in Node, NEW m \in Node, m \notin joined(n)
               PROVE  route[n][m].kind # "direct"
    OBVIOUS
  <2>1. route[n][m] = Relay(relay(n, m)) \/ route[n][m] = NoRoute
    BY <1>3
  <2>2. QED
    BY <2>1, RouteKinds
<1>7. \A n, m \in Node : m \in joined(n) => Met(n, m)
  BY <1>3 DEF Met
<1>8. QED
  BY <1>3, <1>5, <1>6, <1>7 DEF RouteInv

LEMMA InstallRoutes ==
    ASSUME RouteInv, NEW n \in Node, NEW m \in Node, Install(n, m)
    PROVE  RouteInv'
<1>0. RouteTables
  BY DEF RouteInv
<1>1. /\ conn' = [conn EXCEPT ![n][m] = "new", ![m][n] = "new"]
      /\ UNCHANGED <<peers, route, stale>>
  BY DEF Install
<1>2. RouteTables'
  BY <1>0, <1>1 DEF RouteTables
<1>3. \A x, y \in Node : conn'[x][y] = conn[x][y] \/ conn'[x][y] = "new"
  BY <1>0, <1>1 DEF RouteTables
<1>4. \A x, y \in Node : Met(x, y) => Met(x, y)'
  BY <1>1, <1>3 DEF Met
<1>5. QED
  BY <1>1, <1>2, <1>4 DEF RouteInv

LEMMA DisconnectRoutes ==
    ASSUME RouteInv, NEW n \in Node, NEW m \in Node, Disconnect(n, m)
    PROVE  RouteInv'
<1>0. RouteTables
  BY DEF RouteInv
<1>1. conn' = [conn EXCEPT ![n][m] = "none"]
  BY DEF Disconnect
<1>2. \A x, y \in Node : ~(x = n /\ y = m) => conn'[x][y] = conn[x][y]
  BY <1>0, <1>1 DEF RouteTables
<1>3. CASE conn[n][m] = "known"
  <2>1. /\ peers' = [peers EXCEPT ![n] = peers[n] \ {m}]
        /\ route' = [route EXCEPT ![n][m] = NoRoute]
        /\ UNCHANGED stale
    BY <1>3 DEF Disconnect
  <2>2. Reroutes(route, route', n, m, NoRoute)
    BY <1>0, <2>1, OneRoute DEF RouteTables
  <2>3. RouteTables'
    BY <1>0, <1>1, <2>1, <2>2 DEF RouteTables, Reroutes
  <2>4. m \notin peers'[n]
    BY <1>0, <2>1 DEF RouteTables
  <2>5. route'[n][m].kind # "direct"
    BY <2>2, RouteKinds DEF Reroutes
  <2>6. ASSUME NEW x \in Node, NEW y \in Node, ~(x = n /\ y = m),
               route'[x][y].kind = "direct" \/ y \in peers'[x]
        PROVE  Met(x, y)'
    <3>1. route'[x][y] = route[x][y]
      BY <2>2, <2>6 DEF Reroutes
    <3>2. y \in peers'[x] => y \in peers[x]
      BY <1>0, <2>1 DEF RouteTables
    <3>3. Met(x, y)
      BY <2>6, <3>1, <3>2 DEF RouteInv
    <3>4. QED
      BY <1>2, <2>1, <2>6, <3>3 DEF Met
  <2>7. QED
    BY <2>3, <2>4, <2>5, <2>6 DEF RouteInv
<1>4. CASE conn[n][m] # "known"
  <2>1. /\ stale' = [stale EXCEPT ![n] = stale[n] \union {m}]
        /\ UNCHANGED <<peers, route>>
    BY <1>4 DEF Disconnect
  <2>2. RouteTables'
    BY <1>0, <1>1, <2>1 DEF RouteTables
  <2>3. m \in stale'[n] /\ \A x \in Node : stale[x] \subseteq stale'[x]
    BY <1>0, <2>1 DEF RouteTables
  <2>4. \A x, y \in Node : Met(x, y) => Met(x, y)'
    BY <1>2, <2>3 DEF Met
  <2>5. QED
    BY <2>1, <2>2, <2>4 DEF RouteInv
<1>5. QED
  BY <1>3, <1>4

LEMMA ReceiveRoutes ==
    ASSUME RouteInv, NEW n \in Node, NEW m \in Node, Receive(n, m)
    PROVE  RouteInv'
<1>0. RouteTables
  BY DEF RouteInv
<1>1. PICK f, q, base :
        /\ base = Considered(n, f.src, q)
        /\ \/ Forward(n, m, f, base)
           \/ RecvJoin(n, m, f, base)
           \/ RecvPeerState(n, m, f, base)
           \/ RecvPeerList(n, m, f, base)
           \/ RecvRequest(n, m, f, base)
           \/ RecvPong(n, m, f, base)
           \/ RecvIceCheckAck(n, m, f, base)
  BY DEF Receive
<1>2. /\ DOMAIN base = Node /\ \A x \in Node : DOMAIN base[x] = Node
      /\ \A x, y \in Node : base[x][y].kind = "direct" => Met(x, y)
  BY <1>1, ConsideredRoutes
<1>3. CASE RecvJoin(n, m, f, base)
  <2>1. /\ conn' = [conn EXCEPT ![n][m] = "known"]
        /\ peers' = [peers EXCEPT ![n] = peers[n] \union {m}]
        /\ route' = [base EXCEPT ![n][m] = Direct]
        /\ UNCHANGED stale
    BY <1>3 DEF RecvJoin
  <2>2. Reroutes(base, route', n, m, Direct)
    BY <1>2, <2>1, OneRoute
  <2>3. RouteTables'
    BY <1>0, <2>1, <2>2 DEF RouteTables, Reroutes
  <2>4. \A x, y \in Node : conn'[x][y] = IF x = n /\ y = m THEN "known" ELSE conn[x][y]
    BY <1>0, <2>1 DEF RouteTables
  <2>5. Met(n, m)' /\ \A x, y \in Node : Met(x, y) => Met(x, y)'
    BY <2>1, <2>4 DEF Met
  <2>6. ASSUME NEW x \in Node, NEW y \in Node, ~(x = n /\ y = m),
               route'[x][y].kind = "direct" \/ y \in peers'[x]
        PROVE  Met(x, y)
    <3>1. route'[x][y] = base[x][y]
      BY <2>2, <2>6 DEF Reroutes
    <3>2. y \in peers'[x] => y \in peers[x]
      BY <1>0, <2>1, <2>6 DEF RouteTables
    <3>3. QED
      BY <1>2, <2>6, <3>1, <3>2 DEF RouteInv
  <2>7. QED
    BY <2>3, <2>5, <2>6 DEF RouteInv
<1>4. CASE RecvIceCheckAck(n, m, f, base)
  <2>1. /\ route' = [base EXCEPT ![n][f.src] = Direct]
        /\ stale' = IF conn[n][f.src] = "none"
                    THEN [stale EXCEPT ![n] = stale[n] \union {f.src}] ELSE stale
        /\ UNCHANGED <<conn, peers>>
    BY <1>4 DEF RecvIceCheckAck
  <2>2. Reroutes(base, route', n, f.src, Direct)
    BY <1>2, <2>1, OneRoute
  <2>3. RouteTables'
    BY <1>0, <2>1, <2>2 DEF RouteTables, Reroutes
  <2>4. \A x \in Node : stale[x] \subseteq stale'[x]
    BY <1>0, <2>1 DEF RouteTables
  <2>5. \A x, y \in Node : Met(x, y) => Met(x, y)'
    BY <2>1, <2>4 DEF Met
  <2>6. Met(n, f.src)'
    BY <1>0, <2>1 DEF RouteTables, Met
  <2>7. ASSUME NEW x \in Node, NEW y \in Node, ~(x = n /\ y = f.src),
               route'[x][y].kind = "direct" \/ y \in peers'[x]
        PROVE  Met(x, y)
    BY <1>2, <2>1, <2>2, <2>7 DEF Reroutes, RouteInv
  <2>8. QED
    BY <2>3, <2>5, <2>6, <2>7 DEF RouteInv
<1>5. CASE RecvPeerList(n, m, f, base)
  <2>1. UNCHANGED <<conn, peers, stale>>
    BY <1>5 DEF RecvPeerList
  <2>2. PICK failed : route' = [base EXCEPT ![n] = [k \in Node |->
                          IF k \in failed /\ base[n][k].kind # "direct"
                          THEN Relay(m) ELSE base[n][k]]]
    <3> DEFINE listed == Listed(n, f)
               fresh  == {e.peer : e \in listed} \ (peers[n] \union
                                                  {k \in Node : conn[n][k] # "none"})
               failed(ok) == IF CanRelay(n, m) THEN fresh \ ok ELSE {}
    <3>1. PICK ok \in SUBSET fresh :
            route' = [base EXCEPT ![n] = [k \in Node |->
                        IF k \in failed(ok) /\ base[n][k].kind # "direct"
                        THEN Relay(m) ELSE base[n][k]]]
      BY <1>5, Zenon DEF RecvPeerList
    <3> HIDE DEF failed
    <3>2. QED
      BY <3>1
  <2>3. DOMAIN route' = Node /\ \A x \in Node : DOMAIN route'[x] = Node
    BY <1>2, <2>2
  <2>4. \A x, y \in Node : route'[x][y] = base[x][y] \/ route'[x][y] = Relay(m)
    BY <1>2, <2>2
  <2>5. \A x, y \in Node : route'[x][y].kind = "direct" => Met(x, y)
    BY <1>2, <2>4, RouteKinds
  <2>6. QED
    BY <2>1, <2>3, <2>5, RoutesKept
<1>6. CASE \/ Forward(n, m, f, base) \/ RecvPeerState(n, m, f, base)
           \/ RecvRequest(n, m, f, base) \/ RecvPong(n, m, f, base)
  <2>1. route' = base /\ UNCHANGED <<conn, peers, stale>>
    BY <1>6 DEF Forward, RecvPeerState, RecvRequest, RecvPong
  <2>2. QED
    BY <1>2, <2>1, RoutesKept
<1>7. QED
  BY <1>1, <1>3, <1>4, <1>5, <1>6

LEMMA ScaleRoutes ==
    ASSUME RouteInv, NEW n \in Node, NEW m \in Node, ScaleStep(n, m)
    PROVE  RouteInv'
<1>0. RouteTables
  BY DEF RouteInv
<1>1. UNCHANGED <<conn, peers, stale>>
  BY DEF ScaleStep
<1>2. CASE UNCHANGED route
  BY <1>0, <1>1, <1>2, RoutesKept DEF RouteInv, RouteTables
<1>3. ASSUME NEW v, route' = [route EXCEPT ![n][m] = Relay(v)] PROVE RouteInv'
  <2>1. Reroutes(route, route', n, m, Relay(v))
    BY <1>0, <1>3, OneRoute DEF RouteTables
  <2>2. \A x, y \in Node : route'[x][y].kind = "direct" => Met(x, y)
    BY <2>1, RouteKinds DEF Reroutes, RouteInv
  <2>3. QED
    BY <1>1, <2>1, <2>2, RoutesKept DEF Reroutes
<1>4. QED
  BY <1>2, <1>3 DEF ScaleStep

LEMMA DirectStep ==
    ASSUME RouteInv, [PeersNext]_peersVars PROVE RouteInv'
<1>1. CASE UNCHANGED <<conn, peers, stale, route>>
  BY <1>1, RoutesKept DEF RouteInv, RouteTables
<1>2. CASE Next
  <2>1. ASSUME NEW n \in Node, NEW m \in Node,
               \/ Ping(n, m) \/ AutoUpgrade(n, m) \/ CandidateCheck(n, m)
               \/ ScaleBegin(n) \/ ScaleEnd(n)
        PROVE  RouteInv'
    BY <1>1, <2>1 DEF Ping, AutoUpgrade, CandidateCheck, ScaleBegin, ScaleEnd, tables
  <2>2. ASSUME NEW n \in Node, NEW m \in Node, Dial(n, m) \/ Finish(n, m)
        PROVE  RouteInv'
    BY <2>2, InstallRoutes DEF Dial, Finish
  <2>3. QED
    BY <1>2, <2>1, <2>2, DisconnectRoutes, ReceiveRoutes, ScaleRoutes DEF Next
<1>3. QED
  BY <1>1, <1>2 DEF PeersNext, peersVars, vars, tables

(* A direct route leads to a connection, unless an IceCheckAck made it      *)
(* direct or a disconnect came between a new session and its Join: nobody   *)
(* else writes Direct (consider_route, handle_frame for Join, disconnect).  *)
THEOREM RoutesLead == PeersSpec => []DirectIsConnected
<1>1. RouteInv => DirectIsConnected
  BY DEF RouteInv, DirectIsConnected, Met
<1>2. QED
  BY <1>1, DirectInit, DirectStep, PTL DEF PeersSpec

-----------------------------------------------------------------------------
(* RelayIsFound.  A frame names two nodes; what a node writes is appended   *)
(* to its links, and what it reads is taken from their head.                *)

Letter == {f \in Frame : f.src # f.target}

Links == [Node -> [Node -> Seq(Letter)]]

Open(n, m) == conn[n][m] # "none" /\ conn[m][n] # "none"

(* n takes the next frame from the nodes T and sends fs.                    *)
Carries(n, T, fs) ==
    /\ link' \in Links
    /\ \A x, y \in Node :
         link'[x][y] = IF x = n /\ Open(n, y) THEN link[x][y] \o fs[y]
                       ELSE IF x \in T /\ y = n THEN Tail(link[x][y])
                       ELSE link[x][y]

LEMMA TailOfSeq ==
    ASSUME NEW S, NEW s \in Seq(S), s # <<>>
    PROVE  /\ Head(s) \in S /\ Tail(s) \in Seq(S)
           /\ Head(s) = s[1] /\ 1 \in DOMAIN s
           /\ Len(Tail(s)) = Len(s) - 1
           /\ \A i \in 1..Len(Tail(s)) : Tail(s)[i] = s[i + 1]
OBVIOUS

LEMMA TakenCarries ==
    ASSUME link \in Links, NEW n \in Node, NEW m \in Node, n # m, link[m][n] # <<>>,
           link' = Taken(n, m)
    PROVE  Carries(n, {m}, Nothing)
<1>1. link' = [link EXCEPT ![m] = [link[m] EXCEPT ![n] = Tail(link[m][n])]]
  BY DEF Taken
<1>2. Tail(link[m][n]) \in Seq(Letter)
  BY TailOfSeq DEF Links
<1>3. link' \in Links
  BY <1>1, <1>2 DEF Links
<1>4. \A x, y \in Node :
        link'[x][y] = IF x = m /\ y = n THEN Tail(link[x][y]) ELSE link[x][y]
  BY <1>1 DEF Links
<1>5. \A x, y \in Node : link[x][y] \o Nothing[y] = link[x][y]
  BY DEF Links, Nothing
<1>6. ASSUME NEW x \in Node, NEW y \in Node
      PROVE  link'[x][y] = IF x = n /\ Open(n, y) THEN link[x][y] \o Nothing[y]
                           ELSE IF x \in {m} /\ y = n THEN Tail(link[x][y])
                           ELSE link[x][y]
  <2>1. CASE x = n
    BY <1>4, <1>5, <2>1
  <2>2. CASE x # n
    BY <1>4, <2>2
  <2>3. QED
    BY <2>1, <2>2
<1>7. QED
  BY <1>3, <1>6 DEF Carries

LEMMA AnswerCarries ==
    ASSUME link \in Links, NEW n \in Node, NEW m \in Node, n # m, link[m][n] # <<>>,
           NEW fs \in [Node -> Seq(Letter)], Answer(n, m, fs)
    PROVE  Carries(n, {m}, fs)
<1> DEFINE t == Taken(n, m)
           row == [k \in Node |-> IF "none" \in {conn[n][k], conn[k][n]}
                                  THEN t[n][k] ELSE t[n][k] \o fs[k]]
<1>1. t = [link EXCEPT ![m] = [link[m] EXCEPT ![n] = Tail(link[m][n])]]
  BY DEF Taken
<1>2. Tail(link[m][n]) \in Seq(Letter)
  BY TailOfSeq DEF Links
<1>3. t \in Links
  BY <1>1, <1>2 DEF Links
<1>4. \A x, y \in Node :
        t[x][y] = IF x = m /\ y = n THEN Tail(link[x][y]) ELSE link[x][y]
  BY <1>1 DEF Links
<1>5. link' = [t EXCEPT ![n] = row]
  BY DEF Answer
<1> HIDE DEF t
<1>6. row \in [Node -> Seq(Letter)]
  <2> SUFFICES ASSUME NEW k \in Node PROVE row[k] \in Seq(Letter)
    OBVIOUS
  <2>1. t[n][k] \in Seq(Letter) /\ fs[k] \in Seq(Letter)
    BY <1>3 DEF Links
  <2>2. QED
    BY <2>1
<1>7. \A y \in Node : row[y] = IF Open(n, y) THEN t[n][y] \o fs[y] ELSE t[n][y]
  BY DEF Open
<1> HIDE DEF row
<1>8. link' \in Links
  BY <1>3, <1>5, <1>6 DEF Links
<1>9. \A x, y \in Node : link'[x][y] = IF x = n THEN row[y] ELSE t[x][y]
  BY <1>3, <1>5 DEF Links
<1>10. QED
  BY <1>4, <1>7, <1>8, <1>9 DEF Carries

LEMMA PostedCarries ==
    ASSUME link \in Links, NEW n \in Node, NEW fs \in [Node -> Seq(Letter)],
           link' = Posted(n, fs)
    PROVE  Carries(n, {}, fs)
<1> DEFINE row == [k \in Node |-> IF "none" \in {conn[n][k], conn[k][n]}
                                  THEN link[n][k] ELSE link[n][k] \o fs[k]]
<1>1. link' = [link EXCEPT ![n] = row]
  BY DEF Posted
<1>2. row \in [Node -> Seq(Letter)]
  <2> SUFFICES ASSUME NEW k \in Node PROVE row[k] \in Seq(Letter)
    OBVIOUS
  <2>1. link[n][k] \in Seq(Letter) /\ fs[k] \in Seq(Letter)
    BY DEF Links
  <2>2. QED
    BY <2>1
<1>3. \A y \in Node : row[y] = IF Open(n, y) THEN link[n][y] \o fs[y] ELSE link[n][y]
  BY DEF Open
<1> HIDE DEF row
<1>4. link' \in Links
  BY <1>1, <1>2 DEF Links
<1>5. \A x, y \in Node : link'[x][y] = IF x = n THEN row[y] ELSE link[x][y]
  BY <1>1 DEF Links
<1>6. QED
  BY <1>3, <1>4, <1>5 DEF Carries

-----------------------------------------------------------------------------
(* Types.                                                                   *)

(* What spawn_scaling has copied.                                           *)
Copied(n) ==
    /\ DOMAIN scaling[n] \in {{"on"}, {"on", "cand", "todo", "count"}}
    /\ scaling[n].on => /\ DOMAIN scaling[n] = {"on", "cand", "todo", "count"}
                        /\ scaling[n].cand \in [Node -> SUBSET Node]
                        /\ scaling[n].cand[n] = {}

RouteTypes ==
    /\ conn \in [Node -> [Node -> {"none", "new", "known"}]]
    /\ peers \in [Node -> SUBSET Node]
    /\ caps \in [Node -> [Node -> BOOLEAN]]
    /\ route \in [Node -> [Node -> Route]]
    /\ cand \in [Node -> [Node -> SUBSET Node]]
    /\ \A n \in Node : /\ n \notin peers[n]
                       /\ conn[n][n] = "none" /\ route[n][n] = NoRoute
                       /\ cand[n][n] = {}
                       /\ link[n][n] = <<>>
    /\ link \in Links
    /\ dialing \subseteq Node \X Node
    /\ \A n, m \in Node : <<n, m>> \in dialing => n # m
    /\ stale \in [Node -> SUBSET Node]
    /\ DOMAIN scaling = Node
    /\ \A n \in Node : Copied(n)

LEMMA TypesAre == RouteTypes => TypeOK
<1> SUFFICES ASSUME RouteTypes PROVE TypeOK
  OBVIOUS
<1>1. \A s \in Seq(Letter) : s \in Seq(Frame)
  BY DEF Letter
<1>2. link \in [Node -> [Node -> Seq(Frame)]]
  BY <1>1 DEF RouteTypes, Links
<1>3. QED
  BY <1>2 DEF RouteTypes, TypeOK

LEMMA Kinds ==
    /\ NoRoute \in Route /\ Direct \in Route /\ \A v \in Node : Relay(v) \in Route
    /\ NoRoute.kind = "none" /\ Direct.kind = "direct"
    /\ \A v : Relay(v).kind = "relayed" /\ Relay(v).via = v
    /\ \A v : Relay(v) # NoRoute
    /\ Direct # NoRoute
    /\ \A x \in Route : Relayed(x) => x.via \in Node
<1>1. /\ NoRoute \in Route /\ Direct \in Route /\ \A v \in Node : Relay(v) \in Route
  BY DEF Route
<1>2. /\ NoRoute.kind = "none" /\ Direct.kind = "direct"
      /\ \A v : Relay(v).kind = "relayed" /\ Relay(v).via = v
  BY DEF NoRoute, Direct, Relay
<1>3. \A x \in Route : x = NoRoute \/ x = Direct \/ \E v \in Node : x = Relay(v)
  BY DEF Route
<1>4. (\A v : Relay(v) # NoRoute) /\ Direct # NoRoute
  BY <1>2
<1>5. \A x \in Route : Relayed(x) => x.via \in Node
  BY <1>2, <1>3 DEF Relayed
<1>6. QED
  BY <1>1, <1>2, <1>4, <1>5

LEMMA SaidIs ==
    ASSUME NEW n \in Node, NEW m \in Node, n # m, NEW inner \in Inner
    PROVE  /\ Say(n, m, inner) \in Letter
           /\ [Say(n, m, inner) EXCEPT !.relay = TRUE] \in Letter
           /\ Say(n, m, inner).inner = inner
           /\ Say(n, m, inner).src = n /\ Say(n, m, inner).target = m
           /\ [Say(n, m, inner) EXCEPT !.relay = TRUE].inner = inner
BY DEF Say, Letter, Frame

LEMMA ListIs ==
    ASSUME RouteTypes, NEW n \in Node, NEW ms \in SUBSET Node
    PROVE  /\ PeerList(n, ms) \in Inner /\ PeerList(n, ms).type = "PeerList"
           /\ \A m : m \in ms <=> \E e \in PeerList(n, ms).peers : e.peer = m
<1> DEFINE es == {[peer |-> m, capable |-> caps[n][m]] : m \in ms}
<1>1. PeerList(n, ms) = [type |-> "PeerList", peers |-> es]
  BY DEF PeerList
<1>2. es \in SUBSET Entry
  BY DEF Entry, RouteTypes
<1>3. \A m : m \in ms <=> \E e \in es : e.peer = m
  <2>1. ASSUME NEW m \in ms PROVE \E e \in es : e.peer = m
    <3>1. [peer |-> m, capable |-> caps[n][m]] \in es
      OBVIOUS
    <3>2. QED
      BY <3>1
  <2>2. ASSUME NEW e \in es PROVE e.peer \in ms
    OBVIOUS
  <2> HIDE DEF es
  <2>3. QED
    BY <2>1, <2>2
<1> HIDE DEF es
<1>4. PeerList(n, ms) \in [type : {"PeerList"}, peers : SUBSET Entry]
  BY <1>1, <1>2
<1>5. PeerList(n, ms).type = "PeerList" /\ PeerList(n, ms).peers = es
  BY <1>1
<1>6. QED
  BY <1>3, <1>4, <1>5 DEF Inner

LEMMA BareIs ==
    ASSUME NEW t \in {"Join", "PeerState", "Ping", "Pong", "IceCheck", "IceCheckAck"}
    PROVE  [type |-> t] \in Inner /\ [type |-> t].type = t
BY DEF Inner

(* Letters of a kind, at most one for each node.                            *)
Single(P) == [Node -> {<<>>} \union {<<f>> : f \in P}]

LEMMA NothingIs == \A P : Nothing \in Single(P)
BY DEF Nothing, Single

LEMMA SingleIs ==
    ASSUME NEW P \in SUBSET Letter, NEW fs \in Single(P)
    PROVE  /\ fs \in [Node -> Seq(Letter)]
           /\ \A y \in Node : fs[y] = <<>> \/ \E f \in P : fs[y] = <<f>>
<1>1. \A y \in Node : fs[y] = <<>> \/ \E f \in P : fs[y] = <<f>>
  BY DEF Single
<1>2. ASSUME NEW y \in Node PROVE fs[y] \in Seq(Letter)
  <2>1. <<>> \in Seq(Letter) /\ \A f \in Letter : <<f>> \in Seq(Letter)
    OBVIOUS
  <2>2. QED
    BY <1>1, <2>1
<1>3. fs = [y \in Node |-> fs[y]]
  BY DEF Single
<1>4. QED
  BY <1>1, <1>2, <1>3

LEMMA OneLetter ==
    ASSUME NEW P, NEW m \in Node, NEW f \in P
    PROVE  [Nothing EXCEPT ![m] = <<f>>] \in Single(P)
BY DEF Nothing, Single

(* Letters that are no greeting.                                            *)
Greetings == {"Join", "PeerState", "PeerList"}
Plain == {f \in Letter : f.inner.type \notin Greetings}

LEMMA ControlPlain ==
    ASSUME RouteTypes, NEW routes \in [Node -> [Node -> Route]], NEW n \in Node, NEW m \in Node,
           routes[n][n] = NoRoute,
           NEW t \in {"Ping", "Pong", "IceCheck", "IceCheckAck"}
    PROVE  Control(routes, n, m, [type |-> t]) \in Single(Plain)
<1> DEFINE f == Say(n, m, [type |-> t])
           g == [f EXCEPT !.relay = TRUE]
           r == routes[n][m]
<1>1. CASE n = m
  <2>1. Control(routes, n, m, [type |-> t]) = Nothing
    BY <1>1, Kinds DEF Control, Relayed
  <2>2. QED
    BY <2>1, NothingIs
<1>2. CASE n # m
  <2>1. f \in Plain /\ g \in Plain
    <3>1. [type |-> t] \in Inner /\ [type |-> t].type = t
      BY BareIs
    <3>2. f \in Letter /\ g \in Letter /\ f.inner.type = t /\ g.inner.type = t
      BY <1>2, <3>1, SaidIs
    <3>3. QED
      BY <3>2 DEF Plain, Greetings
  <2>2. r \in Route
    OBVIOUS
  <2>3. Control(routes, n, m, [type |-> t]) \in
          {Nothing, [Nothing EXCEPT ![m] = <<f>>]} \union
          (IF Relayed(r) THEN {[Nothing EXCEPT ![r.via] = <<g>>]} ELSE {})
    BY DEF Control
  <2> HIDE DEF f, g, r
  <2>4. Relayed(r) => r.via \in Node
    BY <2>2, Kinds
  <2>5. QED
    <3>1. CASE Control(routes, n, m, [type |-> t]) = Nothing
      BY <3>1, NothingIs
    <3>2. CASE Control(routes, n, m, [type |-> t]) = [Nothing EXCEPT ![m] = <<f>>]
      <4>1. [Nothing EXCEPT ![m] = <<f>>] \in Single(Plain)
        BY <2>1, OneLetter
      <4>2. QED
        BY <3>2, <4>1
    <3>3. CASE /\ Relayed(r)
               /\ Control(routes, n, m, [type |-> t]) = [Nothing EXCEPT ![r.via] = <<g>>]
      <4>1. [Nothing EXCEPT ![r.via] = <<g>>] \in Single(Plain)
        BY <2>1, <2>4, <3>3, OneLetter
      <4>2. QED
        BY <3>3, <4>1
    <3>4. QED
      BY <2>3, <3>1, <3>2, <3>3
<1>3. QED
  BY <1>1, <1>2

(* The routes rs are no fewer than those there are.                         *)
NoFewer(rs) ==
    /\ rs \in [Node -> [Node -> Route]]
    /\ \A x \in Node : rs[x][x] = NoRoute
    /\ \A x, y \in Node : route[x][y] # NoRoute => rs[x][y] # NoRoute

LEMMA RerouteNoFewer ==
    ASSUME NEW f, NoFewer(f), NEW n \in Node, NEW m \in Node, n # m,
           NEW r \in Route, r # NoRoute
    PROVE  NoFewer([f EXCEPT ![n][m] = r])
BY DEF NoFewer

LEMMA ConsideredNoFewer ==
    ASSUME RouteTypes, NEW n \in Node, NEW k \in Node, NEW q, n # k \/ q = "unchanged"
    PROVE  NoFewer(Considered(n, k, q))
<1> DEFINE v == CHOOSE v \in cand[n][k] : TRUE
<1>0. NoFewer(route)
  BY DEF RouteTypes, NoFewer
<1>1. CASE q = "bad" /\ cand[n][k] \intersect peers[n] # {} /\ ~Relayed(route[n][k])
  <2>1. Considered(n, k, q) = [route EXCEPT ![n][k] = Relay(v)]
    BY <1>1 DEF Considered
  <2>2. v \in cand[n][k]
    BY <1>1
  <2>3. v \in Node
    BY <2>2 DEF RouteTypes
  <2> HIDE DEF v
  <2>4. Relay(v) \in Route /\ Relay(v) # NoRoute
    BY <2>3, Kinds
  <2>5. n # k
    BY <1>1
  <2>6. NoFewer([route EXCEPT ![n][k] = Relay(v)])
    BY <1>0, <2>4, <2>5, RerouteNoFewer
  <2>7. QED
    BY <2>1, <2>6
<1>2. CASE Considered(n, k, q) = [route EXCEPT ![n][k] = Direct] /\ q = "good"
  <2>1. Direct \in Route /\ Direct # NoRoute
    BY Kinds
  <2>2. n # k
    BY <1>2
  <2>3. NoFewer([route EXCEPT ![n][k] = Direct])
    BY <1>0, <2>1, <2>2, RerouteNoFewer
  <2>4. QED
    BY <1>2, <2>3
<1>3. CASE Considered(n, k, q) = route
  BY <1>0, <1>3
<1>4. QED
  BY <1>1, <1>2, <1>3 DEF Considered

(* The handlers of a frame.                                                 *)
Handles(n, m, f, base) ==
    \/ Forward(n, m, f, base)
    \/ /\ f.target = n
       /\ \/ RecvJoin(n, m, f, base)
          \/ RecvPeerState(n, m, f, base)
          \/ RecvPeerList(n, m, f, base)
          \/ RecvRequest(n, m, f, base)
          \/ RecvPong(n, m, f, base)
          \/ RecvIceCheckAck(n, m, f, base)

LEMMA ReceiveIs ==
    ASSUME RouteTypes, NEW n \in Node, NEW m \in Node, Receive(n, m)
    PROVE  /\ n # m /\ link[m][n] # <<>>
           /\ punched' = (punched \/ dialing' # dialing) /\ UNCHANGED scaling
           /\ \E f, base : /\ f = Head(link[m][n]) /\ f \in Letter
                           /\ NoFewer(base) /\ Handles(n, m, f, base)
<1>1. link[m][n] # <<>>
  BY DEF Receive
<1>2. n # m
  BY <1>1 DEF RouteTypes
<1>3. PICK f \in {Head(link[m][n])}, q \in Qualities(n, Head(link[m][n])) :
        /\ Handles(n, m, f, Considered(n, f.src, q))
        /\ punched' = (punched \/ dialing' # dialing)
  BY DEF Receive, Handles
<1>4. f \in Letter
  BY <1>1, TailOfSeq DEF RouteTypes, Links
<1>5. f.src \in Node
  BY <1>4 DEF Letter, Frame
<1>6. n # f.src \/ q = "unchanged"
  BY <1>3 DEF Qualities
<1>7. NoFewer(Considered(n, f.src, q))
  BY <1>5, <1>6, ConsideredNoFewer
<1>8. QED
  BY <1>1, <1>2, <1>3, <1>4, <1>7 DEF Receive

LEMMA JoinCarries ==
    ASSUME RouteTypes, NEW n \in Node, NEW m \in Node, n # m, link[m][n] # <<>>,
           NEW f, NEW base, RecvJoin(n, m, f, base)
    PROVE  Carries(n, {m}, [k \in Node |-> Lists(n, m, k)])
<1> DEFINE fs == [k \in Node |-> Lists(n, m, k)]
<1>1. PeerList(n, peers[n] \union {m}) \in Inner
  BY ListIs DEF RouteTypes
<1>2. n \notin peers[n]
  BY DEF RouteTypes
<1>3. ASSUME NEW k \in Node PROVE Lists(n, m, k) \in Seq(Letter)
  <2>1. CASE k = n
    BY <1>2, <2>1 DEF Lists
  <2>2. CASE k # n
    <3>1. Say(n, k, PeerList(n, peers[n] \union {m})) \in Letter
      BY <1>1, <2>2, SaidIs
    <3>2. QED
      BY <3>1 DEF Lists
  <2>3. QED
    BY <2>1, <2>2
<1>4. fs \in [Node -> Seq(Letter)]
  BY <1>3
<1>5. Answer(n, m, fs)
  BY DEF RecvJoin
<1>6. QED
  BY <1>4, <1>5, AnswerCarries DEF RouteTypes

LEMMA HandleCarries ==
    ASSUME RouteTypes, NEW n \in Node, NEW m \in Node, n # m, link[m][n] # <<>>,
           NEW f \in Letter, NEW base, NoFewer(base), Handles(n, m, f, base),
           ~RecvJoin(n, m, f, base)
    PROVE  \E fs : /\ Carries(n, {m}, fs)
                   /\ fs \in Single(Plain) \/ (f.target # n /\ fs \in Single({f}))
<1>0. link \in Links /\ f.src \in Node /\ f.target \in Node
  BY DEF RouteTypes, Letter, Frame
<1>1. CASE RecvPeerState(n, m, f, base) \/ RecvPeerList(n, m, f, base)
           \/ RecvPong(n, m, f, base) \/ RecvIceCheckAck(n, m, f, base)
  <2>1. link' = Taken(n, m)
    BY <1>1 DEF RecvPeerState, RecvPeerList, RecvPong, RecvIceCheckAck
  <2>2. QED
    BY <1>0, <2>1, TakenCarries, NothingIs
<1>2. CASE RecvRequest(n, m, f, base)
  <2> DEFINE t == IF f.inner.type = "Ping" THEN "Pong" ELSE "IceCheckAck"
             fs == Control(base, n, f.src, [type |-> t])
  <2>1. Answer(n, m, fs)
    BY <1>2 DEF RecvRequest
  <2>2. t \in {"Ping", "Pong", "IceCheck", "IceCheckAck"}
    OBVIOUS
  <2> HIDE DEF t
  <2>3. fs \in Single(Plain)
    BY <1>0, <2>2, ControlPlain DEF NoFewer
  <2> HIDE DEF fs
  <2>4. Plain \in SUBSET Letter
    BY DEF Plain
  <2>5. fs \in [Node -> Seq(Letter)]
    BY <2>3, <2>4, SingleIs
  <2>6. Carries(n, {m}, fs)
    BY <1>0, <2>1, <2>5, AnswerCarries
  <2>7. QED
    BY <2>3, <2>6
<1>3. CASE Forward(n, m, f, base)
  <2> DEFINE r == base[n][f.target]
             fs == CASE r.kind = "direct" -> [Nothing EXCEPT ![f.target] = <<f>>]
                     [] Relayed(r) /\ r.via \in peers[n] -> [Nothing EXCEPT ![r.via] = <<f>>]
                     [] OTHER -> Nothing
  <2>1. Answer(n, m, fs) /\ f.target # n
    BY <1>3 DEF Forward
  <2>2. r \in Route
    BY <1>0 DEF NoFewer
  <2>3. fs = Nothing \/ fs = [Nothing EXCEPT ![f.target] = <<f>>]
        \/ (Relayed(r) /\ fs = [Nothing EXCEPT ![r.via] = <<f>>])
    <3>1. CASE r.kind = "direct"
      BY <3>1
    <3>2. CASE r.kind # "direct" /\ Relayed(r) /\ r.via \in peers[n]
      BY <3>2
    <3>3. CASE r.kind # "direct" /\ ~(Relayed(r) /\ r.via \in peers[n])
      BY <3>3
    <3>4. QED
      BY <3>1, <3>2, <3>3
  <2> HIDE DEF fs, r
  <2>4. Relayed(r) => r.via \in Node
    BY <2>2, Kinds
  <2>5. fs \in Single({f})
    <3>1. \A k \in Node : [Nothing EXCEPT ![k] = <<f>>] \in Single({f})
      BY OneLetter
    <3>2. QED
      BY <1>0, <2>3, <2>4, <3>1, NothingIs
  <2>6. fs \in [Node -> Seq(Letter)]
    BY <2>5, SingleIs
  <2>7. Carries(n, {m}, fs)
    BY <1>0, <2>1, <2>6, AnswerCarries
  <2>8. QED
    BY <2>1, <2>5, <2>7
<1>4. QED
  BY <1>1, <1>2, <1>3 DEF Handles

LEMMA CarriesSelf ==
    ASSUME RouteTypes, NEW n \in Node, NEW T, n \notin T, NEW fs, Carries(n, T, fs)
    PROVE  link' \in Links /\ \A x \in Node : link'[x][x] = <<>>
<1>1. ASSUME NEW x \in Node PROVE link'[x][x] = <<>>
  <2>1. link[x][x] = <<>> /\ ~Open(x, x)
    BY DEF RouteTypes, Open
  <2>2. QED
    BY <2>1 DEF Carries
<1>2. QED
  BY <1>1 DEF Carries

LEMMA InitTypes == PeersInit => RouteTypes
<1> SUFFICES ASSUME PeersInit PROVE RouteTypes
  OBVIOUS
<1>1. PICK pairs \in Settlements : Settled(pairs)
  BY DEF PeersInit, Init
<1>2. /\ link = [n \in Node |-> [m \in Node |-> <<>>]]
      /\ dialing = {}
      /\ scaling = [n \in Node |-> NotScaling]
      /\ stale = [n \in Node |-> {}]
  BY DEF PeersInit, Init
<1> DEFINE joined(n) == Joined(pairs, n)
           shared(n, m) == Shared(pairs, n, m)
           relay(n, m) == CHOOSE v \in shared(n, m) : TRUE
<1>3. /\ conn = [n \in Node |-> [m \in Node |-> IF m \in joined(n) THEN "known" ELSE "none"]]
      /\ peers = [n \in Node |-> joined(n)]
      /\ caps = [n \in Node |-> [m \in Node |-> m \in joined(n) \intersect Capable]]
      /\ route = [n \in Node |-> [m \in Node |->
                    IF m \in joined(n) THEN Direct
                    ELSE IF shared(n, m) # {} THEN Relay(relay(n, m)) ELSE NoRoute]]
      /\ cand = [n \in Node |-> [m \in Node |->
                    IF shared(n, m) # {} THEN {relay(n, m)} ELSE {}]]
  BY <1>1 DEF Settled
<1>4. \A n \in Node : joined(n) \subseteq Node /\ n \notin joined(n) /\ shared(n, n) = {}
  <2> SUFFICES ASSUME NEW n \in Node, n \in joined(n) PROVE FALSE
    BY DEF Joined, Shared
  <2>1. {n, n} \in Pairs /\ {n, n} = {n}
    BY RoutingAssumption DEF Joined
  <2>2. QED
    BY <2>1 DEF Pairs
<1>5. \A n, m \in Node : shared(n, m) # {} => relay(n, m) \in Node
  <2> SUFFICES ASSUME NEW n \in Node, NEW m \in Node, shared(n, m) # {}
               PROVE  relay(n, m) \in Node
    OBVIOUS
  <2>1. relay(n, m) \in shared(n, m)
    OBVIOUS
  <2>2. QED
    BY <2>1, RoutingAssumption DEF Shared
<1> HIDE DEF joined, shared, relay
<1>6. route \in [Node -> [Node -> Route]]
  <2>1. ASSUME NEW n \in Node, NEW m \in Node
        PROVE  (IF m \in joined(n) THEN Direct
                ELSE IF shared(n, m) # {} THEN Relay(relay(n, m)) ELSE NoRoute) \in Route
    BY <1>5, Kinds
  <2>2. QED
    BY <1>3, <2>1
<1>7. cand \in [Node -> [Node -> SUBSET Node]]
  BY <1>3, <1>5
<1>8. link \in Links
  <2>1. <<>> \in Seq(Letter)
    OBVIOUS
  <2>2. QED
    BY <1>2, <2>1 DEF Links
<1>9. \A n \in Node : Copied(n)
  BY <1>2 DEF Copied, NotScaling
<1>10. \A n \in Node : /\ n \notin peers[n]
                       /\ conn[n][n] = "none" /\ route[n][n] = NoRoute
                       /\ cand[n][n] = {}
                       /\ link[n][n] = <<>>
  BY <1>2, <1>3, <1>4
<1>11. /\ conn \in [Node -> [Node -> {"none", "new", "known"}]]
       /\ peers \in [Node -> SUBSET Node]
       /\ caps \in [Node -> [Node -> BOOLEAN]]
  BY <1>3, <1>4
<1>12. QED
  BY <1>2, <1>6, <1>7, <1>8, <1>9, <1>10, <1>11 DEF RouteTypes

LEMMA GreetingIs ==
    ASSUME RouteTypes, NEW n \in Node, NEW m \in Node, n # m
    PROVE  /\ Greeting(n, m) \in Seq(Letter) /\ Len(Greeting(n, m)) = 3
           /\ Greeting(n, m)[1] = Say(n, m, [type |-> "Join"])
           /\ Greeting(n, m)[2] = Say(n, m, [type |-> "PeerState"])
           /\ Greeting(n, m)[3] = Say(n, m, PeerList(n, peers[n]))
           /\ \A i \in 1..3 : Greeting(n, m)[i] \in Letter
<1> DEFINE a == Say(n, m, [type |-> "Join"])
           b == Say(n, m, [type |-> "PeerState"])
           c == Say(n, m, PeerList(n, peers[n]))
<1>1. [type |-> "Join"] \in Inner /\ [type |-> "PeerState"] \in Inner
  BY BareIs
<1>2. PeerList(n, peers[n]) \in Inner
  BY ListIs DEF RouteTypes
<1>3. a \in Letter /\ b \in Letter /\ c \in Letter
  BY <1>1, <1>2, SaidIs
<1>4. Greeting(n, m) = <<a, b, c>>
  BY DEF Greeting
<1> HIDE DEF a, b, c
<1>5. <<a, b, c>> \in Seq(Letter) /\ Len(<<a, b, c>>) = 3
      /\ <<a, b, c>>[1] = a /\ <<a, b, c>>[2] = b /\ <<a, b, c>>[3] = c
  BY <1>3
<1>6. QED
  BY <1>3, <1>4, <1>5 DEF a, b, c

(* Both ends of a link are written.                                         *)
Written(f, n, m, v, w) == [f EXCEPT ![n][m] = v, ![m][n] = w]

IsWritten(g, f, n, m, v, w) ==
    \A x, y \in Node : g[x][y] = IF x = n /\ y = m THEN v
                                ELSE IF x = m /\ y = n THEN w ELSE f[x][y]

LEMMA BothEnds ==
    ASSUME NEW S, NEW f \in [Node -> [Node -> S]], NEW n \in Node, NEW m \in Node, n # m,
           NEW v \in S, NEW w \in S
    PROVE  /\ Written(f, n, m, v, w) \in [Node -> [Node -> S]]
           /\ IsWritten(Written(f, n, m, v, w), f, n, m, v, w)
<1> DEFINE h == [f EXCEPT ![n] = [f[n] EXCEPT ![m] = v]]
           g == Written(f, n, m, v, w)
           i == [h EXCEPT ![m] = [h[m] EXCEPT ![n] = w]]
<1>1. h \in [Node -> [Node -> S]]
      /\ \A x, y \in Node : h[x][y] = IF x = n /\ y = m THEN v ELSE f[x][y]
  OBVIOUS
<1> HIDE DEF h
<1>2. i \in [Node -> [Node -> S]]
      /\ \A x, y \in Node : i[x][y] = IF x = m /\ y = n THEN w ELSE h[x][y]
  BY <1>1
<1>3. g = i
  BY DEF h, Written
<1> HIDE DEF i, g
<1>4. ASSUME NEW x \in Node, NEW y \in Node
      PROVE  g[x][y] = IF x = n /\ y = m THEN v ELSE IF x = m /\ y = n THEN w ELSE f[x][y]
  <2>1. CASE x = m /\ y = n
    BY <1>2, <1>3, <2>1
  <2>2. CASE ~(x = m /\ y = n)
    BY <1>1, <1>2, <1>3, <2>2
  <2>3. QED
    BY <2>1, <2>2
<1>5. QED
  BY <1>2, <1>3, <1>4 DEF IsWritten, g

LEMMA InstallTypes ==
    ASSUME RouteTypes, NEW n \in Node, NEW m \in Node, n # m, Install(n, m),
           dialing' \subseteq dialing
    PROVE  RouteTypes'
<1>1. Greeting(n, m) \in Seq(Letter) /\ Greeting(m, n) \in Seq(Letter)
  BY GreetingIs
<1>2. link' = [link EXCEPT ![n][m] = Greeting(n, m), ![m][n] = Greeting(m, n)]
  BY DEF Install
<1>3. link' \in Links /\ \A x \in Node : link'[x][x] = link[x][x]
  <2>1. link' \in [Node -> [Node -> Seq(Letter)]]
        /\ \A x, y \in Node : link'[x][y] = IF x = n /\ y = m THEN Greeting(n, m)
                                          ELSE IF x = m /\ y = n THEN Greeting(m, n) ELSE link[x][y]
    <3> DEFINE S == Seq(Letter)
               v == Greeting(n, m)
               w == Greeting(m, n)
    <3>1. link \in [Node -> [Node -> S]]
      BY DEF RouteTypes, Links
    <3>2. v \in S
      BY <1>1
    <3>3. w \in S
      BY <1>1
    <3>4. link' = Written(link, n, m, v, w)
      BY <1>2 DEF Written
    <3> HIDE DEF v, w, S
    <3>5. link' \in [Node -> [Node -> S]]
          /\ IsWritten(link', link, n, m, v, w)
      BY <3>1, <3>2, <3>3, <3>4, BothEnds
    <3>6. QED
      BY <3>5 DEF v, w, S, IsWritten
  <2>2. QED
    BY <2>1 DEF Links
<1>4. /\ conn' = [conn EXCEPT ![n][m] = "new", ![m][n] = "new"]
      /\ UNCHANGED <<peers, caps, route, cand, scaling, stale>>
  BY DEF Install
<1>5. /\ conn' \in [Node -> [Node -> {"none", "new", "known"}]]
      /\ \A x \in Node : conn'[x][x] = conn[x][x]
  <2>1. "new" \in {"none", "new", "known"}
    OBVIOUS
  <2>2. conn' \in [Node -> [Node -> {"none", "new", "known"}]]
        /\ \A x, y \in Node : conn'[x][y] = IF x = n /\ y = m THEN "new"
                                          ELSE IF x = m /\ y = n THEN "new" ELSE conn[x][y]
    <3>1. conn \in [Node -> [Node -> {"none", "new", "known"}]]
      BY DEF RouteTypes
    <3>2. conn' = Written(conn, n, m, "new", "new")
      BY <1>4 DEF Written
    <3>3. conn' \in [Node -> [Node -> {"none", "new", "known"}]]
          /\ IsWritten(conn', conn, n, m, "new", "new")
      BY <2>1, <3>1, <3>2, BothEnds
    <3>4. QED
      BY <3>3 DEF IsWritten
  <2>3. QED
    BY <2>2
<1>6. \A x \in Node : Copied(x)'
  BY <1>4 DEF RouteTypes, Copied
<1>7. QED
  BY <1>3, <1>4, <1>5, <1>6 DEF RouteTypes

LEMMA DisconnectTypes ==
    ASSUME RouteTypes, NEW n \in Node, NEW m \in Node, Disconnect(n, m)
    PROVE  RouteTypes'
<1>1. /\ m \in peers[n]
      /\ conn' = [conn EXCEPT ![n][m] = "none"]
      /\ link' = [link EXCEPT ![m][n] = <<>>]
      /\ UNCHANGED <<caps, cand, dialing, scaling>>
  BY DEF Disconnect
<1>2. link' \in Links /\ \A x \in Node : link'[x][x] = <<>>
  <2>1. <<>> \in Seq(Letter)
    OBVIOUS
  <2>2. QED
    BY <1>1, <2>1 DEF Links, RouteTypes
<1>3. /\ conn' \in [Node -> [Node -> {"none", "new", "known"}]]
      /\ \A x \in Node : conn'[x][x] = "none"
  BY <1>1 DEF RouteTypes
<1>4. /\ peers' \in [Node -> SUBSET Node] /\ \A x \in Node : x \notin peers'[x]
      /\ stale' \in [Node -> SUBSET Node]
  <2>1. \/ peers' = [peers EXCEPT ![n] = peers[n] \ {m}] /\ UNCHANGED stale
        \/ UNCHANGED peers /\ stale' = [stale EXCEPT ![n] = stale[n] \union {m}]
    BY DEF Disconnect
  <2>2. CASE peers' = [peers EXCEPT ![n] = peers[n] \ {m}] /\ UNCHANGED stale
    BY <2>2 DEF RouteTypes
  <2>3. CASE UNCHANGED peers /\ stale' = [stale EXCEPT ![n] = stale[n] \union {m}]
    BY <2>3 DEF RouteTypes
  <2>4. QED
    BY <2>1, <2>2, <2>3
<1>5. route' \in [Node -> [Node -> Route]] /\ \A x \in Node : route'[x][x] = NoRoute
  <2>1. NoRoute \in Route
    BY Kinds
  <2>2. UNCHANGED route \/ route' = [route EXCEPT ![n][m] = NoRoute]
    BY DEF Disconnect
  <2>3. route \in [Node -> [Node -> Route]] /\ \A x \in Node : route[x][x] = NoRoute
    BY DEF RouteTypes
  <2>4. QED
    BY <2>1, <2>2, <2>3
<1>6. \A x \in Node : Copied(x)'
  BY <1>1 DEF RouteTypes, Copied
<1>7. QED
  BY <1>1, <1>2, <1>3, <1>4, <1>5, <1>6 DEF RouteTypes

LEMMA JoinTypes ==
    ASSUME RouteTypes, NEW n \in Node, NEW m \in Node, n # m, link[m][n] # <<>>, UNCHANGED scaling,
           NEW f, NEW base, NoFewer(base), RecvJoin(n, m, f, base)
    PROVE  RouteTypes'
<1>1. /\ conn' = [conn EXCEPT ![n][m] = "known"]
      /\ peers' = [peers EXCEPT ![n] = peers[n] \union {m}]
      /\ route' = [base EXCEPT ![n][m] = Direct]
      /\ UNCHANGED <<caps, cand, dialing, stale>>
  BY DEF RecvJoin
<1>2. link' \in Links /\ \A x \in Node : link'[x][x] = <<>>
  <2>1. n \notin {m}
    OBVIOUS
  <2>2. QED
    BY <2>1, JoinCarries, CarriesSelf
<1>3. /\ conn' \in [Node -> [Node -> {"none", "new", "known"}]]
      /\ \A x \in Node : conn'[x][x] = "none"
  BY <1>1 DEF RouteTypes
<1>4. peers' \in [Node -> SUBSET Node] /\ \A x \in Node : x \notin peers'[x]
  BY <1>1 DEF RouteTypes
<1>5. route' \in [Node -> [Node -> Route]] /\ \A x \in Node : route'[x][x] = NoRoute
  <2>1. Direct \in Route
    BY Kinds
  <2>2. QED
    BY <1>1, <2>1 DEF NoFewer
<1>6. \A x \in Node : Copied(x)'
  BY DEF RouteTypes, Copied
<1>7. QED
  BY <1>1, <1>2, <1>3, <1>4, <1>5, <1>6 DEF RouteTypes

(* The peers a list is news of.                                             *)
Fresh(n, f) ==
    {e.peer : e \in Listed(n, f)} \ (peers[n] \union {k \in Node : conn[n][k] # "none"})

(* What the list f from m leads to at n: hole punches to ok succeed, and to *)
(* failed they do not.                                                      *)
Learns(n, m, f, base, ok, failed) ==
    /\ f.inner.type = "PeerList"
    /\ ok \subseteq Fresh(n, f)
    /\ failed = IF CanRelay(n, m) THEN Fresh(n, f) \ ok ELSE {}
    /\ caps' = [caps EXCEPT ![n] = [k \in Node |->
                   IF \E e \in Listed(n, f) : e.peer = k
                   THEN [peer |-> k, capable |-> TRUE] \in Listed(n, f)
                   ELSE caps[n][k]]]
    /\ dialing' = dialing \union ({n} \X ok)
    /\ cand' = [cand EXCEPT ![n] = [k \in Node |-> IF k \in failed THEN {m} ELSE cand[n][k]]]
    /\ route' = [base EXCEPT ![n] = [k \in Node |->
                    IF k \in failed /\ base[n][k].kind # "direct"
                    THEN Relay(m) ELSE base[n][k]]]
    /\ UNCHANGED <<conn, peers, stale>>

LEMMA ListLearns ==
    ASSUME NEW n \in Node, NEW m \in Node, NEW f, NEW base, RecvPeerList(n, m, f, base)
    PROVE  \E ok, failed : Learns(n, m, f, base, ok, failed)
<1> DEFINE failed(ok) == IF CanRelay(n, m) THEN Fresh(n, f) \ ok ELSE {}
<1>1. PICK ok \in SUBSET Fresh(n, f) :
        /\ dialing' = dialing \union ({n} \X ok)
        /\ cand' = [cand EXCEPT ![n] = [k \in Node |->
                       IF k \in failed(ok) THEN {m} ELSE cand[n][k]]]
        /\ route' = [base EXCEPT ![n] = [k \in Node |->
                       IF k \in failed(ok) /\ base[n][k].kind # "direct"
                       THEN Relay(m) ELSE base[n][k]]]
  BY Zenon DEF RecvPeerList, Fresh
<1>2. Learns(n, m, f, base, ok, failed(ok))
  BY <1>1 DEF RecvPeerList, Learns
<1>3. QED
  BY <1>2

LEMMA EntriesAre ==
    ASSUME NEW f \in Letter, f.inner.type = "PeerList", NEW n \in Node
    PROVE  /\ f.inner.peers \subseteq Entry
           /\ \A e \in Listed(n, f) : e.peer \in Node \ {n}
           /\ Fresh(n, f) \subseteq Node \ {n}
<1>1. f.inner \in Inner
  BY DEF Letter, Frame
<1>2. f.inner.peers \subseteq Entry
  BY <1>1 DEF Inner
<1>3. \A e \in Listed(n, f) : e.peer \in Node \ {n}
  BY <1>2 DEF Listed, Entry
<1>4. QED
  BY <1>2, <1>3 DEF Fresh

LEMMA ListTypes ==
    ASSUME RouteTypes, NEW n \in Node, NEW m \in Node, n # m, link[m][n] # <<>>, UNCHANGED scaling,
           NEW f \in Letter, NEW base, NoFewer(base), RecvPeerList(n, m, f, base)
    PROVE  RouteTypes'
<1>1. PICK ok, failed : Learns(n, m, f, base, ok, failed)
  BY ListLearns
<1>2. ok \subseteq Node \ {n} /\ failed \subseteq Node \ {n}
  BY <1>1, EntriesAre DEF Learns
<1>3. link' \in Links /\ \A x \in Node : link'[x][x] = <<>>
  <2>1. n \notin {m} /\ link' = Taken(n, m)
    BY DEF RecvPeerList
  <2>2. QED
    BY <2>1, TakenCarries, CarriesSelf DEF RouteTypes
<1>4. caps' \in [Node -> [Node -> BOOLEAN]]
  <2> DEFINE row == [k \in Node |-> IF \E e \in Listed(n, f) : e.peer = k
                                   THEN [peer |-> k, capable |-> TRUE] \in Listed(n, f)
                                   ELSE caps[n][k]]
  <2>1. row \in [Node -> BOOLEAN]
    <3>1. ASSUME NEW k \in Node PROVE row[k] \in BOOLEAN
      <4>1. CASE \E e \in Listed(n, f) : e.peer = k
        <5>1. row[k] = ([peer |-> k, capable |-> TRUE] \in Listed(n, f))
          BY <4>1
        <5>2. ([peer |-> k, capable |-> TRUE] \in Listed(n, f)) \in BOOLEAN
          OBVIOUS
        <5> HIDE DEF row
        <5>3. QED
          BY <5>1, <5>2
      <4>2. CASE ~\E e \in Listed(n, f) : e.peer = k
        BY <4>2 DEF RouteTypes
      <4>3. QED
        BY <4>1, <4>2
    <3>2. QED
      BY <3>1
  <2>2. caps' = [caps EXCEPT ![n] = row]
    BY <1>1 DEF Learns
  <2> HIDE DEF row
  <2>3. QED
    BY <2>1, <2>2 DEF RouteTypes
<1>5. cand' \in [Node -> [Node -> SUBSET Node]] /\ \A x \in Node : cand'[x][x] = {}
  <2> DEFINE row == [k \in Node |-> IF k \in failed THEN {m} ELSE cand[n][k]]
  <2>1. row \in [Node -> SUBSET Node] /\ row[n] = {}
    BY <1>2 DEF RouteTypes
  <2>2. cand' = [cand EXCEPT ![n] = row]
    BY <1>1 DEF Learns
  <2> HIDE DEF row
  <2>3. QED
    BY <2>1, <2>2 DEF RouteTypes
<1>6. route' \in [Node -> [Node -> Route]] /\ \A x \in Node : route'[x][x] = NoRoute
  <2> DEFINE row == [k \in Node |-> IF k \in failed /\ base[n][k].kind # "direct"
                                   THEN Relay(m) ELSE base[n][k]]
  <2>0. Relay(m) \in Route
    BY Kinds
  <2>1. row \in [Node -> Route] /\ row[n] = NoRoute
    BY <1>2, <2>0 DEF NoFewer
  <2>2. route' = [base EXCEPT ![n] = row]
    BY <1>1 DEF Learns
  <2> HIDE DEF row
  <2>3. QED
    BY <2>1, <2>2 DEF NoFewer
<1>7. dialing' \subseteq Node \X Node /\ \A x, y \in Node : <<x, y>> \in dialing' => x # y
  <2>1. dialing' = dialing \union ({n} \X ok)
    BY <1>1 DEF Learns
  <2>2. QED
    BY <1>2, <2>1 DEF RouteTypes
<1>8. UNCHANGED <<conn, peers, stale>> /\ \A x \in Node : Copied(x)'
  BY <1>1 DEF Learns, RouteTypes, Copied
<1>9. QED
  BY <1>3, <1>4, <1>5, <1>6, <1>7, <1>8 DEF RouteTypes

LEMMA HandleTypes ==
    ASSUME RouteTypes, NEW n \in Node, NEW m \in Node, n # m, link[m][n] # <<>>, UNCHANGED scaling,
           NEW f \in Letter, NEW base, NoFewer(base), Handles(n, m, f, base)
    PROVE  RouteTypes'
<1>0. f.src \in Node /\ f.target \in Node /\ f.src # f.target
  BY DEF Letter, Frame
<1>1. CASE RecvJoin(n, m, f, base)
  BY <1>1, JoinTypes
<1>2. CASE RecvPeerList(n, m, f, base)
  BY <1>2, ListTypes
<1>3. CASE ~RecvJoin(n, m, f, base) /\ ~RecvPeerList(n, m, f, base)
  <2>1. link' \in Links /\ \A x \in Node : link'[x][x] = <<>>
    <3>1. PICK fs : Carries(n, {m}, fs)
      BY <1>3, HandleCarries
    <3>2. n \notin {m}
      OBVIOUS
    <3>3. QED
      BY <3>1, <3>2, CarriesSelf
  <2>2. UNCHANGED <<conn, peers, cand, dialing>> /\ \A x \in Node : Copied(x)'
    BY <1>3 DEF Handles, Forward, RecvPeerState, RecvRequest, RecvPong, RecvIceCheckAck,
                RouteTypes, Copied
  <2>3. caps' \in [Node -> [Node -> BOOLEAN]]
    <3>1. UNCHANGED caps \/ caps' = [caps EXCEPT ![n][f.src] = f.src \in Capable]
      BY <1>3 DEF Handles, Forward, RecvPeerState, RecvRequest, RecvPong, RecvIceCheckAck
    <3>2. \A b \in BOOLEAN, k \in Node : [caps EXCEPT ![n][k] = b] \in [Node -> [Node -> BOOLEAN]]
      BY DEF RouteTypes
    <3>3. (f.src \in Capable) \in BOOLEAN
      OBVIOUS
    <3>4. [caps EXCEPT ![n][f.src] = f.src \in Capable] \in [Node -> [Node -> BOOLEAN]]
      BY <1>0, <3>2, <3>3
    <3>5. QED
      BY <3>1, <3>4 DEF RouteTypes
  <2>4. stale' \in [Node -> SUBSET Node]
    <3>1. UNCHANGED stale \/ stale' = [stale EXCEPT ![n] = stale[n] \union {f.src}]
      BY <1>3 DEF Handles, Forward, RecvPeerState, RecvRequest, RecvPong, RecvIceCheckAck
    <3>2. \A k \in Node : [stale EXCEPT ![n] = stale[n] \union {k}] \in [Node -> SUBSET Node]
      BY DEF RouteTypes
    <3>3. stale \in [Node -> SUBSET Node]
      BY DEF RouteTypes
    <3>4. QED
      BY <1>0, <3>1, <3>2, <3>3
  <2>5. route' \in [Node -> [Node -> Route]] /\ \A x \in Node : route'[x][x] = NoRoute
    <3>1. route' = base \/ (f.target = n /\ route' = [base EXCEPT ![n][f.src] = Direct])
      BY <1>3 DEF Handles, Forward, RecvPeerState, RecvRequest, RecvPong, RecvIceCheckAck
    <3>2. Direct \in Route /\ Direct # NoRoute
      BY Kinds
    <3>3. f.target = n => NoFewer([base EXCEPT ![n][f.src] = Direct])
      BY <1>0, <3>2, RerouteNoFewer
    <3>4. NoFewer(route')
      BY <3>1, <3>3
    <3>5. QED
      BY <3>4 DEF NoFewer
  <2>6. QED
    BY <2>1, <2>2, <2>3, <2>4, <2>5 DEF RouteTypes
<1>4. QED
  BY <1>1, <1>2, <1>3

LEMMA ScaleTypes ==
    ASSUME RouteTypes, NEW n \in Node,
           \/ ScaleBegin(n) \/ ScaleEnd(n) \/ \E m \in Node : ScaleStep(n, m)
    PROVE  /\ RouteTypes' /\ NoFewer(route')
           /\ UNCHANGED <<conn, peers, caps, cand, link, dialing, stale, punched>>
<1>0. NoFewer(route)
  BY DEF RouteTypes, NoFewer
<1>1. CASE ScaleBegin(n)
  <2> DEFINE s == [on |-> TRUE, cand |-> cand[n], todo |-> DirectPeers(n),
                   count |-> Cardinality(DirectPeers(n))]
  <2>1. scaling' = [scaling EXCEPT ![n] = s] /\ UNCHANGED <<tables, link, dialing, stale, punched>>
    BY <1>1 DEF ScaleBegin
  <2>2. /\ DOMAIN s = {"on", "cand", "todo", "count"} /\ s.cand = cand[n]
        /\ cand[n] \in [Node -> SUBSET Node] /\ cand[n][n] = {}
    BY DEF RouteTypes
  <2> HIDE DEF s
  <2>3. DOMAIN scaling' = Node /\ \A x \in Node : Copied(x)'
    BY <2>1, <2>2 DEF RouteTypes, Copied
  <2>4. QED
    BY <1>0, <2>1, <2>3 DEF RouteTypes, tables
<1>2. CASE ScaleEnd(n)
  <2>1. scaling' = [scaling EXCEPT ![n] = NotScaling]
        /\ UNCHANGED <<tables, link, dialing, stale, punched>>
    BY <1>2 DEF ScaleEnd
  <2>2. DOMAIN NotScaling = {"on"} /\ NotScaling.on = FALSE
    BY DEF NotScaling
  <2>3. DOMAIN scaling' = Node /\ \A x \in Node : Copied(x)'
    BY <2>1, <2>2 DEF RouteTypes, Copied
  <2>4. QED
    BY <1>0, <2>1, <2>3 DEF RouteTypes, tables
<1>3. ASSUME NEW m \in Node, ScaleStep(n, m)
      PROVE  /\ RouteTypes' /\ NoFewer(route')
             /\ UNCHANGED <<conn, peers, caps, cand, link, dialing, stale, punched>>
  <2> DEFINE s == scaling[n]
             v == CHOOSE v \in s.cand[m] : TRUE
  <2>1. /\ s.on /\ UNCHANGED <<conn, peers, caps, cand, link, dialing, stale, punched>>
        /\ \/ UNCHANGED route
           \/ s.cand[m] # {} /\ route' = [route EXCEPT ![n][m] = Relay(v)]
    BY <1>3 DEF ScaleStep
  <2>2. /\ DOMAIN s = {"on", "cand", "todo", "count"}
        /\ s.cand \in [Node -> SUBSET Node] /\ s.cand[n] = {}
    BY <2>1 DEF RouteTypes, Copied
  <2>3. NoFewer(route')
    <3>1. CASE UNCHANGED route
      BY <1>0, <3>1
    <3>2. CASE s.cand[m] # {} /\ route' = [route EXCEPT ![n][m] = Relay(v)]
      <4>1. v \in s.cand[m]
        BY <3>2
      <4>2. v \in Node /\ n # m
        BY <2>2, <3>2, <4>1
      <4> HIDE DEF v
      <4>3. Relay(v) \in Route /\ Relay(v) # NoRoute
        BY <4>2, Kinds
      <4>4. NoFewer([route EXCEPT ![n][m] = Relay(v)])
        BY <1>0, <4>2, <4>3, RerouteNoFewer
      <4>5. QED
        BY <3>2, <4>4
    <3>3. QED
      BY <2>1, <3>1, <3>2
  <2>4. DOMAIN scaling' = Node /\ \A x \in Node : Copied(x)'
    <3>0. DOMAIN scaling = Node
      BY DEF RouteTypes
    <3>1. /\ DOMAIN scaling' = Node /\ \A x \in Node \ {n} : scaling'[x] = scaling[x]
          /\ DOMAIN scaling'[n] = DOMAIN s /\ scaling'[n].cand = s.cand
      <4>1. CASE scaling' = [scaling EXCEPT ![n].todo = scaling[n].todo \ {m}]
        BY <2>2, <3>0, <4>1
      <4>2. CASE scaling' = [scaling EXCEPT ![n].todo = s.todo \ {m}, ![n].count = s.count - 1]
        BY <2>2, <3>0, <4>2
      <4>3. QED
        BY <1>3, <4>1, <4>2 DEF ScaleStep
    <3>2. Copied(n)'
      BY <2>2, <3>1 DEF Copied
    <3>3. ASSUME NEW x \in Node \ {n} PROVE Copied(x)'
      BY <3>1 DEF Copied, RouteTypes
    <3>4. QED
      BY <3>1, <3>2, <3>3
  <2>5. QED
    BY <2>1, <2>3, <2>4 DEF RouteTypes, NoFewer
<1>4. QED
  BY <1>1, <1>2, <1>3

(* Pings and checks.                                                        *)
LEMMA PingCarries ==
    ASSUME RouteTypes, NEW n \in Node, NEW m \in Node, Ping(n, m) \/ CandidateCheck(n, m)
    PROVE  \E fs \in Single(Plain) : Carries(n, {}, fs)
<1> DEFINE fs(t) == Control(route, n, m, [type |-> t])
<1>1. PICK t \in {"Ping", "Pong", "IceCheck", "IceCheckAck"} : link' = Posted(n, fs(t))
  BY DEF Ping, CandidateCheck
<1>2. fs(t) \in Single(Plain)
  BY ControlPlain DEF RouteTypes
<1> HIDE DEF fs
<1>3. Plain \in SUBSET Letter
  BY DEF Plain
<1>4. fs(t) \in [Node -> Seq(Letter)]
  BY <1>2, <1>3, SingleIs
<1>5. Carries(n, {}, fs(t))
  BY <1>1, <1>4, PostedCarries DEF RouteTypes
<1>6. QED
  BY <1>2, <1>5

LEMMA TaskTypes ==
    ASSUME RouteTypes, NEW n \in Node, NEW m \in Node,
           Ping(n, m) \/ AutoUpgrade(n, m) \/ CandidateCheck(n, m)
    PROVE  RouteTypes'
<1>1. link' \in Links /\ \A x \in Node : link'[x][x] = <<>>
  <2>1. CASE Ping(n, m) \/ CandidateCheck(n, m)
    <3>1. PICK fs : Carries(n, {}, fs)
      BY <2>1, PingCarries
    <3>2. n \notin {}
      OBVIOUS
    <3>3. QED
      BY <3>1, <3>2, CarriesSelf
  <2>2. CASE AutoUpgrade(n, m)
    BY <2>2 DEF AutoUpgrade, RouteTypes
  <2>3. QED
    BY <2>1, <2>2
<1>2. UNCHANGED <<conn, peers, caps, route, cand, scaling, stale>>
  BY DEF Ping, AutoUpgrade, CandidateCheck, tables
<1>3. dialing' \subseteq Node \X Node /\ \A x, y \in Node : <<x, y>> \in dialing' => x # y
  <2>1. CASE UNCHANGED dialing
    BY <2>1 DEF RouteTypes
  <2>2. CASE dialing' = dialing \union {<<n, m>>} /\ Relayed(route[n][m])
    <3>1. n # m
      BY <2>2, Kinds DEF RouteTypes, Relayed
    <3>2. QED
      BY <2>2, <3>1 DEF RouteTypes
  <2>3. QED
    BY <2>1, <2>2 DEF Ping, AutoUpgrade, CandidateCheck
<1>4. \A x \in Node : Copied(x)'
  BY <1>2 DEF RouteTypes, Copied
<1>5. QED
  BY <1>1, <1>2, <1>3, <1>4 DEF RouteTypes

LEMMA RoutingTypes ==
    ASSUME RouteTypes, Next PROVE RouteTypes'
<1>1. ASSUME NEW n \in Node, NEW m \in Node, Dial(n, m) \/ Finish(n, m) PROVE RouteTypes'
  <2>1. n # m
    <3>1. CASE Dial(n, m)
      <4>1. {n, m} \in Pairs
        BY <3>1, RoutingAssumption DEF Dial
      <4>2. n = m => {n, m} = {n}
        OBVIOUS
      <4>3. QED
        BY <4>1, <4>2 DEF Pairs
    <3>2. CASE Finish(n, m)
      BY <3>2 DEF Finish, RouteTypes
    <3>3. QED
      BY <1>1, <3>1, <3>2
  <2>2. Install(n, m) /\ dialing' \subseteq dialing
    BY <1>1 DEF Dial, Finish
  <2>3. QED
    BY <2>1, <2>2, InstallTypes
<1>2. ASSUME NEW n \in Node, NEW m \in Node, Receive(n, m) PROVE RouteTypes'
  <2>1. PICK f, base : f \in Letter /\ NoFewer(base) /\ Handles(n, m, f, base)
    BY <1>2, ReceiveIs
  <2>2. n # m /\ link[m][n] # <<>> /\ UNCHANGED scaling
    BY <1>2, ReceiveIs
  <2>3. QED
    BY <2>1, <2>2, HandleTypes
<1>3. QED
  BY <1>1, <1>2, DisconnectTypes, ScaleTypes, TaskTypes DEF Next

LEMMA TypesStep ==
    ASSUME RouteTypes, [PeersNext]_peersVars PROVE RouteTypes'
<1>1. CASE UNCHANGED vars
  BY <1>1 DEF vars, tables, RouteTypes, Copied
<1>2. QED
  BY <1>1, RoutingTypes DEF PeersNext, peersVars

(* The tables of routing keep their types for every set of nodes and all    *)
(* bounds, and no node comes to route to itself, whatever is forwarded.     *)
THEOREM RoutesTyped == PeersSpec => []TypeOK
<1>1. QED
  BY InitTypes, TypesStep, TypesAre, PTL DEF PeersSpec

-----------------------------------------------------------------------------
(* The invariant of RelayIsFound.                                           *)

Reach(x, y) == {x, y} \in Reachable

(* No three nodes reach one another, as when all are behind NATs but for    *)
(* relays that do not know of each other.                                   *)
TriangleFree == \A x, y, z \in Node : ~(Reach(x, y) /\ Reach(y, z) /\ Reach(x, z))

(* A greeting is from x itself, to y, and lists what x can have met.        *)
Proper(x, y, f) ==
    f.inner.type \in Greetings =>
        /\ f.src = x /\ f.target = y
        /\ f.inner.type = "PeerList" => \A e \in f.inner.peers : Reach(x, e.peer)

AllProper(x, y, s) == \A i \in 1..Len(s) : Proper(x, y, s[i])

Names(f, k) == f.inner.type = "PeerList" /\ \E e \in f.inner.peers : e.peer = k

Tells(s, k) == \E i \in 1..Len(s) : Names(s[i], k)

(* The frames s begin with a greeting, or with the rest of one.             *)
Opening(s) == Len(s) >= 2 /\ s[1].inner.type = "Join" /\ s[2].inner.type = "PeerState"
Resuming(s) == Len(s) >= 1 /\ s[1].inner.type = "PeerState"

(* Without a hole punch only those meet that reach each other, and frames   *)
(* wait only at a connection.                                               *)
Bound(x, y) ==
    /\ conn[x][y] # "none" \/ y \in peers[x] => Reach(x, y)
    /\ link[x][y] # <<>> => conn[y][x] # "none"
    /\ AllProper(x, y, link[x][y])

(* x knows that r relays before it reads a list of r.                       *)
Greeted(x, r) ==
    /\ conn[x][r] = "new" => Opening(link[r][x])
    /\ conn[x][r] = "known" => caps[x][r] \/ Resuming(link[r][x])

(* x has a route to k, or a list of their relay r that names k comes.       *)
Told(x, r, k) ==
    /\ x # k /\ x \in peers[r] /\ k \in peers[r] /\ Open(x, r) /\ ~Reach(x, k)
    => route[x][k] # NoRoute \/ Tells(link[r][x], k)

Found ==
    /\ dialing = {}
    /\ \A x, y \in Node : Bound(x, y)
    /\ \A r \in Capable, x \in Node : Greeted(x, r)
    /\ \A r \in Capable, x, k \in Node : Told(x, r, k)

FoundInv == punched \/ Found

LEMMA ReachSym == \A x, y : Reach(x, y) <=> Reach(y, x)
<1> SUFFICES ASSUME NEW x, NEW y PROVE Reach(x, y) <=> Reach(y, x)
  OBVIOUS
<1>1. {x, y} = {y, x}
  OBVIOUS
<1>2. QED
  BY <1>1 DEF Reach

LEMMA ReachApart == \A x \in Node : ~Reach(x, x)
<1> SUFFICES ASSUME NEW x \in Node, Reach(x, x) PROVE FALSE
  OBVIOUS
<1>1. {x, x} = {x} /\ {x, x} \in Pairs
  BY RoutingAssumption DEF Reach
<1>2. QED
  BY <1>1 DEF Pairs

LEMMA Appended ==
    ASSUME NEW s \in Seq(Letter), NEW t \in Seq(Letter)
    PROVE  /\ \A x, y : AllProper(x, y, s) /\ AllProper(x, y, t) => AllProper(x, y, s \o t)
           /\ \A k : Tells(s, k) \/ Tells(t, k) => Tells(s \o t, k)
           /\ Opening(s) => Opening(s \o t)
           /\ Resuming(s) => Resuming(s \o t)
<1>1. /\ Len(s \o t) = Len(s) + Len(t) /\ Len(s) \in Nat /\ Len(t) \in Nat
      /\ \A i \in 1..Len(s) : (s \o t)[i] = s[i]
      /\ \A i \in 1..Len(t) : (s \o t)[Len(s) + i] = t[i]
      /\ \A i \in 1..(Len(s) + Len(t)) : i \in 1..Len(s) \/ \E j \in 1..Len(t) : i = Len(s) + j
  <2>1. ASSUME NEW i \in 1..(Len(s) + Len(t)), i \notin 1..Len(s)
        PROVE  \E j \in 1..Len(t) : i = Len(s) + j
    <3>1. i - Len(s) \in 1..Len(t) /\ i = Len(s) + (i - Len(s))
      BY <2>1
    <3>2. QED
      BY <3>1
  <2>2. QED
    BY <2>1
<1> DEFINE u == s \o t
<1> HIDE DEF u
<1>2. ASSUME NEW x, NEW y, AllProper(x, y, s), AllProper(x, y, t) PROVE AllProper(x, y, u)
  BY <1>1, <1>2 DEF AllProper, u
<1>3. ASSUME NEW k, Tells(s, k) \/ Tells(t, k) PROVE Tells(u, k)
  <2>1. CASE Tells(s, k)
    BY <1>1, <2>1 DEF Tells, u
  <2>2. CASE Tells(t, k)
    <3>1. PICK i \in 1..Len(t) : Names(t[i], k)
      BY <2>2 DEF Tells
    <3>2. Len(s) + i \in 1..Len(u) /\ u[Len(s) + i] = t[i]
      BY <1>1 DEF u
    <3>3. QED
      BY <3>1, <3>2 DEF Tells
  <2>3. QED
    BY <1>3, <2>1, <2>2
<1>4. (Opening(s) => Opening(u)) /\ (Resuming(s) => Resuming(u))
  BY <1>1 DEF Opening, Resuming, u
<1>5. QED
  BY <1>2, <1>3, <1>4 DEF u

LEMMA Shortened ==
    ASSUME NEW s \in Seq(Letter), s # <<>>
    PROVE  /\ \A x, y : AllProper(x, y, s) => AllProper(x, y, Tail(s)) /\ Proper(x, y, Head(s))
           /\ \A k : Tells(s, k) => Names(Head(s), k) \/ Tells(Tail(s), k)
           /\ Opening(s) => Head(s).inner.type = "Join" /\ Resuming(Tail(s))
           /\ Resuming(s) => Head(s).inner.type = "PeerState"
<1>1. /\ Len(Tail(s)) = Len(s) - 1 /\ Len(s) \in Nat /\ Len(s) >= 1 /\ Head(s) = s[1]
      /\ \A i \in 1..(Len(s) - 1) : Tail(s)[i] = s[i + 1]
  BY TailOfSeq
<1>2. ASSUME NEW x, NEW y, AllProper(x, y, s)
      PROVE  AllProper(x, y, Tail(s)) /\ Proper(x, y, Head(s))
  BY <1>1, <1>2 DEF AllProper
<1>3. ASSUME NEW k, Tells(s, k) PROVE Names(Head(s), k) \/ Tells(Tail(s), k)
  <2>1. PICK i \in 1..Len(s) : Names(s[i], k)
    BY <1>3 DEF Tells
  <2>2. CASE i = 1
    BY <1>1, <2>1, <2>2
  <2>3. CASE i # 1
    <3>1. i - 1 \in 1..Len(Tail(s)) /\ Tail(s)[i - 1] = s[i]
      BY <1>1, <2>3
    <3>2. QED
      BY <2>1, <3>1 DEF Tells
  <2>4. QED
    BY <2>2, <2>3
<1>4. (Opening(s) => Head(s).inner.type = "Join" /\ Resuming(Tail(s)))
      /\ (Resuming(s) => Head(s).inner.type = "PeerState")
  BY <1>1 DEF Opening, Resuming
<1>5. QED
  BY <1>2, <1>3, <1>4

(* What is sent leaves the links in order, and what is taken takes nothing  *)
(* else away.                                                               *)
LEMMA CarriesKeeps ==
    ASSUME RouteTypes, NEW n \in Node, NEW T, n \notin T, NEW fs \in [Node -> Seq(Letter)],
           \A x \in T : x \in Node => link[x][n] # <<>>, Carries(n, T, fs),
           \A y \in Node : AllProper(n, y, fs[y]),
           \A x, y \in Node : Bound(x, y)
    PROVE  /\ \A x, y \in Node : /\ AllProper(x, y, link'[x][y])
                                 /\ link'[x][y] # <<>> => conn[y][x] # "none"
           /\ \A x, y \in Node : ~(x \in T /\ y = n) =>
                 /\ \A k : Tells(link[x][y], k) => Tells(link'[x][y], k)
                 /\ Opening(link[x][y]) => Opening(link'[x][y])
                 /\ Resuming(link[x][y]) => Resuming(link'[x][y])
<1> SUFFICES ASSUME NEW x \in Node, NEW y \in Node
             PROVE  /\ AllProper(x, y, link'[x][y])
                    /\ link'[x][y] # <<>> => conn[y][x] # "none"
                    /\ ~(x \in T /\ y = n) =>
                         /\ \A k : Tells(link[x][y], k) => Tells(link'[x][y], k)
                         /\ Opening(link[x][y]) => Opening(link'[x][y])
                         /\ Resuming(link[x][y]) => Resuming(link'[x][y])
  OBVIOUS
<1>0. link[x][y] \in Seq(Letter) /\ fs[y] \in Seq(Letter) /\ Bound(x, y)
  BY DEF RouteTypes, Links
<1>1. CASE x = n /\ Open(n, y)
  <2>1. link'[x][y] = link[x][y] \o fs[y]
    BY <1>1 DEF Carries
  <2>2. AllProper(x, y, link[x][y]) /\ AllProper(x, y, fs[y])
    BY <1>0, <1>1 DEF Bound
  <2>3. conn[y][x] # "none"
    BY <1>1 DEF Open
  <2>4. QED
    BY <1>0, <2>1, <2>2, <2>3, Appended
<1>2. CASE ~(x = n /\ Open(n, y)) /\ x \in T /\ y = n
  <2>1. link'[x][y] = Tail(link[x][y]) /\ link[x][y] # <<>>
    BY <1>2 DEF Carries
  <2>2. QED
    BY <1>0, <1>2, <2>1, Shortened DEF Bound
<1>3. CASE ~(x = n /\ Open(n, y)) /\ ~(x \in T /\ y = n)
  <2>1. link'[x][y] = link[x][y]
    BY <1>3 DEF Carries
  <2>2. QED
    BY <1>0, <2>1 DEF Bound
<1>4. QED
  BY <1>1, <1>2, <1>3

LEMMA PlainProper ==
    ASSUME NEW fs \in Single(Plain)
    PROVE  /\ fs \in [Node -> Seq(Letter)]
           /\ \A x \in Node, y \in Node : AllProper(x, y, fs[y])
<1>1. Plain \in SUBSET Letter
  BY DEF Plain
<1>2. fs \in [Node -> Seq(Letter)] /\ \A y \in Node : fs[y] = <<>> \/ \E f \in Plain : fs[y] = <<f>>
  BY <1>1, SingleIs
<1>3. ASSUME NEW x \in Node, NEW y \in Node PROVE AllProper(x, y, fs[y])
  <2>1. \A f \in Plain : Proper(x, y, f)
    BY DEF Plain, Proper
  <2>2. CASE fs[y] = <<>>
    BY <2>2 DEF AllProper
  <2>3. ASSUME NEW f \in Plain, fs[y] = <<f>> PROVE AllProper(x, y, fs[y])
    <3>1. Len(<<f>>) = 1 /\ <<f>>[1] = f
      OBVIOUS
    <3>2. QED
      BY <2>1, <2>3, <3>1 DEF AllProper
  <2>4. QED
    BY <1>2, <2>2, <2>3
<1>4. QED
  BY <1>2, <1>3

LEMMA FoundStart == PeersInit => FoundInv
<1> SUFFICES ASSUME PeersInit PROVE Found
  BY DEF FoundInv
<1>1. PICK pairs \in Settlements : Settled(pairs)
  BY DEF PeersInit, Init
<1>2. link = [n \in Node |-> [m \in Node |-> <<>>]] /\ dialing = {}
  BY DEF PeersInit, Init
<1> DEFINE joined(n) == Joined(pairs, n)
           shared(n, m) == Shared(pairs, n, m)
           relay(n, m) == CHOOSE v \in shared(n, m) : TRUE
<1>3. /\ conn = [n \in Node |-> [m \in Node |-> IF m \in joined(n) THEN "known" ELSE "none"]]
      /\ peers = [n \in Node |-> joined(n)]
      /\ caps = [n \in Node |-> [m \in Node |-> m \in joined(n) \intersect Capable]]
      /\ route = [n \in Node |-> [m \in Node |->
                    IF m \in joined(n) THEN Direct
                    ELSE IF shared(n, m) # {} THEN Relay(relay(n, m)) ELSE NoRoute]]
  BY <1>1 DEF Settled
<1>4. \A x, y \in Node : y \in joined(x) => Reach(x, y) /\ x \in joined(y)
  <2> SUFFICES ASSUME NEW x \in Node, NEW y \in Node, y \in joined(x)
               PROVE  Reach(x, y) /\ x \in joined(y)
    OBVIOUS
  <2>1. {x, y} \in pairs /\ {x, y} = {y, x}
    BY DEF Joined
  <2>2. QED
    BY <2>1, RoutingAssumption DEF Joined, Reach
<1>5. \A r \in Capable, x, k \in Node :
        x # k /\ x \in joined(r) /\ k \in joined(r) /\ k \notin joined(x) => r \in shared(x, k)
  <2> SUFFICES ASSUME NEW r \in Capable, NEW x \in Node, NEW k \in Node,
                      x # k, x \in joined(r), k \in joined(r), k \notin joined(x)
               PROVE  r \in shared(x, k)
    OBVIOUS
  <2>1. r \in Node
    BY RoutingAssumption
  <2>2. r \in joined(x) /\ r \in joined(k)
    BY <1>4, <2>1
  <2>3. QED
    BY <2>2 DEF Shared
<1> HIDE DEF joined, shared, relay
<1>6. \A x, y \in Node : link[x][y] = <<>>
  BY <1>2
<1>7. ASSUME NEW x \in Node, NEW y \in Node PROVE Bound(x, y)
  <2>1. AllProper(x, y, <<>>)
    BY DEF AllProper
  <2>2. conn[x][y] # "none" \/ y \in peers[x] => Reach(x, y)
    BY <1>3, <1>4
  <2>3. QED
    BY <1>6, <2>1, <2>2 DEF Bound
<1>8. ASSUME NEW r \in Capable, NEW x \in Node PROVE Greeted(x, r)
  <2>1. r \in Node
    BY RoutingAssumption
  <2>2. conn[x][r] # "new" /\ (conn[x][r] = "known" => r \in joined(x))
    BY <1>3, <2>1
  <2>3. r \in joined(x) => caps[x][r]
    BY <1>3, <2>1
  <2>4. QED
    BY <2>2, <2>3 DEF Greeted
<1>9. ASSUME NEW r \in Capable, NEW x \in Node, NEW k \in Node PROVE Told(x, r, k)
  <2> SUFFICES ASSUME x # k, x \in peers[r], k \in peers[r], ~Reach(x, k)
               PROVE  route[x][k] # NoRoute
    BY DEF Told
  <2>1. r \in Node
    BY RoutingAssumption
  <2>2. k \notin joined(x) /\ x \in joined(r) /\ k \in joined(r)
    BY <1>3, <1>4, <2>1
  <2>3. shared(x, k) # {}
    BY <1>5, <2>2
  <2>4. route[x][k] = Relay(relay(x, k))
    BY <1>3, <2>2, <2>3
  <2>5. QED
    BY <2>4, Kinds
<1>10. QED
  BY <1>2, <1>7, <1>8, <1>9 DEF Found

LEMMA InstallFound ==
    ASSUME RouteTypes, Found, NEW n \in Node, NEW m \in Node, n # m, Reach(n, m),
           Install(n, m), UNCHANGED dialing
    PROVE  Found'
<1>1. /\ conn' = Written(conn, n, m, "new", "new")
      /\ link' = Written(link, n, m, Greeting(n, m), Greeting(m, n))
      /\ UNCHANGED <<peers, caps, route>>
  BY DEF Install, Written
<1>2. IsWritten(conn', conn, n, m, "new", "new")
  <2>1. "new" \in {"none", "new", "known"} /\ conn \in [Node -> [Node -> {"none", "new", "known"}]]
    BY DEF RouteTypes
  <2>2. QED
    BY <1>1, <2>1, BothEnds
<1>3. IsWritten(link', link, n, m, Greeting(n, m), Greeting(m, n))
  <2> DEFINE S == Seq(Letter)
             v == Greeting(n, m)
             w == Greeting(m, n)
  <2>1. link \in [Node -> [Node -> S]]
    BY DEF RouteTypes, Links
  <2>2. v \in S
    BY GreetingIs
  <2>3. w \in S
    BY GreetingIs
  <2>4. link' = Written(link, n, m, v, w)
    BY <1>1
  <2> HIDE DEF S, v, w
  <2>5. IsWritten(link', link, n, m, v, w)
    BY <2>1, <2>2, <2>3, <2>4, BothEnds
  <2>6. QED
    BY <2>5 DEF v, w
<1>4. ASSUME NEW x \in Node, NEW y \in Node, x # y
      PROVE  /\ Opening(Greeting(x, y))
             /\ \A k \in peers[x] : Tells(Greeting(x, y), k)
             /\ AllProper(x, y, Greeting(x, y))
  <2> DEFINE s == Greeting(x, y)
  <2>1. /\ [type |-> "Join"] \in Inner /\ [type |-> "Join"].type = "Join"
        /\ [type |-> "PeerState"] \in Inner /\ [type |-> "PeerState"].type = "PeerState"
    BY BareIs
  <2>2. /\ PeerList(x, peers[x]) \in Inner /\ PeerList(x, peers[x]).type = "PeerList"
        /\ \A k : k \in peers[x] <=> \E e \in PeerList(x, peers[x]).peers : e.peer = k
    BY ListIs DEF RouteTypes
  <2>3. /\ Len(s) = 3
        /\ s[1] = Say(x, y, [type |-> "Join"])
        /\ s[2] = Say(x, y, [type |-> "PeerState"])
        /\ s[3] = Say(x, y, PeerList(x, peers[x]))
    BY <1>4, GreetingIs
  <2>4. /\ s[1].inner.type = "Join" /\ s[1].src = x /\ s[1].target = y
        /\ s[2].inner.type = "PeerState" /\ s[2].src = x /\ s[2].target = y
        /\ s[3].inner = PeerList(x, peers[x]) /\ s[3].src = x /\ s[3].target = y
    <3> HIDE DEF s
    <3>1. ASSUME NEW i
          PROVE  Say(x, y, i).inner = i /\ Say(x, y, i).src = x /\ Say(x, y, i).target = y
      BY DEF Say
    <3>2. QED
      BY <2>1, <2>2, <2>3, <3>1
  <2> HIDE DEF s
  <2>5. \A e \in s[3].inner.peers : Reach(x, e.peer)
    BY <2>2, <2>4 DEF Found, Bound, RouteTypes
  <2>6. Proper(x, y, s[1]) /\ Proper(x, y, s[2]) /\ Proper(x, y, s[3])
    BY <2>2, <2>4, <2>5 DEF Proper
  <2>7. AllProper(x, y, s)
    BY <2>3, <2>6 DEF AllProper
  <2>8. \A k \in peers[x] : Names(s[3], k)
    BY <2>2, <2>4 DEF Names
  <2>9. QED
    BY <2>3, <2>4, <2>7, <2>8 DEF s, Opening, Tells
<1>5. ASSUME NEW x \in Node, NEW y \in Node PROVE Bound(x, y)'
  <2>1. Reach(m, n)
    BY ReachSym
  <2>2. conn'[x][y] # "none" \/ y \in peers'[x] => Reach(x, y)
    BY <1>1, <1>2, <2>1 DEF IsWritten, Found, Bound
  <2>3. link'[x][y] # <<>> => conn'[y][x] # "none"
    BY <1>2, <1>3 DEF IsWritten, Found, Bound
  <2>4. AllProper(x, y, link'[x][y])
    BY <1>3, <1>4 DEF IsWritten, Found, Bound
  <2>5. QED
    BY <2>2, <2>3, <2>4 DEF Bound
<1>6. ASSUME NEW r \in Capable, NEW x \in Node PROVE Greeted(x, r)'
  <2>1. r \in Node
    BY RoutingAssumption
  <2>2. CASE {x, r} = {n, m}
    <3>1. (x = n /\ r = m) \/ (x = m /\ r = n)
      BY <2>2
    <3>2. conn'[x][r] = "new" /\ link'[r][x] = Greeting(r, x)
      BY <1>2, <1>3, <2>1, <3>1 DEF IsWritten
    <3>3. QED
      BY <1>4, <2>1, <3>1, <3>2 DEF Greeted
  <2>3. CASE {x, r} # {n, m}
    <3>1. ~(x = n /\ r = m) /\ ~(x = m /\ r = n)
      BY <2>3
    <3>2. conn'[x][r] = conn[x][r] /\ link'[r][x] = link[r][x]
      BY <1>2, <1>3, <2>1, <3>1 DEF IsWritten
    <3>3. QED
      BY <1>1, <3>2 DEF Greeted, Found
  <2>4. QED
    BY <2>2, <2>3
<1>7. ASSUME NEW r \in Capable, NEW x \in Node, NEW k \in Node PROVE Told(x, r, k)'
  <2>1. r \in Node
    BY RoutingAssumption
  <2>2. CASE {x, r} = {n, m}
    <3>1. (x = n /\ r = m) \/ (x = m /\ r = n)
      BY <2>2
    <3>2. link'[r][x] = Greeting(r, x)
      BY <1>3, <2>1, <3>1 DEF IsWritten
    <3>3. k \in peers[r] => Tells(link'[r][x], k)
      BY <1>4, <2>1, <3>1, <3>2
    <3>4. QED
      BY <1>1, <3>3 DEF Told
  <2>3. CASE {x, r} # {n, m}
    <3>1. ~(x = n /\ r = m) /\ ~(x = m /\ r = n)
      BY <2>3
    <3>2. conn'[x][r] = conn[x][r] /\ link'[r][x] = link[r][x] /\ conn'[r][x] = conn[r][x]
      BY <1>2, <1>3, <2>1, <3>1 DEF IsWritten
    <3>3. QED
      BY <1>1, <3>2 DEF Told, Open, Found
  <2>4. QED
    BY <2>2, <2>3
<1>8. QED
  BY <1>5, <1>6, <1>7 DEF Found

LEMMA DisconnectFound ==
    ASSUME RouteTypes, Found, NEW n \in Node, NEW m \in Node, Disconnect(n, m)
    PROVE  Found'
<1>1. /\ m \in peers[n]
      /\ conn' = [conn EXCEPT ![n][m] = "none"]
      /\ link' = [link EXCEPT ![m][n] = <<>>]
      /\ UNCHANGED <<caps, dialing>>
      /\ peers' = [peers EXCEPT ![n] = peers[n] \ {m}] \/ UNCHANGED peers
      /\ route' = [route EXCEPT ![n][m] = NoRoute] \/ UNCHANGED route
  BY DEF Disconnect
<1>2. Reach(n, m)
  BY <1>1 DEF Found, Bound
<1>3. \A x, y \in Node : /\ conn'[x][y] = IF x = n /\ y = m THEN "none" ELSE conn[x][y]
                         /\ link'[x][y] = IF x = m /\ y = n THEN <<>> ELSE link[x][y]
                         /\ (x = n /\ y = m) \/ route'[x][y] = route[x][y]
  BY <1>1 DEF RouteTypes, Links
<1>4. \A x \in Node : peers'[x] \subseteq peers[x]
  <2>1. CASE peers' = [peers EXCEPT ![n] = peers[n] \ {m}]
    BY <2>1 DEF RouteTypes
  <2>2. CASE UNCHANGED peers
    BY <2>2
  <2>3. QED
    BY <1>1, <2>1, <2>2
<1>5. ASSUME NEW x \in Node, NEW y \in Node PROVE Bound(x, y)'
  <2>1. AllProper(x, y, <<>>)
    BY DEF AllProper
  <2>2. conn'[x][y] # "none" \/ y \in peers'[x] => Reach(x, y)
    BY <1>3, <1>4 DEF Found, Bound
  <2>3. link'[x][y] # <<>> => conn'[y][x] # "none"
    BY <1>3 DEF Found, Bound
  <2>4. AllProper(x, y, link'[x][y])
    BY <1>3, <2>1 DEF Found, Bound
  <2>5. QED
    BY <2>2, <2>3, <2>4 DEF Bound
<1>6. ASSUME NEW r \in Capable, NEW x \in Node PROVE Greeted(x, r)'
  <2>1. r \in Node
    BY RoutingAssumption
  <2>2. QED
    BY <1>1, <1>3, <2>1 DEF Greeted, Found
<1>7. ASSUME NEW r \in Capable, NEW x \in Node, NEW k \in Node PROVE Told(x, r, k)'
  <2>1. r \in Node
    BY RoutingAssumption
  <2>2. QED
    BY <1>2, <1>3, <1>4, <2>1 DEF Told, Open, Found
<1>8. QED
  BY <1>1, <1>5, <1>6, <1>7 DEF Found

(* What RecvJoin sends.                                                     *)
LEMMA ListsAre ==
    ASSUME RouteTypes, NEW n \in Node, NEW m \in Node, n # m, NEW k \in Node
    PROVE  /\ k \in peers[n] \union {m} =>
                \E g \in Letter :
                   /\ Lists(n, m, k) = <<g>> /\ g.inner.type = "PeerList"
                   /\ g.src = n /\ g.target = k
                   /\ \A j : j \in peers[n] \union {m} <=> \E e \in g.inner.peers : e.peer = j
           /\ k \notin peers[n] \union {m} => Lists(n, m, k) = <<>>
<1> DEFINE p == PeerList(n, peers[n] \union {m})
           g == Say(n, k, p)
<1>1. CASE k \in peers[n] \union {m}
  <2>1. n # k
    BY <1>1 DEF RouteTypes
  <2>2. /\ p \in Inner /\ p.type = "PeerList"
        /\ \A j : j \in peers[n] \union {m} <=> \E e \in p.peers : e.peer = j
    <3> DEFINE ms == peers[n] \union {m}
    <3>1. ms \in SUBSET Node
      BY DEF RouteTypes
    <3> HIDE DEF ms
    <3>2. /\ PeerList(n, ms) \in Inner /\ PeerList(n, ms).type = "PeerList"
          /\ \A j : j \in ms <=> \E e \in PeerList(n, ms).peers : e.peer = j
      BY <3>1, ListIs
    <3>3. QED
      BY <3>2 DEF ms
  <2>3. Lists(n, m, k) = <<g>>
    BY <1>1 DEF Lists
  <2> HIDE DEF p
  <2>4. g \in Letter /\ g.inner = p /\ g.src = n /\ g.target = k
    <3>1. g \in Letter
      BY <2>1, <2>2, SaidIs
    <3>2. QED
      BY <3>1 DEF Say
  <2> HIDE DEF g
  <2>5. QED
    BY <1>1, <2>2, <2>3, <2>4
<1>2. CASE k \notin peers[n] \union {m}
  BY <1>2 DEF Lists
<1>3. QED
  BY <1>1, <1>2

(* A node reads what is at the head of a link, and its greetings are to it. *)
LEMMA HeadIs ==
    ASSUME RouteTypes, Found, NEW n \in Node, NEW m \in Node, link[m][n] # <<>>
    PROVE  /\ Reach(n, m) /\ Reach(m, n) /\ conn[n][m] # "none"
           /\ link[m][n] \in Seq(Letter)
           /\ Proper(m, n, Head(link[m][n]))
<1>1. Bound(m, n) /\ Bound(n, m)
  BY DEF Found
<1>2. link[m][n] \in Seq(Letter)
  BY DEF RouteTypes, Links
<1>3. conn[n][m] # "none" /\ Reach(n, m)
  BY <1>1 DEF Bound
<1>4. AllProper(m, n, link[m][n])
  BY <1>1 DEF Bound
<1>5. QED
  BY <1>2, <1>3, <1>4, ReachSym, Shortened

Sends(n, m, f, base, fs) ==
    /\ fs \in [Node -> Seq(Letter)]
    /\ Carries(n, {m}, fs)
    /\ \A y \in Node : AllProper(n, y, fs[y])
    /\ RecvJoin(n, m, f, base) => fs = [k \in Node |-> Lists(n, m, k)]

LEMMA SendsProper ==
    ASSUME RouteTypes, Found, NEW n \in Node, NEW m \in Node, n # m, link[m][n] # <<>>,
           NEW f \in Letter, f = Head(link[m][n]), NEW base, NoFewer(base), Handles(n, m, f, base)
    PROVE  \E fs : Sends(n, m, f, base, fs)
<1>0. Reach(n, m) /\ Proper(m, n, f)
  BY HeadIs
<1>1. CASE RecvJoin(n, m, f, base)
  <2> DEFINE fs == [k \in Node |-> Lists(n, m, k)]
  <2>1. Carries(n, {m}, fs)
    BY <1>1, JoinCarries
  <2>2. ASSUME NEW y \in Node PROVE fs[y] \in Seq(Letter) /\ AllProper(n, y, fs[y])
    <3>1. CASE y \notin peers[n] \union {m}
      <4>1. fs[y] = <<>>
        BY <3>1, ListsAre
      <4> HIDE DEF fs
      <4>2. QED
        BY <4>1 DEF AllProper
    <3>2. CASE y \in peers[n] \union {m}
      <4>1. PICK g \in Letter :
              /\ fs[y] = <<g>> /\ g.inner.type = "PeerList"
              /\ g.src = n /\ g.target = y
              /\ \A j : j \in peers[n] \union {m} <=> \E e \in g.inner.peers : e.peer = j
        BY <3>2, ListsAre
      <4> HIDE DEF fs
      <4>2. \A j \in peers[n] \union {m} : Reach(n, j)
        BY <1>0 DEF Found, Bound, RouteTypes
      <4>3. Proper(n, y, g)
        BY <4>1, <4>2 DEF Proper
      <4>4. Len(<<g>>) = 1 /\ <<g>>[1] = g /\ <<g>> \in Seq(Letter)
        OBVIOUS
      <4>5. QED
        BY <4>1, <4>3, <4>4 DEF AllProper
    <3>3. QED
      BY <3>1, <3>2
  <2>3. fs \in [Node -> Seq(Letter)]
    BY <2>2
  <2>4. Sends(n, m, f, base, fs)
    BY <2>1, <2>2, <2>3 DEF Sends
  <2>5. QED
    BY <2>4
<1>2. CASE ~RecvJoin(n, m, f, base)
  <2>1. PICK fs : /\ Carries(n, {m}, fs)
                  /\ fs \in Single(Plain) \/ (f.target # n /\ fs \in Single({f}))
    BY <1>2, HandleCarries
  <2>2. fs \in Single(Plain)
    <3>1. CASE f.target # n /\ fs \in Single({f})
      <4>1. f \in Plain
        BY <1>0, <3>1 DEF Proper, Plain
      <4>2. Single({f}) \subseteq Single(Plain)
        BY <4>1 DEF Single
      <4>3. QED
        BY <3>1, <4>2
    <3>2. QED
      BY <2>1, <3>1
  <2>3. Sends(n, m, f, base, fs)
    BY <1>2, <2>1, <2>2, PlainProper DEF Sends
  <2>4. QED
    BY <2>3
<1>3. QED
  BY <1>1, <1>2

(* What n's reading from m leaves of the links.                             *)
Reads(n, m) ==
    /\ link'[m][n] = Tail(link[m][n])
    /\ \A x, y \in Node : /\ AllProper(x, y, link'[x][y])
                          /\ link'[x][y] # <<>> => conn[y][x] # "none"
    /\ \A x, y \in Node : ~(x = m /\ y = n) =>
          /\ \A k : Tells(link[x][y], k) => Tells(link'[x][y], k)
          /\ Opening(link[x][y]) => Opening(link'[x][y])
          /\ Resuming(link[x][y]) => Resuming(link'[x][y])

LEMMA SendsReads ==
    ASSUME RouteTypes, Found, NEW n \in Node, NEW m \in Node, n # m, link[m][n] # <<>>,
           NEW f, NEW base, NEW fs, Sends(n, m, f, base, fs)
    PROVE  Reads(n, m)
<1> DEFINE T == {m}
<1>1. n \notin T /\ (\A x \in T : x \in Node => link[x][n] # <<>>)
  OBVIOUS
<1>2. /\ fs \in [Node -> Seq(Letter)] /\ Carries(n, T, fs)
      /\ \A y \in Node : AllProper(n, y, fs[y])
      /\ \A x, y \in Node : Bound(x, y)
  BY DEF Sends, Found
<1>3. link'[m][n] = Tail(link[m][n])
  BY <1>2 DEF Carries
<1>4. \A x : x = m <=> x \in T
  OBVIOUS
<1> HIDE DEF T
<1>5. /\ \A x, y \in Node : /\ AllProper(x, y, link'[x][y])
                            /\ link'[x][y] # <<>> => conn[y][x] # "none"
      /\ \A x, y \in Node : ~(x \in T /\ y = n) =>
            /\ \A k : Tells(link[x][y], k) => Tells(link'[x][y], k)
            /\ Opening(link[x][y]) => Opening(link'[x][y])
            /\ Resuming(link[x][y]) => Resuming(link'[x][y])
  BY <1>1, <1>2, CarriesKeeps
<1>6. QED
  BY <1>3, <1>4, <1>5 DEF Reads

LEMMA JoinFound ==
    ASSUME RouteTypes, Found, NEW n \in Node, NEW m \in Node, n # m, link[m][n] # <<>>,
           NEW f \in Letter, f = Head(link[m][n]), NEW base, NoFewer(base), RecvJoin(n, m, f, base),
           Handles(n, m, f, base)
    PROVE  Found'
<1>1. /\ conn' = [conn EXCEPT ![n][m] = "known"]
      /\ peers' = [peers EXCEPT ![n] = peers[n] \union {m}]
      /\ route' = [base EXCEPT ![n][m] = Direct]
      /\ UNCHANGED <<caps, dialing>> /\ f.inner.type = "Join"
  BY DEF RecvJoin
<1>2. PICK fs : Sends(n, m, f, base, fs)
  BY SendsProper
<1>3. Reads(n, m)
  BY <1>2, SendsReads
<1>4. /\ Reach(n, m) /\ conn[n][m] # "none" /\ link[m][n] \in Seq(Letter)
  BY HeadIs
<1>5. \A x, y \in Node : conn'[x][y] = IF x = n /\ y = m THEN "known" ELSE conn[x][y]
  BY <1>1 DEF RouteTypes
<1>6. \A x \in Node : peers'[x] = IF x = n THEN peers[n] \union {m} ELSE peers[x]
  BY <1>1 DEF RouteTypes
<1>7. NoFewer(route')
  <2>1. Direct \in Route /\ Direct # NoRoute
    BY Kinds
  <2>2. QED
    BY <1>1, <2>1, RerouteNoFewer
<1>8. \A x, y \in Node : conn'[x][y] = "none" <=> conn[x][y] = "none"
  BY <1>4, <1>5
<1>9. ASSUME NEW x \in Node, NEW y \in Node PROVE Bound(x, y)'
  <2>1. conn'[x][y] # "none" \/ y \in peers'[x] => Reach(x, y)
    BY <1>4, <1>6, <1>8 DEF Found, Bound
  <2>2. AllProper(x, y, link'[x][y]) /\ (link'[x][y] # <<>> => conn'[y][x] # "none")
    BY <1>3, <1>8 DEF Reads
  <2>3. QED
    BY <2>1, <2>2 DEF Bound
<1>10. ASSUME NEW r \in Capable, NEW x \in Node PROVE Greeted(x, r)'
  <2>1. r \in Node /\ Greeted(x, r)
    BY RoutingAssumption DEF Found
  <2>2. CASE x = n /\ r = m
    <3>1. conn'[x][r] = "known" /\ link'[r][x] = Tail(link[m][n])
      BY <1>3, <1>5, <2>2 DEF Reads
    <3>2. conn[n][m] = "new" \/ conn[n][m] = "known"
      BY <1>4 DEF RouteTypes
    <3>3. /\ Opening(link[m][n]) => Resuming(Tail(link[m][n]))
          /\ Resuming(link[m][n]) => f.inner.type = "PeerState"
      BY <1>4, Shortened
    <3>4. caps[n][m] \/ Resuming(Tail(link[m][n]))
      BY <1>1, <2>1, <2>2, <3>2, <3>3 DEF Greeted
    <3>5. QED
      BY <1>1, <2>2, <3>1, <3>4 DEF Greeted
  <2>3. CASE ~(x = n /\ r = m)
    <3>1. conn'[x][r] = conn[x][r]
      BY <1>5, <2>1, <2>3
    <3>2. /\ Opening(link[r][x]) => Opening(link'[r][x])
          /\ Resuming(link[r][x]) => Resuming(link'[r][x])
      BY <1>3, <2>1, <2>3 DEF Reads
    <3>3. QED
      BY <1>1, <2>1, <3>1, <3>2 DEF Greeted
  <2>4. QED
    BY <2>2, <2>3
<1>11. ASSUME NEW r \in Capable, NEW x \in Node, NEW k \in Node PROVE Told(x, r, k)'
  <2> SUFFICES ASSUME x # k, x \in peers'[r], k \in peers'[r], Open(x, r)', ~Reach(x, k)
               PROVE  route'[x][k] # NoRoute \/ Tells(link'[r][x], k)
    BY DEF Told
  <2>1. r \in Node /\ Told(x, r, k)
    BY RoutingAssumption DEF Found
  <2>2. Open(x, r)
    BY <1>8, <2>1 DEF Open
  <2>3. CASE r = n
    <3>1. x \in peers[n] \union {m} /\ k \in peers[n] \union {m}
      BY <1>6, <2>3
    <3>2. PICK g \in Letter :
            /\ Lists(n, m, x) = <<g>> /\ g.inner.type = "PeerList"
            /\ \A j : j \in peers[n] \union {m} <=> \E e \in g.inner.peers : e.peer = j
      BY <3>1, ListsAre
    <3>3. fs[x] = <<g>>
      BY <1>2, <3>2 DEF Sends
    <3>4. Open(n, x)
      BY <2>2, <2>3 DEF Open
    <3>5. link'[n][x] = link[n][x] \o <<g>>
      BY <1>2, <3>3, <3>4 DEF Sends, Carries
    <3>6. Tells(<<g>>, k)
      <4>1. Names(g, k)
        BY <3>1, <3>2 DEF Names
      <4>2. 1 \in 1..Len(<<g>>) /\ <<g>>[1] = g
        OBVIOUS
      <4>3. QED
        BY <4>1, <4>2 DEF Tells
    <3>7. link[n][x] \in Seq(Letter) /\ <<g>> \in Seq(Letter)
      BY DEF RouteTypes, Links
    <3>8. QED
      BY <2>3, <3>5, <3>6, <3>7, Appended
  <2>4. CASE r # n
    <3>1. x \in peers[r] /\ k \in peers[r]
      BY <1>6, <2>1, <2>4
    <3>2. route[x][k] # NoRoute \/ Tells(link[r][x], k)
      BY <2>1, <2>2, <3>1 DEF Told
    <3>3. route[x][k] # NoRoute => route'[x][k] # NoRoute
      BY <1>7 DEF NoFewer
    <3>4. CASE r = m /\ x = n
      <4>1. Tells(link[m][n], k) => Names(f, k) \/ Tells(Tail(link[m][n]), k)
        BY <1>4, Shortened
      <4>2. ~Names(f, k)
        BY <1>1 DEF Names
      <4>3. QED
        BY <1>3, <3>2, <3>3, <3>4, <4>1, <4>2 DEF Reads
    <3>5. CASE ~(r = m /\ x = n)
      BY <1>3, <2>1, <3>2, <3>3, <3>5 DEF Reads
    <3>6. QED
      BY <3>4, <3>5
  <2>5. QED
    BY <2>3, <2>4
<1>12. QED
  BY <1>1, <1>9, <1>10, <1>11 DEF Found

(* What else n makes of a frame f from m.                                   *)
Settles(n, m, f) ==
    /\ UNCHANGED <<conn, peers>>
    /\ NoFewer(route')
    /\ f.inner.type # "Join"
    /\ f.inner.type = "PeerState" /\ m \in Capable => caps'[n][m]
    /\ \A r \in Capable, x \in Node : conn[x][r] # "none" /\ caps[x][r] => caps'[x][r]
    /\ \A k \in Node \ {n} :
         Names(f, k) /\ CanRelay(n, m) /\ ~Reach(n, k) => route'[n][k] # NoRoute

LEMMA SettlesFound ==
    ASSUME RouteTypes, Found, NEW n \in Node, NEW m \in Node, n # m, link[m][n] # <<>>,
           NEW f \in Letter, f = Head(link[m][n]), Reads(n, m), Settles(n, m, f), UNCHANGED dialing
    PROVE  Found'
<1>1. UNCHANGED <<conn, peers>> /\ f.inner.type # "Join"
  BY DEF Settles
<1>2. conn[n][m] # "none" /\ link[m][n] \in Seq(Letter)
  BY HeadIs
<1>3. ~Opening(link[m][n]) /\ (Resuming(link[m][n]) => f.inner.type = "PeerState")
  BY <1>1, <1>2, Shortened
<1>4. \A r \in Capable, x \in Node : Greeted(x, r) /\ r \in Node
  BY RoutingAssumption DEF Found
<1>5. ASSUME NEW x \in Node, NEW y \in Node PROVE Bound(x, y)'
  BY <1>1 DEF Found, Bound, Reads
<1>6. ASSUME NEW r \in Capable, NEW x \in Node PROVE Greeted(x, r)'
  <2>1. Greeted(x, r) /\ r \in Node
    BY <1>4
  <2>2. conn[x][r] = "known" /\ caps[x][r] => caps'[x][r]
    BY DEF Settles
  <2>3. CASE x = n /\ r = m
    <3>1. conn[n][m] # "new"
      BY <1>3, <2>1, <2>3 DEF Greeted
    <3>2. Resuming(link[m][n]) => caps'[n][m]
      BY <1>3, <2>3 DEF Settles
    <3>3. QED
      BY <1>1, <2>1, <2>2, <2>3, <3>1, <3>2 DEF Greeted
  <2>4. CASE ~(x = n /\ r = m)
    <3>1. /\ Opening(link[r][x]) => Opening(link'[r][x])
          /\ Resuming(link[r][x]) => Resuming(link'[r][x])
      BY <2>1, <2>4 DEF Reads
    <3>2. QED
      BY <1>1, <2>1, <2>2, <3>1 DEF Greeted
  <2>5. QED
    BY <2>3, <2>4
<1>7. ASSUME NEW r \in Capable, NEW x \in Node, NEW k \in Node PROVE Told(x, r, k)'
  <2> SUFFICES ASSUME x # k, x \in peers[r], k \in peers[r], Open(x, r), ~Reach(x, k)
               PROVE  route'[x][k] # NoRoute \/ Tells(link'[r][x], k)
    BY <1>1 DEF Told, Open
  <2>1. r \in Node
    BY <1>4
  <2>2. route[x][k] # NoRoute \/ Tells(link[r][x], k)
    BY DEF Told, Found
  <2>3. route[x][k] # NoRoute => route'[x][k] # NoRoute
    BY DEF Settles, NoFewer
  <2>4. CASE r = m /\ x = n
    <3>1. Tells(link[m][n], k) => Names(f, k) \/ Tells(Tail(link[m][n]), k)
      BY <1>2, Shortened
    <3>2. ASSUME Names(f, k) PROVE route'[n][k] # NoRoute
      <4>1. f.inner.type = "PeerList"
        BY <3>2 DEF Names
      <4>2. conn[n][m] # "new" /\ ~Resuming(link[m][n])
        BY <1>3, <1>4, <2>4, <4>1 DEF Greeted
      <4>3. conn[n][m] = "known"
        BY <1>2, <4>2 DEF RouteTypes
      <4>4. CanRelay(n, m)
        BY <1>4, <2>4, <4>2, <4>3 DEF Greeted, CanRelay
      <4>5. QED
        BY <2>4, <3>2, <4>4 DEF Settles
    <3>3. QED
      BY <2>2, <2>3, <2>4, <3>1, <3>2 DEF Reads
  <2>5. CASE ~(r = m /\ x = n)
    BY <2>1, <2>2, <2>3, <2>5 DEF Reads
  <2>6. QED
    BY <2>4, <2>5
<1>8. QED
  BY <1>5, <1>6, <1>7 DEF Found

LEMMA ListSettles ==
    ASSUME TriangleFree, RouteTypes, Found, NEW n \in Node, NEW m \in Node, n # m, link[m][n] # <<>>,
           NEW f \in Letter, f = Head(link[m][n]), NEW base, NoFewer(base), UNCHANGED dialing,
           RecvPeerList(n, m, f, base)
    PROVE  Settles(n, m, f)
<1>1. PICK ok, failed : Learns(n, m, f, base, ok, failed)
  BY ListLearns
<1>2. ok = {}
  <2>1. dialing' = dialing \union ({n} \X ok) /\ dialing = {}
    BY <1>1 DEF Learns, Found
  <2>2. \A k \in ok : <<n, k>> \in {n} \X ok
    OBVIOUS
  <2>3. QED
    BY <2>1, <2>2
<1>3. /\ f.inner.type = "PeerList" /\ UNCHANGED <<conn, peers>>
      /\ failed = IF CanRelay(n, m) THEN Fresh(n, f) ELSE {}
  BY <1>1, <1>2 DEF Learns
<1>4. Reach(n, m) /\ Reach(m, n) /\ Proper(m, n, f)
  BY HeadIs
<1>5. \A e \in Listed(n, f) : e.peer \in Node \ {n} /\ Reach(m, e.peer)
  <2>1. \A e \in f.inner.peers : Reach(m, e.peer)
    BY <1>3, <1>4 DEF Proper, Greetings
  <2>2. \A e \in Listed(n, f) : e.peer \in Node \ {n}
    BY <1>3, EntriesAre
  <2>3. QED
    BY <2>1, <2>2 DEF Listed
<1>6. \A y \in Node : route'[n][y] = IF y \in failed /\ base[n][y].kind # "direct"
                                    THEN Relay(m) ELSE base[n][y]
  BY <1>1 DEF Learns, NoFewer
<1>7. \A x, y \in Node : x # n => route'[x][y] = base[x][y]
  BY <1>1 DEF Learns, NoFewer
<1>8. Relay(m) \in Route /\ Relay(m) # NoRoute /\ NoRoute.kind # "direct"
  BY Kinds
<1>9. NoFewer(route')
  <2>1. failed \subseteq Node \ {n}
    BY <1>1, EntriesAre DEF Learns
  <2>2. route' \in [Node -> [Node -> Route]]
    <3> DEFINE row == [k \in Node |-> IF k \in failed /\ base[n][k].kind # "direct"
                                     THEN Relay(m) ELSE base[n][k]]
    <3>1. row \in [Node -> Route]
      BY <1>8 DEF NoFewer
    <3>2. route' = [base EXCEPT ![n] = row]
      BY <1>1 DEF Learns
    <3> HIDE DEF row
    <3>3. QED
      BY <3>1, <3>2 DEF NoFewer
  <2>3. \A x \in Node : route'[x][x] = NoRoute
    BY <1>6, <1>7, <2>1 DEF NoFewer
  <2>4. \A x, y \in Node : route[x][y] # NoRoute => route'[x][y] # NoRoute
    BY <1>6, <1>7, <1>8 DEF NoFewer
  <2>5. QED
    BY <2>2, <2>3, <2>4 DEF NoFewer
<1>10. ASSUME NEW r \in Capable, NEW x \in Node, conn[x][r] # "none", caps[x][r] PROVE caps'[x][r]
  <2>1. r \in Node
    BY RoutingAssumption
  <2>2. caps' = [caps EXCEPT ![n] = [k \in Node |->
                    IF \E e \in Listed(n, f) : e.peer = k
                    THEN [peer |-> k, capable |-> TRUE] \in Listed(n, f) ELSE caps[n][k]]]
    BY <1>1 DEF Learns
  <2>3. CASE x = n
    <3>1. Reach(n, r)
      BY <1>10, <2>1, <2>3 DEF Found, Bound
    <3>2. ~\E e \in Listed(n, f) : e.peer = r
      <4> SUFFICES ASSUME Reach(m, r) PROVE FALSE
        BY <1>5
      <4>1. QED
        BY <1>4, <2>1, <3>1 DEF TriangleFree
    <3>3. caps'[n][r] = caps[n][r]
      BY <2>1, <2>2, <3>2 DEF RouteTypes
    <3>4. QED
      BY <1>10, <2>3, <3>3
  <2>4. CASE x # n
    <3>1. caps'[x] = caps[x]
      BY <2>2, <2>4 DEF RouteTypes
    <3>2. QED
      BY <1>10, <3>1
  <2>5. QED
    BY <2>3, <2>4
<1>11. ASSUME NEW k \in Node \ {n}, Names(f, k), CanRelay(n, m), ~Reach(n, k)
       PROVE  route'[n][k] # NoRoute
  <2>1. PICK e \in f.inner.peers : e.peer = k
    BY <1>11 DEF Names
  <2>2. e \in Listed(n, f)
    BY <2>1 DEF Listed
  <2>3. k \notin peers[n] /\ conn[n][k] = "none"
    BY <1>11 DEF Found, Bound
  <2>4. k \in Fresh(n, f)
    BY <2>1, <2>2, <2>3 DEF Fresh
  <2>5. k \in failed
    BY <1>3, <1>11, <2>4
  <2>6. route'[n][k] = IF base[n][k].kind # "direct" THEN Relay(m) ELSE base[n][k]
    BY <1>6, <2>5
  <2>7. QED
    BY <1>8, <2>6
<1>12. QED
  BY <1>3, <1>9, <1>10, <1>11 DEF Settles

LEMMA OtherSettles ==
    ASSUME RouteTypes, Found, NEW n \in Node, NEW m \in Node, n # m, link[m][n] # <<>>,
           NEW f \in Letter, f = Head(link[m][n]), NEW base, NoFewer(base),
           Handles(n, m, f, base), ~RecvJoin(n, m, f, base), ~RecvPeerList(n, m, f, base)
    PROVE  Settles(n, m, f)
<1>0. f.src \in Node /\ f.target \in Node /\ f.src # f.target
  BY DEF Letter, Frame
<1>1. Proper(m, n, f) /\ conn[n][m] # "none"
  BY HeadIs
<1>2. f.inner.type \in Greetings => f.src = m /\ RecvPeerState(n, m, f, base)
  BY <1>1 DEF Proper, Handles, Forward, RecvJoin, RecvPeerList, RecvRequest, RecvPong,
              RecvIceCheckAck, Greetings
<1>3. f.inner.type \in Greetings => f.inner.type = "PeerState"
  BY <1>2 DEF RecvPeerState
<1>4. UNCHANGED <<conn, peers>>
  BY DEF Handles, Forward, RecvPeerState, RecvRequest, RecvPong, RecvIceCheckAck
<1>5. NoFewer(route')
  <2>1. route' = base \/ (f.target = n /\ route' = [base EXCEPT ![n][f.src] = Direct])
    BY DEF Handles, Forward, RecvPeerState, RecvRequest, RecvPong, RecvIceCheckAck
  <2>2. Direct \in Route /\ Direct # NoRoute
    BY Kinds
  <2>3. f.target = n => NoFewer([base EXCEPT ![n][f.src] = Direct])
    BY <1>0, <2>2, RerouteNoFewer
  <2>4. QED
    BY <2>1, <2>3
<1>6. UNCHANGED caps \/ caps' = [caps EXCEPT ![n][f.src] = f.src \in Capable]
  BY DEF Handles, Forward, RecvPeerState, RecvRequest, RecvPong, RecvIceCheckAck
<1>7. ASSUME f.inner.type = "PeerState", m \in Capable PROVE caps'[n][m]
  <2>1. caps' = [caps EXCEPT ![n][m] = m \in Capable]
    BY <1>2, <1>7 DEF RecvPeerState, Greetings
  <2>2. caps'[n][m] = (m \in Capable)
    BY <2>1 DEF RouteTypes
  <2>3. QED
    BY <1>7, <2>2
<1>8. ASSUME NEW r \in Capable, NEW x \in Node, caps[x][r] PROVE caps'[x][r]
  <2>1. r \in Node
    BY RoutingAssumption
  <2>2. CASE UNCHANGED caps
    BY <1>8, <2>2
  <2>3. CASE caps' = [caps EXCEPT ![n][f.src] = f.src \in Capable]
    <3>1. CASE x = n /\ r = f.src
      <4>1. caps'[n][r] = (r \in Capable)
        BY <2>1, <2>3, <3>1 DEF RouteTypes
      <4>2. QED
        BY <3>1, <4>1
    <3>2. CASE ~(x = n /\ r = f.src)
      <4>1. caps'[x][r] = caps[x][r]
        BY <1>0, <2>1, <2>3, <3>2 DEF RouteTypes
      <4>2. QED
        BY <1>8, <4>1
    <3>3. QED
      BY <3>1, <3>2
  <2>4. QED
    BY <1>6, <2>2, <2>3
<1>9. \A k : ~Names(f, k)
  BY <1>3 DEF Names, Greetings
<1>10. f.inner.type # "Join"
  BY <1>3 DEF Greetings
<1>11. QED
  BY <1>4, <1>5, <1>7, <1>8, <1>9, <1>10 DEF Settles

LEMMA ReceiveFound ==
    ASSUME TriangleFree, RouteTypes, Found, NEW n \in Node, NEW m \in Node, Receive(n, m), ~punched'
    PROVE  Found'
<1>1. /\ n # m /\ link[m][n] # <<>> /\ UNCHANGED dialing
  BY ReceiveIs
<1>2. PICK f, base : /\ f = Head(link[m][n]) /\ f \in Letter
                     /\ NoFewer(base) /\ Handles(n, m, f, base)
  BY ReceiveIs
<1>3. CASE RecvJoin(n, m, f, base)
  BY <1>1, <1>2, <1>3, JoinFound
<1>4. CASE ~RecvJoin(n, m, f, base)
  <2>1. Settles(n, m, f)
    <3>1. CASE RecvPeerList(n, m, f, base)
      BY <1>1, <1>2, <3>1, ListSettles
    <3>2. CASE ~RecvPeerList(n, m, f, base)
      BY <1>1, <1>2, <1>4, <3>2, OtherSettles
    <3>3. QED
      BY <3>1, <3>2
  <2>2. PICK fs : Sends(n, m, f, base, fs)
    BY <1>1, <1>2, SendsProper
  <2>3. Reads(n, m)
    BY <1>1, <2>2, SendsReads
  <2>4. QED
    BY <1>1, <1>2, <2>1, <2>3, SettlesFound
<1>5. QED
  BY <1>3, <1>4

LEMMA PingFound ==
    ASSUME RouteTypes, Found, NEW n \in Node, NEW m \in Node, Ping(n, m)
    PROVE  Found'
<1>1. PICK fs \in Single(Plain) : Carries(n, {}, fs)
  BY PingCarries
<1>2. /\ fs \in [Node -> Seq(Letter)]
      /\ \A y \in Node : AllProper(n, y, fs[y])
  BY PlainProper
<1> DEFINE T == {}
<1>3. n \notin T /\ (\A x \in T : x \in Node => link[x][n] # <<>>) /\ \A x : x \notin T
  OBVIOUS
<1>4. Carries(n, T, fs) /\ \A x, y \in Node : Bound(x, y)
  BY <1>1 DEF Found
<1> HIDE DEF T
<1>5. /\ \A x, y \in Node : /\ AllProper(x, y, link'[x][y])
                            /\ link'[x][y] # <<>> => conn[y][x] # "none"
      /\ \A x, y \in Node : ~(x \in T /\ y = n) =>
            /\ \A k : Tells(link[x][y], k) => Tells(link'[x][y], k)
            /\ Opening(link[x][y]) => Opening(link'[x][y])
            /\ Resuming(link[x][y]) => Resuming(link'[x][y])
  BY <1>2, <1>3, <1>4, CarriesKeeps
<1>6. UNCHANGED <<conn, peers, caps, route, dialing>>
  BY DEF Ping, tables
<1>7. \A x, y \in Node : Bound(x, y)'
  BY <1>5, <1>6 DEF Found, Bound
<1>8. ASSUME NEW r \in Capable, NEW x \in Node
      PROVE  Greeted(x, r)' /\ \A k \in Node : Told(x, r, k)'
  <2>1. r \in Node
    BY RoutingAssumption
  <2>2. /\ \A k : Tells(link[r][x], k) => Tells(link'[r][x], k)
        /\ Opening(link[r][x]) => Opening(link'[r][x])
        /\ Resuming(link[r][x]) => Resuming(link'[r][x])
    BY <1>3, <1>5, <2>1
  <2>3. Greeted(x, r)'
    BY <1>6, <2>2 DEF Found, Greeted
  <2>4. ASSUME NEW k \in Node PROVE Told(x, r, k)'
    BY <1>6, <2>2 DEF Found, Told, Open
  <2>5. QED
    BY <2>3, <2>4
<1>9. QED
  BY <1>6, <1>7, <1>8 DEF Found

LEMMA ScaleFound ==
    ASSUME RouteTypes, Found, NEW n \in Node,
           \/ ScaleBegin(n) \/ ScaleEnd(n) \/ \E m \in Node : ScaleStep(n, m)
    PROVE  Found'
<1>1. /\ NoFewer(route')
      /\ UNCHANGED <<conn, peers, caps, link, dialing>>
  BY ScaleTypes
<1>2. \A x, y \in Node : Bound(x, y)'
  BY <1>1 DEF Found, Bound
<1>3. \A r \in Capable, x \in Node : Greeted(x, r)'
  BY <1>1 DEF Found, Greeted
<1>4. ASSUME NEW r \in Capable, NEW x \in Node, NEW k \in Node PROVE Told(x, r, k)'
  <2>1. Told(x, r, k)
    BY DEF Found
  <2>2. route[x][k] # NoRoute => route'[x][k] # NoRoute
    BY <1>1 DEF NoFewer
  <2>3. QED
    BY <1>1, <2>1, <2>2 DEF Told, Open
<1>5. QED
  BY <1>1, <1>2, <1>3, <1>4 DEF Found

LEMMA FoundStep ==
    ASSUME TriangleFree, RouteTypes, FoundInv, [PeersNext]_peersVars
    PROVE  FoundInv'
<1>1. CASE UNCHANGED vars
  BY <1>1 DEF vars, tables, FoundInv, Found, Bound, Greeted, Told, Open
<1>2. CASE Next
  <2> SUFFICES ASSUME ~punched' PROVE Found'
    BY DEF FoundInv
  <2>1. ASSUME NEW n \in Node, NEW m \in Node, Dial(n, m), ~punched PROVE Found'
    <3>1. Reach(n, m) /\ Install(n, m) /\ UNCHANGED dialing
      BY <2>1 DEF Dial, Reach
    <3>2. n # m
      BY <3>1, ReachApart
    <3>3. QED
      BY <2>1, <3>1, <3>2, InstallFound DEF FoundInv
  <2>2. ASSUME NEW n \in Node, NEW m \in Node, Finish(n, m), ~punched PROVE FALSE
    BY <2>2 DEF Finish, FoundInv, Found
  <2>3. ASSUME NEW n \in Node, NEW m \in Node, Disconnect(n, m), ~punched PROVE Found'
    BY <2>3, DisconnectFound DEF FoundInv
  <2>4. ASSUME NEW n \in Node, NEW m \in Node, Receive(n, m), ~punched PROVE Found'
    BY <1>2, <2>4, ReceiveFound DEF FoundInv
  <2>5. ASSUME NEW n \in Node, NEW m \in Node, Ping(n, m), ~punched PROVE Found'
    BY <2>5, PingFound DEF FoundInv
  <2>6. ASSUME NEW n \in Node, NEW m \in Node, AutoUpgrade(n, m) \/ CandidateCheck(n, m)
        PROVE  FALSE
    BY <2>6 DEF AutoUpgrade, CandidateCheck
  <2>7. ASSUME NEW n \in Node, ~punched,
               \/ ScaleBegin(n) \/ ScaleEnd(n) \/ \E m \in Node : ScaleStep(n, m)
        PROVE  Found'
    BY <2>7, ScaleFound DEF FoundInv
  <2>8. ~punched
    <3>1. CASE punched
      <4>1. ASSUME NEW n \in Node, NEW m \in Node, Receive(n, m) PROVE punched'
        BY <3>1, <4>1, ReceiveIs
      <4>2. ASSUME NEW n \in Node,
                   \/ ScaleBegin(n) \/ ScaleEnd(n) \/ \E m \in Node : ScaleStep(n, m)
            PROVE  punched'
        BY <3>1, <4>2 DEF ScaleBegin, ScaleEnd, ScaleStep
      <4>3. ASSUME NEW n \in Node, NEW m \in Node,
                   \/ Dial(n, m) \/ Finish(n, m) \/ Disconnect(n, m) \/ Ping(n, m)
            PROVE  punched'
        BY <3>1, <4>3 DEF Dial, Finish, Disconnect, Ping
      <4>4. QED
        BY <1>2, <2>6, <4>1, <4>2, <4>3 DEF Next
    <3>2. QED
      BY <3>1
  <2>9. QED
    BY <1>2, <2>1, <2>2, <2>3, <2>4, <2>5, <2>6, <2>7, <2>8 DEF Next
<1>3. QED
  BY <1>1, <1>2 DEF PeersNext, peersVars

LEMMA FoundLeads ==
    ASSUME TriangleFree, RouteTypes, FoundInv PROVE RelayIsFound
<1> SUFFICES ASSUME Quiet, ~punched, NEW r \in Capable,
                    NEW n \in Node \ {r}, NEW m \in Node \ {r},
                    n # m, Linked(n, r), Linked(m, r)
             PROVE  route[n][m] # NoRoute
  BY DEF RelayIsFound
<1>1. r \in Node /\ Found
  BY RoutingAssumption DEF FoundInv
<1>2. Open(n, r) /\ n \in peers[r] /\ m \in peers[r]
  BY DEF Linked, Open
<1>3. Reach(r, n) /\ Reach(r, m)
  BY <1>1, <1>2 DEF Found, Bound
<1>4. ~Reach(n, m)
  BY <1>1, <1>3 DEF TriangleFree
<1>5. link[r][n] = <<>>
  BY <1>1 DEF Quiet
<1>6. ~Tells(link[r][n], m)
  BY <1>5 DEF Tells
<1>7. Told(n, r, m)
  BY <1>1 DEF Found
<1>8. QED
  BY <1>2, <1>4, <1>6, <1>7 DEF Told

(* Among nodes of which no three reach one another, two peers of one relay  *)
(* that are linked to it end with routes to each other, whatever the order  *)
(* in which the Join, PeerState and PeerList frames of the three are read,  *)
(* and through disconnects, new sessions and spawn_scaling.                 *)
THEOREM RelaysAreFound == ASSUME TriangleFree PROVE PeersSpec => []RelayIsFound
<1>1. PeersInit => RouteTypes /\ FoundInv
  BY InitTypes, FoundStart
<1>2. RouteTypes /\ FoundInv /\ [PeersNext]_peersVars => RouteTypes' /\ FoundInv'
  BY TypesStep, FoundStep
<1>3. RouteTypes /\ FoundInv => RelayIsFound
  BY FoundLeads
<1>4. QED
  BY <1>1, <1>2, <1>3, PTL DEF PeersSpec

-----------------------------------------------------------------------------
(* LookupsCanEnd.  A lookup is known by its number, and the queries of a    *)
(* lookup carry it.                                                         *)

Key == {ChannelKey} \union {PeerRecordKeyFromPeer(n) : n \in Swarm}

DhtTables ==
    /\ swarms \in Nat /\ swarms <= MaxSwarms
    /\ swarm \in [Device -> Swarm \union {0}]
    /\ providers \subseteq Swarm
    /\ published \subseteq Device
    /\ asked \in Nat
    /\ queries \subseteq [by : Device, ask : 1..asked, key : Key]
    /\ IsFiniteSet(queries)
    /\ lookups \subseteq [by : Device, ask : 1..asked, pending : Nat, results : SUBSET Key,
                          published : SUBSET Device, well : BOOLEAN]
    /\ \A k, l \in lookups : k.ask = l.ask => k = l

(* LookupsCanEnd for one lookup, its queries being qs.                      *)
CanEnd(l, qs) ==
    \/ /\ l.pending = 0
       /\ \E q \in qs : q.key = ChannelKey /\ qs = {q}
    \/ /\ l.pending = Cardinality(qs) /\ l.pending > 0
       /\ \A q \in qs : q.key # ChannelKey

HasLookup(q, ls) == \E l \in ls : l.ask = q.ask /\ l.by = q.by

LookupInv ==
    /\ DhtTables
    /\ \A l \in lookups : CanEnd(l, Awaited(l))
    /\ \A q \in queries : HasLookup(q, lookups)

LEMMA LookupInvEnds == LookupInv => LookupsCanEnd
<1> SUFFICES ASSUME LookupInv PROVE LookupsCanEnd
  OBVIOUS
<1>1. ASSUME NEW l \in lookups
      PROVE  \/ /\ l.pending = 0
                /\ \E q \in queries : q.key = ChannelKey /\ Awaited(l) = {q}
             \/ /\ l.pending = Cardinality(Awaited(l)) /\ l.pending > 0
                /\ \A q \in Awaited(l) : q.key # ChannelKey
  <2>1. CanEnd(l, Awaited(l)) /\ Awaited(l) \subseteq queries
    BY DEF LookupInv, Awaited
  <2> DEFINE qs == Awaited(l)
  <2> HIDE DEF qs
  <2>2. CanEnd(l, qs) /\ qs \subseteq queries
    BY <2>1 DEF qs
  <2>3. \/ /\ l.pending = 0
           /\ \E q \in queries : q.key = ChannelKey /\ qs = {q}
        \/ /\ l.pending = Cardinality(qs) /\ l.pending > 0
           /\ \A q \in qs : q.key # ChannelKey
    BY <2>2 DEF CanEnd
  <2>4. QED
    BY <2>3 DEF qs
<1>2. \A q \in queries : \E l \in lookups : l.ask = q.ask /\ l.by = q.by
  BY DEF LookupInv, HasLookup
<1>3. QED
  BY <1>1, <1>2 DEF LookupsCanEnd

LEMMA LookupInit == PeersInit => LookupInv
<1> SUFFICES ASSUME PeersInit PROVE LookupInv
  OBVIOUS
<1>1. /\ swarm = [d \in Device |-> 0]
      /\ providers = {} /\ queries = {} /\ lookups = {} /\ published = {}
      /\ swarms = 0 /\ asked = 0
  BY DEF PeersInit, DhtInit
<1>2. IsFiniteSet(queries)
  BY <1>1, FS_EmptySet
<1>3. DhtTables
  BY <1>1, <1>2, DhtAssumption DEF DhtTables
<1>4. QED
  BY <1>1, <1>3 DEF LookupInv

LEMMA LookupsKept ==
    ASSUME LookupInv, UNCHANGED <<queries, lookups, asked>>,
           swarms' \in Nat, swarms' <= MaxSwarms,
           swarm' \in [Device -> Swarm \union {0}],
           providers' \subseteq Swarm, published' \subseteq Device
    PROVE  LookupInv'
<1>1. DhtTables'
  BY DEF LookupInv, DhtTables
<1>2. \A l \in lookups : Awaited(l)' = Awaited(l)
  BY DEF Awaited
<1>3. QED
  BY <1>1, <1>2 DEF LookupInv

LEMMA AskerIs ==
    ASSUME LookupInv, NEW q \in queries
    PROVE  /\ Asker(q) \in lookups
           /\ Asker(q).ask = q.ask /\ Asker(q).by = q.by
           /\ q \in Awaited(Asker(q))
<1>1. PICK l \in lookups : l.ask = q.ask /\ l.by = q.by
  BY DEF LookupInv, HasLookup
<1>2. Asker(q) \in lookups /\ Asker(q).ask = q.ask
  BY <1>1 DEF Asker
<1>3. Asker(q) = l
  BY <1>1, <1>2 DEF LookupInv, DhtTables
<1>4. QED
  BY <1>1, <1>2, <1>3 DEF Awaited

(* What is left to do: l has got qs to wait for instead of q, of which      *)
(* pending counts all, and goes if there are none.                          *)
LEMMA Progressed ==
    ASSUME LookupInv,
           UNCHANGED <<swarm, providers, published, swarms, asked>>,
           NEW q \in queries, NEW l \in lookups, l.ask = q.ask, l.by = q.by,
           NEW more \in SUBSET [by : {q.by}, ask : {q.ask}, key : Key], IsFiniteSet(more),
           queries' = (queries \ {q}) \union more,
           NEW qs, qs = (Awaited(l) \ {q}) \union more, \A x \in qs : x.key # ChannelKey,
           NEW as \in [by : {l.by}, ask : {l.ask}, pending : Nat, results : SUBSET Key,
                       published : SUBSET Device, well : BOOLEAN],
           as.pending = Cardinality(qs),
           lookups' = (lookups \ {l}) \union (IF as.pending = 0 THEN {} ELSE {as})
    PROVE  LookupInv'
<1>0. DhtTables
  BY DEF LookupInv
<1>1. q.by \in Device /\ q.ask \in 1..asked /\ asked \in Nat
  BY <1>0 DEF DhtTables
<1>2. queries' \subseteq [by : Device, ask : 1..asked, key : Key]
  BY <1>0, <1>1 DEF DhtTables
<1>3. IsFiniteSet(queries')
  <2>1. IsFiniteSet(queries \ {q})
    BY <1>0, FS_RemoveElement DEF DhtTables
  <2>2. QED
    BY <2>1, FS_Union
<1>4. as.ask = l.ask /\ as.by = l.by /\ as.pending \in Nat
  OBVIOUS
<1>5. as \in [by : Device, ask : 1..asked, pending : Nat, results : SUBSET Key,
              published : SUBSET Device, well : BOOLEAN]
  BY <1>1
<1>6. lookups' \subseteq [by : Device, ask : 1..asked, pending : Nat, results : SUBSET Key,
                          published : SUBSET Device, well : BOOLEAN]
  BY <1>0, <1>5 DEF DhtTables
<1>7. \A k \in lookups : k.ask = l.ask => k = l
  BY <1>0 DEF DhtTables
<1>8. \A j, k \in lookups' : j.ask = k.ask => j = k
  BY <1>0, <1>4, <1>7 DEF DhtTables
<1>9. DhtTables'
  BY <1>0, <1>2, <1>3, <1>6, <1>8 DEF DhtTables
<1>10. Awaited(l)' = qs
  <2>1. \A x \in more : x.ask = l.ask
    OBVIOUS
  <2>2. Awaited(l)' = {x \in (queries \ {q}) \union more : x.ask = l.ask}
    BY DEF Awaited
  <2>3. QED
    BY <2>1, <2>2 DEF Awaited
<1>11. ASSUME NEW k \in lookups, k # l PROVE Awaited(k)' = Awaited(k)
  <2>1. k.ask # l.ask
    BY <1>7, <1>11
  <2>2. q.ask # k.ask /\ \A x \in more : x.ask # k.ask
    BY <2>1
  <2>3. Awaited(k)' = {x \in (queries \ {q}) \union more : x.ask = k.ask}
    BY DEF Awaited
  <2>4. QED
    BY <2>2, <2>3 DEF Awaited
<1>12. \A k \in lookups : k # l => CanEnd(k, Awaited(k)')
  BY <1>11 DEF LookupInv
<1>13. as.pending # 0 => CanEnd(as, Awaited(as)')
  <2>1. Awaited(as)' = qs
    BY <1>4, <1>10 DEF Awaited
  <2>2. as.pending # 0 => CanEnd(as, qs)
    BY <1>4 DEF CanEnd
  <2>3. QED
    BY <2>1, <2>2
<1>14. \A k \in lookups' : CanEnd(k, Awaited(k)')
  BY <1>12, <1>13
<1>15. as.pending = 0 => qs = {}
  <2>1. IsFiniteSet(qs)
    <3>1. Awaited(l)' \subseteq queries'
      BY DEF Awaited
    <3>2. QED
      BY <1>3, <1>10, <3>1, FS_Subset
  <2>2. QED
    BY <2>1, FS_EmptySet
<1>16. ASSUME NEW x \in queries' PROVE HasLookup(x, lookups')
  <2>1. CASE x.ask = l.ask
    <3>1. x \in qs
      BY <1>10, <2>1 DEF Awaited
    <3>2. as \in lookups'
      BY <1>15, <3>1
    <3>3. x.by = l.by
      <4>1. CASE x \in more
        BY <4>1
      <4>2. CASE x \in queries
        <5>1. PICK k \in lookups : k.ask = x.ask /\ k.by = x.by
          BY <4>2 DEF LookupInv, HasLookup
        <5>2. QED
          BY <1>7, <2>1, <5>1
      <4>3. QED
        BY <1>16, <4>1, <4>2
    <3>4. QED
      BY <1>4, <2>1, <3>2, <3>3 DEF HasLookup
  <2>2. CASE x.ask # l.ask
    <3>1. x \in queries
      BY <1>16, <2>2
    <3>2. PICK k \in lookups : k.ask = x.ask /\ k.by = x.by
      BY <3>1 DEF LookupInv, HasLookup
    <3>3. k \in lookups'
      BY <2>2, <3>2
    <3>4. QED
      BY <3>2, <3>3 DEF HasLookup
  <2>3. QED
    BY <2>1, <2>2
<1>17. QED
  BY <1>9, <1>14, <1>16 DEF LookupInv

(* The records in hand.                                                     *)
LEMMA AskerTypes ==
    ASSUME LookupInv, NEW q \in queries, NEW l \in lookups
    PROVE  /\ q \in [by : Device, ask : 1..asked, key : Key]
           /\ l \in [by : Device, ask : 1..asked, pending : Nat, results : SUBSET Key,
                     published : SUBSET Device, well : BOOLEAN]
           /\ IsFiniteSet(Awaited(l))
<1>1. Awaited(l) \subseteq queries
  BY DEF Awaited
<1>2. IsFiniteSet(Awaited(l))
  BY <1>1, FS_Subset DEF LookupInv, DhtTables
<1>3. QED
  BY <1>2 DEF LookupInv, DhtTables

LEMMA QuitLookups ==
    ASSUME LookupInv, NEW d \in Device, Quit(d)
    PROVE  LookupInv'
<1>0. DhtTables
  BY DEF LookupInv
<1>1. /\ swarm' = [swarm EXCEPT ![d] = 0]
      /\ queries' = {q \in queries : q.by # d}
      /\ lookups' = {l \in lookups : l.by # d}
      /\ published' = published \ {d}
      /\ UNCHANGED <<providers, swarms, asked>>
  BY DEF Quit
<1>2. IsFiniteSet(queries')
  BY <1>0, <1>1, FS_Subset DEF DhtTables
<1>3. swarm' \in [Device -> Swarm \union {0}]
  BY <1>0, <1>1 DEF DhtTables
<1>4. DhtTables'
  BY <1>0, <1>1, <1>2, <1>3 DEF DhtTables
<1>5. ASSUME NEW l \in lookups' PROVE CanEnd(l, Awaited(l)')
  <2>1. l \in lookups /\ l.by # d
    BY <1>1
  <2>2. \A q \in Awaited(l) : q.by = l.by
    <3> SUFFICES ASSUME NEW q \in queries, q.ask = l.ask PROVE q.by = l.by
      BY DEF Awaited
    <3>1. PICK k \in lookups : k.ask = q.ask /\ k.by = q.by
      BY DEF LookupInv, HasLookup
    <3>2. QED
      BY <1>0, <2>1, <3>1 DEF DhtTables
  <2>3. Awaited(l)' = Awaited(l)
    BY <1>1, <2>1, <2>2 DEF Awaited
  <2>4. QED
    BY <2>1, <2>3 DEF LookupInv
<1>6. ASSUME NEW q \in queries' PROVE HasLookup(q, lookups')
  <2>1. q \in queries /\ q.by # d
    BY <1>1
  <2>2. QED
    BY <1>1, <2>1 DEF LookupInv, HasLookup
<1>7. QED
  BY <1>4, <1>5, <1>6 DEF LookupInv

(* The number of a new lookup is not taken.                                 *)
LEMMA LookupLookups ==
    ASSUME LookupInv, NEW d \in Device, Lookup(d)
    PROVE  LookupInv'
<1> DEFINE new == [by |-> d, ask |-> asked + 1, key |-> ChannelKey]
           own == [by |-> d, ask |-> asked + 1, pending |-> 0, results |-> {},
                   published |-> published \ {d}, well |-> TRUE]
<1>0. DhtTables
  BY DEF LookupInv
<1>1. /\ asked' = asked + 1
      /\ queries' = queries \union {new}
      /\ lookups' = lookups \union {own}
      /\ UNCHANGED <<swarm, providers, published, swarms>>
  BY DEF Lookup
<1>2. asked \in Nat /\ published \subseteq Device /\ ChannelKey \in Key
  BY <1>0 DEF DhtTables, Key
<1>3. asked' \in Nat /\ asked + 1 \in 1..asked' /\ 1..asked \subseteq 1..asked'
  BY <1>1, <1>2
<1>4. new \in [by : Device, ask : 1..asked', key : Key]
  BY <1>2, <1>3
<1>5. own \in [by : Device, ask : 1..asked', pending : Nat, results : SUBSET Key,
               published : SUBSET Device, well : BOOLEAN]
  BY <1>2, <1>3
<1>6. new.ask = asked + 1 /\ new.by = d /\ new.key = ChannelKey
  OBVIOUS
<1>7. own.ask = asked + 1 /\ own.by = d /\ own.pending = 0
  OBVIOUS
<1> HIDE DEF new, own
<1>20. PICK first, l0 : first = new /\ l0 = own
  OBVIOUS
<1>8. IsFiniteSet(queries')
  BY <1>0, <1>1, FS_AddElement DEF DhtTables
<1>9. queries' \subseteq [by : Device, ask : 1..asked', key : Key]
  BY <1>0, <1>1, <1>3, <1>4 DEF DhtTables
<1>10. lookups' \subseteq [by : Device, ask : 1..asked', pending : Nat, results : SUBSET Key,
                           published : SUBSET Device, well : BOOLEAN]
  BY <1>0, <1>1, <1>3, <1>5 DEF DhtTables
<1>11. /\ \A l \in lookups : l.ask # asked + 1
       /\ \A q \in queries : q.ask # asked + 1
  <2>1. \A n \in 1..asked : n # asked + 1
    BY <1>2
  <2>2. QED
    BY <1>0, <2>1 DEF DhtTables
<1>12. \A k, l \in lookups' : k.ask = l.ask => k = l
  BY <1>0, <1>1, <1>7, <1>11 DEF DhtTables
<1>13. DhtTables'
  BY <1>0, <1>1, <1>3, <1>8, <1>9, <1>10, <1>12 DEF DhtTables
<1>14. \A l \in lookups : Awaited(l)' = Awaited(l)
  BY <1>1, <1>6, <1>11 DEF Awaited
<1>15. Awaited(l0)' = {first}
  BY <1>1, <1>6, <1>7, <1>11, <1>20 DEF Awaited
<1>16. CanEnd(l0, {first})
  BY <1>6, <1>7, <1>20 DEF CanEnd
<1>17. \A l \in lookups' : CanEnd(l, Awaited(l)')
  BY <1>1, <1>14, <1>15, <1>16, <1>20 DEF LookupInv
<1>18. \A q \in queries' : HasLookup(q, lookups')
  BY <1>1, <1>6, <1>7 DEF LookupInv, HasLookup
<1>19. QED
  BY <1>13, <1>17, <1>18 DEF LookupInv

(* Each provider gets a query of its own.                                   *)
LEMMA Questions ==
    ASSUME NEW q \in [by : Device, ask : 1..asked, key : Key], NEW found, IsFiniteSet(found)
    PROVE  LET more == {[q EXCEPT !.key = PeerRecordKeyFromPeer(n)] : n \in found}
           IN  IsFiniteSet(more) /\ Cardinality(more) = Cardinality(found)
<1> DEFINE ask(n) == [q EXCEPT !.key = PeerRecordKeyFromPeer(n)]
           more == {ask(n) : n \in found}
           f == [n \in found |-> ask(n)]
<1>1. \A n, k : ask(n) = ask(k) => n = k
  <2> SUFFICES ASSUME NEW n, NEW k, ask(n) = ask(k) PROVE n = k
    OBVIOUS
  <2>1. ask(n).key = PeerRecordKeyFromPeer(n) /\ ask(k).key = PeerRecordKeyFromPeer(k)
    OBVIOUS
  <2>2. PeerRecordKeyFromPeer(n).id = n /\ PeerRecordKeyFromPeer(k).id = k
    BY DEF PeerRecordKeyFromPeer
  <2>3. QED
    BY <2>1, <2>2
<1> HIDE DEF ask
<1>2. f \in Surjection(found, more)
  BY DEF Surjection
<1>3. f \in Injection(found, more)
  BY <1>1 DEF Injection, IsInjective
<1> HIDE DEF f
<1>4. IsFiniteSet(more) /\ Cardinality(more) = Cardinality(found)
  BY <1>2, <1>3, FS_Surjection
<1>5. QED
  BY <1>4 DEF ask

LEMMA FoundLookups ==
    ASSUME LookupInv, NEW q \in queries, FoundProviders(q)
    PROVE  LookupInv'
<1>0. DhtTables
  BY DEF LookupInv
<1>1. PICK l \in lookups : l = Asker(q) /\ l.ask = q.ask /\ l.by = q.by /\ q \in Awaited(l)
  BY AskerIs
<1>2. /\ q \in [by : Device, ask : 1..asked, key : Key]
      /\ l \in [by : Device, ask : 1..asked, pending : Nat, results : SUBSET Key,
                published : SUBSET Device, well : BOOLEAN]
  BY AskerTypes
<1>3. q.key = ChannelKey /\ UNCHANGED <<swarm, providers, published, swarms, asked>>
  BY DEF FoundProviders
<1>4. PICK found \in SUBSET providers, all \in BOOLEAN :
        /\ queries' = (queries \ {q}) \union
                        {[q EXCEPT !.key = PeerRecordKeyFromPeer(n)] : n \in found}
        /\ Progress(l, [l EXCEPT !.pending = Cardinality(found), !.well = all], {})
  BY <1>1, Zenon DEF FoundProviders
<1>5. IsFiniteSet(found)
  <2>1. found \subseteq 1..MaxSwarms
    BY <1>0, <1>4 DEF DhtTables, Swarm
  <2>2. MaxSwarms \in Int
    BY DhtAssumption
  <2>3. IsFiniteSet(1..MaxSwarms)
    BY <2>2, FS_Interval
  <2>4. QED
    BY <2>1, <2>3, FS_Subset
<1>6. Cardinality(found) \in Nat
  BY <1>5, FS_CardinalityType
<1> DEFINE more == {[q EXCEPT !.key = PeerRecordKeyFromPeer(n)] : n \in found}
           as == [l EXCEPT !.pending = Cardinality(found), !.well = all]
<1>7. IsFiniteSet(more) /\ Cardinality(more) = Cardinality(found)
  BY <1>2, <1>5, Questions
<1>8. more \subseteq [by : {q.by}, ask : {q.ask}, key : Key] /\ \A x \in more : x.key # ChannelKey
  <2>1. \A n \in found : PeerRecordKeyFromPeer(n) \in Key /\ PeerRecordKeyFromPeer(n) # ChannelKey
    <3>1. found \subseteq Swarm
      BY <1>0, <1>4 DEF DhtTables
    <3>2. \A n : PeerRecordKeyFromPeer(n).of = "libp2p peer" /\ ChannelKey.of = "channel"
      BY DEF PeerRecordKeyFromPeer, ChannelKey
    <3>3. QED
      BY <3>1, <3>2 DEF Key
  <2>2. QED
    BY <1>2, <2>1
<1>9. /\ as \in [by : {l.by}, ask : {l.ask}, pending : Nat, results : SUBSET Key,
                 published : SUBSET Device, well : BOOLEAN]
      /\ as.pending = Cardinality(found)
  BY <1>2, <1>4, <1>6
<1>10. Awaited(l) = {q}
  BY <1>1, <1>3 DEF LookupInv, CanEnd
<1>11. lookups' = (lookups \ {l}) \union (IF as.pending = 0 THEN {} ELSE {as})
  BY <1>4 DEF Progress
<1>12. queries' = (queries \ {q}) \union more
  BY <1>4
<1> HIDE DEF more, as
<1>13. more = (Awaited(l) \ {q}) \union more
  BY <1>10
<1>14. PICK new \in [by : {l.by}, ask : {l.ask}, pending : Nat, results : SUBSET Key,
                     published : SUBSET Device, well : BOOLEAN] : new = as
  BY <1>9
<1>15. PICK ms \in SUBSET [by : {q.by}, ask : {q.ask}, key : Key] : ms = more
  BY <1>8
<1>16. IsFiniteSet(ms) /\ new.pending = Cardinality(ms) /\ \A x \in ms : x.key # ChannelKey
  BY <1>7, <1>8, <1>9, <1>14, <1>15
<1>17. queries' = (queries \ {q}) \union ms /\ ms = (Awaited(l) \ {q}) \union ms
  BY <1>12, <1>13, <1>15
<1>18. lookups' = (lookups \ {l}) \union (IF new.pending = 0 THEN {} ELSE {new})
  BY <1>11, <1>14
<1>19. QED
  BY <1>1, <1>3, <1>16, <1>17, <1>18, Progressed

LEMMA EndedLookups ==
    ASSUME LookupInv, NEW q \in queries, NoProviders(q) \/ GetRecordEnds(q) \/ GetRecordFails(q)
    PROVE  LookupInv'
<1>0. DhtTables
  BY DEF LookupInv
<1>1. PICK l \in lookups : l = Asker(q) /\ l.ask = q.ask /\ l.by = q.by /\ q \in Awaited(l)
  BY AskerIs
<1>2. /\ q \in [by : Device, ask : 1..asked, key : Key]
      /\ l \in [by : Device, ask : 1..asked, pending : Nat, results : SUBSET Key,
                published : SUBSET Device, well : BOOLEAN]
      /\ IsFiniteSet(Awaited(l))
  BY AskerTypes
<1>3. UNCHANGED <<swarm, providers, published, swarms, asked>>
  BY DEF NoProviders, GetRecordEnds, GetRecordFails
<1>4. queries' = (queries \ {q}) \union {}
  BY DEF NoProviders, GetRecordEnds, GetRecordFails
<1> DEFINE qs == (Awaited(l) \ {q}) \union {}
<1>5. IsFiniteSet(qs) /\ Cardinality(qs) = Cardinality(Awaited(l)) - 1
      /\ Cardinality(Awaited(l)) \in Nat
  BY <1>1, <1>2, FS_RemoveElement, FS_CardinalityType
<1>6. CASE q.key = ChannelKey
  <2>1. l.pending = 0 /\ Awaited(l) = {q}
    BY <1>1, <1>6 DEF LookupInv, CanEnd
  <2>2. Progress(l, [l EXCEPT !.well = FALSE], {})
    BY <1>1, <1>6 DEF NoProviders, GetRecordEnds, GetRecordFails
  <2>12. [l EXCEPT !.well = FALSE] \in [by : {l.by}, ask : {l.ask}, pending : Nat,
             results : SUBSET Key, published : SUBSET Device, well : BOOLEAN]
    BY <1>2
  <2>13. [l EXCEPT !.well = FALSE].pending = 0
    BY <1>2, <2>1
  <2>3. PICK as \in [by : {l.by}, ask : {l.ask}, pending : Nat, results : SUBSET Key,
                     published : SUBSET Device, well : BOOLEAN] :
          as = [l EXCEPT !.well = FALSE] /\ as.pending = 0
    BY <2>12, <2>13
  <2>4. lookups' = (lookups \ {l}) \union (IF as.pending = 0 THEN {} ELSE {as})
    BY <2>2, <2>3 DEF Progress
  <2>5. qs = {} /\ Cardinality(qs) = 0
    BY <2>1, FS_EmptySet
  <2>6. PICK r : r = qs
    OBVIOUS
  <2>7. \A x \in r : x.key # ChannelKey
    BY <2>5, <2>6
  <2>8. as.pending = Cardinality(r)
    BY <2>3, <2>5, <2>6
  <2> HIDE DEF qs
  <2>9. r = (Awaited(l) \ {q}) \union {}
    BY <2>6 DEF qs
  <2>10. IsFiniteSet({}) /\ {} \in SUBSET [by : {q.by}, ask : {q.ask}, key : Key]
    BY FS_EmptySet
  <2>11. QED
    BY <1>1, <1>3, <1>4, <2>3, <2>4, <2>7, <2>8, <2>9, <2>10, Progressed
<1>7. CASE q.key # ChannelKey
  <2>1. l.pending = Cardinality(Awaited(l)) /\ \A x \in Awaited(l) : x.key # ChannelKey
    <3>1. ~\E x \in Awaited(l) : x.key = ChannelKey /\ Awaited(l) = {x}
      BY <1>1, <1>7
    <3>2. QED
      BY <3>1 DEF LookupInv, CanEnd
  <2>2. PICK as : /\ as \in {Counted(l, q),
                             [l EXCEPT !.pending = Fewer(l.pending),
                                       !.well = l.well /\ q.key \notin records]}
                  /\ \E results : Progress(l, as, results)
    BY <1>1, <1>7, Zenon DEF NoProviders, GetRecordEnds, GetRecordFails
  <2>3. l.pending > 0
    BY <1>1, <1>2, <1>5, <2>1, FS_EmptySet
  <2>4. Fewer(l.pending) = l.pending - 1
    BY <2>3 DEF Fewer
  <2>5. Fewer(l.pending) = Cardinality(qs) /\ Fewer(l.pending) \in Nat
    BY <1>5, <2>1, <2>3, <2>4
  <2>6. /\ as \in [by : {l.by}, ask : {l.ask}, pending : Nat, results : SUBSET Key,
                   published : SUBSET Device, well : BOOLEAN]
        /\ as.pending = Fewer(l.pending)
    <3>1. \A w \in BOOLEAN, rs \in SUBSET Key, n \in Nat :
             /\ [l EXCEPT !.pending = n, !.well = w] \in
                   [by : {l.by}, ask : {l.ask}, pending : Nat, results : SUBSET Key,
                    published : SUBSET Device, well : BOOLEAN]
             /\ [l EXCEPT !.pending = n, !.results = rs] \in
                   [by : {l.by}, ask : {l.ask}, pending : Nat, results : SUBSET Key,
                    published : SUBSET Device, well : BOOLEAN]
             /\ [l EXCEPT !.pending = n, !.well = w].pending = n
             /\ [l EXCEPT !.pending = n, !.results = rs].pending = n
      BY <1>2
    <3>2. /\ (l.well /\ q.key \notin records) \in BOOLEAN
          /\ l.results \union ({q.key} \intersect records) \in SUBSET Key
      BY <1>2
    <3>3. PICK n \in Nat : n = Fewer(l.pending)
      BY <2>5
    <3>4. CASE as = Counted(l, q)
      BY <3>1, <3>2, <3>3, <3>4 DEF Counted
    <3>5. CASE as = [l EXCEPT !.pending = Fewer(l.pending),
                              !.well = l.well /\ q.key \notin records]
      BY <3>1, <3>2, <3>3, <3>5
    <3>6. QED
      BY <2>2, <3>4, <3>5
  <2>7. lookups' = (lookups \ {l}) \union (IF as.pending = 0 THEN {} ELSE {as})
    BY <2>2 DEF Progress
  <2>8. PICK r : r = qs
    OBVIOUS
  <2>9. \A x \in r : x.key # ChannelKey
    BY <2>1, <2>8
  <2>10. as.pending = Cardinality(r)
    BY <2>5, <2>6, <2>8
  <2> HIDE DEF qs
  <2>11. r = (Awaited(l) \ {q}) \union {}
    BY <2>8 DEF qs
  <2>12. IsFiniteSet({}) /\ {} \in SUBSET [by : {q.by}, ask : {q.ask}, key : Key]
    BY FS_EmptySet
  <2>13. QED
    BY <1>1, <1>3, <1>4, <2>6, <2>7, <2>9, <2>10, <2>11, <2>12, Progressed
<1>8. QED
  BY <1>6, <1>7

LEMMA LookupStep ==
    ASSUME LookupInv, [PeersNext]_peersVars PROVE LookupInv'
<1>0. DhtTables
  BY DEF LookupInv
<1>1. CASE UNCHANGED dhtVars
  BY <1>0, <1>1, LookupsKept DEF dhtVars, DhtTables
<1>2. ASSUME NEW d \in Device, StartSwarm(d) PROVE LookupInv'
  <2>1. /\ swarms' = swarms + 1 /\ swarms < MaxSwarms
        /\ swarm' = [swarm EXCEPT ![d] = swarms + 1]
        /\ UNCHANGED <<queries, lookups, asked, providers, published>>
    BY <1>2 DEF StartSwarm
  <2>2. swarms \in Nat /\ MaxSwarms \in Nat
    BY <1>0, DhtAssumption DEF DhtTables
  <2>3. swarms + 1 \in Nat /\ swarms + 1 <= MaxSwarms /\ swarms + 1 \in Swarm
    BY <2>1, <2>2 DEF Swarm
  <2>4. swarm' \in [Device -> Swarm \union {0}]
    BY <1>0, <2>1, <2>3 DEF DhtTables
  <2>5. QED
    BY <1>0, <2>1, <2>3, <2>4, LookupsKept DEF DhtTables
<1>3. ASSUME NEW d \in Device, Announce(d) PROVE LookupInv'
  <2>1. /\ swarm[d] # 0 /\ providers' = providers \union {swarm[d]}
        /\ UNCHANGED <<queries, lookups, asked, swarm, swarms, published>>
    BY <1>3 DEF Announce, MayAnnounce
  <2>2. swarm[d] \in Swarm
    BY <1>0, <2>1 DEF DhtTables
  <2>3. QED
    BY <1>0, <2>1, <2>2, LookupsKept DEF DhtTables
<1>4. ASSUME NEW d \in Device, PutEnds(d) PROVE LookupInv'
  <2>1. /\ published' \in {published, published \union {d}}
        /\ UNCHANGED <<queries, lookups, asked, swarm, swarms, providers>>
    BY <1>4 DEF PutEnds
  <2>2. QED
    BY <1>0, <2>1, LookupsKept DEF DhtTables
<1>5. CASE DhtNext
  BY <1>2, <1>3, <1>4, <1>5, QuitLookups, LookupLookups, FoundLookups, EndedLookups DEF DhtNext
<1>6. QED
  BY <1>1, <1>5 DEF PeersNext, peersVars

(* No lookup waits for ever: as long as it is in the table a query is under *)
(* way whose end takes it further, and pending counts those queries         *)
(* (pending_lookup and LookupState of the swarm task).                      *)
THEOREM LookupsHold == PeersSpec => []LookupsCanEnd
  BY LookupInvEnds, LookupInit, LookupStep, PTL DEF PeersSpec

-----------------------------------------------------------------------------
(* VoiceIsUnderstood.                                                       *)

CodecTables ==
    /\ wish \in Seq(Codec) /\ preferred \in Seq(Codec)
    /\ known \in [Listener -> SUBSET Codec] /\ offer \in [Listener -> SUBSET Codec]
    /\ inbox \in [Listener -> {<<>>, <<"Hello">>, <<"Join", "Hello">>}]
    /\ settled \subseteq Listener
    /\ frame = Silence \/ (/\ frame.st = "encoded"
                           /\ DOMAIN frame = {"st", "codec", "overtaken", "suits"}
                           /\ frame.overtaken \in BOOLEAN
                           /\ frame.suits \subseteq Listener)

(* Of a connected peer whose Hello has been handled we know what it takes.  *)
HelloKnown == \A m \in Listener : offer[m] # {} /\ inbox[m] = <<>> => known[m] = offer[m]

(* The group codec suits those for whom it was chosen,                      *)
GroupSuits == \A m \in settled : unmatched \/ group \in offer[m]

(* and so does the frame in hand.                                           *)
FrameSuits ==
    frame # Silence =>
        /\ frame.overtaken \/ group = frame.codec
        /\ \A m \in frame.suits : frame.codec \in offer[m]

VoiceInv == CodecTables /\ HelloKnown /\ GroupSuits /\ FrameSuits /\ VoiceIsUnderstood

LEMMA LeastOf ==
    ASSUME NEW S \in SUBSET Nat, S # {}
    PROVE  Min(S) \in S
<1> DEFINE R == OpToRel(<, Nat)
<1>1. IsWellFoundedOn(R, Nat)
  BY NatLessThanWellFounded
<1>2. \A x, y \in Nat : x < y => <<x, y>> \in R
  BY DEF OpToRel
<1> HIDE DEF R
<1>3. PICK x \in S : \A y \in S : ~(<<y, x>> \in R)
  BY <1>1, WFMin
<1>4. \A y \in S : ~(y < x)
  BY <1>2, <1>3
<1>5. \A y \in S : x =< y
  BY <1>4
<1>6. QED
  BY <1>5 DEF Min

(* update_group_codec chooses what everybody takes, if there is such a one. *)
LEMMA SelectedSuits ==
    ASSUME CodecTables, NEW m, \E i \in DOMAIN Ordered : AllTake(Ordered[i])
    PROVE  AllTake(Selected(m))
<1> DEFINE suitable == {i \in DOMAIN Ordered : AllTake(Ordered[i])}
<1>1. Ordered \in Seq(Codec)
  <2>1. <<"Opus", "PCM16">> \in Seq(Codec)
    BY DEF Codec
  <2>2. preferred \in Seq(Codec)
    BY DEF CodecTables
  <2>3. QED
    BY <2>1, <2>2 DEF Ordered
<1>2. suitable \in SUBSET Nat /\ suitable # {}
  BY <1>1
<1>3. Selected(m) = Ordered[Min(suitable)]
  BY <1>2 DEF Selected, FirstThat
<1>4. Min(suitable) \in suitable
  BY <1>2, LeastOf
<1>5. QED
  BY <1>3, <1>4

LEMMA VoiceInit == PeersInit => VoiceInv
<1> SUFFICES ASSUME PeersInit PROVE VoiceInv
  OBVIOUS
<1>1. /\ preferred = <<>>
      /\ known = [m \in Listener |-> {}] /\ offer = [m \in Listener |-> {}]
      /\ inbox = [m \in Listener |-> <<>>]
      /\ frame = Silence /\ heard = {} /\ settled = {}
  BY DEF PeersInit, CodecInit
<1>2. wish \in Preferences /\ Preferences \subseteq Seq(Codec)
  BY CodecsAssumption DEF PeersInit, CodecInit
<1>3. CodecTables
  BY <1>1, <1>2 DEF CodecTables
<1>4. QED
  BY <1>1, <1>3 DEF VoiceInv, HelloKnown, GroupSuits, FrameSuits, VoiceIsUnderstood

(* Without a new choice of codec or a frame, only the inboxes count.        *)
LEMMA VoiceKept ==
    ASSUME VoiceInv, UNCHANGED <<wish, group, offer, frame, heard, settled, unmatched>>,
           preferred' \in Seq(Codec), known' \in [Listener -> SUBSET Codec],
           inbox' \in [Listener -> {<<>>, <<"Hello">>, <<"Join", "Hello">>}],
           \A m \in Listener : offer[m] # {} /\ inbox'[m] = <<>> => known'[m] = offer[m]
    PROVE  VoiceInv'
<1>1. CodecTables'
  BY DEF VoiceInv, CodecTables
<1>2. HelloKnown'
  BY DEF HelloKnown
<1>3. GroupSuits' /\ FrameSuits' /\ VoiceIsUnderstood'
  BY DEF VoiceInv, GroupSuits, FrameSuits, VoiceIsUnderstood
<1>4. QED
  BY <1>1, <1>2, <1>3 DEF VoiceInv

(* A connection begins or ends: m is allowed for no longer.                 *)
LEMMA Forgotten ==
    ASSUME VoiceInv, NEW m \in Listener, Forget(m),
           UNCHANGED <<wish, preferred, known, group, heard, unmatched>>,
           NEW codecs \in SUBSET Codec, offer' = [offer EXCEPT ![m] = codecs],
           NEW box \in {<<>>, <<"Join", "Hello">>}, inbox' = [inbox EXCEPT ![m] = box],
           codecs = {} \/ box # <<>>
    PROVE  VoiceInv'
<1>0. CodecTables
  BY DEF VoiceInv
<1>1. settled' = settled \ {m}
  BY DEF Forget
<1>2. frame' = IF frame = Silence THEN frame ELSE [frame EXCEPT !.suits = frame.suits \ {m}]
  BY DEF Forget
<1>3. /\ frame' = Silence <=> frame = Silence
      /\ frame # Silence =>
            /\ frame'.st = "encoded" /\ DOMAIN frame' = {"st", "codec", "overtaken", "suits"}
            /\ frame'.codec = frame.codec /\ frame'.overtaken = frame.overtaken
            /\ frame'.suits = frame.suits \ {m}
  <2>1. CASE frame = Silence
    BY <1>2, <2>1
  <2>2. CASE frame # Silence
    <3>1. DOMAIN frame = {"st", "codec", "overtaken", "suits"} /\ frame.st = "encoded"
      BY <1>0, <2>2 DEF CodecTables
    <3>2. frame' = [frame EXCEPT !.suits = frame.suits \ {m}]
      BY <1>2, <2>2
    <3>3. DOMAIN frame' = DOMAIN frame
      BY <3>2
    <3>4. /\ frame'.st = frame.st /\ frame'.codec = frame.codec
          /\ frame'.overtaken = frame.overtaken
      BY <3>2
    <3>5. frame'.suits = frame.suits \ {m}
      BY <3>1, <3>2
    <3>6. frame' # Silence
      BY <3>1, <3>4 DEF Silence
    <3>7. QED
      BY <2>2, <3>1, <3>3, <3>4, <3>5, <3>6
  <2>3. QED
    BY <2>1, <2>2
<1>4. CodecTables'
  <2>1. offer' \in [Listener -> SUBSET Codec]
    BY <1>0 DEF CodecTables
  <2>2. inbox' \in [Listener -> {<<>>, <<"Hello">>, <<"Join", "Hello">>}]
    BY <1>0 DEF CodecTables
  <2>3. settled' \subseteq Listener
    BY <1>0, <1>1 DEF CodecTables
  <2>4. QED
    BY <1>0, <1>3, <2>1, <2>2, <2>3 DEF CodecTables
<1>5. \A k \in Listener : k # m => offer'[k] = offer[k] /\ inbox'[k] = inbox[k]
  BY <1>0 DEF CodecTables
<1>6. offer'[m] = codecs /\ inbox'[m] = box
  BY <1>0 DEF CodecTables
<1>7. HelloKnown'
  BY <1>5, <1>6 DEF VoiceInv, HelloKnown
<1>8. GroupSuits'
  BY <1>0, <1>1, <1>5 DEF VoiceInv, GroupSuits, CodecTables
<1>9. FrameSuits'
  BY <1>0, <1>3, <1>5 DEF VoiceInv, FrameSuits, CodecTables
<1>10. VoiceIsUnderstood'
  BY DEF VoiceInv, VoiceIsUnderstood
<1>11. QED
  BY <1>4, <1>7, <1>8, <1>9, <1>10 DEF VoiceInv

LEMMA HandledVoice ==
    ASSUME VoiceInv, NEW m \in Listener, HandleJoin(m) \/ HandleHello(m)
    PROVE  VoiceInv'
<1>0. CodecTables
  BY DEF VoiceInv
<1>1. inbox[m] \in {<<>>, <<"Hello">>, <<"Join", "Hello">>} /\ inbox[m] # <<>>
  BY <1>0 DEF CodecTables, HandleJoin, HandleHello
<1>2. /\ inbox' = [inbox EXCEPT ![m] = Tail(inbox[m])]
      /\ UNCHANGED <<wish, preferred, group, offer, frame, heard, settled, unmatched>>
  BY DEF HandleJoin, HandleHello
<1>3. Tail(inbox[m]) \in {<<>>, <<"Hello">>}
  <2>1. CASE inbox[m] = <<"Hello">>
    BY <2>1
  <2>2. CASE inbox[m] = <<"Join", "Hello">>
    BY <2>2
  <2>3. QED
    BY <1>1, <2>1, <2>2
<1>4. inbox' \in [Listener -> {<<>>, <<"Hello">>, <<"Join", "Hello">>}]
  BY <1>0, <1>2, <1>3 DEF CodecTables
<1>5. \A k \in Listener : k # m => inbox'[k] = inbox[k]
  BY <1>0, <1>2 DEF CodecTables
<1>6. inbox'[m] = Tail(inbox[m])
  BY <1>0, <1>2 DEF CodecTables
<1>7. CASE HandleJoin(m)
  <2>1. known' = [known EXCEPT ![m] = IF known[m] = {} THEN {"Opus"} ELSE known[m]]
    BY <1>7 DEF HandleJoin
  <2>2. inbox[m] = <<"Join", "Hello">>
    BY <1>1, <1>7 DEF HandleJoin
  <2>3. inbox'[m] # <<>>
    BY <1>6, <2>2
  <2>4. known' \in [Listener -> SUBSET Codec] /\ \A k \in Listener : k # m => known'[k] = known[k]
    BY <1>0, <2>1 DEF CodecTables, Codec
  <2>5. \A k \in Listener : offer[k] # {} /\ inbox'[k] = <<>> => known'[k] = offer[k]
    BY <1>5, <2>3, <2>4 DEF VoiceInv, HelloKnown
  <2>6. QED
    BY <1>0, <1>2, <1>4, <2>4, <2>5, VoiceKept DEF CodecTables
<1>8. CASE HandleHello(m)
  <2>1. known' = [known EXCEPT ![m] = offer[m]]
    BY <1>8 DEF HandleHello
  <2>2. /\ known' \in [Listener -> SUBSET Codec] /\ known'[m] = offer[m]
        /\ \A k \in Listener : k # m => known'[k] = known[k]
    BY <1>0, <2>1 DEF CodecTables
  <2>3. \A k \in Listener : offer[k] # {} /\ inbox'[k] = <<>> => known'[k] = offer[k]
    BY <1>5, <2>2 DEF VoiceInv, HelloKnown
  <2>4. QED
    BY <1>0, <1>2, <1>4, <2>2, <2>3, VoiceKept DEF CodecTables
<1>9. QED
  BY <1>7, <1>8

LEMMA ChosenVoice ==
    ASSUME VoiceInv, NEW m \in Listener, UpdateGroupCodec(m)
    PROVE  VoiceInv'
<1>0. CodecTables
  BY DEF VoiceInv
<1>1. /\ group' = Selected(m)
      /\ unmatched' = ~\E i \in DOMAIN Ordered : AllTake(Ordered[i])
      /\ settled' = {k \in Listener : offer[k] # {} /\ inbox[k] = <<>>}
      /\ UNCHANGED <<wish, preferred, known, inbox, offer, heard>>
  BY DEF UpdateGroupCodec
<1>2. frame' = IF frame = Silence THEN frame
               ELSE [frame EXCEPT !.overtaken = frame.overtaken \/ group # Selected(m)]
  BY DEF UpdateGroupCodec
<1>3. /\ frame' = Silence <=> frame = Silence
      /\ frame # Silence =>
            /\ frame'.st = "encoded" /\ DOMAIN frame' = {"st", "codec", "overtaken", "suits"}
            /\ frame'.codec = frame.codec /\ frame'.suits = frame.suits
            /\ frame'.overtaken = (frame.overtaken \/ group # Selected(m))
  <2>1. CASE frame = Silence
    BY <1>2, <2>1
  <2>2. CASE frame # Silence
    <3>1. DOMAIN frame = {"st", "codec", "overtaken", "suits"} /\ frame.st = "encoded"
      BY <1>0, <2>2 DEF CodecTables
    <3>2. frame' = [frame EXCEPT !.overtaken = frame.overtaken \/ group # Selected(m)]
      BY <1>2, <2>2
    <3>3. DOMAIN frame' = DOMAIN frame
      BY <3>2
    <3>4. frame'.st = frame.st /\ frame'.codec = frame.codec /\ frame'.suits = frame.suits
      BY <3>2
    <3>5. frame'.overtaken = (frame.overtaken \/ group # Selected(m))
      BY <3>1, <3>2
    <3>6. frame' # Silence
      BY <3>1, <3>4 DEF Silence
    <3>7. QED
      BY <2>2, <3>1, <3>3, <3>4, <3>5, <3>6
  <2>3. QED
    BY <2>1, <2>2
<1>4. CodecTables'
  <2>1. settled' \subseteq Listener
    BY <1>1
  <2>2. frame # Silence => frame'.overtaken \in BOOLEAN
    BY <1>0, <1>3 DEF CodecTables
  <2>3. QED
    BY <1>0, <1>1, <1>3, <2>1, <2>2 DEF CodecTables
<1>5. HelloKnown'
  BY <1>1 DEF VoiceInv, HelloKnown
<1>6. GroupSuits'
  <2> SUFFICES ASSUME NEW k \in settled', ~unmatched' PROVE Selected(m) \in offer[k]
    BY <1>1 DEF GroupSuits
  <2>1. k \in Listener /\ known[k] = offer[k] /\ known[k] # {}
    BY <1>1 DEF VoiceInv, HelloKnown
  <2>2. AllTake(Selected(m))
    BY <1>0, <1>1, SelectedSuits
  <2>3. QED
    BY <2>1, <2>2 DEF AllTake
<1>7. FrameSuits'
  BY <1>1, <1>3 DEF VoiceInv, FrameSuits
<1>8. VoiceIsUnderstood'
  BY <1>1 DEF VoiceInv, VoiceIsUnderstood
<1>9. QED
  BY <1>4, <1>5, <1>6, <1>7, <1>8 DEF VoiceInv

LEMMA EncodedVoice ==
    ASSUME VoiceInv, Encode PROVE VoiceInv'
<1>0. CodecTables
  BY DEF VoiceInv
<1>1. /\ frame' = [st |-> "encoded", codec |-> group, overtaken |-> FALSE,
                   suits |-> IF unmatched THEN {} ELSE settled]
      /\ UNCHANGED <<wish, preferred, known, group, inbox, offer, heard, settled, unmatched>>
  BY DEF Encode
<1>2. /\ frame'.st = "encoded" /\ DOMAIN frame' = {"st", "codec", "overtaken", "suits"}
      /\ frame'.codec = group /\ frame'.overtaken = FALSE
      /\ frame'.suits = IF unmatched THEN {} ELSE settled
  BY <1>1
<1>3. CodecTables'
  BY <1>0, <1>1, <1>2 DEF CodecTables
<1>4. FrameSuits'
  BY <1>1, <1>2 DEF VoiceInv, GroupSuits, FrameSuits
<1>5. HelloKnown' /\ GroupSuits' /\ VoiceIsUnderstood'
  BY <1>1 DEF VoiceInv, HelloKnown, GroupSuits, VoiceIsUnderstood
<1>6. QED
  BY <1>3, <1>4, <1>5 DEF VoiceInv

LEMMA SentVoice ==
    ASSUME VoiceInv, NEW frames, Sent(frames),
           \A f \in frames : f.sure => f.label = f.codec /\ f.codec \in f.takes
    PROVE  VoiceInv'
<1>1. /\ heard' = frames /\ frame' = Silence
      /\ UNCHANGED <<wish, preferred, known, group, inbox, offer, settled, unmatched>>
  BY DEF Sent
<1>2. CodecTables'
  BY <1>1 DEF VoiceInv, CodecTables
<1>3. HelloKnown' /\ GroupSuits' /\ FrameSuits'
  BY <1>1 DEF VoiceInv, HelloKnown, GroupSuits, FrameSuits
<1>4. VoiceIsUnderstood'
  BY <1>1 DEF VoiceIsUnderstood
<1>5. QED
  BY <1>2, <1>3, <1>4 DEF VoiceInv

LEMMA VoiceStep ==
    ASSUME VoiceInv, [PeersNext]_peersVars PROVE VoiceInv'
<1>0. CodecTables
  BY DEF VoiceInv
<1>1. CASE UNCHANGED codecVars
  BY <1>0, <1>1, VoiceKept DEF VoiceInv, HelloKnown, CodecTables, codecVars
<1>2. CASE SetPreferredCodecs
  BY <1>0, <1>2, VoiceKept DEF VoiceInv, HelloKnown, CodecTables, SetPreferredCodecs
<1>3. ASSUME NEW m \in Listener, Meet(m) PROVE VoiceInv'
  <2>1. PICK codecs \in Announcements :
          /\ offer' = [offer EXCEPT ![m] = codecs]
          /\ inbox' = [inbox EXCEPT ![m] = <<"Join", "Hello">>]
    BY <1>3 DEF Meet
  <2>2. codecs \in SUBSET Codec
    BY CodecsAssumption
  <2>3. Forget(m) /\ UNCHANGED <<wish, preferred, known, group, heard, unmatched>>
    BY <1>3 DEF Meet
  <2>4. <<"Join", "Hello">> # <<>>
    OBVIOUS
  <2>5. QED
    BY <2>1, <2>2, <2>3, <2>4, Forgotten
<1>4. ASSUME NEW m \in Listener, Part(m) PROVE VoiceInv'
  <2>1. /\ offer' = [offer EXCEPT ![m] = {}] /\ inbox' = [inbox EXCEPT ![m] = <<>>]
        /\ Forget(m) /\ UNCHANGED <<wish, preferred, known, group, heard, unmatched>>
    BY <1>4 DEF Part
  <2>2. PICK codecs \in SUBSET Codec, box \in {<<>>, <<"Join", "Hello">>} :
          codecs = {} /\ box = <<>>
    OBVIOUS
  <2>3. QED
    BY <2>1, <2>2, Forgotten
<1>5. CASE BroadcastVoice
  <2>1. PICK frames : frames = {Received(m, group) : m \in {k \in Listener : offer[k] # {}}}
    OBVIOUS
  <2>2. Sent(frames) /\ frame # Silence
    BY <1>5, <2>1 DEF BroadcastVoice, Sent
  <2>3. ASSUME NEW m \in Listener, Received(m, group).sure
        PROVE  /\ Received(m, group).label = Received(m, group).codec
               /\ Received(m, group).codec \in Received(m, group).takes
    BY <2>2, <2>3 DEF Received, VoiceInv, FrameSuits
  <2>4. QED
    BY <2>1, <2>2, <2>3, SentVoice
<1>6. ASSUME NEW m \in Listener, SendOverChannel(m) PROVE VoiceInv'
  <2>1. PICK r : r = [Received(m, "Opus") EXCEPT !.sure =
                        Received(m, "Opus").sure /\ frame.codec = "Opus"]
    OBVIOUS
  <2>2. Sent({r}) /\ frame # Silence
    BY <1>6, <2>1 DEF SendOverChannel, Sent
  <2>3. /\ r.label = "Opus" /\ r.codec = frame.codec /\ r.takes = offer[m]
        /\ r.sure = (m \in frame.suits /\ ~frame.overtaken /\ frame.codec = "Opus")
    BY <2>1 DEF Received
  <2>4. r.sure => r.label = r.codec /\ r.codec \in r.takes
    BY <2>2, <2>3 DEF VoiceInv, FrameSuits
  <2>5. QED
    BY <2>2, <2>4, SentVoice
<1>7. CASE CodecNext
  BY <1>2, <1>3, <1>4, <1>5, <1>6, <1>7, HandledVoice, ChosenVoice, EncodedVoice DEF CodecNext
<1>8. QED
  BY <1>1, <1>7 DEF PeersNext, peersVars

(* Whom the group codec was chosen for understands a frame encoded since    *)
(* then, whatever comes and goes in the meantime: update_group_codec        *)
(* chooses from what every peer has announced, and what a connected peer    *)
(* has announced is what is known of it once its Hello was handled.         *)
THEOREM VoiceHolds == PeersSpec => []VoiceIsUnderstood
<1>1. VoiceInv => VoiceIsUnderstood
  BY DEF VoiceInv
<1>2. QED
  BY <1>1, VoiceInit, VoiceStep, PTL DEF PeersSpec
=============================================================================
