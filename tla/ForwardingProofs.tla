-------------------------- MODULE ForwardingProofs --------------------------
(***************************************************************************)
(* Theorems about the two ways in which a third party carries frames.      *)
(*                                                                         *)
(* GroupVoice, for every group, every configuration of relays, keys and    *)
(* topologies, and all bounds: what a node plays of a speaker, whatever    *)
(* copies of a frame travel and by whichever path, and that nothing which  *)
(* is spoken in settled times gets lost between the speaker, the forwarder *)
(* and the listeners.                                                      *)
(*                                                                         *)
(* TurnRelay, for all senders, addresses and data: what is sent through    *)
(* the relay arrives at the peer it was meant for.                         *)
(***************************************************************************)
EXTENDS GroupVoice, TurnRelay, FiniteSetTheorems, TLAPS

(* The records of Frame by name.                                            *)
JoinFrame     == [type : {"Join"}]
StateFrame    == [type : {"PeerState"}, capable : BOOLEAN]
ListFrame     == [type : {"PeerList"}, peers : SUBSET [peer : Node, capable : BOOLEAN]]
TopologyFrame == [type : {"Topology"}, mode : Mode]
VoiceFrame    == [type : {"Voice"}, src : Node, seq : Nat, seal : SealKind,
                  hops : 0..MaxHops]

(* No frame of s is one that node n has spoken.                             *)
Strange(s, n) == \A i \in 1..Len(s) : s[i].type = "Voice" => s[i].src # n

(* What n hands to its connections.                                         *)
Post(fs) ==
    /\ fs \in [Node -> Seq(Frame)]
    /\ \A m \in Node : Strange(fs[m], m)

(* The tables name nodes, never a node in its own.                          *)
Tables ==
    /\ conn \in [Node -> SUBSET Node]
    /\ peers \in [Node -> SUBSET Node]
    /\ members \in [Node -> SUBSET Node]
    /\ \A n \in Node : n \notin conn[n] /\ n \notin members[n] /\ peers[n] \subseteq conn[n]

Keys ==
    /\ key \in [Node -> SUBSET Node]
    /\ ready \in [Node -> SUBSET Node]
    /\ \A n \in Node : key[n] \subseteq ready[n]

Knowledge ==
    /\ caps \in [Node -> [Node -> BOOLEAN]]
    /\ mode \in [Node -> Mode]

Counts ==
    /\ heard \in [Node -> [Node -> Nat]]
    /\ spoken \in [Node -> Nat]

(* Frames are on their way only to who still has the connection, and never  *)
(* to who spoke them.                                                       *)
Links(links, cs) ==
    /\ links \in [Node -> [Node -> Seq(Frame)]]
    /\ \A m, n \in Node : /\ links[m][n] # <<>> => m \in cs[n]
                          /\ Strange(links[m][n], n)

Types == Tables /\ Keys /\ Knowledge /\ Counts /\ Links(link, conn)

(* What is played of a speaker grows, and heard is at its end.              *)
Growing(s, top) ==
    /\ s \in Seq(Nat)
    /\ \A i \in 1..Len(s) : s[i] <= top
    /\ \A i \in 1..(Len(s) - 1) : s[i] < s[i + 1]

Order ==
    /\ played \in [Node -> [Node -> Seq(Nat)]]
    /\ \A n, m \in Node : Growing(played[n][m], heard[n][m])
    /\ \A n \in Node : played[n][n] = <<>>

-----------------------------------------------------------------------------
(* Sequences and frames.                                                    *)

LEMMA HeadType ==
    ASSUME NEW S, NEW s \in Seq(S), s # <<>>
    PROVE  Head(s) \in S /\ Head(s) = s[1] /\ Len(s) > 0
OBVIOUS

LEMMA TailType ==
    ASSUME NEW S, NEW s \in Seq(S), s # <<>>
    PROVE  /\ Tail(s) \in Seq(S) /\ Len(Tail(s)) = Len(s) - 1
           /\ \A i \in 1..Len(Tail(s)) : Tail(s)[i] = s[i + 1]
OBVIOUS

LEMMA ConcatType ==
    ASSUME NEW S, NEW s \in Seq(S), NEW t \in Seq(S)
    PROVE  /\ s \o t \in Seq(S) /\ Len(s \o t) = Len(s) + Len(t)
           /\ \A i \in 1..Len(s) : (s \o t)[i] = s[i]
           /\ \A i \in (Len(s) + 1)..(Len(s) + Len(t)) : (s \o t)[i] = t[i - Len(s)]
OBVIOUS

LEMMA StrangeConcat ==
    ASSUME NEW s \in Seq(Frame), NEW t \in Seq(Frame), NEW n, Strange(s, n), Strange(t, n)
    PROVE  s \o t \in Seq(Frame) /\ Strange(s \o t, n)
<1>1. s \o t \in Seq(Frame) /\ Len(s \o t) = Len(s) + Len(t)
  BY ConcatType
<1>2. ASSUME NEW i \in 1..Len(s \o t), (s \o t)[i].type = "Voice"
      PROVE  (s \o t)[i].src # n
  <2>0. Len(s) \in Nat /\ Len(t) \in Nat
    OBVIOUS
  <2>1. CASE i \in 1..Len(s)
    <3>1. (s \o t)[i] = s[i]
      BY <2>1, ConcatType
    <3>2. QED
      BY <3>1, <2>1, <1>2 DEF Strange
  <2>2. CASE i \in (Len(s) + 1)..(Len(s) + Len(t))
    <3>1. (s \o t)[i] = t[i - Len(s)] /\ i - Len(s) \in 1..Len(t)
      <4>1. (s \o t)[i] = t[i - Len(s)]
        BY <2>2, ConcatType
      <4>2. QED
        BY <4>1, <2>2, <2>0
    <3>2. QED
      BY <3>1, <1>2 DEF Strange
  <2>3. QED
    BY <2>1, <2>2, <2>0, <1>1, <1>2
<1>3. QED
  BY <1>1, <1>2 DEF Strange

LEMMA StrangeTail ==
    ASSUME NEW s \in Seq(Frame), s # <<>>, NEW n, Strange(s, n)
    PROVE  Tail(s) \in Seq(Frame) /\ Strange(Tail(s), n)
<1>1. /\ Tail(s) \in Seq(Frame) /\ Len(Tail(s)) = Len(s) - 1
      /\ \A i \in 1..Len(Tail(s)) : Tail(s)[i] = s[i + 1]
  BY TailType
<1>2. \A i \in 1..Len(Tail(s)) : i + 1 \in 1..Len(s)
  BY <1>1
<1>3. QED
  BY <1>1, <1>2 DEF Strange

LEMMA Empty == <<>> \in Seq(Frame) /\ \A n : Strange(<<>>, n)
BY DEF Strange

LEMMA One ==
    ASSUME NEW f \in Frame, NEW n, f.type = "Voice" => f.src # n
    PROVE  <<f>> \in Seq(Frame) /\ Strange(<<f>>, n)
BY DEF Strange

LEMMA FrameKinds ==
    /\ Frame = JoinFrame \union StateFrame \union ListFrame \union TopologyFrame
               \union VoiceFrame
    /\ \A f \in VoiceFrame : f.type = "Voice" /\ f \in Frame
    /\ \A f \in Frame : f.type = "Voice" => f \in VoiceFrame
    /\ \A f \in Frame : f.type = "Topology" => f \in TopologyFrame
    /\ \A f \in Frame : f.type = "PeerList" => f \in ListFrame
    /\ \A f \in Frame : f.type = "PeerState" => f \in StateFrame
BY DEF Frame, JoinFrame, StateFrame, ListFrame, TopologyFrame, VoiceFrame

(* The sequence of a set of one element or none.                            *)
LEMMA SmallSeq ==
    ASSUME NEW S, NEW x, S = {} \/ S = {x}
    PROVE  SetToSeq(S) \in Seq(S)
<1>1. Cardinality(S) \in Nat
  <2>1. CASE S = {}
    BY <2>1, FS_EmptySet
  <2>2. CASE S = {x}
    <3>1. Cardinality(S) = 1
      BY <2>2, FS_Singleton
    <3>2. QED
      BY <3>1
  <2>3. QED
    BY <2>1, <2>2
<1>2. \E f \in [1..Cardinality(S) -> S] : IsInjective(f)
  <2>1. CASE S = {}
    <3>1. 1..Cardinality(S) = {}
      BY <2>1, FS_EmptySet
    <3>2. [i \in 1..Cardinality(S) |-> x] \in [1..Cardinality(S) -> S]
      BY <3>1
    <3>3. IsInjective([i \in 1..Cardinality(S) |-> x])
      BY <3>1 DEF IsInjective
    <3>4. QED
      BY <3>2, <3>3
  <2>2. CASE S = {x}
    <3>1. Cardinality(S) = 1
      BY <2>2, FS_Singleton
    <3>2. 1..Cardinality(S) = {1}
      BY <3>1
    <3>3. [i \in 1..Cardinality(S) |-> x] \in [1..Cardinality(S) -> S]
      BY <2>2
    <3>4. IsInjective([i \in 1..Cardinality(S) |-> x])
      BY <3>2 DEF IsInjective
    <3>5. QED
      BY <3>3, <3>4
  <2>3. QED
    BY <2>1, <2>2
<1>3. SetToSeq(S) \in [1..Cardinality(S) -> S]
  BY <1>2 DEF SetToSeq
<1>4. QED
  BY <1>1, <1>3

-----------------------------------------------------------------------------
(* What nodes send, and how it is posted.                                   *)

LEMMA PostedLinks ==
    ASSUME Tables, NEW links, Links(links, conn), NEW n \in Node, NEW fs, Post(fs)
    PROVE  Links(Posted(links, n, fs), conn)
<1> DEFINE new == Posted(links, n, fs)
<1>1. ASSUME NEW k \in Node, NEW m \in Node
      PROVE  new[k][m] = IF k = n /\ Linked(n, m) THEN links[k][m] \o fs[m] ELSE links[k][m]
  BY DEF Posted, Links
<1>2. new = [k \in Node |-> [m \in Node |-> new[k][m]]]
  BY DEF Posted, Links
<1>3. ASSUME NEW k \in Node, NEW m \in Node
      PROVE  /\ new[k][m] \in Seq(Frame)
             /\ new[k][m] # <<>> => k \in conn[m]
             /\ Strange(new[k][m], m)
  <2>1. /\ links[k][m] \in Seq(Frame) /\ Strange(links[k][m], m)
        /\ links[k][m] # <<>> => k \in conn[m]
    BY DEF Links
  <2>2. CASE k = n /\ Linked(n, m)
    <3>1. fs[m] \in Seq(Frame) /\ Strange(fs[m], m)
      BY DEF Post
    <3>2. links[k][m] \o fs[m] \in Seq(Frame) /\ Strange(links[k][m] \o fs[m], m)
      BY <2>1, <3>1, StrangeConcat
    <3>3. QED
      BY <1>1, <2>2, <3>2 DEF Linked
  <2>3. CASE ~(k = n /\ Linked(n, m))
    BY <1>1, <2>1, <2>3
  <2>4. QED
    BY <2>2, <2>3
<1> HIDE DEF new
<1>4. new \in [Node -> [Node -> Seq(Frame)]]
  BY <1>2, <1>3
<1>5. Links(new, conn)
  BY <1>3, <1>4 DEF Links
<1>6. QED
  BY <1>5 DEF new

(* Receiving takes the first frame away.                                    *)
LEMMA TakenLinks ==
    ASSUME Links(link, conn), NEW n \in Node, NEW m \in Node, link[m][n] # <<>>
    PROVE  Links(Taken(n, m), conn)
<1>1. Tail(link[m][n]) \in Seq(Frame) /\ Strange(Tail(link[m][n]), n)
  BY StrangeTail DEF Links
<1>2. Taken(n, m) \in [Node -> [Node -> Seq(Frame)]]
  BY <1>1 DEF Taken, Links
<1>3. ASSUME NEW k \in Node, NEW l \in Node
      PROVE  Taken(n, m)[k][l] = IF k = m /\ l = n THEN Tail(link[m][n]) ELSE link[k][l]
  BY DEF Taken, Links
<1>4. QED
  BY <1>1, <1>2, <1>3 DEF Links

LEMMA NothingPost == Post(Nothing)
BY Empty DEF Post, Nothing

LEMMA Announcement ==
    ASSUME NEW n \in Node, NEW ms, NEW x \in Mode, NEW to
    PROVE  Post(Announced(n, ms, x, to))
<1>1. [type |-> "Topology", mode |-> x] \in Frame
  BY FrameKinds DEF TopologyFrame
<1>2. \A m : <<[type |-> "Topology", mode |-> x]>> \in Seq(Frame)
             /\ Strange(<<[type |-> "Topology", mode |-> x]>>, m)
  BY <1>1, One
<1>3. QED
  BY <1>2, Empty DEF Post, Announced

LEMMA ListFrames ==
    ASSUME Knowledge, NEW n \in Node, NEW ps \in SUBSET Node, NEW m
    PROVE  /\ [type |-> "PeerList", peers |-> {Entry(p, caps[n]) : p \in ps}] \in Frame
           /\ <<[type |-> "PeerList", peers |-> {Entry(p, caps[n]) : p \in ps}]>>
                  \in Seq(Frame)
           /\ Strange(<<[type |-> "PeerList", peers |-> {Entry(p, caps[n]) : p \in ps}]>>, m)
<1>1. {Entry(p, caps[n]) : p \in ps} \in SUBSET [peer : Node, capable : BOOLEAN]
  BY DEF Entry, Knowledge
<1>2. [type |-> "PeerList", peers |-> {Entry(p, caps[n]) : p \in ps}] \in Frame
  BY <1>1, FrameKinds DEF ListFrame
<1>3. QED
  BY <1>2, One

LEMMA Greetings ==
    ASSUME Knowledge, Tables, NEW n \in Node, NEW m
    PROVE  Greeting(n) \in Seq(Frame) /\ Strange(Greeting(n), m)
<1> DEFINE j == [type |-> "Join"]
           c == [type |-> "PeerState", capable |-> n \in Capable]
           l == PeerList(n)
<1>1. j \in Frame
  BY FrameKinds DEF JoinFrame
<1>2. c \in Frame
  BY FrameKinds DEF StateFrame
<1>3. l \in Frame
  BY ListFrames DEF PeerList, Tables
<1>4. l.type = "PeerList"
  BY DEF PeerList
<1>5. Greeting(n) = <<j, c, l>>
  BY DEF Greeting
<1>6. j.type # "Voice" /\ c.type # "Voice" /\ l.type # "Voice"
  BY <1>4
<1> HIDE DEF j, c, l
<1>7. <<j, c, l>> \in Seq(Frame)
  BY <1>1, <1>2, <1>3
<1>8. Strange(<<j, c, l>>, m)
  BY <1>6 DEF Strange
<1>9. QED
  BY <1>5, <1>7, <1>8

LEMMA Forwarding ==
    ASSUME Tables, NEW n \in Node, NEW f \in VoiceFrame
    PROVE  Post(Forwarded(n, f))
<1>0. MaxHops \in Nat
  BY GroupAssumption
<1>1. ASSUME f.hops < MaxHops
      PROVE  LET g == [f EXCEPT !.hops = @ + 1]
             IN  g \in VoiceFrame /\ g.src = f.src
  BY <1>0, <1>1 DEF VoiceFrame
<1>2. ASSUME NEW k \in Node, f.hops < MaxHops, k # f.src
      PROVE  /\ <<[f EXCEPT !.hops = @ + 1]>> \in Seq(Frame)
             /\ Strange(<<[f EXCEPT !.hops = @ + 1]>>, k)
  BY <1>1, <1>2, FrameKinds, One
<1>3. QED
  BY <1>2, Empty DEF Post, Forwarded, Listeners

LEMMA TopologyModes ==
    ASSUME Knowledge, NEW n \in Node, NEW ms \in SUBSET Node, NEW cs
    PROVE  Topologies(n, ms, cs) \subseteq Mode
<1>1. Forwarders(n, ms, cs) \subseteq Node
  BY DEF Forwarders, Candidates
<1>2. \A f \in Forwarders(n, ms, cs) : Hybrid(f) \in Mode
  BY <1>1 DEF Mode
<1>3. QED
  BY <1>2 DEF Topologies, Mode, Knowledge

LEMMA Settling ==
    ASSUME Knowledge, NEW n \in Node, NEW x \in Mode, Settles(n, x)
    PROVE  mode' \in [Node -> Mode]
BY DEF Settles, Knowledge

-----------------------------------------------------------------------------
(* Types.                                                                   *)

LEMMA TypesInit == Init => Types
<1> SUFFICES ASSUME Init PROVE Types
  OBVIOUS
<1>1. PICK g \in Groups :
        /\ conn = [n \in Node |-> IF n \in g THEN g \ {n} ELSE {}]
        /\ peers = conn /\ members = conn
        /\ caps = [n \in Node |-> [m \in Node |->
                      m \in (IF n \in g THEN g \ {n} ELSE {}) \intersect Capable]]
        /\ key = [n \in Node |-> {}]
        /\ ready = key
        /\ heard = [n \in Node |-> [m \in Node |-> 0]]
        /\ spoken = [n \in Node |-> 0]
        /\ link = [n \in Node |-> [m \in Node |-> <<>>]]
  BY DEF Init
<1>2. mode \in [Node -> Mode]
  <2>1. PICK h \in Groups :
          LET relays == {m \in h : m \in Capable}
              modes == IF Cardinality(h) <= MeshMax \/ ~GroupKey \/ relays = {} THEN {Mesh}
                       ELSE IF Min(h) \in relays THEN {Hybrid(Min(h))}
                       ELSE {Hybrid(f) : f \in relays}
          IN \E x \in modes : mode = [n \in Node |-> IF n \in h THEN x ELSE Mesh]
    BY DEF Init
  <2>2. h \subseteq Node
    BY GroupAssumption
  <2>3. Mesh \in Mode /\ \A f \in Node : Hybrid(f) \in Mode
    BY DEF Mode
  <2>4. QED
    BY <2>1, <2>2, <2>3
<1>3. g \subseteq Node
  BY GroupAssumption
<1>4. Tables
  BY <1>1, <1>3 DEF Tables
<1>5. Links(link, conn)
  BY <1>1, Empty DEF Links
<1>6. Keys
  BY <1>1 DEF Keys
<1>7. Knowledge
  BY <1>1, <1>2 DEF Knowledge
<1>8. Counts
  BY <1>1 DEF Counts
<1>9. QED
  BY <1>4, <1>5, <1>6, <1>7, <1>8 DEF Types

LEMMA ConnectTypes ==
    ASSUME Types, NEW n \in Node, NEW m \in Node, Connect(n, m)
    PROVE  Types'
<1>1. n # m
  BY DEF Connect
<1>2. /\ conn' = [conn EXCEPT ![n] = @ \union {m}, ![m] = @ \union {n}]
      /\ UNCHANGED <<peers, members>>
  BY DEF Connect
<1>3. \A k \in Node : conn'[k] = conn[k] \union (IF k = n THEN {m} ELSE IF k = m THEN {n} ELSE {})
  BY <1>1, <1>2 DEF Types, Tables
<1>4. Tables'
  BY <1>1, <1>2, <1>3 DEF Types, Tables
<1>5. Links(link', conn')
  <2>1. link' = [link EXCEPT ![n][m] = Greeting(n), ![m][n] = Greeting(m)]
    BY DEF Connect
  <2>2. /\ Greeting(n) \in Seq(Frame) /\ Strange(Greeting(n), m)
        /\ Greeting(m) \in Seq(Frame) /\ Strange(Greeting(m), n)
    BY Greetings DEF Types
  <2>3. link' \in [Node -> [Node -> Seq(Frame)]]
    BY <2>1, <2>2 DEF Types, Links
  <2>4. ASSUME NEW k \in Node, NEW l \in Node
        PROVE  link'[k][l] = IF k = n /\ l = m THEN Greeting(n)
                             ELSE IF k = m /\ l = n THEN Greeting(m) ELSE link[k][l]
    BY <1>1, <2>1 DEF Types, Links
  <2>5. ASSUME NEW k \in Node, NEW l \in Node
        PROVE  Strange(link'[k][l], l)
    BY <2>2, <2>4 DEF Types, Links
  <2>6. ASSUME NEW k \in Node, NEW l \in Node, link'[k][l] # <<>>
        PROVE  k \in conn'[l]
    <3>1. CASE k = n /\ l = m
      BY <3>1, <1>1, <1>3
    <3>2. CASE k = m /\ l = n
      BY <3>2, <1>1, <1>3
    <3>3. CASE ~(k = n /\ l = m) /\ ~(k = m /\ l = n)
      BY <3>3, <2>4, <2>6, <1>3 DEF Types, Links
    <3>4. QED
      BY <3>1, <3>2, <3>3
  <2>7. QED
    BY <2>3, <2>5, <2>6 DEF Links
<1>6. Keys'
  BY DEF Connect, Types, Keys
<1>7. Knowledge'
  BY DEF Connect, history, Types, Knowledge
<1>8. Counts'
  BY DEF Connect, Types, Counts
<1>9. QED
  BY <1>4, <1>5, <1>6, <1>7, <1>8 DEF Types

LEMMA DisconnectTypes ==
    ASSUME Types, NEW n \in Node, NEW m \in Node, Disconnect(n, m)
    PROVE  Types'
<1>1. /\ conn' = [conn EXCEPT ![n] = @ \ {m}]
      /\ peers' = [peers EXCEPT ![n] = @ \ {m}]
      /\ key' = [key EXCEPT ![n] = @ \ {m}]
      /\ link' = [link EXCEPT ![m][n] = <<>>]
      /\ UNCHANGED <<members, caps, mode, ready, heard, spoken, played>>
  BY DEF Disconnect
<1>2. Tables'
  BY <1>1 DEF Types, Tables
<1>3. Links(link', conn')
  <2>1. link' \in [Node -> [Node -> Seq(Frame)]]
    BY <1>1 DEF Types, Links
  <2>2. ASSUME NEW k \in Node, NEW l \in Node
        PROVE  /\ link'[k][l] # <<>> => k \in conn'[l]
               /\ Strange(link'[k][l], l)
    <3>1. CASE k = m /\ l = n
      BY <3>1, <1>1, Empty DEF Types, Links
    <3>2. CASE ~(k = m /\ l = n)
      <4>1. link'[k][l] = link[k][l]
        BY <3>2, <1>1 DEF Types, Links
      <4>2. k \in conn[l] => k \in conn'[l] \/ (l = n /\ k = m)
        BY <1>1 DEF Types, Tables
      <4>3. QED
        BY <4>1, <4>2, <3>2 DEF Types, Links
    <3>3. QED
      BY <3>1, <3>2
  <2>3. QED
    BY <2>1, <2>2 DEF Links
<1>4. Keys'
  BY <1>1 DEF Types, Keys
<1>5. Knowledge' /\ Counts'
  BY <1>1 DEF Types, Knowledge, Counts
<1>6. QED
  BY <1>2, <1>3, <1>4, <1>5 DEF Types

LEMMA ExchangeTypes ==
    ASSUME Types, NEW n \in Node, NEW m \in Node, Exchange(n, m)
    PROVE  Types'
<1>1. Keys'
  <2>1. /\ key' = [key EXCEPT ![n] = @ \union {m}, ![m] = @ \union {n}]
        /\ ready' = [ready EXCEPT ![n] = @ \union {m}, ![m] = @ \union {n}]
    BY DEF Exchange
  <2>2. key' \in [Node -> SUBSET Node] /\ ready' \in [Node -> SUBSET Node]
    BY <2>1 DEF Types, Keys
  <2>3. \A k \in Node : key'[k] \subseteq ready'[k]
    BY <2>1 DEF Types, Keys
  <2>4. QED
    BY <2>2, <2>3 DEF Keys
<1>2. UNCHANGED <<conn, peers, members, caps, mode, heard, spoken, link>>
  BY DEF Exchange
<1>3. Links(link', conn')
  BY <1>2 DEF Types
<1>4. QED
  BY <1>1, <1>2, <1>3 DEF Types, Tables, Knowledge, Counts

(* What a node speaks goes to its peers, of which it is none.               *)
LEMMA SpeakTypes ==
    ASSUME Types, NEW n \in Node, Speak(n)
    PROVE  Types'
<1> DEFINE k == spoken[n] + 1
           frames(m) == {Voice(n, k, s) : s \in Seals(n, m)}
           fs == [m \in Node |-> IF m \in Audience(n) THEN SetToSeq(frames(m)) ELSE <<>>]
<1>1. /\ spoken' = [spoken EXCEPT ![n] = k]
      /\ link' = Posted(link, n, fs)
      /\ UNCHANGED <<conn, peers, members, caps, mode, key, ready, heard, played>>
  BY DEF Speak
<1>2. k \in Nat
  BY DEF Types, Counts
<1>3. ASSUME NEW m \in Node
      PROVE  SetToSeq(frames(m)) \in Seq(VoiceFrame) /\ SetToSeq(frames(m)) \in Seq(frames(m))
  <2>1. Seals(n, m) = {} \/ \E s \in SealKind : Seals(n, m) = {s}
    <3>1. Clear \in SealKind /\ Channel \in SealKind /\ {n, m} \in SealKind
      BY DEF SealKind
    <3>2. \/ Seals(n, m) = {} \/ Seals(n, m) = {Clear}
          \/ Seals(n, m) = {Channel} \/ Seals(n, m) = {{n, m}}
      BY DEF Seals
    <3>3. QED
      BY <3>1, <3>2
  <2>2. \E x : frames(m) = {} \/ frames(m) = {x}
    BY <2>1
  <2>3. SetToSeq(frames(m)) \in Seq(frames(m))
    BY <2>2, SmallSeq
  <2>4. 0 \in 0..MaxHops
    BY GroupAssumption
  <2>5. \A s \in SealKind : Voice(n, k, s) \in VoiceFrame
    BY <1>2, <2>4 DEF Voice, VoiceFrame
  <2>6. frames(m) \subseteq VoiceFrame
    BY <2>1, <2>5
  <2>7. QED
    BY <2>3, <2>6
<1>4. ASSUME NEW m \in Node, NEW i \in 1..Len(SetToSeq(frames(m)))
      PROVE  SetToSeq(frames(m))[i].src = n
  <2>1. \A x \in frames(m) : x.src = n
    BY DEF Voice
  <2> HIDE DEF frames
  <2>2. SetToSeq(frames(m))[i] \in frames(m)
    BY <1>3
  <2>3. QED
    BY <2>1, <2>2
<1>5. n \notin Audience(n)
  BY DEF Audience, Types, Tables
<1>6. Seq(VoiceFrame) \subseteq Seq(Frame)
  BY FrameKinds
<1> HIDE DEF frames, k
<1>7. Post(fs)
  <2>1. \A m \in Node : fs[m] \in Seq(Frame)
    BY <1>3, <1>6, Empty
  <2>2. \A m \in Node : Strange(fs[m], m)
    BY <1>4, <1>5, Empty DEF Strange
  <2>3. QED
    BY <2>1, <2>2 DEF Post
<1> HIDE DEF fs
<1>8. Links(link', conn')
  BY <1>1, <1>7, PostedLinks DEF Types
<1>9. Tables' /\ Keys' /\ Knowledge'
  BY <1>1 DEF Types, Tables, Keys, Knowledge
<1>10. Counts'
  BY <1>1, <1>2 DEF Types, Counts
<1>11. QED
  BY <1>8, <1>9, <1>10 DEF Types

(* A frame of m is the next that n receives.                                *)
Arrives(n, m) == link[m][n] # <<>>

LEMMA Arriving ==
    ASSUME Types, NEW n \in Node, NEW m \in Node, Arrives(n, m)
    PROVE  /\ Links(Taken(n, m), conn)
           /\ m \in conn[n] /\ m # n
           /\ Head(link[m][n]) \in Frame
           /\ Head(link[m][n]).type = "Voice" => Head(link[m][n]).src # n
<1>1. link[m][n] \in Seq(Frame) /\ link[m][n] # <<>> /\ Strange(link[m][n], n)
  BY DEF Arrives, Types, Links
<1>2. Head(link[m][n]) \in Frame /\ Head(link[m][n]) = link[m][n][1] /\ Len(link[m][n]) > 0
  BY <1>1, HeadType
<1>3. 1 \in 1..Len(link[m][n])
  BY <1>1, <1>2
<1>4. Head(link[m][n]).type = "Voice" => Head(link[m][n]).src # n
  BY <1>1, <1>2, <1>3 DEF Strange
<1>5. m \in conn[n] /\ m # n
  BY <1>1 DEF Types, Links, Tables
<1>6. QED
  BY <1>2, <1>4, <1>5, TakenLinks DEF Arrives, Types

LEMMA RecvJoinTypes ==
    ASSUME Types, NEW n \in Node, NEW m \in Node, Arrives(n, m), RecvJoin(n, m)
    PROVE  Types'
<1> DEFINE ms == members[n] \union {m}
           ps == peers[n] \union {m}
           lists == [k \in Node |-> IF k \in ps THEN <<[type |-> "PeerList",
                                       peers |-> {Entry(p, caps[n]) : p \in ps}]>> ELSE <<>>]
           fs(x) == [k \in Node |-> Announced(n, ms, x, ps)[k]
                       \o IF k \in ps THEN <<[type |-> "PeerList",
                                       peers |-> {Entry(p, caps[n]) : p \in ps}]>> ELSE <<>>]
<1>1. /\ peers' = [peers EXCEPT ![n] = ps]
      /\ members' = [members EXCEPT ![n] = ms]
      /\ UNCHANGED <<conn, caps, key, ready, heard, spoken, played>>
  BY DEF RecvJoin
<1>2. PICK x \in Topologies(n, ms, caps[n]) :
        Settles(n, x) /\ link' = Posted(Taken(n, m), n, fs(x))
  BY DEF RecvJoin
<1>3. m \in conn[n] /\ m # n /\ Links(Taken(n, m), conn)
  BY Arriving
<1>4. ms \in SUBSET Node /\ ps \in SUBSET Node
  BY DEF Types, Tables
<1>5. x \in Mode
  BY <1>2, <1>4, TopologyModes DEF Types
<1>6. Post(fs(x))
  <2>1. Post(Announced(n, ms, x, ps))
    BY <1>5, Announcement
  <2>2. Post(lists)
    BY <1>4, ListFrames, Empty DEF Post, Types
  <2>3. \A k \in Node : fs(x)[k] = Announced(n, ms, x, ps)[k] \o lists[k]
    OBVIOUS
  <2>4. fs(x) = [k \in Node |-> fs(x)[k]]
    OBVIOUS
  <2> HIDE DEF fs, lists
  <2>5. \A k \in Node : fs(x)[k] \in Seq(Frame) /\ Strange(fs(x)[k], k)
    BY <2>1, <2>2, <2>3, StrangeConcat DEF Post
  <2>6. QED
    BY <2>4, <2>5 DEF Post
<1> HIDE DEF fs
<1>7. Links(link', conn')
  BY <1>1, <1>2, <1>3, <1>6, PostedLinks DEF Types
<1>8. Tables'
  BY <1>1, <1>3 DEF Types, Tables
<1>9. Knowledge'
  BY <1>1, <1>2, <1>5, Settling DEF Types, Knowledge
<1>10. Keys' /\ Counts'
  BY <1>1 DEF Types, Keys, Counts
<1>11. QED
  BY <1>7, <1>8, <1>9, <1>10 DEF Types

LEMMA RecvPeerStateTypes ==
    ASSUME Types, NEW n \in Node, NEW m \in Node, Arrives(n, m), RecvPeerState(n, m)
    PROVE  Types'
<1>1. Head(link[m][n]) \in StateFrame
  BY Arriving, FrameKinds DEF RecvPeerState
<1>2. Links(Taken(n, m), conn)
  BY Arriving
<1>3. caps' \in [Node -> [Node -> BOOLEAN]]
  BY <1>1 DEF RecvPeerState, Types, Knowledge, StateFrame
<1>4. /\ link' = Taken(n, m)
      /\ UNCHANGED <<conn, peers, members, mode, key, ready, heard, spoken>>
  BY DEF RecvPeerState
<1>5. Links(link', conn')
  BY <1>2, <1>4
<1>6. QED
  BY <1>3, <1>4, <1>5 DEF Types, Tables, Keys, Knowledge, Counts

LEMMA RecvPeerListTypes ==
    ASSUME Types, NEW n \in Node, NEW m \in Node, Arrives(n, m), RecvPeerList(n, m)
    PROVE  Types'
<1> DEFINE ms == members[n] \union Listed(n, Head(link[m][n]).peers)
<1>1. /\ members' = [members EXCEPT ![n] = ms]
      /\ UNCHANGED <<conn, peers, caps, key, ready, heard, spoken, played>>
  BY DEF RecvPeerList
<1>2. PICK x \in Topologies(n, ms, caps[n]) :
        /\ Settles(n, x)
        /\ link' = Posted(Taken(n, m), n, Announced(n, ms, x, peers[n]))
  BY DEF RecvPeerList
<1>3. Head(link[m][n]) \in ListFrame
  BY Arriving, FrameKinds DEF RecvPeerList
<1>4. ms \in SUBSET Node /\ (n \notin members[n] => n \notin ms)
  BY <1>3 DEF Listed, ListFrame, Types, Tables
<1> HIDE DEF ms
<1>5. x \in Mode
  BY <1>2, <1>4, TopologyModes DEF Types
<1>6. Post(Announced(n, ms, x, peers[n]))
  BY <1>5, Announcement
<1>7. Links(Taken(n, m), conn)
  BY Arriving
<1>8. Links(link', conn')
  BY <1>1, <1>2, <1>6, <1>7, PostedLinks DEF Types
<1>9. Tables'
  BY <1>1, <1>4 DEF Types, Tables
<1>10. Knowledge'
  BY <1>1, <1>2, <1>5, Settling DEF Types, Knowledge
<1>11. Keys' /\ Counts'
  BY <1>1 DEF Types, Keys, Counts
<1>12. QED
  BY <1>8, <1>9, <1>10, <1>11 DEF Types

LEMMA RecvTopologyTypes ==
    ASSUME Types, NEW n \in Node, NEW m \in Node, Arrives(n, m), RecvTopology(n, m)
    PROVE  Types'
<1>1. Head(link[m][n]) \in TopologyFrame
  BY Arriving, FrameKinds DEF RecvTopology
<1>2. Head(link[m][n]).mode \in Mode
  BY <1>1 DEF TopologyFrame
<1>3. Settles(n, Head(link[m][n]).mode)
  BY DEF RecvTopology
<1>4. mode' \in [Node -> Mode]
  BY <1>2, <1>3, Settling DEF Types
<1>5. /\ link' = Taken(n, m)
      /\ UNCHANGED <<conn, peers, members, caps, key, ready, heard, spoken>>
  BY DEF RecvTopology
<1>6. Links(link', conn')
  BY <1>5, Arriving
<1>7. QED
  BY <1>4, <1>5, <1>6 DEF Types, Tables, Keys, Knowledge, Counts

LEMMA RecvVoiceTypes ==
    ASSUME Types, NEW n \in Node, NEW m \in Node, Arrives(n, m), RecvVoice(n, m)
    PROVE  Types'
<1> DEFINE f == Head(link[m][n])
           sealed == IF f.seal # Clear THEN Forwarded(n, f) ELSE Nothing
           opened == IF Fresh(n, f) THEN Forwarded(n, [f EXCEPT !.seal = Clear]) ELSE Nothing
           fs == [k \in Node |-> sealed[k] \o opened[k]]
<1>1. /\ link' = Posted(Taken(n, m), n, fs)
      /\ UNCHANGED <<conn, peers, members, caps, mode, key, ready, spoken>>
      /\ heard' = heard \/ heard' = [heard EXCEPT ![n][f.src] = f.seq]
  BY DEF RecvVoice
<1>2. f \in VoiceFrame
  BY Arriving, FrameKinds DEF RecvVoice
<1>3. [f EXCEPT !.seal = Clear] \in VoiceFrame
  BY <1>2 DEF VoiceFrame, SealKind
<1>4. Post(sealed) /\ Post(opened)
  BY <1>2, <1>3, Forwarding, NothingPost DEF Types
<1> HIDE DEF sealed, opened
<1>5. Post(fs)
  <2>1. \A k \in Node : fs[k] = sealed[k] \o opened[k]
    OBVIOUS
  <2>2. \A k \in Node : fs[k] \in Seq(Frame) /\ Strange(fs[k], k)
    BY <2>1, <1>4, StrangeConcat DEF Post
  <2>3. QED
    BY <2>2 DEF Post
<1> HIDE DEF fs
<1>6. Links(link', conn')
  BY <1>1, <1>5, Arriving, PostedLinks DEF Types
<1>7. heard' \in [Node -> [Node -> Nat]]
  BY <1>1, <1>2 DEF Types, Counts, VoiceFrame
<1>8. QED
  BY <1>1, <1>6, <1>7 DEF Types, Tables, Keys, Knowledge, Counts

LEMMA TypesStep ==
    ASSUME Types, [Next]_vars PROVE Types'
<1>1. CASE UNCHANGED vars
  <2>1. UNCHANGED tables /\ link' = link
    BY <1>1 DEF vars
  <2>2. Links(link', conn')
    BY <2>1 DEF Types, tables
  <2>3. QED
    BY <2>1, <2>2 DEF tables, Types, Tables, Keys, Knowledge, Counts
<1>2. ASSUME NEW n \in Node, Speak(n) PROVE Types'
  BY <1>2, SpeakTypes
<1>3. ASSUME NEW n \in Node, NEW m \in Node, Connect(n, m) PROVE Types'
  BY <1>3, ConnectTypes
<1>4. ASSUME NEW n \in Node, NEW m \in Node, Disconnect(n, m) PROVE Types'
  BY <1>4, DisconnectTypes
<1>5. ASSUME NEW n \in Node, NEW m \in Node, Exchange(n, m) PROVE Types'
  BY <1>5, ExchangeTypes
<1>6. ASSUME NEW n \in Node, NEW m \in Node, Receive(n, m) PROVE Types'
  <2>1. Arrives(n, m)
    BY <1>6 DEF Receive, Arrives
  <2>2. \/ RecvJoin(n, m) \/ RecvPeerState(n, m) \/ RecvPeerList(n, m)
        \/ RecvTopology(n, m) \/ RecvVoice(n, m)
    BY <1>6 DEF Receive
  <2>3. QED
    BY <2>1, <2>2, RecvJoinTypes, RecvPeerStateTypes, RecvPeerListTypes,
       RecvTopologyTypes, RecvVoiceTypes
<1>7. QED
  BY <1>1, <1>2, <1>3, <1>4, <1>5, <1>6 DEF Next

(* Spec => []TypeOK: the tables name other nodes only, peers have a         *)
(* connection, and every frame on its way is well formed.                   *)
THEOREM TypeCorrect == Spec => []TypeOK
<1>1. Types => TypeOK
  <2> SUFFICES ASSUME Types PROVE TypeOK
    OBVIOUS
  <2>1. \A n \in Node : link[n][n] = <<>>
    BY DEF Types, Tables, Links
  <2>2. /\ peers \in [Node -> SUBSET Node]
        /\ \A n \in Node : /\ conn[n] \subseteq Node \ {n}
                           /\ peers[n] \subseteq conn[n]
                           /\ members[n] \subseteq Node \ {n}
    BY DEF Types, Tables
  <2>3. link \in [Node -> [Node -> Seq(Frame)]]
    BY DEF Types, Links
  <2>4. QED
    BY <2>1, <2>2, <2>3 DEF TypeOK, Types, Keys, Knowledge, Counts
<1>2. QED
  BY TypesInit, TypesStep, <1>1, PTL DEF Spec

-----------------------------------------------------------------------------
(* What is played.                                                          *)

LEMMA OrderInit == Init => Order
<1> SUFFICES ASSUME Init PROVE Order
  OBVIOUS
<1>1. /\ played = [n \in Node |-> [m \in Node |-> <<>>]]
      /\ heard = [n \in Node |-> [m \in Node |-> 0]]
  BY DEF Init
<1>2. \A t : Growing(<<>>, t)
  BY DEF Growing
<1>3. QED
  BY <1>1, <1>2 DEF Order

LEMMA Grown ==
    ASSUME NEW s, NEW top \in Nat, NEW k \in Nat, Growing(s, top), k > top
    PROVE  Growing(Append(s, k), k)
<1>1. /\ Append(s, k) \in Seq(Nat) /\ Len(Append(s, k)) = Len(s) + 1 /\ Len(s) \in Nat
      /\ \A i \in 1..Len(s) : Append(s, k)[i] = s[i] /\ s[i] \in Nat
      /\ Append(s, k)[Len(s) + 1] = k
  BY DEF Growing
<1>2. ASSUME NEW i \in 1..(Len(s) + 1) PROVE Append(s, k)[i] <= k
  BY <1>1 DEF Growing
<1>3. ASSUME NEW i \in 1..Len(s) PROVE Append(s, k)[i] < Append(s, k)[i + 1]
  <2>1. CASE i = Len(s)
    BY <2>1, <1>1 DEF Growing
  <2>2. CASE i # Len(s)
    <3>1. i \in 1..(Len(s) - 1) /\ i + 1 \in 1..Len(s)
      BY <2>2, <1>1
    <3>2. QED
      BY <3>1, <1>1 DEF Growing
  <2>3. QED
    BY <2>1, <2>2
<1>4. Len(Append(s, k)) - 1 = Len(s)
  BY <1>1
<1>5. QED
  BY <1>1, <1>2, <1>3, <1>4 DEF Growing

(* Only a frame that is later than the last one is played, and it was       *)
(* spoken by somebody else.                                                 *)
LEMMA VoiceOrder ==
    ASSUME Types, Order, NEW n \in Node, NEW m \in Node, Arrives(n, m), RecvVoice(n, m)
    PROVE  Order'
<1> DEFINE f == Head(link[m][n])
<1>1. f \in VoiceFrame /\ f.src # n
  BY Arriving, FrameKinds DEF RecvVoice
<1>2. f.src \in Node /\ f.seq \in Nat
  BY <1>1 DEF VoiceFrame
<1>3. CASE ~Fresh(n, f)
  BY <1>3 DEF RecvVoice, Order
<1>4. CASE Fresh(n, f)
  <2>1. /\ heard' = [heard EXCEPT ![n][f.src] = f.seq]
        /\ played' = [played EXCEPT ![n][f.src] = Append(@, f.seq)]
        /\ f.seq > heard[n][f.src]
    BY <1>4 DEF RecvVoice, Fresh
  <2> HIDE DEF f
  <2>2. heard[n][f.src] \in Nat
    BY <1>2 DEF Types, Counts
  <2>3. Growing(played[n][f.src], heard[n][f.src])
    BY <1>2 DEF Order
  <2>4. Growing(Append(played[n][f.src], f.seq), f.seq)
    BY <1>2, <2>1, <2>2, <2>3, Grown
  <2>5. played' \in [Node -> [Node -> Seq(Nat)]]
    BY <1>2, <2>1, <2>4 DEF Order, Growing
  <2>6. ASSUME NEW k \in Node, NEW l \in Node
        PROVE  Growing(played'[k][l], heard'[k][l]) /\ (k = l => played'[k][l] = <<>>)
    <3>1. CASE k = n /\ l = f.src
      <4>1. played'[k][l] = Append(played[n][f.src], f.seq) /\ heard'[k][l] = f.seq
        BY <3>1, <2>1, <1>2 DEF Order, Types, Counts
      <4>2. QED
        BY <4>1, <2>4, <1>1, <3>1
    <3>2. CASE ~(k = n /\ l = f.src)
      <4>1. played'[k][l] = played[k][l] /\ heard'[k][l] = heard[k][l]
        BY <3>2, <2>1, <1>2 DEF Order, Types, Counts
      <4>2. QED
        BY <4>1 DEF Order
    <3>3. QED
      BY <3>1, <3>2
  <2>7. QED
    BY <2>5, <2>6 DEF Order
<1>5. QED
  BY <1>3, <1>4

LEMMA OrderStep ==
    ASSUME Types, Order, [Next]_vars PROVE Order'
<1>1. CASE UNCHANGED <<heard, played>>
  BY <1>1 DEF Order
<1>2. CASE \E n, m \in Node : Arrives(n, m) /\ RecvVoice(n, m)
  BY <1>2, VoiceOrder
<1>3. CASE UNCHANGED vars
  BY <1>1, <1>3 DEF vars, tables, history
<1>4. ASSUME NEW n \in Node, Speak(n) PROVE UNCHANGED <<heard, played>>
  BY <1>4 DEF Speak
<1>5. ASSUME NEW n \in Node, NEW m \in Node,
             Connect(n, m) \/ Disconnect(n, m) \/ Exchange(n, m)
      PROVE  UNCHANGED <<heard, played>>
  BY <1>5 DEF Connect, Disconnect, Exchange, history
<1>6. ASSUME NEW n \in Node, NEW m \in Node, Receive(n, m)
      PROVE  UNCHANGED <<heard, played>> \/ (Arrives(n, m) /\ RecvVoice(n, m))
  <2>1. \/ RecvJoin(n, m) \/ RecvPeerState(n, m) \/ RecvPeerList(n, m)
        \/ RecvTopology(n, m) \/ RecvVoice(n, m)
    BY <1>6 DEF Receive
  <2>2. Arrives(n, m)
    BY <1>6 DEF Receive, Arrives
  <2>3. RecvJoin(n, m) => UNCHANGED <<heard, played>>
    BY DEF RecvJoin
  <2>4. RecvPeerState(n, m) => UNCHANGED <<heard, played>>
    BY DEF RecvPeerState, history
  <2>5. RecvPeerList(n, m) => UNCHANGED <<heard, played>>
    BY DEF RecvPeerList
  <2>6. RecvTopology(n, m) => UNCHANGED <<heard, played>>
    BY DEF RecvTopology
  <2>7. QED
    BY <2>1, <2>2, <2>3, <2>4, <2>5, <2>6
<1>7. QED
  BY <1>1, <1>2, <1>3, <1>4, <1>5, <1>6 DEF Next

LEMMA OrderHolds == Spec => [](Types /\ Order)
BY TypesInit, TypesStep, OrderInit, OrderStep, PTL DEF Spec

(* Spec => []PlayedInOrder: handle_frame's comparison with voice_seq keeps  *)
(* out every copy that comes twice or late, by whichever forwarder, before  *)
(* or after disconnects and key exchanges.                                  *)
THEOREM InOrder == Spec => []PlayedInOrder
<1>1. Order => PlayedInOrder
  BY DEF Order, Growing, PlayedInOrder
<1>2. QED
  BY OrderHolds, <1>1, PTL

(* Spec => []NoEcho: forward_group_voice never sends a frame to its source, *)
(* and broadcast_voice none to oneself, so no path leads back.              *)
THEOREM Echoless == Spec => []NoEcho
<1>1. Order => NoEcho
  BY DEF Order, NoEcho
<1>2. QED
  BY OrderHolds, <1>1, PTL

-----------------------------------------------------------------------------
(* AllHear.  A frame spoken in settled times has one way to each listener,  *)
(* on which nothing that its speaker said later is before it.               *)

Newer(f, s, k) == f.type = "Voice" /\ f.src = s /\ f.seq > k
Copy(f, s, k)  == f.type = "Voice" /\ f.src = s /\ f.seq = k

(* In queue q nothing is newer than frame k of s, or a copy comes before it.*)
Clean(q, s, k) == \A i \in 1..Len(q) : ~Newer(q[i], s, k)
Leads(q, s, k) ==
    \E i \in 1..Len(q) : Copy(q[i], s, k) /\ \A j \in 1..(i - 1) : ~Newer(q[j], s, k)

(* Settled, without what is on its way.                                     *)
Steady ==
    /\ \A n, m \in Node : /\ n # m => m \in peers[n] /\ m \in members[n] /\ m \in conn[n]
                          /\ mode[n] = mode[m]
    /\ \A n \in Node : mode[n].kind = "hybrid" => key[n] = {}
    /\ \A n, m \in Node : n # m => GroupKey \/ m \in key[n]
    /\ \A n, m \in Node : m \in key[n] <=> n \in key[m]

AllVoice(links) == \A a, b \in Node : \A i \in 1..Len(links[a][b]) : links[a][b][i].type = "Voice"

(* The node from which b gets what s says.                                  *)
From(s, b) ==
    IF mode[s].kind = "hybrid" /\ mode[s].forwarder \notin {s, b} THEN mode[s].forwarder ELSE s

(* What was spoken since the first frame that is still owed travels on no   *)
(* other way, and can be opened.                                            *)
Awaited(ow, f) == \E o \in ow : o.src = f.src /\ o.seq <= f.seq
Fits(f, a, b) ==
    /\ a = From(f.src, b)
    /\ Opens(b, f)
    /\ a = f.src => f.hops = 0 /\ (mode[b] = Hybrid(b) => f.seal = Channel)
Regular(links, ow) ==
    \A a, b \in Node : \A i \in 1..Len(links[a][b]) :
       Awaited(ow, links[a][b][i]) => Fits(links[a][b][i], a, b)

Coming(links, o) ==
    LET a == From(o.src, o.by)
    IN  \/ Leads(links[a][o.by], o.src, o.seq)
        \/ /\ a # o.src
           /\ Clean(links[a][o.by], o.src, o.seq)
           /\ Leads(links[o.src][a], o.src, o.seq)

(* Nothing is heard before it is spoken.                                    *)
Said(f) == f.type = "Voice" => f.seq <= spoken[f.src]
Uttered(links) == \A a, b \in Node : \A i \in 1..Len(links[a][b]) : Said(links[a][b][i])
Spoken ==
    /\ \A n, m \in Node : heard[n][m] <= spoken[m]
    /\ Uttered(link)

Owed ==
    \A o \in owed : /\ o \in [src : Node, seq : Nat, by : Node]
                    /\ o.src \in Node /\ o.by \in Node /\ o.src # o.by
                    /\ o.seq \in Nat /\ o.seq <= spoken[o.src]
                    /\ heard[o.by][o.src] < o.seq

UnderWay ==
    owed # {} => /\ Steady /\ AllVoice(link)
                 /\ Regular(link, owed)
                 /\ \A o \in owed : Coming(link, o)

HearInv == Spoken /\ Owed /\ UnderWay

LEMMA LeadsConcat ==
    ASSUME NEW q \in Seq(Frame), NEW r \in Seq(Frame), NEW s, NEW k
    PROVE  /\ Leads(q, s, k) => Leads(q \o r, s, k)
           /\ Clean(q, s, k) /\ Leads(r, s, k) => Leads(q \o r, s, k)
           /\ Clean(q, s, k) /\ Clean(r, s, k) => Clean(q \o r, s, k)
<1>1. /\ Len(q \o r) = Len(q) + Len(r) /\ Len(q) \in Nat /\ Len(r) \in Nat
      /\ \A i \in 1..Len(q) : (q \o r)[i] = q[i]
      /\ \A i \in 1..Len(r) : (q \o r)[i + Len(q)] = r[i]
  OBVIOUS
<1>2. \A i \in 1..Len(q \o r) : i \in 1..Len(q) \/ (i - Len(q) \in 1..Len(r) /\ i = (i - Len(q)) + Len(q))
  BY <1>1
<1>3. ASSUME Leads(q, s, k)
      PROVE  Leads(q \o r, s, k)
  <2>1. PICK i \in 1..Len(q) : Copy(q[i], s, k) /\ \A j \in 1..(i - 1) : ~Newer(q[j], s, k)
    BY <1>3 DEF Leads
  <2>2. i \in 1..Len(q \o r) /\ \A j \in 1..(i - 1) : j \in 1..Len(q)
    BY <1>1
  <2>3. QED
    BY <1>1, <2>1, <2>2 DEF Leads
<1>4. ASSUME Clean(q, s, k), Leads(r, s, k)
      PROVE  Leads(q \o r, s, k)
  <2>1. PICK i \in 1..Len(r) : Copy(r[i], s, k) /\ \A j \in 1..(i - 1) : ~Newer(r[j], s, k)
    BY <1>4 DEF Leads
  <2>2. i + Len(q) \in 1..Len(q \o r) /\ Copy((q \o r)[i + Len(q)], s, k)
    BY <1>1, <2>1
  <2>3. ASSUME NEW j \in 1..(i + Len(q) - 1)
        PROVE  ~Newer((q \o r)[j], s, k)
    <3>1. CASE j \in 1..Len(q)
      BY <1>1, <1>4, <3>1 DEF Clean
    <3>2. CASE j \notin 1..Len(q)
      <4>1. j - Len(q) \in 1..(i - 1) /\ j - Len(q) \in 1..Len(r) /\ j = (j - Len(q)) + Len(q)
        BY <1>1, <3>2
      <4>2. QED
        BY <1>1, <2>1, <4>1
    <3>3. QED
      BY <3>1, <3>2
  <2>4. QED
    BY <2>2, <2>3 DEF Leads
<1>5. ASSUME Clean(q, s, k), Clean(r, s, k)
      PROVE  Clean(q \o r, s, k)
  BY <1>1, <1>2, <1>5 DEF Clean
<1>6. QED
  BY <1>3, <1>4, <1>5

LEMMA LeadsTail ==
    ASSUME NEW q \in Seq(Frame), q # <<>>, NEW s, NEW k
    PROVE  /\ Leads(q, s, k) => /\ ~Newer(Head(q), s, k) \/ Copy(Head(q), s, k)
                                /\ Copy(Head(q), s, k) \/ Leads(Tail(q), s, k)
           /\ Clean(q, s, k) => ~Newer(Head(q), s, k) /\ Clean(Tail(q), s, k)
<1>1. /\ Len(Tail(q)) = Len(q) - 1 /\ Len(q) \in Nat /\ Len(q) > 0 /\ Head(q) = q[1]
      /\ \A i \in 1..Len(Tail(q)) : Tail(q)[i] = q[i + 1]
  OBVIOUS
<1>2. ASSUME Leads(q, s, k)
      PROVE  /\ ~Newer(Head(q), s, k) \/ Copy(Head(q), s, k)
             /\ Copy(Head(q), s, k) \/ Leads(Tail(q), s, k)
  <2>1. PICK i \in 1..Len(q) : Copy(q[i], s, k) /\ \A j \in 1..(i - 1) : ~Newer(q[j], s, k)
    BY <1>2 DEF Leads
  <2>2. CASE i = 1
    BY <1>1, <2>1, <2>2
  <2>3. CASE i # 1
    <3>1. i - 1 \in 1..Len(Tail(q)) /\ (i - 1) + 1 = i /\ 1 \in 1..(i - 1)
      BY <1>1, <2>3
    <3>2. \A j \in 1..(i - 1 - 1) : j \in 1..Len(Tail(q)) /\ j + 1 \in 1..(i - 1)
      BY <1>1
    <3>3. QED
      BY <1>1, <2>1, <3>1, <3>2 DEF Leads
  <2>4. QED
    BY <2>2, <2>3
<1>3. ASSUME Clean(q, s, k)
      PROVE  ~Newer(Head(q), s, k) /\ Clean(Tail(q), s, k)
  <2>1. \A i \in 1..Len(Tail(q)) : i + 1 \in 1..Len(q)
    BY <1>1
  <2>2. 1 \in 1..Len(q)
    BY <1>1
  <2>3. QED
    BY <1>1, <1>3, <2>1, <2>2 DEF Clean
<1>4. QED
  BY <1>2, <1>3

(* The queues of a settled group.                                           *)
LEMMA SteadyPosted ==
    ASSUME Types, Steady, NEW links, Links(links, conn), NEW n \in Node, NEW fs
    PROVE  \A a, b \in Node :
              Posted(links, n, fs)[a][b] = IF a = n /\ b # n THEN links[a][b] \o fs[b] ELSE links[a][b]
<1>1. \A b \in Node : Linked(n, b) <=> b # n
  BY DEF Linked, Steady, Types, Tables
<1>2. QED
  BY <1>1 DEF Posted, Links

LEMMA SettledSteady ==
    ASSUME Types
    PROVE  Settled <=> Steady /\ AllVoice(link)
<1>1. link \in [Node -> [Node -> Seq(Frame)]]
  BY DEF Types, Links
<1> DEFINE Voices == [type : {"Voice"}, src : Node, seq : Nat, seal : SealKind, hops : Nat]
<1>2. ASSUME NEW a \in Node, NEW b \in Node
      PROVE  Range(link[a][b]) \subseteq Voices <=>
             \A i \in 1..Len(link[a][b]) : link[a][b][i].type = "Voice"
  <2>1. DOMAIN link[a][b] = 1..Len(link[a][b]) /\ \A i \in 1..Len(link[a][b]) : link[a][b][i] \in Frame
    BY <1>1
  <2>2. \A f \in Voices : f.type = "Voice"
    OBVIOUS
  <2>3. VoiceFrame \subseteq Voices
    BY GroupAssumption DEF VoiceFrame
  <2>4. \A f \in Frame : f.type = "Voice" => f \in Voices
    BY <2>3, FrameKinds
  <2> HIDE DEF Voices
  <2>5. QED
    BY <2>1, <2>2, <2>4 DEF Range
<1>3. \A a \in Node : link[a][a] = <<>>
  BY DEF Types, Tables, Links
<1>4. \A a \in Node : \A i \in 1..Len(link[a][a]) : link[a][a][i].type = "Voice"
  BY <1>3
<1>5. QED
  BY <1>2, <1>4 DEF Settled, Steady, AllVoice

LEMMA SteadyAudience ==
    ASSUME Types, Steady, NEW n \in Node, NEW m \in Node, n # m
    PROVE  m \in Audience(n) <=> From(n, m) = n
<1>1. m \in peers[n]
  BY DEF Steady
<1>2. mode[n] \in Mode
  BY DEF Types, Knowledge
<1>3. mode[n].kind = "hybrid" => mode[n].forwarder \in Node
  BY <1>2 DEF Mode, Hybrid, Mesh
<1>4. QED
  BY <1>1, <1>3 DEF Audience, From

(* In settled times each frame is sealed in one way, which its hearer opens.*)
LEMMA SteadySeals ==
    ASSUME Types, Steady, NEW n \in Node, NEW m \in Node, n # m
    PROVE  \E x \in SealKind :
              /\ Seals(n, m) = {x}
              /\ \A k : Opens(m, Voice(n, k, x))
              /\ mode[n].kind = "hybrid" => x = Channel
<1>1. /\ Clear \in SealKind /\ Channel \in SealKind /\ {n, m} \in SealKind
      /\ key[n] \subseteq ready[n]
  BY DEF SealKind, Types, Keys
<1>2. \A k, x : Voice(n, k, x).seal = x /\ Voice(n, k, x).src = n
  BY DEF Voice
<1>3. CASE mode[n].kind = "hybrid"
  <2>1. GroupKey /\ key[m] = {}
    <3>1. key[n] = {} /\ mode[m] = mode[n]
      BY <1>3 DEF Steady
    <3>2. QED
      BY <1>3, <3>1 DEF Steady
  <2>2. Seals(n, m) = {Channel}
    BY <1>3, <2>1 DEF Seals
  <2>3. \A k : Opens(m, Voice(n, k, Channel))
    BY <1>2, <2>1 DEF Opens
  <2>4. QED
    BY <1>1, <2>2, <2>3
<1>4. CASE mode[n].kind # "hybrid"
  <2>1. GroupKey \/ m \in key[n]
    BY DEF Steady
  <2>2. m \in key[n] <=> n \in key[m]
    BY DEF Steady
  <2>3. CASE m \notin ready[n]
    <3>1. Seals(n, m) = {Clear}
      BY <1>1, <1>4, <2>1, <2>3 DEF Seals
    <3>2. \A k : Opens(m, Voice(n, k, Clear))
      BY <1>2 DEF Opens
    <3>3. QED
      BY <1>1, <1>4, <3>1, <3>2
  <2>4. CASE m \in ready[n] /\ m \in key[n]
    <3>1. Seals(n, m) = {{n, m}}
      BY <1>4, <2>4 DEF Seals
    <3>2. \A k : Opens(m, Voice(n, k, {n, m}))
      BY <1>2, <2>2, <2>4 DEF Opens
    <3>3. QED
      BY <1>1, <1>4, <3>1, <3>2
  <2>5. CASE m \in ready[n] /\ m \notin key[n]
    <3>1. Seals(n, m) = {Channel}
      BY <1>4, <2>1, <2>5 DEF Seals
    <3>2. \A k : Opens(m, Voice(n, k, Channel))
      BY <1>2, <2>2, <2>5 DEF Opens
    <3>3. QED
      BY <1>1, <1>4, <3>1, <3>2
  <2>6. QED
    BY <2>3, <2>4, <2>5
<1>5. QED
  BY <1>3, <1>4

LEMMA SingleSeq ==
    ASSUME NEW x
    PROVE  SetToSeq({x}) = <<x>>
<1>1. SetToSeq({x}) \in Seq({x})
  BY SmallSeq
<1>2. Cardinality({x}) = 1
  BY FS_Singleton
<1>3. \E f \in [1..1 -> {x}] : IsInjective(f)
  <2>1. [i \in 1..1 |-> x] \in [1..1 -> {x}]
    OBVIOUS
  <2>2. IsInjective([i \in 1..1 |-> x])
    BY DEF IsInjective
  <2>3. QED
    BY <2>1, <2>2
<1>4. SetToSeq({x}) \in [1..1 -> {x}]
  BY <1>2, <1>3 DEF SetToSeq
<1>5. Len(SetToSeq({x})) = 1 /\ SetToSeq({x})[1] = x
  BY <1>1, <1>4
<1>6. QED
  BY <1>1, <1>5

(* What a node says in settled times.                                       *)
LEMMA SteadySpeaks ==
    ASSUME Types, Steady, NEW n \in Node, Speak(n)
    PROVE  \A b \in Node : b # n =>
              \E q \in Seq(Frame) :
                 /\ link'[n][b] = link[n][b] \o q
                 /\ From(n, b) # n => q = <<>>
                 /\ From(n, b) = n =>
                       Len(q) = 1 /\ Copy(q[1], n, spoken[n] + 1) /\ Fits(q[1], n, b)
<1> DEFINE k == spoken[n] + 1
           fs == [m \in Node |-> IF m \in Audience(n)
                                 THEN SetToSeq({Voice(n, k, s) : s \in Seals(n, m)}) ELSE <<>>]
<1>1. link' = Posted(link, n, fs)
  BY DEF Speak
<1>2. link \in [Node -> [Node -> Seq(Frame)]] /\ k \in Nat
  BY DEF Types, Links, Counts
<1> SUFFICES ASSUME NEW b \in Node, b # n
             PROVE  \E q \in Seq(Frame) :
                       /\ link'[n][b] = link[n][b] \o q
                       /\ From(n, b) # n => q = <<>>
                       /\ From(n, b) = n =>
                             Len(q) = 1 /\ Copy(q[1], n, k) /\ Fits(q[1], n, b)
  OBVIOUS
<1> HIDE DEF fs
<1>3. link'[n][b] = link[n][b] \o fs[b]
  <2>1. PICK g : g = fs
    OBVIOUS
  <2>2. Links(link, conn)
    BY DEF Types
  <2>3. \A a, c \in Node :
           Posted(link, n, g)[a][c] = IF a = n /\ c # n THEN link[a][c] \o g[c] ELSE link[a][c]
    BY <2>2, SteadyPosted
  <2>4. link'[n][b] = link[n][b] \o g[b]
    BY <1>1, <2>1, <2>3
  <2>5. QED
    BY <2>1, <2>4
<1>4. CASE From(n, b) # n
  <2>1. fs[b] = <<>>
    BY <1>4, SteadyAudience DEF fs
  <2>2. QED
    BY <1>3, <1>4, <2>1, Empty
<1>5. CASE From(n, b) = n
  <2>1. PICK x \in SealKind : /\ Seals(n, b) = {x}
                              /\ \A j : Opens(b, Voice(n, j, x))
                              /\ mode[n].kind = "hybrid" => x = Channel
    BY SteadySeals
  <2>2. {Voice(n, k, s) : s \in Seals(n, b)} = {Voice(n, k, x)}
    BY <2>1
  <2>3. fs[b] = <<Voice(n, k, x)>>
    BY <1>5, <2>2, SteadyAudience, SingleSeq DEF fs
  <2>4. PICK v : v = Voice(n, k, x)
    OBVIOUS
  <2>5. /\ v \in VoiceFrame /\ v.type = "Voice" /\ v.src = n /\ v.seq = k /\ v.hops = 0
        /\ v.seal = x
    BY <1>2, <2>1, <2>4, GroupAssumption DEF Voice, VoiceFrame
  <2>6. mode[b] = Hybrid(b) => mode[n].kind = "hybrid"
    BY DEF Steady, Hybrid
  <2>7. Fits(v, n, b)
    BY <1>5, <2>1, <2>4, <2>5, <2>6 DEF Fits
  <2>8. <<v>> \in Seq(Frame) /\ Len(<<v>>) = 1 /\ <<v>>[1] = v
    BY <2>5, FrameKinds
  <2>9. Copy(v, n, k)
    BY <2>5 DEF Copy
  <2>10. link'[n][b] = link[n][b] \o <<v>>
    BY <1>3, <2>3, <2>4
  <2>11. QED
    BY <1>5, <2>7, <2>8, <2>9, <2>10
<1>6. QED
  BY <1>4, <1>5

LEMMA Joined ==
    ASSUME NEW q \in Seq(Frame), NEW r \in Seq(Frame), NEW i \in 1..Len(q \o r)
    PROVE  \/ i \in 1..Len(q) /\ (q \o r)[i] = q[i]
           \/ \E j \in 1..Len(r) : (q \o r)[i] = r[j]
<1>1. /\ Len(q \o r) = Len(q) + Len(r) /\ Len(q) \in Nat /\ Len(r) \in Nat
      /\ \A j \in 1..Len(q) : (q \o r)[j] = q[j]
      /\ \A j \in 1..Len(r) : (q \o r)[j + Len(q)] = r[j]
  OBVIOUS
<1>2. CASE i \in 1..Len(q)
  BY <1>1, <1>2
<1>3. CASE i \notin 1..Len(q)
  <2>1. i - Len(q) \in 1..Len(r) /\ i = (i - Len(q)) + Len(q)
    BY <1>1, <1>3
  <2>2. QED
    BY <1>1, <2>1
<1>4. QED
  BY <1>2, <1>3

LEMMA Queue ==
    ASSUME Types, NEW a \in Node, NEW b \in Node
    PROVE  /\ link[a][b] \in Seq(Frame)
           /\ a = b => link[a][b] = <<>>
           /\ \A i \in 1..Len(link[a][b]) :
                 link[a][b][i].type = "Voice" =>
                    /\ link[a][b][i] \in VoiceFrame
                    /\ link[a][b][i].src \in Node /\ link[a][b][i].seq \in Nat
<1>1. link[a][b] \in Seq(Frame) /\ (a = b => link[a][b] = <<>>)
  BY DEF Types, Links, Tables
<1>2. \A i \in 1..Len(link[a][b]) : link[a][b][i] \in Frame
  BY <1>1
<1>3. \A f \in VoiceFrame : f.src \in Node /\ f.seq \in Nat
  BY DEF VoiceFrame
<1>4. QED
  BY <1>1, <1>2, <1>3, FrameKinds

LEMMA FromNode ==
    ASSUME Types, NEW s \in Node, NEW b \in Node
    PROVE  /\ From(s, b) \in Node
           /\ From(s, b) # s => /\ From(s, b) # b /\ mode[s] = Hybrid(From(s, b))
                               /\ From(s, From(s, b)) = s
<1>1. mode[s] \in Mode
  BY DEF Types, Knowledge
<1>2. mode[s] = Mesh \/ \E f \in Node : mode[s] = Hybrid(f)
  BY <1>1 DEF Mode
<1>3. Mesh.kind # "hybrid" /\ \A f : Hybrid(f).kind = "hybrid" /\ Hybrid(f).forwarder = f
  BY DEF Mesh, Hybrid
<1>4. QED
  BY <1>2, <1>3 DEF From

(* The frames a node says are new, and go to the queues of its own.         *)
Says(n, a, b) ==
    \E q \in Seq(Frame) :
       /\ link'[a][b] = link[a][b] \o q
       /\ a # n => q = <<>>
       /\ \A i \in 1..Len(q) : q[i].type = "Voice" /\ q[i].src = n /\ q[i].seq = spoken[n] + 1

LEMMA SpokenFrames ==
    ASSUME Types, NEW n \in Node, Speak(n), NEW a \in Node, NEW b \in Node
    PROVE  Says(n, a, b)
<1> DEFINE k == spoken[n] + 1
           frames(m) == {Voice(n, k, s) : s \in Seals(n, m)}
           fs == [m \in Node |-> IF m \in Audience(n) THEN SetToSeq(frames(m)) ELSE <<>>]
<1>0. link' = Posted(link, n, fs)
  BY DEF Speak
<1>1. link \in [Node -> [Node -> Seq(Frame)]] /\ k \in Nat /\ link[a][b] \in Seq(Frame)
  <2>1. link \in [Node -> [Node -> Seq(Frame)]]
    BY DEF Types, Links
  <2>2. k \in Nat
    BY DEF Types, Counts
  <2>3. QED
    BY <2>1, <2>2
<1>2. link'[a][b] = IF a = n /\ Linked(n, b) THEN link[a][b] \o fs[b] ELSE link[a][b]
  BY <1>0, <1>1 DEF Posted
<1>3. \A x \in frames(b) : x.type = "Voice" /\ x.src = n /\ x.seq = k
  BY DEF Voice
<1>4. frames(b) \subseteq Frame
  <2>1. Clear \in SealKind /\ Channel \in SealKind /\ {n, b} \in SealKind
    BY DEF SealKind
  <2>2. Seals(n, b) \subseteq SealKind
    BY <2>1 DEF Seals
  <2>3. \A s \in SealKind : Voice(n, k, s) \in VoiceFrame
    BY <1>1, GroupAssumption DEF Voice, VoiceFrame
  <2>4. QED
    BY <2>2, <2>3, FrameKinds
<1>5. \E x : frames(b) = {} \/ frames(b) = {x}
  <2>1. \E s : Seals(n, b) = {} \/ Seals(n, b) = {s}
    BY DEF Seals
  <2>2. QED
    BY <2>1
<1>6. PICK q : q = IF a = n /\ Linked(n, b) /\ b \in Audience(n) THEN SetToSeq(frames(b)) ELSE <<>>
  OBVIOUS
<1>7. link'[a][b] = link[a][b] \o q
  <2>1. link[a][b] = link[a][b] \o <<>>
    BY <1>1
  <2>2. QED
    BY <1>2, <1>6, <2>1
<1> HIDE DEF frames, fs
<1>8. SetToSeq(frames(b)) \in Seq(frames(b))
  BY <1>5, SmallSeq
<1>9. q \in Seq(frames(b))
  BY <1>6, <1>8
<1>10. q \in Seq(Frame) /\ \A i \in 1..Len(q) : q[i] \in frames(b)
  BY <1>4, <1>9
<1>11. QED
  BY <1>3, <1>6, <1>7, <1>10 DEF Says

LEMMA UnderWayNext ==
    ASSUME UNCHANGED <<conn, peers, members, mode, key>>,
           owed' # {} => /\ Steady /\ AllVoice(link') /\ Regular(link', owed')
                         /\ \A o \in owed' : Coming(link', o)
    PROVE  UnderWay'
<1>1. Steady => Steady'
  BY DEF Steady
<1>2. \A s, b : From(s, b)' = From(s, b)
  BY DEF From
<1>3. \A b, f : Opens(b, f)' <=> Opens(b, f)
  BY DEF Opens
<1>4. AllVoice(link') => AllVoice(link)'
  BY DEF AllVoice
<1>5. Regular(link', owed') => Regular(link, owed)'
  BY <1>2, <1>3 DEF Regular, Fits
<1>6. \A o : Coming(link', o) => Coming(link, o)'
  BY <1>2 DEF Coming
<1>7. QED
  BY <1>1, <1>4, <1>5, <1>6 DEF UnderWay

(* Whatever is not awaited, or was there before, or comes by its way.       *)
LEMMA RegularNext ==
    ASSUME NEW links, NEW ow, NEW new, NEW now, Regular(links, ow),
           \A a, b \in Node : \A i \in 1..Len(new[a][b]) :
              Awaited(now, new[a][b][i]) =>
                 \/ Fits(new[a][b][i], a, b)
                 \/ /\ Awaited(ow, new[a][b][i])
                    /\ \E j \in 1..Len(links[a][b]) : links[a][b][j] = new[a][b][i]
    PROVE  Regular(new, now)
  BY DEF Regular

(* Appending to a queue only leaves alone what leads it.                    *)
LEMMA SpeakHears ==
    ASSUME Types, HearInv, NEW n \in Node, Speak(n)
    PROVE  HearInv'
<1> DEFINE k == spoken[n] + 1
<1>1. /\ spoken' = [spoken EXCEPT ![n] = k]
      /\ UNCHANGED <<conn, peers, members, caps, mode, key, ready, heard, played>>
      /\ owed' = IF Settled
                 THEN owed \union {[src |-> n, seq |-> k, by |-> m] : m \in Node \ {n}}
                 ELSE owed
  BY DEF Speak
<1>2. /\ k \in Nat /\ spoken \in [Node -> Nat] /\ heard \in [Node -> [Node -> Nat]]
      /\ link \in [Node -> [Node -> Seq(Frame)]] /\ link' \in [Node -> [Node -> Seq(Frame)]]
      /\ \A a \in Node : link[a][a] = <<>> /\ link'[a][a] = <<>>
  <2>1. Types'
    BY SpeakTypes
  <2>2. QED
    BY <2>1 DEF Types, Counts, Links, Tables
<1>3. \A m \in Node : spoken'[m] \in Nat /\ spoken[m] \in Nat /\ spoken[m] <= spoken'[m]
  BY <1>1, <1>2
<1>4. \A a, b \in Node : a # n => link'[a][b] = link[a][b]
  BY DEF Speak, Posted, Types, Links
<1>5. Spoken'
  <2>1. ASSUME NEW a \in Node, NEW m \in Node
        PROVE  heard'[a][m] <= spoken'[m]
    <3>1. heard[a][m] \in Nat /\ heard[a][m] <= spoken[m] /\ heard'[a][m] = heard[a][m]
      BY <1>1, <1>2 DEF HearInv, Spoken, Uttered, Said
    <3>2. QED
      BY <1>3, <3>1
  <2>2. ASSUME NEW a \in Node, NEW b \in Node, NEW i \in 1..Len(link'[a][b]),
               link'[a][b][i].type = "Voice"
        PROVE  link'[a][b][i].seq <= spoken'[link'[a][b][i].src]
    <3>0. PICK q \in Seq(Frame) :
             /\ link'[a][b] = link[a][b] \o q
             /\ a # n => q = <<>>
             /\ \A j \in 1..Len(q) : q[j].type = "Voice" /\ q[j].src = n
                                       /\ q[j].seq = spoken[n] + 1
      <4>1. Says(n, a, b)
        BY SpokenFrames
      <4>2. QED
        BY <4>1 DEF Says
    <3>1. \/ i \in 1..Len(link[a][b]) /\ link'[a][b][i] = link[a][b][i]
          \/ link'[a][b][i].src = n /\ link'[a][b][i].seq = k
      <4>1. i \in 1..Len(link[a][b] \o q)
        BY <3>0
      <4>2. \/ i \in 1..Len(link[a][b]) /\ (link[a][b] \o q)[i] = link[a][b][i]
            \/ \E j \in 1..Len(q) : (link[a][b] \o q)[i] = q[j]
        <5>1. link[a][b] \in Seq(Frame)
          BY Queue
        <5>2. QED
          BY <4>1, <5>1, Joined
      <4>3. QED
        BY <3>0, <4>2
    <3>2. CASE i \in 1..Len(link[a][b]) /\ link'[a][b][i] = link[a][b][i]
      <4>1. link[a][b][i].src \in Node /\ link[a][b][i].seq \in Nat
        BY <2>2, <3>2, Queue
      <4>2. link[a][b][i].seq <= spoken[link[a][b][i].src]
        BY <2>2, <3>2 DEF HearInv, Spoken, Uttered, Said
      <4>3. QED
        BY <1>3, <3>2, <4>1, <4>2
    <3>3. CASE link'[a][b][i].src = n /\ link'[a][b][i].seq = k
      BY <1>1, <1>2, <3>3
    <3>4. QED
      BY <3>1, <3>2, <3>3
  <2>3. QED
    BY <2>1, <2>2 DEF Spoken, Uttered, Said
<1>6. \A o \in owed' :
        \/ o \in owed
        \/ o = [src |-> n, seq |-> k, by |-> o.by] /\ o.by \in Node \ {n} /\ Settled
  BY <1>1
<1>7. Owed'
  <2>1. ASSUME NEW o \in owed
        PROVE  /\ o \in [src : Node, seq : Nat, by : Node]
               /\ o.src \in Node /\ o.by \in Node /\ o.src # o.by
               /\ o.seq \in Nat /\ o.seq <= spoken'[o.src]
               /\ heard'[o.by][o.src] < o.seq
    BY <1>1, <1>3, <2>1 DEF HearInv, Owed
  <2>2. ASSUME NEW o \in owed', o = [src |-> n, seq |-> k, by |-> o.by], o.by \in Node \ {n}
        PROVE  /\ o \in [src : Node, seq : Nat, by : Node]
               /\ o.src \in Node /\ o.by \in Node /\ o.src # o.by
               /\ o.seq \in Nat /\ o.seq <= spoken'[o.src]
               /\ heard'[o.by][o.src] < o.seq
    <3>1. heard[o.by][n] <= spoken[n] /\ heard[o.by][n] \in Nat
      BY <1>2, <2>2 DEF HearInv, Spoken, Uttered, Said
    <3>2. QED
      BY <1>1, <1>2, <2>2, <3>1
  <2>3. QED
    BY <1>6, <2>1, <2>2 DEF Owed
<1>8. ASSUME owed' # {}
      PROVE  /\ Steady /\ AllVoice(link') /\ Regular(link', owed')
             /\ \A o \in owed' : Coming(link', o)
  <2>1. Steady /\ AllVoice(link)
    BY <1>6, <1>8, SettledSteady DEF HearInv, UnderWay
  <2>2. ASSUME NEW b \in Node, b # n
        PROVE  \E q \in Seq(Frame) :
                 /\ link'[n][b] = link[n][b] \o q
                 /\ From(n, b) # n => q = <<>>
                 /\ From(n, b) = n => Len(q) = 1 /\ Copy(q[1], n, k) /\ Fits(q[1], n, b)
    BY <2>1, <2>2, SteadySpeaks
  <2>3. ASSUME NEW a \in Node, NEW b \in Node
        PROVE  \E q \in Seq(Frame) :
                 /\ link'[a][b] = link[a][b] \o q
                 /\ \A i \in 1..Len(q) : q[i].type = "Voice" /\ q[i].src = n
                                           /\ q[i].seq = k /\ Fits(q[i], a, b)
    <3>1. CASE a = n /\ b # n
      <4>1. PICK q \in Seq(Frame) :
               /\ link'[n][b] = link[n][b] \o q
               /\ From(n, b) # n => q = <<>>
               /\ From(n, b) = n => Len(q) = 1 /\ Copy(q[1], n, k) /\ Fits(q[1], n, b)
        BY <2>2, <3>1
      <4>2. \A i \in 1..Len(q) : i = 1 /\ From(n, b) = n
        BY <4>1
      <4>3. \A i \in 1..Len(q) : q[i].type = "Voice" /\ q[i].src = n
                                  /\ q[i].seq = k /\ Fits(q[i], a, b)
        BY <3>1, <4>1, <4>2 DEF Copy
      <4>4. QED
        BY <3>1, <4>1, <4>3
    <3>2. CASE ~(a = n /\ b # n)
      <4>1. link'[a][b] = link[a][b] /\ link[a][b] \in Seq(Frame)
        BY <1>2, <1>4, <3>2
      <4>2. link[a][b] \o <<>> = link[a][b] /\ <<>> \in Seq(Frame) /\ 1..Len(<<>>) = {}
        BY <4>1
      <4>3. QED
        BY <4>1, <4>2
    <3>3. QED
      BY <3>1, <3>2
  <2>4. ASSUME NEW a \in Node, NEW b \in Node, NEW i \in 1..Len(link'[a][b])
        PROVE  \/ i \in 1..Len(link[a][b]) /\ link'[a][b][i] = link[a][b][i]
               \/ link'[a][b][i].type = "Voice" /\ Fits(link'[a][b][i], a, b)
    <3>1. PICK q \in Seq(Frame) :
             /\ link'[a][b] = link[a][b] \o q
             /\ \A j \in 1..Len(q) : q[j].type = "Voice" /\ Fits(q[j], a, b)
      BY <2>3
    <3>2. i \in 1..Len(link[a][b] \o q)
      BY <3>1
    <3>3. \/ i \in 1..Len(link[a][b]) /\ (link[a][b] \o q)[i] = link[a][b][i]
          \/ \E j \in 1..Len(q) : (link[a][b] \o q)[i] = q[j]
      <4>1. link[a][b] \in Seq(Frame)
        BY Queue
      <4>2. QED
        BY <3>2, <4>1, Joined
    <3>4. CASE i \in 1..Len(link[a][b]) /\ (link[a][b] \o q)[i] = link[a][b][i]
      BY <3>1, <3>4
    <3>5. CASE \E j \in 1..Len(q) : (link[a][b] \o q)[i] = q[j]
      <4>1. PICK x : x = (link[a][b] \o q)[i]
        OBVIOUS
      <4>2. x.type = "Voice" /\ Fits(x, a, b)
        BY <3>1, <3>5, <4>1
      <4>3. x = link'[a][b][i]
        BY <3>1, <4>1
      <4>4. QED
        BY <4>2, <4>3
    <3>6. QED
      BY <3>3, <3>4, <3>5
  <2>5. AllVoice(link')
    BY <2>1, <2>4 DEF AllVoice
  <2>6. Regular(link', owed')
    <3>1. Regular(link, owed)
      BY DEF HearInv, UnderWay, Regular, Awaited
    <3>2. ASSUME NEW a \in Node, NEW b \in Node, NEW i \in 1..Len(link'[a][b]),
                 Awaited(owed', link'[a][b][i]), ~Fits(link'[a][b][i], a, b)
          PROVE  /\ Awaited(owed, link'[a][b][i])
                 /\ \E j \in 1..Len(link[a][b]) : link[a][b][j] = link'[a][b][i]
      <4>1. i \in 1..Len(link[a][b]) /\ link'[a][b][i] = link[a][b][i]
        BY <2>4, <3>2
      <4>2. PICK o \in owed' : o.src = link[a][b][i].src /\ o.seq <= link[a][b][i].seq
        BY <3>2, <4>1 DEF Awaited
      <4>3. link[a][b][i].src \in Node /\ link[a][b][i].seq \in Nat
        BY <2>1, <4>1, Queue DEF AllVoice
      <4>4. link[a][b][i].seq <= spoken[link[a][b][i].src]
        BY <2>1, <4>1 DEF AllVoice, HearInv, Spoken, Uttered, Said
      <4>5. ~(o.src = n /\ o.seq = k)
        <5>1. SUFFICES ASSUME o.src = n, o.seq = k
                       PROVE  FALSE
          OBVIOUS
        <5>2. PICK x, y : x = link[a][b][i].seq /\ y = spoken[n]
          OBVIOUS
        <5>3. x \in Nat /\ y \in Nat /\ x <= y /\ k = y + 1
          BY <1>2, <4>2, <4>3, <4>4, <5>1, <5>2
        <5>4. y + 1 <= x
          BY <4>2, <5>1, <5>2, <5>3
        <5>5. QED
          BY <5>3, <5>4
      <4>6. o \in owed
        BY <1>6, <4>5
      <4>7. QED
        BY <4>1, <4>2, <4>6 DEF Awaited
    <3>3. QED
      BY <3>1, <3>2, RegularNext
  <2>7. ASSUME NEW o \in owed
        PROVE  Coming(link', o)
    <3>1. o.src \in Node /\ o.by \in Node /\ From(o.src, o.by) \in Node
      BY FromNode DEF HearInv, Owed
    <3> DEFINE a == From(o.src, o.by)
    <3>2. Coming(link, o)
      BY DEF HearInv, UnderWay
    <3> HIDE DEF a
    <3>3. PICK q \in Seq(Frame) :
             /\ link'[a][o.by] = link[a][o.by] \o q
             /\ a # n => q = <<>>
             /\ \A i \in 1..Len(q) : q[i].type = "Voice" /\ q[i].src = n
                                       /\ q[i].seq = spoken[n] + 1
      <4>1. Says(n, a, o.by)
        BY <3>1, SpokenFrames DEF a
      <4>2. QED
        BY <4>1 DEF Says
    <3>4. PICK r \in Seq(Frame) :
             /\ link'[o.src][a] = link[o.src][a] \o r
             /\ o.src # n => r = <<>>
             /\ \A i \in 1..Len(r) : r[i].type = "Voice" /\ r[i].src = n
                                       /\ r[i].seq = spoken[n] + 1
      <4>1. Says(n, o.src, a)
        BY <3>1, SpokenFrames DEF a
      <4>2. QED
        BY <4>1 DEF Says
    <3>8. link[a][o.by] \in Seq(Frame) /\ link[o.src][a] \in Seq(Frame)
      BY <3>1, Queue DEF a
    <3>5. CASE Leads(link[a][o.by], o.src, o.seq)
      <4>1. Leads(link'[a][o.by], o.src, o.seq)
        BY <3>3, <3>5, <3>8, LeadsConcat
      <4>2. QED
        BY <4>1 DEF Coming, a
    <3>6. CASE a # o.src /\ Clean(link[a][o.by], o.src, o.seq) /\ Leads(link[o.src][a], o.src, o.seq)
      <4>1. Clean(q, o.src, o.seq)
        <5>1. CASE a = n
          BY <3>3, <3>6, <5>1 DEF Clean, Newer
        <5>2. CASE a # n
          BY <3>3, <5>2 DEF Clean
        <5>3. QED
          BY <5>1, <5>2
      <4>2. Clean(link'[a][o.by], o.src, o.seq)
        BY <3>3, <3>6, <3>8, <4>1, LeadsConcat
      <4>3. Leads(link'[o.src][a], o.src, o.seq)
        BY <3>4, <3>6, <3>8, LeadsConcat
      <4>4. QED
        BY <3>6, <4>2, <4>3 DEF Coming, a
    <3>7. QED
      BY <3>2, <3>5, <3>6 DEF Coming, a
  <2>8. ASSUME NEW o \in owed', o = [src |-> n, seq |-> k, by |-> o.by], o.by \in Node \ {n}
        PROVE  Coming(link', o)
    <3>1. \A a, b \in Node : Clean(link[a][b], n, k)
      <4>1. SUFFICES ASSUME NEW a \in Node, NEW b \in Node, NEW i \in 1..Len(link[a][b]),
                            Newer(link[a][b][i], n, k)
                     PROVE  FALSE
        BY DEF Clean
      <4>2. link[a][b][i].src \in Node /\ link[a][b][i].seq \in Nat
        BY <2>1, Queue DEF AllVoice
      <4>3. link[a][b][i].seq <= spoken[link[a][b][i].src]
        BY <2>1 DEF AllVoice, HearInv, Spoken, Uttered, Said
      <4>4. QED
        <5>1. link[a][b][i].src = n /\ link[a][b][i].seq > k
          BY <4>1 DEF Newer
        <5>2. PICK x, y : x = link[a][b][i].seq /\ y = spoken[n]
          OBVIOUS
        <5>3. x \in Nat /\ y \in Nat /\ x <= y /\ k = y + 1
          BY <1>2, <4>2, <4>3, <5>1, <5>2
        <5>4. x > y + 1
          BY <5>1, <5>2, <5>3
        <5>5. QED
          BY <5>3, <5>4
    <3>2. ASSUME NEW b \in Node, b # n, From(n, b) = n
          PROVE  Leads(link'[n][b], n, k)
      <4>1. PICK q \in Seq(Frame) :
               link'[n][b] = link[n][b] \o q /\ Len(q) = 1 /\ Copy(q[1], n, k)
        BY <2>2, <3>2
      <4>2. Leads(q, n, k)
        BY <4>1 DEF Leads
      <4>3. QED
        BY <3>1, <4>1, <4>2, Queue, LeadsConcat
    <3>3. CASE From(n, o.by) = n
      BY <2>8, <3>2, <3>3 DEF Coming
    <3>4. CASE From(n, o.by) # n
      <4>1. PICK a : a = From(n, o.by)
        OBVIOUS
      <4>2. a \in Node /\ a # n /\ From(n, a) = n
        BY <2>8, <3>4, <4>1, FromNode
      <4>3. link'[a][o.by] = link[a][o.by]
        BY <1>4, <2>8, <4>2
      <4>4. Clean(link'[a][o.by], n, k) /\ Leads(link'[n][a], n, k)
        BY <2>8, <3>1, <3>2, <4>2, <4>3
      <4>5. QED
        BY <2>8, <4>1, <4>2, <4>4 DEF Coming
    <3>5. QED
      BY <3>3, <3>4
  <2>9. QED
    BY <1>6, <2>1, <2>5, <2>6, <2>7, <2>8
<1>9. QED
  BY <1>1, <1>5, <1>7, <1>8, UnderWayNext DEF HearInv

(* What is left on its way once n has taken a frame of m, and what becomes  *)
(* of it when n posts.                                                      *)
Kept(n, m, a, b) == IF a = m /\ b = n THEN Tail(link[m][n]) ELSE link[a][b]

Within(q, p) == \A i \in 1..Len(q) : \E j \in 1..Len(p) : q[i] = p[j]

LEMMA KeptFrames ==
    ASSUME Types, NEW n \in Node, NEW m \in Node, Arrives(n, m), NEW a \in Node, NEW b \in Node
    PROVE  /\ Kept(n, m, a, b) \in Seq(Frame)
           /\ Within(Kept(n, m, a, b), link[a][b])
<1>1. link[a][b] \in Seq(Frame)
  BY Queue
<1>2. CASE a = m /\ b = n
  <2>1. PICK q : q = link[a][b]
    OBVIOUS
  <2>2. q \in Seq(Frame) /\ q # <<>> /\ Kept(n, m, a, b) = Tail(q)
    BY <1>1, <1>2, <2>1 DEF Arrives, Kept
  <2>3. /\ Tail(q) \in Seq(Frame) /\ Len(Tail(q)) = Len(q) - 1 /\ Len(q) \in Nat
        /\ \A i \in 1..Len(Tail(q)) : Tail(q)[i] = q[i + 1]
    BY <2>2
  <2>4. \A i \in 1..Len(Tail(q)) : i + 1 \in 1..Len(q)
    BY <2>3
  <2>5. QED
    BY <2>1, <2>2, <2>3, <2>4 DEF Within
<1>3. CASE ~(a = m /\ b = n)
  BY <1>1, <1>3 DEF Kept, Within
<1>4. QED
  BY <1>2, <1>3

LEMMA PostedQueue ==
    ASSUME Types, NEW n \in Node, NEW m \in Node, NEW fs, NEW a \in Node, NEW b \in Node
    PROVE  Posted(Taken(n, m), n, fs)[a][b] =
              IF a = n /\ Linked(n, b) THEN Kept(n, m, a, b) \o fs[b] ELSE Kept(n, m, a, b)
<1>1. link \in [Node -> [Node -> Seq(Frame)]]
  BY DEF Types, Links
<1>2. PICK t : t = Taken(n, m)
  OBVIOUS
<1>3. t = [link EXCEPT ![m] = [link[m] EXCEPT ![n] = Tail(link[m][n])]]
  BY <1>1, <1>2 DEF Taken
<1>4. DOMAIN t = Node /\ t[a][b] = Kept(n, m, a, b)
  BY <1>1, <1>3 DEF Kept
<1>5. Posted(t, n, fs)[a][b] = IF a = n /\ Linked(n, b) THEN t[a][b] \o fs[b] ELSE t[a][b]
  BY <1>4 DEF Posted
<1>6. QED
  BY <1>2, <1>4, <1>5

LEMMA UtteredPosted ==
    ASSUME Types, NEW n \in Node, NEW m \in Node, Arrives(n, m), Uttered(link), NEW fs, Post(fs),
           \A k \in Node : \A i \in 1..Len(fs[k]) : Said(fs[k][i])
    PROVE  Uttered(Posted(Taken(n, m), n, fs))
<1> DEFINE new == Posted(Taken(n, m), n, fs)
<1>1. ASSUME NEW a \in Node, NEW b \in Node, NEW i \in 1..Len(new[a][b])
      PROVE  Said(new[a][b][i])
  <2>1. PICK q, r : q = Kept(n, m, a, b) /\ r = fs[b]
    OBVIOUS
  <2>2. q \in Seq(Frame) /\ r \in Seq(Frame)
    BY <2>1, KeptFrames DEF Post
  <2>3. \A j \in 1..Len(q) : Said(q[j])
    <3>1. Within(Kept(n, m, a, b), link[a][b])
      BY KeptFrames
    <3>2. \A l \in 1..Len(link[a][b]) : Said(link[a][b][l])
      BY DEF Uttered
    <3>3. QED
      BY <2>1, <3>1, <3>2 DEF Within
  <2>4. \A j \in 1..Len(r) : Said(r[j])
    BY <2>1
  <2>5. new[a][b] = q \o r \/ new[a][b] = q
    <3>1. new[a][b] = IF a = n /\ Linked(n, b) THEN Kept(n, m, a, b) \o fs[b] ELSE Kept(n, m, a, b)
      BY PostedQueue
    <3>2. QED
      BY <2>1, <3>1
  <2> HIDE DEF new
  <2>6. CASE new[a][b] = q
    BY <2>3, <2>6
  <2>7. CASE new[a][b] = q \o r
    <3>1. i \in 1..Len(q \o r)
      BY <2>7
    <3>2. \/ i \in 1..Len(q) /\ (q \o r)[i] = q[i]
          \/ \E j \in 1..Len(r) : (q \o r)[i] = r[j]
      BY <2>2, <3>1, Joined
    <3>3. QED
      BY <2>3, <2>4, <2>7, <3>2
  <2>8. QED
    BY <2>5, <2>6, <2>7
<1>2. QED
  BY <1>1 DEF Uttered

LEMMA UtteredTaken ==
    ASSUME Types, NEW n \in Node, NEW m \in Node, Arrives(n, m), Uttered(link)
    PROVE  Uttered(Taken(n, m))
<1>1. \A a, b \in Node : Taken(n, m)[a][b] = Kept(n, m, a, b)
  BY DEF Taken, Kept, Types, Links
<1>2. ASSUME NEW a \in Node, NEW b \in Node, NEW i \in 1..Len(Taken(n, m)[a][b])
      PROVE  Said(Taken(n, m)[a][b][i])
  <2>1. Within(Kept(n, m, a, b), link[a][b])
    BY KeptFrames
  <2>2. \A l \in 1..Len(link[a][b]) : Said(link[a][b][l])
    BY DEF Uttered
  <2>3. QED
    BY <1>1, <2>1, <2>2 DEF Within
<1>3. QED
  BY <1>2 DEF Uttered

(* What is not voice says nothing new.                                      *)
LEMMA MuteSaid ==
    /\ \A x : Said([type |-> "Topology", mode |-> x])
    /\ \A x : Said([type |-> "PeerList", peers |-> x])
    /\ \A x : Said([type |-> "PeerState", capable |-> x])
    /\ Said([type |-> "Join"])
BY DEF Said

LEMMA AnnouncedSaid ==
    ASSUME NEW n \in Node, NEW ms, NEW x, NEW to, NEW k \in Node
    PROVE  \A i \in 1..Len(Announced(n, ms, x, to)[k]) : Said(Announced(n, ms, x, to)[k][i])
<1>1. PICK t : t = [type |-> "Topology", mode |-> x]
  OBVIOUS
<1>2. Announced(n, ms, x, to)[k] = <<t>> \/ Announced(n, ms, x, to)[k] = <<>>
  BY <1>1 DEF Announced
<1>3. Len(<<t>>) = 1 /\ <<t>>[1] = t /\ Said(t) /\ Len(<<>>) = 0
  BY <1>1, MuteSaid
<1>4. QED
  BY <1>2, <1>3

(* While anything is owed, nothing but voice is on its way and everybody is *)
(* connected, so that all other steps only have to say nothing new.         *)
LEMMA NothingOwed ==
    ASSUME Types', owed' = {}, Spoken, Uttered(link)', UNCHANGED <<heard, spoken>>
    PROVE  HearInv'
<1>1. Spoken'
  BY DEF Spoken
<1>2. Owed' /\ UnderWay'
  BY DEF Owed, UnderWay
<1>3. QED
  BY <1>1, <1>2 DEF HearInv

LEMMA OnlyVoice ==
    ASSUME Types, HearInv, NEW n \in Node, NEW m \in Node, Arrives(n, m),
           Head(link[m][n]).type # "Voice"
    PROVE  owed = {}
<1>1. PICK q : q = link[m][n]
  OBVIOUS
<1>2. q \in Seq(Frame) /\ q # <<>>
  BY <1>1, Queue DEF Arrives
<1>3. 1 \in 1..Len(q) /\ Head(q) = q[1]
  BY <1>2
<1>4. ~AllVoice(link)
  BY <1>1, <1>3 DEF AllVoice
<1>5. QED
  BY <1>4 DEF HearInv, UnderWay

LEMMA JoinHears ==
    ASSUME Types, HearInv, NEW n \in Node, NEW m \in Node, Arrives(n, m), RecvJoin(n, m)
    PROVE  HearInv'
<1> DEFINE ms == members[n] \union {m}
           ps == peers[n] \union {m}
           list == [type |-> "PeerList", peers |-> {Entry(p, caps[n]) : p \in ps}]
           fs(x) == [k \in Node |-> Announced(n, ms, x, ps)[k]
                                    \o IF k \in ps THEN <<list>> ELSE <<>>]
<1>1. UNCHANGED <<heard, spoken>> /\ Head(link[m][n]).type = "Join"
  BY DEF RecvJoin
<1>2. PICK x \in Topologies(n, ms, caps[n]) :
        Settles(n, x) /\ link' = Posted(Taken(n, m), n, fs(x))
  BY DEF RecvJoin
<1>3. owed' = {}
  BY <1>1, <1>2, OnlyVoice DEF Settles
<1>4. ms \in SUBSET Node /\ ps \in SUBSET Node
  BY DEF Types, Tables
<1>5. x \in Mode
  BY <1>2, <1>4, TopologyModes DEF Types
<1>6. ASSUME NEW k \in Node
      PROVE  /\ fs(x)[k] \in Seq(Frame) /\ Strange(fs(x)[k], k)
             /\ \A i \in 1..Len(fs(x)[k]) : Said(fs(x)[k][i])
  <2>1. PICK q : q = Announced(n, ms, x, ps)[k]
    OBVIOUS
  <2>2. PICK r : r = IF k \in ps THEN <<list>> ELSE <<>>
    OBVIOUS
  <2>3. q \in Seq(Frame) /\ Strange(q, k)
    BY <1>5, <2>1, Announcement DEF Post
  <2>4. list \in Frame /\ <<list>> \in Seq(Frame) /\ Strange(<<list>>, k)
    BY <1>4, ListFrames DEF Types
  <2>5. r \in Seq(Frame) /\ Strange(r, k)
    BY <2>2, <2>4, Empty
  <2>6. \A i \in 1..Len(q) : Said(q[i])
    BY <2>1, AnnouncedSaid
  <2>7. \A i \in 1..Len(r) : Said(r[i])
    <3>1. Said(list)
      BY MuteSaid
    <3> HIDE DEF list
    <3>2. QED
      BY <2>2, <3>1
  <2>8. fs(x)[k] = q \o r
    BY <2>1, <2>2
  <2> HIDE DEF fs
  <2>9. q \o r \in Seq(Frame) /\ Strange(q \o r, k)
    BY <2>3, <2>5, StrangeConcat
  <2>10. ASSUME NEW i \in 1..Len(q \o r)
         PROVE  Said((q \o r)[i])
    <3>1. \/ i \in 1..Len(q) /\ (q \o r)[i] = q[i]
          \/ \E j \in 1..Len(r) : (q \o r)[i] = r[j]
      BY <2>3, <2>5, <2>10, Joined
    <3>2. QED
      BY <2>6, <2>7, <3>1
  <2>11. QED
    BY <2>8, <2>9, <2>10
<1>7. fs(x) = [k \in Node |-> fs(x)[k]]
  OBVIOUS
<1> HIDE DEF fs
<1>8. Post(fs(x))
  BY <1>6, <1>7 DEF Post
<1>9. Uttered(link')
  BY <1>2, <1>6, <1>8, UtteredPosted DEF HearInv, Spoken
<1>10. Uttered(link)'
  BY <1>1, <1>9 DEF Uttered, Said
<1>11. QED
  BY <1>1, <1>3, <1>10, RecvJoinTypes, NothingOwed DEF HearInv

LEMMA PeerStateHears ==
    ASSUME Types, HearInv, NEW n \in Node, NEW m \in Node, Arrives(n, m), RecvPeerState(n, m)
    PROVE  HearInv'
<1>1. UNCHANGED <<heard, spoken, owed>> /\ Head(link[m][n]).type = "PeerState" /\ link' = Taken(n, m)
  BY DEF RecvPeerState, history
<1>2. owed' = {}
  BY <1>1, OnlyVoice
<1>3. Uttered(link')
  BY <1>1, UtteredTaken DEF HearInv, Spoken
<1>4. Uttered(link)'
  BY <1>1, <1>3 DEF Uttered, Said
<1>5. QED
  BY <1>1, <1>2, <1>4, RecvPeerStateTypes, NothingOwed DEF HearInv

LEMMA PeerListHears ==
    ASSUME Types, HearInv, NEW n \in Node, NEW m \in Node, Arrives(n, m), RecvPeerList(n, m)
    PROVE  HearInv'
<1> DEFINE ms == members[n] \union Listed(n, Head(link[m][n]).peers)
<1>1. UNCHANGED <<heard, spoken>> /\ Head(link[m][n]).type = "PeerList"
  BY DEF RecvPeerList
<1>2. PICK x \in Topologies(n, ms, caps[n]) :
        /\ Settles(n, x)
        /\ link' = Posted(Taken(n, m), n, Announced(n, ms, x, peers[n]))
  BY DEF RecvPeerList
<1>3. owed' = {}
  BY <1>1, <1>2, OnlyVoice DEF Settles
<1>4. Head(link[m][n]) \in ListFrame
  BY Arriving, FrameKinds DEF RecvPeerList
<1>5. ms \in SUBSET Node
  BY <1>4 DEF Listed, ListFrame, Types, Tables
<1> HIDE DEF ms
<1>6. x \in Mode
  BY <1>2, <1>5, TopologyModes DEF Types
<1>7. Post(Announced(n, ms, x, peers[n]))
  BY <1>6, Announcement
<1>8. Uttered(link')
  BY <1>2, <1>7, AnnouncedSaid, UtteredPosted DEF HearInv, Spoken
<1>9. Uttered(link)'
  BY <1>1, <1>8 DEF Uttered, Said
<1>10. QED
  BY <1>1, <1>3, <1>9, RecvPeerListTypes, NothingOwed DEF HearInv

LEMMA TopologyHears ==
    ASSUME Types, HearInv, NEW n \in Node, NEW m \in Node, Arrives(n, m), RecvTopology(n, m)
    PROVE  HearInv'
<1>1. /\ UNCHANGED <<heard, spoken>> /\ Head(link[m][n]).type = "Topology" /\ link' = Taken(n, m)
      /\ owed' = owed \/ owed' = {}
  BY DEF RecvTopology, Settles
<1>2. owed' = {}
  BY <1>1, OnlyVoice
<1>3. Uttered(link')
  BY <1>1, UtteredTaken DEF HearInv, Spoken
<1>4. Uttered(link)'
  BY <1>1, <1>3 DEF Uttered, Said
<1>5. QED
  BY <1>1, <1>2, <1>4, RecvTopologyTypes, NothingOwed DEF HearInv

LEMMA ConnectHears ==
    ASSUME Types, HearInv, NEW n \in Node, NEW m \in Node, Connect(n, m)
    PROVE  HearInv'
<1>1. /\ UNCHANGED <<heard, spoken, owed>> /\ n # m /\ ~Linked(n, m)
      /\ link' = [link EXCEPT ![n][m] = Greeting(n), ![m][n] = Greeting(m)]
  BY DEF Connect, history
<1>2. owed' = {}
  <2>1. ~Steady
    BY <1>1 DEF Steady, Linked
  <2>2. QED
    BY <1>1, <2>1 DEF HearInv, UnderWay
<1>3. ASSUME NEW k \in Node
      PROVE  \A i \in 1..Len(Greeting(k)) : Said(Greeting(k)[i])
  <2>1. PICK j, c, l : /\ j = [type |-> "Join"] /\ c = [type |-> "PeerState", capable |-> k \in Capable]
                       /\ l = PeerList(k)
    OBVIOUS
  <2>2. Said(j) /\ Said(c) /\ Said(l)
    BY <2>1, MuteSaid DEF PeerList
  <2>3. Greeting(k) = <<j, c, l>>
    BY <2>1 DEF Greeting
  <2>4. QED
    BY <2>2, <2>3
<1>4. ASSUME NEW a \in Node, NEW b \in Node
      PROVE  link'[a][b] \in {link[a][b], Greeting(n), Greeting(m)}
  BY <1>1 DEF Types, Links
<1>5. Uttered(link')
  BY <1>3, <1>4 DEF HearInv, Spoken, Uttered
<1>6. Uttered(link)'
  BY <1>1, <1>5 DEF Uttered, Said
<1>7. QED
  BY <1>1, <1>2, <1>6, ConnectTypes, NothingOwed DEF HearInv

LEMMA DisconnectHears ==
    ASSUME Types, HearInv, NEW n \in Node, NEW m \in Node, Disconnect(n, m)
    PROVE  HearInv'
<1>1. /\ UNCHANGED <<heard, spoken>> /\ owed' = {}
      /\ link' = [link EXCEPT ![m][n] = <<>>]
  BY DEF Disconnect
<1>2. ASSUME NEW a \in Node, NEW b \in Node
      PROVE  link'[a][b] \in {link[a][b], <<>>}
  BY <1>1 DEF Types, Links
<1>3. Uttered(link')
  BY <1>2 DEF HearInv, Spoken, Uttered
<1>4. Uttered(link)'
  BY <1>1, <1>3 DEF Uttered, Said
<1>5. QED
  BY <1>1, <1>4, DisconnectTypes, NothingOwed DEF HearInv

LEMMA ExchangeHears ==
    ASSUME Types, HearInv, NEW n \in Node, NEW m \in Node, Exchange(n, m)
    PROVE  HearInv'
<1>1. UNCHANGED <<heard, spoken, link>> /\ owed' = {}
  BY DEF Exchange
<1>2. Uttered(link)'
  BY <1>1 DEF HearInv, Spoken, Uttered, Said
<1>3. QED
  BY <1>1, <1>2, ExchangeTypes, NothingOwed DEF HearInv

(* What RecvVoice posts: copies of frame f to others than its source, and   *)
(* one of them at least if the forwarder gets it sealed.                    *)
Passed(n, f) ==
    [k \in Node |->
        (IF f.seal # Clear THEN Forwarded(n, f) ELSE Nothing)[k]
        \o (IF Fresh(n, f) THEN Forwarded(n, [f EXCEPT !.seal = Clear]) ELSE Nothing)[k]]

IsCopy(n, f, k, c) ==
    /\ c.type = "Voice" /\ c.src = f.src /\ c.seq = f.seq /\ c.seal \in {f.seal, Clear}
    /\ ShouldForward(n, f) /\ k # n /\ k # f.src
Copies(n, f, k, q) == q \in Seq(Frame) /\ \A i \in 1..Len(q) : IsCopy(n, f, k, q[i])

LEMMA CopiesConcat ==
    ASSUME NEW n, NEW f, NEW k, NEW q, NEW r, Copies(n, f, k, q), Copies(n, f, k, r)
    PROVE  Copies(n, f, k, q \o r)
<1>1. q \in Seq(Frame) /\ r \in Seq(Frame) /\ q \o r \in Seq(Frame)
  BY DEF Copies
<1>2. ASSUME NEW i \in 1..Len(q \o r)
      PROVE  IsCopy(n, f, k, (q \o r)[i])
  <2>1. \/ i \in 1..Len(q) /\ (q \o r)[i] = q[i]
        \/ \E j \in 1..Len(r) : (q \o r)[i] = r[j]
    BY <1>1, <1>2, Joined
  <2>2. QED
    BY <2>1 DEF Copies
<1>3. QED
  BY <1>1, <1>2 DEF Copies

LEMMA NoCopies == \A n, f, k : Copies(n, f, k, <<>>)
BY Empty DEF Copies

LEMMA ForwardedCopies ==
    ASSUME Types, NEW n \in Node, NEW f \in VoiceFrame, NEW k \in Node
    PROVE  /\ Copies(n, f, k, Forwarded(n, f)[k])
           /\ ShouldForward(n, f) /\ f.hops = 0 /\ k \in Listeners(n, f) \intersect peers[n]
              => Leads(Forwarded(n, f)[k], f.src, f.seq)
<1>0. MaxHops \in Nat \ {0}
  BY GroupAssumption
<1>1. PICK c : c = [f EXCEPT !.hops = @ + 1]
  OBVIOUS
<1>2. c.type = "Voice" /\ c.src = f.src /\ c.seq = f.seq /\ c.seal = f.seal
  BY <1>1 DEF VoiceFrame
<1>3. f.hops \in Nat /\ (f.hops = 0 => f.hops < MaxHops)
  BY <1>0 DEF VoiceFrame
<1>4. Forwarded(n, f)[k] =
        IF ShouldForward(n, f) /\ f.hops < MaxHops /\ k \in Listeners(n, f) \intersect peers[n]
        THEN <<c>> ELSE <<>>
  BY <1>1 DEF Forwarded
<1>5. CASE ShouldForward(n, f) /\ f.hops < MaxHops /\ k \in Listeners(n, f) \intersect peers[n]
  <2>1. c \in VoiceFrame
    BY <1>0, <1>1, <1>5 DEF VoiceFrame
  <2>2. <<c>> \in Seq(Frame) /\ Len(<<c>>) = 1 /\ <<c>>[1] = c
    BY <2>1, FrameKinds
  <2>3. IsCopy(n, f, k, c)
    BY <1>2, <1>5 DEF IsCopy, Listeners
  <2>4. Copies(n, f, k, <<c>>)
    BY <2>2, <2>3 DEF Copies
  <2>5. Leads(<<c>>, f.src, f.seq)
    BY <1>2, <2>2 DEF Leads, Copy
  <2>6. QED
    BY <1>4, <1>5, <2>4, <2>5
<1>6. CASE ~(ShouldForward(n, f) /\ f.hops < MaxHops /\ k \in Listeners(n, f) \intersect peers[n])
  BY <1>3, <1>4, <1>6, NoCopies
<1>7. QED
  BY <1>5, <1>6

LEMMA PassedCopies ==
    ASSUME Types, NEW n \in Node, NEW f \in VoiceFrame, NEW k \in Node
    PROVE  /\ Copies(n, f, k, Passed(n, f)[k])
           /\ f.seal # Clear /\ ShouldForward(n, f) /\ f.hops = 0
              /\ k \in Listeners(n, f) \intersect peers[n]
              => Leads(Passed(n, f)[k], f.src, f.seq)
<1>1. PICK g : g = [f EXCEPT !.seal = Clear]
  OBVIOUS
<1>2. g \in VoiceFrame /\ g.src = f.src /\ g.seq = f.seq /\ g.seal = Clear
  BY <1>1 DEF VoiceFrame, SealKind
<1>3. PICK q : q = IF f.seal # Clear THEN Forwarded(n, f)[k] ELSE <<>>
  OBVIOUS
<1>4. PICK r : r = IF Fresh(n, f) THEN Forwarded(n, g)[k] ELSE <<>>
  OBVIOUS
<1>5. Passed(n, f)[k] = q \o r
  BY <1>1, <1>3, <1>4 DEF Passed, Nothing
<1>6. Copies(n, f, k, q)
  BY <1>3, ForwardedCopies, NoCopies
<1>7. Copies(n, f, k, r)
  <2>1. Copies(n, g, k, Forwarded(n, g)[k])
    BY <1>2, ForwardedCopies
  <2>2. \A c : IsCopy(n, g, k, c) => IsCopy(n, f, k, c)
    BY <1>2 DEF IsCopy, ShouldForward
  <2>3. Copies(n, f, k, Forwarded(n, g)[k])
    BY <2>1, <2>2 DEF Copies
  <2>4. QED
    BY <1>4, <2>3, NoCopies
<1>8. Copies(n, f, k, q \o r)
  BY <1>6, <1>7, CopiesConcat
<1>9. ASSUME f.seal # Clear, ShouldForward(n, f), f.hops = 0,
             k \in Listeners(n, f) \intersect peers[n]
      PROVE  Leads(q \o r, f.src, f.seq)
  <2>1. Leads(q, f.src, f.seq)
    BY <1>3, <1>9, ForwardedCopies
  <2>2. q \in Seq(Frame) /\ r \in Seq(Frame)
    BY <1>6, <1>7 DEF Copies
  <2>3. QED
    BY <2>1, <2>2, LeadsConcat
<1>10. QED
  BY <1>5, <1>8, <1>9

(* One queue after a voice frame f of m has been taken by n: q is what was  *)
(* left of it, r what came.                                                 *)
Passes(n, m, f, a, b, q, r) ==
    /\ q = Kept(n, m, a, b) /\ q \in Seq(Frame) /\ r \in Seq(Frame)
    /\ link'[a][b] = q \o r
    /\ a # n => r = <<>>
    /\ a = n => \A i \in 1..Len(r) : IsCopy(n, f, b, r[i])

LEMMA VoicePasses ==
    ASSUME Types, NEW n \in Node, NEW m \in Node, Arrives(n, m), RecvVoice(n, m),
           NEW a \in Node, NEW b \in Node
    PROVE  \E q, r : Passes(n, m, Head(link[m][n]), a, b, q, r)
<1>1. PICK f : f = Head(link[m][n])
  OBVIOUS
<1>2. f \in VoiceFrame
  BY <1>1, Arriving, FrameKinds DEF RecvVoice
<1>3. link' = Posted(Taken(n, m), n, Passed(n, f))
  BY <1>1 DEF RecvVoice, Passed
<1>4. PICK q : q = Kept(n, m, a, b)
  OBVIOUS
<1>5. q \in Seq(Frame)
  BY <1>4, KeptFrames
<1>6. link'[a][b] = IF a = n /\ Linked(n, b) THEN q \o Passed(n, f)[b] ELSE q
  <2>1. Posted(Taken(n, m), n, Passed(n, f))[a][b] =
           IF a = n /\ Linked(n, b) THEN Kept(n, m, a, b) \o Passed(n, f)[b] ELSE Kept(n, m, a, b)
    BY PostedQueue
  <2>2. QED
    BY <1>3, <1>4, <2>1
<1>7. PICK r : r = IF a = n /\ Linked(n, b) THEN Passed(n, f)[b] ELSE <<>>
  OBVIOUS
<1>8. Copies(n, f, b, r)
  BY <1>2, <1>7, PassedCopies, NoCopies
<1>9. link'[a][b] = q \o r
  BY <1>5, <1>6, <1>7
<1>10. Passes(n, m, f, a, b, q, r)
  BY <1>4, <1>5, <1>7, <1>8, <1>9 DEF Passes, Copies
<1>11. QED
  BY <1>1, <1>10

(* The frame a node gets in settled times, while something of its speaker   *)
(* is owed: on its way, not newer than what is owed to the node itself, and *)
(* to be played if it is just that.                                         *)
LEMMA HeadFits ==
    ASSUME Types, HearInv, NEW n \in Node, NEW m \in Node, Arrives(n, m),
           NEW o \in owed, Head(link[m][n]).src = o.src, o.seq <= Head(link[m][n]).seq
    PROVE  Fits(Head(link[m][n]), m, n)
<1>1. PICK q : q = link[m][n]
  OBVIOUS
<1>2. q \in Seq(Frame) /\ q # <<>>
  BY <1>1, Queue DEF Arrives
<1>3. 1 \in 1..Len(q) /\ Head(q) = q[1]
  BY <1>2
<1>4. Regular(link, owed)
  BY DEF HearInv, UnderWay
<1>5. Awaited(owed, link[m][n][1])
  BY <1>1, <1>3 DEF Awaited
<1>6. Fits(link[m][n][1], m, n)
  BY <1>1, <1>3, <1>4, <1>5 DEF Regular
<1>7. QED
  BY <1>1, <1>3, <1>6

LEMMA HeadNotNewer ==
    ASSUME Types, HearInv, NEW n \in Node, NEW m \in Node, Arrives(n, m),
           Head(link[m][n]).type = "Voice",
           NEW o \in owed, o.by = n, Head(link[m][n]).src = o.src
    PROVE  Head(link[m][n]).seq <= o.seq
<1>1. PICK q : q = link[m][n]
  OBVIOUS
<1>2. q \in Seq(Frame) /\ q # <<>>
  BY <1>1, Queue DEF Arrives
<1>3. PICK x, y : x = Head(q).seq /\ y = o.seq
  OBVIOUS
<1>4. x \in Nat /\ y \in Nat
  <2>1. Head(q) \in VoiceFrame
    BY <1>1, Arriving, FrameKinds
  <2>2. Head(q).seq \in Nat
    BY <2>1 DEF VoiceFrame
  <2>3. QED
    BY <1>3, <2>2 DEF HearInv, Owed
<1>5. SUFFICES ASSUME x > y
               PROVE  FALSE
  BY <1>1, <1>3, <1>4
<1>6. Fits(Head(link[m][n]), m, n)
  BY <1>1, <1>3, <1>4, <1>5, HeadFits
<1>7. m = From(o.src, n)
  BY <1>6 DEF Fits
<1>8. Coming(link, o)
  BY DEF HearInv, UnderWay
<1>9. Leads(q, o.src, o.seq) \/ Clean(q, o.src, o.seq)
  BY <1>1, <1>7, <1>8 DEF Coming
<1>10. ~Newer(Head(q), o.src, o.seq) \/ Copy(Head(q), o.src, o.seq)
  BY <1>2, <1>9, LeadsTail
<1>11. QED
  BY <1>1, <1>3, <1>4, <1>5, <1>10 DEF Newer, Copy

LEMMA HeadPlays ==
    ASSUME Types, HearInv, NEW n \in Node, NEW m \in Node, Arrives(n, m),
           NEW o \in owed, o.by = n, Copy(Head(link[m][n]), o.src, o.seq)
    PROVE  Fresh(n, Head(link[m][n]))
<1>1. Head(link[m][n]).src = o.src /\ Head(link[m][n]).seq = o.seq
  BY DEF Copy
<1>2. o.seq \in Nat /\ heard[n][o.src] < o.seq /\ o.src \in Node
  BY DEF HearInv, Owed
<1>3. Fits(Head(link[m][n]), m, n)
  BY <1>1, <1>2, HeadFits
<1>4. heard[n][o.src] \in Nat
  BY <1>2 DEF Types, Counts
<1>5. QED
  BY <1>1, <1>2, <1>3, <1>4 DEF Fits, Fresh

(* What the forwarder passes on goes the way to its hearers.                *)
LEMMA PassedFits ==
    ASSUME Types, Steady, NEW n \in Node, NEW m \in Node, NEW b \in Node,
           NEW f \in VoiceFrame, Fits(f, m, n), NEW c, IsCopy(n, f, b, c)
    PROVE  Fits(c, n, b)
<1>1. mode[n] = Hybrid(n) /\ f.src # n /\ b # n /\ b # f.src /\ f.src \in Node
  BY DEF IsCopy, ShouldForward, VoiceFrame
<1>2. c.src = f.src /\ c.seal \in {f.seal, Clear}
  BY DEF IsCopy
<1>3. mode[f.src] = Hybrid(n) /\ mode[b] = Hybrid(n)
  BY <1>1 DEF Steady
<1>4. Hybrid(n).kind = "hybrid" /\ Hybrid(n).forwarder = n
  BY DEF Hybrid
<1>5. n = From(f.src, b) /\ From(f.src, n) = f.src
  BY <1>1, <1>3, <1>4 DEF From
<1>6. f.seal = Channel
  BY <1>1, <1>5 DEF Fits
<1>7. key[b] = {}
  BY <1>3, <1>4 DEF Steady
<1>8. Opens(b, c)
  BY <1>2, <1>6, <1>7 DEF Opens
<1>9. QED
  BY <1>1, <1>2, <1>5, <1>8 DEF Fits

LEMMA VoiceSteps ==
    ASSUME Types, HearInv, NEW n \in Node, NEW m \in Node, Arrives(n, m), RecvVoice(n, m)
    PROVE  /\ UNCHANGED <<conn, peers, members, mode, key, spoken>>
           /\ Head(link[m][n]) \in VoiceFrame
           /\ Head(link[m][n]).type = "Voice"
           /\ owed' \subseteq owed
           /\ IF Fresh(n, Head(link[m][n]))
              THEN /\ heard' = [heard EXCEPT ![n][Head(link[m][n]).src] = Head(link[m][n]).seq]
                   /\ owed' = owed \ {[src |-> Head(link[m][n]).src, seq |-> Head(link[m][n]).seq,
                                       by |-> n]}
              ELSE heard' = heard /\ owed' = owed
<1>1. Head(link[m][n]).type = "Voice"
  BY DEF RecvVoice
<1>2. Head(link[m][n]) \in VoiceFrame
  BY <1>1, Arriving, FrameKinds
<1>3. QED
  BY <1>1, <1>2 DEF RecvVoice

(* What is still owed to n once it has taken a frame is not that frame.     *)
LEMMA StillOwed ==
    ASSUME Types, HearInv, NEW n \in Node, NEW m \in Node, Arrives(n, m), RecvVoice(n, m),
           NEW o \in owed', o.by = n
    PROVE  ~Copy(Head(link[m][n]), o.src, o.seq)
<1>1. SUFFICES ASSUME Copy(Head(link[m][n]), o.src, o.seq)
               PROVE  FALSE
  OBVIOUS
<1>2. o \in owed
  BY VoiceSteps
<1>3. Fresh(n, Head(link[m][n]))
  BY <1>1, <1>2, HeadPlays
<1>4. o \in [src : Node, seq : Nat, by : Node]
  BY <1>2 DEF HearInv, Owed
<1>5. o # [src |-> Head(link[m][n]).src, seq |-> Head(link[m][n]).seq, by |-> n]
  BY <1>3, VoiceSteps
<1>6. QED
  BY <1>1, <1>4, <1>5 DEF Copy

LEMMA VoiceSpoken ==
    ASSUME Types, HearInv, NEW n \in Node, NEW m \in Node, Arrives(n, m), RecvVoice(n, m)
    PROVE  Spoken' /\ Owed'
<1>1. PICK f : f = Head(link[m][n])
  OBVIOUS
<1>2. /\ f \in VoiceFrame /\ f.type = "Voice" /\ f.src \in Node /\ f.seq \in Nat
      /\ spoken' = spoken
  BY <1>1, VoiceSteps DEF VoiceFrame
<1>3. Said(f)
  <2>1. PICK q : q = link[m][n]
    OBVIOUS
  <2>2. q \in Seq(Frame) /\ q # <<>>
    BY <2>1, Queue DEF Arrives
  <2>3. 1 \in 1..Len(q) /\ Head(q) = q[1]
    BY <2>2
  <2>4. QED
    BY <1>1, <2>1, <2>3 DEF HearInv, Spoken, Uttered
<1>4. /\ owed' \subseteq owed
      /\ Fresh(n, f) => heard' = [heard EXCEPT ![n][f.src] = f.seq]
      /\ ~Fresh(n, f) => heard' = heard
  BY <1>1, VoiceSteps
<1>5. heard \in [Node -> [Node -> Nat]] /\ spoken \in [Node -> Nat]
  BY DEF Types, Counts
<1>6. ASSUME NEW a \in Node, NEW s \in Node
      PROVE  \/ heard'[a][s] = heard[a][s]
             \/ a = n /\ s = f.src /\ heard'[a][s] = f.seq
  BY <1>2, <1>4, <1>5
<1>7. \A a, s \in Node : heard'[a][s] <= spoken'[s]
  <2>1. f.seq <= spoken[f.src]
    BY <1>2, <1>3 DEF Said
  <2>2. QED
    BY <1>2, <1>6, <2>1 DEF HearInv, Spoken
<1>8. Uttered(link')
  <2>1. SUFFICES ASSUME NEW a \in Node, NEW b \in Node, NEW i \in 1..Len(link'[a][b])
                 PROVE  Said(link'[a][b][i])
    BY DEF Uttered
  <2>2. PICK q, r : Passes(n, m, f, a, b, q, r)
    BY <1>1, VoicePasses
  <2>3. q \in Seq(Frame) /\ r \in Seq(Frame) /\ i \in 1..Len(q \o r) /\ link'[a][b] = q \o r
    BY <2>2 DEF Passes
  <2>4. \/ i \in 1..Len(q) /\ (q \o r)[i] = q[i]
        \/ \E j \in 1..Len(r) : (q \o r)[i] = r[j]
    BY <2>3, Joined
  <2>5. \A j \in 1..Len(q) : Said(q[j])
    <3>1. Within(Kept(n, m, a, b), link[a][b])
      BY KeptFrames
    <3>2. \A l \in 1..Len(link[a][b]) : Said(link[a][b][l])
      BY DEF HearInv, Spoken, Uttered
    <3>3. QED
      BY <2>2, <3>1, <3>2 DEF Within, Passes
  <2>6. \A j \in 1..Len(r) : Said(r[j])
    <3>1. CASE a = n
      BY <1>2, <1>3, <2>2, <3>1 DEF Passes, IsCopy, Said
    <3>2. CASE a # n
      BY <2>2, <3>2 DEF Passes
    <3>3. QED
      BY <3>1, <3>2
  <2>7. QED
    BY <2>3, <2>4, <2>5, <2>6
<1>9. Spoken'
  <2>1. Uttered(link)'
    BY <1>2, <1>8 DEF Uttered, Said
  <2>2. QED
    BY <1>7, <2>1 DEF Spoken
<1>10. ASSUME NEW o \in owed'
       PROVE  heard'[o.by][o.src] < o.seq
  <2>1. /\ o \in owed /\ o.by \in Node /\ o.src \in Node /\ o.seq \in Nat
        /\ heard[o.by][o.src] < o.seq
    BY <1>4 DEF HearInv, Owed
  <2>2. CASE o.by = n /\ o.src = f.src
    <3>1. f.seq <= o.seq
      BY <1>1, <1>2, <2>1, <2>2, HeadNotNewer
    <3>2. ~Copy(f, o.src, o.seq)
      BY <1>1, <2>2, StillOwed
    <3>3. f.seq # o.seq
      BY <1>2, <2>2, <3>2 DEF Copy
    <3>4. PICK x, y : x = f.seq /\ y = o.seq
      OBVIOUS
    <3>5. x \in Nat /\ y \in Nat /\ x < y
      BY <1>2, <2>1, <3>1, <3>3, <3>4
    <3>6. QED
      BY <1>6, <2>1, <3>4, <3>5
  <2>3. CASE ~(o.by = n /\ o.src = f.src)
    BY <1>6, <2>1, <2>3
  <2>4. QED
    BY <2>2, <2>3
<1>11. Owed'
  BY <1>2, <1>4, <1>10 DEF HearInv, Owed
<1>12. QED
  BY <1>9, <1>11

LEMMA VoiceRegular ==
    ASSUME Types, HearInv, NEW n \in Node, NEW m \in Node, Arrives(n, m), RecvVoice(n, m),
           owed' # {}
    PROVE  Steady /\ AllVoice(link') /\ Regular(link', owed')
<1>1. PICK f : f = Head(link[m][n])
  OBVIOUS
<1>2. f \in VoiceFrame /\ owed' \subseteq owed
  BY <1>1, VoiceSteps
<1>3. Steady /\ AllVoice(link) /\ Regular(link, owed)
  BY <1>2 DEF HearInv, UnderWay
<1>4. ASSUME NEW a \in Node, NEW b \in Node, NEW i \in 1..Len(link'[a][b])
      PROVE  \/ \E j \in 1..Len(link[a][b]) : link'[a][b][i] = link[a][b][j]
             \/ a = n /\ IsCopy(n, f, b, link'[a][b][i])
  <2>1. PICK q, r : Passes(n, m, f, a, b, q, r)
    BY <1>1, VoicePasses
  <2>2. q \in Seq(Frame) /\ r \in Seq(Frame) /\ i \in 1..Len(q \o r) /\ link'[a][b] = q \o r
    BY <2>1 DEF Passes
  <2>3. \/ i \in 1..Len(q) /\ (q \o r)[i] = q[i]
        \/ \E j \in 1..Len(r) : (q \o r)[i] = r[j]
    BY <2>2, Joined
  <2>4. Within(q, link[a][b])
    BY <2>1, KeptFrames DEF Passes
  <2>5. \A j \in 1..Len(r) : a = n /\ IsCopy(n, f, b, r[j])
    BY <2>1 DEF Passes
  <2>6. QED
    BY <2>2, <2>3, <2>4, <2>5 DEF Within
<1>5. AllVoice(link')
  <2>1. SUFFICES ASSUME NEW a \in Node, NEW b \in Node, NEW i \in 1..Len(link'[a][b])
                 PROVE  link'[a][b][i].type = "Voice"
    BY DEF AllVoice
  <2>2. \A j \in 1..Len(link[a][b]) : link[a][b][j].type = "Voice"
    BY <1>3 DEF AllVoice
  <2>3. \A c : IsCopy(n, f, b, c) => c.type = "Voice"
    BY DEF IsCopy
  <2>4. PICK c : c = link'[a][b][i]
    OBVIOUS
  <2>5. (\E j \in 1..Len(link[a][b]) : c = link[a][b][j]) \/ IsCopy(n, f, b, c)
    BY <1>4, <2>4
  <2>6. c.type = "Voice"
    BY <2>2, <2>3, <2>5
  <2>7. QED
    BY <2>4, <2>6
<1>6. Regular(link', owed')
  <2>1. SUFFICES ASSUME NEW a \in Node, NEW b \in Node, NEW i \in 1..Len(link'[a][b]),
                        Awaited(owed', link'[a][b][i])
                 PROVE  Fits(link'[a][b][i], a, b)
    BY DEF Regular
  <2>2. PICK c : c = link'[a][b][i]
    OBVIOUS
  <2>3. Awaited(owed, c)
    BY <1>2, <2>1, <2>2 DEF Awaited
  <2>4. CASE \E j \in 1..Len(link[a][b]) : c = link[a][b][j]
    BY <1>3, <2>2, <2>3, <2>4 DEF Regular
  <2>5. CASE a = n /\ IsCopy(n, f, b, c)
    <3>1. PICK o \in owed : o.src = c.src /\ o.seq <= c.seq
      BY <2>3 DEF Awaited
    <3>2. f.src = o.src /\ o.seq <= f.seq
      BY <2>5, <3>1 DEF IsCopy
    <3>3. Fits(f, m, n)
      BY <1>1, <3>2, HeadFits
    <3>4. Fits(c, n, b)
      BY <1>2, <1>3, <2>5, <3>3, PassedFits
    <3>5. QED
      BY <2>2, <2>5, <3>4
  <2>6. QED
    BY <1>4, <2>2, <2>4, <2>5
<1>7. QED
  BY <1>3, <1>5, <1>6

(* What leads a queue goes on to lead it, unless it is taken; what nothing  *)
(* newer precedes stays so, unless that comes from elsewhere.               *)
LEMMA StillLeads ==
    ASSUME Types, NEW n \in Node, NEW m \in Node, Arrives(n, m), RecvVoice(n, m),
           NEW a \in Node, NEW b \in Node, NEW s, NEW k, Leads(link[a][b], s, k),
           a = m /\ b = n => ~Copy(Head(link[m][n]), s, k)
    PROVE  Leads(link'[a][b], s, k)
<1>1. PICK q, r : Passes(n, m, Head(link[m][n]), a, b, q, r)
  BY VoicePasses
<1>2. q = Kept(n, m, a, b) /\ q \in Seq(Frame) /\ r \in Seq(Frame) /\ link'[a][b] = q \o r
  BY <1>1 DEF Passes
<1>3. Leads(q, s, k)
  <2>1. CASE a = m /\ b = n
    <3>1. PICK p : p = link[a][b]
      OBVIOUS
    <3>2. p \in Seq(Frame) /\ p # <<>> /\ q = Tail(p)
      BY <1>2, <2>1, <3>1, Queue DEF Arrives, Kept
    <3>3. Leads(p, s, k) /\ ~Copy(Head(p), s, k)
      BY <2>1, <3>1
    <3>4. QED
      BY <3>2, <3>3, LeadsTail
  <2>2. CASE ~(a = m /\ b = n)
    BY <1>2, <2>2 DEF Kept
  <2>3. QED
    BY <2>1, <2>2
<1>4. QED
  BY <1>2, <1>3, LeadsConcat

LEMMA StillClean ==
    ASSUME Types, NEW n \in Node, NEW m \in Node, Arrives(n, m), RecvVoice(n, m),
           NEW a \in Node, NEW b \in Node, NEW s, NEW k, Clean(link[a][b], s, k),
           a = n => ~Newer(Head(link[m][n]), s, k)
    PROVE  Clean(link'[a][b], s, k)
<1>1. PICK q, r : Passes(n, m, Head(link[m][n]), a, b, q, r)
  BY VoicePasses
<1>2. q = Kept(n, m, a, b) /\ q \in Seq(Frame) /\ r \in Seq(Frame) /\ link'[a][b] = q \o r
  BY <1>1 DEF Passes
<1>3. Clean(q, s, k)
  <2>1. CASE a = m /\ b = n
    <3>1. PICK p : p = link[a][b]
      OBVIOUS
    <3>2. p \in Seq(Frame) /\ p # <<>> /\ q = Tail(p)
      BY <1>2, <2>1, <3>1, Queue DEF Arrives, Kept
    <3>3. Clean(p, s, k)
      BY <2>1, <3>1
    <3>4. QED
      BY <3>2, <3>3, LeadsTail
  <2>2. CASE ~(a = m /\ b = n)
    BY <1>2, <2>2 DEF Kept
  <2>3. QED
    BY <2>1, <2>2
<1>4. Clean(r, s, k)
  <2>1. Head(link[m][n]).type = "Voice"
    BY DEF RecvVoice
  <2>2. CASE a = n
    BY <1>1, <2>1, <2>2 DEF Passes, IsCopy, Clean, Newer
  <2>3. CASE a # n
    BY <1>1, <2>3 DEF Passes, Clean
  <2>4. QED
    BY <2>2, <2>3
<1>5. QED
  BY <1>2, <1>3, <1>4, LeadsConcat

LEMMA VoiceComing ==
    ASSUME Types, HearInv, NEW n \in Node, NEW m \in Node, Arrives(n, m), RecvVoice(n, m),
           NEW o \in owed'
    PROVE  Coming(link', o)
<1>1. PICK f : f = Head(link[m][n])
  OBVIOUS
<1>2. f \in VoiceFrame /\ f.type = "Voice" /\ o \in owed
  BY <1>1, VoiceSteps
<1>3. Steady /\ Coming(link, o)
  BY <1>2 DEF HearInv, UnderWay
<1>4. PICK s, b, k : s = o.src /\ b = o.by /\ k = o.seq
  OBVIOUS
<1>5. s \in Node /\ b \in Node /\ s # b /\ k \in Nat
  BY <1>2, <1>4 DEF HearInv, Owed
<1>6. PICK a : a = From(s, b)
  OBVIOUS
<1>7. a \in Node /\ (a # s => a # b /\ mode[s] = Hybrid(a) /\ From(s, a) = s)
  BY <1>5, <1>6, FromNode
<1>8. CASE Leads(link[a][b], s, k)
  <2>1. b = n => ~Copy(Head(link[m][n]), s, k)
    BY <1>4, StillOwed
  <2>2. Leads(link'[a][b], s, k)
    BY <1>5, <1>7, <1>8, <2>1, StillLeads
  <2>3. QED
    BY <1>4, <1>6, <2>2 DEF Coming
<1>9. CASE a # s /\ Clean(link[a][b], s, k) /\ Leads(link[s][a], s, k)
  <2>1. CASE s = m /\ a = n /\ Copy(f, s, k)
    <3>1. f.src = s /\ f.seq = k
      BY <2>1 DEF Copy
    <3>2. Fits(f, m, n)
      BY <1>1, <1>2, <1>4, <1>5, <3>1, HeadFits
    <3>3. mode[n] = Hybrid(n)
      BY <1>3, <1>5, <1>7, <1>9, <2>1 DEF Steady
    <3>4. f.hops = 0 /\ f.seal = Channel
      BY <2>1, <3>1, <3>2, <3>3 DEF Fits
    <3>5. Channel # Clear
      BY <1>5 DEF Channel, Clear
    <3>6. ShouldForward(n, f) /\ b \in Listeners(n, f) \intersect peers[n]
      BY <1>3, <1>5, <1>7, <1>9, <2>1, <3>1, <3>3 DEF ShouldForward, Listeners, Steady
    <3>7. Leads(Passed(n, f)[b], s, k)
      BY <1>2, <1>5, <3>1, <3>4, <3>5, <3>6, PassedCopies
    <3>8. Passed(n, f)[b] \in Seq(Frame)
      BY <1>2, <1>5, PassedCopies DEF Copies
    <3>9. link'[n][b] = link[n][b] \o Passed(n, f)[b]
      <4>1. link' = Posted(Taken(n, m), n, Passed(n, f))
        BY <1>1 DEF RecvVoice, Passed
      <4>2. Linked(n, b)
        BY <1>3, <1>5, <1>7, <1>9, <2>1 DEF Steady, Linked
      <4>3. Kept(n, m, n, b) = link[n][b]
        BY <1>9, <2>1 DEF Kept
      <4>4. Posted(Taken(n, m), n, Passed(n, f))[n][b] =
               IF n = n /\ Linked(n, b) THEN Kept(n, m, n, b) \o Passed(n, f)[b]
               ELSE Kept(n, m, n, b)
        BY <1>5, PostedQueue
      <4>5. QED
        BY <4>1, <4>2, <4>3, <4>4
    <3>10. link[n][b] \in Seq(Frame) /\ Clean(link[n][b], s, k)
      BY <1>5, <1>9, <2>1, Queue
    <3>11. Leads(link'[n][b], s, k)
      BY <3>7, <3>8, <3>9, <3>10, LeadsConcat
    <3>12. QED
      BY <1>4, <1>6, <2>1, <3>11 DEF Coming
  <2>2. CASE ~(s = m /\ a = n /\ Copy(f, s, k))
    <3>1. Leads(link'[s][a], s, k)
      BY <1>1, <1>5, <1>7, <1>9, <2>2, StillLeads
    <3>2. a = n => ~Newer(f, s, k)
      <4>1. SUFFICES ASSUME a = n, Newer(f, s, k)
                     PROVE  FALSE
        OBVIOUS
      <4>2. f.src = s /\ k <= f.seq
        <5>1. f.seq \in Nat
          BY <1>2 DEF VoiceFrame
        <5>2. QED
          BY <1>5, <4>1, <5>1 DEF Newer
      <4>3. Fits(f, m, n)
        BY <1>1, <1>2, <1>4, <4>2, HeadFits
      <4>4. m = s
        BY <1>7, <1>9, <4>1, <4>2, <4>3 DEF Fits
      <4>5. PICK p : p = link[s][a]
        OBVIOUS
      <4>6. p \in Seq(Frame) /\ p # <<>> /\ Head(p) = f
        BY <1>1, <1>5, <1>7, <4>1, <4>4, <4>5, Queue DEF Arrives
      <4>7. Leads(p, s, k)
        BY <1>9, <4>5
      <4>8. Copy(f, s, k)
        BY <4>1, <4>6, <4>7, LeadsTail
      <4>9. QED
        BY <2>2, <4>1, <4>4, <4>8
    <3>3. Clean(link'[a][b], s, k)
      BY <1>1, <1>5, <1>7, <1>9, <3>2, StillClean
    <3>4. QED
      BY <1>4, <1>6, <1>9, <3>1, <3>3 DEF Coming
  <2>3. QED
    BY <2>1, <2>2
<1>10. QED
  BY <1>3, <1>4, <1>6, <1>8, <1>9 DEF Coming

LEMMA VoiceHears ==
    ASSUME Types, HearInv, NEW n \in Node, NEW m \in Node, Arrives(n, m), RecvVoice(n, m)
    PROVE  HearInv'
<1>1. Spoken' /\ Owed'
  BY VoiceSpoken
<1>2. UNCHANGED <<conn, peers, members, mode, key>>
  BY VoiceSteps
<1>3. owed' # {} => Steady /\ AllVoice(link') /\ Regular(link', owed')
  BY VoiceRegular
<1>4. \A o \in owed' : Coming(link', o)
  BY VoiceComing
<1>5. UnderWay'
  BY <1>2, <1>3, <1>4, UnderWayNext
<1>6. QED
  BY <1>1, <1>5 DEF HearInv

LEMMA HearInit == Init => HearInv
<1> SUFFICES ASSUME Init PROVE HearInv
  OBVIOUS
<1>1. /\ heard = [n \in Node |-> [m \in Node |-> 0]]
      /\ spoken = [n \in Node |-> 0]
      /\ link = [n \in Node |-> [m \in Node |-> <<>>]]
      /\ owed = {}
  BY DEF Init
<1>2. Spoken
  BY <1>1 DEF Spoken, Uttered
<1>3. Owed /\ UnderWay
  BY <1>1 DEF Owed, UnderWay
<1>4. QED
  BY <1>2, <1>3 DEF HearInv

LEMMA HearStep ==
    ASSUME Types, HearInv, [Next]_vars PROVE HearInv'
<1>1. CASE UNCHANGED vars
  <2>1. UNCHANGED <<conn, peers, members, mode, key, heard, spoken, link, owed>>
    BY <1>1 DEF vars, tables, history
  <2>2. Spoken' /\ Owed'
    BY <2>1 DEF HearInv, Spoken, Uttered, Said, Owed
  <2>3. UnderWay'
    BY <2>1, UnderWayNext DEF HearInv, UnderWay
  <2>4. QED
    BY <2>2, <2>3 DEF HearInv
<1>2. ASSUME NEW n \in Node, Speak(n) PROVE HearInv'
  BY <1>2, SpeakHears
<1>3. ASSUME NEW n \in Node, NEW m \in Node, Connect(n, m) PROVE HearInv'
  BY <1>3, ConnectHears
<1>4. ASSUME NEW n \in Node, NEW m \in Node, Disconnect(n, m) PROVE HearInv'
  BY <1>4, DisconnectHears
<1>5. ASSUME NEW n \in Node, NEW m \in Node, Exchange(n, m) PROVE HearInv'
  BY <1>5, ExchangeHears
<1>6. ASSUME NEW n \in Node, NEW m \in Node, Receive(n, m) PROVE HearInv'
  <2>1. Arrives(n, m)
    BY <1>6 DEF Receive, Arrives
  <2>2. \/ RecvJoin(n, m) \/ RecvPeerState(n, m) \/ RecvPeerList(n, m)
        \/ RecvTopology(n, m) \/ RecvVoice(n, m)
    BY <1>6 DEF Receive
  <2>3. QED
    BY <2>1, <2>2, JoinHears, PeerStateHears, PeerListHears, TopologyHears, VoiceHears
<1>7. QED
  BY <1>1, <1>2, <1>3, <1>4, <1>5, <1>6 DEF Next

(* Spec => []AllHear: while a frame of settled times is owed to somebody,   *)
(* a copy of it is on the one way to him, before anything later of the same *)
(* speaker, and the node that gets it can open it and passes it on.         *)
THEOREM GroupHears == Spec => []AllHear
<1>1. ASSUME HearInv, Types PROVE AllHear
  <2>1. SUFFICES ASSUME Quiet, NEW o \in owed
                 PROVE  FALSE
    BY DEF AllHear
  <2>2. o.src \in Node /\ o.by \in Node /\ Coming(link, o)
    BY <1>1 DEF HearInv, Owed, UnderWay
  <2>3. From(o.src, o.by) \in Node
    BY <1>1, <2>2, FromNode
  <2>4. \A a, b \in Node : ~Leads(link[a][b], o.src, o.seq)
    BY <2>1 DEF Quiet, Leads
  <2>5. QED
    BY <2>2, <2>3, <2>4 DEF Coming
<1>2. Init => Types /\ HearInv
  BY TypesInit, HearInit
<1>3. Types /\ HearInv /\ [Next]_vars => (Types /\ HearInv)'
  BY TypesStep, HearStep
<1>4. QED
  BY <1>1, <1>2, <1>3, PTL DEF Spec

-----------------------------------------------------------------------------
(* ReachesPeer.  A channel number stands for one peer, in the tables of the *)
(* client and of the server and in everything on its way between them.      *)

RelayTypes ==
    /\ raced \in BOOLEAN
    /\ DOMAIN task = Senders
    /\ \A t \in Senders : DOMAIN task[t] = {"pc", "peer", "number"} /\ task[t].peer \in Addresses
    /\ DOMAIN channels \subseteq Addresses

(* No two peers have one number.                                            *)
Distinct == \A p, q \in DOMAIN channels : channels[p] = channels[q] => p = q

(* Whoever is about to enter a number does so with the one its peer has by  *)
(* now, or with the next free one, and that for one peer only.              *)
Choosing ==
    /\ \A t, u \in Senders : /\ task[t].pc = "bind" /\ task[t].peer \notin DOMAIN channels
                             /\ task[u].pc = "bind" /\ task[u].peer \notin DOMAIN channels
                             => task[t].peer = task[u].peer
    /\ \A t \in Senders : task[t].pc = "bind" =>
          task[t].number = IF task[t].peer \in DOMAIN channels THEN channels[task[t].peer]
                           ELSE AllocateNumber(channels)

Has(p, n) == p \in DOMAIN channels /\ channels[p] = n

(* Every number that is in use, at whichever end, is that of the table.     *)
Agreed ==
    /\ \A t \in Senders : task[t].pc = "send" => Has(task[t].peer, task[t].number)
    /\ \A x \in uplink : /\ x.type = "bind" => Has(x.peer, x.number)
                         /\ x.type = "data" => Has(x.meant, x.number)
    /\ \A k \in DOMAIN bound : Has(bound[k], k)
    /\ \A x \in downlink : x.type = "data" => Has(x.from, x.number)

Met == \A d \in delivered \cup reported : d[1] = d[2]

RelayInv == RelayTypes /\ (~raced => Distinct /\ Choosing /\ Agreed /\ Met)

(* There is a number left, since there are more of them than addresses.     *)
LEMMA NumberIsFree ==
    ASSUME RelayTypes, Distinct
    PROVE  AllocateNumber(channels) \notin Range(channels)
<1> DEFINE free == {n \in Numbers : n \notin Range(channels)}
<1> DEFINE peerOf == [n \in Numbers |-> CHOOSE p \in DOMAIN channels : channels[p] = n]
<1>1. IsFiniteSet(Addresses) /\ Cardinality(Addresses) \in Nat
  BY TurnAssumption, FS_AddElement, FS_CardinalityType DEF Addresses
<1>2. /\ FirstNumber \in Nat /\ FirstNumber + Cardinality(Addresses) \in Nat
      /\ Numbers \subseteq Nat
  BY <1>1 DEF FirstNumber, Numbers
<1>3. IsFiniteSet(Numbers) /\ Cardinality(Numbers) = Cardinality(Addresses) + 1
  BY <1>1, <1>2, FS_Interval DEF Numbers, FirstNumber
<1>4. free # {}
  <2>1. SUFFICES ASSUME \A n \in Numbers : n \in Range(channels)
                 PROVE  FALSE
    OBVIOUS
  <2>2. \A n \in Numbers : peerOf[n] \in DOMAIN channels /\ channels[peerOf[n]] = n
    BY <2>1 DEF Range
  <2>3. peerOf \in [Numbers -> Addresses]
    BY <2>2 DEF RelayTypes
  <2>4. Cardinality(Addresses) < Cardinality(Numbers)
    BY <1>1, <1>3
  <2> HIDE DEF peerOf
  <2>5. PICK x, y \in Numbers : x # y /\ peerOf[x] = peerOf[y]
    BY <1>1, <1>3, <2>3, <2>4, FS_PigeonHole
  <2>6. QED
    BY <2>2, <2>5
<1> DEFINE R == OpToRel(<, Nat)
<1>5. IsWellFoundedOn(R, Nat)
  BY NatLessThanWellFounded
<1>6. \A x, y \in Nat : x < y => <<x, y>> \in R
  BY DEF OpToRel
<1>7. free \subseteq Nat
  BY <1>2
<1> HIDE DEF R, free
<1>8. PICK n \in free : \A y \in free : ~(<<y, n>> \in R)
  BY <1>4, <1>5, <1>7, WFMin
<1>9. \A y \in free : ~(y < n)
  BY <1>6, <1>7, <1>8
<1>10. n \in Numbers /\ n \in Nat /\ n \notin Range(channels)
  BY <1>7 DEF free
<1>11. \A k \in FirstNumber .. n - 1 : k \in Range(channels)
  <2>1. SUFFICES ASSUME NEW k \in FirstNumber .. n - 1, k \notin Range(channels)
                 PROVE  FALSE
    OBVIOUS
  <2>2. k \in Numbers /\ k < n
    BY <1>1, <1>2, <1>10 DEF Numbers
  <2>3. QED
    BY <1>9, <2>1, <2>2 DEF free
<1>12. AllocateNumber(channels) \in Numbers /\ AllocateNumber(channels) \notin Range(channels)
  BY <1>10, <1>11 DEF AllocateNumber
<1>13. QED
  BY <1>2, <1>12

LEMMA RelayInit ==
    ASSUME TurnInit
    PROVE  RelayInv
<1>1. RelayTypes
  <2>1. DOMAIN Resting = {"pc", "peer", "number"} /\ Resting.peer \in Addresses
    BY DEF Resting, Addresses
  <2>2. channels = <<>> /\ DOMAIN channels = {}
    BY DEF TurnInit
  <2>3. QED
    BY <2>1, <2>2 DEF TurnInit, RelayTypes
<1>2. \A t \in Senders : task[t].pc = "idle"
  BY DEF TurnInit, Resting
<1>3. DOMAIN channels = {} /\ DOMAIN bound = {} /\ uplink = {} /\ downlink = {}
  BY DEF TurnInit
<1>4. delivered \cup reported = {}
  BY DEF TurnInit
<1>5. QED
  BY <1>1, <1>2, <1>3, <1>4 DEF RelayInv, Distinct, Choosing, Agreed, Met

(* What the allocation does is of no concern to any number.                 *)
LEMMA RelayKept ==
    ASSUME RelayInv, UNCHANGED <<client, outside, uplink, downlink, reported>>
    PROVE  RelayInv'
<1>1. UNCHANGED <<raced, task, channels, uplink, downlink, bound, delivered, reported>>
  BY DEF client, outside
<1>2. RelayTypes'
  BY <1>1 DEF RelayInv, RelayTypes
<1>3. Distinct => Distinct'
  BY <1>1 DEF Distinct
<1>4. Choosing => Choosing'
  BY <1>1 DEF Choosing, AllocateNumber, Numbers
<1>5. Agreed => Agreed'
  BY <1>1 DEF Agreed, Has
<1>6. Met => Met'
  BY <1>1 DEF Met
<1>7. QED
  BY <1>1, <1>2, <1>3, <1>4, <1>5, <1>6 DEF RelayInv

LEMMA AllocationKeeps ==
    ASSUME RelayInv, AllocationNext
    PROVE  RelayInv'
<1>1. UNCHANGED <<client, outside, uplink, downlink, reported>>
  BY DEF AllocationNext, Allocate, ServerAnswers, Answered, AllocationTimesOut
<1>2. QED
  BY <1>1, RelayKept

(* A task moves on without entering or choosing a number.                   *)
LEMMA TaskMoves ==
    ASSUME RelayInv, NEW t \in Senders, NEW x,
           DOMAIN x = {"pc", "peer", "number"}, x.peer \in Addresses, x.pc # "bind",
           ~raced => (x.pc = "send" => Has(x.peer, x.number)),
           task' = [task EXCEPT ![t] = x],
           UNCHANGED <<channels, raced, bound, delivered, reported, downlink>>,
           ~raced => \A m \in uplink' : \/ m \in uplink
                                        \/ m.type \notin {"bind", "data"}
                                        \/ m.type = "data" /\ Has(m.meant, m.number)
    PROVE  RelayInv'
<1>1. RelayTypes'
  BY DEF RelayInv, RelayTypes
<1>2. task'[t] = x /\ \A u \in Senders : u # t => task'[u] = task[u]
  BY DEF RelayInv, RelayTypes
<1>4. ASSUME ~raced'
      PROVE  (Distinct /\ Choosing /\ Agreed /\ Met)'
  <2>0. ~raced /\ Distinct /\ Choosing /\ Agreed /\ Met
    BY <1>4 DEF RelayInv
  <2>1. Distinct' /\ Met'
    BY <2>0 DEF Distinct, Met
  <2>2. Choosing'
    <3>1. \A u \in Senders : task'[u].pc = "bind" => task[u].pc = "bind" /\ task'[u] = task[u]
      BY <1>2
    <3>2. AllocateNumber(channels') = AllocateNumber(channels)
      BY DEF AllocateNumber, Numbers
    <3>3. QED
      BY <2>0, <3>1, <3>2 DEF Choosing
  <2>3. \A u \in Senders : task'[u].pc = "send" => Has(task'[u].peer, task'[u].number)
    BY <1>2, <2>0 DEF Agreed
  <2>4. \A m \in uplink' : /\ m.type = "bind" => Has(m.peer, m.number)
                           /\ m.type = "data" => Has(m.meant, m.number)
    BY <2>0 DEF Agreed
  <2>5. Agreed'
    BY <2>0, <2>3, <2>4 DEF Agreed, Has
  <2>6. QED
    BY <2>1, <2>2, <2>5
<1>5. QED
  BY <1>1, <1>4 DEF RelayInv

LEMMA StartSendKeeps ==
    ASSUME RelayInv, NEW t \in Senders, StartSend(t)
    PROVE  RelayInv'
<1>1. PICK p \in Addresses : task' = [task EXCEPT ![t] = [pc |-> "permit", peer |-> p, number |-> 0]]
  BY DEF StartSend, Addresses
<1>2. PICK x : x = [pc |-> "permit", peer |-> p, number |-> 0]
  OBVIOUS
<1>3. UNCHANGED <<channels, raced, bound, delivered, reported, downlink, uplink>>
  BY DEF StartSend, outside
<1>4. DOMAIN x = {"pc", "peer", "number"} /\ x.peer \in Addresses /\ x.pc \notin {"bind", "send"}
  BY <1>2
<1>5. task' = [task EXCEPT ![t] = x]
  BY <1>1, <1>2
<1>6. QED
  BY <1>3, <1>4, <1>5, TaskMoves

LEMMA PermitKeeps ==
    ASSUME RelayInv, NEW t \in Senders, Permit(t)
    PROVE  RelayInv'
<1>0. DOMAIN task[t] = {"pc", "peer", "number"} /\ task[t].peer \in Addresses
  BY DEF RelayInv, RelayTypes
<1>1. PICK x : /\ x \in {[task[t] EXCEPT !.pc = "lookup"], Resting}
               /\ task' = [task EXCEPT ![t] = x]
  BY DEF Permit
<1>2. DOMAIN x = {"pc", "peer", "number"} /\ x.peer \in Addresses /\ x.pc \notin {"bind", "send"}
  BY <1>0, <1>1 DEF Resting, Addresses
<1>3. UNCHANGED <<channels, raced, bound, delivered, reported, downlink>>
  BY DEF Permit, outside
<1>4. \A m \in uplink' : m \in uplink \/ m.type = "permit"
  BY DEF Permit, PermitRequest
<1>5. QED
  BY <1>1, <1>2, <1>3, <1>4, TaskMoves

LEMMA SendDataKeeps ==
    ASSUME RelayInv, NEW t \in Senders, SendData(t)
    PROVE  RelayInv'
<1>0. task[t].pc = "send" /\ task' = [task EXCEPT ![t] = Resting]
  BY DEF SendData
<1>1. DOMAIN Resting = {"pc", "peer", "number"} /\ Resting.peer \in Addresses /\ Resting.pc = "idle"
  BY DEF Resting, Addresses
<1>2. UNCHANGED <<channels, raced, bound, delivered, reported, downlink>>
  BY DEF SendData, outside
<1>3. \A m \in uplink' : \/ m \in uplink
                         \/ m.type = "data" /\ m.meant = task[t].peer /\ m.number = task[t].number
  BY DEF SendData
<1>4. ~raced => Has(task[t].peer, task[t].number)
  BY <1>0 DEF RelayInv, Agreed
<1>5. QED
  BY <1>0, <1>1, <1>2, <1>3, <1>4, TaskMoves

LEMMA SendIndicationKeeps ==
    ASSUME RelayInv, NEW t \in Senders, SendIndication(t)
    PROVE  RelayInv'
<1>0. task' = [task EXCEPT ![t] = Resting]
  BY DEF SendIndication
<1>1. DOMAIN Resting = {"pc", "peer", "number"} /\ Resting.peer \in Addresses /\ Resting.pc = "idle"
  BY DEF Resting, Addresses
<1>2. UNCHANGED <<channels, raced, bound, delivered, reported, downlink>>
  BY DEF SendIndication, outside
<1>3. \A m \in uplink' : m \in uplink \/ m.type = "indication"
  BY DEF SendIndication, IndicationTo
<1>5. QED
  BY <1>0, <1>1, <1>2, <1>3, TaskMoves

LEMMA LookupKeeps ==
    ASSUME RelayInv, NEW t \in Senders, Lookup(t)
    PROVE  RelayInv'
<1>0. /\ DOMAIN task = Senders
      /\ \A u \in Senders : DOMAIN task[u] = {"pc", "peer", "number"} /\ task[u].peer \in Addresses
      /\ raced \in BOOLEAN /\ DOMAIN channels \subseteq Addresses
  BY DEF RelayInv, RelayTypes
<1>1. UNCHANGED <<channels, uplink, bound, delivered, reported, downlink>>
  BY DEF Lookup, outside
<1> DEFINE p == task[t].peer
<1>2. CASE p \in DOMAIN channels
  <2>1. PICK x : x = [task[t] EXCEPT !.pc = "send", !.number = channels[p]]
    OBVIOUS
  <2>2. task' = [task EXCEPT ![t] = x] /\ UNCHANGED raced
    BY <1>2, <2>1 DEF Lookup
  <2>3. DOMAIN x = {"pc", "peer", "number"} /\ x.peer \in Addresses /\ x.pc # "bind"
        /\ Has(x.peer, x.number)
    BY <1>0, <1>2, <2>1 DEF Has
  <2>4. QED
    BY <1>1, <2>2, <2>3, TaskMoves
<1>3. CASE p \notin DOMAIN channels
  <2>1. PICK n : n = AllocateNumber(channels)
    OBVIOUS
  <2>2. /\ task' = [task EXCEPT ![t] = [@ EXCEPT !.pc = "bind", !.number = n]]
        /\ raced' = (raced \/ \E u \in Senders : /\ task[u].pc = "bind"
                                                  /\ task[u].peer # p
                                                  /\ task[u].number = n)
    BY <1>3, <2>1 DEF Lookup
  <2>3. /\ task'[t].pc = "bind" /\ task'[t].peer = p /\ task'[t].number = n
        /\ \A u \in Senders : u # t => task'[u] = task[u]
    BY <1>0, <2>2
  <2>4. RelayTypes'
    BY <1>0, <1>1, <2>2 DEF RelayTypes
  <2>5. ASSUME ~raced'
        PROVE  (Distinct /\ Choosing /\ Agreed /\ Met)'
    <3>1. /\ ~raced
          /\ \A u \in Senders : task[u].pc = "bind" /\ task[u].number = n => task[u].peer = p
      BY <2>2, <2>5
    <3>2. Distinct /\ Choosing /\ Agreed /\ Met
      BY <3>1 DEF RelayInv
    <3>5. Distinct' /\ Met'
      BY <1>1, <3>2 DEF Distinct, Met
    <3>6. \A u \in Senders : task'[u].pc = "bind" =>
             IF task'[u].peer \in DOMAIN channels
             THEN task'[u].number = channels[task'[u].peer]
             ELSE task'[u].number = n /\ task'[u].peer = p
      BY <1>3, <2>1, <2>3, <3>1, <3>2 DEF Choosing
    <3>7. AllocateNumber(channels') = n
      BY <1>1, <2>1
    <3>8. Choosing'
      BY <1>1, <1>3, <3>6, <3>7 DEF Choosing
    <3>9. Agreed'
      BY <1>1, <2>3, <3>2 DEF Agreed, Has
    <3>10. QED
      BY <3>5, <3>8, <3>9
  <2>6. QED
    BY <2>4, <2>5 DEF RelayInv
<1>4. QED
  BY <1>2, <1>3

LEMMA BindKeeps ==
    ASSUME RelayInv, NEW t \in Senders, Bind(t)
    PROVE  RelayInv'
<1> DEFINE p == task[t].peer
<1> DEFINE n == task[t].number
<1>0. /\ DOMAIN task = Senders
      /\ \A u \in Senders : DOMAIN task[u] = {"pc", "peer", "number"} /\ task[u].peer \in Addresses
      /\ raced \in BOOLEAN /\ DOMAIN channels \subseteq Addresses
  BY DEF RelayInv, RelayTypes
<1>1. task[t].pc = "bind" /\ UNCHANGED <<raced, bound, delivered, reported, downlink>>
  BY DEF Bind, outside
<1>2. CASE UNCHANGED <<uplink, channels>> /\ task' = [task EXCEPT ![t].pc = "indicate"]
  <2>1. PICK x : x = [task[t] EXCEPT !.pc = "indicate"]
    OBVIOUS
  <2>2. /\ DOMAIN x = {"pc", "peer", "number"} /\ x.peer \in Addresses /\ x.pc = "indicate"
        /\ task' = [task EXCEPT ![t] = x]
    BY <1>0, <1>2, <2>1
  <2>3. QED
    BY <1>1, <1>2, <2>2, TaskMoves
<1>3. CASE /\ uplink' = uplink \cup {BindRequest(p, n)}
           /\ channels' = [q \in DOMAIN channels \cup {p} |-> IF q = p THEN n ELSE channels[q]]
           /\ task' = [task EXCEPT ![t].pc = "send"]
  <2>1. RelayTypes'
    BY <1>0, <1>1, <1>3 DEF RelayTypes
  <2>2. /\ task'[t].pc = "send" /\ task'[t].peer = p /\ task'[t].number = n
        /\ \A u \in Senders : u # t => task'[u] = task[u]
    BY <1>0, <1>3
  <2>3. ASSUME ~raced'
        PROVE  (Distinct /\ Choosing /\ Agreed /\ Met)'
    <3>1. Distinct /\ Choosing /\ Agreed /\ Met
      BY <1>1, <2>3 DEF RelayInv
    <3>2. n = IF p \in DOMAIN channels THEN channels[p] ELSE AllocateNumber(channels)
      BY <1>1, <3>1 DEF Choosing
    <3>3. \A q \in DOMAIN channels : channels[q] = n => q = p
      <4>1. CASE p \in DOMAIN channels
        BY <3>1, <3>2, <4>1 DEF Distinct
      <4>2. CASE p \notin DOMAIN channels
        <5>1. n \notin Range(channels)
          BY <3>1, <3>2, <4>2, NumberIsFree DEF RelayInv
        <5>2. QED
          BY <5>1 DEF Range
      <4>3. QED
        BY <4>1, <4>2
    <3>4. /\ DOMAIN channels' = DOMAIN channels \cup {p} /\ channels'[p] = n
          /\ \A q \in DOMAIN channels : channels'[q] = channels[q]
      BY <1>3, <3>2
    <3> DEFINE Shall(q, k) == q \in DOMAIN channels' /\ channels'[q] = k
    <3>5. Shall(p, n) /\ \A q, k : Has(q, k) => Shall(q, k)
      BY <3>4 DEF Has
    <3>6. Distinct'
      BY <3>1, <3>3, <3>4 DEF Distinct
    <3>7. Choosing'
      <4>1. \A u \in Senders : task'[u].pc = "bind" =>
               task[u].pc = "bind" /\ task'[u] = task[u]
        BY <2>2
      <4>2. \A u \in Senders : task'[u].pc = "bind" /\ task[u].peer = p => task[u].number = n
        BY <3>1, <3>2, <4>1 DEF Choosing
      <4>3. \A u \in Senders :
               task'[u].pc = "bind" /\ task[u].peer \notin DOMAIN channels' => p \in DOMAIN channels
        BY <1>1, <3>1, <3>4, <4>1 DEF Choosing
      <4>4. p \in DOMAIN channels => AllocateNumber(channels') = AllocateNumber(channels)
        <5>1. SUFFICES ASSUME p \in DOMAIN channels
                       PROVE  Range(channels') = Range(channels)
          BY DEF AllocateNumber
        <5>2. DOMAIN channels' = DOMAIN channels
              /\ \A q \in DOMAIN channels : channels'[q] = channels[q]
          BY <3>4, <5>1
        <5>3. QED
          BY <5>2 DEF Range
      <4>5. \A u \in Senders : task'[u].pc = "bind" =>
               task'[u].number = IF task'[u].peer \in DOMAIN channels'
                                 THEN channels'[task'[u].peer] ELSE AllocateNumber(channels')
        <5>1. SUFFICES ASSUME NEW u \in Senders, task'[u].pc = "bind"
                       PROVE  task[u].number = IF task[u].peer \in DOMAIN channels'
                                               THEN channels'[task[u].peer]
                                               ELSE AllocateNumber(channels')
          BY <4>1
        <5>2. CASE task[u].peer = p
          BY <3>4, <4>2, <5>1, <5>2
        <5>3. CASE task[u].peer # p
          BY <3>1, <3>4, <4>1, <4>3, <4>4, <5>1, <5>3 DEF Choosing
        <5>4. QED
          BY <5>2, <5>3
      <4>6. \A u, v \in Senders :
               /\ task'[u].pc = "bind" /\ task'[u].peer \notin DOMAIN channels'
               /\ task'[v].pc = "bind" /\ task'[v].peer \notin DOMAIN channels'
               => task'[u].peer = task'[v].peer
        BY <3>1, <3>4, <4>1 DEF Choosing
      <4>7. QED
        BY <4>5, <4>6 DEF Choosing
    <3>8. Agreed'
      <4>1. \A u \in Senders : task'[u].pc = "send" => Shall(task'[u].peer, task'[u].number)
        BY <2>2, <3>1, <3>5 DEF Agreed
      <4>2. \A x \in uplink' : \/ x \in uplink
                               \/ x.type = "bind" /\ x.peer = p /\ x.number = n
        BY <1>3 DEF BindRequest
      <4>3. \A x \in uplink' : /\ x.type = "bind" => Shall(x.peer, x.number)
                               /\ x.type = "data" => Shall(x.meant, x.number)
        BY <3>1, <3>5, <4>2 DEF Agreed
      <4>4. \A k \in DOMAIN bound' : Shall(bound'[k], k)
        BY <1>1, <3>1, <3>5 DEF Agreed
      <4>5. \A x \in downlink' : x.type = "data" => Shall(x.from, x.number)
        BY <1>1, <3>1, <3>5 DEF Agreed
      <4>6. QED
        BY <4>1, <4>3, <4>4, <4>5 DEF Agreed, Has
    <3>9. Met'
      BY <1>1, <3>1 DEF Met
    <3>10. QED
      BY <3>6, <3>7, <3>8, <3>9
  <2>4. QED
    BY <2>1, <2>3 DEF RelayInv
<1>4. QED
  BY <1>2, <1>3 DEF Bind

(* The server, its peers and recv_from leave the client's tables alone.     *)
LEMMA ClientKept ==
    ASSUME RelayInv, UNCHANGED client, UNCHANGED uplink,
           ~raced /\ Distinct /\ Agreed /\ Met =>
              /\ \A k \in DOMAIN bound' : Has(bound'[k], k)
              /\ \A x \in downlink' : x.type = "data" => Has(x.from, x.number)
              /\ \A d \in delivered' \cup reported' : d[1] = d[2]
    PROVE  RelayInv'
<1>1. UNCHANGED <<raced, task, channels, uplink>>
  BY DEF client
<1>2. RelayTypes'
  BY <1>1 DEF RelayInv, RelayTypes
<1>3. Distinct => Distinct'
  BY <1>1 DEF Distinct
<1>4. Choosing => Choosing'
  BY <1>1 DEF Choosing, AllocateNumber, Numbers
<1>5. ASSUME ~raced, Distinct, Agreed, Met
      PROVE  Agreed' /\ Met'
  BY <1>1, <1>5 DEF Agreed, Has, Met
<1>6. QED
  BY <1>1, <1>2, <1>3, <1>4, <1>5 DEF RelayInv

LEMMA ServerKeeps ==
    ASSUME RelayInv, ServerBinds \/ ServerPermits \/ ServerRelays \/ PeerSends
    PROVE  RelayInv'
<1>1. CASE ServerBinds
  <2>1. PICK m \in uplink :
           /\ m.type = "bind"
           /\ bound' = [k \in DOMAIN bound \cup {m.number} |->
                          IF k = m.number THEN m.peer ELSE bound[k]]
           /\ UNCHANGED <<client, uplink, downlink, delivered, reported>>
    BY <1>1 DEF ServerBinds
  <2>2. ASSUME Agreed
        PROVE  \A k \in DOMAIN bound' : Has(bound'[k], k)
    BY <2>1, <2>2 DEF Agreed
  <2>3. QED
    BY <2>1, <2>2, ClientKept DEF Agreed, Met
<1>2. CASE ServerPermits
  <2>1. UNCHANGED <<client, uplink, bound, downlink, delivered, reported>>
    BY <1>2 DEF ServerPermits
  <2>2. QED
    BY <2>1, ClientKept DEF Agreed, Met
<1>3. CASE ServerRelays
  <2>1. UNCHANGED <<client, uplink, bound, downlink, reported>>
    BY <1>3 DEF ServerRelays
  <2>2. PICK m \in uplink :
           \/ /\ m.type = "data" /\ m.number \in DOMAIN bound
              /\ delivered' = delivered \cup {<<m.meant, bound[m.number]>>}
           \/ delivered' = delivered \cup {<<m.peer, m.peer>>}
    BY <1>3 DEF ServerRelays
  <2>3. ASSUME Distinct, Agreed, Met
        PROVE  \A d \in delivered' \cup reported' : d[1] = d[2]
    <3>1. ASSUME m.type = "data", m.number \in DOMAIN bound
          PROVE  m.meant = bound[m.number]
      BY <2>3, <3>1 DEF Agreed, Has, Distinct
    <3>2. QED
      BY <2>1, <2>2, <2>3, <3>1 DEF Met
  <2>4. QED
    BY <2>1, <2>3, ClientKept DEF Agreed
<1>4. CASE PeerSends
  <2>1. UNCHANGED <<client, uplink, bound, delivered, reported>>
    BY <1>4 DEF PeerSends, outside
  <2>2. \A x \in downlink' : \/ x \in downlink
                             \/ x.type = "indication"
                             \/ x.number \in DOMAIN bound /\ bound[x.number] = x.from
    BY <1>4 DEF PeerSends
  <2>3. ASSUME Agreed
        PROVE  \A x \in downlink' : x.type = "data" => Has(x.from, x.number)
    BY <2>2, <2>3 DEF Agreed
  <2>4. QED
    BY <2>1, <2>3, ClientKept DEF Agreed, Met
<1>5. QED
  BY <1>1, <1>2, <1>3, <1>4

LEMMA RecvKeeps ==
    ASSUME RelayInv, Recv
    PROVE  RelayInv'
<1>1. UNCHANGED <<client, uplink, bound, delivered, downlink>>
  BY DEF Recv, outside
<1>2. PICK m \in downlink : \E p \in Sources(m) : reported' = reported \cup {<<m.from, p>>}
  BY DEF Recv
<1>3. PICK p \in Sources(m) : reported' = reported \cup {<<m.from, p>>}
  BY <1>2
<1>4. ASSUME Distinct, Agreed, Met
      PROVE  \A d \in delivered' \cup reported' : d[1] = d[2]
  <2>1. p = m.from
    <3>1. CASE m.type = "data"
      BY <1>3, <1>4, <3>1 DEF Sources, Agreed, Has, Distinct
    <3>2. CASE m.type # "data"
      BY <1>3, <3>2 DEF Sources
    <3>3. QED
      BY <3>1, <3>2
  <2>2. QED
    BY <1>1, <1>3, <1>4, <2>1 DEF Met
<1>5. QED
  BY <1>1, <1>4, ClientKept DEF Agreed

(* What is sent through a TURN relay reaches whom it is meant for, and what *)
(* comes back is taken for that of its sender, as long as no two tasks have *)
(* chosen a number at the same time (ensure_channel, recv_from).            *)
THEOREM RelayReaches == TurnSpec => []ReachesPeer
<1>1. ASSUME RelayInv, [TurnNext]_turnVars
      PROVE  RelayInv'
  <2>1. CASE UNCHANGED turnVars
    BY <1>1, <2>1, RelayKept DEF turnVars, client, outside
  <2>2. CASE TurnNext
    BY <1>1, <2>2, AllocationKeeps, StartSendKeeps, PermitKeeps, LookupKeeps, BindKeeps,
       SendDataKeeps, SendIndicationKeeps, ServerKeeps, RecvKeeps DEF TurnNext, RelayNext
  <2>3. QED
    BY <1>1, <2>1, <2>2
<1>2. RelayInv => ReachesPeer
  BY DEF RelayInv, ReachesPeer, Met
<1>3. QED
  BY <1>1, <1>2, RelayInit, PTL DEF TurnSpec
=============================================================================
