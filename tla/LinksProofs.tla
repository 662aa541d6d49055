---------------------------- MODULE LinksProofs ----------------------------
(***************************************************************************)
(* What the packet layer promises, for every set of nodes, every           *)
(* configuration, every fault set and all bounds.                          *)
(*                                                                         *)
(* MeshLink: its variables keep their types, the two ends of a session     *)
(* agree on who holds it, frames behind the authentication gate are        *)
(* handled only from those who have the token, no key and nonce are used   *)
(* for two frames, and each direction of a session is an ordered stream.   *)
(* Where the network keeps the order and handshakes begin where no         *)
(* connection is, the nonces of the two ends of a session stay in step.    *)
(* LinkStats: a peer gets no more than twice the limit through in any      *)
(* second, and only frames that were lost are counted as lost.             *)
(***************************************************************************)
EXTENDS Links, SequencesExt, FiniteSetTheorems, TLAPS

(* Writing one entry, or one row, of a table keeps it a table.              *)
LEMMA EntryUpdate ==
    ASSUME NEW S, NEW f \in [Node -> [Node -> S]],
           NEW n \in Node, NEW m \in Node, NEW v \in S
    PROVE  [f EXCEPT ![n][m] = v] \in [Node -> [Node -> S]]
OBVIOUS

LEMMA RowUpdate ==
    ASSUME NEW S, NEW f \in [Node -> [Node -> S]],
           NEW n \in Node, NEW row \in [Node -> S]
    PROVE  [f EXCEPT ![n] = row] \in [Node -> [Node -> S]]
OBVIOUS

LEMMA EncryptType ==
    ASSUME NEW c \in Connection, NEW fs \in Seq(DataFrames)
    PROVE  /\ Encrypt(c, fs) \in Seq(Message)
           /\ Len(Encrypt(c, fs)) = Len(fs)
           /\ Range(Encrypt(c, fs)) \subseteq Message
<1>1. \A i \in 1..Len(fs) :
        [frame |-> fs[i], ei |-> c.ei, er |-> c.er, role |-> c.role,
         n |-> c.tx + i - 1] \in Message
  BY DEF Connection, Message, Frames, DataFrames
<1>2. Len(fs) \in Nat /\ Encrypt(c, fs) \in [1..Len(fs) -> Message]
  BY <1>1 DEF Encrypt
<1>3. QED
  BY <1>2 DEF Range

LEMMA DatagramsType ==
    ASSUME TypeOK, NEW n \in Node, NEW m \in Node, NEW ms \in Seq(Message)
    PROVE  Datagrams(n, m, ms) \subseteq Datagram
<1> SUFFICES ASSUME NEW i \in 1..Len(ms)
             PROVE  /\ ms[i] \in Message
                    /\ sends[n][m] + i \in Nat
  BY DEF Datagrams, Datagram
<1>1. sends[n][m] \in Nat
  BY DEF TypeOK
<1> QED
  BY <1>1

LEMMA WireType ==
    ASSUME TypeOK, NEW s \in Node, NEW r \in Node, NEW g,
           NEW out \in [Node -> Seq(Message)], Wire(s, r, g, out)
    PROVE  /\ net' \in [Node -> [Node -> SUBSET Datagram]]
           /\ sends' \in [Node -> [Node -> Nat]]
<1>1. Rest(s, r, g) \in SUBSET Datagram
  BY DEF Rest, TypeOK
<1>2. \A m \in Node : Datagrams(r, m, out[m]) \subseteq Datagram
  BY DatagramsType
<1>3. \A m \in Node : Len(out[m]) \in Nat
  OBVIOUS
<1>4. [m \in Node |-> net[r][m] \union Datagrams(r, m, out[m])]
        \in [Node -> SUBSET Datagram]
  BY <1>2 DEF TypeOK
<1>7. net' \in [Node -> [Node -> SUBSET Datagram]]
  BY <1>1, <1>4 DEF Wire, TypeOK
<1>8. sends' \in [Node -> [Node -> Nat]]
  <2>1. sends \in [Node -> [Node -> Nat]]
    BY DEF TypeOK
  <2>2. [m \in Node |-> sends[r][m] + Len(out[m])] \in [Node -> Nat]
    BY <1>3, <2>1
  <2>3. QED
    BY <2>1, <2>2, RowUpdate DEF Wire
<1>9. QED
  BY <1>7, <1>8

LEMMA EmitType ==
    ASSUME TypeOK, NEW n \in Node, NEW m \in Node,
           NEW ms \in Seq(Message), Emit(n, m, ms)
    PROVE  /\ net' \in [Node -> [Node -> SUBSET Datagram]]
           /\ sends' \in [Node -> [Node -> Nat]]
<1>1. Datagrams(n, m, ms) \subseteq Datagram
  BY DatagramsType
<1>2. Len(ms) \in Nat
  OBVIOUS
<1>3. QED
  BY <1>1, <1>2 DEF Emit, TypeOK

LEMMA HandshakeType ==
    ASSUME NEW f \in {"hs1", "hs2", "hs3"}, NEW ei \in Eph \union {Junk},
           NEW er \in Eph \union {Junk}, NEW role \in Role
    PROVE  Handshake(f, ei, er, role) \in Message
BY DEF Handshake, Message, Frames

LEMMA GreetingType ==
    ASSUME NEW n PROVE Greeting(n) \in Seq(DataFrames)
<1> DEFINE auth == IF Token[n] # NoToken THEN <<"Auth">> ELSE <<>>
           rest == <<"Join", "PeerState", "PeerList", "Hello">>
<1>1. auth \in Seq(DataFrames)
  <2>1. <<"Auth">> \in Seq(DataFrames)
    BY DEF DataFrames
  <2>2. << >> \in Seq(DataFrames)
    OBVIOUS
  <2>3. QED
    BY <2>1, <2>2
<1>2. rest \in Seq(DataFrames)
  BY DEF DataFrames
<1>3. auth \o rest \in Seq(DataFrames)
  <2> HIDE DEF auth, rest
  <2> QED BY <1>1, <1>2
<1>4. Greeting(n) = auth \o rest
  BY DEF Greeting
<1>5. QED
  BY <1>3, <1>4

LEMMA OnlyType ==
    ASSUME NEW m \in Node, NEW ms \in Seq(Message)
    PROVE  Only(m, ms) \in [Node -> Seq(Message)]
BY DEF Only

LEMMA SilentType == Silent \in [Node -> Seq(Message)]
BY DEF Silent

-----------------------------------------------------------------------------
(* Type correctness, one lemma per kind of step.                            *)

LEMMA InstallType ==
    ASSUME TypeOK, NEW s \in Node, NEW r \in Node, NEW g,
           NEW c \in Connection, c.tx = 0, NEW first \in Seq(Message),
           InstallConnection(s, r, g, c, first)
    PROVE  /\ conn' \in [Node -> [Node -> Connection \union {None}]]
           /\ net' \in [Node -> [Node -> SUBSET Datagram]]
           /\ sends' \in [Node -> [Node -> Nat]]
           /\ installed' \subseteq [by : Node, with : Node,
                  ei : Eph \union {Junk}, er : Eph \union {Junk},
                  role : Role]
           /\ encrypted' \subseteq Message
<1> DEFINE greeting == Encrypt(c, Greeting(r))
<1>1. /\ greeting \in Seq(Message)
      /\ Range(greeting) \subseteq Message
      /\ Len(greeting) \in Nat
  BY EncryptType, GreetingType
<1>2. /\ conn' = [conn EXCEPT ![r][s] = Sending(c, Len(greeting))]
      /\ Wire(s, r, g, Only(s, first \o greeting))
      /\ installed' = installed \union
            {[by |-> r, with |-> s, ei |-> c.ei, er |-> c.er, role |-> c.role]}
      /\ encrypted' = encrypted \union Range(greeting)
  BY DEF InstallConnection
<1> HIDE DEF greeting
<1>3. Sending(c, Len(greeting)) \in Connection
  BY <1>1 DEF Connection, Sending
<1>4. conn' \in [Node -> [Node -> Connection \union {None}]]
  BY <1>2, <1>3 DEF TypeOK
<1>5. first \o greeting \in Seq(Message)
  BY <1>1
<1>6. /\ net' \in [Node -> [Node -> SUBSET Datagram]]
      /\ sends' \in [Node -> [Node -> Nat]]
  BY <1>2, <1>5, OnlyType, WireType
<1>7. [by |-> r, with |-> s, ei |-> c.ei, er |-> c.er, role |-> c.role]
        \in [by : Node, with : Node, ei : Eph \union {Junk},
             er : Eph \union {Junk}, role : Role]
  BY DEF Connection
<1>8. QED
  BY <1>1, <1>2, <1>4, <1>6, <1>7 DEF TypeOK


LEMMA InitiateType ==
    ASSUME TypeOK, NEW n \in Node, NEW m \in Node, Initiate(n, m)
    PROVE  /\ net' \in [Node -> [Node -> SUBSET Datagram]]
           /\ sends' \in [Node -> [Node -> Nat]]
           /\ starting' \in [Node -> [Node -> SUBSET (Pending \ {None})]]
           /\ nextEph' \in 1..(MaxEph + 1)
           /\ UNCHANGED <<pending, conn, joined, downs, histVars>>
<1>1. <<Handshake("hs1", nextEph, Junk, "I")>> \in Seq(Message)
  BY HandshakeType DEF Initiate, Role
<1>2. /\ net' \in [Node -> [Node -> SUBSET Datagram]]
      /\ sends' \in [Node -> [Node -> Nat]]
  BY <1>1, EmitType DEF Initiate
<1>3. nextEph' \in 1..(MaxEph + 1)
  BY ConfigAssumption DEF Initiate, Eph
<1>4. starting' \in [Node -> [Node -> SUBSET (Pending \ {None})]]
  <2>1. Await2(nextEph) \in Pending \ {None}
    BY DEF Initiate, Await2, Pending, None
  <2>2. PICK S : S = starting[n][m] \union {Await2(nextEph)}
    OBVIOUS
  <2>3. S \subseteq Pending \ {None} /\ starting' = [starting EXCEPT ![n][m] = S]
    BY <2>1, <2>2 DEF Initiate, TypeOK
  <2>4. QED
    BY <2>3 DEF TypeOK
<1>5. QED
  BY <1>2, <1>3, <1>4 DEF Initiate


LEMMA SecondType ==
    ASSUME TypeOK, NEW s \in Node, NEW r \in Node, NEW g \in net[s][r],
           RecvSecond(s, r, g)
    PROVE  TypeOK'
<1> DEFINE p == pending[r][s]
           c == NewConnection(r, p.ei, g.msg.er, "I")
           hs3 == Handshake("hs3", p.ei, g.msg.er, "I")
<1>1. g.msg \in Message
  BY DEF TypeOK, Datagram
<1>2. p.ei \in Eph \union {Junk} /\ g.msg.er \in Eph \union {Junk}
  BY <1>1 DEF RecvSecond, TypeOK, Pending, None, Await2, Await3, Message
<1>3. c \in Connection /\ c.tx = 0
  BY <1>2, ConfigAssumption DEF NewConnection, Connection, Role
<1>4. <<hs3>> \in Seq(Message)
  BY <1>2, HandshakeType DEF Role
<1>5. InstallConnection(s, r, g, c, <<hs3>>)
  BY DEF RecvSecond
<1>6. /\ pending' = [pending EXCEPT ![r][s] = None]
      /\ UNCHANGED <<starting, joined, nextEph, dials, downs, decrypted>>
  BY DEF RecvSecond
<1>7. pending' \in [Node -> [Node -> Pending]]
  <2>1. None \in Pending /\ pending \in [Node -> [Node -> Pending]]
    BY DEF Pending, None, TypeOK
  <2>2. QED
    BY <1>6, <2>1, EntryUpdate
<1> HIDE DEF p, c, hs3
<1>8. /\ conn' \in [Node -> [Node -> Connection \union {None}]]
      /\ net' \in [Node -> [Node -> SUBSET Datagram]]
      /\ sends' \in [Node -> [Node -> Nat]]
      /\ installed' \subseteq [by : Node, with : Node,
             ei : Eph \union {Junk}, er : Eph \union {Junk}, role : Role]
      /\ encrypted' \subseteq Message
  BY <1>3, <1>4, <1>5, InstallType
<1>9. QED
  BY <1>6, <1>7, <1>8 DEF TypeOK

LEMMA ThirdType ==
    ASSUME TypeOK, NEW s \in Node, NEW r \in Node, NEW g \in net[s][r],
           RecvThird(s, r, g)
    PROVE  TypeOK'
<1> DEFINE p == pending[r][s]
           c == NewConnection(r, p.ei, p.er, "R")
<1>2. p.ei \in Eph \union {Junk} /\ p.er \in Eph \union {Junk}
  BY DEF RecvThird, TypeOK, Pending, None, Await2, Await3
<1>3. c \in Connection /\ c.tx = 0
  BY <1>2, ConfigAssumption DEF NewConnection, Connection, Role
<1>4. << >> \in Seq(Message)
  OBVIOUS
<1>5. InstallConnection(s, r, g, c, << >>)
  BY DEF RecvThird
<1>6. /\ pending' = [pending EXCEPT ![r][s] = None]
      /\ UNCHANGED <<starting, joined, nextEph, dials, downs, decrypted>>
  BY DEF RecvThird
<1>7. pending' \in [Node -> [Node -> Pending]]
  <2>1. None \in Pending /\ pending \in [Node -> [Node -> Pending]]
    BY DEF Pending, None, TypeOK
  <2>2. QED
    BY <1>6, <2>1, EntryUpdate
<1> HIDE DEF p, c
<1>8. /\ conn' \in [Node -> [Node -> Connection \union {None}]]
      /\ net' \in [Node -> [Node -> SUBSET Datagram]]
      /\ sends' \in [Node -> [Node -> Nat]]
      /\ installed' \subseteq [by : Node, with : Node,
             ei : Eph \union {Junk}, er : Eph \union {Junk}, role : Role]
      /\ encrypted' \subseteq Message
  BY <1>3, <1>4, <1>5, InstallType
<1>9. QED
  BY <1>6, <1>7, <1>8 DEF TypeOK

LEMMA SpoilType ==
    ASSUME TypeOK, NEW s \in Node, NEW r \in Node, NEW g \in net[s][r],
           RecvSpoilsPending(s, r, g)
    PROVE  TypeOK'
<1>1. /\ net' \in [Node -> [Node -> SUBSET Datagram]]
      /\ sends' \in [Node -> [Node -> Nat]]
  BY SilentType, WireType DEF RecvSpoilsPending
<1>2. pending' \in [Node -> [Node -> Pending]]
  <2>1. None \in Pending /\ pending \in [Node -> [Node -> Pending]]
    BY DEF Pending, None, TypeOK
  <2>2. QED
    BY <2>1, EntryUpdate DEF RecvSpoilsPending
<1>3. QED
  BY <1>1, <1>2 DEF RecvSpoilsPending, TypeOK, histVars

LEMMA ResponderType ==
    ASSUME TypeOK, NEW s \in Node, NEW r \in Node, NEW g \in net[s][r],
           StartResponder(s, r, g)
    PROVE  TypeOK'
<1> DEFINE ei == IF g.msg.frame = "hs1" THEN g.msg.ei ELSE Junk
           hs2 == Handshake("hs2", ei, nextEph, "R")
<1>1. ei \in Eph \union {Junk} /\ nextEph \in Eph
  BY DEF StartResponder, TypeOK, Datagram, Message
<1>2. <<hs2>> \in Seq(Message)
  BY <1>1, HandshakeType DEF Role
<1>3. /\ starting' = [starting EXCEPT ![r][s] =
                           starting[r][s] \union {Await3(ei, nextEph)}]
      /\ Wire(s, r, g, Only(s, <<hs2>>))
      /\ nextEph' = nextEph + 1
      /\ UNCHANGED <<pending, conn, joined, dials, downs, histVars>>
  BY DEF StartResponder
<1> HIDE DEF ei, hs2
<1>4. /\ net' \in [Node -> [Node -> SUBSET Datagram]]
      /\ sends' \in [Node -> [Node -> Nat]]
  BY <1>2, <1>3, OnlyType, WireType
<1>5. starting' \in [Node -> [Node -> SUBSET (Pending \ {None})]]
  <2>1. Await3(ei, nextEph) \in Pending \ {None}
    BY <1>1 DEF Pending, Await3, None
  <2>2. PICK S : S = starting[r][s] \union {Await3(ei, nextEph)}
    OBVIOUS
  <2>3. S \subseteq Pending \ {None} /\ starting' = [starting EXCEPT ![r][s] = S]
    BY <1>3, <2>1, <2>2 DEF TypeOK
  <2>4. QED
    BY <2>3 DEF TypeOK
<1>6. nextEph' \in 1..(MaxEph + 1)
  BY <1>1, <1>3, ConfigAssumption DEF Eph
<1>7. QED
  BY <1>3, <1>4, <1>5, <1>6 DEF TypeOK, histVars

LEMMA UndecryptableType ==
    ASSUME TypeOK, NEW s \in Node, NEW r \in Node, NEW g \in net[s][r],
           RecvUndecryptable(s, r, g)
    PROVE  TypeOK'
<1>1. /\ net' \in [Node -> [Node -> SUBSET Datagram]]
      /\ sends' \in [Node -> [Node -> Nat]]
  BY SilentType, WireType DEF RecvUndecryptable
<1>2. QED
  BY <1>1 DEF RecvUndecryptable, TypeOK, histVars, nodeVars

LEMMA ConnectionUpdates ==
    ASSUME NEW c \in Connection
    PROVE  /\ Advanced(c) \in Connection
           /\ Authenticated(c) \in Connection
           /\ Identified(c) \in Connection
           /\ Sending(c, 1) \in Connection
<1>1. Advanced(c) \in Connection
  BY DEF Advanced, Connection
<1>2. Authenticated(c) \in Connection
  BY DEF Authenticated, Connection
<1>3. Identified(c) \in Connection
  BY DEF Identified, Connection
<1>4. Sending(c, 1) \in Connection
  BY DEF Sending, Connection
<1>5. QED
  BY <1>1, <1>2, <1>3, <1>4

(* A decrypted datagram: what the four handlers have in common.             *)
LEMMA DecryptedFacts ==
    ASSUME TypeOK, NEW s \in Node, NEW r \in Node, NEW g \in net[s][r],
           Decrypted(s, r, g)
    PROVE  /\ g.msg \in Message /\ g.msg.frame \in DataFrames
           /\ conn[r][s] \in Connection
           /\ Advanced(conn[r][s]) \in Connection
<1>1. g.msg \in Message
  BY DEF TypeOK, Datagram
<1>2. conn[r][s] \in Connection
  BY DEF Decrypted, TypeOK
<1>3. QED
  BY <1>1, <1>2 DEF Decrypted, Decrypts, Advanced, Connection

LEMMA RecordType ==
    ASSUME TypeOK, NEW s \in Node, NEW r \in Node, NEW d \in Message,
           d.frame \in DataFrames, NEW handled \in BOOLEAN,
           Record(s, r, d, handled)
    PROVE  decrypted' \subseteq [by : Node, from : Node, ei : Eph \union {Junk},
                  er : Eph \union {Junk}, role : Role, n : Nat,
                  frame : DataFrames, handled : BOOLEAN]
BY DEF Record, Message, TypeOK

LEMMA AuthType ==
    ASSUME TypeOK, NEW s \in Node, NEW r \in Node, NEW g \in net[s][r],
           RecvAuthRejected(s, r, g) \/ RecvAuth(s, r, g)
    PROVE  TypeOK'
<1>1. Decrypted(s, r, g) /\ Wire(s, r, g, Silent) /\ Record(s, r, g.msg, TRUE)
  BY DEF RecvAuthRejected, RecvAuth
<1>2. /\ net' \in [Node -> [Node -> SUBSET Datagram]]
      /\ sends' \in [Node -> [Node -> Nat]]
  BY <1>1, SilentType, WireType
<1>3. decrypted' \subseteq [by : Node, from : Node, ei : Eph \union {Junk},
             er : Eph \union {Junk}, role : Role, n : Nat,
             frame : DataFrames, handled : BOOLEAN]
  BY <1>1, DecryptedFacts, RecordType
<1>4. conn' \in [Node -> [Node -> Connection \union {None}]]
  <2>1. conn \in [Node -> [Node -> Connection \union {None}]]
    BY DEF TypeOK
  <2>2. CASE RecvAuthRejected(s, r, g)
    BY <2>1, <2>2, EntryUpdate DEF RecvAuthRejected
  <2>3. CASE RecvAuth(s, r, g)
    <3>1. Authenticated(Advanced(conn[r][s])) \in Connection
      BY <1>1, DecryptedFacts, ConnectionUpdates
    <3>2. conn' = [conn EXCEPT ![r][s] = Authenticated(Advanced(conn[r][s]))]
      BY <2>3 DEF RecvAuth
    <3>3. QED
      BY <2>1, <3>1, <3>2, EntryUpdate
  <2>4. QED
    BY <2>2, <2>3
<1>5. joined' \in [Node -> [Node -> BOOLEAN]]
  <2>1. joined \in [Node -> [Node -> BOOLEAN]]
    BY DEF TypeOK
  <2>2. (joined[r][s] /\ ~conn[r][s].id) \in BOOLEAN
    OBVIOUS
  <2>3. CASE RecvAuthRejected(s, r, g)
    BY <2>1, <2>2, <2>3, EntryUpdate DEF RecvAuthRejected
  <2>4. CASE RecvAuth(s, r, g)
    BY <2>1, <2>4 DEF RecvAuth
  <2>5. QED
    BY <2>3, <2>4
<1>6. UNCHANGED <<pending, starting, nextEph, dials, downs, installed, encrypted>>
  BY DEF RecvAuthRejected, RecvAuth
<1>7. QED
  BY <1>2, <1>3, <1>4, <1>5, <1>6 DEF TypeOK

LEMMA OtherType ==
    ASSUME TypeOK, NEW s \in Node, NEW r \in Node, NEW g \in net[s][r],
           RecvOther(s, r, g)
    PROVE  TypeOK'
<1>1. /\ Decrypted(s, r, g) /\ Wire(s, r, g, Silent)
      /\ Record(s, r, g.msg,
                AuthRequired[r] /\ Gated(g.msg.frame) => conn[r][s].auth)
      /\ conn' = [conn EXCEPT ![r][s] = Advanced(conn[r][s])]
      /\ UNCHANGED <<pending, starting, joined, nextEph, dials, downs,
                     installed, encrypted>>
  BY DEF RecvOther
<1>2. /\ net' \in [Node -> [Node -> SUBSET Datagram]]
      /\ sends' \in [Node -> [Node -> Nat]]
  BY <1>1, SilentType, WireType
<1>3. (AuthRequired[r] /\ Gated(g.msg.frame) => conn[r][s].auth) \in BOOLEAN
  OBVIOUS
<1>4. decrypted' \subseteq [by : Node, from : Node, ei : Eph \union {Junk},
             er : Eph \union {Junk}, role : Role, n : Nat,
             frame : DataFrames, handled : BOOLEAN]
  BY <1>1, <1>3, DecryptedFacts, RecordType
<1>5. conn' \in [Node -> [Node -> Connection \union {None}]]
  <2>1. conn \in [Node -> [Node -> Connection \union {None}]]
    BY DEF TypeOK
  <2>2. QED
    BY <1>1, <2>1, DecryptedFacts, EntryUpdate
<1>6. QED
  BY <1>1, <1>2, <1>4, <1>5 DEF TypeOK

LEMMA JoinType ==
    ASSUME TypeOK, NEW s \in Node, NEW r \in Node, NEW g \in net[s][r],
           RecvJoin(s, r, g)
    PROVE  TypeOK'
<1> DEFINE known == {m \in Node : conn[r][m] # None /\ (m = s \/ joined[r][m])}
           list  == [m \in Node |-> IF m \in known
                                    THEN Encrypt(conn[r][m], <<"PeerList">>)
                                    ELSE <<>>]
           told  == [m \in Node |-> IF m \in known THEN Sending(conn[r][m], 1)
                                                   ELSE conn[r][m]]
           greeted == Identified(Advanced(told[s]))
<1>1. /\ Decrypted(s, r, g)
      /\ conn' = [conn EXCEPT ![r] = [told EXCEPT ![s] = greeted]]
      /\ joined' = [joined EXCEPT ![r][s] = TRUE]
      /\ Wire(s, r, g, list)
      /\ encrypted' = encrypted \union UNION {Range(list[m]) : m \in known}
      /\ Record(s, r, g.msg, TRUE)
      /\ UNCHANGED <<pending, starting, nextEph, dials, downs, installed>>
  BY DEF RecvJoin
<1>2. \A m \in Node : conn[r][m] \in Connection \union {None}
  BY DEF TypeOK
<1>3. <<"PeerList">> \in Seq(DataFrames)
  BY DEF DataFrames
<1>4. \A m \in known : /\ conn[r][m] \in Connection
                       /\ list[m] \in Seq(Message)
                       /\ Range(list[m]) \subseteq Message
  BY <1>2, <1>3, EncryptType
<1>5. list \in [Node -> Seq(Message)]
  <2>1. \A m \in Node \ known : list[m] = << >>
    OBVIOUS
  <2>2. << >> \in Seq(Message)
    OBVIOUS
  <2>3. \A m \in Node : list[m] \in Seq(Message)
    BY <1>4, <2>1, <2>2
  <2>4. QED
    <3> DEFINE L == list
    <3>1. L = [m \in Node |-> L[m]]
      OBVIOUS
    <3> HIDE DEF list, L
    <3>2. QED
      BY <2>3, <3>1 DEF L
<1>6. told \in [Node -> Connection \union {None}]
  <2>1. \A m \in known : Sending(conn[r][m], 1) \in Connection
    BY <1>4, ConnectionUpdates
  <2>2. QED
    BY <1>2, <2>1
<1>7. greeted \in Connection
  <2>1. s \in known
    BY <1>1 DEF Decrypted
  <2>2. told[s] = Sending(conn[r][s], 1) /\ conn[r][s] \in Connection
    BY <1>4, <2>1
  <2>3. QED
    BY <2>2, ConnectionUpdates
<1> HIDE DEF known, list, told, greeted
<1>8. conn' \in [Node -> [Node -> Connection \union {None}]]
  <2>1. conn \in [Node -> [Node -> Connection \union {None}]]
    BY DEF TypeOK
  <2>2. [told EXCEPT ![s] = greeted] \in [Node -> Connection \union {None}]
    BY <1>6, <1>7
  <2>3. QED
    BY <1>1, <2>1, <2>2, RowUpdate
<1>9. /\ net' \in [Node -> [Node -> SUBSET Datagram]]
      /\ sends' \in [Node -> [Node -> Nat]]
  BY <1>1, <1>5, WireType
<1>10. decrypted' \subseteq [by : Node, from : Node, ei : Eph \union {Junk},
             er : Eph \union {Junk}, role : Role, n : Nat,
             frame : DataFrames, handled : BOOLEAN]
  BY <1>1, DecryptedFacts, RecordType
<1>11. encrypted' \subseteq Message
  BY <1>1, <1>4 DEF TypeOK
<1>12. joined' \in [Node -> [Node -> BOOLEAN]]
  BY <1>1 DEF TypeOK
<1>13. QED
  BY <1>1, <1>8, <1>9, <1>10, <1>11, <1>12 DEF TypeOK

LEMMA LocalType ==
    ASSUME TypeOK, NEW n \in Node, NEW m \in Node,
           \/ InsertPending(n, m)
           \/ AppSend(n, m)
           \/ Disconnect(n, m)
           \/ Restart(n)
    PROVE  TypeOK'
<1>1. CASE InsertPending(n, m)
  <2>1. PICK x \in starting[n][m] :
          /\ starting' = [starting EXCEPT ![n][m] = starting[n][m] \ {x}]
          /\ pending' = [pending EXCEPT ![n][m] = x]
          /\ UNCHANGED <<conn, joined, net, sends, nextEph, dials, downs, histVars>>
    BY <1>1 DEF InsertPending
  <2>2. starting \in [Node -> [Node -> SUBSET (Pending \ {None})]]
    BY DEF TypeOK
  <2>3. starting' \in [Node -> [Node -> SUBSET (Pending \ {None})]]
    BY <2>1, <2>2
  <2>4. x \in Pending /\ pending \in [Node -> [Node -> Pending]]
    BY <2>2 DEF TypeOK
  <2>5. pending' \in [Node -> [Node -> Pending]]
    BY <2>1, <2>4, EntryUpdate
  <2>6. QED
    BY <2>1, <2>3, <2>5 DEF TypeOK, histVars
<1>2. CASE AppSend(n, m)
  <2> DEFINE ds == Encrypt(conn[n][m], <<"App">>)
  <2>1. conn[n][m] \in Connection
    BY <1>2 DEF AppSend, TypeOK
  <2>2. ds \in Seq(Message) /\ Range(ds) \subseteq Message
    <3>1. <<"App">> \in Seq(DataFrames)
      BY DEF DataFrames
    <3>2. QED
      BY <2>1, <3>1, EncryptType
  <2>3. /\ Emit(n, m, ds)
        /\ encrypted' = encrypted \union Range(ds)
        /\ conn' = [conn EXCEPT ![n][m] = Sending(conn[n][m], 1)]
        /\ UNCHANGED <<pending, starting, joined, nextEph, dials, downs,
                       installed, decrypted>>
    BY <1>2 DEF AppSend
  <2> HIDE DEF ds
  <2>4. /\ net' \in [Node -> [Node -> SUBSET Datagram]]
        /\ sends' \in [Node -> [Node -> Nat]]
    BY <2>2, <2>3, EmitType
  <2>5. conn' \in [Node -> [Node -> Connection \union {None}]]
    <3>1. /\ conn \in [Node -> [Node -> Connection \union {None}]]
          /\ Sending(conn[n][m], 1) \in Connection
      BY <2>1, ConnectionUpdates DEF TypeOK
    <3>2. QED
      BY <2>3, <3>1, EntryUpdate
  <2>6. QED
    BY <2>2, <2>3, <2>4, <2>5 DEF TypeOK
<1>3. CASE Disconnect(n, m)
  <2>1. conn' \in [Node -> [Node -> Connection \union {None}]]
    <3>1. conn \in [Node -> [Node -> Connection \union {None}]]
      BY DEF TypeOK
    <3>2. QED
      BY <1>3, <3>1, EntryUpdate DEF Disconnect
  <2>2. joined' \in [Node -> [Node -> BOOLEAN]]
    <3> DEFINE b == joined[n][m] /\ ~(conn[n][m] # None /\ conn[n][m].id)
    <3>1. joined \in [Node -> [Node -> BOOLEAN]] /\ b \in BOOLEAN
      BY DEF TypeOK
    <3>2. joined' = [joined EXCEPT ![n][m] = b]
      BY <1>3 DEF Disconnect
    <3> HIDE DEF b
    <3>3. QED
      BY <3>1, <3>2, EntryUpdate
  <2>3. downs' \in 0..MaxDown
    BY <1>3, ConfigAssumption DEF Disconnect, TypeOK
  <2>4. QED
    BY <1>3, <2>1, <2>2, <2>3 DEF Disconnect, TypeOK, histVars
<1>4. CASE Restart(n)
  <2>1. /\ pending' \in [Node -> [Node -> Pending]]
        /\ starting' \in [Node -> [Node -> SUBSET (Pending \ {None})]]
        /\ conn' \in [Node -> [Node -> Connection \union {None}]]
        /\ joined' \in [Node -> [Node -> BOOLEAN]]
    <3>1. None \in Pending
      BY DEF None, Pending
    <3>2. QED
      BY <1>4, <3>1 DEF Restart, TypeOK
  <2>2. downs' \in 0..MaxDown
    BY <1>4, ConfigAssumption DEF Restart, TypeOK
  <2>3. QED
    BY <1>4, <2>1, <2>2 DEF Restart, TypeOK, histVars
<1>5. QED
  BY <1>1, <1>2, <1>3, <1>4

(* Every step keeps the tables, the wire and the histories well typed.      *)
THEOREM TypeCorrect == Spec => []TypeOK
<1>1. Init => TypeOK
  <2>1. None \in Pending
    BY DEF None, Pending
  <2>2. QED
    BY <2>1, ConfigAssumption DEF Init, TypeOK
<1>2. TypeOK /\ [Next]_vars => TypeOK'
  <2> SUFFICES ASSUME TypeOK, [Next]_vars PROVE TypeOK'
    OBVIOUS
  <2>1. CASE UNCHANGED vars
    BY <2>1 DEF vars, histVars, TypeOK
  <2>2. ASSUME NEW n \in Node, NEW m \in Node,
               Dial(n, m) \/ Discover(n, m) \/ Rekey(n, m)
        PROVE  TypeOK'
    <3>1. Initiate(n, m) /\ dials' \in 0..MaxDial
      BY <2>2, ConfigAssumption DEF Dial, Discover, Rekey, TypeOK
    <3>2. QED
      BY <3>1, InitiateType DEF TypeOK, histVars
  <2>3. ASSUME NEW n \in Node, NEW m \in Node, NEW g \in net[n][m],
               Receive(n, m, g)
        PROVE  TypeOK'
    BY <2>3, SecondType, ThirdType, SpoilType, ResponderType,
       UndecryptableType, AuthType, JoinType, OtherType DEF Receive
  <2>4. QED
    BY <2>1, <2>2, <2>3, LocalType DEF Next
<1>3. QED
  BY <1>1, <1>2, PTL DEF Spec

-----------------------------------------------------------------------------
(* ResponderAgreement.  A responder installs on a third message, so the     *)
(* invariant is strengthened by what a third message on the wire tells:     *)
(* its sender has installed the session it names, with its addressee.       *)

Installation(n, m, ei, er, role) ==
    [by |-> n, with |-> m, ei |-> ei, er |-> er, role |-> role]

ThirdTells(n, m, msg, inst) ==
    msg.frame = "hs3" => Installation(n, m, msg.ei, msg.er, "I") \in inst

ThirdSent ==
    \A n, m \in Node : \A g \in net[n][m] : ThirdTells(n, m, g.msg, installed)

AgreementInv == TypeOK /\ ThirdSent /\ ResponderAgreement

LEMMA EncryptNoThird ==
    ASSUME NEW c, NEW fs \in Seq(DataFrames), NEW i \in 1..Len(Encrypt(c, fs))
    PROVE  Encrypt(c, fs)[i].frame # "hs3"
<1>1. Len(Encrypt(c, fs)) = Len(fs)
  BY DEF Encrypt
<1>2. fs[i] \in DataFrames /\ Encrypt(c, fs)[i].frame = fs[i]
  BY <1>1 DEF Encrypt
<1>3. QED
  BY <1>2 DEF DataFrames

LEMMA EncryptSeq ==
    ASSUME NEW c, NEW fs \in Seq(DataFrames)
    PROVE  /\ Len(Encrypt(c, fs)) \in Nat
           /\ Encrypt(c, fs) \in Seq({Encrypt(c, fs)[k] : k \in 1..Len(Encrypt(c, fs))})
<1>1. Len(fs) \in Nat /\ Len(Encrypt(c, fs)) = Len(fs)
  BY DEF Encrypt
<1> DEFINE e == Encrypt(c, fs)
<1>2. e = [k \in 1..Len(fs) |-> e[k]]
  BY DEF Encrypt
<1> HIDE DEF e
<1>3. e \in Seq({e[k] : k \in 1..Len(fs)})
  BY <1>1, <1>2
<1>4. QED
  BY <1>1, <1>3 DEF e

LEMMA DatagramsMsg ==
    ASSUME NEW n, NEW m, NEW ms, NEW g \in Datagrams(n, m, ms)
    PROVE  \E i \in 1..Len(ms) : g.msg = ms[i]
BY DEF Datagrams

LEMMA WireThird ==
    ASSUME TypeOK, ThirdSent, installed \subseteq installed',
           NEW s \in Node, NEW r \in Node, NEW g, NEW out,
           Wire(s, r, g, out),
           \A m \in Node : \A i \in 1..Len(out[m]) :
               ThirdTells(r, m, out[m][i], installed')
    PROVE  ThirdSent'
<1> SUFFICES ASSUME NEW n \in Node, NEW m \in Node, NEW h \in net'[n][m]
             PROVE  ThirdTells(n, m, h.msg, installed')
  BY DEF ThirdSent
<1>1. CASE h \in net[n][m]
  BY <1>1 DEF ThirdSent, ThirdTells
<1>2. CASE n = r /\ h \in Datagrams(r, m, out[m])
  BY <1>2, DatagramsMsg
<1>3. h \in net[n][m] \/ (n = r /\ h \in Datagrams(r, m, out[m]))
  <2>1. net \in [Node -> [Node -> SUBSET Datagram]]
    BY DEF TypeOK
  <2>2. Rest(s, r, g) \subseteq net[s][r]
    BY DEF Rest
  <2>3. QED
    BY <2>1, <2>2 DEF Wire
<1>4. QED
  BY <1>1, <1>2, <1>3

LEMMA EmitThird ==
    ASSUME TypeOK, ThirdSent, UNCHANGED installed,
           NEW n \in Node, NEW m \in Node, NEW ms, Emit(n, m, ms),
           \A i \in 1..Len(ms) : ms[i].frame # "hs3"
    PROVE  ThirdSent'
<1> SUFFICES ASSUME NEW x \in Node, NEW y \in Node, NEW h \in net'[x][y]
             PROVE  ThirdTells(x, y, h.msg, installed')
  BY DEF ThirdSent
<1>1. h \in net[x][y] \/ h \in Datagrams(n, m, ms)
  BY DEF Emit, TypeOK
<1>2. CASE h \in net[x][y]
  BY <1>2 DEF ThirdSent, ThirdTells
<1>3. CASE h \in Datagrams(n, m, ms)
  BY <1>3, DatagramsMsg DEF ThirdTells
<1>4. QED
  BY <1>1, <1>2, <1>3

LEMMA SecondAgrees ==
    ASSUME AgreementInv, NEW s \in Node, NEW r \in Node, NEW g \in net[s][r],
           RecvSecond(s, r, g)
    PROVE  ThirdSent' /\ ResponderAgreement'
<1> DEFINE p == pending[r][s]
           c == NewConnection(r, p.ei, g.msg.er, "I")
           hs3 == Handshake("hs3", p.ei, g.msg.er, "I")
           greeting == Encrypt(c, Greeting(r))
           out == Only(s, <<hs3>> \o greeting)
<1>1. /\ Wire(s, r, g, out)
      /\ installed' = installed \union {Installation(r, s, p.ei, g.msg.er, "I")}
  BY DEF RecvSecond, InstallConnection, Installation, NewConnection
<1>2. \A i \in 1..Len(greeting) : greeting[i].frame # "hs3"
  BY GreetingType, EncryptNoThird
<1>3. \A m \in Node : \A i \in 1..Len(out[m]) :
        ThirdTells(r, m, out[m][i], installed')
  <2> SUFFICES ASSUME NEW m \in Node, NEW i \in 1..Len(out[m])
               PROVE  ThirdTells(r, m, out[m][i], installed')
    OBVIOUS
  <2>1. m = s /\ out[m] = <<hs3>> \o greeting
    BY DEF Only
  <2>2. Len(greeting) \in Nat /\ greeting \in Seq({greeting[k] : k \in 1..Len(greeting)})
    BY GreetingType, EncryptSeq
  <2>3. out[m][i] = hs3 \/ \E k \in 1..Len(greeting) : out[m][i] = greeting[k]
    <3>1. PICK h : h = hs3
      OBVIOUS
    <3>2. PICK q \in Seq({greeting[k] : k \in 1..Len(greeting)}) : q = greeting
      BY <2>2
    <3>3. PICK o : o = <<h>> \o q /\ o = out[m]
      BY <2>1, <3>1, <3>2
    <3> HIDE DEF hs3, greeting, out
    <3>4. i \in 1..(Len(q) + 1) /\ Len(q) \in Nat
      BY <3>3
    <3>5. CASE i = 1
      BY <3>1, <3>3, <3>5
    <3>6. CASE i # 1
      <4>1. i - 1 \in 1..Len(q) /\ o[i] = q[i - 1]
        BY <3>3, <3>4, <3>6
      <4>2. QED
        BY <3>2, <3>3, <4>1
    <3>7. QED
      BY <3>5, <3>6
  <2>4. ThirdTells(r, m, hs3, installed')
    BY <1>1, <2>1 DEF ThirdTells, Handshake
  <2>5. QED
    BY <1>2, <2>3, <2>4 DEF ThirdTells
<1>4. ThirdSent'
  <2> HIDE DEF out
  <2> QED BY <1>1, <1>3, WireThird DEF AgreementInv
<1>5. ResponderAgreement'
  BY <1>1 DEF AgreementInv, ResponderAgreement, Installation
<1>6. QED
  BY <1>4, <1>5

LEMMA ThirdAgrees ==
    ASSUME AgreementInv, NEW s \in Node, NEW r \in Node, NEW g \in net[s][r],
           RecvThird(s, r, g)
    PROVE  ThirdSent' /\ ResponderAgreement'
<1> DEFINE p == pending[r][s]
           c == NewConnection(r, p.ei, p.er, "R")
           greeting == Encrypt(c, Greeting(r))
           out == Only(s, << >> \o greeting)
<1>1. /\ Wire(s, r, g, out)
      /\ installed' = installed \union {Installation(r, s, p.ei, p.er, "R")}
      /\ g.msg.frame = "hs3" /\ g.msg.ei = p.ei /\ g.msg.er = p.er
  BY DEF RecvThird, InstallConnection, Installation, NewConnection,
         ReadableInPending
<1>2. Installation(s, r, p.ei, p.er, "I") \in installed
  BY <1>1 DEF AgreementInv, ThirdSent, ThirdTells
<1>3. \A i \in 1..Len(greeting) : greeting[i].frame # "hs3"
  BY GreetingType, EncryptNoThird
<1>4. \A m \in Node : \A i \in 1..Len(out[m]) :
        ThirdTells(r, m, out[m][i], installed')
  <2> SUFFICES ASSUME NEW m \in Node, NEW i \in 1..Len(out[m])
               PROVE  out[m][i].frame # "hs3"
    BY DEF ThirdTells
  <2>1. m = s /\ out[m] = << >> \o greeting
    BY DEF Only
  <2>2. Len(greeting) \in Nat /\ greeting \in Seq({greeting[k] : k \in 1..Len(greeting)})
    BY GreetingType, EncryptSeq
  <2>3. << >> \o greeting = greeting
    <3> HIDE DEF greeting
    <3> QED BY <2>2
  <2>4. QED
    BY <1>3, <2>1, <2>3
<1>5. ThirdSent'
  <2> HIDE DEF out
  <2> QED BY <1>1, <1>4, WireThird DEF AgreementInv
<1>6. ResponderAgreement'
  BY <1>1, <1>2 DEF AgreementInv, ResponderAgreement, Installation
<1>7. QED
  BY <1>5, <1>6

(* Steps that install nothing and send at most data frames and message 2.   *)
LEMMA QuietAgrees ==
    ASSUME AgreementInv, UNCHANGED installed,
           NEW s \in Node, NEW r \in Node, NEW g, NEW out,
           Wire(s, r, g, out),
           \A m \in Node : \A i \in 1..Len(out[m]) : out[m][i].frame # "hs3"
    PROVE  ThirdSent' /\ ResponderAgreement'
BY WireThird DEF AgreementInv, ThirdTells, ResponderAgreement

LEMMA ReceiveAgrees ==
    ASSUME AgreementInv, NEW s \in Node, NEW r \in Node, NEW g \in net[s][r],
           Receive(s, r, g)
    PROVE  ThirdSent' /\ ResponderAgreement'
<1>1. CASE RecvSecond(s, r, g) \/ RecvThird(s, r, g)
  BY <1>1, SecondAgrees, ThirdAgrees
<1>2. CASE \/ RecvSpoilsPending(s, r, g)
           \/ RecvUndecryptable(s, r, g)
           \/ RecvAuthRejected(s, r, g)
           \/ RecvAuth(s, r, g)
           \/ RecvOther(s, r, g)
  <2>1. Wire(s, r, g, Silent) /\ UNCHANGED installed
    BY <1>2 DEF RecvSpoilsPending, RecvUndecryptable, RecvAuthRejected,
                RecvAuth, RecvOther, histVars
  <2>2. \A m \in Node : \A i \in 1..Len(Silent[m]) : Silent[m][i].frame # "hs3"
    BY DEF Silent
  <2>3. QED
    BY <2>1, <2>2, QuietAgrees
<1>3. CASE StartResponder(s, r, g)
  <2> DEFINE ei == IF g.msg.frame = "hs1" THEN g.msg.ei ELSE Junk
             out == Only(s, <<Handshake("hs2", ei, nextEph, "R")>>)
  <2>1. Wire(s, r, g, out) /\ UNCHANGED installed
    BY <1>3 DEF StartResponder, histVars
  <2>2. \A m \in Node : \A i \in 1..Len(out[m]) : out[m][i].frame # "hs3"
    BY DEF Only, Handshake
  <2> HIDE DEF out
  <2>3. QED
    BY <2>1, <2>2, QuietAgrees
<1>4. CASE RecvJoin(s, r, g)
  <2> DEFINE known == {m \in Node : conn[r][m] # None /\ (m = s \/ joined[r][m])}
             list  == [m \in Node |-> IF m \in known
                                      THEN Encrypt(conn[r][m], <<"PeerList">>)
                                      ELSE << >>]
  <2>1. Wire(s, r, g, list) /\ UNCHANGED installed
    BY <1>4 DEF RecvJoin
  <2>2. \A m \in Node : \A i \in 1..Len(list[m]) : list[m][i].frame # "hs3"
    <3>1. <<"PeerList">> \in Seq(DataFrames)
      BY DEF DataFrames
    <3>2. SUFFICES ASSUME NEW m \in Node, NEW i \in 1..Len(list[m])
                   PROVE  list[m][i].frame # "hs3"
      OBVIOUS
    <3>3. m \in known /\ list[m] = Encrypt(conn[r][m], <<"PeerList">>)
      OBVIOUS
    <3>4. i \in 1..Len(Encrypt(conn[r][m], <<"PeerList">>))
      BY <3>3
    <3> HIDE DEF list
    <3>5. QED
      BY <3>1, <3>3, <3>4, EncryptNoThird
  <2> HIDE DEF list
  <2>3. QED
    BY <2>1, <2>2, QuietAgrees
<1>5. QED
  BY <1>1, <1>2, <1>3, <1>4 DEF Receive

LEMMA LocalAgrees ==
    ASSUME AgreementInv, NEW n \in Node, NEW m \in Node,
           \/ Initiate(n, m)
           \/ InsertPending(n, m)
           \/ AppSend(n, m)
           \/ Disconnect(n, m)
           \/ Restart(n)
    PROVE  ThirdSent' /\ ResponderAgreement'
<1>0. UNCHANGED installed
  BY DEF Initiate, InsertPending, AppSend, Disconnect, Restart, histVars
<1>1. ResponderAgreement'
  BY <1>0 DEF AgreementInv, ResponderAgreement
<1>2. CASE Initiate(n, m)
  <2> DEFINE ms == <<Handshake("hs1", nextEph, Junk, "I")>>
  <2>1. Emit(n, m, ms)
    BY <1>2 DEF Initiate
  <2>2. \A i \in 1..Len(ms) : ms[i].frame # "hs3"
    BY DEF Handshake
  <2> HIDE DEF ms
  <2>3. QED
    BY <1>0, <1>1, <2>1, <2>2, EmitThird DEF AgreementInv
<1>3. CASE AppSend(n, m)
  <2> DEFINE ms == Encrypt(conn[n][m], <<"App">>)
  <2>1. Emit(n, m, ms)
    BY <1>3 DEF AppSend
  <2>2. \A i \in 1..Len(ms) : ms[i].frame # "hs3"
    <3>1. <<"App">> \in Seq(DataFrames)
      BY DEF DataFrames
    <3>2. QED
      BY <3>1, EncryptNoThird
  <2> HIDE DEF ms
  <2>3. QED
    BY <1>0, <1>1, <2>1, <2>2, EmitThird DEF AgreementInv
<1>4. CASE InsertPending(n, m) \/ Disconnect(n, m) \/ Restart(n)
  <2>1. UNCHANGED net
    BY <1>4 DEF InsertPending, Disconnect, Restart
  <2>2. QED
    BY <1>0, <1>1, <2>1 DEF AgreementInv, ThirdSent
<1>5. QED
  BY <1>2, <1>3, <1>4

(* A responder never installs a session its peer has not installed as       *)
(* initiator, whatever the network loses, repeats and reorders and whoever  *)
(* restarts (install_connection from ResponderAwait3).                      *)
THEOREM Agreement == Spec => []ResponderAgreement
<1>1. Init => AgreementInv
  <2>1. Init => TypeOK
    <3>1. None \in Pending
      BY DEF None, Pending
    <3>2. QED
      BY <3>1, ConfigAssumption DEF Init, TypeOK
  <2>2. Init => ThirdSent /\ ResponderAgreement
    BY DEF Init, ThirdSent, ResponderAgreement
  <2>3. QED
    BY <2>1, <2>2 DEF AgreementInv
<1>2. TypeOK' /\ AgreementInv /\ [Next]_vars => AgreementInv'
  <2> SUFFICES ASSUME TypeOK', AgreementInv, [Next]_vars
               PROVE  ThirdSent' /\ ResponderAgreement'
    BY DEF AgreementInv
  <2>1. CASE UNCHANGED vars
    BY <2>1 DEF vars, histVars, AgreementInv, ThirdSent, ResponderAgreement
  <2>2. ASSUME NEW n \in Node, NEW m \in Node,
               Dial(n, m) \/ Discover(n, m) \/ Rekey(n, m)
        PROVE  ThirdSent' /\ ResponderAgreement'
    BY <2>2, LocalAgrees DEF Dial, Discover, Rekey
  <2>3. QED
    BY <2>1, <2>2, ReceiveAgrees, LocalAgrees DEF Next
<1>3. AgreementInv => ResponderAgreement
  BY DEF AgreementInv
<1>4. QED
  BY <1>1, <1>2, <1>3, TypeCorrect, PTL DEF Spec

-----------------------------------------------------------------------------
(* GateHolds.  A connection that counts as authenticated needs no token, or *)
(* its peer has shown one.                                                  *)

Vouched(n, m, c) == c # None => (c.auth => TokenAccepted(m, n))

AuthInv ==
    /\ TypeOK
    /\ \A n, m \in Node : Vouched(n, m, conn[n][m])
    /\ GateHolds

(* The updates that leave a connection as vouched for as it was.            *)
LEMMA StillVouched ==
    ASSUME NEW c \in Connection, NEW n, NEW m, NEW k, Vouched(n, m, c)
    PROVE  /\ Vouched(n, m, Advanced(c))
           /\ Vouched(n, m, Sending(c, k))
           /\ Vouched(n, m, Identified(c))
<1>1. /\ Advanced(c).auth = c.auth /\ Sending(c, k).auth = c.auth
      /\ Identified(c).auth = c.auth
  BY DEF Connection, Advanced, Sending, Identified
<1>2. c # None
  BY DEF Connection, None
<1>3. QED
  BY <1>1, <1>2 DEF Vouched

LEMMA EntryVouched ==
    ASSUME AuthInv, NEW n \in Node, NEW m \in Node, NEW c, Vouched(n, m, c),
           conn' = [conn EXCEPT ![n][m] = c]
    PROVE  \A x, y \in Node : Vouched(x, y, conn'[x][y])
<1> SUFFICES ASSUME NEW x \in Node, NEW y \in Node PROVE Vouched(x, y, conn'[x][y])
  OBVIOUS
<1>1. conn \in [Node -> [Node -> Connection \union {None}]]
  BY DEF AuthInv, TypeOK
<1>2. CASE x = n /\ y = m
  BY <1>1, <1>2
<1>3. CASE ~(x = n /\ y = m)
  <2>1. conn'[x][y] = conn[x][y]
    BY <1>1, <1>3
  <2>2. QED
    BY <2>1 DEF AuthInv
<1>4. QED
  BY <1>2, <1>3

LEMMA InstallVouched ==
    ASSUME AuthInv, NEW s \in Node, NEW r \in Node, NEW g, NEW first,
           NEW ei \in Eph \union {Junk}, NEW er \in Eph \union {Junk}, NEW role \in Role,
           InstallConnection(s, r, g, NewConnection(r, ei, er, role), first)
    PROVE  \A x, y \in Node : Vouched(x, y, conn'[x][y])
<1> DEFINE c == NewConnection(r, ei, er, role)
           k == Len(Encrypt(c, Greeting(r)))
<1>1. c \in Connection
  BY ConfigAssumption DEF NewConnection, Connection
<1>2. Vouched(r, s, c)
  BY DEF NewConnection, Vouched, TokenAccepted
<1>3. conn' = [conn EXCEPT ![r][s] = Sending(c, k)]
  BY DEF InstallConnection
<1> HIDE DEF c, k
<1>4. Vouched(r, s, Sending(c, k))
  BY <1>1, <1>2, StillVouched
<1>5. QED
  BY <1>3, <1>4, EntryVouched

LEMMA RecordGate ==
    ASSUME GateHolds, NEW s, NEW r, NEW d, NEW handled,
           Record(s, r, d, handled),
           handled /\ Gated(d.frame) => TokenAccepted(s, r)
    PROVE  GateHolds'
BY DEF GateHolds, Record

LEMMA ReceiveGate ==
    ASSUME AuthInv, NEW s \in Node, NEW r \in Node, NEW g \in net[s][r],
           Receive(s, r, g)
    PROVE  (\A x, y \in Node : Vouched(x, y, conn'[x][y])) /\ GateHolds'
<1>0. TypeOK /\ GateHolds /\ Vouched(r, s, conn[r][s])
  BY DEF AuthInv
<1>1. CASE RecvSecond(s, r, g)
  <2>1. pending[r][s].ei \in Eph \union {Junk} /\ g.msg.er \in Eph \union {Junk}
    BY <1>0, <1>1 DEF RecvSecond, TypeOK, Pending, None, Await2, Await3, Datagram, Message
  <2>2. UNCHANGED decrypted
    BY <1>1 DEF RecvSecond
  <2>3. QED
    BY <1>0, <1>1, <2>1, <2>2, InstallVouched DEF RecvSecond, Role, GateHolds
<1>2. CASE RecvThird(s, r, g)
  <2>1. pending[r][s].ei \in Eph \union {Junk} /\ pending[r][s].er \in Eph \union {Junk}
    BY <1>0, <1>2 DEF RecvThird, TypeOK, Pending, None, Await2, Await3
  <2>2. UNCHANGED decrypted
    BY <1>2 DEF RecvThird
  <2>3. QED
    BY <1>0, <1>2, <2>1, <2>2, InstallVouched DEF RecvThird, Role, GateHolds
<1>3. CASE RecvSpoilsPending(s, r, g) \/ StartResponder(s, r, g) \/ RecvUndecryptable(s, r, g)
  <2>1. UNCHANGED <<conn, decrypted>>
    BY <1>3 DEF RecvSpoilsPending, StartResponder, RecvUndecryptable, nodeVars, histVars
  <2>2. QED
    BY <2>1 DEF AuthInv, GateHolds
<1>4. CASE RecvAuthRejected(s, r, g)
  <2>1. ~Gated(g.msg.frame)
    BY <1>4 DEF RecvAuthRejected, Gated
  <2>2. GateHolds'
    BY <1>0, <1>4, <2>1, RecordGate DEF RecvAuthRejected
  <2>3. Vouched(r, s, None)
    BY DEF Vouched
  <2>4. QED
    BY <1>4, <2>2, <2>3, EntryVouched DEF RecvAuthRejected
<1>5. CASE RecvAuth(s, r, g)
  <2>1. ~Gated(g.msg.frame) /\ TokenAccepted(s, r)
    BY <1>5 DEF RecvAuth, Gated
  <2>2. GateHolds'
    BY <1>0, <1>5, <2>1, RecordGate DEF RecvAuth
  <2>3. Vouched(r, s, Authenticated(Advanced(conn[r][s])))
    BY <2>1 DEF Vouched
  <2>4. QED
    BY <1>5, <2>2, <2>3, EntryVouched DEF RecvAuth
<1>6. CASE RecvOther(s, r, g)
  <2>1. conn[r][s] # None /\ conn[r][s] \in Connection
    BY <1>0, <1>6, DecryptedFacts DEF RecvOther, Decrypted
  <2>2. GateHolds'
    <3>1. (AuthRequired[r] /\ Gated(g.msg.frame) => conn[r][s].auth) /\ Gated(g.msg.frame)
            => TokenAccepted(s, r)
      BY <1>0, <2>1 DEF Vouched, TokenAccepted
    <3>2. QED
      BY <1>0, <1>6, <3>1, RecordGate DEF RecvOther
  <2>3. Vouched(r, s, Advanced(conn[r][s]))
    BY <1>0, <2>1, StillVouched
  <2>4. QED
    BY <1>6, <2>2, <2>3, EntryVouched DEF RecvOther
<1>7. CASE RecvJoin(s, r, g)
  <2> DEFINE known == {m \in Node : conn[r][m] # None /\ (m = s \/ joined[r][m])}
             told  == [m \in Node |-> IF m \in known THEN Sending(conn[r][m], 1)
                                                     ELSE conn[r][m]]
  <2>1. /\ Decrypted(s, r, g) /\ g.msg.frame = "Join"
        /\ conn' = [conn EXCEPT ![r] = [told EXCEPT ![s] = Identified(Advanced(told[s]))]]
        /\ Record(s, r, g.msg, TRUE)
    BY <1>7 DEF RecvJoin
  <2>2. GateHolds'
    <3>1. ~Gated(g.msg.frame)
      BY <2>1 DEF Gated
    <3>2. QED
      BY <1>0, <2>1, <3>1, RecordGate
  <2>3. \A m \in Node : /\ Vouched(r, m, told[m])
                        /\ told[m] \in Connection \union {None}
    <3> SUFFICES ASSUME NEW m \in Node PROVE /\ Vouched(r, m, told[m])
                                             /\ told[m] \in Connection \union {None}
      OBVIOUS
    <3>1. conn[r][m] \in Connection \union {None} /\ Vouched(r, m, conn[r][m])
      BY DEF AuthInv, TypeOK
    <3>2. CASE m \in known
      BY <3>1, <3>2, StillVouched, ConnectionUpdates
    <3>3. CASE m \notin known
      BY <3>1, <3>3
    <3>4. QED
      BY <3>2, <3>3
  <2>4. told[s] \in Connection
    <3>1. conn[r][s] \in Connection /\ s \in known
      BY <1>0, <2>1, DecryptedFacts DEF Decrypted
    <3>2. QED
      BY <3>1, ConnectionUpdates
  <2>5. Vouched(r, s, Identified(Advanced(told[s])))
    <3>1. Advanced(told[s]) \in Connection
      BY <2>4, ConnectionUpdates
    <3>2. QED
      BY <2>3, <2>4, <3>1, StillVouched
  <2>6. told = [m \in Node |-> told[m]]
    OBVIOUS
  <2> HIDE DEF told
  <2>7. \A x, y \in Node : Vouched(x, y, conn'[x][y])
    <3> SUFFICES ASSUME NEW x \in Node, NEW y \in Node PROVE Vouched(x, y, conn'[x][y])
      OBVIOUS
    <3>1. conn \in [Node -> [Node -> Connection \union {None}]]
      BY DEF AuthInv, TypeOK
    <3>2. CASE x # r
      BY <2>1, <3>1, <3>2 DEF AuthInv
    <3>3. CASE x = r /\ y # s
      BY <2>1, <2>3, <2>6, <3>1, <3>3
    <3>4. CASE x = r /\ y = s
      BY <2>1, <2>5, <2>6, <3>1, <3>4
    <3>5. QED
      BY <3>2, <3>3, <3>4
  <2>8. QED
    BY <2>2, <2>7
<1>8. QED
  BY <1>1, <1>2, <1>3, <1>4, <1>5, <1>6, <1>7 DEF Receive

LEMMA LocalGate ==
    ASSUME AuthInv, NEW n \in Node, NEW m \in Node,
           \/ Initiate(n, m) \/ InsertPending(n, m) \/ AppSend(n, m)
           \/ Disconnect(n, m) \/ Restart(n)
    PROVE  (\A x, y \in Node : Vouched(x, y, conn'[x][y])) /\ GateHolds'
<1>1. UNCHANGED decrypted /\ GateHolds'
  <2>1. UNCHANGED decrypted
    BY DEF Initiate, InsertPending, AppSend, Disconnect, Restart, histVars
  <2>2. QED
    BY <2>1 DEF AuthInv, GateHolds
<1>2. CASE Initiate(n, m) \/ InsertPending(n, m)
  <2>1. UNCHANGED conn
    BY <1>2 DEF Initiate, InsertPending
  <2>2. QED
    BY <1>1, <2>1 DEF AuthInv
<1>3. CASE AppSend(n, m)
  <2>1. /\ conn[n][m] \in Connection /\ Vouched(n, m, conn[n][m])
        /\ conn' = [conn EXCEPT ![n][m] = Sending(conn[n][m], 1)]
    BY <1>3 DEF AppSend, AuthInv, TypeOK
  <2>2. Vouched(n, m, Sending(conn[n][m], 1))
    BY <2>1, StillVouched
  <2>3. QED
    BY <1>1, <2>1, <2>2, EntryVouched
<1>4. CASE Disconnect(n, m)
  <2>1. Vouched(n, m, None) /\ conn' = [conn EXCEPT ![n][m] = None]
    BY <1>4 DEF Vouched, Disconnect
  <2>2. QED
    BY <1>1, <2>1, EntryVouched
<1>5. CASE Restart(n)
  <2>1. \A x, y \in Node : conn'[x][y] = None \/ conn'[x][y] = conn[x][y]
    BY <1>5 DEF Restart, AuthInv, TypeOK
  <2>2. QED
    BY <1>1, <2>1 DEF AuthInv, Vouched
<1>6. QED
  BY <1>2, <1>3, <1>4, <1>5

(* A PeerList, or anything that the layers above exchange, is handled only  *)
(* if it comes from a node that has the token.  The frames that set up the  *)
(* link and the keys (Join, Hello, the ICE and the E2EE messages, PeerState)*)
(* pass the gate of handle_frame whoever sends them.                        *)
THEOREM Gate == Spec => []GateHolds
<1>1. Init => AuthInv
  <2>1. Init => TypeOK
    <3>1. None \in Pending
      BY DEF None, Pending
    <3>2. QED
      BY <3>1, ConfigAssumption DEF Init, TypeOK
  <2>2. Init => (\A n, m \in Node : Vouched(n, m, conn[n][m])) /\ GateHolds
    BY DEF Init, Vouched, GateHolds
  <2>3. QED
    BY <2>1, <2>2 DEF AuthInv
<1>2. TypeOK' /\ AuthInv /\ [Next]_vars => AuthInv'
  <2> SUFFICES ASSUME TypeOK', AuthInv, [Next]_vars
               PROVE  (\A x, y \in Node : Vouched(x, y, conn'[x][y])) /\ GateHolds'
    BY DEF AuthInv
  <2>1. CASE UNCHANGED vars
    BY <2>1 DEF vars, histVars, AuthInv, GateHolds
  <2>2. ASSUME NEW n \in Node, NEW m \in Node,
               Dial(n, m) \/ Discover(n, m) \/ Rekey(n, m)
        PROVE  (\A x, y \in Node : Vouched(x, y, conn'[x][y])) /\ GateHolds'
    BY <2>2, LocalGate DEF Dial, Discover, Rekey
  <2>3. QED
    BY <2>1, <2>2, ReceiveGate, LocalGate DEF Next
<1>3. AuthInv => GateHolds
  BY DEF AuthInv
<1>4. QED
  BY <1>1, <1>2, <1>3, TypeCorrect, PTL DEF Spec

-----------------------------------------------------------------------------
(* NonceUsedOnce.  The key that a side encrypts with is told apart by the   *)
(* ephemeral that this side has drawn for it.  A drawn ephemeral is in one  *)
(* place: a handshake on its way to its pending entry, a pending handshake  *)
(* or a connection; it moves on and is never in two.  Nothing is encrypted  *)
(* under it before it has come to a connection, and there the counter is    *)
(* beyond every nonce used.                                                 *)

Key(x) == <<x.role, IF x.role = "I" THEN x.ei ELSE x.er>>

KeyPlace == {"start", "pend", "conn"} \X Node \X Node

(* The key that this side has drawn for the handshake x.                    *)
Draws(x, k) ==
    \/ x.st = "await2" /\ k = <<"I", x.ei>>
    \/ x.st = "await3" /\ k = <<"R", x.er>>

At(p, k) ==
    \/ p[1] = "start" /\ \E x \in starting[p[2]][p[3]] : Draws(x, k)
    \/ p[1] = "pend" /\ Draws(pending[p[2]][p[3]], k)
    \/ p[1] = "conn" /\ conn[p[2]][p[3]] # None /\ k = Key(conn[p[2]][p[3]])

OnePlace == \A k : \A p, q \in KeyPlace : At(p, k) /\ At(q, k) => p = q

Drawn ==
    /\ \A k : \A p \in KeyPlace : At(p, k) => k[2] \in 0..(nextEph - 1)
    /\ \A d \in encrypted : Key(d)[2] \in 0..(nextEph - 1)

Unspent ==
    \A k : \A p \in KeyPlace : \A d \in encrypted :
        At(p, k) /\ k = Key(d) => p[1] = "conn"

Ahead ==
    \A n, m \in Node : \A d \in encrypted :
        conn[n][m] # None /\ Key(d) = Key(conn[n][m]) => d.n < conn[n][m].tx

KeyNonceOnce ==
    \A d, e \in encrypted : Key(d) = Key(e) /\ d.n = e.n => d = e

KeyInv == TypeOK /\ OnePlace /\ Drawn /\ Unspent /\ Ahead /\ KeyNonceOnce

(* No side encrypts with it: where a step moves no key, this one moves.     *)
NoKey   == <<"none", 0>>
Nowhere == <<"none", 0, 0>>

(* How a step treats the keys: at most one comes to a place, and it is new  *)
(* or one that nothing is encrypted under yet.                              *)
Traced ==
    /\ nextEph' >= nextEph
    /\ \E k0 :
         /\ \/ k0 = NoKey
            \/ k0[2] = nextEph
            \/ \E q \in KeyPlace : q[1] # "conn" /\ At(q, k0)
         /\ \A k : \A p \in KeyPlace : At(p, k)' => At(p, k) \/ k = k0

KeyNext == KeyInv' /\ Traced

LEMMA KeyFacts ==
    ASSUME TypeOK
    PROVE  /\ \A p \in KeyPlace : ~At(p, NoKey)
           /\ \A d \in encrypted : Key(d) # NoKey /\ d.n \in Nat /\ Key(d)[2] \in Nat
           /\ \A n, m \in Node : conn[n][m] # None =>
                  conn[n][m] \in Connection /\ conn[n][m].tx \in Nat /\ Key(conn[n][m]) # NoKey
<1>1. \A x : x.role \in Role => Key(x) # NoKey
  BY DEF Key, NoKey, Role
<1>2. \A n, m \in Node : conn[n][m] # None =>
          conn[n][m] \in Connection /\ conn[n][m].tx \in Nat /\ conn[n][m].role \in Role
  BY DEF TypeOK, Connection
<1>3. \A p \in KeyPlace : ~At(p, NoKey)
  <2> SUFFICES ASSUME NEW p \in KeyPlace, At(p, NoKey) PROVE FALSE
    OBVIOUS
  <2>1. p[2] \in Node /\ p[3] \in Node
    BY DEF KeyPlace
  <2>2. CASE p[1] = "conn" /\ conn[p[2]][p[3]] # None /\ NoKey = Key(conn[p[2]][p[3]])
    BY <1>1, <1>2, <2>1, <2>2
  <2>3. QED
    BY <2>2 DEF At, Draws, NoKey
<1>4. \A d \in encrypted : d.role \in Role /\ d.n \in Nat /\ Key(d)[2] \in Nat
  BY DEF TypeOK, Message, Key, Eph, Junk
<1>5. QED
  BY <1>1, <1>2, <1>3, <1>4

(* A step that moves the key k0 to the place p0 and encrypts the messages   *)
(* N, each by a connection there was or the one that k0 has come to.        *)
KeyStep(p0, k0, N) ==
    /\ nextEph' >= nextEph
    /\ encrypted' = encrypted \union N
    /\ \A k : \A p \in KeyPlace : At(p, k)' => At(p, k) \/ (p = p0 /\ k = k0)
    /\ \A p \in KeyPlace : At(p, k0)' => p = p0 /\ k0[2] \in 0..(nextEph' - 1)
    /\ \A d \in encrypted : Key(d) # k0
    /\ \A n, m \in Node : conn'[n][m] # None =>
           \/ Key(conn'[n][m]) = k0
           \/ /\ conn[n][m] # None /\ Key(conn'[n][m]) = Key(conn[n][m])
              /\ conn'[n][m].tx >= conn[n][m].tx
    /\ \A d \in N : \E n, m \in Node :
           /\ conn'[n][m] # None /\ Key(d) = Key(conn'[n][m])
           /\ d.n < conn'[n][m].tx
           /\ \/ Key(d) = k0
              \/ conn[n][m] # None /\ Key(d) = Key(conn[n][m]) /\ d.n >= conn[n][m].tx
    /\ \A d, e \in N : Key(d) = Key(e) /\ d.n = e.n => d = e

LEMMA KeyStepKeeps ==
    ASSUME KeyInv, TypeOK', NEW p0, NEW k0, NEW N, KeyStep(p0, k0, N)
    PROVE  KeyInv'
<1>0. /\ TypeOK /\ OnePlace /\ Drawn /\ Unspent /\ Ahead /\ KeyNonceOnce
      /\ nextEph \in Nat /\ nextEph' \in Nat
  BY DEF KeyInv, TypeOK
<1>b. /\ nextEph' >= nextEph
      /\ encrypted' = encrypted \union N
      /\ \A k : \A p \in KeyPlace : At(p, k)' => At(p, k) \/ (p = p0 /\ k = k0)
      /\ \A p \in KeyPlace : At(p, k0)' => p = p0 /\ k0[2] \in 0..(nextEph' - 1)
      /\ \A d \in encrypted : Key(d) # k0
  BY DEF KeyStep
<1>c. \A n, m \in Node : conn'[n][m] # None =>
          \/ Key(conn'[n][m]) = k0
          \/ /\ conn[n][m] # None /\ Key(conn'[n][m]) = Key(conn[n][m])
             /\ conn'[n][m].tx >= conn[n][m].tx
  BY DEF KeyStep
<1>d. \A d \in N : \E n, m \in Node :
          /\ conn'[n][m] # None /\ Key(d) = Key(conn'[n][m])
          /\ d.n < conn'[n][m].tx
          /\ \/ Key(d) = k0
             \/ conn[n][m] # None /\ Key(d) = Key(conn[n][m]) /\ d.n >= conn[n][m].tx
  BY DEF KeyStep
<1>e. \A d, e \in N : Key(d) = Key(e) /\ d.n = e.n => d = e
  BY DEF KeyStep
<1>1. OnePlace'
  BY <1>0, <1>b DEF OnePlace
<1>a. \A k : \A p, q \in KeyPlace : At(p, k)' /\ At(q, k)' => p = q
  BY <1>1 DEF OnePlace
<1>2. \A n, m \in Node : \A k : conn'[n][m] # None /\ k = Key(conn'[n][m]) =>
          <<"conn", n, m>> \in KeyPlace /\ At(<<"conn", n, m>>, k)'
  BY DEF KeyPlace, At
<1>3. \A d \in encrypted' : d.n \in Nat
  BY DEF TypeOK, Message
<1>4. \A k : \A p \in KeyPlace : At(p, k)' => k[2] \in 0..(nextEph' - 1)
  <2> SUFFICES ASSUME NEW k, NEW p \in KeyPlace, At(p, k)' PROVE k[2] \in 0..(nextEph' - 1)
    OBVIOUS
  <2>1. CASE k = k0
    BY <1>b, <2>1
  <2>2. CASE k # k0
    <3>1. At(p, k)
      BY <1>b, <2>2
    <3>2. k[2] \in 0..(nextEph - 1)
      BY <1>0, <3>1 DEF Drawn
    <3>3. QED
      BY <1>0, <1>b, <3>2
  <2>3. QED
    BY <1>b, <2>1, <2>2
<1>5. Drawn'
  <2> SUFFICES ASSUME NEW d \in encrypted' PROVE Key(d)[2] \in 0..(nextEph' - 1)
    BY <1>4 DEF Drawn
  <2>1. CASE d \in encrypted
    BY <1>0, <1>b, <2>1 DEF Drawn
  <2>2. CASE d \in N
    <3>1. PICK n \in Node, m \in Node : conn'[n][m] # None /\ Key(d) = Key(conn'[n][m])
      BY <1>d, <2>2
    <3>2. QED
      BY <1>2, <1>4, <3>1
  <2>3. QED
    BY <1>b, <2>1, <2>2
<1>6. Unspent'
  <2> SUFFICES ASSUME NEW k, NEW p \in KeyPlace, NEW d \in encrypted',
                      At(p, k)', k = Key(d)
               PROVE  p[1] = "conn"
    BY DEF Unspent
  <2>1. CASE d \in encrypted
    <3>1. At(p, k)
      BY <1>b, <2>1
    <3>2. QED
      BY <1>0, <2>1, <3>1 DEF Unspent
  <2>2. CASE d \in N
    <3>1. PICK n \in Node, m \in Node : conn'[n][m] # None /\ Key(d) = Key(conn'[n][m])
      BY <1>d, <2>2
    <3>2. <<"conn", n, m>> \in KeyPlace /\ At(<<"conn", n, m>>, k)'
      BY <1>2, <3>1
    <3>3. p = <<"conn", n, m>>
      BY <1>a, <3>2
    <3>4. QED
      BY <3>3
  <2>3. QED
    BY <1>b, <2>1, <2>2
<1>7. Ahead'
  <2> SUFFICES ASSUME NEW n \in Node, NEW m \in Node, NEW d \in encrypted',
                      conn'[n][m] # None, Key(d) = Key(conn'[n][m])
               PROVE  d.n < conn'[n][m].tx
    BY DEF Ahead
  <2>0. conn'[n][m].tx \in Nat
    BY DEF TypeOK, Connection
  <2>1. CASE d \in encrypted
    <3>1. Key(conn'[n][m]) # k0
      BY <1>b, <2>1
    <3>2. /\ conn[n][m] # None /\ Key(d) = Key(conn[n][m])
          /\ conn'[n][m].tx >= conn[n][m].tx
      BY <1>c, <3>1
    <3>3. d.n < conn[n][m].tx /\ conn[n][m].tx \in Nat
      BY <1>0, <2>1, <3>2, KeyFacts DEF Ahead
    <3>4. QED
      BY <1>3, <2>0, <3>2, <3>3
  <2>2. CASE d \in N
    <3>1. PICK x \in Node, y \in Node :
            conn'[x][y] # None /\ Key(d) = Key(conn'[x][y]) /\ d.n < conn'[x][y].tx
      BY <1>d, <2>2
    <3>2. PICK k : k = Key(d)
      OBVIOUS
    <3>3. /\ <<"conn", n, m>> \in KeyPlace /\ At(<<"conn", n, m>>, k)'
          /\ <<"conn", x, y>> \in KeyPlace /\ At(<<"conn", x, y>>, k)'
      BY <1>2, <3>1, <3>2
    <3>4. <<"conn", n, m>> = <<"conn", x, y>>
      BY <1>a, <3>3
    <3>5. QED
      BY <3>1, <3>4
  <2>3. QED
    BY <1>b, <2>1, <2>2
<1>8. \A d \in N : \A e \in encrypted : Key(d) = Key(e) => e.n < d.n
  <2> SUFFICES ASSUME NEW d \in N, NEW e \in encrypted, Key(d) = Key(e) PROVE e.n < d.n
    OBVIOUS
  <2>1. PICK n \in Node, m \in Node :
            conn[n][m] # None /\ Key(d) = Key(conn[n][m]) /\ d.n >= conn[n][m].tx
    <3>1. Key(d) # k0
      BY <1>b
    <3>2. QED
      BY <1>d, <3>1
  <2>2. e.n < conn[n][m].tx /\ conn[n][m].tx \in Nat
    BY <1>0, <2>1, KeyFacts DEF Ahead
  <2>3. QED
    BY <1>3, <1>b, <2>1, <2>2
<1>9. KeyNonceOnce'
  <2> SUFFICES ASSUME NEW d \in encrypted', NEW e \in encrypted',
                      Key(d) = Key(e), d.n = e.n
               PROVE  d = e
    BY DEF KeyNonceOnce
  <2>1. d.n \in Nat /\ e.n \in Nat
    BY <1>3
  <2>2. CASE d \in encrypted /\ e \in encrypted
    BY <1>0, <2>2 DEF KeyNonceOnce
  <2>3. CASE d \in N /\ e \in encrypted
    BY <1>8, <2>1, <2>3
  <2>4. CASE d \in encrypted /\ e \in N
    <3>1. d.n < e.n
      BY <1>8, <2>4
    <3>2. QED
      BY <2>1, <3>1
  <2>5. CASE d \in N /\ e \in N
    BY <1>e, <2>5
  <2>6. QED
    BY <1>b, <2>2, <2>3, <2>4, <2>5
<1>10. QED
  BY <1>1, <1>5, <1>6, <1>7, <1>9 DEF KeyInv

(* What a step does to an entry that no key comes to.                       *)
Stays(p) ==
    /\ p[1] = "start" => starting'[p[2]][p[3]] \subseteq starting[p[2]][p[3]]
    /\ p[1] = "pend" => pending'[p[2]][p[3]] = None \/ pending'[p[2]][p[3]] = pending[p[2]][p[3]]
    /\ p[1] = "conn" /\ conn'[p[2]][p[3]] # None =>
           conn[p[2]][p[3]] # None /\ Key(conn'[p[2]][p[3]]) = Key(conn[p[2]][p[3]])

(* The connections that encrypt go on counting.                             *)
Counts(n, m) ==
    conn'[n][m] # None => /\ conn[n][m] # None /\ Key(conn'[n][m]) = Key(conn[n][m])
                          /\ conn'[n][m].tx >= conn[n][m].tx

LEMMA AtStays ==
    ASSUME NEW p \in KeyPlace, NEW k, At(p, k)', Stays(p) PROVE At(p, k)
<1>1. None.st = "none"
  BY DEF None
<1>2. QED
  BY <1>1 DEF At, Draws, Stays

LEMMA CountsStay ==
    ASSUME \A n, m \in Node : Counts(n, m) PROVE \A p \in KeyPlace : p[1] = "conn" => Stays(p)
BY DEF Counts, Stays, KeyPlace

(* A key k0 is drawn, or moves from where it waits, to the place p0.        *)
KeyMove(p0, k0, N) ==
    /\ encrypted' = encrypted \union N
    /\ \A p \in KeyPlace : p # p0 => Stays(p)
    /\ \A k : At(p0, k)' => At(p0, k) \/ k = k0
    /\ \/ nextEph' = nextEph + 1 /\ k0[2] = nextEph
       \/ /\ nextEph' = nextEph
          /\ \E q \in KeyPlace : q # p0 /\ q[1] # "conn" /\ At(q, k0) /\ ~At(q, k0)'
    /\ \A n, m \in Node : conn'[n][m] # None => Key(conn'[n][m]) = k0 \/ Counts(n, m)
    /\ \A d \in N : \E n, m \in Node :
           conn'[n][m] # None /\ Key(d) = Key(conn'[n][m]) /\ d.n < conn'[n][m].tx /\ Key(d) = k0
    /\ \A d, e \in N : Key(d) = Key(e) /\ d.n = e.n => d = e

LEMMA KeyMoves ==
    ASSUME KeyInv, TypeOK', NEW p0 \in KeyPlace, NEW k0, NEW N, KeyMove(p0, k0, N)
    PROVE  KeyNext
<1>0. /\ TypeOK /\ OnePlace /\ Drawn /\ Unspent
      /\ nextEph \in Nat /\ nextEph' \in Nat
  BY DEF KeyInv, TypeOK
<1>1. \A k : \A p \in KeyPlace : At(p, k)' => At(p, k) \/ (p = p0 /\ k = k0)
  BY AtStays DEF KeyMove
<1>2. \A p \in KeyPlace : p # p0 => ~At(p, k0)'
  <2> SUFFICES ASSUME NEW p \in KeyPlace, p # p0, At(p, k0)' PROVE FALSE
    OBVIOUS
  <2>1. At(p, k0)
    BY <1>1
  <2>2. k0[2] \in 0..(nextEph - 1)
    BY <1>0, <2>1 DEF Drawn
  <2>3. k0[2] # nextEph
    BY <1>0, <2>2
  <2>4. PICK q \in KeyPlace : q # p0 /\ At(q, k0) /\ ~At(q, k0)'
    BY <2>3 DEF KeyMove
  <2>5. p = q
    BY <1>0, <2>1, <2>4 DEF OnePlace
  <2>6. QED
    BY <2>4, <2>5
<1>3. k0[2] \in 0..(nextEph' - 1)
  <2>1. CASE nextEph' = nextEph + 1 /\ k0[2] = nextEph
    BY <1>0, <2>1
  <2>2. CASE nextEph' = nextEph /\ \E q \in KeyPlace : At(q, k0)
    BY <1>0, <2>2 DEF Drawn
  <2>3. QED
    BY <2>1, <2>2 DEF KeyMove
<1>4. \A d \in encrypted : Key(d) # k0
  <2> SUFFICES ASSUME NEW d \in encrypted, Key(d) = k0 PROVE FALSE
    OBVIOUS
  <2>1. k0[2] \in 0..(nextEph - 1)
    BY <1>0 DEF Drawn
  <2>2. k0[2] # nextEph
    BY <1>0, <2>1
  <2>3. PICK q \in KeyPlace : q[1] # "conn" /\ At(q, k0)
    BY <2>2 DEF KeyMove
  <2>4. QED
    BY <1>0, <2>3 DEF Unspent
<1>5. nextEph' >= nextEph
  BY <1>0 DEF KeyMove
<1>6. \A n, m \in Node : conn'[n][m] # None =>
          \/ Key(conn'[n][m]) = k0
          \/ /\ conn[n][m] # None /\ Key(conn'[n][m]) = Key(conn[n][m])
             /\ conn'[n][m].tx >= conn[n][m].tx
  BY DEF Counts, KeyMove
<1>7. \A p \in KeyPlace : At(p, k0)' => p = p0 /\ k0[2] \in 0..(nextEph' - 1)
  BY <1>2, <1>3
<1>8. \A d \in N : \E n, m \in Node :
          /\ conn'[n][m] # None /\ Key(d) = Key(conn'[n][m])
          /\ d.n < conn'[n][m].tx
          /\ \/ Key(d) = k0
             \/ conn[n][m] # None /\ Key(d) = Key(conn[n][m]) /\ d.n >= conn[n][m].tx
  BY DEF KeyMove
<1>9. KeyStep(p0, k0, N)
  BY <1>1, <1>4, <1>5, <1>6, <1>7, <1>8 DEF KeyStep, KeyMove
<1>10. KeyInv'
  BY <1>9, KeyStepKeeps
<1>11. k0[2] = nextEph \/ \E q \in KeyPlace : q[1] # "conn" /\ At(q, k0)
  BY DEF KeyMove
<1>12. QED
  BY <1>1, <1>5, <1>10, <1>11 DEF KeyNext, Traced

(* Connections that there are encrypt, and no key moves.                    *)
KeysRest(N) ==
    /\ nextEph' = nextEph
    /\ encrypted' = encrypted \union N
    /\ \A p \in KeyPlace : p[1] # "conn" => Stays(p)
    /\ \A n, m \in Node : Counts(n, m)
    /\ \A d \in N : \E n, m \in Node :
           /\ conn'[n][m] # None /\ Key(d) = Key(conn'[n][m])
           /\ d.n < conn'[n][m].tx /\ d.n >= conn[n][m].tx
    /\ \A d, e \in N : Key(d) = Key(e) /\ d.n = e.n => d = e

LEMMA KeysStay ==
    ASSUME KeyInv, TypeOK', NEW N, KeysRest(N)
    PROVE  KeyNext
<1>0. TypeOK /\ nextEph \in Nat
  BY DEF KeyInv, TypeOK
<1>1. \A p \in KeyPlace : Stays(p)
  BY CountsStay DEF KeysRest
<1>2. \A k : \A p \in KeyPlace : At(p, k)' => At(p, k) \/ (p = Nowhere /\ k = NoKey)
  BY <1>1, AtStays
<1>3. \A p \in KeyPlace : ~At(p, NoKey)'
  BY <1>0, <1>1, AtStays, KeyFacts
<1>4. \A d \in encrypted : Key(d) # NoKey
  BY <1>0, KeyFacts
<1>5. \A n, m \in Node : conn'[n][m] # None =>
          /\ conn[n][m] # None /\ Key(conn'[n][m]) = Key(conn[n][m])
          /\ conn'[n][m].tx >= conn[n][m].tx
  BY DEF Counts, KeysRest
<1>6. \A d \in N : \E n, m \in Node :
          /\ conn'[n][m] # None /\ Key(d) = Key(conn'[n][m])
          /\ d.n < conn'[n][m].tx
          /\ conn[n][m] # None /\ Key(d) = Key(conn[n][m]) /\ d.n >= conn[n][m].tx
  BY <1>5 DEF KeysRest
<1>7. nextEph' >= nextEph
  BY <1>0 DEF KeysRest
<1>8. \A p \in KeyPlace : At(p, NoKey)' => p = Nowhere /\ NoKey[2] \in 0..(nextEph' - 1)
  BY <1>3
<1>9. \A n, m \in Node : conn'[n][m] # None =>
          \/ Key(conn'[n][m]) = NoKey
          \/ /\ conn[n][m] # None /\ Key(conn'[n][m]) = Key(conn[n][m])
             /\ conn'[n][m].tx >= conn[n][m].tx
  BY <1>5
<1>10. \A d \in N : \E n, m \in Node :
          /\ conn'[n][m] # None /\ Key(d) = Key(conn'[n][m])
          /\ d.n < conn'[n][m].tx
          /\ \/ Key(d) = NoKey
             \/ conn[n][m] # None /\ Key(d) = Key(conn[n][m]) /\ d.n >= conn[n][m].tx
  BY <1>6
<1>11. KeyStep(Nowhere, NoKey, N)
  BY <1>2, <1>4, <1>7, <1>8, <1>9, <1>10 DEF KeyStep, KeysRest
<1>12. KeyInv'
  BY <1>11, KeyStepKeeps
<1>13. \A k : \A p \in KeyPlace : At(p, k)' => At(p, k) \/ k = NoKey
  BY <1>2
<1>14. QED
  BY <1>7, <1>12, <1>13 DEF KeyNext, Traced

-----------------------------------------------------------------------------
(* The steps, one after the other.                                          *)

LEMMA OtherPlace ==
    ASSUME TypeOK, NEW n \in Node, NEW m \in Node
    PROVE  /\ \A v : pending' = [pending EXCEPT ![n][m] = v] =>
                  \A x, y \in Node : ~(x = n /\ y = m) => pending'[x][y] = pending[x][y]
           /\ \A v : pending' = [pending EXCEPT ![n][m] = v] => pending'[n][m] = v
           /\ \A v : conn' = [conn EXCEPT ![n][m] = v] =>
                  \A x, y \in Node : ~(x = n /\ y = m) => conn'[x][y] = conn[x][y]
           /\ \A v : conn' = [conn EXCEPT ![n][m] = v] => conn'[n][m] = v
           /\ \A v : starting' = [starting EXCEPT ![n][m] = v] =>
                  \A x, y \in Node : ~(x = n /\ y = m) => starting'[x][y] = starting[x][y]
           /\ \A v : starting' = [starting EXCEPT ![n][m] = v] => starting'[n][m] = v
BY DEF TypeOK

LEMMA SameCounts ==
    ASSUME TypeOK, NEW n \in Node, NEW m \in Node, conn'[n][m] = conn[n][m]
    PROVE  Counts(n, m)
BY KeyFacts DEF Counts

LEMMA InitiateKeys ==
    ASSUME KeyInv, TypeOK', NEW n \in Node, NEW m \in Node, Initiate(n, m)
    PROVE  KeyNext
<1> DEFINE p0 == <<"start", n, m>>
           k0 == <<"I", nextEph>>
<1>0. TypeOK
  BY DEF KeyInv
<1>1. /\ starting' = [starting EXCEPT ![n][m] = starting[n][m] \union {Await2(nextEph)}]
      /\ nextEph' = nextEph + 1
      /\ UNCHANGED <<pending, conn, encrypted>>
  BY DEF Initiate, histVars
<1>2. \A x, y \in Node : Counts(x, y)
  BY <1>0, <1>1, SameCounts
<1>3. ASSUME NEW p \in KeyPlace PROVE Stays(p) \/ p = p0
  <2>1. PICK kind \in {"start", "pend", "conn"}, x \in Node, y \in Node : p = <<kind, x, y>>
    BY DEF KeyPlace
  <2>2. CASE kind = "start"
    BY <1>0, <1>1, <2>1, <2>2, OtherPlace DEF Stays
  <2>3. CASE kind # "start"
    BY <1>1, <2>1, <2>3 DEF Stays
  <2>4. QED
    BY <2>2, <2>3
<1>4. ASSUME NEW k, At(p0, k)' PROVE At(p0, k) \/ k = k0
  <2>1. starting'[n][m] = starting[n][m] \union {Await2(nextEph)}
    BY <1>0, <1>1, OtherPlace
  <2>2. Draws(Await2(nextEph), k) => k = k0
    BY DEF Draws, Await2
  <2>3. QED
    BY <1>4, <2>1, <2>2 DEF At
<1>5. k0[2] = nextEph /\ p0 \in KeyPlace
  BY DEF KeyPlace
<1> HIDE DEF p0, k0
<1>6. KeyMove(p0, k0, {})
  BY <1>1, <1>2, <1>3, <1>4, <1>5 DEF KeyMove
<1>7. QED
  BY <1>5, <1>6, KeyMoves

LEMMA ResponderKeys ==
    ASSUME KeyInv, TypeOK', NEW s \in Node, NEW r \in Node, NEW g, StartResponder(s, r, g)
    PROVE  KeyNext
<1> DEFINE p0 == <<"start", r, s>>
           k0 == <<"R", nextEph>>
<1>0. TypeOK
  BY DEF KeyInv
<1>1. PICK ei :
      /\ starting' = [starting EXCEPT ![r][s] =
                           starting[r][s] \union {Await3(ei, nextEph)}]
      /\ nextEph' = nextEph + 1
      /\ UNCHANGED <<pending, conn, encrypted>>
  BY DEF StartResponder, histVars
<1>2. \A x, y \in Node : Counts(x, y)
  BY <1>0, <1>1, SameCounts
<1>3. ASSUME NEW p \in KeyPlace PROVE Stays(p) \/ p = p0
  <2>1. PICK kind \in {"start", "pend", "conn"}, x \in Node, y \in Node : p = <<kind, x, y>>
    BY DEF KeyPlace
  <2>2. CASE kind = "start"
    BY <1>0, <1>1, <2>1, <2>2, OtherPlace DEF Stays
  <2>3. CASE kind # "start"
    BY <1>1, <2>1, <2>3 DEF Stays
  <2>4. QED
    BY <2>2, <2>3
<1>4. ASSUME NEW k, At(p0, k)' PROVE At(p0, k) \/ k = k0
  <2>1. starting'[r][s] = starting[r][s] \union {Await3(ei, nextEph)}
    <3>1. PICK S : S = starting[r][s] \union {Await3(ei, nextEph)}
      OBVIOUS
    <3>2. starting' = [starting EXCEPT ![r][s] = S]
      BY <1>1, <3>1
    <3>3. QED
      BY <1>0, <3>1, <3>2 DEF TypeOK
  <2>2. Draws(Await3(ei, nextEph), k) => k = k0
    BY DEF Draws, Await3
  <2>3. QED
    BY <1>4, <2>1, <2>2 DEF At
<1>5. k0[2] = nextEph /\ p0 \in KeyPlace
  BY DEF KeyPlace
<1> HIDE DEF p0, k0
<1>6. KeyMove(p0, k0, {})
  BY <1>1, <1>2, <1>3, <1>4, <1>5 DEF KeyMove
<1>7. QED
  BY <1>5, <1>6, KeyMoves

(* Two handshakes on their way to one pending entry have drawn two keys.    *)
StartsApart ==
    \A n, m \in Node : \A x, y \in starting[n][m] :
        \A k : Draws(x, k) /\ Draws(y, k) => x = y

LEMMA InsertKeys ==
    ASSUME KeyInv, StartsApart, TypeOK', NEW n \in Node, NEW m \in Node, InsertPending(n, m)
    PROVE  KeyNext
<1>0. TypeOK
  BY DEF KeyInv
<1>1. PICK h \in starting[n][m] :
        /\ starting' = [starting EXCEPT ![n][m] = starting[n][m] \ {h}]
        /\ pending' = [pending EXCEPT ![n][m] = h]
        /\ UNCHANGED <<conn, nextEph, encrypted>>
  BY DEF InsertPending, histVars
<1> DEFINE p0 == <<"pend", n, m>>
           q  == <<"start", n, m>>
<1>2. \A x, y \in Node : Counts(x, y)
  BY <1>0, <1>1, SameCounts
<1>3. ASSUME NEW p \in KeyPlace PROVE Stays(p) \/ p = p0
  <2>1. PICK kind \in {"start", "pend", "conn"}, x \in Node, y \in Node : p = <<kind, x, y>>
    BY DEF KeyPlace
  <2>2. CASE kind = "pend"
    BY <1>0, <1>1, <2>1, <2>2, OtherPlace DEF Stays
  <2>3. CASE kind = "start"
    BY <1>0, <1>1, <2>1, <2>3, OtherPlace DEF Stays
  <2>4. CASE kind = "conn"
    BY <1>1, <2>1, <2>4 DEF Stays
  <2>5. QED
    BY <2>1, <2>2, <2>3, <2>4
<1>4. pending'[n][m] = h /\ starting'[n][m] = starting[n][m] \ {h}
  BY <1>0, <1>1, OtherPlace
<1>5. p0 \in KeyPlace /\ q \in KeyPlace /\ q # p0 /\ q[1] # "conn"
  BY DEF KeyPlace
<1>6. PICK k0 : Draws(h, k0)
  <2>1. h \in Pending \ {None}
    BY <1>0, <1>1 DEF TypeOK
  <2>2. h.st \in {"await2", "await3"}
    BY <2>1 DEF Pending, None
  <2>3. QED
    BY <2>2 DEF Draws
<1>7. ASSUME NEW k, At(p0, k)' PROVE k = k0
  BY <1>4, <1>6, <1>7 DEF At, Draws
<1>8. At(q, k0)
  BY <1>1, <1>6 DEF At
<1>9. ~At(q, k0)'
  BY <1>1, <1>4, <1>6 DEF At, StartsApart
<1> HIDE DEF p0, q
<1>10. KeyMove(p0, k0, {})
  BY <1>1, <1>2, <1>3, <1>5, <1>7, <1>8, <1>9 DEF KeyMove
<1>11. QED
  BY <1>5, <1>10, KeyMoves

(* What a connection encrypts.                                              *)
LEMMA EncryptKeys ==
    ASSUME NEW c, c.tx \in Nat, NEW fs \in Seq(DataFrames), NEW d \in Range(Encrypt(c, fs))
    PROVE  /\ Key(d) = Key(c)
           /\ d.n \in Nat /\ c.tx <= d.n /\ d.n < c.tx + Len(fs)
           /\ \A e \in Range(Encrypt(c, fs)) : e.n = d.n => e = d
<1>0. Len(fs) \in Nat
  OBVIOUS
<1>1. \A e \in Range(Encrypt(c, fs)) : \E i \in 1..Len(fs) :
        e = [frame |-> fs[i], ei |-> c.ei, er |-> c.er, role |-> c.role, n |-> c.tx + i - 1]
  BY <1>0 DEF Encrypt, Range
<1>2. PICK i \in 1..Len(fs) :
        d = [frame |-> fs[i], ei |-> c.ei, er |-> c.er, role |-> c.role, n |-> c.tx + i - 1]
  BY <1>1
<1>3. Key(d) = Key(c)
  BY <1>2 DEF Key
<1>4. d.n = c.tx + i - 1 /\ i \in Int
  BY <1>2
<1>5. d.n \in Nat /\ c.tx <= d.n /\ d.n < c.tx + Len(fs)
  BY <1>0, <1>4
<1>6. ASSUME NEW e \in Range(Encrypt(c, fs)), e.n = d.n PROVE e = d
  <2>1. PICK j \in 1..Len(fs) :
        e = [frame |-> fs[j], ei |-> c.ei, er |-> c.er, role |-> c.role, n |-> c.tx + j - 1]
    BY <1>1
  <2>2. e.n = c.tx + j - 1 /\ j \in Int
    BY <2>1
  <2>3. i = j
    BY <1>4, <1>6, <2>2
  <2>4. QED
    BY <1>2, <2>1, <2>3
<1>7. QED
  BY <1>3, <1>5, <1>6

LEMMA InstallKeys ==
    ASSUME KeyInv, TypeOK', NEW s \in Node, NEW r \in Node, NEW g, NEW first,
           NEW ei \in Eph \union {Junk}, NEW er \in Eph \union {Junk}, NEW role \in Role,
           InstallConnection(s, r, g, NewConnection(r, ei, er, role), first),
           pending' = [pending EXCEPT ![r][s] = None],
           UNCHANGED <<starting, nextEph>>,
           At(<<"pend", r, s>>, Key(NewConnection(r, ei, er, role)))
    PROVE  KeyNext
<1> DEFINE c  == NewConnection(r, ei, er, role)
           fs == Greeting(r)
           N  == Range(Encrypt(c, fs))
           p0 == <<"conn", r, s>>
           q  == <<"pend", r, s>>
<1>0. TypeOK
  BY DEF KeyInv
<1>1. /\ c \in Connection /\ c.tx = 0 /\ c.tx \in Nat
      /\ fs \in Seq(DataFrames) /\ Len(fs) \in Nat
  BY ConfigAssumption, GreetingType DEF NewConnection, Connection
<1>2. /\ conn' = [conn EXCEPT ![r][s] = Sending(c, Len(Encrypt(c, fs)))]
      /\ encrypted' = encrypted \union N
  BY DEF InstallConnection
<1>3. Len(Encrypt(c, fs)) = Len(fs)
  BY DEF Encrypt
<1>4. At(q, Key(c))
  OBVIOUS
<1> HIDE DEF c, fs
<1>5. conn'[r][s] = Sending(c, Len(fs))
  BY <1>0, <1>2, <1>3 DEF TypeOK
<1>6. conn'[r][s].tx = Len(fs) /\ Key(conn'[r][s]) = Key(c) /\ conn'[r][s] # None
  BY <1>1, <1>5 DEF Sending, Connection, Key, None
<1>7. ASSUME NEW x \in Node, NEW y \in Node, ~(x = r /\ y = s)
      PROVE  Counts(x, y)
  BY <1>0, <1>2, <1>7, OtherPlace, SameCounts
<1>8. ASSUME NEW p \in KeyPlace PROVE Stays(p) \/ p = p0
  <2>1. PICK kind \in {"start", "pend", "conn"}, x \in Node, y \in Node : p = <<kind, x, y>>
    BY DEF KeyPlace
  <2>2. CASE kind = "pend"
    BY <1>0, <2>1, <2>2, OtherPlace DEF Stays
  <2>3. CASE kind = "start"
    BY <2>1, <2>3 DEF Stays
  <2>4. CASE kind = "conn" /\ ~(x = r /\ y = s)
    BY <1>7, <2>1, <2>4 DEF Stays, Counts
  <2>5. QED
    BY <2>1, <2>2, <2>3, <2>4
<1>9. ASSUME NEW k, At(p0, k)' PROVE k = Key(c)
  BY <1>6, <1>9 DEF At
<1>10. p0 \in KeyPlace /\ q \in KeyPlace /\ q # p0 /\ q[1] # "conn"
  BY DEF KeyPlace
<1>11. ~At(q, Key(c))'
  <2>1. pending'[r][s] = None /\ None.st = "none"
    BY <1>0, OtherPlace DEF None
  <2>2. QED
    BY <2>1 DEF At, Draws
<1>12. ASSUME NEW d \in N
       PROVE  /\ Key(d) = Key(conn'[r][s]) /\ d.n < conn'[r][s].tx /\ Key(d) = Key(c)
              /\ \A e \in N : e.n = d.n => e = d
  <2>1. /\ Key(d) = Key(c) /\ d.n < c.tx + Len(fs)
        /\ \A e \in N : e.n = d.n => e = d
    BY <1>1, EncryptKeys
  <2>2. d.n < conn'[r][s].tx
    BY <1>1, <1>6, <2>1
  <2>3. QED
    BY <1>6, <2>1, <2>2
<1>13. PICK k0 : k0 = Key(c)
  OBVIOUS
<1>14. /\ \E w \in KeyPlace : w # p0 /\ w[1] # "conn" /\ At(w, k0) /\ ~At(w, k0)'
  <2>1. At(q, k0) /\ ~At(q, k0)'
    BY <1>4, <1>11, <1>13
  <2>2. QED
    BY <1>10, <2>1
<1> HIDE DEF p0, q, N
<1>15. KeyMove(p0, k0, N)
  <2>1. \A n, m \in Node : conn'[n][m] # None => Key(conn'[n][m]) = k0 \/ Counts(n, m)
    BY <1>6, <1>7, <1>13
  <2>2. \A d \in N : \E n, m \in Node :
           conn'[n][m] # None /\ Key(d) = Key(conn'[n][m]) /\ d.n < conn'[n][m].tx /\ Key(d) = k0
    BY <1>6, <1>12, <1>13
  <2>3. \A d, e \in N : Key(d) = Key(e) /\ d.n = e.n => d = e
    BY <1>12
  <2>4. QED
    BY <1>2, <1>8, <1>9, <1>13, <1>14, <2>1, <2>2, <2>3 DEF KeyMove
<1>16. PICK S : S = N
  OBVIOUS
<1>17. QED
  BY <1>10, <1>15, <1>16, KeyMoves

(* Entries go, or stay as they are but for what is read and who is known.   *)
LEMMA QuietKeys ==
    ASSUME KeyInv, TypeOK', UNCHANGED <<encrypted, nextEph>>,
           \A n, m \in Node :
               /\ starting'[n][m] \subseteq starting[n][m]
               /\ pending'[n][m] = None \/ pending'[n][m] = pending[n][m]
               /\ Counts(n, m)
    PROVE  KeyNext
<1>1. \A p \in KeyPlace : p[1] # "conn" => Stays(p)
  BY DEF Stays, KeyPlace
<1>2. KeysRest({})
  BY <1>1 DEF KeysRest
<1>3. QED
  BY <1>2, KeysStay

(* A connection after it has read something: its key and counter.           *)
LEMMA ReadCounts ==
    ASSUME NEW c \in Connection
    PROVE  /\ Key(Advanced(c)) = Key(c) /\ Advanced(c).tx = c.tx
           /\ Key(Authenticated(c)) = Key(c) /\ Authenticated(c).tx = c.tx
           /\ Key(Identified(c)) = Key(c) /\ Identified(c).tx = c.tx
           /\ Key(Sending(c, 1)) = Key(c) /\ Sending(c, 1).tx = c.tx + 1
           /\ c.tx \in Nat /\ c # None
BY DEF Connection, Key, Advanced, Authenticated, Identified, Sending, None

(* One connection, or none, is written; it keeps its key.                   *)
LEMMA OneCounts ==
    ASSUME TypeOK, NEW r \in Node, NEW s \in Node, NEW c,
           conn' = [conn EXCEPT ![r][s] = c],
           c # None => conn[r][s] # None /\ Key(c) = Key(conn[r][s]) /\ c.tx >= conn[r][s].tx
    PROVE  \A n, m \in Node : Counts(n, m)
<1> SUFFICES ASSUME NEW n \in Node, NEW m \in Node PROVE Counts(n, m)
  OBVIOUS
<1>1. CASE n = r /\ m = s
  <2>1. conn'[n][m] = c
    BY <1>1 DEF TypeOK
  <2>2. QED
    BY <1>1, <2>1 DEF Counts
<1>2. CASE ~(n = r /\ m = s)
  <2>1. conn'[n][m] = conn[n][m]
    BY <1>2 DEF TypeOK
  <2>2. QED
    BY <2>1, SameCounts
<1>3. QED
  BY <1>1, <1>2

LEMMA AppKeys ==
    ASSUME KeyInv, TypeOK', NEW n \in Node, NEW m \in Node, AppSend(n, m)
    PROVE  KeyNext
<1> DEFINE c == conn[n][m]
           N == Range(Encrypt(c, <<"App">>))
<1>0. TypeOK
  BY DEF KeyInv
<1>1. /\ c \in Connection /\ conn' = [conn EXCEPT ![n][m] = Sending(c, 1)]
      /\ encrypted' = encrypted \union N
      /\ UNCHANGED <<starting, pending, nextEph>>
  BY <1>0 DEF AppSend, TypeOK
<1>2. conn'[n][m] = Sending(c, 1)
  BY <1>0, <1>1 DEF TypeOK
<1>3. <<"App">> \in Seq(DataFrames) /\ Len(<<"App">>) = 1
  BY DEF DataFrames
<1> HIDE DEF c
<1>4. /\ Sending(c, 1) \in Connection
      /\ Key(Sending(c, 1)) = Key(c) /\ Sending(c, 1).tx = c.tx + 1
      /\ c.tx \in Nat /\ c # None /\ Sending(c, 1) # None
  BY <1>1, ReadCounts, ConnectionUpdates
<1>5. \A x, y \in Node : Counts(x, y)
  <2>1. conn[n][m] # None /\ Key(Sending(c, 1)) = Key(conn[n][m]) /\ Sending(c, 1).tx >= conn[n][m].tx
    BY <1>4 DEF c
  <2>2. QED
    BY <1>0, <1>1, <2>1, OneCounts
<1>6. ASSUME NEW d \in N
      PROVE  /\ conn'[n][m] # None /\ Key(d) = Key(conn'[n][m])
             /\ d.n < conn'[n][m].tx /\ d.n >= conn[n][m].tx
             /\ \A e \in N : e.n = d.n => e = d
  <2>1. /\ Key(d) = Key(c) /\ d.n \in Nat /\ c.tx <= d.n /\ d.n < c.tx + Len(<<"App">>)
        /\ \A e \in N : e.n = d.n => e = d
    BY <1>3, <1>4, EncryptKeys
  <2>2. QED
    BY <1>2, <1>3, <1>4, <2>1 DEF c
<1>7. \A p \in KeyPlace : p[1] # "conn" => Stays(p)
  BY <1>1 DEF Stays
<1> HIDE DEF N
<1>8. KeysRest(N)
  <2>1. \A d \in N : \E x, y \in Node :
           /\ conn'[x][y] # None /\ Key(d) = Key(conn'[x][y])
           /\ d.n < conn'[x][y].tx /\ d.n >= conn[x][y].tx
    BY <1>6
  <2>2. \A d, e \in N : Key(d) = Key(e) /\ d.n = e.n => d = e
    BY <1>6
  <2>3. QED
    BY <1>1, <1>5, <1>7, <2>1, <2>2 DEF KeysRest
<1>9. QED
  BY <1>8, KeysStay

(* The new peer list goes out on several connections, each with a key of    *)
(* its own.                                                                 *)
LEMMA JoinKeys ==
    ASSUME KeyInv, TypeOK', NEW s \in Node, NEW r \in Node, NEW g \in net[s][r],
           RecvJoin(s, r, g)
    PROVE  KeyNext
<1> DEFINE known == {m \in Node : conn[r][m] # None /\ (m = s \/ joined[r][m])}
           list  == [m \in Node |-> IF m \in known
                                    THEN Encrypt(conn[r][m], <<"PeerList">>)
                                    ELSE <<>>]
           told  == [m \in Node |-> IF m \in known THEN Sending(conn[r][m], 1)
                                                   ELSE conn[r][m]]
           row   == [told EXCEPT ![s] = Identified(Advanced(told[s]))]
           N     == UNION {Range(list[m]) : m \in known}
<1>0. TypeOK
  BY DEF KeyInv
<1>1. /\ Decrypted(s, r, g)
      /\ conn' = [conn EXCEPT ![r] = row]
      /\ encrypted' = encrypted \union N
      /\ UNCHANGED <<starting, pending, nextEph>>
  BY DEF RecvJoin
<1>2. \A m \in known : conn[r][m] \in Connection /\ conn[r][m] # None
  BY <1>0 DEF TypeOK
<1>3. s \in known
  BY <1>1 DEF Decrypted
<1>4. \A m \in known : /\ told[m] \in Connection /\ told[m] # None
                        /\ Key(told[m]) = Key(conn[r][m])
                        /\ told[m].tx = conn[r][m].tx + 1 /\ conn[r][m].tx \in Nat
  BY <1>2, ReadCounts, ConnectionUpdates
<1>5. \A m \in known : /\ row[m] # None
                        /\ Key(row[m]) = Key(conn[r][m])
                        /\ row[m].tx = conn[r][m].tx + 1 /\ conn[r][m].tx \in Nat
  <2> SUFFICES ASSUME NEW m \in known
               PROVE  /\ row[m] # None
                      /\ Key(row[m]) = Key(conn[r][m])
                      /\ row[m].tx = conn[r][m].tx + 1 /\ conn[r][m].tx \in Nat
    OBVIOUS
  <2>1. CASE m # s
    BY <1>4, <2>1
  <2>2. CASE m = s
    <3>1. row[s] = Identified(Advanced(told[s]))
      BY <1>3
    <3>2. Advanced(told[s]) \in Connection
      BY <1>3, <1>4, ConnectionUpdates
    <3>3. /\ Identified(Advanced(told[s])) \in Connection
          /\ Key(Identified(Advanced(told[s]))) = Key(told[s])
          /\ Identified(Advanced(told[s])).tx = told[s].tx
      BY <1>3, <1>4, <3>2, ReadCounts, ConnectionUpdates
    <3>4. Identified(Advanced(told[s])) # None
      BY <3>3, ReadCounts
    <3>5. QED
      BY <1>3, <1>4, <2>2, <3>1, <3>3, <3>4
  <2>3. QED
    BY <2>1, <2>2
<1>6. \A m \in Node \ known : row[m] = conn[r][m]
  BY <1>3
<1>7. \A m \in Node : conn'[r][m] = row[m]
  BY <1>0, <1>1 DEF TypeOK
<1>8. \A m \in known : list[m] = Encrypt(conn[r][m], <<"PeerList">>)
  OBVIOUS
<1>9. known \subseteq Node
  OBVIOUS
<1> HIDE DEF known, list, told, row
<1>10. ASSUME NEW x \in Node, NEW y \in Node PROVE Counts(x, y)
  <2>1. CASE x # r
    <3>1. conn'[x][y] = conn[x][y]
      BY <1>0, <1>1, <2>1 DEF TypeOK
    <3>2. QED
      BY <1>0, <3>1, SameCounts
  <2>2. CASE x = r /\ y \in known
    BY <1>2, <1>5, <1>7, <2>2 DEF Counts
  <2>3. CASE x = r /\ y \notin known
    <3>1. conn'[x][y] = conn[x][y]
      BY <1>6, <1>7, <2>3
    <3>2. QED
      BY <1>0, <3>1, SameCounts
  <2>4. QED
    BY <2>1, <2>2, <2>3
<1>11. ASSUME NEW m \in known, NEW d \in Range(list[m])
       PROVE  /\ conn'[r][m] # None /\ Key(d) = Key(conn'[r][m])
              /\ d.n < conn'[r][m].tx /\ d.n >= conn[r][m].tx
              /\ \A e \in Range(list[m]) : e.n = d.n => e = d
  <2>1. <<"PeerList">> \in Seq(DataFrames) /\ Len(<<"PeerList">>) = 1
    BY DEF DataFrames
  <2>2. PICK c : c = conn[r][m]
    OBVIOUS
  <2>3. c.tx \in Nat /\ list[m] = Encrypt(c, <<"PeerList">>)
    BY <1>5, <1>8, <2>2
  <2>4. /\ Key(d) = Key(c) /\ d.n \in Nat /\ c.tx <= d.n /\ d.n < c.tx + Len(<<"PeerList">>)
        /\ \A e \in Range(list[m]) : e.n = d.n => e = d
    BY <2>1, <2>3, EncryptKeys
  <2>5. /\ conn'[r][m] # None /\ Key(conn'[r][m]) = Key(c) /\ conn'[r][m].tx = c.tx + 1
    BY <1>5, <1>7, <1>9, <2>2
  <2>6. QED
    BY <2>1, <2>2, <2>3, <2>4, <2>5
<1>12. ASSUME NEW m \in known, NEW o \in known, Key(conn[r][m]) = Key(conn[r][o])
       PROVE  m = o
  <2>1. PICK k : k = Key(conn[r][m])
    OBVIOUS
  <2>2. /\ <<"conn", r, m>> \in KeyPlace /\ At(<<"conn", r, m>>, k)
        /\ <<"conn", r, o>> \in KeyPlace /\ At(<<"conn", r, o>>, k)
    BY <1>2, <1>9, <1>12, <2>1 DEF KeyPlace, At
  <2>3. <<"conn", r, m>> = <<"conn", r, o>>
    BY <2>2 DEF KeyInv, OnePlace
  <2>4. QED
    BY <2>3
<1>13. \A p \in KeyPlace : p[1] # "conn" => Stays(p)
  BY <1>1 DEF Stays
<1>14. \A d \in N : \E x, y \in Node :
           /\ conn'[x][y] # None /\ Key(d) = Key(conn'[x][y])
           /\ d.n < conn'[x][y].tx /\ d.n >= conn[x][y].tx
  BY <1>9, <1>11
<1>15. ASSUME NEW d \in N, NEW e \in N, Key(d) = Key(e), d.n = e.n PROVE d = e
  <2>1. PICK m \in known : d \in Range(list[m])
    OBVIOUS
  <2>2. PICK o \in known : e \in Range(list[o])
    OBVIOUS
  <2>3. Key(d) = Key(conn[r][m]) /\ Key(e) = Key(conn[r][o])
    BY <1>5, <1>7, <1>9, <1>11, <2>1, <2>2
  <2>4. m = o
    BY <1>12, <1>15, <2>3
  <2>5. QED
    BY <1>11, <1>15, <2>1, <2>2, <2>4
<1> HIDE DEF N
<1>16. KeysRest(N)
  BY <1>1, <1>10, <1>13, <1>14, <1>15 DEF KeysRest
<1>17. QED
  BY <1>16, KeysStay

LEMMA ReceiveKeys ==
    ASSUME KeyInv, TypeOK', NEW s \in Node, NEW r \in Node, NEW g \in net[s][r],
           Receive(s, r, g)
    PROVE  KeyNext
<1>0. TypeOK
  BY DEF KeyInv
<1>1. CASE RecvSecond(s, r, g)
  <2> DEFINE p == pending[r][s]
             c == NewConnection(r, p.ei, g.msg.er, "I")
  <2>1. /\ p.st = "await2" /\ pending' = [pending EXCEPT ![r][s] = None]
        /\ \E first : InstallConnection(s, r, g, c, first)
        /\ UNCHANGED <<starting, nextEph>>
    BY <1>1 DEF RecvSecond
  <2>2. p.ei \in Eph \union {Junk} /\ g.msg.er \in Eph \union {Junk} /\ "I" \in Role
    BY <1>0, <2>1 DEF TypeOK, Pending, None, Await2, Await3, Datagram, Message, Role
  <2>3. Key(c) = <<"I", p.ei>>
    BY DEF Key, NewConnection
  <2>4. At(<<"pend", r, s>>, Key(c))
    BY <2>1, <2>3 DEF At, Draws
  <2>5. QED
    BY <2>1, <2>2, <2>4, InstallKeys
<1>2. CASE RecvThird(s, r, g)
  <2> DEFINE p == pending[r][s]
             c == NewConnection(r, p.ei, p.er, "R")
  <2>1. /\ p.st = "await3" /\ pending' = [pending EXCEPT ![r][s] = None]
        /\ \E first : InstallConnection(s, r, g, c, first)
        /\ UNCHANGED <<starting, nextEph>>
    BY <1>2 DEF RecvThird
  <2>2. p.ei \in Eph \union {Junk} /\ p.er \in Eph \union {Junk} /\ "R" \in Role
    BY <1>0, <2>1 DEF TypeOK, Pending, None, Await2, Await3, Role
  <2>3. Key(c) = <<"R", p.er>>
    BY DEF Key, NewConnection
  <2>4. At(<<"pend", r, s>>, Key(c))
    BY <2>1, <2>3 DEF At, Draws
  <2>5. QED
    BY <2>1, <2>2, <2>4, InstallKeys
<1>3. CASE RecvSpoilsPending(s, r, g)
  <2>1. /\ pending' = [pending EXCEPT ![r][s] = None]
        /\ UNCHANGED <<starting, conn, nextEph, encrypted>>
    BY <1>3 DEF RecvSpoilsPending, histVars
  <2>2. \A n, m \in Node : pending'[n][m] = None \/ pending'[n][m] = pending[n][m]
    BY <1>0, <2>1 DEF TypeOK
  <2>3. \A n, m \in Node : Counts(n, m)
    BY <1>0, <2>1, SameCounts
  <2>4. QED
    BY <2>1, <2>2, <2>3, QuietKeys
<1>4. CASE StartResponder(s, r, g)
  BY <1>4, ResponderKeys
<1>5. CASE RecvUndecryptable(s, r, g)
  <2>1. UNCHANGED <<starting, pending, conn, nextEph, encrypted>>
    BY <1>5 DEF RecvUndecryptable, nodeVars, histVars
  <2>2. \A n, m \in Node : Counts(n, m)
    BY <1>0, <2>1, SameCounts
  <2>3. QED
    BY <2>1, <2>2, QuietKeys
<1>6. ASSUME NEW c, conn' = [conn EXCEPT ![r][s] = c],
             c # None => conn[r][s] # None /\ Key(c) = Key(conn[r][s]) /\ c.tx >= conn[r][s].tx,
             UNCHANGED <<starting, pending, nextEph, encrypted>>
      PROVE  KeyNext
  <2>1. \A n, m \in Node : Counts(n, m)
    BY <1>0, <1>6, OneCounts
  <2>2. QED
    BY <1>6, <2>1, QuietKeys
<1>7. CASE RecvAuthRejected(s, r, g)
  BY <1>6, <1>7 DEF RecvAuthRejected
<1>8. CASE RecvAuth(s, r, g) \/ RecvOther(s, r, g)
  <2>1. conn[r][s] \in Connection /\ Advanced(conn[r][s]) \in Connection
    BY <1>0, <1>8, DecryptedFacts DEF RecvAuth, RecvOther
  <2>2. \A c : c = Advanced(conn[r][s]) \/ c = Authenticated(Advanced(conn[r][s])) =>
            conn[r][s] # None /\ Key(c) = Key(conn[r][s]) /\ c.tx >= conn[r][s].tx
    BY <2>1, ReadCounts
  <2>3. CASE RecvAuth(s, r, g)
    BY <1>6, <2>2, <2>3 DEF RecvAuth
  <2>4. CASE RecvOther(s, r, g)
    BY <1>6, <2>2, <2>4 DEF RecvOther
  <2>5. QED
    BY <1>8, <2>3, <2>4
<1>9. CASE RecvJoin(s, r, g)
  BY <1>9, JoinKeys
<1>10. QED
  BY <1>1, <1>2, <1>3, <1>4, <1>5, <1>7, <1>8, <1>9 DEF Receive

LEMMA LocalKeys ==
    ASSUME KeyInv, TypeOK', NEW n \in Node, NEW m \in Node,
           Disconnect(n, m) \/ Restart(n)
    PROVE  KeyNext
<1>0. TypeOK
  BY DEF KeyInv
<1>1. CASE Disconnect(n, m)
  <2>1. /\ conn' = [conn EXCEPT ![n][m] = None]
        /\ UNCHANGED <<starting, pending, nextEph, encrypted>>
    BY <1>1 DEF Disconnect, histVars
  <2>2. \A x, y \in Node : Counts(x, y)
    BY <1>0, <2>1, OneCounts
  <2>3. QED
    BY <2>1, <2>2, QuietKeys
<1>2. CASE Restart(n)
  <2>1. UNCHANGED <<nextEph, encrypted>>
    BY <1>2 DEF Restart, histVars
  <2>2. \A x, y \in Node : /\ starting'[x][y] \subseteq starting[x][y]
                           /\ pending'[x][y] = None \/ pending'[x][y] = pending[x][y]
                           /\ conn'[x][y] = None \/ conn'[x][y] = conn[x][y]
    BY <1>0, <1>2 DEF Restart, TypeOK
  <2>3. \A x, y \in Node : Counts(x, y)
    <3> SUFFICES ASSUME NEW x \in Node, NEW y \in Node PROVE Counts(x, y)
      OBVIOUS
    <3>1. CASE conn'[x][y] = None
      BY <3>1 DEF Counts
    <3>2. CASE conn'[x][y] = conn[x][y]
      BY <1>0, <3>2, SameCounts
    <3>3. QED
      BY <2>2, <3>1, <3>2
  <2>4. \A x, y \in Node : /\ starting'[x][y] \subseteq starting[x][y]
                           /\ pending'[x][y] = None \/ pending'[x][y] = pending[x][y]
                           /\ Counts(x, y)
    BY <2>2, <2>3
  <2>5. QED
    BY <2>1, <2>4, QuietKeys
<1>3. QED
  BY <1>1, <1>2

LEMMA KeysInit == Init => KeyInv
<1> SUFFICES ASSUME Init PROVE KeyInv
  OBVIOUS
<1>1. TypeOK
  <2>1. None \in Pending
    BY DEF None, Pending
  <2>2. QED
    BY <2>1, ConfigAssumption DEF Init, TypeOK
<1>2. encrypted = {}
  BY DEF Init
<1>3. \A k : \A p \in KeyPlace : ~At(p, k)
  <2>1. \A n, m \in Node : starting[n][m] = {} /\ pending[n][m].st = "none" /\ conn[n][m] = None
    BY DEF Init, None
  <2>2. QED
    BY <2>1 DEF At, Draws, KeyPlace
<1>4. QED
  BY <1>1, <1>2, <1>3 DEF KeyInv, OnePlace, Drawn, Unspent, Ahead, KeyNonceOnce

LEMMA StartsStep == KeyInv /\ StartsApart /\ [Next]_vars => StartsApart'
<1> SUFFICES ASSUME KeyInv, StartsApart, [Next]_vars PROVE StartsApart'
  OBVIOUS
<1>0. TypeOK
  BY DEF KeyInv
<1>1. ASSUME \A n, m \in Node : starting'[n][m] \subseteq starting[n][m] PROVE StartsApart'
  BY <1>1 DEF StartsApart
<1>2. ASSUME NEW x \in Node, NEW y \in Node, NEW h, NEW k0, k0[2] = nextEph,
             \A k : Draws(h, k) => k = k0,
             starting' = [starting EXCEPT ![x][y] = starting[x][y] \union {h}]
      PROVE  StartsApart'
  <2>1. ASSUME NEW a \in starting[x][y] PROVE ~Draws(a, k0)
    <3>1. PICK p \in KeyPlace : p = <<"start", x, y>>
      BY DEF KeyPlace
    <3>2. Draws(a, k0) => At(p, k0)
      BY <3>1 DEF At
    <3>3. k0[2] \notin 0..(nextEph - 1) 
      BY <1>0, <1>2 DEF TypeOK
    <3>4. QED
      BY <3>2, <3>3 DEF KeyInv, Drawn
  <2>2. /\ starting'[x][y] = starting[x][y] \union {h}
        /\ \A n, m \in Node : ~(n = x /\ m = y) => starting'[n][m] = starting[n][m]
    BY <1>0, <1>2, OtherPlace
  <2>3. SUFFICES ASSUME NEW n \in Node, NEW m \in Node, NEW a \in starting'[n][m],
                        NEW b \in starting'[n][m], NEW k, Draws(a, k), Draws(b, k)
                 PROVE  a = b
    BY DEF StartsApart
  <2>4. CASE a \in starting[n][m] /\ b \in starting[n][m]
    BY <2>3, <2>4 DEF StartsApart
  <2>5. CASE n = x /\ m = y /\ (a = h \/ b = h)
    BY <1>2, <2>1, <2>2, <2>3, <2>5
  <2>6. QED
    BY <2>2, <2>4, <2>5
<1>3. CASE UNCHANGED vars
  BY <1>1, <1>3 DEF vars
<1>4. ASSUME NEW n \in Node, NEW m \in Node,
             Dial(n, m) \/ Discover(n, m) \/ Rekey(n, m)
      PROVE  StartsApart'
  <2>1. \A k : Draws(Await2(nextEph), k) => k = <<"I", nextEph>>
    BY DEF Draws, Await2
  <2>2. starting' = [starting EXCEPT ![n][m] = starting[n][m] \union {Await2(nextEph)}]
    BY <1>4 DEF Dial, Discover, Rekey, Initiate
  <2>3. QED
    BY <1>2, <2>1, <2>2
<1>5. ASSUME NEW s \in Node, NEW r \in Node, NEW g \in net[s][r], StartResponder(s, r, g)
      PROVE  StartsApart'
  <2>1. PICK ei : starting' = [starting EXCEPT ![r][s] =
                                   starting[r][s] \union {Await3(ei, nextEph)}]
    BY <1>5 DEF StartResponder
  <2>2. \A k : Draws(Await3(ei, nextEph), k) => k = <<"R", nextEph>>
    BY DEF Draws, Await3
  <2>3. PICK h : h = Await3(ei, nextEph)
    OBVIOUS
  <2>4. PICK k0 : k0 = <<"R", nextEph>> /\ k0[2] = nextEph
    <3>1. <<"R", nextEph>>[2] = nextEph
      OBVIOUS
    <3>2. QED
      BY <3>1
  <2>5. /\ starting' = [starting EXCEPT ![r][s] = starting[r][s] \union {h}]
        /\ \A k : Draws(h, k) => k = k0
    BY <2>1, <2>2, <2>3, <2>4
  <2>6. QED
    BY <1>2, <2>4, <2>5
<1>6. ASSUME NEW n \in Node, NEW m \in Node, InsertPending(n, m) \/ Restart(n)
      PROVE  StartsApart'
  <2>1. ASSUME NEW x \in Node, NEW y \in Node
        PROVE  starting'[x][y] \subseteq starting[x][y]
    <3>1. CASE InsertPending(n, m)
      <4>1. PICK S : /\ S \subseteq starting[n][m]
                     /\ starting' = [starting EXCEPT ![n][m] = S]
        BY <3>1 DEF InsertPending
      <4>2. QED
        BY <1>0, <4>1 DEF TypeOK
    <3>2. CASE Restart(n)
      <4>1. starting' = [starting EXCEPT ![n] = [z \in Node |-> {}]]
        BY <3>2 DEF Restart
      <4>2. QED
        BY <1>0, <4>1 DEF TypeOK
    <3>3. QED
      BY <1>6, <3>1, <3>2
  <2>2. QED
    BY <1>1, <2>1
<1>7. ASSUME NEW n \in Node, NEW m \in Node,
             \/ AppSend(n, m) \/ Disconnect(n, m)
             \/ \E g \in net[n][m] : Receive(n, m, g) /\ ~StartResponder(n, m, g)
      PROVE  StartsApart'
  <2>1. UNCHANGED starting
    BY <1>7 DEF AppSend, Disconnect, Receive, RecvSecond, RecvThird, RecvSpoilsPending,
                RecvUndecryptable, RecvAuthRejected, RecvAuth, RecvJoin, RecvOther, nodeVars
  <2>2. QED
    BY <1>1, <2>1
<1>8. QED
  BY <1>3, <1>4, <1>5, <1>6, <1>7 DEF Next

LEMMA KeysStep == TypeOK' /\ KeyInv /\ StartsApart /\ [Next]_vars => KeyNext
<1> SUFFICES ASSUME TypeOK', KeyInv, StartsApart, [Next]_vars PROVE KeyNext
  OBVIOUS
<1>1. CASE UNCHANGED vars
  <2>1. TypeOK /\ UNCHANGED <<starting, pending, conn, nextEph, encrypted>>
    BY <1>1 DEF vars, histVars, KeyInv
  <2>2. \A n, m \in Node : Counts(n, m)
    BY <2>1, SameCounts
  <2>3. QED
    BY <2>1, <2>2, QuietKeys
<1>2. ASSUME NEW n \in Node, NEW m \in Node,
             Dial(n, m) \/ Discover(n, m) \/ Rekey(n, m)
      PROVE  KeyNext
  BY <1>2, InitiateKeys DEF Dial, Discover, Rekey
<1>3. QED
  BY <1>1, <1>2, ReceiveKeys, InsertKeys, AppKeys, LocalKeys DEF Next

(* "Session keys are not reused across reconnects" (docs/SECURITY.md): no   *)
(* two frames are encrypted under one key and nonce, whatever is repeated,  *)
(* reordered or lost on the way and whoever restarts or disconnects.        *)
THEOREM NoncesUsedOnce == Spec => []NonceUsedOnce
<1>1. KeyInv => NonceUsedOnce
  BY DEF KeyInv, KeyNonceOnce, NonceUsedOnce, Key
<1>2. TypeOK' /\ KeyInv /\ StartsApart /\ [Next]_vars => KeyInv' /\ StartsApart'
  BY KeysStep, StartsStep DEF KeyNext
<1>3. Init => StartsApart
  BY DEF Init, StartsApart
<1>4. QED
  BY <1>1, <1>2, <1>3, KeysInit, TypeCorrect, PTL DEF Spec

-----------------------------------------------------------------------------
(* ImplementsStream.  A direction of a session is written at one end and    *)
(* read at the other, each by one connection in all: what is in a history   *)
(* of it has the numbers 0, 1, 2, ... up to that connection's counter.      *)

Dir(d)  == <<d.ei, d.er, d.role>>
Into(c) == <<c.ei, c.er, Other(c.role)>>

(* The key of the end that reads the direction k.                           *)
Reader(k) == <<Other(k[3]), IF k[3] = "I" THEN k[2] ELSE k[1]>>

On(k, S) == {d \in S : <<d.ei, d.er, d.role>> = k}

(* What S has of k are the numbers from a to below b, each once.            *)
Consecutive(k, S, a, b) ==
    /\ \A d \in On(k, S) : d.n \in a..(b - 1)
    /\ \A i \in a..(b - 1) : \E d \in On(k, S) : d.n = i
    /\ \A d, e \in On(k, S) : d.n = e.n => d = e

AllNumbered(S) == \A k \in Direction : \E a \in Nat : Consecutive(k, S, 0, a)

Counted(n, m) ==
    conn[n][m] # None =>
        /\ Consecutive(Dir(conn[n][m]), encrypted, 0, conn[n][m].tx)
        /\ Consecutive(Into(conn[n][m]), decrypted, 0, conn[n][m].rx)

(* Nothing is read under a key before it has come to a connection.          *)
Unread ==
    \A x \in decrypted :
        /\ Reader(Dir(x))[2] \in 0..(nextEph - 1)
        /\ \A p \in KeyPlace : At(p, Reader(Dir(x))) => p[1] = "conn"

DataSent ==
    \A n, m \in Node : \A g \in net[n][m] :
        g.msg.frame \in DataFrames => g.msg \in encrypted

SentAs(x) == \E d \in encrypted : Dir(d) = Dir(x) /\ d.n = x.n /\ d.frame = x.frame

StreamInv ==
    /\ AllNumbered(encrypted) /\ AllNumbered(decrypted)
    /\ \A n, m \in Node : Counted(n, m)
    /\ Unread /\ DataSent
    /\ \A x \in decrypted : SentAs(x)

(* Numbers.                                                                 *)

LEMMA NumberedOnce ==
    ASSUME NEW k, NEW S, NEW a \in Nat, NEW b \in Nat,
           Consecutive(k, S, 0, a), Consecutive(k, S, 0, b)
    PROVE  a = b
<1>1. ASSUME NEW x \in Nat, NEW y \in Nat, x < y,
             Consecutive(k, S, 0, x), Consecutive(k, S, 0, y)
      PROVE  FALSE
  <2>1. x \in 0..(y - 1)
    BY <1>1
  <2>2. PICK d \in On(k, S) : d.n = x
    BY <1>1, <2>1 DEF Consecutive
  <2>3. d.n \in 0..(x - 1)
    BY <1>1 DEF Consecutive
  <2>4. QED
    BY <1>1, <2>2, <2>3
<1>2. QED
  BY <1>1

LEMMA NumberedJoin ==
    ASSUME NEW k, NEW S, NEW T, NEW a \in Nat, NEW b \in Nat, a <= b,
           Consecutive(k, S, 0, a), Consecutive(k, T, a, b)
    PROVE  Consecutive(k, S \union T, 0, b)
<1>1. On(k, S \union T) = On(k, S) \union On(k, T)
  BY DEF On
<1>2. \A d \in On(k, S) : d.n \in 0..(a - 1)
  BY DEF Consecutive
<1>3. \A d \in On(k, T) : d.n \in a..(b - 1)
  BY DEF Consecutive
<1>4. \A d \in On(k, S \union T) : d.n \in 0..(b - 1)
  BY <1>1, <1>2, <1>3
<1>5. ASSUME NEW i \in 0..(b - 1) PROVE \E d \in On(k, S \union T) : d.n = i
  <2>1. i \in 0..(a - 1) \/ i \in a..(b - 1)
    OBVIOUS
  <2>2. QED
    BY <1>1, <2>1 DEF Consecutive
<1>6. ASSUME NEW d \in On(k, S \union T), NEW e \in On(k, S \union T), d.n = e.n
      PROVE  d = e
  <2>1. \A x \in On(k, S), y \in On(k, T) : x.n # y.n
    <3> SUFFICES ASSUME NEW x \in On(k, S), NEW y \in On(k, T), x.n = y.n PROVE FALSE
      OBVIOUS
    <3>1. x.n \in 0..(a - 1) /\ x.n \in a..(b - 1)
      BY <1>2, <1>3
    <3>2. QED
      BY <3>1
  <2>2. \/ d \in On(k, S) /\ e \in On(k, S)
        \/ d \in On(k, T) /\ e \in On(k, T)
    BY <1>1, <1>6, <2>1
  <2>3. QED
    BY <1>6, <2>2 DEF Consecutive
<1>7. QED
  BY <1>4, <1>5, <1>6 DEF Consecutive

LEMMA NumberedSame ==
    ASSUME NEW k, NEW S, NEW T, NEW a, NEW b, On(k, T) = On(k, S),
           Consecutive(k, S, a, b)
    PROVE  Consecutive(k, T, a, b)
BY DEF Consecutive

LEMMA NumberedNone ==
    ASSUME NEW k, NEW T, NEW a \in Nat, On(k, T) = {}
    PROVE  Consecutive(k, T, a, a)
BY DEF Consecutive

(* What a connection encrypts is numbered on from its counter.              *)
LEMMA EncryptNumbered ==
    ASSUME NEW c, c.tx \in Nat, NEW fs \in Seq(DataFrames)
    PROVE  /\ \A d \in Range(Encrypt(c, fs)) : Dir(d) = Dir(c)
           /\ Consecutive(Dir(c), Range(Encrypt(c, fs)), c.tx, c.tx + Len(fs))
<1>0. Len(fs) \in Nat
  OBVIOUS
<1> DEFINE msg(i) == [frame |-> fs[i], ei |-> c.ei, er |-> c.er, role |-> c.role,
                      n |-> c.tx + i - 1]
           R == Range(Encrypt(c, fs))
<1>1. R = {msg(i) : i \in 1..Len(fs)}
  <2>1. /\ DOMAIN Encrypt(c, fs) = 1..Len(fs)
        /\ \A i \in 1..Len(fs) : Encrypt(c, fs)[i] = msg(i)
    BY <1>0 DEF Encrypt
  <2>2. QED
    BY <2>1 DEF Range
<1>2. \A i \in 1..Len(fs) : Dir(msg(i)) = Dir(c) /\ msg(i).n = c.tx + i - 1
  BY DEF Dir
<1> HIDE DEF msg, R
<1>3. \A d \in R : Dir(d) = Dir(c)
  BY <1>1, <1>2
<1>4. On(Dir(c), R) = R
  BY <1>3 DEF On, Dir
<1>5. \A d \in R : d.n \in c.tx..(c.tx + Len(fs) - 1)
  BY <1>0, <1>1, <1>2
<1>6. ASSUME NEW j \in c.tx..(c.tx + Len(fs) - 1) PROVE \E d \in R : d.n = j
  <2>1. j - c.tx + 1 \in 1..Len(fs) /\ c.tx + (j - c.tx + 1) - 1 = j
    BY <1>0
  <2>2. msg(j - c.tx + 1) \in R /\ msg(j - c.tx + 1).n = j
    BY <1>1, <1>2, <2>1
  <2>3. QED
    BY <2>2
<1>7. ASSUME NEW d \in R, NEW e \in R, d.n = e.n PROVE d = e
  <2>1. PICK i \in 1..Len(fs) : d = msg(i)
    BY <1>1
  <2>2. PICK j \in 1..Len(fs) : e = msg(j)
    BY <1>1
  <2>3. c.tx + i - 1 = c.tx + j - 1
    BY <1>2, <1>7, <2>1, <2>2
  <2>4. i = j
    BY <1>0, <2>3
  <2>5. QED
    BY <2>1, <2>2, <2>4
<1>8. Consecutive(Dir(c), R, c.tx, c.tx + Len(fs))
  BY <1>4, <1>5, <1>6, <1>7 DEF Consecutive
<1>9. QED
  BY <1>3, <1>8 DEF R

-----------------------------------------------------------------------------
(* The streams read off a history.                                          *)

(* A set whose elements have the numbers from 0 to below a, each once.      *)
LEMMA NumberedSize ==
    ASSUME NEW T, NEW a \in Nat,
           \A d \in T : d.n \in 0..(a - 1),
           \A i \in 0..(a - 1) : \E d \in T : d.n = i,
           \A d, e \in T : d.n = e.n => d = e
    PROVE  Cardinality(T) = a
<1> DEFINE f == [i \in 1..a |-> CHOOSE d \in T : d.n = i - 1]
<1>1. ASSUME NEW i \in 1..a PROVE f[i] \in T /\ f[i].n = i - 1
  <2>1. i - 1 \in 0..(a - 1)
    OBVIOUS
  <2>2. \E d \in T : d.n = i - 1
    BY <2>1
  <2>3. QED
    BY <2>2
<1>2. f \in [1..a -> T]
  BY <1>1
<1> HIDE DEF f
<1>3. \A i, j \in 1..a : f[i] = f[j] => i = j
  <2> SUFFICES ASSUME NEW i \in 1..a, NEW j \in 1..a, f[i] = f[j] PROVE i = j
    OBVIOUS
  <2>1. i - 1 = j - 1
    BY <1>1
  <2>2. QED
    BY <2>1
<1>4. \A d \in T : \E i \in 1..a : f[i] = d
  <2> SUFFICES ASSUME NEW d \in T PROVE \E i \in 1..a : f[i] = d
    OBVIOUS
  <2>1. d.n \in 0..(a - 1)
    OBVIOUS
  <2>2. d.n + 1 \in 1..a /\ d.n + 1 - 1 = d.n
    BY <2>1
  <2>3. f[d.n + 1] \in T /\ f[d.n + 1].n = d.n
    BY <1>1, <2>2
  <2>4. QED
    BY <2>2, <2>3
<1>5. ExistsBijection(1..a, T)
  <2>1. f \in Injection(1..a, T)
    BY <1>2, <1>3 DEF Injection, IsInjective
  <2>2. f \in Surjection(1..a, T)
    BY <1>2, <1>4 DEF Surjection
  <2>3. QED
    BY <2>1, <2>2 DEF ExistsBijection, Bijection
<1>6. QED
  BY <1>5, FS_CountingElements

LEMMA FramesNumbered ==
    ASSUME NEW k, NEW S, NEW a \in Nat, Consecutive(k, S, 0, a)
    PROVE  /\ DOMAIN FramesOn(k, S) = 1..a
           /\ FramesOn(k, S) = [i \in 1..a |-> FramesOn(k, S)[i]]
           /\ \A d \in On(k, S) : FramesOn(k, S)[d.n + 1] = d.frame
<1> DEFINE T == On(k, S)
           below(d) == {e \in T : e.n < d.n}
<1>1. Cardinality(T) = a
  BY NumberedSize DEF Consecutive
<1>2. ASSUME NEW d \in T PROVE Cardinality(below(d)) = d.n /\ d.n \in 0..(a - 1)
  <2>1. d.n \in 0..(a - 1)
    BY DEF Consecutive
  <2>2. d.n \in Nat
    BY <2>1
  <2>3. \A e \in T : e.n \in 0..(a - 1)
    BY DEF Consecutive
  <2>4. \A e \in below(d) : e.n \in 0..(d.n - 1)
    BY <2>2, <2>3
  <2>5. ASSUME NEW i \in 0..(d.n - 1) PROVE \E e \in below(d) : e.n = i
    <3>1. i \in 0..(a - 1) /\ i < d.n
      BY <2>1
    <3>2. PICK e \in T : e.n = i
      BY <3>1 DEF Consecutive
    <3>3. QED
      BY <3>1, <3>2
  <2>6. \A e, g \in below(d) : e.n = g.n => e = g
    BY DEF Consecutive
  <2> HIDE DEF below
  <2>7. Cardinality(below(d)) = d.n
    BY <2>2, <2>4, <2>5, <2>6, NumberedSize
  <2>8. QED
    BY <2>1, <2>7
<1>3. FramesOn(k, S) = [i \in 1..Cardinality(T) |->
                          (CHOOSE d \in T : Cardinality(below(d)) = i - 1).frame]
  BY DEF FramesOn, On
<1>4. DOMAIN FramesOn(k, S) = 1..a /\ FramesOn(k, S) = [i \in 1..a |-> FramesOn(k, S)[i]]
  BY <1>1, <1>3
<1>5. ASSUME NEW d \in T PROVE FramesOn(k, S)[d.n + 1] = d.frame
  <2>0. d.n \in 0..(a - 1)
    BY <1>2
  <2>1. d.n + 1 \in 1..a /\ d.n + 1 - 1 = d.n
    BY <2>0
  <2>2. \A e \in T : Cardinality(below(e)) = d.n + 1 - 1 => e = d
    BY <1>2, <2>1 DEF Consecutive
  <2>3. Cardinality(below(d)) = d.n + 1 - 1
    BY <1>2, <2>1
  <2> DEFINE nth(i) == CHOOSE e \in T : Cardinality(below(e)) = i - 1
  <2>4. nth(d.n + 1) = d
    <3>1. PICK i \in Nat : i = d.n + 1
      BY <2>0
    <3> HIDE DEF below, T
    <3>2. /\ Cardinality(below(d)) = i - 1
          /\ \A e \in T : Cardinality(below(e)) = i - 1 => e = d
      BY <2>0, <2>2, <2>3, <3>1
    <3>3. nth(i) = d
      BY <3>2
    <3>4. QED
      BY <3>1, <3>3
  <2>5. FramesOn(k, S) = [i \in 1..a |-> nth(i).frame]
    BY <1>1, <1>3
  <2> HIDE DEF nth
  <2>6. QED
    BY <2>1, <2>4, <2>5
<1>6. QED
  BY <1>4, <1>5

(* A history that goes on is a stream that got longer.                      *)
LEMMA FramesGrow ==
    ASSUME NEW k, NEW S, NEW T, NEW a \in Nat, NEW b \in Nat,
           Consecutive(k, S, 0, a), Consecutive(k, T, 0, b), S \subseteq T
    PROVE  IsPrefix(FramesOn(k, S), FramesOn(k, T))
<1>1. ASSUME NEW i \in 1..a
      PROVE  i \in 1..b /\ FramesOn(k, S)[i] = FramesOn(k, T)[i]
  <2>1. i - 1 \in 0..(a - 1) /\ i - 1 + 1 = i
    OBVIOUS
  <2>2. PICK d \in On(k, S) : d.n = i - 1
    BY <2>1 DEF Consecutive
  <2>3. d \in On(k, T)
    BY DEF On
  <2>4. d.n \in 0..(b - 1)
    BY <2>3 DEF Consecutive
  <2>5. FramesOn(k, S)[d.n + 1] = d.frame /\ FramesOn(k, T)[d.n + 1] = d.frame
    BY <2>3, FramesNumbered
  <2>6. d.n + 1 = i /\ i \in 1..b
    BY <2>1, <2>2, <2>4
  <2>7. QED
    BY <2>5, <2>6
<1>2. a <= b
  <2>1. CASE a = 0
    BY <2>1
  <2>2. CASE a # 0
    <3>1. a \in 1..a
      BY <2>2
    <3>2. a \in 1..b
      BY <1>1, <3>1
    <3>3. QED
      BY <3>2
  <2>3. QED
    BY <2>1, <2>2
<1>3. PICK s : s = FramesOn(k, S)
  OBVIOUS
<1>4. PICK t : t = FramesOn(k, T)
  OBVIOUS
<1>5. s = [i \in 1..a |-> s[i]] /\ t = [i \in 1..b |-> t[i]]
  BY <1>3, <1>4, FramesNumbered
<1>6. Len(s) = a /\ Len(t) = b
  BY <1>5
<1>7. SubSeq(s, 1, a) = [i \in 1..a |-> s[i]] /\ SubSeq(t, 1, a) = [i \in 1..a |-> t[i]]
  BY <1>2, <1>5, <1>6
<1>8. \A i \in 1..a : s[i] = t[i]
  BY <1>1, <1>3, <1>4
<1>9. IsPrefix(s, t)
  BY <1>2, <1>6, <1>7, <1>8 DEF IsPrefix
<1>10. QED
  BY <1>3, <1>4, <1>9

(* One more element: the stream has its frame appended.                     *)
LEMMA FramesAppend ==
    ASSUME NEW k, NEW S, NEW x, NEW a \in Nat,
           Consecutive(k, S, 0, a), Dir(x) = k, x.n = a
    PROVE  /\ Consecutive(k, S \union {x}, 0, a + 1)
           /\ FramesOn(k, S \union {x}) = Append(FramesOn(k, S), x.frame)
           /\ Len(FramesOn(k, S)) = a
<1>1. On(k, {x}) = {x}
  BY DEF On, Dir
<1>2. Consecutive(k, {x}, a, a + 1)
  <2>0. PICK b : b = a + 1
    OBVIOUS
  <2>1. a..(b - 1) = {a}
    BY <2>0
  <2>2. \A d \in On(k, {x}) : d.n \in a..(b - 1)
    BY <1>1, <2>1
  <2>3. \A i \in a..(b - 1) : \E d \in On(k, {x}) : d.n = i
    BY <1>1, <2>1
  <2>4. \A d, e \in On(k, {x}) : d.n = e.n => d = e
    BY <1>1
  <2>5. Consecutive(k, {x}, a, b)
    BY <2>2, <2>3, <2>4 DEF Consecutive
  <2>6. QED
    BY <2>0, <2>5
<1>3. Consecutive(k, S \union {x}, 0, a + 1)
  BY <1>2, NumberedJoin
<1>4. PICK s : s = FramesOn(k, S)
  OBVIOUS
<1>5. PICK t : t = FramesOn(k, S \union {x})
  OBVIOUS
<1>6. s = [i \in 1..a |-> s[i]] /\ t = [i \in 1..(a + 1) |-> t[i]]
  <2>1. s = [i \in 1..a |-> s[i]]
    BY <1>4, FramesNumbered
  <2>2. PICK b \in Nat : b = a + 1
    OBVIOUS
  <2>3. PICK T : T = S \union {x}
    OBVIOUS
  <2>4. Consecutive(k, T, 0, b)
    BY <1>3, <2>2, <2>3
  <2>5. FramesOn(k, T) = [i \in 1..b |-> FramesOn(k, T)[i]]
    BY <2>4, FramesNumbered
  <2>6. t = [i \in 1..b |-> t[i]]
    BY <1>5, <2>3, <2>5
  <2>7. QED
    BY <2>1, <2>2, <2>6
<1>7. t[a + 1] = x.frame
  <2>1. x \in On(k, S \union {x})
    BY DEF On, Dir
  <2>2. QED
    BY <1>3, <1>5, <2>1, FramesNumbered
<1>8. ASSUME NEW i \in 1..a PROVE t[i] = s[i]
  <2>1. i - 1 \in 0..(a - 1) /\ i - 1 + 1 = i
    OBVIOUS
  <2>2. PICK d \in On(k, S) : d.n = i - 1
    BY <2>1 DEF Consecutive
  <2>3. d \in On(k, S \union {x})
    BY DEF On
  <2>4. s[d.n + 1] = d.frame /\ t[d.n + 1] = d.frame
    BY <1>3, <1>4, <1>5, <2>3, FramesNumbered
  <2>5. d.n + 1 = i
    BY <2>1, <2>2
  <2>6. QED
    BY <2>4, <2>5
<1>9. Len(s) = a
  BY <1>6
<1>10. t = Append(s, x.frame)
  <2>1. Append(s, x.frame) = [i \in 1..(a + 1) |-> IF i = a + 1 THEN x.frame ELSE s[i]]
    BY <1>6, <1>9
  <2>2. \A i \in 1..(a + 1) : t[i] = IF i = a + 1 THEN x.frame ELSE s[i]
    BY <1>7, <1>8
  <2>3. QED
    BY <1>6, <2>1, <2>2
<1>11. QED
  BY <1>3, <1>4, <1>5, <1>9, <1>10

-----------------------------------------------------------------------------
(* What a step encrypts and decrypts.                                       *)

(* The messages N are encrypted, each by a connection that then counts them.*)
Sends(N) ==
    /\ encrypted' = encrypted \union N
    /\ \A n, m \in Node : conn'[n][m] # None =>
           \E a \in Nat :
               /\ a <= conn'[n][m].tx
               /\ Consecutive(Dir(conn'[n][m]), encrypted, 0, a)
               /\ Consecutive(Dir(conn'[n][m]), N, a, conn'[n][m].tx)
    /\ \A d \in N : \E n, m \in Node :
           conn'[n][m] # None /\ Dir(d) = Dir(conn'[n][m])

(* r's connection to s reads x.                                             *)
ReadsOne(r, s, x) ==
    /\ decrypted' = decrypted \union {x}
    /\ conn[r][s] # None
    /\ Dir(x) = Into(conn[r][s]) /\ x.n = conn[r][s].rx /\ SentAs(x)
    /\ \A n, m \in Node : conn'[n][m] # None =>
           /\ conn[n][m] # None /\ Into(conn'[n][m]) = Into(conn[n][m])
           /\ conn'[n][m].rx = IF n = r /\ m = s THEN conn[n][m].rx + 1 ELSE conn[n][m].rx

ReadsNone ==
    /\ decrypted' = decrypted
    /\ \A n, m \in Node : conn'[n][m] # None =>
           Consecutive(Into(conn'[n][m]), decrypted, 0, conn'[n][m].rx)

Exchanged ==
    /\ \E N : Sends(N)
    /\ ReadsNone \/ \E r, s \in Node : \E x : ReadsOne(r, s, x)
    /\ DataSent'

LEMMA CounterTypes ==
    ASSUME TypeOK, NEW n \in Node, NEW m \in Node, conn[n][m] # None
    PROVE  /\ conn[n][m] \in Connection
           /\ conn[n][m].tx \in Nat /\ conn[n][m].rx \in Nat
           /\ conn[n][m].role \in Role
           /\ Dir(conn[n][m]) \in (Eph \union {Junk}) \X (Eph \union {Junk}) \X Role
           /\ Into(conn[n][m]) \in (Eph \union {Junk}) \X (Eph \union {Junk}) \X Role
           /\ Reader(Into(conn[n][m])) = Key(conn[n][m])
           /\ At(<<"conn", n, m>>, Key(conn[n][m])) /\ <<"conn", n, m>> \in KeyPlace
<1>1. conn[n][m] \in Connection
  BY DEF TypeOK
<1>2. PICK c \in Connection : c = conn[n][m]
  BY <1>1
<1>3. c.tx \in Nat /\ c.rx \in Nat /\ c.role \in Role
      /\ c.ei \in Eph \union {Junk} /\ c.er \in Eph \union {Junk}
  BY DEF Connection
<1>4. Other(c.role) \in Role /\ Other(Other(c.role)) = c.role
  BY <1>3 DEF Other, Role
<1>5. Reader(Into(c)) = Key(c)
  BY <1>3 DEF Reader, Into, Key, Other, Role
<1>6. At(<<"conn", n, m>>, Key(conn[n][m])) /\ <<"conn", n, m>> \in KeyPlace
  BY DEF At, KeyPlace
<1>7. QED
  BY <1>1, <1>2, <1>3, <1>4, <1>5, <1>6 DEF Dir, Into

(* Two connections write and read different directions.                     *)
LEMMA DirsApart ==
    ASSUME KeyInv, NEW n \in Node, NEW m \in Node, NEW x \in Node, NEW y \in Node,
           conn[n][m] # None, conn[x][y] # None,
           \/ Dir(conn[n][m]) = Dir(conn[x][y])
           \/ Into(conn[n][m]) = Into(conn[x][y])
    PROVE  n = x /\ m = y
<1>0. TypeOK
  BY DEF KeyInv
<1>1. Key(conn[n][m]) = Key(conn[x][y])
  <2>1. CASE Dir(conn[n][m]) = Dir(conn[x][y])
    BY <2>1 DEF Dir, Key
  <2>2. CASE Into(conn[n][m]) = Into(conn[x][y])
    <3>1. Reader(Into(conn[n][m])) = Key(conn[n][m])
      BY <1>0, CounterTypes
    <3>2. Reader(Into(conn[x][y])) = Key(conn[x][y])
      BY <1>0, CounterTypes
    <3>3. QED
      BY <2>2, <3>1, <3>2
  <2>3. QED
    BY <2>1, <2>2
<1>2. PICK k : k = Key(conn[n][m])
  OBVIOUS
<1>3. /\ At(<<"conn", n, m>>, k) /\ <<"conn", n, m>> \in KeyPlace
      /\ At(<<"conn", x, y>>, k) /\ <<"conn", x, y>> \in KeyPlace
  BY <1>0, <1>1, <1>2, CounterTypes
<1>4. <<"conn", n, m>> = <<"conn", x, y>>
  BY <1>3 DEF KeyInv, OnePlace
<1>5. QED
  BY <1>4

-----------------------------------------------------------------------------
(* A step that exchanges keeps the numbers, and moves the streams on.       *)

Grows ==
    \A k \in Direction : IsPrefix(FramesOn(k, encrypted), FramesOn(k, encrypted'))

Gets ==
    \/ \A k \in Direction : FramesOn(k, decrypted') = FramesOn(k, decrypted)
    \/ \E k \in Direction :
         /\ Len(FramesOn(k, decrypted)) < Len(FramesOn(k, encrypted))
         /\ FramesOn(k, decrypted') =
              Append(FramesOn(k, decrypted),
                     FramesOn(k, encrypted)[Len(FramesOn(k, decrypted)) + 1])
         /\ \A o \in Direction \ {k} : FramesOn(o, decrypted') = FramesOn(o, decrypted)

LEMMA SentStep ==
    ASSUME StreamInv, TypeOK', NEW N, Sends(N)
    PROVE  /\ AllNumbered(encrypted')
           /\ \A n, m \in Node : conn'[n][m] # None =>
                  Consecutive(Dir(conn'[n][m]), encrypted', 0, conn'[n][m].tx)
           /\ encrypted \subseteq encrypted'
           /\ Grows
<1>0. encrypted' = encrypted \union N
  BY DEF Sends
<1>1. ASSUME NEW n \in Node, NEW m \in Node, conn'[n][m] # None
      PROVE  /\ conn'[n][m].tx \in Nat
             /\ Consecutive(Dir(conn'[n][m]), encrypted', 0, conn'[n][m].tx)
  <2>1. conn'[n][m].tx \in Nat
    BY <1>1 DEF TypeOK, Connection
  <2>2. PICK a \in Nat :
           /\ a <= conn'[n][m].tx
           /\ Consecutive(Dir(conn'[n][m]), encrypted, 0, a)
           /\ Consecutive(Dir(conn'[n][m]), N, a, conn'[n][m].tx)
    BY <1>1 DEF Sends
  <2>3. QED
    BY <1>0, <2>1, <2>2, NumberedJoin
<1>2. ASSUME NEW k \in Direction PROVE \E a \in Nat : Consecutive(k, encrypted', 0, a)
  <2>1. CASE On(k, N) = {}
    <3>1. On(k, encrypted') = On(k, encrypted)
      BY <1>0, <2>1 DEF On
    <3>2. PICK a \in Nat : Consecutive(k, encrypted, 0, a)
      BY DEF StreamInv, AllNumbered
    <3>3. QED
      BY <3>1, <3>2, NumberedSame
  <2>2. CASE On(k, N) # {}
    <3>1. PICK d \in N : Dir(d) = k
      BY <2>2 DEF On, Dir
    <3>2. PICK n \in Node, m \in Node : conn'[n][m] # None /\ Dir(d) = Dir(conn'[n][m])
      BY DEF Sends
    <3>3. QED
      BY <1>1, <3>1, <3>2
  <2>3. QED
    BY <2>1, <2>2
<1>3. AllNumbered(encrypted')
  BY <1>2 DEF AllNumbered
<1>4. ASSUME NEW k \in Direction
      PROVE  IsPrefix(FramesOn(k, encrypted), FramesOn(k, encrypted'))
  <2>1. PICK a \in Nat : Consecutive(k, encrypted, 0, a)
    BY DEF StreamInv, AllNumbered
  <2>2. PICK b \in Nat : Consecutive(k, encrypted', 0, b)
    BY <1>2
  <2>3. QED
    BY <1>0, <2>1, <2>2, FramesGrow
<1>5. QED
  BY <1>0, <1>1, <1>3, <1>4 DEF Grows

(* Another direction has nothing added.                                     *)
LEMMA FramesSame ==
    ASSUME NEW k, NEW S, NEW T, On(k, T) = On(k, S)
    PROVE  FramesOn(k, T) = FramesOn(k, S)
<1> DEFINE frames(on) == [i \in 1..Cardinality(on) |->
               (CHOOSE d \in on : Cardinality({e \in on : e.n < d.n}) = i - 1).frame]
<1>1. FramesOn(k, T) = frames(On(k, T)) /\ FramesOn(k, S) = frames(On(k, S))
  BY DEF FramesOn, On
<1> HIDE DEF frames
<1>2. QED
  BY <1>1

LEMMA ReadStep ==
    ASSUME KeyInv, StreamInv, NEW r \in Node, NEW s \in Node, NEW x, ReadsOne(r, s, x)
    PROVE  /\ AllNumbered(decrypted')
           /\ \A n, m \in Node : conn'[n][m] # None =>
                  Consecutive(Into(conn'[n][m]), decrypted', 0, conn'[n][m].rx)
           /\ Gets
<1> DEFINE c == conn[r][s]
<1>0. TypeOK
  BY DEF KeyInv
<1>1. /\ decrypted' = decrypted \union {x}
      /\ c # None /\ Dir(x) = Into(c) /\ x.n = c.rx /\ SentAs(x)
  BY DEF ReadsOne
<1>2. c.rx \in Nat
  BY <1>0, <1>1, CounterTypes
<1>3. Consecutive(Into(c), decrypted, 0, c.rx)
  BY <1>1 DEF StreamInv, Counted
<1>4. PICK k : k = Into(c)
  OBVIOUS
<1>5. PICK a \in Nat : a = c.rx
  BY <1>2
<1>6. /\ Consecutive(k, decrypted', 0, a + 1)
      /\ FramesOn(k, decrypted') = Append(FramesOn(k, decrypted), x.frame)
      /\ Len(FramesOn(k, decrypted)) = a
  <2>1. Consecutive(k, decrypted, 0, a) /\ Dir(x) = k /\ x.n = a
    BY <1>1, <1>3, <1>4, <1>5
  <2>2. /\ Consecutive(k, decrypted \union {x}, 0, a + 1)
        /\ FramesOn(k, decrypted \union {x}) = Append(FramesOn(k, decrypted), x.frame)
        /\ Len(FramesOn(k, decrypted)) = a
    BY <2>1, FramesAppend
  <2>3. decrypted' = decrypted \union {x}
    BY <1>1
  <2>4. QED
    BY <2>2, <2>3
<1>7. ASSUME NEW o, o # k PROVE On(o, decrypted') = On(o, decrypted)
  BY <1>1, <1>4, <1>7 DEF On, Dir
<1>8. AllNumbered(decrypted')
  <2> SUFFICES ASSUME NEW o \in Direction PROVE \E b \in Nat : Consecutive(o, decrypted', 0, b)
    BY DEF AllNumbered
  <2>1. CASE o = k
    <3>1. a + 1 \in Nat
      OBVIOUS
    <3>2. QED
      BY <1>6, <2>1, <3>1
  <2>2. CASE o # k
    <3>1. PICK b \in Nat : Consecutive(o, decrypted, 0, b)
      BY DEF StreamInv, AllNumbered
    <3>2. QED
      BY <1>7, <2>2, <3>1, NumberedSame
  <2>3. QED
    BY <2>1, <2>2
<1>9. ASSUME NEW n \in Node, NEW m \in Node, conn'[n][m] # None
      PROVE  Consecutive(Into(conn'[n][m]), decrypted', 0, conn'[n][m].rx)
  <2>1. /\ conn[n][m] # None /\ Into(conn'[n][m]) = Into(conn[n][m])
        /\ conn'[n][m].rx = IF n = r /\ m = s THEN conn[n][m].rx + 1 ELSE conn[n][m].rx
    BY <1>9 DEF ReadsOne
  <2>2. CASE n = r /\ m = s
    BY <1>4, <1>5, <1>6, <2>1, <2>2
  <2>3. CASE ~(n = r /\ m = s)
    <3>1. Into(conn[n][m]) # k
      BY <1>1, <1>4, <2>1, <2>3, DirsApart
    <3>2. Consecutive(Into(conn[n][m]), decrypted, 0, conn[n][m].rx)
      BY <2>1 DEF StreamInv, Counted
    <3>3. QED
      BY <1>7, <2>1, <2>3, <3>1, <3>2, NumberedSame
  <2>4. QED
    BY <2>2, <2>3
<1>10. Gets
  <2>1. \A o \in Direction \ {k} : FramesOn(o, decrypted') = FramesOn(o, decrypted)
    BY <1>7, FramesSame
  <2>2. CASE k \notin Direction
    BY <2>1, <2>2 DEF Gets
  <2>3. CASE k \in Direction
    <3>1. PICK d \in encrypted : Dir(d) = k /\ d.n = a /\ d.frame = x.frame
      BY <1>1, <1>4, <1>5 DEF SentAs
    <3>2. PICK b \in Nat : Consecutive(k, encrypted, 0, b)
      BY <2>3 DEF StreamInv, AllNumbered
    <3>3. d \in On(k, encrypted)
      BY <3>1 DEF On, Dir
    <3>4. a \in 0..(b - 1)
      BY <3>1, <3>2, <3>3 DEF Consecutive
    <3>5. FramesOn(k, encrypted)[a + 1] = x.frame
      BY <3>1, <3>2, <3>3, FramesNumbered
    <3>6. Len(FramesOn(k, encrypted)) = b
      <4>1. PICK t : t = FramesOn(k, encrypted)
        OBVIOUS
      <4>2. t = [i \in 1..b |-> t[i]]
        BY <3>2, <4>1, FramesNumbered
      <4>3. Len(t) = b
        BY <4>2
      <4>4. QED
        BY <4>1, <4>3
    <3>7. a < b
      BY <3>4
    <3>8. QED
      BY <1>6, <2>1, <2>3, <3>5, <3>6, <3>7 DEF Gets
  <2>4. QED
    BY <2>2, <2>3
<1>11. QED
  BY <1>8, <1>9, <1>10

LEMMA NoReadStep ==
    ASSUME StreamInv, ReadsNone
    PROVE  /\ AllNumbered(decrypted')
           /\ \A n, m \in Node : conn'[n][m] # None =>
                  Consecutive(Into(conn'[n][m]), decrypted', 0, conn'[n][m].rx)
           /\ Gets
BY DEF StreamInv, ReadsNone, Gets

(* A key that something was read under is not drawn, and does not move.     *)
LEMMA UnreadStep ==
    ASSUME KeyInv, KeyNext, StreamInv,
           \/ decrypted' = decrypted
           \/ \E r, s \in Node : \E x : ReadsOne(r, s, x)
    PROVE  Unread'
<1>0. TypeOK /\ OnePlace /\ Drawn /\ nextEph \in Nat /\ nextEph' \in Nat /\ nextEph' >= nextEph
  BY DEF KeyInv, KeyNext, Traced, TypeOK
<1>1. PICK k0 :
         /\ \/ k0 = NoKey
            \/ k0[2] = nextEph
            \/ \E q \in KeyPlace : q[1] # "conn" /\ At(q, k0)
         /\ \A k : \A p \in KeyPlace : At(p, k)' => At(p, k) \/ k = k0
  BY DEF KeyNext, Traced
<1>2. ASSUME NEW k, k # NoKey, k[2] \in 0..(nextEph - 1),
             \A p \in KeyPlace : At(p, k) => p[1] = "conn"
      PROVE  /\ k[2] \in 0..(nextEph' - 1)
             /\ \A p \in KeyPlace : At(p, k)' => p[1] = "conn"
  <2>1. k[2] # nextEph
    BY <1>0, <1>2
  <2>2. k # k0
    BY <1>1, <1>2, <2>1
  <2>3. \A p \in KeyPlace : At(p, k)' => p[1] = "conn"
    BY <1>1, <1>2, <2>2
  <2>4. k[2] \in 0..(nextEph' - 1)
    BY <1>0, <1>2
  <2>5. QED
    BY <2>3, <2>4
<1>3. ASSUME NEW x \in decrypted
      PROVE  /\ Reader(Dir(x)) # NoKey /\ Reader(Dir(x))[2] \in 0..(nextEph - 1)
             /\ \A p \in KeyPlace : At(p, Reader(Dir(x))) => p[1] = "conn"
  <2>1. x.role \in Role
    BY <1>0 DEF TypeOK
  <2>2. Reader(Dir(x)) # NoKey
    BY <2>1 DEF Reader, Dir, NoKey, Other, Role
  <2>3. QED
    BY <2>2 DEF StreamInv, Unread
<1>4. ASSUME NEW r \in Node, NEW s \in Node, NEW x, ReadsOne(r, s, x)
      PROVE  /\ Reader(Dir(x)) # NoKey /\ Reader(Dir(x))[2] \in 0..(nextEph - 1)
             /\ \A p \in KeyPlace : At(p, Reader(Dir(x))) => p[1] = "conn"
  <2>1. conn[r][s] # None /\ Dir(x) = Into(conn[r][s])
    BY <1>4 DEF ReadsOne
  <2>9. /\ Reader(Into(conn[r][s])) = Key(conn[r][s])
        /\ At(<<"conn", r, s>>, Key(conn[r][s])) /\ <<"conn", r, s>> \in KeyPlace
    BY <1>0, <2>1, CounterTypes
  <2>2. Reader(Dir(x)) = Key(conn[r][s])
    BY <2>1, <2>9
  <2>3. At(<<"conn", r, s>>, Key(conn[r][s])) /\ <<"conn", r, s>> \in KeyPlace
    BY <2>9
  <2>4. PICK k : k = Key(conn[r][s])
    OBVIOUS
  <2>5. k # NoKey
    BY <1>0, <2>1, <2>4, KeyFacts
  <2>6. k[2] \in 0..(nextEph - 1)
    BY <1>0, <2>3, <2>4 DEF Drawn
  <2>7. \A p \in KeyPlace : At(p, k) => p[1] = "conn"
    <3> SUFFICES ASSUME NEW p \in KeyPlace, At(p, k) PROVE p[1] = "conn"
      OBVIOUS
    <3>1. p = <<"conn", r, s>>
      BY <1>0, <2>3, <2>4 DEF OnePlace
    <3>2. QED
      BY <3>1
  <2>8. QED
    BY <2>2, <2>4, <2>5, <2>6, <2>7
<1>5. ASSUME NEW x \in decrypted'
      PROVE  /\ Reader(Dir(x))[2] \in 0..(nextEph' - 1)
             /\ \A p \in KeyPlace : At(p, Reader(Dir(x)))' => p[1] = "conn"
  <2>1. x \in decrypted \/ \E r, s \in Node : ReadsOne(r, s, x)
    BY DEF ReadsOne
  <2>2. /\ Reader(Dir(x)) # NoKey /\ Reader(Dir(x))[2] \in 0..(nextEph - 1)
        /\ \A p \in KeyPlace : At(p, Reader(Dir(x))) => p[1] = "conn"
    BY <1>3, <1>4, <2>1
  <2>3. PICK k : k = Reader(Dir(x))
    OBVIOUS
  <2>4. /\ k[2] \in 0..(nextEph' - 1)
        /\ \A p \in KeyPlace : At(p, k)' => p[1] = "conn"
    BY <1>2, <2>2, <2>3
  <2>5. QED
    BY <2>3, <2>4
<1>6. QED
  BY <1>5 DEF Unread

LEMMA StreamStep ==
    ASSUME KeyInv, KeyNext, StreamInv, Exchanged
    PROVE  StreamInv' /\ Grows /\ Gets
<1>0. TypeOK' /\ DataSent'
  BY DEF KeyNext, KeyInv, Exchanged
<1>1. PICK N : Sends(N)
  BY DEF Exchanged
<1>2. /\ AllNumbered(encrypted')
      /\ \A n, m \in Node : conn'[n][m] # None =>
             Consecutive(Dir(conn'[n][m]), encrypted', 0, conn'[n][m].tx)
      /\ encrypted \subseteq encrypted'
      /\ Grows
  BY <1>0, <1>1, SentStep
<1>3. ReadsNone \/ \E r, s \in Node : \E x : ReadsOne(r, s, x)
  BY DEF Exchanged
<1>4. /\ AllNumbered(decrypted')
      /\ \A n, m \in Node : conn'[n][m] # None =>
             Consecutive(Into(conn'[n][m]), decrypted', 0, conn'[n][m].rx)
      /\ Gets
  BY <1>3, ReadStep, NoReadStep
<1>5. Unread'
  BY <1>3, UnreadStep DEF ReadsNone
<1>6. \A x \in decrypted' : x \in decrypted \/ SentAs(x)
  BY <1>3 DEF ReadsNone, ReadsOne
<1>7. \A x \in decrypted' : SentAs(x)'
  BY <1>2, <1>6 DEF StreamInv, SentAs
<1>8. \A n, m \in Node : Counted(n, m)'
  BY <1>2, <1>4 DEF Counted
<1>9. AllNumbered(encrypted)' /\ AllNumbered(decrypted)'
  BY <1>2, <1>4 DEF AllNumbered, Consecutive, On
<1>10. QED
  BY <1>0, <1>2, <1>4, <1>5, <1>7, <1>8, <1>9 DEF StreamInv

-----------------------------------------------------------------------------
(* The steps, one after the other.                                          *)

DataKnown(ms, E) ==
    \A i \in 1..Len(ms) : ms[i].frame \in DataFrames => ms[i] \in E

LEMMA WireData ==
    ASSUME TypeOK, DataSent, encrypted \subseteq encrypted',
           NEW s \in Node, NEW r \in Node, NEW g, NEW out,
           Wire(s, r, g, out),
           \A m \in Node : DataKnown(out[m], encrypted')
    PROVE  DataSent'
<1> SUFFICES ASSUME NEW n \in Node, NEW m \in Node, NEW h \in net'[n][m],
                    h.msg.frame \in DataFrames
             PROVE  h.msg \in encrypted'
  BY DEF DataSent
<1>1. h \in net[n][m] \/ (n = r /\ h \in Datagrams(r, m, out[m]))
  <2>1. net \in [Node -> [Node -> SUBSET Datagram]]
    BY DEF TypeOK
  <2>2. Rest(s, r, g) \subseteq net[s][r]
    BY DEF Rest
  <2>3. QED
    BY <2>1, <2>2 DEF Wire
<1>2. CASE h \in net[n][m]
  BY <1>2 DEF DataSent
<1>3. CASE n = r /\ h \in Datagrams(r, m, out[m])
  BY <1>3, DatagramsMsg DEF DataKnown
<1>4. QED
  BY <1>1, <1>2, <1>3

LEMMA EmitData ==
    ASSUME TypeOK, DataSent, encrypted \subseteq encrypted',
           NEW n \in Node, NEW m \in Node, NEW ms, Emit(n, m, ms),
           DataKnown(ms, encrypted')
    PROVE  DataSent'
<1> SUFFICES ASSUME NEW x \in Node, NEW y \in Node, NEW h \in net'[x][y],
                    h.msg.frame \in DataFrames
             PROVE  h.msg \in encrypted'
  BY DEF DataSent
<1>1. h \in net[x][y] \/ h \in Datagrams(n, m, ms)
  BY DEF Emit, TypeOK
<1>2. CASE h \in net[x][y]
  BY <1>2 DEF DataSent
<1>3. CASE h \in Datagrams(n, m, ms)
  BY <1>3, DatagramsMsg DEF DataKnown
<1>4. QED
  BY <1>1, <1>2, <1>3

LEMMA EncryptKnown ==
    ASSUME NEW c, NEW fs \in Seq(DataFrames)
    PROVE  DataKnown(Encrypt(c, fs), Range(Encrypt(c, fs)))
<1> DEFINE ms == Encrypt(c, fs)
<1>1. DOMAIN ms = 1..Len(fs) /\ Len(ms) = Len(fs)
  BY DEF Encrypt
<1> HIDE DEF ms
<1>2. \A i \in 1..Len(ms) : ms[i] \in Range(ms)
  BY <1>1 DEF Range
<1>3. DataKnown(ms, Range(ms))
  BY <1>2 DEF DataKnown
<1>4. QED
  BY <1>3 DEF ms

LEMMA HandshakeKnown ==
    ASSUME NEW E, NEW f \in {"hs1", "hs2", "hs3"}, NEW ei, NEW er, NEW role
    PROVE  DataKnown(<<Handshake(f, ei, er, role)>>, E)
<1>1. Handshake(f, ei, er, role).frame \notin DataFrames
  BY DEF Handshake, DataFrames
<1>2. PICK h : h = Handshake(f, ei, er, role)
  OBVIOUS
<1>3. DataKnown(<<h>>, E)
  BY <1>1, <1>2 DEF DataKnown
<1>4. QED
  BY <1>2, <1>3

LEMMA OnlyKnown ==
    ASSUME NEW E, NEW s, NEW ms, DataKnown(ms, E)
    PROVE  /\ \A m \in Node : DataKnown(Only(s, ms)[m], E)
           /\ \A m \in Node : DataKnown(Silent[m], E)
<1>1. DataKnown(<<>>, E)
  BY DEF DataKnown
<1>2. QED
  BY <1>1 DEF Only, Silent

(* A connection, if there still is one, that goes on with its session.      *)
SameSession(n, m) ==
    conn'[n][m] # None =>
        conn[n][m] # None /\ Dir(conn'[n][m]) = Dir(conn[n][m])
            /\ Into(conn'[n][m]) = Into(conn[n][m])

(* It is silent, it reads nothing.                                          *)
Mute(n, m) == SameSession(n, m) /\ (conn'[n][m] # None => conn'[n][m].tx = conn[n][m].tx)
Deaf(n, m) == SameSession(n, m) /\ (conn'[n][m] # None => conn'[n][m].rx = conn[n][m].rx)

LEMMA DirsApartNext ==
    ASSUME KeyInv', NEW n \in Node, NEW m \in Node, NEW x \in Node, NEW y \in Node,
           conn'[n][m] # None, conn'[x][y] # None,
           Dir(conn'[n][m]) = Dir(conn'[x][y])
    PROVE  n = x /\ m = y
<1>1. Key(conn'[n][m]) = Key(conn'[x][y])
  BY DEF Dir, Key
<1>2. PICK k : k = Key(conn'[n][m])
  OBVIOUS
<1>3. /\ At(<<"conn", n, m>>, k)' /\ <<"conn", n, m>> \in KeyPlace
      /\ At(<<"conn", x, y>>, k)' /\ <<"conn", x, y>> \in KeyPlace
  BY <1>1, <1>2 DEF At, KeyPlace
<1>4. <<"conn", n, m>> = <<"conn", x, y>>
  BY <1>3 DEF KeyInv, OnePlace
<1>5. QED
  BY <1>4

(* r encrypts out[m] for each m of known.                                   *)
LEMMA SendsFrom ==
    ASSUME StreamInv, KeyInv', NEW r, NEW known \in SUBSET Node, NEW out,
           known = {} \/ r \in Node,
           encrypted' = encrypted \union UNION {out[m] : m \in known},
           \A m \in known :
               /\ conn'[r][m] # None
               /\ \A d \in out[m] : Dir(d) = Dir(conn'[r][m])
               /\ \E a \in Nat :
                    /\ a <= conn'[r][m].tx
                    /\ Consecutive(Dir(conn'[r][m]), encrypted, 0, a)
                    /\ Consecutive(Dir(conn'[r][m]), out[m], a, conn'[r][m].tx),
           \A n, m \in Node : ~(n = r /\ m \in known) => Mute(n, m)
    PROVE  \E N : Sends(N)
<1> DEFINE N == UNION {out[m] : m \in known}
<1>1. ASSUME NEW d \in N PROVE \E m \in known : d \in out[m] /\ Dir(d) = Dir(conn'[r][m])
  OBVIOUS
<1>2. ASSUME NEW m \in known
      PROVE  On(Dir(conn'[r][m]), N) = On(Dir(conn'[r][m]), out[m])
  <2>1. out[m] \subseteq N
    OBVIOUS
  <2>2. ASSUME NEW d \in N, Dir(d) = Dir(conn'[r][m]) PROVE d \in out[m]
    <3>1. PICK o \in known : d \in out[o] /\ Dir(d) = Dir(conn'[r][o])
      BY <1>1
    <3>2. r \in Node /\ o \in Node /\ m \in Node
      OBVIOUS
    <3>3. /\ conn'[r][o] # None /\ conn'[r][m] # None
          /\ Dir(conn'[r][o]) = Dir(conn'[r][m])
      BY <2>2, <3>1
    <3>4. o = m
      BY <3>2, <3>3, DirsApartNext
    <3>5. QED
      BY <3>1, <3>4
  <2> HIDE DEF N
  <2>3. QED
    BY <2>1, <2>2 DEF On, Dir
<1> HIDE DEF N
<1>3. ASSUME NEW n \in Node, NEW m \in Node, conn'[n][m] # None
      PROVE  \E a \in Nat :
               /\ a <= conn'[n][m].tx
               /\ Consecutive(Dir(conn'[n][m]), encrypted, 0, a)
               /\ Consecutive(Dir(conn'[n][m]), N, a, conn'[n][m].tx)
  <2>1. CASE n = r /\ m \in known
    <3>1. PICK a \in Nat :
             /\ a <= conn'[r][m].tx
             /\ Consecutive(Dir(conn'[r][m]), encrypted, 0, a)
             /\ Consecutive(Dir(conn'[r][m]), out[m], a, conn'[r][m].tx)
      BY <2>1
    <3>2. Consecutive(Dir(conn'[r][m]), N, a, conn'[r][m].tx)
      BY <1>2, <2>1, <3>1, NumberedSame
    <3>3. QED
      BY <2>1, <3>1, <3>2
  <2>2. CASE ~(n = r /\ m \in known)
    <3>1. /\ conn[n][m] # None /\ Dir(conn'[n][m]) = Dir(conn[n][m])
          /\ conn'[n][m].tx = conn[n][m].tx
      BY <1>3, <2>2 DEF Mute, SameSession
    <3>2. conn'[n][m].tx \in Nat
      BY <1>3 DEF KeyInv, TypeOK, Connection
    <3>3. Consecutive(Dir(conn'[n][m]), encrypted, 0, conn'[n][m].tx)
      BY <3>1 DEF StreamInv, Counted
    <3>4. On(Dir(conn'[n][m]), N) = {}
      <4> SUFFICES ASSUME NEW d \in N, Dir(d) = Dir(conn'[n][m]) PROVE FALSE
        BY DEF On, Dir
      <4>1. PICK o \in known : Dir(d) = Dir(conn'[r][o])
        BY <1>1 DEF N
      <4>2. r \in Node /\ o \in Node /\ conn'[r][o] # None
        OBVIOUS
      <4>3. Dir(conn'[n][m]) = Dir(conn'[r][o])
        BY <4>1
      <4>4. n = r /\ m = o
        BY <1>3, <4>2, <4>3, DirsApartNext
      <4>5. QED
        BY <2>2, <4>4
    <3>5. Consecutive(Dir(conn'[n][m]), N, conn'[n][m].tx, conn'[n][m].tx)
      BY <3>2, <3>4, NumberedNone
    <3>6. conn'[n][m].tx <= conn'[n][m].tx
      BY <3>2
    <3>7. QED
      BY <3>2, <3>3, <3>5, <3>6
  <2>3. QED
    BY <2>1, <2>2
<1>4. \A d \in N : \E n, m \in Node : conn'[n][m] # None /\ Dir(d) = Dir(conn'[n][m])
  <2> SUFFICES ASSUME NEW d \in N
               PROVE  \E n, m \in Node : conn'[n][m] # None /\ Dir(d) = Dir(conn'[n][m])
    OBVIOUS
  <2>1. PICK o \in known : Dir(d) = Dir(conn'[r][o])
    BY <1>1 DEF N
  <2>2. r \in Node /\ o \in Node /\ conn'[r][o] # None
    OBVIOUS
  <2>3. QED
    BY <2>1, <2>2
<1>5. encrypted' = encrypted \union N
  BY DEF N
<1>6. Sends(N)
  BY <1>3, <1>4, <1>5 DEF Sends
<1>7. QED
  BY <1>6

LEMMA SendsNone ==
    ASSUME StreamInv, KeyInv', encrypted' = encrypted, \A n, m \in Node : Mute(n, m)
    PROVE  \E N : Sends(N)
<1> DEFINE known == {}
           out == [m \in known |-> {}]
<1>1. known \in SUBSET Node /\ encrypted' = encrypted \union UNION {out[m] : m \in known}
  OBVIOUS
<1>2. \A m \in known : FALSE
  OBVIOUS
<1> HIDE DEF known, out
<1>3. PICK r : r = NoKey
  OBVIOUS
<1>4. known = {} \/ r \in Node
  BY <1>2
<1>5. QED
  BY <1>1, <1>2, <1>4, SendsFrom

LEMMA ReadsNothing ==
    ASSUME StreamInv, decrypted' = decrypted, \A n, m \in Node : Deaf(n, m)
    PROVE  ReadsNone
BY DEF StreamInv, Counted, ReadsNone, Deaf, SameSession

(* A connection after it has sent or read something.                        *)
LEMMA SessionUpdates ==
    ASSUME NEW c \in Connection, NEW k \in Nat
    PROVE  /\ Dir(Advanced(c)) = Dir(c) /\ Into(Advanced(c)) = Into(c)
           /\ Advanced(c).tx = c.tx /\ Advanced(c).rx = c.rx + 1
           /\ Dir(Authenticated(c)) = Dir(c) /\ Into(Authenticated(c)) = Into(c)
           /\ Authenticated(c).tx = c.tx /\ Authenticated(c).rx = c.rx
           /\ Dir(Identified(c)) = Dir(c) /\ Into(Identified(c)) = Into(c)
           /\ Identified(c).tx = c.tx /\ Identified(c).rx = c.rx
           /\ Dir(Sending(c, k)) = Dir(c) /\ Into(Sending(c, k)) = Into(c)
           /\ Sending(c, k).tx = c.tx + k /\ Sending(c, k).rx = c.rx
           /\ c.tx \in Nat /\ c.rx \in Nat /\ c # None
BY DEF Connection, Dir, Into, Advanced, Authenticated, Identified, Sending, None

LEMMA QuietStream ==
    ASSUME KeyInv, KeyNext, StreamInv, UNCHANGED <<encrypted, decrypted>>, DataSent',
           \A n, m \in Node : conn'[n][m] = None \/ conn'[n][m] = conn[n][m]
    PROVE  Exchanged
<1>1. \A n, m \in Node : Mute(n, m) /\ Deaf(n, m)
  BY DEF Mute, Deaf, SameSession
<1>2. \E N : Sends(N)
  BY <1>1, SendsNone DEF KeyNext
<1>3. ReadsNone
  BY <1>1, ReadsNothing
<1>4. QED
  BY <1>2, <1>3 DEF Exchanged

LEMMA ReadStream ==
    ASSUME TypeOK, StreamInv, NEW s \in Node, NEW r \in Node, NEW g \in net[s][r],
           NEW handled, Decrypted(s, r, g), Record(s, r, g.msg, handled),
           \A n, m \in Node : ~(n = r /\ m = s) => Deaf(n, m),
           conn'[r][s] # None => /\ Into(conn'[r][s]) = Into(conn[r][s])
                                 /\ conn'[r][s].rx = conn[r][s].rx + 1
    PROVE  \E x : ReadsOne(r, s, x)
<1> DEFINE d == g.msg
           x == [by |-> r, from |-> s, ei |-> d.ei, er |-> d.er, role |-> d.role,
                 n |-> d.n, frame |-> d.frame, handled |-> handled]
<1>1. decrypted' = decrypted \union {x}
  BY DEF Record
<1>2. /\ conn[r][s] # None /\ d.frame \in DataFrames
      /\ d.ei = conn[r][s].ei /\ d.er = conn[r][s].er
      /\ d.role = Other(conn[r][s].role) /\ d.n = conn[r][s].rx
  BY DEF Decrypted, Decrypts
<1>3. Dir(x) = Into(conn[r][s]) /\ x.n = conn[r][s].rx
  BY <1>2 DEF Dir, Into
<1>4. d \in encrypted
  BY <1>2 DEF StreamInv, DataSent
<1>5. Dir(d) = Dir(x) /\ d.n = x.n /\ d.frame = x.frame
  BY DEF Dir
<1>6. SentAs(x)
  BY <1>4, <1>5 DEF SentAs
<1>7. PICK y : y = x
  OBVIOUS
<1> HIDE DEF x, d
<1>8. ASSUME NEW n \in Node, NEW m \in Node, conn'[n][m] # None
      PROVE  /\ conn[n][m] # None /\ Into(conn'[n][m]) = Into(conn[n][m])
             /\ conn'[n][m].rx = IF n = r /\ m = s THEN conn[n][m].rx + 1 ELSE conn[n][m].rx
  <2>1. CASE n = r /\ m = s
    BY <1>2, <1>8, <2>1
  <2>2. CASE ~(n = r /\ m = s)
    BY <1>8, <2>2 DEF Deaf, SameSession
  <2>3. QED
    BY <2>1, <2>2
<1>9. ReadsOne(r, s, y)
  BY <1>1, <1>2, <1>3, <1>6, <1>7, <1>8 DEF ReadsOne
<1>10. QED
  BY <1>9

LEMMA InstallStream ==
    ASSUME KeyInv, KeyNext, StreamInv,
           NEW s \in Node, NEW r \in Node, NEW g, NEW first,
           NEW ei \in Eph \union {Junk}, NEW er \in Eph \union {Junk}, NEW role \in Role,
           InstallConnection(s, r, g, NewConnection(r, ei, er, role), first),
           decrypted' = decrypted,
           \A E : DataKnown(first, E), first \in Seq(Message),
           At(<<"pend", r, s>>, Key(NewConnection(r, ei, er, role)))
    PROVE  Exchanged
<1> DEFINE c  == NewConnection(r, ei, er, role)
           fs == Greeting(r)
           ms == Encrypt(c, fs)
<1>0. TypeOK /\ KeyInv' /\ TypeOK'
  BY DEF KeyInv, KeyNext
<1>1. /\ c \in Connection /\ c.tx = 0 /\ c.rx = 0
      /\ fs \in Seq(DataFrames) /\ Len(fs) \in Nat
  BY ConfigAssumption, GreetingType DEF NewConnection, Connection
<1>2. /\ conn' = [conn EXCEPT ![r][s] = Sending(c, Len(ms))]
      /\ Wire(s, r, g, Only(s, first \o ms))
      /\ encrypted' = encrypted \union Range(ms)
  BY DEF InstallConnection
<1>3. Len(ms) = Len(fs)
  BY DEF Encrypt
<1>4. At(<<"pend", r, s>>, Key(c)) /\ <<"pend", r, s>> \in KeyPlace
  BY DEF KeyPlace
<1>5. Reader(Into(c)) = Key(c)
  BY DEF Reader, Into, Key, Other, Role, NewConnection
<1>6. ms = Encrypt(c, fs)
  OBVIOUS
<1> HIDE DEF c, fs, ms
<1>7. conn'[r][s] = Sending(c, Len(fs))
  BY <1>0, <1>2, <1>3 DEF TypeOK
<1>8. /\ Dir(conn'[r][s]) = Dir(c) /\ Into(conn'[r][s]) = Into(c)
      /\ conn'[r][s].tx = Len(fs) /\ conn'[r][s].rx = 0
  <2>1. PICK k \in Nat : k = Len(fs)
    BY <1>1
  <2>2. /\ Dir(Sending(c, k)) = Dir(c) /\ Into(Sending(c, k)) = Into(c)
        /\ Sending(c, k).tx = c.tx + k /\ Sending(c, k).rx = c.rx
    BY <1>1, SessionUpdates
  <2>3. QED
    BY <1>1, <1>7, <2>1, <2>2
<1>9. conn'[r][s] # None
  BY <1>1, <1>7 DEF Sending, Connection, None
<1>10. \A n, m \in Node : ~(n = r /\ m = s) => conn'[n][m] = conn[n][m]
  BY <1>0, <1>2, OtherPlace
<1>11. \A n, m \in Node : ~(n = r /\ m = s) => Mute(n, m) /\ Deaf(n, m)
  BY <1>10 DEF Mute, Deaf, SameSession
<1>12. Consecutive(Dir(c), encrypted, 0, 0)
  <2>1. On(Dir(c), encrypted) = {}
    <3> SUFFICES ASSUME NEW d \in encrypted, Dir(d) = Dir(c) PROVE FALSE
      BY DEF On, Dir
    <3>1. Key(d) = Key(c)
      BY DEF Dir, Key
    <3>2. <<"pend", r, s>>[1] = "conn"
      BY <1>4, <3>1 DEF KeyInv, Unspent
    <3>3. QED
      BY <3>2
  <2>2. QED
    BY <2>1, NumberedNone
<1>13. Consecutive(Into(c), decrypted, 0, 0)
  <2>1. On(Into(c), decrypted) = {}
    <3> SUFFICES ASSUME NEW x \in decrypted, Dir(x) = Into(c) PROVE FALSE
      BY DEF On, Dir
    <3>1. Reader(Dir(x)) = Key(c)
      BY <1>5
    <3>2. <<"pend", r, s>>[1] = "conn"
      BY <1>4, <3>1 DEF StreamInv, Unread
    <3>3. QED
      BY <3>2
  <2>2. QED
    BY <2>1, NumberedNone
<1>14. /\ \A d \in Range(ms) : Dir(d) = Dir(c)
       /\ Consecutive(Dir(c), Range(ms), 0, Len(fs))
  <2>1. /\ \A d \in Range(ms) : Dir(d) = Dir(c)
        /\ Consecutive(Dir(c), Range(ms), c.tx, c.tx + Len(fs))
    BY <1>1, <1>6, EncryptNumbered
  <2>2. c.tx = 0 /\ c.tx + Len(fs) = Len(fs)
    BY <1>1
  <2>3. QED
    BY <2>1, <2>2
<1>15. \E N : Sends(N)
  <2> DEFINE known == {s}
             out == [m \in {s} |-> Range(ms)]
  <2>1. known \in SUBSET Node /\ r \in Node
    OBVIOUS
  <2>2. encrypted' = encrypted \union UNION {out[m] : m \in known}
    BY <1>2
  <2>3. /\ conn'[r][s] # None
        /\ \A d \in out[s] : Dir(d) = Dir(conn'[r][s])
        /\ 0 <= conn'[r][s].tx
        /\ Consecutive(Dir(conn'[r][s]), encrypted, 0, 0)
        /\ Consecutive(Dir(conn'[r][s]), out[s], 0, conn'[r][s].tx)
    BY <1>1, <1>8, <1>9, <1>12, <1>14
  <2>4. \A m \in known : m = s
    OBVIOUS
  <2>5. \A n, m \in Node : ~(n = r /\ m \in known) => Mute(n, m)
    BY <1>11
  <2> HIDE DEF out, known
  <2>6. \A m \in known :
               /\ conn'[r][m] # None
               /\ \A d \in out[m] : Dir(d) = Dir(conn'[r][m])
               /\ \E a \in Nat :
                    /\ a <= conn'[r][m].tx
                    /\ Consecutive(Dir(conn'[r][m]), encrypted, 0, a)
                    /\ Consecutive(Dir(conn'[r][m]), out[m], a, conn'[r][m].tx)
    BY <2>3, <2>4
  <2>7. QED
    BY <1>0, <2>1, <2>2, <2>5, <2>6, SendsFrom
<1>16. ReadsNone
  <2> SUFFICES ASSUME NEW n \in Node, NEW m \in Node, conn'[n][m] # None
               PROVE  Consecutive(Into(conn'[n][m]), decrypted, 0, conn'[n][m].rx)
    BY DEF ReadsNone
  <2>1. CASE n = r /\ m = s
    BY <1>8, <1>13, <2>1
  <2>2. CASE ~(n = r /\ m = s)
    BY <1>10, <2>2 DEF StreamInv, Counted
  <2>3. QED
    BY <2>1, <2>2
<1>17. DataSent'
  <2>1. DataKnown(ms, encrypted')
    BY <1>1, <1>2, <1>6, EncryptKnown DEF DataKnown
  <2>2. DataKnown(first \o ms, encrypted')
    <3>1. DataKnown(first, encrypted')
      OBVIOUS
    <3>2. ms \in Seq({ms[k] : k \in 1..Len(ms)}) /\ Len(ms) \in Nat
      BY <1>1, <1>6, EncryptSeq
    <3>3. \A i \in 1..Len(first \o ms) :
             \/ \E k \in 1..Len(first) : (first \o ms)[i] = first[k]
             \/ \E k \in 1..Len(ms) : (first \o ms)[i] = ms[k]
      BY <3>2
    <3>4. QED
      BY <2>1, <3>1, <3>3 DEF DataKnown
  <2>3. \A m \in Node : DataKnown(Only(s, first \o ms)[m], encrypted')
    BY <2>2, OnlyKnown
  <2>4. encrypted \subseteq encrypted'
    BY <1>2
  <2>5. DataSent
    BY DEF StreamInv
  <2>6. PICK out : out = Only(s, first \o ms)
    OBVIOUS
  <2>7. QED
    BY <1>0, <1>2, <2>3, <2>4, <2>5, <2>6, WireData
<1>18. QED
  BY <1>15, <1>16, <1>17 DEF Exchanged

(* One message more from a connection.                                      *)
LEMMA OneMore ==
    ASSUME NEW c, c.tx \in Nat, NEW f \in DataFrames
    PROVE  /\ \A d \in Range(Encrypt(c, <<f>>)) : Dir(d) = Dir(c)
           /\ Consecutive(Dir(c), Range(Encrypt(c, <<f>>)), c.tx, c.tx + 1)
<1>1. <<f>> \in Seq(DataFrames) /\ Len(<<f>>) = 1
  OBVIOUS
<1>2. PICK fs : fs = <<f>>
  OBVIOUS
<1>3. /\ \A d \in Range(Encrypt(c, fs)) : Dir(d) = Dir(c)
      /\ Consecutive(Dir(c), Range(Encrypt(c, fs)), c.tx, c.tx + Len(fs))
  BY <1>1, <1>2, EncryptNumbered
<1>4. QED
  BY <1>1, <1>2, <1>3

LEMMA AppStream ==
    ASSUME KeyInv, KeyNext, StreamInv, NEW n \in Node, NEW m \in Node, AppSend(n, m)
    PROVE  Exchanged
<1> DEFINE ms == Encrypt(conn[n][m], <<"App">>)
<1>0. TypeOK /\ KeyInv' /\ TypeOK'
  BY DEF KeyInv, KeyNext
<1>1. /\ conn[n][m] \in Connection /\ conn[n][m] # None
      /\ conn' = [conn EXCEPT ![n][m] = Sending(conn[n][m], 1)]
      /\ Emit(n, m, ms)
      /\ encrypted' = encrypted \union Range(ms)
      /\ decrypted' = decrypted
  BY <1>0 DEF AppSend, TypeOK
<1>2. PICK c \in Connection : c = conn[n][m]
  BY <1>1
<1>3. conn'[n][m] = Sending(c, 1)
  BY <1>0, <1>1, <1>2 DEF TypeOK
<1>4. /\ Dir(Sending(c, 1)) = Dir(c) /\ Into(Sending(c, 1)) = Into(c)
      /\ Sending(c, 1).tx = c.tx + 1 /\ Sending(c, 1).rx = c.rx /\ c.tx \in Nat
  BY SessionUpdates
<1>5. conn'[n][m] # None
  <2>1. Sending(c, 1) \in Connection
    BY ConnectionUpdates
  <2>2. QED
    BY <1>3, <2>1 DEF Connection, None
<1>6. "App" \in DataFrames /\ <<"App">> \in Seq(DataFrames)
  BY DEF DataFrames
<1>7. ms = Encrypt(c, <<"App">>)
  BY <1>2
<1> HIDE DEF ms
<1>8. \A x, y \in Node : ~(x = n /\ y = m) => conn'[x][y] = conn[x][y]
  BY <1>0, <1>1, OtherPlace
<1>9. \A x, y \in Node : ~(x = n /\ y = m) => Mute(x, y) /\ Deaf(x, y)
  BY <1>8 DEF Mute, Deaf, SameSession
<1>10. Deaf(n, m)
  BY <1>1, <1>2, <1>3, <1>4 DEF Deaf, SameSession
<1>11. ReadsNone
  <2>1. \A x, y \in Node : Deaf(x, y)
    BY <1>9, <1>10
  <2>2. QED
    BY <1>1, <2>1, ReadsNothing
<1>12. DataSent'
  <2>1. DataKnown(ms, encrypted')
    BY <1>1, <1>6, <1>7, EncryptKnown DEF DataKnown
  <2>2. DataSent /\ encrypted \subseteq encrypted'
    BY <1>1 DEF StreamInv
  <2>3. QED
    BY <1>0, <1>1, <2>1, <2>2, EmitData
<1>13. \E N : Sends(N)
  <2> DEFINE known == {m}
             out == [x \in {m} |-> Range(ms)]
  <2>1. known \in SUBSET Node /\ n \in Node
    OBVIOUS
  <2>2. encrypted' = encrypted \union UNION {out[x] : x \in known}
    BY <1>1
  <2>3. /\ \A d \in Range(ms) : Dir(d) = Dir(c)
        /\ Consecutive(Dir(c), Range(ms), c.tx, c.tx + 1)
    BY <1>4, <1>6, <1>7, OneMore
  <2>4. Consecutive(Dir(c), encrypted, 0, c.tx)
    BY <1>1, <1>2 DEF StreamInv, Counted
  <2>5. c.tx <= c.tx + 1
    BY <1>4
  <2>6. /\ conn'[n][m] # None
        /\ \A d \in out[m] : Dir(d) = Dir(conn'[n][m])
        /\ c.tx <= conn'[n][m].tx
        /\ Consecutive(Dir(conn'[n][m]), encrypted, 0, c.tx)
        /\ Consecutive(Dir(conn'[n][m]), out[m], c.tx, conn'[n][m].tx)
    BY <1>3, <1>4, <1>5, <2>3, <2>4, <2>5
  <2>7. \A x \in known : x = m
    OBVIOUS
  <2>8. \A x, y \in Node : ~(x = n /\ y \in known) => Mute(x, y)
    BY <1>9
  <2> HIDE DEF out, known
  <2>9. \A x \in known :
               /\ conn'[n][x] # None
               /\ \A d \in out[x] : Dir(d) = Dir(conn'[n][x])
               /\ \E a \in Nat :
                    /\ a <= conn'[n][x].tx
                    /\ Consecutive(Dir(conn'[n][x]), encrypted, 0, a)
                    /\ Consecutive(Dir(conn'[n][x]), out[x], a, conn'[n][x].tx)
    BY <1>4, <2>6, <2>7
  <2>10. QED
    BY <1>0, <2>1, <2>2, <2>8, <2>9, SendsFrom
<1>14. QED
  BY <1>11, <1>12, <1>13 DEF Exchanged

LEMMA JoinStream ==
    ASSUME KeyInv, KeyNext, StreamInv, NEW s \in Node, NEW r \in Node,
           NEW g \in net[s][r], RecvJoin(s, r, g)
    PROVE  Exchanged
<1> DEFINE known == {m \in Node : conn[r][m] # None /\ (m = s \/ joined[r][m])}
           list  == [m \in Node |-> IF m \in known
                                    THEN Encrypt(conn[r][m], <<"PeerList">>)
                                    ELSE <<>>]
           told  == [m \in Node |-> IF m \in known THEN Sending(conn[r][m], 1)
                                                   ELSE conn[r][m]]
           row   == [told EXCEPT ![s] = Identified(Advanced(told[s]))]
           out   == [m \in known |-> Range(list[m])]
<1>0. TypeOK /\ KeyInv' /\ TypeOK'
  BY DEF KeyInv, KeyNext
<1>1. /\ Decrypted(s, r, g)
      /\ conn' = [conn EXCEPT ![r] = row]
      /\ Wire(s, r, g, list)
      /\ encrypted' = encrypted \union UNION {Range(list[m]) : m \in known}
      /\ Record(s, r, g.msg, TRUE)
  BY DEF RecvJoin
<1>2. encrypted' = encrypted \union UNION {out[m] : m \in known}
  BY <1>1
<1>3. s \in known /\ known \in SUBSET Node
  BY <1>1 DEF Decrypted
<1>4. \A m \in known : conn[r][m] \in Connection /\ conn[r][m] # None
  BY <1>0 DEF TypeOK
<1>5. \A m \in known : told[m] = Sending(conn[r][m], 1)
  OBVIOUS
<1>6. \A m \in known \ {s} : row[m] = told[m]
  OBVIOUS
<1>7. row[s] = Identified(Advanced(told[s]))
  BY <1>3
<1>8. \A m \in Node \ known : row[m] = conn[r][m]
  BY <1>3
<1>9. \A m \in Node : conn'[r][m] = row[m]
  BY <1>0, <1>1 DEF TypeOK
<1>10. \A n, m \in Node : n # r => conn'[n][m] = conn[n][m]
  BY <1>0, <1>1 DEF TypeOK
<1>11. \A m \in known : list[m] = Encrypt(conn[r][m], <<"PeerList">>) /\ out[m] = Range(list[m])
  OBVIOUS
<1>12. \A m \in Node \ known : list[m] = <<>>
  OBVIOUS
<1> HIDE DEF known, list, told, row, out
<1>13. ASSUME NEW m \in known
       PROVE  /\ row[m] # None
              /\ Dir(row[m]) = Dir(conn[r][m]) /\ Into(row[m]) = Into(conn[r][m])
              /\ row[m].tx = conn[r][m].tx + 1 /\ conn[r][m].tx \in Nat
              /\ row[m].rx = IF m = s THEN conn[r][m].rx + 1 ELSE conn[r][m].rx
  <2>1. PICK c \in Connection : c = conn[r][m]
    BY <1>4
  <2>2. PICK d \in Connection : d = Sending(c, 1)
    BY ConnectionUpdates
  <2>3. /\ Dir(d) = Dir(c) /\ Into(d) = Into(c)
        /\ d.tx = c.tx + 1 /\ d.rx = c.rx /\ c.tx \in Nat /\ d # None
    BY <2>2, SessionUpdates
  <2>4. d = told[m]
    BY <1>5, <2>1, <2>2
  <2>5. CASE m # s
    BY <1>6, <2>1, <2>3, <2>4, <2>5
  <2>6. CASE m = s
    <3>1. PICK e \in Connection : e = Advanced(d)
      BY ConnectionUpdates
    <3>2. PICK h \in Connection : h = Identified(e)
      BY ConnectionUpdates
    <3>3. Dir(e) = Dir(d) /\ Into(e) = Into(d) /\ e.tx = d.tx /\ e.rx = d.rx + 1
      BY <3>1, SessionUpdates
    <3>4. Dir(h) = Dir(e) /\ Into(h) = Into(e) /\ h.tx = e.tx /\ h.rx = e.rx /\ h # None
      BY <3>2, SessionUpdates
    <3>5. row[m] = h
      BY <1>7, <2>4, <2>6, <3>1, <3>2
    <3>6. QED
      BY <2>1, <2>3, <2>6, <3>3, <3>4, <3>5
  <2>7. QED
    BY <2>5, <2>6
<1>14. ASSUME NEW n \in Node, NEW m \in Node, ~(n = r /\ m \in known)
       PROVE  conn'[n][m] = conn[n][m]
  BY <1>8, <1>9, <1>10, <1>14
<1>15. \A n, m \in Node : ~(n = r /\ m \in known) => Mute(n, m)
  BY <1>14 DEF Mute, SameSession
<1>16. ASSUME NEW n \in Node, NEW m \in Node, ~(n = r /\ m = s) PROVE Deaf(n, m)
  <2>1. CASE n = r /\ m \in known
    BY <1>4, <1>9, <1>13, <1>16, <2>1 DEF Deaf, SameSession
  <2>2. CASE ~(n = r /\ m \in known)
    BY <1>14, <2>2 DEF Deaf, SameSession
  <2>3. QED
    BY <2>1, <2>2
<1>17. \E x : ReadsOne(r, s, x)
  <2>1. Into(conn'[r][s]) = Into(conn[r][s]) /\ conn'[r][s].rx = conn[r][s].rx + 1
    BY <1>3, <1>9, <1>13
  <2>2. QED
    BY <1>0, <1>1, <1>16, <2>1, ReadStream
<1>18. ASSUME NEW m \in known
       PROVE  /\ \A d \in out[m] : Dir(d) = Dir(conn[r][m])
              /\ Consecutive(Dir(conn[r][m]), out[m], conn[r][m].tx, conn[r][m].tx + 1)
              /\ Consecutive(Dir(conn[r][m]), encrypted, 0, conn[r][m].tx)
              /\ DataKnown(list[m], out[m])
  <2>1. PICK c \in Connection : c = conn[r][m]
    BY <1>4
  <2>2. c.tx \in Nat /\ out[m] = Range(Encrypt(c, <<"PeerList">>))
        /\ list[m] = Encrypt(c, <<"PeerList">>)
    BY <1>11, <1>13, <2>1
  <2>3. "PeerList" \in DataFrames /\ <<"PeerList">> \in Seq(DataFrames)
    BY DEF DataFrames
  <2>4. /\ \A d \in out[m] : Dir(d) = Dir(c)
        /\ Consecutive(Dir(c), out[m], c.tx, c.tx + 1)
    BY <2>2, <2>3, OneMore
  <2>5. DataKnown(list[m], out[m])
    BY <2>2, <2>3, EncryptKnown
  <2>6. m \in Node
    BY <1>3
  <2>7. Consecutive(Dir(c), encrypted, 0, c.tx)
    BY <1>4, <2>1, <2>6 DEF StreamInv, Counted
  <2>8. QED
    BY <2>1, <2>4, <2>5, <2>7
<1>19. ASSUME NEW m \in known
       PROVE  /\ conn'[r][m] # None
              /\ \A d \in out[m] : Dir(d) = Dir(conn'[r][m])
              /\ \E a \in Nat :
                   /\ a <= conn'[r][m].tx
                   /\ Consecutive(Dir(conn'[r][m]), encrypted, 0, a)
                   /\ Consecutive(Dir(conn'[r][m]), out[m], a, conn'[r][m].tx)
  <2>1. PICK a \in Nat : a = conn[r][m].tx
    BY <1>13
  <2>2. /\ conn'[r][m] # None /\ Dir(conn'[r][m]) = Dir(conn[r][m])
        /\ conn'[r][m].tx = a + 1
    BY <1>3, <1>9, <1>13, <2>1
  <2>3. a <= a + 1
    OBVIOUS
  <2>4. QED
    BY <1>18, <2>1, <2>2, <2>3
<1>20. \E N : Sends(N)
  <2>1. PICK ks \in SUBSET Node : ks = known
    BY <1>3
  <2>2. PICK o : o = out
    OBVIOUS
  <2>3. /\ known = {} \/ r \in Node
        /\ encrypted' = encrypted \union UNION {o[m] : m \in ks}
    BY <1>2, <2>1, <2>2
  <2>4. \A m \in ks :
           /\ conn'[r][m] # None
           /\ \A d \in o[m] : Dir(d) = Dir(conn'[r][m])
           /\ \E a \in Nat :
                /\ a <= conn'[r][m].tx
                /\ Consecutive(Dir(conn'[r][m]), encrypted, 0, a)
                /\ Consecutive(Dir(conn'[r][m]), o[m], a, conn'[r][m].tx)
    BY <1>19, <2>1, <2>2
  <2>5. \A n, m \in Node : ~(n = r /\ m \in ks) => Mute(n, m)
    BY <1>15, <2>1
  <2>6. QED
    BY <1>0, <2>3, <2>4, <2>5, SendsFrom
<1>21. DataSent'
  <2>1. \A m \in known : out[m] \subseteq encrypted'
    BY <1>2
  <2>2. ASSUME NEW m \in Node PROVE DataKnown(list[m], encrypted')
    <3>1. CASE m \in known
      BY <1>18, <2>1, <3>1 DEF DataKnown
    <3>2. CASE m \notin known
      BY <1>12, <3>2 DEF DataKnown
    <3>3. QED
      BY <3>1, <3>2
  <2>3. DataSent /\ encrypted \subseteq encrypted'
    BY <1>2 DEF StreamInv
  <2>4. QED
    BY <1>0, <1>1, <2>2, <2>3, WireData
<1>22. QED
  BY <1>17, <1>20, <1>21 DEF Exchanged

LEMMA ReceiveStream ==
    ASSUME KeyInv, KeyNext, StreamInv, NEW s \in Node, NEW r \in Node,
           NEW g \in net[s][r], Receive(s, r, g)
    PROVE  Exchanged
<1>0. TypeOK /\ DataSent /\ KeyInv'
  BY DEF KeyInv, KeyNext, StreamInv
<1>1. CASE RecvSecond(s, r, g)
  <2> DEFINE p == pending[r][s]
             c == NewConnection(r, p.ei, g.msg.er, "I")
             first == <<Handshake("hs3", p.ei, g.msg.er, "I")>>
  <2>1. p.st = "await2" /\ InstallConnection(s, r, g, c, first) /\ decrypted' = decrypted
    BY <1>1 DEF RecvSecond
  <2>2. p.ei \in Eph \union {Junk} /\ g.msg.er \in Eph \union {Junk} /\ "I" \in Role
    BY <1>0, <2>1 DEF TypeOK, Pending, None, Await2, Await3, Datagram, Message, Role
  <2>3. Key(c) = <<"I", p.ei>>
    BY DEF Key, NewConnection
  <2>4. At(<<"pend", r, s>>, Key(c))
    BY <2>1, <2>3 DEF At, Draws
  <2>5. first \in Seq(Message)
    <3>1. Handshake("hs3", p.ei, g.msg.er, "I") \in Message
      BY <2>2 DEF Handshake, Message, Frames
    <3>2. QED
      BY <3>1
  <2>6. \A E : DataKnown(first, E)
    BY HandshakeKnown
  <2> HIDE DEF first
  <2>7. QED
    BY <2>1, <2>2, <2>4, <2>5, <2>6, InstallStream
<1>2. CASE RecvThird(s, r, g)
  <2> DEFINE p == pending[r][s]
             c == NewConnection(r, p.ei, p.er, "R")
  <2>1. p.st = "await3" /\ InstallConnection(s, r, g, c, <<>>) /\ decrypted' = decrypted
    BY <1>2 DEF RecvThird
  <2>2. p.ei \in Eph \union {Junk} /\ p.er \in Eph \union {Junk} /\ "R" \in Role
    BY <1>0, <2>1 DEF TypeOK, Pending, None, Await2, Await3, Role
  <2>3. Key(c) = <<"R", p.er>>
    BY DEF Key, NewConnection
  <2>4. At(<<"pend", r, s>>, Key(c))
    BY <2>1, <2>3 DEF At, Draws
  <2>5. <<>> \in Seq(Message) /\ \A E : DataKnown(<<>>, E)
    BY DEF DataKnown
  <2>6. QED
    BY <2>1, <2>2, <2>4, <2>5, InstallStream
<1>3. CASE RecvSpoilsPending(s, r, g) \/ StartResponder(s, r, g) \/ RecvUndecryptable(s, r, g)
  <2>1. UNCHANGED <<conn, encrypted, decrypted>>
    BY <1>3 DEF RecvSpoilsPending, StartResponder, RecvUndecryptable, nodeVars, histVars
  <2>2. PICK out : Wire(s, r, g, out) /\ \A m \in Node : DataKnown(out[m], encrypted')
    <3>1. CASE Wire(s, r, g, Silent)
      BY <3>1, HandshakeKnown, OnlyKnown
    <3>2. CASE StartResponder(s, r, g)
      <4>1. PICK ei : Wire(s, r, g, Only(s, <<Handshake("hs2", ei, nextEph, "R")>>))
        BY <3>2 DEF StartResponder
      <4>2. DataKnown(<<Handshake("hs2", ei, nextEph, "R")>>, encrypted')
        BY HandshakeKnown
      <4>3. QED
        BY <4>1, <4>2, OnlyKnown
    <3>3. QED
      BY <1>3, <3>1, <3>2 DEF RecvSpoilsPending, RecvUndecryptable
  <2>3. DataSent'
    BY <1>0, <2>1, <2>2, WireData
  <2>4. QED
    BY <2>1, <2>3, QuietStream
<1>4. ASSUME NEW c, conn' = [conn EXCEPT ![r][s] = c], NEW handled,
             Decrypted(s, r, g), Record(s, r, g.msg, handled), Wire(s, r, g, Silent),
             encrypted' = encrypted,
             c # None => /\ Dir(c) = Dir(conn[r][s]) /\ Into(c) = Into(conn[r][s])
                         /\ c.tx = conn[r][s].tx /\ c.rx = conn[r][s].rx + 1
      PROVE  Exchanged
  <2>1. conn[r][s] # None /\ conn'[r][s] = c
    BY <1>0, <1>4 DEF Decrypted, TypeOK
  <2>2. \A n, m \in Node : ~(n = r /\ m = s) => conn'[n][m] = conn[n][m]
    BY <1>0, <1>4, OtherPlace
  <2>3. \A n, m \in Node : Mute(n, m)
    BY <1>4, <2>1, <2>2 DEF Mute, SameSession
  <2>4. \A n, m \in Node : ~(n = r /\ m = s) => Deaf(n, m)
    BY <2>2 DEF Deaf, SameSession
  <2>5. \E N : Sends(N)
    BY <1>0, <1>4, <2>3, SendsNone
  <2>6. \E x : ReadsOne(r, s, x)
    BY <1>0, <1>4, <2>1, <2>4, ReadStream
  <2>7. DataSent'
    <3>1. \A m \in Node : DataKnown(Silent[m], encrypted')
      BY HandshakeKnown, OnlyKnown
    <3>2. QED
      BY <1>0, <1>4, <3>1, WireData
  <2>8. QED
    BY <2>5, <2>6, <2>7 DEF Exchanged
<1>5. CASE RecvAuthRejected(s, r, g)
  BY <1>4, <1>5 DEF RecvAuthRejected
<1>6. CASE RecvAuth(s, r, g)
  <2>1. PICK c \in Connection : c = conn[r][s]
    BY <1>0, <1>6, DecryptedFacts DEF RecvAuth
  <2>2. PICK d \in Connection : d = Advanced(c)
    BY ConnectionUpdates
  <2>3. Dir(d) = Dir(c) /\ Into(d) = Into(c) /\ d.tx = c.tx /\ d.rx = c.rx + 1
    BY <2>2, SessionUpdates
  <2>4. PICK e : e = Authenticated(d)
    OBVIOUS
  <2>5. Dir(e) = Dir(c) /\ Into(e) = Into(c) /\ e.tx = c.tx /\ e.rx = c.rx + 1
    BY <2>3, <2>4, SessionUpdates
  <2>6. conn' = [conn EXCEPT ![r][s] = e]
    BY <1>6, <2>1, <2>2, <2>4 DEF RecvAuth
  <2>7. QED
    BY <1>4, <1>6, <2>1, <2>5, <2>6 DEF RecvAuth
<1>7. CASE RecvOther(s, r, g)
  <2>1. PICK c \in Connection : c = conn[r][s]
    BY <1>0, <1>7, DecryptedFacts DEF RecvOther
  <2>2. PICK d \in Connection : d = Advanced(c)
    BY ConnectionUpdates
  <2>3. Dir(d) = Dir(c) /\ Into(d) = Into(c) /\ d.tx = c.tx /\ d.rx = c.rx + 1
    BY <2>2, SessionUpdates
  <2>4. conn' = [conn EXCEPT ![r][s] = d]
    BY <1>7, <2>1, <2>2 DEF RecvOther
  <2>5. QED
    BY <1>4, <1>7, <2>1, <2>3, <2>4 DEF RecvOther
<1>8. CASE RecvJoin(s, r, g)
  BY <1>8, JoinStream
<1>9. QED
  BY <1>1, <1>2, <1>3, <1>5, <1>6, <1>7, <1>8 DEF Receive

LEMMA LocalStream ==
    ASSUME KeyInv, KeyNext, StreamInv, NEW n \in Node, NEW m \in Node,
           \/ Initiate(n, m) \/ InsertPending(n, m)
           \/ Disconnect(n, m) \/ Restart(n)
    PROVE  Exchanged
<1>0. TypeOK /\ DataSent
  BY DEF KeyInv, StreamInv
<1>1. UNCHANGED <<encrypted, decrypted>>
  BY DEF Initiate, InsertPending, Disconnect, Restart, histVars
<1>2. \A x, y \in Node : conn'[x][y] = None \/ conn'[x][y] = conn[x][y]
  <2>1. CASE Initiate(n, m) \/ InsertPending(n, m)
    BY <2>1 DEF Initiate, InsertPending
  <2>2. CASE Disconnect(n, m)
    BY <1>0, <2>2 DEF Disconnect, TypeOK
  <2>3. CASE Restart(n)
    BY <1>0, <2>3 DEF Restart, TypeOK
  <2>4. QED
    BY <2>1, <2>2, <2>3
<1>3. DataSent'
  <2>1. CASE Initiate(n, m)
    <3>1. Emit(n, m, <<Handshake("hs1", nextEph, Junk, "I")>>)
      BY <2>1 DEF Initiate
    <3>2. DataKnown(<<Handshake("hs1", nextEph, Junk, "I")>>, encrypted')
      BY HandshakeKnown
    <3>3. QED
      BY <1>0, <1>1, <3>1, <3>2, EmitData
  <2>2. CASE UNCHANGED net
    BY <1>0, <1>1, <2>2 DEF DataSent
  <2>3. QED
    BY <2>1, <2>2 DEF InsertPending, Disconnect, Restart
<1>4. QED
  BY <1>1, <1>2, <1>3, QuietStream

LEMMA ExchangedStep ==
    ASSUME KeyInv, KeyNext, StreamInv, [Next]_vars
    PROVE  Exchanged
<1>1. CASE UNCHANGED vars
  <2>1. UNCHANGED <<conn, net, encrypted, decrypted>>
    BY <1>1 DEF vars, histVars
  <2>2. DataSent'
    BY <2>1 DEF StreamInv, DataSent
  <2>3. QED
    BY <2>1, <2>2, QuietStream
<1>2. ASSUME NEW n \in Node, NEW m \in Node,
             Dial(n, m) \/ Discover(n, m) \/ Rekey(n, m)
      PROVE  Exchanged
  BY <1>2, LocalStream DEF Dial, Discover, Rekey
<1>3. ASSUME NEW n \in Node, NEW m \in Node, NEW g \in net[n][m], Receive(n, m, g)
      PROVE  Exchanged
  BY <1>3, ReceiveStream
<1>4. QED
  BY <1>1, <1>2, <1>3, AppStream, LocalStream DEF Next

LEMMA NoFrames == \A k : FramesOn(k, {}) = <<>> /\ Consecutive(k, {}, 0, 0)
<1> SUFFICES ASSUME NEW k PROVE FramesOn(k, {}) = <<>> /\ Consecutive(k, {}, 0, 0)
  OBVIOUS
<1>1. On(k, {}) = {}
  BY DEF On
<1>2. Consecutive(k, {}, 0, 0)
  BY <1>1, NumberedNone
<1>3. FramesOn(k, {}) = [i \in 1..0 |-> FramesOn(k, {})[i]]
  BY <1>2, FramesNumbered
<1>4. QED
  BY <1>2, <1>3

LEMMA StreamInit == Init => StreamInv
<1> SUFFICES ASSUME Init PROVE StreamInv
  OBVIOUS
<1>1. encrypted = {} /\ decrypted = {}
  BY DEF Init
<1>2. AllNumbered(encrypted) /\ AllNumbered(decrypted)
  BY <1>1, NoFrames DEF AllNumbered
<1>3. \A n, m \in Node : conn[n][m] = None /\ net[n][m] = {}
  BY DEF Init
<1>4. QED
  BY <1>1, <1>2, <1>3 DEF StreamInv, Counted, Unread, DataSent

(* What the refinement mapping of Promise makes of a state.                 *)
Sent == [k \in Direction |-> FramesOn(k, encrypted)]
Got  == [k \in Direction |-> FramesOn(k, decrypted)]

LEMMA PromiseMeans ==
    Promise!Next <=>
        /\ DOMAIN Sent' = Direction
        /\ \A k \in Direction : IsPrefix(Sent[k], Sent'[k])
        /\ \/ Got' = Got
           \/ \E k \in Direction :
                /\ Len(Got[k]) < Len(Sent[k])
                /\ Got' = [Got EXCEPT ![k] = Append(@, Sent[k][Len(@) + 1])]
BY DEF Promise!Next, Promise!Take, Promise!IsPrefix, IsPrefix, Sent, Got

LEMMA PromiseStep ==
    ASSUME Grows, Gets PROVE Promise!Next
<1>1. DOMAIN Sent' = Direction
  BY DEF Sent
<1>2. \A k \in Direction : IsPrefix(Sent[k], Sent'[k])
  BY DEF Grows, Sent
<1>3. CASE \A k \in Direction : FramesOn(k, decrypted') = FramesOn(k, decrypted)
  <2>1. Got' = Got
    BY <1>3 DEF Got
  <2>2. QED
    BY <1>1, <1>2, <2>1, PromiseMeans
<1>4. ASSUME NEW k \in Direction,
             Len(FramesOn(k, decrypted)) < Len(FramesOn(k, encrypted)),
             FramesOn(k, decrypted') =
               Append(FramesOn(k, decrypted),
                      FramesOn(k, encrypted)[Len(FramesOn(k, decrypted)) + 1]),
             \A o \in Direction \ {k} : FramesOn(o, decrypted') = FramesOn(o, decrypted)
      PROVE  Promise!Next
  <2>1. Got[k] = FramesOn(k, decrypted) /\ Sent[k] = FramesOn(k, encrypted)
    BY DEF Got, Sent
  <2>2. \A o \in Direction : Got[o] = FramesOn(o, decrypted) /\ Got'[o] = FramesOn(o, decrypted')
    BY DEF Got
  <2>3. DOMAIN Got = Direction /\ DOMAIN Got' = Direction
        /\ Got = [o \in Direction |-> Got[o]] /\ Got' = [o \in Direction |-> Got'[o]]
    BY DEF Got
  <2>4. Got' = [Got EXCEPT ![k] = Append(Got[k], Sent[k][Len(Got[k]) + 1])]
    BY <1>4, <2>1, <2>2, <2>3
  <2>5. QED
    BY <1>1, <1>2, <1>4, <2>1, <2>4, PromiseMeans
<1>5. QED
  BY <1>3, <1>4 DEF Gets

(* Spec => ImplementsStream: over a network that loses, repeats and         *)
(* reorders, each direction of a session is an ordered stream.              *)
THEOREM StreamHolds == Spec => ImplementsStream
<1> DEFINE Inv == KeyInv /\ StartsApart /\ StreamInv
<1>1. Init => Promise!Init
  <2> SUFFICES ASSUME Init PROVE Promise!Init
    OBVIOUS
  <2>1. encrypted = {} /\ decrypted = {}
    BY DEF Init
  <2>2. QED
    BY <2>1, NoFrames DEF Promise!Init
<1>2. Init => Inv
  <2>1. Init => StartsApart
    BY DEF Init, StartsApart
  <2>2. QED
    BY <2>1, KeysInit, StreamInit
<1>3. TypeOK' /\ Inv /\ [Next]_vars => Inv'
  BY KeysStep, StartsStep, ExchangedStep, StreamStep DEF KeyNext
<1>4. TypeOK' /\ Inv /\ [Next]_vars => [Promise!Next]_<<Sent, Got>>
  BY KeysStep, ExchangedStep, StreamStep, PromiseStep
<1> HIDE DEF Inv
<1>5. QED
  BY <1>1, <1>2, <1>3, <1>4, TypeCorrect, PTL DEF Spec, ImplementsStream, Promise!Spec, Sent, Got

-----------------------------------------------------------------------------
(* InStep.  While the network keeps the order and a handshake is begun only *)
(* towards an address without a connection, nothing a session has written   *)
(* is lost: a connection and a handshake never stand side by side, where    *)
(* the handshake would swallow what is meant for the connection; what the   *)
(* connection drops is of another session, since the oldest datagram of its *)
(* own is the one that is due; and what an initiator writes before its peer *)
(* has read the third message waits behind it.                              *)

(* The network delivers what is sent, once and in order, and no answer is   *)
(* faster than the sender's next statement.  A node may still fail to send  *)
(* its third message.                                                       *)
Punctual == Faults \subseteq {"senderr"}

(* The first message of a handshake leaves only where no connection is, as  *)
(* spawn_discovery makes sure and join_invite and spawn_rekey do not.       *)
CarefulStep ==
    \A n, m \in Node : starting'[n][m] \subseteq starting[n][m] \/ conn[n][m] = None

Careful == [][CarefulStep]_vars

Bears(d, k, i) == d.frame \in DataFrames /\ Dir(d) = k /\ d.n = i

(* The numbers from a to below b of the direction k are among N.            *)
OnWay(N, k, a, b) == \A i \in a..(b - 1) : \E g \in N : Bears(g.msg, k, i)

Spent(k, E) == \E d \in E : Dir(d) = k

(* What d, one of the messages sent, may say: a second message a key that   *)
(* has been drawn (those below e), a third one a session that its sender    *)
(* has written to (the messages E).                                         *)
Honest(d, e, E) ==
    /\ d.frame = "hs2" => d.er < e
    /\ d.frame = "hs3" => Spent(<<d.ei, d.er, "I">>, E)

Before(d, e) ==
    d.frame \in DataFrames /\ e.frame \in DataFrames /\ Dir(d) = Dir(e) /\ d.n < e.n

(* The datagrams N between two nodes, of t sent so far.                     *)
Orderly(N, t, e, E) ==
    /\ \A g \in N : g.at <= t /\ Honest(g.msg, e, E)
    /\ \A g, h \in N : Before(g.msg, h.msg) => g.at < h.at

(* A connection c has no handshake beside it: no pending entry p and none   *)
(* of S on its way to it.                                                   *)
Settled(c, p, S, e, E) ==
    c # None => /\ p = None /\ S = {} /\ c.er < e
                /\ c.role = "R" => Spent(Into(c), E)

Together(c, d, N) ==
    c # None /\ d # None => (Dir(c) = Into(d) => OnWay(N, Dir(c), d.rx, c.tx))

(* The handshakes of n with m that wait for an answer, and those it is      *)
(* about to wait for.                                                       *)
Begun(n, m) == starting[n][m] \union {pending[n][m]}

(* The peer's handshakes S still wait for the third message of c.           *)
Awaited(c, S, N) ==
    c # None => \A p \in S :
        p.st = "await3" /\ Dir(c) = <<p.ei, p.er, "I">> => OnWay(N, Dir(c), 0, c.tx)

PairInv(n, m) ==
    /\ Orderly(net[n][m], sends[n][m], nextEph, encrypted)
    /\ Settled(conn[n][m], pending[n][m], starting[n][m], nextEph, encrypted)
    /\ Together(conn[n][m], conn[m][n], net[n][m])
    /\ Awaited(conn[n][m], Begun(m, n), net[n][m])

SyncInv == \A n, m \in Node : PairInv(n, m)

(* n hands ms to its socket for m, and nothing that was on the wire between *)
(* the two gets lost.                                                       *)
Posts(n, m, ms) ==
    /\ net'[n][m] \subseteq net[n][m] \union Datagrams(n, m, ms)
    /\ Datagrams(n, m, ms) \subseteq net'[n][m]
    /\ sends'[n][m] = sends[n][m] + Len(ms)

(* The messages ms are honest, in the order of their numbers, and beyond    *)
(* all that was encrypted before.                                           *)
Fresh(ms) ==
    /\ \A i \in 1..Len(ms) : Honest(ms[i], nextEph', encrypted')
    /\ \A i \in 1..Len(ms) : ms[i].frame \in DataFrames =>
           \A d \in encrypted : Dir(d) = Dir(ms[i]) => d.n < ms[i].n
    /\ \A i, j \in 1..Len(ms) : Before(ms[i], ms[j]) => i < j

(* What only grows.                                                         *)
Later == nextEph' >= nextEph /\ encrypted \subseteq encrypted'

LEMMA HonestLater ==
    ASSUME Later, nextEph \in Int, nextEph' \in Int, NEW d \in Message, Honest(d, nextEph, encrypted)
    PROVE  Honest(d, nextEph', encrypted')
<1>1. d.er \in Int
  BY DEF Message, Eph, Junk
<1>2. QED
  BY <1>1 DEF Honest, Spent, Later

LEMMA DatagramPlace ==
    ASSUME Punctual, TypeOK, NEW n \in Node, NEW m \in Node, NEW ms \in Seq(Message),
           NEW g \in Datagrams(n, m, ms)
    PROVE  \E i \in 1..Len(ms) : g.msg = ms[i] /\ g.at = sends[n][m] + i
BY DEF Punctual, Datagrams

LEMMA OrderlyNext ==
    ASSUME Punctual, TypeOK, TypeOK', Later, DataSent, NEW n \in Node, NEW m \in Node,
           NEW ms \in Seq(Message), Posts(n, m, ms), Fresh(ms),
           Orderly(net[n][m], sends[n][m], nextEph, encrypted)
    PROVE  Orderly(net'[n][m], sends'[n][m], nextEph', encrypted')
<1> DEFINE t == sends[n][m]
<1>0. t \in Nat /\ Len(ms) \in Nat /\ nextEph \in Int /\ nextEph' \in Int
  BY DEF TypeOK
<1>1. sends'[n][m] = t + Len(ms)
  BY DEF Posts
<1>2. ASSUME NEW g \in net[n][m]
      PROVE  g.at \in Nat /\ g.msg \in Message /\ g.at <= t /\ Honest(g.msg, nextEph, encrypted)
  BY DEF TypeOK, Datagram, Orderly
<1>3. ASSUME NEW g \in net'[n][m], g \notin net[n][m]
      PROVE  \E i \in 1..Len(ms) : g.msg = ms[i] /\ g.at = t + i
  BY <1>3, DatagramPlace DEF Posts
<1>4. ASSUME NEW g \in net'[n][m]
      PROVE  g.at <= sends'[n][m] /\ Honest(g.msg, nextEph', encrypted')
  <2>1. CASE g \in net[n][m]
    <3>1. Honest(g.msg, nextEph', encrypted')
      BY <1>0, <1>2, <2>1, HonestLater
    <3>2. g.at <= t + Len(ms)
      BY <1>0, <1>2, <2>1
    <3>3. QED
      BY <1>1, <3>1, <3>2
  <2>2. CASE g \notin net[n][m]
    BY <1>0, <1>1, <1>3, <2>2 DEF Fresh
  <2>3. QED
    BY <2>1, <2>2
<1>5. ASSUME NEW g \in net'[n][m], NEW h \in net'[n][m], Before(g.msg, h.msg)
      PROVE  g.at < h.at
  <2>1. CASE g \in net[n][m] /\ h \in net[n][m]
    BY <1>5, <2>1 DEF Orderly
  <2>2. CASE g \in net[n][m] /\ h \notin net[n][m]
    <3>1. PICK i \in 1..Len(ms) : h.at = t + i
      BY <1>3, <2>2
    <3>2. g.at \in Nat /\ g.at <= t
      BY <1>2, <2>2
    <3>3. QED
      BY <1>0, <3>1, <3>2
  <2>3. CASE g \notin net[n][m] /\ h \in net[n][m]
    <3>1. PICK i \in 1..Len(ms) : g.msg = ms[i]
      BY <1>3, <2>3
    <3>2. h.msg \in encrypted /\ Dir(h.msg) = Dir(ms[i]) /\ ms[i].frame \in DataFrames
          /\ ms[i].n < h.msg.n
      BY <1>5, <2>3, <3>1 DEF DataSent, Before
    <3>3. h.msg.n < ms[i].n
      BY <3>2 DEF Fresh
    <3>4. h.msg.n \in Nat /\ ms[i].n \in Nat
      <4>1. h.msg \in Message /\ ms[i] \in Message
        BY <1>2, <2>3
      <4>2. QED
        BY <4>1 DEF Message
    <3>5. QED
      BY <3>2, <3>3, <3>4
  <2>4. CASE g \notin net[n][m] /\ h \notin net[n][m]
    <3>1. PICK i \in 1..Len(ms) : g.msg = ms[i] /\ g.at = t + i
      BY <1>3, <2>4
    <3>2. PICK j \in 1..Len(ms) : h.msg = ms[j] /\ h.at = t + j
      BY <1>3, <2>4
    <3>3. i < j
      BY <1>5, <3>1, <3>2 DEF Fresh
    <3>4. QED
      BY <1>0, <3>1, <3>2, <3>3
  <2>5. QED
    BY <2>1, <2>2, <2>3, <2>4
<1>6. QED
  BY <1>4, <1>5 DEF Orderly

(* The messages of a sequence that has been posted are on the wire.         *)
LEMMA PostedBears ==
    ASSUME NEW n \in Node, NEW m \in Node, NEW ms, Posts(n, m, ms), NEW i \in 1..Len(ms)
    PROVE  \E g \in net'[n][m] : g.msg = ms[i]
<1> DEFINE g == [msg |-> ms[i], at |-> IF "reorder" \in Faults THEN 0 ELSE sends[n][m] + i]
<1>1. g \in Datagrams(n, m, ms)
  BY DEF Datagrams
<1>2. g \in net'[n][m] /\ g.msg = ms[i]
  BY <1>1 DEF Posts
<1>3. QED
  BY <1>2

(* n begins to wait for no third message from m.                            *)
NoneBegun(n, m) == \A p \in Begun(n, m)' : p.st = "await3" => p \in Begun(n, m)

(* A pair between which nothing gets lost: the writer n, if it still is     *)
(* connected, goes on with its session and posts what it has counted; the   *)
(* reader m goes on, reads nothing from n, and begins to wait for nothing.  *)
Going(n, m, ms) ==
    /\ Posts(n, m, ms) /\ net[n][m] \subseteq net'[n][m]
    /\ conn'[n][m] # None =>
           /\ conn[n][m] # None /\ Dir(conn'[n][m]) = Dir(conn[n][m])
           /\ \A k \in conn[n][m].tx..(conn'[n][m].tx - 1) :
                  \E i \in 1..Len(ms) : Bears(ms[i], Dir(conn[n][m]), k)
    /\ conn'[m][n] # None =>
           /\ conn[m][n] # None /\ Into(conn'[m][n]) = Into(conn[m][n])
           /\ conn'[m][n].rx = conn[m][n].rx
    /\ NoneBegun(m, n)

LEMMA GoingOnWay ==
    ASSUME TypeOK, NEW n \in Node, NEW m \in Node, NEW ms, Going(n, m, ms),
           conn'[n][m] # None, NEW a \in Nat,
           conn'[n][m].tx \in Nat,
           OnWay(net[n][m], Dir(conn[n][m]), a, conn[n][m].tx)
    PROVE  OnWay(net'[n][m], Dir(conn'[n][m]), a, conn'[n][m].tx)
<1>1. PICK k : k = Dir(conn[n][m])
  OBVIOUS
<1>2. /\ conn[n][m] # None /\ Dir(conn'[n][m]) = k
      /\ \A j \in conn[n][m].tx..(conn'[n][m].tx - 1) :
             \E i \in 1..Len(ms) : Bears(ms[i], k, j)
      /\ net[n][m] \subseteq net'[n][m] /\ Posts(n, m, ms)
  BY <1>1 DEF Going
<1>3. PICK x \in Nat : x = conn[n][m].tx
  BY <1>2, CounterTypes
<1>4. PICK y \in Nat : y = conn'[n][m].tx
  OBVIOUS
<1> SUFFICES ASSUME NEW j \in a..(y - 1)
             PROVE  \E g \in net'[n][m] : Bears(g.msg, k, j)
  BY <1>2, <1>4 DEF OnWay
<1>5. CASE j < x
  <2>1. j \in a..(x - 1)
    BY <1>5
  <2>2. QED
    BY <1>1, <1>2, <1>3, <2>1 DEF OnWay
<1>6. CASE x <= j
  <2>1. j \in x..(y - 1)
    BY <1>6
  <2>2. PICK i \in 1..Len(ms) : Bears(ms[i], k, j)
    BY <1>2, <1>3, <1>4, <2>1
  <2>3. PICK g \in net'[n][m] : g.msg = ms[i]
    BY <1>2, PostedBears
  <2>4. QED
    BY <2>2, <2>3
<1>7. QED
  BY <1>5, <1>6

LEMMA GoingPair ==
    ASSUME TypeOK, TypeOK', NEW n \in Node, NEW m \in Node, NEW ms, Going(n, m, ms), PairInv(n, m)
    PROVE  /\ Together(conn'[n][m], conn'[m][n], net'[n][m])
           /\ Awaited(conn'[n][m], Begun(m, n)', net'[n][m])
<1>1. ASSUME conn'[n][m] # None PROVE conn'[n][m].tx \in Nat
  BY <1>1 DEF TypeOK, Connection
<1>2. ASSUME conn'[n][m] # None PROVE conn[n][m] # None /\ Dir(conn'[n][m]) = Dir(conn[n][m])
  BY <1>2 DEF Going
<1>3. ASSUME conn'[n][m] # None, conn'[m][n] # None, Dir(conn'[n][m]) = Into(conn'[m][n])
      PROVE  OnWay(net'[n][m], Dir(conn'[n][m]), conn'[m][n].rx, conn'[n][m].tx)
  <2>1. /\ conn[m][n] # None /\ Into(conn'[m][n]) = Into(conn[m][n])
        /\ conn'[m][n].rx = conn[m][n].rx
    BY <1>3 DEF Going
  <2>2. conn[n][m] # None /\ Dir(conn[n][m]) = Into(conn[m][n])
    BY <1>2, <1>3, <2>1
  <2>3. OnWay(net[n][m], Dir(conn[n][m]), conn[m][n].rx, conn[n][m].tx)
    BY <2>1, <2>2 DEF PairInv, Together
  <2>4. conn[m][n].rx \in Nat
    BY <2>1, CounterTypes
  <2>5. QED
    BY <1>1, <1>3, <2>1, <2>3, <2>4, GoingOnWay
<1>4. ASSUME conn'[n][m] # None, NEW p \in Begun(m, n)', p.st = "await3",
             Dir(conn'[n][m]) = <<p.ei, p.er, "I">>
      PROVE  OnWay(net'[n][m], Dir(conn'[n][m]), 0, conn'[n][m].tx)
  <2>1. p \in Begun(m, n)
    BY <1>4 DEF Going, NoneBegun
  <2>2. OnWay(net[n][m], Dir(conn[n][m]), 0, conn[n][m].tx)
    BY <1>2, <1>4, <2>1 DEF PairInv, Awaited
  <2>3. QED
    BY <1>1, <1>4, <2>2, GoingOnWay
<1>5. QED
  BY <1>3, <1>4 DEF Together, Awaited

(* What a connection encrypts is fresh as long as its counter is ahead.     *)
LEMMA EncryptFresh ==
    ASSUME NEW c, c.tx \in Nat, NEW fs \in Seq(DataFrames), NEW ms, ms = Encrypt(c, fs),
           \A d \in encrypted : Dir(d) = Dir(c) => d.n < c.tx,
           \A d \in encrypted : d.n \in Nat
    PROVE  /\ Fresh(ms)
           /\ \A k \in c.tx..(c.tx + Len(fs) - 1) :
                  \E i \in 1..Len(ms) : Bears(ms[i], Dir(c), k)
<1>1. PICK t \in Nat : t = c.tx
  OBVIOUS
<1>2. PICK l \in Nat : l = Len(fs)
  OBVIOUS
<1>3. Len(ms) = l
  BY <1>2 DEF Encrypt
<1>4. ASSUME NEW i \in 1..l
      PROVE  ms[i].frame \in DataFrames /\ Dir(ms[i]) = Dir(c) /\ ms[i].n = t + i - 1
  <2>1. ms[i] = [frame |-> fs[i], ei |-> c.ei, er |-> c.er, role |-> c.role, n |-> c.tx + i - 1]
    BY <1>2 DEF Encrypt
  <2>2. fs[i] \in DataFrames
    BY <1>2
  <2>3. QED
    BY <1>1, <2>1, <2>2 DEF Dir
<1>5. ASSUME NEW i \in 1..Len(ms) PROVE Honest(ms[i], nextEph', encrypted')
  <2>1. ms[i].frame \in DataFrames
    BY <1>3, <1>4
  <2>2. QED
    BY <2>1 DEF Honest, DataFrames
<1>6. ASSUME NEW i \in 1..Len(ms), NEW d \in encrypted, Dir(d) = Dir(ms[i])
      PROVE  d.n < ms[i].n
  <2>1. Dir(d) = Dir(c) /\ ms[i].n = t + i - 1 /\ i \in 1..l
    BY <1>3, <1>4, <1>6
  <2>2. d.n < t /\ d.n \in Nat
    BY <1>1, <2>1
  <2>3. QED
    BY <2>1, <2>2
<1>7. ASSUME NEW i \in 1..Len(ms), NEW j \in 1..Len(ms), Before(ms[i], ms[j])
      PROVE  i < j
  <2>1. ms[i].n < ms[j].n /\ ms[i].n = t + i - 1 /\ ms[j].n = t + j - 1 /\ i \in 1..l /\ j \in 1..l
    BY <1>3, <1>4, <1>7 DEF Before
  <2>2. QED
    BY <2>1
<1>8. ASSUME NEW k \in c.tx..(c.tx + Len(fs) - 1)
      PROVE  \E i \in 1..Len(ms) : Bears(ms[i], Dir(c), k)
  <2>1. k - t + 1 \in 1..l /\ t + (k - t + 1) - 1 = k
    BY <1>1, <1>2
  <2>2. PICK i \in 1..l : t + i - 1 = k
    BY <2>1
  <2>3. QED
    BY <1>3, <1>4, <2>2 DEF Bears
<1>9. QED
  BY <1>5, <1>6, <1>7, <1>8 DEF Fresh

LEMMA HandshakeFresh ==
    ASSUME NEW h \in Message, h.frame \notin DataFrames, Honest(h, nextEph', encrypted')
    PROVE  Fresh(<<h>>)
BY DEF Fresh, Before

LEMMA NothingFresh == Fresh(<<>>)
BY DEF Fresh

(* A handshake message h ahead of ms.                                       *)
LEMMA AheadFresh ==
    ASSUME NEW h \in Message, h.frame \notin DataFrames, Honest(h, nextEph', encrypted'),
           NEW ms \in Seq(Message), Fresh(ms)
    PROVE  /\ Fresh(<<h>> \o ms) /\ <<h>> \o ms \in Seq(Message)
           /\ \A k, j : (\E i \in 1..Len(ms) : Bears(ms[i], k, j)) =>
                  \E i \in 1..Len(<<h>> \o ms) : Bears((<<h>> \o ms)[i], k, j)
<1>1. PICK l \in Nat : l = Len(ms)
  OBVIOUS
<1>2. PICK q \in Seq(Message) : q = <<h>> \o ms
  <2>1. <<h>> \in Seq(Message)
    OBVIOUS
  <2>2. <<h>> \o ms \in Seq(Message)
    BY <2>1
  <2>3. QED
    BY <2>2
<1>3. Len(q) = l + 1 /\ q[1] = h /\ \A i \in 1..l : q[i + 1] = ms[i]
  BY <1>1, <1>2
<1>4. ASSUME NEW i \in 1..(l + 1) PROVE i = 1 \/ (i - 1 \in 1..l /\ q[i] = ms[i - 1])
  <2>1. CASE i # 1
    <3>1. PICK j \in 1..l : i = j + 1
      <4>1. i - 1 \in 1..l /\ i = (i - 1) + 1
        BY <2>1
      <4>2. QED
        BY <4>1
    <3>2. QED
      BY <1>3, <3>1
  <2>2. QED
    BY <2>1
<1>5. ASSUME NEW i \in 1..Len(q)
      PROVE  /\ Honest(q[i], nextEph', encrypted')
             /\ q[i].frame \in DataFrames => \A d \in encrypted : Dir(d) = Dir(q[i]) => d.n < q[i].n
  BY <1>1, <1>3, <1>4 DEF Fresh
<1>6. ASSUME NEW i \in 1..Len(q), NEW j \in 1..Len(q), Before(q[i], q[j])
      PROVE  i < j
  <2>1. i # 1 /\ j # 1
    BY <1>3, <1>6 DEF Before
  <2>2. i - 1 \in 1..l /\ q[i] = ms[i - 1] /\ j - 1 \in 1..l /\ q[j] = ms[j - 1]
    BY <1>3, <1>4, <2>1
  <2>3. i - 1 < j - 1
    BY <1>1, <1>6, <2>2 DEF Fresh
  <2>4. QED
    BY <1>3, <2>3
<1>7. ASSUME NEW k, NEW j, NEW i \in 1..Len(ms), Bears(ms[i], k, j)
      PROVE  \E x \in 1..Len(q) : Bears(q[x], k, j)
  <2>1. i + 1 \in 1..Len(q) /\ q[i + 1] = ms[i]
    BY <1>1, <1>3
  <2>2. QED
    BY <1>7, <2>1
<1>8. QED
  BY <1>2, <1>5, <1>6, <1>7 DEF Fresh

LEMMA EmitPosts ==
    ASSUME TypeOK, NEW n \in Node, NEW m \in Node, NEW ms \in Seq(Message), Emit(n, m, ms)
    PROVE  \A x, y \in Node :
               /\ Posts(x, y, IF x = n /\ y = m THEN ms ELSE <<>>)
               /\ net[x][y] \subseteq net'[x][y]
<1> SUFFICES ASSUME NEW x \in Node, NEW y \in Node
             PROVE  /\ Posts(x, y, IF x = n /\ y = m THEN ms ELSE <<>>)
                    /\ net[x][y] \subseteq net'[x][y]
  OBVIOUS
<1>1. /\ net' = [net EXCEPT ![n][m] = @ \union Datagrams(n, m, ms)]
      /\ sends' = [sends EXCEPT ![n][m] = @ + Len(ms)]
  BY DEF Emit
<1>2. CASE x = n /\ y = m
  <2>1. net'[n][m] = net[n][m] \union Datagrams(n, m, ms) /\ sends'[n][m] = sends[n][m] + Len(ms)
    BY <1>1 DEF TypeOK
  <2>2. QED
    BY <1>2, <2>1 DEF Posts
<1>3. CASE ~(x = n /\ y = m)
  <2>1. net'[x][y] = net[x][y] /\ sends'[x][y] = sends[x][y]
    BY <1>1, <1>3 DEF TypeOK
  <2>2. Datagrams(x, y, <<>>) = {} /\ Len(<<>>) = 0 /\ sends[x][y] \in Nat
    BY DEF Datagrams, TypeOK
  <2>3. Posts(x, y, <<>>)
    BY <2>1, <2>2 DEF Posts
  <2>4. QED
    BY <1>3, <2>1, <2>3
<1>4. QED
  BY <1>2, <1>3

LEMMA StillPosts ==
    ASSUME TypeOK, NEW n \in Node, NEW m \in Node, net'[n][m] \subseteq net[n][m],
           sends'[n][m] = sends[n][m]
    PROVE  Posts(n, m, <<>>)
<1>1. Datagrams(n, m, <<>>) = {} /\ Len(<<>>) = 0 /\ sends[n][m] \in Nat
  BY DEF Datagrams, TypeOK
<1>2. QED
  BY <1>1 DEF Posts

LEMMA WirePosts ==
    ASSUME TypeOK, NEW s \in Node, NEW r \in Node, s # r, NEW g,
           NEW out \in [Node -> Seq(Message)], Wire(s, r, g, out)
    PROVE  /\ \A m \in Node : Posts(r, m, out[m])
           /\ \A n, m \in Node : n # r => Posts(n, m, <<>>)
           /\ \A n, m \in Node : ~(n = s /\ m = r) => net[n][m] \subseteq net'[n][m]
           /\ \A h \in net[s][r] : h # g => h \in net'[s][r]
<1>1. /\ net' = [net EXCEPT ![s][r] = Rest(s, r, g),
                            ![r] = [m \in Node |-> net[r][m] \union Datagrams(r, m, out[m])]]
      /\ sends' = [sends EXCEPT ![r] = [m \in Node |-> sends[r][m] + Len(out[m])]]
  BY DEF Wire
<1>2. \A m \in Node : net'[r][m] = net[r][m] \union Datagrams(r, m, out[m])
  BY <1>1 DEF TypeOK
<1>3. \A m \in Node : sends'[r][m] = sends[r][m] + Len(out[m])
  BY <1>1 DEF TypeOK
<1>4. \A n, m \in Node : n # r => sends'[n][m] = sends[n][m]
  BY <1>1 DEF TypeOK
<1>5. \A n, m \in Node : n # r /\ ~(n = s /\ m = r) => net'[n][m] = net[n][m]
  BY <1>1 DEF TypeOK
<1>6. net'[s][r] = Rest(s, r, g)
  BY <1>1 DEF TypeOK
<1>7. Rest(s, r, g) \subseteq net[s][r] /\ \A h \in net[s][r] : h # g => h \in Rest(s, r, g)
  BY DEF Rest
<1>8. \A m \in Node : Posts(r, m, out[m])
  BY <1>2, <1>3 DEF Posts
<1>9. ASSUME NEW n \in Node, NEW m \in Node, n # r PROVE Posts(n, m, <<>>)
  <2>1. net'[n][m] \subseteq net[n][m]
    BY <1>5, <1>6, <1>7, <1>9
  <2>2. QED
    BY <1>4, <1>9, <2>1, StillPosts
<1>10. QED
  BY <1>2, <1>5, <1>6, <1>7, <1>8, <1>9

(* A connection that goes on stays settled while no handshake comes beside  *)
(* it.                                                                      *)
Calm(n, m) ==
    conn'[n][m] # None =>
        /\ conn[n][m] # None /\ Into(conn'[n][m]) = Into(conn[n][m])
        /\ pending'[n][m] = None \/ pending'[n][m] = pending[n][m]
        /\ starting'[n][m] \subseteq starting[n][m]

LEMMA SettledNext ==
    ASSUME TypeOK, TypeOK', Later, NEW n \in Node, NEW m \in Node, Calm(n, m),
           Settled(conn[n][m], pending[n][m], starting[n][m], nextEph, encrypted)
    PROVE  Settled(conn'[n][m], pending'[n][m], starting'[n][m], nextEph', encrypted')
<1> SUFFICES ASSUME conn'[n][m] # None
             PROVE  Settled(conn'[n][m], pending'[n][m], starting'[n][m], nextEph', encrypted')
  BY DEF Settled
<1>1. PICK c : c = conn[n][m]
  OBVIOUS
<1>2. PICK d : d = conn'[n][m]
  OBVIOUS
<1>3. /\ c # None /\ Into(d) = Into(c)
      /\ pending'[n][m] = None \/ pending'[n][m] = pending[n][m]
      /\ starting'[n][m] \subseteq starting[n][m]
  BY <1>1, <1>2 DEF Calm
<1>4. /\ pending[n][m] = None /\ starting[n][m] = {} /\ c.er < nextEph
      /\ c.role = "R" => Spent(Into(c), encrypted)
  BY <1>1, <1>3 DEF Settled
<1>5. c \in Connection /\ d \in Connection
  BY <1>1, <1>2, <1>3 DEF TypeOK
<1>6. d.er = c.er /\ Other(d.role) = Other(c.role) /\ c.er \in Int
  BY <1>3, <1>5 DEF Into, Connection, Eph, Junk
<1>7. d.role = c.role
  BY <1>5, <1>6 DEF Other, Connection, Role
<1>8. nextEph \in Int /\ nextEph' \in Int
  BY DEF TypeOK
<1>9. d.er < nextEph'
  BY <1>4, <1>6, <1>8 DEF Later
<1>10. d.role = "R" => Spent(Into(d), encrypted')
  BY <1>3, <1>4, <1>7 DEF Spent, Later
<1>11. pending'[n][m] = None /\ starting'[n][m] = {}
  BY <1>3, <1>4
<1>12. QED
  BY <1>2, <1>9, <1>10, <1>11 DEF Settled

LEMMA PairStep ==
    ASSUME Punctual, TypeOK, TypeOK', Later, DataSent, NEW n \in Node, NEW m \in Node, PairInv(n, m),
           NEW ms \in Seq(Message), Fresh(ms), Going(n, m, ms), Calm(n, m)
    PROVE  PairInv(n, m)'
<1>1. Orderly(net'[n][m], sends'[n][m], nextEph', encrypted')
  BY OrderlyNext DEF PairInv, Going
<1>2. Settled(conn'[n][m], pending'[n][m], starting'[n][m], nextEph', encrypted')
  BY SettledNext DEF PairInv
<1>3. /\ Together(conn'[n][m], conn'[m][n], net'[n][m])
      /\ Awaited(conn'[n][m], Begun(m, n)', net'[n][m])
  BY GoingPair
<1>4. QED
  BY <1>1, <1>2, <1>3 DEF PairInv

LEMMA UnmovedGoing ==
    ASSUME TypeOK, NEW n \in Node, NEW m \in Node, NEW ms, Posts(n, m, ms),
           net[n][m] \subseteq net'[n][m],
           conn'[n][m] = None \/ conn'[n][m] = conn[n][m],
           conn'[m][n] = None \/ conn'[m][n] = conn[m][n],
           NoneBegun(m, n)
    PROVE  Going(n, m, ms)
<1>1. ASSUME conn'[n][m] # None
      PROVE  /\ conn[n][m] # None /\ Dir(conn'[n][m]) = Dir(conn[n][m])
             /\ conn[n][m].tx..(conn'[n][m].tx - 1) = {}
  <2>1. conn'[n][m] = conn[n][m] /\ conn[n][m].tx \in Nat
    BY <1>1, CounterTypes
  <2>2. PICK t \in Nat : t = conn[n][m].tx
    BY <2>1
  <2>3. t..(t - 1) = {}
    OBVIOUS
  <2>4. QED
    BY <1>1, <2>1, <2>2, <2>3
<1>2. ASSUME conn'[m][n] # None
      PROVE  /\ conn[m][n] # None /\ Into(conn'[m][n]) = Into(conn[m][n])
             /\ conn'[m][n].rx = conn[m][n].rx
  BY <1>2
<1>3. QED
  BY <1>1, <1>2 DEF Going

(* A step that no connection reads or writes in.                            *)
LEMMA QuietSync ==
    ASSUME Punctual, KeyInv, TypeOK', Later, DataSent, SyncInv,
           NEW n \in Node, NEW m \in Node, NEW ms \in Seq(Message), Fresh(ms),
           \/ Emit(n, m, ms)
           \/ UNCHANGED <<net, sends>> /\ ms = <<>>,
           \A x, y \in Node :
               /\ conn'[x][y] = None \/ conn'[x][y] = conn[x][y]
               /\ NoneBegun(x, y)
               /\ Calm(x, y)
    PROVE  SyncInv'
<1>0. TypeOK
  BY DEF KeyInv
<1>1. \A x, y \in Node :
          /\ Posts(x, y, IF x = n /\ y = m THEN ms ELSE <<>>)
          /\ net[x][y] \subseteq net'[x][y]
  <2>1. CASE Emit(n, m, ms)
    BY <1>0, <2>1, EmitPosts
  <2>2. CASE UNCHANGED <<net, sends>> /\ ms = <<>>
    BY <1>0, <2>2, StillPosts
  <2>3. QED
    BY <2>1, <2>2
<1>2. SUFFICES ASSUME NEW x \in Node, NEW y \in Node PROVE PairInv(x, y)'
  BY DEF SyncInv
<1>3. PICK o \in Seq(Message) : o = IF x = n /\ y = m THEN ms ELSE <<>>
  <2>1. <<>> \in Seq(Message)
    OBVIOUS
  <2>2. QED
    BY <2>1
<1>4. Fresh(o) /\ Posts(x, y, o) /\ net[x][y] \subseteq net'[x][y]
  BY <1>1, <1>3, NothingFresh
<1>5. Going(x, y, o)
  BY <1>0, <1>4, UnmovedGoing
<1>6. PairInv(x, y)
  BY DEF SyncInv
<1>7. QED
  BY <1>0, <1>4, <1>5, <1>6, PairStep

LEMMA InitiateSync ==
    ASSUME Punctual, KeyInv, TypeOK', Later, DataSent, SyncInv,
           NEW n \in Node, NEW m \in Node, Initiate(n, m),
           starting'[n][m] \subseteq starting[n][m] \/ conn[n][m] = None
    PROVE  SyncInv'
<1>0. TypeOK
  BY DEF KeyInv
<1>1. PICK h \in Message : h = Handshake("hs1", nextEph, Junk, "I")
  BY HandshakeType DEF Initiate, Role
<1>2. Emit(n, m, <<h>>) /\ <<h>> \in Seq(Message)
  BY <1>1 DEF Initiate
<1>3. Fresh(<<h>>)
  <2>1. h.frame = "hs1"
    BY <1>1 DEF Handshake
  <2>2. h.frame \notin DataFrames /\ Honest(h, nextEph', encrypted')
    BY <2>1 DEF DataFrames, Honest
  <2>3. QED
    BY <2>2, HandshakeFresh
<1>4. PICK w : w = Await2(nextEph)
  OBVIOUS
<1>5. PICK S : S = starting[n][m] \union {w}
  OBVIOUS
<1>6. /\ starting' = [starting EXCEPT ![n][m] = S]
      /\ UNCHANGED <<conn, pending>>
  BY <1>4, <1>5 DEF Initiate
<1>7. ASSUME NEW x \in Node, NEW y \in Node PROVE NoneBegun(x, y) /\ Calm(x, y)
  <2>1. ~(x = n /\ y = m) => starting'[x][y] = starting[x][y]
    BY <1>0, <1>6, OtherPlace
  <2>2. starting'[n][m] = S
    BY <1>0, <1>6, OtherPlace
  <2>3. w.st # "await3"
    BY <1>4 DEF Await2
  <2>4. NoneBegun(x, y)
    BY <1>5, <1>6, <2>1, <2>2, <2>3 DEF NoneBegun, Begun
  <2>5. QED
    BY <1>6, <2>1, <2>4 DEF Calm
<1>8. \A x, y \in Node : conn'[x][y] = conn[x][y]
  BY <1>6
<1>9. QED
  BY <1>2, <1>3, <1>7, <1>8, QuietSync

LEMMA InsertSync ==
    ASSUME Punctual, KeyInv, TypeOK', Later, DataSent, SyncInv,
           NEW n \in Node, NEW m \in Node, InsertPending(n, m)
    PROVE  SyncInv'
<1>0. TypeOK
  BY DEF KeyInv
<1>1. PICK h \in starting[n][m] :
          /\ starting' = [starting EXCEPT ![n][m] = @ \ {h}]
          /\ pending' = [pending EXCEPT ![n][m] = h]
          /\ UNCHANGED <<conn, net, sends>>
  BY DEF InsertPending
<1>2. conn[n][m] = None
  <2>1. PairInv(n, m)
    BY DEF SyncInv
  <2>2. QED
    BY <1>1, <2>1 DEF PairInv, Settled
<1>3. PICK S : S = starting[n][m] \ {h} /\ starting' = [starting EXCEPT ![n][m] = S]
  BY <1>1
<1>4. /\ starting'[n][m] = S /\ pending'[n][m] = h
      /\ \A x, y \in Node : ~(x = n /\ y = m) =>
             starting'[x][y] = starting[x][y] /\ pending'[x][y] = pending[x][y]
  <2>1. /\ starting'[n][m] = S
        /\ \A x, y \in Node : ~(x = n /\ y = m) => starting'[x][y] = starting[x][y]
    BY <1>0, <1>3, OtherPlace
  <2>2. /\ pending'[n][m] = h
        /\ \A x, y \in Node : ~(x = n /\ y = m) => pending'[x][y] = pending[x][y]
    BY <1>0, <1>1, OtherPlace
  <2>3. QED
    BY <2>1, <2>2
<1>5. ASSUME NEW x \in Node, NEW y \in Node
      PROVE  conn'[x][y] = conn[x][y] /\ NoneBegun(x, y) /\ Calm(x, y)
  <2>1. Begun(x, y)' \subseteq Begun(x, y)
    <3>1. CASE x = n /\ y = m
      BY <1>3, <1>4, <3>1 DEF Begun
    <3>2. CASE ~(x = n /\ y = m)
      BY <1>4, <3>2 DEF Begun
    <3>3. QED
      BY <3>1, <3>2
  <2>2. NoneBegun(x, y)
    BY <2>1 DEF NoneBegun
  <2>3. Calm(x, y)
    BY <1>1, <1>2, <1>4 DEF Calm
  <2>4. QED
    BY <1>1, <2>2, <2>3
<1>6. <<>> \in Seq(Message) /\ Fresh(<<>>)
  BY NothingFresh
<1>7. UNCHANGED <<net, sends>>
  BY <1>1
<1>8. QED
  BY <1>5, <1>6, <1>7, QuietSync

LEMMA DownSync ==
    ASSUME Punctual, KeyInv, TypeOK', Later, DataSent, SyncInv,
           NEW n \in Node, NEW m \in Node, Disconnect(n, m) \/ Restart(n)
    PROVE  SyncInv'
<1>0. TypeOK
  BY DEF KeyInv
<1>1. UNCHANGED <<net, sends>>
  BY DEF Disconnect, Restart
<1>2. ASSUME NEW x \in Node, NEW y \in Node
      PROVE  /\ conn'[x][y] = None \/ conn'[x][y] = conn[x][y]
             /\ pending'[x][y] = None \/ pending'[x][y] = pending[x][y]
             /\ starting'[x][y] \subseteq starting[x][y]
  <2>1. CASE Disconnect(n, m)
    <3>1. conn' = [conn EXCEPT ![n][m] = None] /\ UNCHANGED <<pending, starting>>
      BY <2>1 DEF Disconnect
    <3>2. QED
      BY <1>0, <3>1, OtherPlace
  <2>2. CASE Restart(n)
    BY <1>0, <2>2 DEF Restart, TypeOK
  <2>3. QED
    BY <2>1, <2>2
<1>3. None.st # "await3"
  BY DEF None
<1>4. ASSUME NEW x \in Node, NEW y \in Node
      PROVE  /\ conn'[x][y] = None \/ conn'[x][y] = conn[x][y]
             /\ NoneBegun(x, y)
             /\ Calm(x, y)
  BY <1>2, <1>3 DEF Calm, NoneBegun, Begun
<1>5. <<>> \in Seq(Message) /\ Fresh(<<>>)
  BY NothingFresh
<1>6. QED
  BY <1>1, <1>4, <1>5, QuietSync

(* A connection that writes fs: what it posts is fresh and covers its count.*)
LEMMA WritesFresh ==
    ASSUME KeyInv, NEW n \in Node, NEW m \in Node, conn[n][m] # None, NEW fs \in Seq(DataFrames)
    PROVE  /\ Encrypt(conn[n][m], fs) \in Seq(Message) /\ Fresh(Encrypt(conn[n][m], fs))
           /\ \A k \in conn[n][m].tx..(conn[n][m].tx + Len(fs) - 1) :
                  \E i \in 1..Len(Encrypt(conn[n][m], fs)) :
                      Bears(Encrypt(conn[n][m], fs)[i], Dir(conn[n][m]), k)
<1>0. TypeOK
  BY DEF KeyInv
<1>1. PICK c \in Connection : c = conn[n][m]
  BY <1>0, CounterTypes
<1>2. c.tx \in Nat /\ c # None
  BY <1>1 DEF Connection
<1>3. \A d \in encrypted : d.n \in Nat
  BY <1>0, KeyFacts
<1>4. ASSUME NEW d \in encrypted, Dir(d) = Dir(c) PROVE d.n < c.tx
  <2>1. Key(d) = Key(c)
    BY <1>4 DEF Dir, Key
  <2>2. QED
    BY <1>1, <1>2, <2>1 DEF KeyInv, Ahead
<1>5. PICK ms : ms = Encrypt(c, fs)
  OBVIOUS
<1>6. /\ Fresh(ms)
      /\ \A k \in c.tx..(c.tx + Len(fs) - 1) : \E i \in 1..Len(ms) : Bears(ms[i], Dir(c), k)
  BY <1>2, <1>3, <1>4, <1>5, EncryptFresh
<1>7. Encrypt(c, fs) \in Seq(Message)
  BY EncryptType
<1>8. QED
  BY <1>1, <1>5, <1>6, <1>7

LEMMA AppSync ==
    ASSUME Punctual, KeyInv, TypeOK', Later, DataSent, SyncInv,
           NEW n \in Node, NEW m \in Node, AppSend(n, m)
    PROVE  SyncInv'
<1>0. TypeOK
  BY DEF KeyInv
<1>1. /\ n # m /\ conn[n][m] # None
      /\ Emit(n, m, Encrypt(conn[n][m], <<"App">>))
      /\ conn' = [conn EXCEPT ![n][m] = Sending(conn[n][m], 1)]
      /\ UNCHANGED <<pending, starting>>
  BY DEF AppSend
<1>2. PICK c \in Connection : c = conn[n][m]
  BY <1>0, <1>1, CounterTypes
<1>3. PICK ms : ms = Encrypt(c, <<"App">>)
  OBVIOUS
<1>4. <<"App">> \in Seq(DataFrames) /\ Len(<<"App">>) = 1
  BY DEF DataFrames
<1>5. /\ ms \in Seq(Message) /\ Fresh(ms) /\ Emit(n, m, ms)
      /\ \A k \in c.tx..(c.tx + 1 - 1) : \E i \in 1..Len(ms) : Bears(ms[i], Dir(c), k)
  BY <1>1, <1>2, <1>3, <1>4, WritesFresh
<1>6. PICK d : d = Sending(c, 1)
  OBVIOUS
<1>7. Dir(d) = Dir(c) /\ Into(d) = Into(c) /\ d.tx = c.tx + 1 /\ d.rx = c.rx
  BY <1>6, SessionUpdates
<1>8. conn'[n][m] = d /\ \A x, y \in Node : ~(x = n /\ y = m) => conn'[x][y] = conn[x][y]
  <2>1. conn' = [conn EXCEPT ![n][m] = d]
    BY <1>1, <1>2, <1>6
  <2>2. QED
    BY <1>0, <2>1, OtherPlace
<1>9. \A x, y \in Node : /\ Posts(x, y, IF x = n /\ y = m THEN ms ELSE <<>>)
                         /\ net[x][y] \subseteq net'[x][y]
  BY <1>0, <1>5, EmitPosts
<1>10. SUFFICES ASSUME NEW x \in Node, NEW y \in Node PROVE PairInv(x, y)'
  BY DEF SyncInv
<1>11. PairInv(x, y) /\ \A u, v \in Node : NoneBegun(u, v)
  BY <1>1 DEF SyncInv, NoneBegun, Begun
<1>12. Calm(x, y)
  BY <1>1, <1>2, <1>7, <1>8 DEF Calm
<1>13. PICK o \in Seq(Message) : o = IF x = n /\ y = m THEN ms ELSE <<>>
  <2>1. <<>> \in Seq(Message)
    OBVIOUS
  <2>2. QED
    BY <1>5, <2>1
<1>14. Fresh(o) /\ Posts(x, y, o) /\ net[x][y] \subseteq net'[x][y]
  BY <1>5, <1>9, <1>13, NothingFresh
<1>15. Going(x, y, o)
  <2>1. CASE x = n /\ y = m
    <3>1. conn'[m][n] = conn[m][n] /\ NoneBegun(m, n)
      BY <1>1, <1>8, <1>11
    <3>2. \A k \in c.tx..(d.tx - 1) : \E i \in 1..Len(o) : Bears(o[i], Dir(c), k)
      <4>1. PICK t \in Nat : t = c.tx
        BY <1>0, <1>1, <1>2, CounterTypes
      <4>2. c.tx + 1 - 1 = d.tx - 1
        BY <1>7, <4>1
      <4>3. o = ms
        BY <1>13, <2>1
      <4>4. QED
        BY <1>5, <4>2, <4>3
    <3>3. QED
      BY <1>1, <1>2, <1>7, <1>8, <1>14, <2>1, <3>1, <3>2 DEF Going
  <2>2. CASE x = m /\ y = n
    <3>1. conn'[x][y] = conn[x][y]
      BY <1>1, <1>8, <2>2
    <3>2. CASE conn'[x][y] = None
      BY <1>1, <1>2, <1>7, <1>8, <1>11, <1>14, <2>2, <3>2 DEF Going
    <3>3. CASE conn'[x][y] # None
      <4>1. PICK t \in Nat : t = conn[x][y].tx
        BY <1>0, <3>1, <3>3, CounterTypes
      <4>2. t..(t - 1) = {}
        OBVIOUS
      <4>3. QED
        BY <1>1, <1>2, <1>7, <1>8, <1>11, <1>14, <2>2, <3>1, <4>1, <4>2 DEF Going
    <3>4. QED
      BY <3>2, <3>3
  <2>3. CASE ~(x = n /\ y = m) /\ ~(x = m /\ y = n)
    BY <1>0, <1>8, <1>11, <1>14, <2>3, UnmovedGoing
  <2>4. QED
    BY <2>1, <2>2, <2>3
<1>16. QED
  BY <1>0, <1>11, <1>12, <1>14, <1>15, PairStep

-----------------------------------------------------------------------------
(* What is received.                                                        *)

(* A datagram that arrives is the oldest, and no handshake with its sender  *)
(* is without its pending entry.                                            *)
LEMMA ArrivesFacts ==
    ASSUME Punctual, NEW s, NEW r, NEW g, Arrives(s, r, g)
    PROVE  s # r /\ starting[r][s] = {} /\ \A h \in net[s][r] : g.at =< h.at
BY DEF Punctual, Arrives

(* A connection reads what is due: the rest remains on the wire.            *)
LEMMA ReadTogether ==
    ASSUME TypeOK, NEW s \in Node, NEW r \in Node, NEW g \in net[s][r],
           conn[r][s] # None, Decrypts(conn[r][s], g.msg),
           \A h \in net[s][r] : h # g => h \in net'[s][r],
           conn'[s][r] = conn[s][r],
           conn'[r][s] # None => /\ Into(conn'[r][s]) = Into(conn[r][s])
                                 /\ conn'[r][s].rx = conn[r][s].rx + 1,
           Together(conn[s][r], conn[r][s], net[s][r])
    PROVE  Together(conn'[s][r], conn'[r][s], net'[s][r])
<1> SUFFICES ASSUME conn[s][r] # None, conn'[r][s] # None, Dir(conn[s][r]) = Into(conn[r][s])
             PROVE  OnWay(net'[s][r], Dir(conn[s][r]), conn'[r][s].rx, conn[s][r].tx)
  BY DEF Together
<1>1. PICK x \in Nat : x = conn[r][s].rx
  BY CounterTypes
<1>2. PICK t \in Nat : t = conn[s][r].tx
  BY CounterTypes
<1>3. PICK k : k = Dir(conn[s][r])
  OBVIOUS
<1>4. OnWay(net[s][r], k, x, t)
  BY <1>1, <1>2, <1>3 DEF Together
<1>5. g.msg.n = x
  BY <1>1 DEF Decrypts
<1>6. conn'[r][s].rx = x + 1
  BY <1>1
<1>7. ASSUME NEW i \in (x + 1)..(t - 1)
      PROVE  \E h \in net'[s][r] : Bears(h.msg, k, i)
  <2>1. i \in x..(t - 1) /\ i # x
    BY <1>7
  <2>2. PICK h \in net[s][r] : Bears(h.msg, k, i)
    BY <1>4, <2>1 DEF OnWay
  <2>3. h # g
    BY <1>5, <2>1, <2>2 DEF Bears
  <2>4. QED
    BY <2>2, <2>3
<1>8. QED
  BY <1>2, <1>3, <1>6, <1>7 DEF OnWay

(* A connection drops what it cannot decrypt: it is nothing that is due, or *)
(* what is due before it would have come first.                             *)
LEMMA DropTogether ==
    ASSUME TypeOK, NEW s \in Node, NEW r \in Node, NEW g \in net[s][r],
           conn[r][s] # None, ~Decrypts(conn[r][s], g.msg),
           \A h \in net[s][r] : h # g => h \in net'[s][r],
           \A h \in net[s][r] : g.at =< h.at,
           conn'[s][r] = conn[s][r], conn'[r][s] = conn[r][s],
           Orderly(net[s][r], sends[s][r], nextEph, encrypted),
           Together(conn[s][r], conn[r][s], net[s][r])
    PROVE  Together(conn'[s][r], conn'[r][s], net'[s][r])
<1> SUFFICES ASSUME conn[s][r] # None, Dir(conn[s][r]) = Into(conn[r][s])
             PROVE  OnWay(net'[s][r], Dir(conn[s][r]), conn[r][s].rx, conn[s][r].tx)
  BY DEF Together
<1>1. PICK x \in Nat : x = conn[r][s].rx
  BY CounterTypes
<1>2. PICK t \in Nat : t = conn[s][r].tx
  BY CounterTypes
<1>3. PICK k : k = Dir(conn[s][r])
  OBVIOUS
<1>4. OnWay(net[s][r], k, x, t)
  BY <1>1, <1>2, <1>3 DEF Together
<1>5. ASSUME Bears(g.msg, k, x) PROVE FALSE
  <2>1. /\ g.msg.frame \in DataFrames /\ g.msg.n = conn[r][s].rx
        /\ Dir(g.msg) = Into(conn[r][s])
    BY <1>1, <1>3, <1>5 DEF Bears
  <2>2. Decrypts(conn[r][s], g.msg)
    BY <2>1 DEF Decrypts, Dir, Into
  <2>3. QED
    BY <2>2
<1>6. ASSUME NEW i \in x..(t - 1), Bears(g.msg, k, i) PROVE FALSE
  <2>1. x \in x..(t - 1)
    BY <1>6
  <2>2. PICK h \in net[s][r] : Bears(h.msg, k, x)
    BY <1>4, <2>1 DEF OnWay
  <2>3. i # x
    BY <1>5, <1>6
  <2>4. Before(h.msg, g.msg)
    <3>1. h.msg.n = x /\ g.msg.n = i /\ x < i
      BY <1>6, <2>2, <2>3 DEF Bears
    <3>2. QED
      BY <1>6, <2>2, <3>1 DEF Bears, Before
  <2>5. h.at < g.at
    BY <2>2, <2>4 DEF Orderly
  <2>6. g.at =< h.at
    BY <2>2
  <2>7. g.at \in Nat /\ h.at \in Nat
    BY <2>2 DEF TypeOK, Datagram
  <2>8. QED
    BY <2>5, <2>6, <2>7
<1>7. ASSUME NEW i \in x..(t - 1)
      PROVE  \E h \in net'[s][r] : Bears(h.msg, k, i)
  <2>1. PICK h \in net[s][r] : Bears(h.msg, k, i)
    BY <1>4, <1>7 DEF OnWay
  <2>2. h # g
    BY <1>6, <1>7, <2>1
  <2>3. QED
    BY <2>1, <2>2
<1>8. QED
  BY <1>1, <1>2, <1>3, <1>7 DEF OnWay

(* The connection of r to m, if there still is one, goes on with its        *)
(* session, posts what it has counted in ms, and has read as far as rx.     *)
Resumes(r, m, ms, rx) ==
    conn'[r][m] # None =>
        /\ conn[r][m] # None
        /\ Dir(conn'[r][m]) = Dir(conn[r][m]) /\ Into(conn'[r][m]) = Into(conn[r][m])
        /\ conn'[r][m].rx = rx
        /\ \A k \in conn[r][m].tx..(conn'[r][m].tx - 1) :
               \E i \in 1..Len(ms) : Bears(ms[i], Dir(conn[r][m]), k)

LEMMA UnmovedResumes ==
    ASSUME TypeOK, NEW n \in Node, NEW m \in Node, NEW ms,
           conn'[n][m] = None \/ conn'[n][m] = conn[n][m]
    PROVE  Resumes(n, m, ms, conn[n][m].rx)
<1> SUFFICES ASSUME conn'[n][m] # None PROVE Resumes(n, m, ms, conn[n][m].rx)
  BY DEF Resumes
<1>1. PICK t \in Nat : t = conn[n][m].tx
  BY CounterTypes
<1>2. t..(t - 1) = {}
  OBVIOUS
<1>3. QED
  BY <1>1, <1>2 DEF Resumes

LEMMA ResumesGoing ==
    ASSUME NEW n \in Node, NEW m \in Node, NEW ms, NEW x, Posts(n, m, ms),
           net[n][m] \subseteq net'[n][m], Resumes(n, m, ms, x),
           NEW o, Resumes(m, n, o, conn[m][n].rx),
           NoneBegun(m, n)
    PROVE  Going(n, m, ms)
BY DEF Resumes, Going

(* What r receives from s disturbs no other pair; what it does to these two *)
(* is left to say.                                                          *)
LEMMA ReceivedSync ==
    ASSUME Punctual, KeyInv, TypeOK', Later, DataSent, SyncInv,
           NEW s \in Node, NEW r \in Node, s # r, NEW g \in net[s][r],
           NEW out \in [Node -> Seq(Message)], Wire(s, r, g, out),
           \A m \in Node : Fresh(out[m]),
           \A x, y \in Node : ~(x = r /\ y = s) =>
               pending'[x][y] = pending[x][y] /\ starting'[x][y] = starting[x][y],
           \A x, y \in Node : x # r => conn'[x][y] = conn[x][y],
           \A m \in Node \ {s} : Resumes(r, m, out[m], conn[r][m].rx),
           Together(conn'[s][r], conn'[r][s], net'[s][r]),
           Awaited(conn'[s][r], Begun(r, s)', net'[s][r]),
           Settled(conn'[r][s], pending'[r][s], starting'[r][s], nextEph', encrypted'),
           Together(conn'[r][s], conn'[s][r], net'[r][s]),
           Awaited(conn'[r][s], Begun(s, r)', net'[r][s])
    PROVE  SyncInv'
<1>0. TypeOK
  BY DEF KeyInv
<1>1. SUFFICES ASSUME NEW x \in Node, NEW y \in Node PROVE PairInv(x, y)'
  BY DEF SyncInv
<1>2. PairInv(x, y)
  BY DEF SyncInv
<1>3. PICK o \in Seq(Message) : o = IF x = r THEN out[y] ELSE <<>>
  <2>1. <<>> \in Seq(Message) /\ out[y] \in Seq(Message)
    OBVIOUS
  <2>2. QED
    BY <2>1
<1>4. Posts(x, y, o) /\ Fresh(o) /\ (~(x = s /\ y = r) => net[x][y] \subseteq net'[x][y])
  <2>1. /\ Posts(r, y, out[y])
        /\ x # r => Posts(x, y, <<>>)
        /\ ~(x = s /\ y = r) => net[x][y] \subseteq net'[x][y]
    BY <1>0, WirePosts
  <2>2. Fresh(out[y])
    OBVIOUS
  <2>3. QED
    BY <1>3, <2>1, <2>2, NothingFresh
<1>5. Orderly(net'[x][y], sends'[x][y], nextEph', encrypted')
  BY <1>0, <1>2, <1>4, OrderlyNext DEF PairInv
<1>6. CASE x = r /\ y = s
  BY <1>5, <1>6 DEF PairInv
<1>7. CASE x = s /\ y = r
  <2>1. Calm(x, y)
    <3>1. ~(x = r /\ y = s) /\ x # r
      BY <1>7
    <3>2. QED
      BY <3>1 DEF Calm
  <2>2. Settled(conn'[x][y], pending'[x][y], starting'[x][y], nextEph', encrypted')
    BY <1>0, <1>2, <2>1, SettledNext DEF PairInv
  <2>3. QED
    BY <1>5, <1>7, <2>2 DEF PairInv
<1>8. CASE ~(x = r /\ y = s) /\ ~(x = s /\ y = r)
  <2>1. Resumes(x, y, o, conn[x][y].rx)
    <3>1. CASE x = r
      <4>1. y \in Node \ {s} /\ o = out[y]
        BY <1>3, <1>8, <3>1
      <4>2. QED
        BY <3>1, <4>1
    <3>2. CASE x # r
      BY <1>0, <3>2, UnmovedResumes
    <3>3. QED
      BY <3>1, <3>2
  <2>2. \E q : Resumes(y, x, q, conn[y][x].rx)
    <3>1. CASE y = r
      <4>1. x \in Node \ {s}
        BY <1>8, <3>1
      <4>2. Resumes(r, x, out[x], conn[r][x].rx)
        BY <4>1
      <4>3. QED
        BY <3>1, <4>2
    <3>2. CASE y # r
      BY <1>0, <3>2, UnmovedResumes
    <3>3. QED
      BY <3>1, <3>2
  <2>3. /\ pending'[x][y] = pending[x][y] /\ pending'[y][x] = pending[y][x]
        /\ starting'[x][y] = starting[x][y] /\ starting'[y][x] = starting[y][x]
    BY <1>8
  <2>4. Going(x, y, o)
    <3>1. NoneBegun(y, x)
      BY <2>3 DEF NoneBegun, Begun
    <3>2. QED
      BY <1>4, <1>8, <2>1, <2>2, <3>1, ResumesGoing
  <2>5. Calm(x, y)
    BY <2>1, <2>3 DEF Calm, Resumes
  <2>6. QED
    BY <1>0, <1>2, <1>4, <2>4, <2>5, PairStep
<1>9. QED
  BY <1>6, <1>7, <1>8

(* r's connection to s, if there still is one, goes on too.                 *)
LEMMA ResumedSync ==
    ASSUME Punctual, KeyInv, TypeOK', Later, DataSent, SyncInv,
           NEW s \in Node, NEW r \in Node, s # r, NEW g \in net[s][r],
           NEW out \in [Node -> Seq(Message)], Wire(s, r, g, out),
           \A m \in Node : Fresh(out[m]),
           \A x, y \in Node : ~(x = r /\ y = s) =>
               pending'[x][y] = pending[x][y] /\ starting'[x][y] = starting[x][y],
           \A x, y \in Node : x # r => conn'[x][y] = conn[x][y],
           \A m \in Node \ {s} : Resumes(r, m, out[m], conn[r][m].rx),
           NEW rx, Resumes(r, s, out[s], rx),
           conn'[r][s] # None =>
               /\ pending'[r][s] = None \/ pending'[r][s] = pending[r][s]
               /\ starting'[r][s] \subseteq starting[r][s],
           Together(conn'[s][r], conn'[r][s], net'[s][r]),
           Awaited(conn'[s][r], Begun(r, s)', net'[s][r])
    PROVE  SyncInv'
<1>0. TypeOK
  BY DEF KeyInv
<1>1. Posts(r, s, out[s]) /\ net[r][s] \subseteq net'[r][s]
  BY <1>0, WirePosts
<1>2. PairInv(r, s)
  BY DEF SyncInv
<1>3. Calm(r, s)
  BY DEF Calm, Resumes
<1>4. Settled(conn'[r][s], pending'[r][s], starting'[r][s], nextEph', encrypted')
  BY <1>0, <1>2, <1>3, SettledNext DEF PairInv
<1>5. Resumes(s, r, <<>>, conn[s][r].rx)
  BY <1>0, UnmovedResumes
<1>6. NoneBegun(s, r)
  <2>1. ~(s = r /\ r = s)
    OBVIOUS
  <2>2. QED
    BY <2>1 DEF NoneBegun, Begun
<1>7. Going(r, s, out[s])
  BY <1>1, <1>5, <1>6, ResumesGoing
<1>8. /\ Together(conn'[r][s], conn'[s][r], net'[r][s])
      /\ Awaited(conn'[r][s], Begun(s, r)', net'[r][s])
  BY <1>0, <1>2, <1>7, GoingPair
<1>9. QED
  BY <1>4, <1>8, ReceivedSync

(* What r writes to the others when it receives.                            *)
LEMMA SilentFresh ==
    /\ Silent \in [Node -> Seq(Message)] /\ \A m \in Node : Silent[m] = <<>> /\ Fresh(Silent[m])
<1>1. \A m \in Node : Silent[m] = <<>>
  BY DEF Silent
<1>2. QED
  BY <1>1, SilentType, NothingFresh

LEMMA OnlyFresh ==
    ASSUME NEW s \in Node, NEW ms \in Seq(Message), Fresh(ms)
    PROVE  /\ Only(s, ms) \in [Node -> Seq(Message)] /\ Only(s, ms)[s] = ms
           /\ \A m \in Node : Fresh(Only(s, ms)[m])
<1>1. \A m \in Node : Only(s, ms)[m] = IF m = s THEN ms ELSE <<>>
  BY DEF Only
<1>2. QED
  BY <1>1, OnlyType, NothingFresh

(* No entry is nothing awaited.                                             *)
LEMMA NothingAwaited ==
    ASSUME NEW c, NEW N, NEW r, NEW s, pending'[r][s] = None, starting'[r][s] = {}
    PROVE  Awaited(c, Begun(r, s)', N)
BY DEF Awaited, Begun, None

LEMMA NobodyTogether ==
    ASSUME NEW c, NEW N PROVE Together(c, None, N) /\ Together(None, c, N)
BY DEF Together

LEMMA SpoilSync ==
    ASSUME Punctual, KeyInv, TypeOK', Later, DataSent, SyncInv,
           NEW s \in Node, NEW r \in Node, NEW g \in net[s][r], RecvSpoilsPending(s, r, g)
    PROVE  SyncInv'
<1>0. TypeOK
  BY DEF KeyInv
<1>1. /\ Arrives(s, r, g) /\ pending[r][s] # None
      /\ pending' = [pending EXCEPT ![r][s] = None]
      /\ Wire(s, r, g, Silent)
      /\ UNCHANGED <<starting, conn>>
  BY DEF RecvSpoilsPending
<1>2. s # r /\ starting[r][s] = {}
  BY <1>1, ArrivesFacts
<1>3. conn[r][s] = None
  <2>1. PairInv(r, s)
    BY DEF SyncInv
  <2>2. QED
    BY <1>1, <2>1 DEF PairInv, Settled
<1>4. /\ pending'[r][s] = None
      /\ \A x, y \in Node : ~(x = r /\ y = s) => pending'[x][y] = pending[x][y]
  BY <1>0, <1>1 DEF TypeOK
<1>5. \A m \in Node : Resumes(r, m, Silent[m], conn[r][m].rx)
  BY <1>0, <1>1, UnmovedResumes
<1>6. Together(conn'[s][r], conn'[r][s], net'[s][r])
  BY <1>1, <1>3, NobodyTogether
<1>7. Awaited(conn'[s][r], Begun(r, s)', net'[s][r])
  BY <1>1, <1>2, <1>4, NothingAwaited
<1>8. /\ conn'[r][s] = None
      /\ \A x, y \in Node : x # r => conn'[x][y] = conn[x][y]
  BY <1>1, <1>3
<1>9. \A x, y \in Node : ~(x = r /\ y = s) =>
          pending'[x][y] = pending[x][y] /\ starting'[x][y] = starting[x][y]
  BY <1>1, <1>4
<1>10. QED
  BY <1>1, <1>2, <1>5, <1>6, <1>7, <1>8, <1>9, SilentFresh, ResumedSync

LEMMA ResponderSync ==
    ASSUME Punctual, KeyInv, TypeOK', Later, DataSent, SyncInv,
           NEW s \in Node, NEW r \in Node, NEW g \in net[s][r], StartResponder(s, r, g)
    PROVE  SyncInv'
<1>0. TypeOK
  BY DEF KeyInv
<1> DEFINE ei == IF g.msg.frame = "hs1" THEN g.msg.ei ELSE Junk
<1>1. /\ Arrives(s, r, g) /\ conn[r][s] = None /\ nextEph \in Eph
      /\ pending[r][s] = None
      /\ starting' = [starting EXCEPT ![r][s] = @ \union {Await3(ei, nextEph)}]
      /\ Wire(s, r, g, Only(s, <<Handshake("hs2", ei, nextEph, "R")>>))
      /\ nextEph' = nextEph + 1
      /\ UNCHANGED <<pending, conn>>
  BY DEF StartResponder
<1>2. ei \in Eph \union {Junk}
  BY <1>0 DEF TypeOK, Datagram, Message
<1> HIDE DEF ei
<1>3. PICK h \in Message : h = Handshake("hs2", ei, nextEph, "R")
  BY <1>1, <1>2, HandshakeType DEF Role
<1>4. PICK w : w = Await3(ei, nextEph)
  OBVIOUS
<1>5. Fresh(<<h>>) /\ <<h>> \in Seq(Message)
  <2>1. h.frame = "hs2" /\ h.er = nextEph
    BY <1>3 DEF Handshake
  <2>2. nextEph \in Nat /\ nextEph < nextEph'
    BY <1>1, ConfigAssumption DEF Eph
  <2>3. h.frame \notin DataFrames /\ Honest(h, nextEph', encrypted')
    BY <2>1, <2>2 DEF DataFrames, Honest
  <2>4. QED
    BY <2>3, HandshakeFresh
<1>6. PICK out \in [Node -> Seq(Message)] :
          out = Only(s, <<h>>) /\ \A m \in Node : Fresh(out[m])
  BY <1>5, OnlyFresh
<1>7. Wire(s, r, g, out)
  BY <1>1, <1>3, <1>6
<1>8. s # r /\ starting[r][s] = {}
  BY <1>1, ArrivesFacts
<1>9. /\ starting'[r][s] = {w}
      /\ \A x, y \in Node : ~(x = r /\ y = s) => starting'[x][y] = starting[x][y]
  <2>1. PICK S : S = starting[r][s] \union {w} /\ starting' = [starting EXCEPT ![r][s] = S]
    BY <1>1, <1>4
  <2>2. S = {w}
    BY <1>8, <2>1
  <2>3. starting' = [starting EXCEPT ![r][s] = {w}]
    BY <2>1, <2>2
  <2>4. QED
    BY <1>0, <2>3 DEF TypeOK
<1>10. \A m \in Node : Resumes(r, m, out[m], conn[r][m].rx)
  BY <1>0, <1>1, UnmovedResumes
<1>11. Together(conn'[s][r], conn'[r][s], net'[s][r])
  BY <1>1, NobodyTogether
<1>12. Awaited(conn'[s][r], Begun(r, s)', net'[s][r])
  <2>1. w.er = nextEph
    BY <1>4 DEF Await3
  <2>2. ASSUME conn[s][r] # None, Dir(conn[s][r]) = <<w.ei, w.er, "I">> PROVE FALSE
    <3>1. conn[s][r].er = nextEph
      BY <2>1, <2>2 DEF Dir
    <3>2. conn[s][r].er < nextEph
      BY <2>2 DEF SyncInv, PairInv, Settled
    <3>3. nextEph \in Nat
      BY <1>1, ConfigAssumption DEF Eph
    <3>4. QED
      BY <3>1, <3>2, <3>3
  <2>3. \A p \in Begun(r, s)' : p = w \/ p = None
    BY <1>1, <1>9 DEF Begun
  <2>4. None.st # "await3"
    BY DEF None
  <2>5. QED
    BY <1>1, <2>2, <2>3, <2>4 DEF Awaited
<1>13. QED
  <2>1. conn'[r][s] = None
    BY <1>1
  <2>2. \A x, y \in Node : x # r => conn'[x][y] = conn[x][y]
    BY <1>1
  <2>3. \A x, y \in Node : ~(x = r /\ y = s) =>
            pending'[x][y] = pending[x][y] /\ starting'[x][y] = starting[x][y]
    BY <1>1, <1>9
  <2>4. QED
    BY <1>6, <1>7, <1>8, <1>10, <1>11, <1>12, <2>1, <2>2, <2>3, ResumedSync

LEMMA DropSync ==
    ASSUME Punctual, KeyInv, TypeOK', Later, DataSent, SyncInv,
           NEW s \in Node, NEW r \in Node, NEW g \in net[s][r], RecvUndecryptable(s, r, g)
    PROVE  SyncInv'
<1>0. TypeOK
  BY DEF KeyInv
<1>1. /\ Arrives(s, r, g) /\ pending[r][s] = None /\ conn[r][s] # None
      /\ ~Decrypts(conn[r][s], g.msg) /\ Wire(s, r, g, Silent)
      /\ UNCHANGED <<pending, starting, conn>>
  BY DEF RecvUndecryptable, nodeVars
<1>2. s # r /\ starting[r][s] = {} /\ \A h \in net[s][r] : g.at =< h.at
  BY <1>1, ArrivesFacts
<1>3. \A h \in net[s][r] : h # g => h \in net'[s][r]
  BY <1>0, <1>1, <1>2, SilentFresh, WirePosts
<1>4. PairInv(s, r)
  BY DEF SyncInv
<1>5. \A m \in Node : Resumes(r, m, Silent[m], conn[r][m].rx)
  BY <1>0, <1>1, UnmovedResumes
<1>6. Together(conn'[s][r], conn'[r][s], net'[s][r])
  BY <1>0, <1>1, <1>2, <1>3, <1>4, DropTogether DEF PairInv
<1>7. Awaited(conn'[s][r], Begun(r, s)', net'[s][r])
  BY <1>1, <1>2, NothingAwaited
<1>8. QED
  BY <1>1, <1>2, <1>5, <1>6, <1>7, SilentFresh, ResumedSync

(* What the four handlers of a decrypted datagram have in common.           *)
LEMMA DecryptedSync ==
    ASSUME Punctual, KeyInv, TypeOK', Later, DataSent, SyncInv,
           NEW s \in Node, NEW r \in Node, NEW g \in net[s][r], Decrypted(s, r, g),
           NEW out \in [Node -> Seq(Message)], Wire(s, r, g, out),
           \A m \in Node : Fresh(out[m]),
           UNCHANGED <<pending, starting>>,
           \A x, y \in Node : x # r => conn'[x][y] = conn[x][y],
           \A m \in Node \ {s} : Resumes(r, m, out[m], conn[r][m].rx),
           Resumes(r, s, out[s], conn[r][s].rx + 1)
    PROVE  SyncInv'
<1>0. TypeOK
  BY DEF KeyInv
<1>1. /\ Arrives(s, r, g) /\ pending[r][s] = None /\ conn[r][s] # None
      /\ Decrypts(conn[r][s], g.msg)
  BY DEF Decrypted
<1>2. s # r /\ starting[r][s] = {}
  BY <1>1, ArrivesFacts
<1>3. \A h \in net[s][r] : h # g => h \in net'[s][r]
  BY <1>0, <1>2, WirePosts
<1>4. PairInv(s, r)
  BY DEF SyncInv
<1>5. Together(conn'[s][r], conn'[r][s], net'[s][r])
  BY <1>0, <1>1, <1>2, <1>3, <1>4, ReadTogether DEF PairInv, Resumes
<1>6. Awaited(conn'[s][r], Begun(r, s)', net'[s][r])
  BY <1>1, <1>2, NothingAwaited
<1>7. QED
  BY <1>2, <1>5, <1>6, ResumedSync

LEMMA SilentReadSync ==
    ASSUME Punctual, KeyInv, TypeOK', Later, DataSent, SyncInv,
           NEW s \in Node, NEW r \in Node, NEW g \in net[s][r], Decrypted(s, r, g),
           Wire(s, r, g, Silent), UNCHANGED <<pending, starting>>,
           NEW c, conn' = [conn EXCEPT ![r][s] = c],
           c # None => /\ Dir(c) = Dir(conn[r][s]) /\ Into(c) = Into(conn[r][s])
                       /\ c.tx = conn[r][s].tx /\ c.rx = conn[r][s].rx + 1
    PROVE  SyncInv'
<1>0. TypeOK
  BY DEF KeyInv
<1>1. conn'[r][s] = c /\ conn[r][s] # None
  BY <1>0 DEF TypeOK, Decrypted
<1>2. \A x, y \in Node : ~(x = r /\ y = s) => conn'[x][y] = conn[x][y]
  BY <1>0, OtherPlace
<1>3. \A m \in Node \ {s} : Resumes(r, m, Silent[m], conn[r][m].rx)
  BY <1>0, <1>2, UnmovedResumes
<1>4. Resumes(r, s, Silent[s], conn[r][s].rx + 1)
  <2>1. PICK t \in Nat : t = conn[r][s].tx
    BY <1>0, <1>1, CounterTypes
  <2>2. t..(t - 1) = {}
    OBVIOUS
  <2>3. QED
    BY <1>1, <2>1, <2>2 DEF Resumes
<1>5. \A x, y \in Node : x # r => conn'[x][y] = conn[x][y]
  BY <1>2
<1>6. QED
  BY <1>3, <1>4, <1>5, SilentFresh, DecryptedSync

(* Nothing has been encrypted under a key that still waits.                 *)
LEMMA WaitingUnspent ==
    ASSUME KeyInv, NEW s \in Node, NEW r \in Node, NEW k, At(<<"pend", r, s>>, k),
           NEW d \in encrypted
    PROVE  Key(d) # k
<1>1. <<"pend", r, s>> \in KeyPlace
  BY DEF KeyPlace
<1>2. PICK p \in KeyPlace : p = <<"pend", r, s>>
  BY <1>1
<1>3. p[1] # "conn"
  BY <1>2
<1>4. QED
  BY <1>2, <1>3 DEF KeyInv, Unspent

LEMMA GreetingWritten ==
    ASSUME KeyInv, NEW s \in Node, NEW r \in Node,
           NEW ei \in Eph \union {Junk}, NEW er \in Eph \union {Junk}, NEW role \in Role,
           NEW c, c = NewConnection(r, ei, er, role), At(<<"pend", r, s>>, Key(c)),
           NEW ms, ms = Encrypt(c, Greeting(r))
    PROVE  /\ ms \in Seq(Message) /\ Fresh(ms)
           /\ \A k \in 0..(Len(Greeting(r)) - 1) : \E i \in 1..Len(ms) : Bears(ms[i], Dir(c), k)
           /\ Spent(Dir(c), Range(ms))
<1>0. TypeOK
  BY DEF KeyInv
<1>1. c \in Connection /\ c.tx = 0
  BY ConfigAssumption DEF NewConnection, Connection
<1>2. PICK fs \in Seq(DataFrames) : fs = Greeting(r)
  BY GreetingType
<1>3. ms \in Seq(Message) /\ Len(ms) = Len(fs)
  BY <1>1, <1>2, EncryptType
<1>4. \A d \in encrypted : Dir(d) = Dir(c) => d.n < c.tx
  <2> SUFFICES ASSUME NEW d \in encrypted, Dir(d) = Dir(c) PROVE FALSE
    OBVIOUS
  <2>1. Key(d) = Key(c)
    BY DEF Dir, Key
  <2>2. QED
    BY <2>1, WaitingUnspent
<1>5. \A d \in encrypted : d.n \in Nat
  BY <1>0, KeyFacts
<1>6. /\ Fresh(ms)
      /\ \A k \in c.tx..(c.tx + Len(fs) - 1) : \E i \in 1..Len(ms) : Bears(ms[i], Dir(c), k)
  <2>1. ms = Encrypt(c, fs) /\ c.tx \in Nat
    BY <1>1, <1>2
  <2>2. QED
    BY <1>4, <1>5, <2>1, EncryptFresh
<1>7. PICK l \in Nat : l = Len(fs)
  OBVIOUS
<1>8. \A k \in 0..(l - 1) : \E i \in 1..Len(ms) : Bears(ms[i], Dir(c), k)
  <2>1. c.tx + l - 1 = l - 1
    BY <1>1, <1>7
  <2>2. QED
    BY <1>1, <1>6, <1>7, <2>1
<1>9. l # 0
  <2>1. Len(Greeting(r)) # 0
    BY DEF Greeting
  <2>2. QED
    BY <1>2, <1>7, <2>1
<1>10. PICK i \in 1..Len(ms) : Bears(ms[i], Dir(c), 0)
  BY <1>8, <1>9
<1>11. ms[i] \in Range(ms)
  BY <1>3 DEF Range
<1>12. QED
  BY <1>2, <1>3, <1>6, <1>7, <1>8, <1>10, <1>11 DEF Bears, Spent

LEMMA PostedOnWay ==
    ASSUME NEW n \in Node, NEW m \in Node, NEW ms, Posts(n, m, ms), NEW q, NEW l \in Nat,
           \A k \in 0..(l - 1) : \E i \in 1..Len(ms) : Bears(ms[i], q, k)
    PROVE  OnWay(net'[n][m], q, 0, l)
<1> SUFFICES ASSUME NEW k \in 0..(l - 1) PROVE \E h \in net'[n][m] : Bears(h.msg, q, k)
  BY DEF OnWay
<1>1. PICK i \in 1..Len(ms) : Bears(ms[i], q, k)
  OBVIOUS
<1>2. PICK h \in net'[n][m] : h.msg = ms[i]
  BY PostedBears
<1>3. QED
  BY <1>1, <1>2

(* A new connection in place of a pending handshake: its greeting is on the *)
(* wire, and so is all that the peer has written in its session.            *)
LEMMA InstallSync ==
    ASSUME Punctual, KeyInv, TypeOK', Later, DataSent, SyncInv,
           NEW s \in Node, NEW r \in Node, NEW g \in net[s][r], Arrives(s, r, g),
           g.msg.frame \notin DataFrames, pending[r][s] # None,
           NEW c \in Connection, c.rx = 0, c.tx = 0, NEW first, NEW ms \in Seq(Message),
           ms = first \o Encrypt(c, Greeting(r)), InstallConnection(s, r, g, c, first),
           Fresh(ms),
           \A k \in 0..(Len(Greeting(r)) - 1) : \E i \in 1..Len(ms) : Bears(ms[i], Dir(c), k),
           pending' = [pending EXCEPT ![r][s] = None], UNCHANGED starting,
           c.er < nextEph', c.role = "R" => Spent(Into(c), encrypted'),
           conn[s][r] # None /\ Dir(conn[s][r]) = Into(c) =>
               OnWay(net[s][r], Into(c), 0, conn[s][r].tx)
    PROVE  SyncInv'
<1>0. TypeOK
  BY DEF KeyInv
<1>1. PICK l \in Nat : l = Len(Greeting(r))
  BY GreetingType
<1>2. Len(Encrypt(c, Greeting(r))) = l
  BY <1>1 DEF Encrypt
<1>3. PICK d : d = Sending(c, l)
  OBVIOUS
<1>4. conn' = [conn EXCEPT ![r][s] = d] /\ Wire(s, r, g, Only(s, ms))
  BY <1>2, <1>3 DEF InstallConnection
<1>5. /\ Dir(d) = Dir(c) /\ Into(d) = Into(c) /\ d.tx = l /\ d.rx = 0
      /\ d.er = c.er /\ d.role = c.role /\ d # None
  <2>1. /\ Dir(Sending(c, l)) = Dir(c) /\ Into(Sending(c, l)) = Into(c)
        /\ Sending(c, l).tx = c.tx + l /\ Sending(c, l).rx = c.rx
    BY SessionUpdates
  <2>2. Sending(c, l).er = c.er /\ Sending(c, l).role = c.role /\ Sending(c, l).st = "up"
    BY DEF Sending, Connection
  <2>3. QED
    BY <1>3, <2>1, <2>2 DEF None
<1>6. conn'[r][s] = d /\ \A x, y \in Node : ~(x = r /\ y = s) => conn'[x][y] = conn[x][y]
  <2>1. conn' = [conn EXCEPT ![r][s] = d] /\ conn \in [Node -> [Node -> Connection \union {None}]]
    BY <1>0, <1>4 DEF TypeOK
  <2>2. conn'[r][s] = d
    BY <2>1
  <2>3. ASSUME NEW x \in Node, NEW y \in Node, ~(x = r /\ y = s) PROVE conn'[x][y] = conn[x][y]
    BY <2>1, <2>3
  <2>4. QED
    BY <2>2, <2>3
<1>7. /\ pending'[r][s] = None
      /\ \A x, y \in Node : ~(x = r /\ y = s) => pending'[x][y] = pending[x][y]
  BY <1>0 DEF TypeOK
<1>8. s # r /\ starting[r][s] = {}
  BY ArrivesFacts
<1>9. PICK out \in [Node -> Seq(Message)] :
          out = Only(s, ms) /\ out[s] = ms /\ \A m \in Node : Fresh(out[m])
  BY OnlyFresh
<1>10. Wire(s, r, g, out)
  BY <1>4, <1>9
<1>11. Posts(r, s, ms) /\ \A h \in net[s][r] : h # g => h \in net'[s][r]
  BY <1>0, <1>8, <1>9, <1>10, WirePosts
<1>12. OnWay(net'[r][s], Dir(d), 0, d.tx)
  BY <1>1, <1>5, <1>11, PostedOnWay
<1>13. Together(conn'[r][s], conn'[s][r], net'[r][s])
  <2>1. conn'[s][r] = conn[s][r]
    BY <1>6, <1>8
  <2>2. ASSUME conn[s][r] # None PROVE OnWay(net'[r][s], Dir(d), conn[s][r].rx, d.tx)
    <3>1. PICK x \in Nat : x = conn[s][r].rx
      BY <1>0, <2>2, CounterTypes
    <3>2. \A i \in x..(l - 1) : i \in 0..(l - 1)
      OBVIOUS
    <3>3. QED
      BY <1>5, <1>12, <3>1, <3>2 DEF OnWay
  <2>3. QED
    BY <1>6, <2>1, <2>2 DEF Together
<1>14. Awaited(conn'[r][s], Begun(s, r)', net'[r][s])
  BY <1>6, <1>12 DEF Awaited
<1>15. Together(conn'[s][r], conn'[r][s], net'[s][r])
  <2>1. conn'[s][r] = conn[s][r]
    BY <1>6, <1>8
  <2>2. ASSUME conn[s][r] # None, Dir(conn[s][r]) = Into(d)
        PROVE  OnWay(net'[s][r], Dir(conn[s][r]), 0, conn[s][r].tx)
    <3>1. OnWay(net[s][r], Into(c), 0, conn[s][r].tx)
      BY <1>5, <2>2
    <3>2. \A h \in net[s][r] : \A i : Bears(h.msg, Into(c), i) => h \in net'[s][r]
      BY <1>11 DEF Bears
    <3>3. QED
      BY <1>5, <2>2, <3>1, <3>2 DEF OnWay
  <2>3. QED
    BY <1>5, <1>6, <2>1, <2>2 DEF Together
<1>16. Awaited(conn'[s][r], Begun(r, s)', net'[s][r])
  BY <1>7, <1>8, NothingAwaited
<1>17. Settled(conn'[r][s], pending'[r][s], starting'[r][s], nextEph', encrypted')
  BY <1>5, <1>6, <1>7, <1>8 DEF Settled
<1>18. \A m \in Node \ {s} : Resumes(r, m, out[m], conn[r][m].rx)
  BY <1>0, <1>6, UnmovedResumes
<1>19. \A x, y \in Node : x # r => conn'[x][y] = conn[x][y]
  BY <1>6
<1>20. \A x, y \in Node : ~(x = r /\ y = s) =>
           pending'[x][y] = pending[x][y] /\ starting'[x][y] = starting[x][y]
  BY <1>7
<1>21. QED
  BY <1>8, <1>9, <1>10, <1>13, <1>14, <1>15, <1>16, <1>17, <1>18, <1>19, <1>20, ReceivedSync

LEMMA SecondSync ==
    ASSUME Punctual, KeyInv, TypeOK', Later, DataSent, SyncInv,
           NEW s \in Node, NEW r \in Node, NEW g \in net[s][r], RecvSecond(s, r, g)
    PROVE  SyncInv'
<1>0. TypeOK
  BY DEF KeyInv
<1>1. PICK p : p = pending[r][s]
  OBVIOUS
<1>2. PICK er : er = g.msg.er
  OBVIOUS
<1>3. PICK c : c = NewConnection(r, p.ei, er, "I")
  OBVIOUS
<1>4. PICK h : h = Handshake("hs3", p.ei, er, "I")
  OBVIOUS
<1>5. /\ Arrives(s, r, g) /\ p.st = "await2" /\ g.msg.frame = "hs2"
      /\ pending' = [pending EXCEPT ![r][s] = None]
      /\ InstallConnection(s, r, g, c, <<h>>)
      /\ UNCHANGED <<starting, nextEph>>
  BY <1>1, <1>2, <1>3, <1>4 DEF RecvSecond, ReadableInPending
<1>6. p.ei \in Eph \union {Junk} /\ er \in Eph \union {Junk} /\ "I" \in Role
  <2>1. p \in Pending /\ g.msg \in Message
    BY <1>0, <1>1 DEF TypeOK, Datagram
  <2>2. p.ei \in Eph
    BY <1>5, <2>1 DEF Pending
  <2>3. g.msg.er \in Eph \union {Junk}
    BY <2>1 DEF Message
  <2>4. QED
    BY <1>2, <2>2, <2>3 DEF Role
<1>7. /\ c \in Connection /\ c.tx = 0 /\ c.rx = 0 /\ c.er = er /\ c.role = "I"
      /\ Dir(c) = <<p.ei, er, "I">>
  BY <1>3, <1>6, ConfigAssumption DEF NewConnection, Connection, Dir
<1>8. Key(c) = <<"I", p.ei>> /\ At(<<"pend", r, s>>, Key(c))
  BY <1>1, <1>3, <1>5 DEF Key, NewConnection, At, Draws
<1>9. PICK q : q = Encrypt(c, Greeting(r))
  OBVIOUS
<1>10. /\ q \in Seq(Message) /\ Fresh(q) /\ Spent(Dir(c), Range(q))
       /\ \A k \in 0..(Len(Greeting(r)) - 1) : \E i \in 1..Len(q) : Bears(q[i], Dir(c), k)
  BY <1>3, <1>6, <1>8, <1>9, GreetingWritten
<1>11. h \in Message /\ h.frame \notin DataFrames /\ Honest(h, nextEph', encrypted')
  <2>1. h \in Message
    BY <1>4, <1>6, HandshakeType
  <2>2. h.frame = "hs3" /\ <<h.ei, h.er, "I">> = Dir(c)
    BY <1>4, <1>7 DEF Handshake
  <2>3. encrypted' = encrypted \union Range(q)
    BY <1>5, <1>9 DEF InstallConnection
  <2>4. Spent(Dir(c), encrypted')
    BY <1>10, <2>3 DEF Spent
  <2>5. QED
    BY <2>1, <2>2, <2>4 DEF Honest, DataFrames
<1>12. PICK ms : ms = <<h>> \o q
  OBVIOUS
<1>13. /\ ms \in Seq(Message) /\ Fresh(ms)
       /\ \A k, j : (\E i \in 1..Len(q) : Bears(q[i], k, j)) => \E i \in 1..Len(ms) : Bears(ms[i], k, j)
  BY <1>10, <1>11, <1>12, AheadFresh
<1>14. c.er < nextEph'
  <2>1. Honest(g.msg, nextEph, encrypted)
    BY DEF SyncInv, PairInv, Orderly
  <2>2. QED
    BY <1>2, <1>5, <1>7, <2>1 DEF Honest
<1>15. ASSUME conn[s][r] # None, Dir(conn[s][r]) = Into(c) PROVE FALSE
  <2>1. PICK d \in Connection : d = conn[s][r]
    BY <1>0, <1>15 DEF TypeOK
  <2>2. d.ei = p.ei /\ d.er = er /\ d.role = "R"
    BY <1>3, <1>15, <2>1 DEF Dir, Into, NewConnection, Other
  <2>3. Spent(Into(d), encrypted)
    BY <1>15, <2>1, <2>2 DEF SyncInv, PairInv, Settled
  <2>4. Into(d) = Dir(c)
    BY <1>7, <2>2 DEF Into, Other
  <2>5. PICK e \in encrypted : Dir(e) = Dir(c)
    BY <2>3, <2>4 DEF Spent
  <2>6. Key(e) = Key(c)
    BY <2>5 DEF Dir, Key
  <2>7. QED
    BY <1>8, <2>6, WaitingUnspent
<1>16. pending[r][s] # None /\ g.msg.frame \notin DataFrames
  BY <1>1, <1>5 DEF None, DataFrames
<1>17. \A k \in 0..(Len(Greeting(r)) - 1) : \E i \in 1..Len(ms) : Bears(ms[i], Dir(c), k)
  BY <1>10, <1>13
<1>18. ms = <<h>> \o Encrypt(c, Greeting(r)) /\ c.role # "R" /\ UNCHANGED starting
  BY <1>5, <1>7, <1>9, <1>12
<1>19. QED
  BY <1>5, <1>7, <1>13, <1>14, <1>15, <1>16, <1>17, <1>18, InstallSync

LEMMA ThirdSync ==
    ASSUME Punctual, KeyInv, TypeOK', Later, DataSent, SyncInv,
           NEW s \in Node, NEW r \in Node, NEW g \in net[s][r], RecvThird(s, r, g)
    PROVE  SyncInv'
<1>0. TypeOK
  BY DEF KeyInv
<1>1. PICK p : p = pending[r][s]
  OBVIOUS
<1>2. PICK c : c = NewConnection(r, p.ei, p.er, "R")
  OBVIOUS
<1>3. /\ Arrives(s, r, g) /\ p.st = "await3"
      /\ g.msg.frame = "hs3" /\ g.msg.ei = p.ei /\ g.msg.er = p.er
      /\ pending' = [pending EXCEPT ![r][s] = None]
      /\ InstallConnection(s, r, g, c, <<>>)
      /\ UNCHANGED <<starting, nextEph>>
  BY <1>1, <1>2 DEF RecvThird, ReadableInPending
<1>4. p.ei \in Eph \union {Junk} /\ p.er \in Eph \union {Junk} /\ "R" \in Role
  BY <1>0, <1>1, <1>3 DEF TypeOK, Pending, None, Await2, Await3, Role
<1>5. /\ c \in Connection /\ c.tx = 0 /\ c.rx = 0 /\ c.er = p.er
      /\ Into(c) = <<p.ei, p.er, "I">>
  BY <1>2, <1>4, ConfigAssumption DEF NewConnection, Connection, Into, Other
<1>6. Key(c) = <<"R", p.er>> /\ At(<<"pend", r, s>>, Key(c))
  BY <1>1, <1>2, <1>3 DEF Key, NewConnection, At, Draws
<1>7. PICK ms : ms = Encrypt(c, Greeting(r))
  OBVIOUS
<1>8. /\ ms \in Seq(Message) /\ Fresh(ms)
      /\ \A k \in 0..(Len(Greeting(r)) - 1) : \E i \in 1..Len(ms) : Bears(ms[i], Dir(c), k)
  BY <1>2, <1>4, <1>6, <1>7, GreetingWritten
<1>9. c.er < nextEph'
  <2>1. PICK k : k = <<"R", p.er>>
    OBVIOUS
  <2>2. PICK x \in KeyPlace : x = <<"pend", r, s>>
    BY DEF KeyPlace
  <2>3. At(x, k)
    BY <1>6, <2>1, <2>2
  <2>4. k[2] \in 0..(nextEph - 1)
    BY <2>3 DEF KeyInv, Drawn
  <2>5. nextEph \in Int
    BY <1>0 DEF TypeOK
  <2>6. p.er < nextEph
    BY <2>1, <2>4, <2>5
  <2>7. QED
    BY <1>3, <1>5, <2>6
<1>10. Spent(Into(c), encrypted')
  <2>1. Honest(g.msg, nextEph, encrypted)
    BY DEF SyncInv, PairInv, Orderly
  <2>2. Spent(Into(c), encrypted)
    BY <1>3, <1>5, <2>1 DEF Honest
  <2>3. QED
    BY <2>2 DEF Spent, Later
<1>11. ASSUME conn[s][r] # None, Dir(conn[s][r]) = Into(c)
       PROVE  OnWay(net[s][r], Into(c), 0, conn[s][r].tx)
  <2>1. Awaited(conn[s][r], Begun(r, s), net[s][r]) /\ p \in Begun(r, s)
    BY <1>1 DEF SyncInv, PairInv, Begun
  <2>2. QED
    BY <1>3, <1>5, <1>11, <2>1 DEF Awaited
<1>12. pending[r][s] # None /\ g.msg.frame \notin DataFrames
  BY <1>1, <1>3 DEF None, DataFrames
<1>13. ms = <<>> \o Encrypt(c, Greeting(r))
  <2>1. <<>> \o ms = ms
    BY <1>8
  <2>2. QED
    BY <1>7, <2>1
<1>14. QED
  BY <1>3, <1>5, <1>8, <1>9, <1>10, <1>11, <1>12, <1>13, InstallSync

LEMMA JoinSync ==
    ASSUME Punctual, KeyInv, TypeOK', Later, DataSent, SyncInv,
           NEW s \in Node, NEW r \in Node, NEW g \in net[s][r], RecvJoin(s, r, g)
    PROVE  SyncInv'
<1> DEFINE known == {m \in Node : conn[r][m] # None /\ (m = s \/ joined[r][m])}
           list  == [m \in Node |-> IF m \in known
                                    THEN Encrypt(conn[r][m], <<"PeerList">>)
                                    ELSE <<>>]
           told  == [m \in Node |-> IF m \in known THEN Sending(conn[r][m], 1)
                                                   ELSE conn[r][m]]
           row   == [told EXCEPT ![s] = Identified(Advanced(told[s]))]
<1>0. TypeOK
  BY DEF KeyInv
<1>1. /\ Decrypted(s, r, g)
      /\ conn' = [conn EXCEPT ![r] = row]
      /\ Wire(s, r, g, list)
      /\ UNCHANGED <<pending, starting>>
  BY DEF RecvJoin
<1>2. s \in known /\ known \in SUBSET Node
  BY <1>1 DEF Decrypted
<1>3. \A m \in known : conn[r][m] \in Connection /\ conn[r][m] # None
  BY <1>0 DEF TypeOK
<1>4. \A m \in known : told[m] = Sending(conn[r][m], 1)
  OBVIOUS
<1>5. \A m \in known \ {s} : row[m] = told[m]
  OBVIOUS
<1>6. row[s] = Identified(Advanced(told[s]))
  BY <1>2
<1>7. \A m \in Node \ known : row[m] = conn[r][m]
  BY <1>2
<1>8. \A m \in Node : conn'[r][m] = row[m]
  BY <1>0, <1>1 DEF TypeOK
<1>9. \A x, y \in Node : x # r => conn'[x][y] = conn[x][y]
  BY <1>0, <1>1 DEF TypeOK
<1>10. \A m \in known : list[m] = Encrypt(conn[r][m], <<"PeerList">>)
  OBVIOUS
<1>11. \A m \in Node \ known : list[m] = <<>>
  OBVIOUS
<1>12. list = [m \in Node |-> list[m]]
  OBVIOUS
<1> HIDE DEF known, list, told, row
<1>13. <<"PeerList">> \in Seq(DataFrames) /\ Len(<<"PeerList">>) = 1
  BY DEF DataFrames
<1>14. ASSUME NEW m \in known
       PROVE  /\ list[m] \in Seq(Message) /\ Fresh(list[m])
              /\ \A k \in conn[r][m].tx..(conn[r][m].tx + 1 - 1) :
                     \E i \in 1..Len(list[m]) : Bears(list[m][i], Dir(conn[r][m]), k)
  <2>1. m \in Node /\ conn[r][m] # None
    BY <1>2, <1>3
  <2>2. PICK ms : ms = Encrypt(conn[r][m], <<"PeerList">>)
    OBVIOUS
  <2>3. /\ ms \in Seq(Message) /\ Fresh(ms)
        /\ \A k \in conn[r][m].tx..(conn[r][m].tx + 1 - 1) :
               \E i \in 1..Len(ms) : Bears(ms[i], Dir(conn[r][m]), k)
    BY <1>13, <2>1, <2>2, WritesFresh
  <2>4. QED
    BY <1>10, <2>2, <2>3
<1>15. ASSUME NEW m \in known
       PROVE  Resumes(r, m, list[m], IF m = s THEN conn[r][m].rx + 1 ELSE conn[r][m].rx)
  <2>1. PICK c \in Connection : c = conn[r][m]
    BY <1>3
  <2>2. PICK d \in Connection : d = Sending(c, 1)
    BY ConnectionUpdates
  <2>3. /\ Dir(d) = Dir(c) /\ Into(d) = Into(c)
        /\ d.tx = c.tx + 1 /\ d.rx = c.rx /\ c.tx \in Nat /\ c # None
    BY <2>2, SessionUpdates
  <2>4. d = told[m]
    BY <1>4, <2>1, <2>2
  <2>5. PICK q : q = list[m]
    OBVIOUS
  <2>6. \A k \in c.tx..(d.tx - 1) : \E i \in 1..Len(q) : Bears(q[i], Dir(c), k)
    <3>1. c.tx + 1 - 1 = d.tx - 1
      BY <2>3
    <3>2. \A k \in c.tx..(c.tx + 1 - 1) : \E i \in 1..Len(q) : Bears(q[i], Dir(c), k)
      BY <1>14, <2>1, <2>5
    <3>3. QED
      BY <3>1, <3>2
  <2>7. m \in Node
    BY <1>2
  <2>8. CASE m # s
    <3>1. conn'[r][m] = d
      BY <1>5, <1>8, <2>4, <2>7, <2>8
    <3>2. QED
      BY <2>1, <2>3, <2>5, <2>6, <2>8, <3>1 DEF Resumes
  <2>9. CASE m = s
    <3>1. PICK e \in Connection : e = Advanced(d)
      BY ConnectionUpdates
    <3>2. PICK h \in Connection : h = Identified(e)
      BY ConnectionUpdates
    <3>3. Dir(e) = Dir(d) /\ Into(e) = Into(d) /\ e.tx = d.tx /\ e.rx = d.rx + 1
      BY <3>1, SessionUpdates
    <3>4. Dir(h) = Dir(e) /\ Into(h) = Into(e) /\ h.tx = e.tx /\ h.rx = e.rx
      BY <3>2, SessionUpdates
    <3>5. conn'[r][m] = h
      BY <1>6, <1>8, <2>4, <2>7, <2>9, <3>1, <3>2
    <3>6. QED
      BY <2>1, <2>3, <2>5, <2>6, <2>9, <3>3, <3>4, <3>5 DEF Resumes
  <2>10. QED
    BY <2>8, <2>9
<1>16. ASSUME NEW m \in Node, m \notin known PROVE Resumes(r, m, list[m], conn[r][m].rx)
  <2>1. conn'[r][m] = conn[r][m]
    BY <1>7, <1>8, <1>16
  <2>2. QED
    BY <1>0, <2>1, UnmovedResumes
<1>17. PICK out : out = list
  OBVIOUS
<1>18. out \in [Node -> Seq(Message)] /\ \A m \in Node : Fresh(out[m])
  <2>1. ASSUME NEW m \in Node PROVE list[m] \in Seq(Message) /\ Fresh(list[m])
    <3>1. CASE m \in known
      BY <1>14, <3>1
    <3>2. CASE m \notin known
      <4>1. list[m] = <<>>
        BY <1>11, <3>2
      <4>2. <<>> \in Seq(Message)
        OBVIOUS
      <4>3. QED
        BY <4>1, <4>2, NothingFresh
    <3>3. QED
      BY <3>1, <3>2
  <2>2. QED
    BY <1>12, <1>17, <2>1
<1>19. Wire(s, r, g, out)
  BY <1>1, <1>17
<1>20. \A m \in Node \ {s} : Resumes(r, m, out[m], conn[r][m].rx)
  <2> SUFFICES ASSUME NEW m \in Node \ {s} PROVE Resumes(r, m, list[m], conn[r][m].rx)
    BY <1>17
  <2>1. CASE m \in known
    BY <1>15, <2>1
  <2>2. CASE m \notin known
    BY <1>16, <2>2
  <2>3. QED
    BY <2>1, <2>2
<1>21. Resumes(r, s, out[s], conn[r][s].rx + 1)
  BY <1>2, <1>15, <1>17
<1>22. Decrypted(s, r, g) /\ UNCHANGED <<pending, starting>>
  BY <1>1
<1>23. QED
  BY <1>9, <1>18, <1>19, <1>20, <1>21, <1>22, DecryptedSync

LEMMA ReceiveSync ==
    ASSUME Punctual, KeyInv, TypeOK', Later, DataSent, SyncInv,
           NEW s \in Node, NEW r \in Node, NEW g \in net[s][r], Receive(s, r, g)
    PROVE  SyncInv'
<1>0. TypeOK
  BY DEF KeyInv
<1>1. CASE RecvAuthRejected(s, r, g)
  <2>1. /\ Decrypted(s, r, g) /\ Wire(s, r, g, Silent) /\ UNCHANGED <<pending, starting>>
        /\ conn' = [conn EXCEPT ![r][s] = None]
    BY <1>1 DEF RecvAuthRejected
  <2>2. QED
    BY <2>1, SilentReadSync
<1>2. CASE RecvAuth(s, r, g)
  <2>1. PICK c \in Connection : c = conn[r][s]
    BY <1>0, <1>2, DecryptedFacts DEF RecvAuth
  <2>2. PICK d \in Connection : d = Advanced(c)
    BY ConnectionUpdates
  <2>3. Dir(d) = Dir(c) /\ Into(d) = Into(c) /\ d.tx = c.tx /\ d.rx = c.rx + 1
    BY <2>2, SessionUpdates
  <2>4. PICK e : e = Authenticated(d)
    OBVIOUS
  <2>5. Dir(e) = Dir(c) /\ Into(e) = Into(c) /\ e.tx = c.tx /\ e.rx = c.rx + 1
    BY <2>3, <2>4, SessionUpdates
  <2>6. /\ Decrypted(s, r, g) /\ Wire(s, r, g, Silent) /\ UNCHANGED <<pending, starting>>
        /\ conn' = [conn EXCEPT ![r][s] = e]
    BY <1>2, <2>1, <2>2, <2>4 DEF RecvAuth
  <2>7. QED
    BY <2>1, <2>5, <2>6, SilentReadSync
<1>3. CASE RecvOther(s, r, g)
  <2>1. PICK c \in Connection : c = conn[r][s]
    BY <1>0, <1>3, DecryptedFacts DEF RecvOther
  <2>2. PICK d \in Connection : d = Advanced(c)
    BY ConnectionUpdates
  <2>3. Dir(d) = Dir(c) /\ Into(d) = Into(c) /\ d.tx = c.tx /\ d.rx = c.rx + 1
    BY <2>2, SessionUpdates
  <2>4. /\ Decrypted(s, r, g) /\ Wire(s, r, g, Silent) /\ UNCHANGED <<pending, starting>>
        /\ conn' = [conn EXCEPT ![r][s] = d]
    BY <1>3, <2>1, <2>2 DEF RecvOther
  <2>5. QED
    BY <2>1, <2>3, <2>4, SilentReadSync
<1>4. QED
  BY <1>1, <1>2, <1>3, SecondSync, ThirdSync, SpoilSync, ResponderSync, DropSync, JoinSync
     DEF Receive

-----------------------------------------------------------------------------

LEMMA SyncInit == Init => SyncInv
<1> SUFFICES ASSUME Init, NEW n \in Node, NEW m \in Node PROVE PairInv(n, m)
  BY DEF SyncInv
<1>1. net[n][m] = {} /\ conn[n][m] = None
  BY DEF Init
<1>2. QED
  BY <1>1 DEF PairInv, Orderly, Settled, Together, Awaited

LEMMA SyncStep ==
    ASSUME Punctual, KeyInv, KeyNext, StreamInv, Exchanged, SyncInv, [Next]_vars,
           CarefulStep \/ UNCHANGED vars
    PROVE  SyncInv'
<1>0. TypeOK' /\ DataSent
  BY DEF KeyNext, KeyInv, StreamInv
<1>1. Later
  BY DEF Later, KeyNext, Traced, Exchanged, Sends
<1>2. CASE UNCHANGED vars
  <2>1. UNCHANGED <<net, sends, conn, pending, starting, nextEph, encrypted>>
    BY <1>2 DEF vars, histVars
  <2>2. SUFFICES ASSUME NEW n \in Node, NEW m \in Node PROVE PairInv(n, m)'
    BY DEF SyncInv
  <2>3. PairInv(n, m)
    BY DEF SyncInv
  <2>4. QED
    BY <2>1, <2>3 DEF PairInv, Begun
<1>3. ASSUME CarefulStep, NEW n \in Node, NEW m \in Node,
             Dial(n, m) \/ Discover(n, m) \/ Rekey(n, m)
      PROVE  SyncInv'
  <2>1. Initiate(n, m)
    BY <1>3 DEF Dial, Discover, Rekey
  <2>2. starting'[n][m] \subseteq starting[n][m] \/ conn[n][m] = None
    BY <1>3 DEF CarefulStep
  <2>3. QED
    BY <1>0, <1>1, <2>1, <2>2, InitiateSync
<1>4. ASSUME NEW n \in Node, NEW m \in Node, NEW g \in net[n][m], Receive(n, m, g)
      PROVE  SyncInv'
  BY <1>0, <1>1, <1>4, ReceiveSync
<1>5. QED
  BY <1>0, <1>1, <1>2, <1>3, <1>4, InsertSync, AppSync, DownSync DEF Next

(* With a network that keeps the order and at most fails to take a third    *)
(* message, and as long as a handshake begins only where no connection is,  *)
(* the nonces of the two ends of a session never part: what the one has     *)
(* encrypted the other has read or will find on the wire, so that it never  *)
(* goes deaf (install_connection, NoiseSession).                            *)
THEOREM NoncesStayInStep == ASSUME Punctual PROVE Spec /\ Careful => []InStep
<1> DEFINE Inv == KeyInv /\ StartsApart /\ StreamInv /\ SyncInv
<1>1. Init => Inv
  <2>1. Init => StartsApart
    BY DEF Init, StartsApart
  <2>2. QED
    BY <2>1, KeysInit, StreamInit, SyncInit
<1>2. TypeOK' /\ Inv /\ [Next]_vars /\ [CarefulStep]_vars => Inv'
  <2> SUFFICES ASSUME TypeOK', Inv, [Next]_vars, [CarefulStep]_vars PROVE Inv'
    OBVIOUS
  <2>1. KeyNext
    BY KeysStep
  <2>2. Exchanged
    BY <2>1, ExchangedStep
  <2>3. KeyInv' /\ StartsApart' /\ StreamInv'
    BY <2>1, <2>2, StreamStep, StartsStep DEF KeyNext
  <2>4. SyncInv'
    BY <2>1, <2>2, SyncStep
  <2>5. QED
    BY <2>3, <2>4
<1>3. Inv => InStep
  <2> SUFFICES ASSUME SyncInv, NEW n \in Node, NEW m \in Node,
                      conn[n][m] # None, conn[m][n] # None,
                      conn[n][m].ei = conn[m][n].ei, conn[n][m].er = conn[m][n].er,
                      conn[n][m].role = Other(conn[m][n].role),
                      NEW k \in conn[m][n].rx..(conn[n][m].tx - 1)
               PROVE  \E g \in net[n][m] :
                          /\ g.msg.frame \in DataFrames
                          /\ g.msg.ei = conn[n][m].ei /\ g.msg.er = conn[n][m].er
                          /\ g.msg.role = conn[n][m].role /\ g.msg.n = k
    BY DEF InStep
  <2>1. Dir(conn[n][m]) = Into(conn[m][n])
    BY DEF Dir, Into
  <2>2. OnWay(net[n][m], Dir(conn[n][m]), conn[m][n].rx, conn[n][m].tx)
    BY <2>1 DEF SyncInv, PairInv, Together
  <2>3. PICK g \in net[n][m] : Bears(g.msg, Dir(conn[n][m]), k)
    BY <2>2 DEF OnWay
  <2>4. QED
    BY <2>3 DEF Bears, Dir
<1> HIDE DEF Inv
<1>4. QED
  BY <1>1, <1>2, <1>3, TypeCorrect, PTL DEF Spec, Careful, CarefulStep

(* In a mesh whose nodes meet by discovery alone, it takes no more than the *)
(* network: spawn_discovery looks at `connections` before each attempt.     *)
THEOREM DiscoveredStayInStep ==
    ASSUME Punctual, Dialers = {}, Rekeyers = {} PROVE Spec => []InStep
<1>1. TypeOK /\ [Next]_vars => [CarefulStep]_vars
  <2> SUFFICES ASSUME TypeOK, Next, NEW n \in Node, NEW m \in Node
               PROVE  starting'[n][m] \subseteq starting[n][m] \/ conn[n][m] = None
    BY DEF CarefulStep
  <2>1. ASSUME NEW x \in Node, NEW y \in Node, Discover(x, y)
        PROVE  starting'[n][m] \subseteq starting[n][m] \/ conn[n][m] = None
    <3>1. conn[x][y] = None
          /\ \E S : starting' = [starting EXCEPT ![x][y] = S]
      BY <2>1 DEF Discover, Initiate
    <3>2. ~(n = x /\ m = y) => starting'[n][m] = starting[n][m]
      BY <3>1, OtherPlace
    <3>3. QED
      BY <3>1, <3>2
  <2>2. ASSUME NEW x \in Node, NEW y \in Node, InsertPending(x, y) \/ Restart(x)
        PROVE  starting'[n][m] \subseteq starting[n][m]
    <3>1. starting \in [Node -> [Node -> SUBSET (Pending \ {None})]]
      BY DEF TypeOK
    <3>2. CASE InsertPending(x, y)
      <4>1. PICK S : /\ S \subseteq starting[x][y]
                     /\ starting' = [starting EXCEPT ![x][y] = S]
        BY <3>2 DEF InsertPending
      <4>2. QED
        BY <3>1, <4>1
    <3>3. CASE Restart(x)
      <4>1. starting' = [starting EXCEPT ![x] = [z \in Node |-> {}]]
        BY <3>3 DEF Restart
      <4>2. QED
        BY <3>1, <4>1
    <3>4. QED
      BY <2>2, <3>2, <3>3
  <2>3. ASSUME NEW x \in Node, NEW y \in Node,
               AppSend(x, y) \/ Disconnect(x, y) \/ \E g \in net[x][y] : Receive(x, y, g)
        PROVE  starting'[n][m] \subseteq starting[n][m] \/ conn[n][m] = None
    <3>1. CASE \E g \in net[x][y] : StartResponder(x, y, g)
      <4>1. conn[y][x] = None
            /\ \E S : starting' = [starting EXCEPT ![y][x] = S]
        BY <3>1 DEF StartResponder
      <4>2. ~(n = y /\ m = x) => starting'[n][m] = starting[n][m]
        BY <4>1, OtherPlace
      <4>3. QED
        BY <4>1, <4>2
    <3>2. CASE ~\E g \in net[x][y] : StartResponder(x, y, g)
      <4>1. UNCHANGED starting
        BY <2>3, <3>2 DEF AppSend, Disconnect, Receive, RecvSecond, RecvThird,
               RecvSpoilsPending, RecvUndecryptable, RecvAuthRejected, RecvAuth,
               RecvJoin, RecvOther, nodeVars
      <4>2. QED
        BY <4>1
    <3>3. QED
      BY <3>1, <3>2
  <2>4. ASSUME NEW x \in Node, NEW y \in Node PROVE ~Dial(x, y) /\ ~Rekey(x, y)
    BY DEF Dial, Rekey
  <2>5. QED
    BY <2>1, <2>2, <2>3, <2>4 DEF Next
<1>2. QED
  BY <1>1, TypeCorrect, NoncesStayInStep, PTL DEF Spec, Careful

-----------------------------------------------------------------------------
(* RateHolds.  RateLimitState counts by windows that begin with a datagram; *)
(* a stretch of time as long as one meets two of them at most.              *)

Within(s, a, b) == {i \in DOMAIN s : a <= s[i] /\ s[i] < b}

(* What the limiter l says of the times s when the clock shows c.           *)
Limited(l, s, c) ==
    /\ l.start \in Nat /\ l.count \in Nat /\ DOMAIN l = {"start", "count"}
    /\ s \in Seq(Nat) /\ c \in Nat
    /\ l.start <= c /\ l.count <= RateLimit
    /\ \A i \in DOMAIN s : s[i] <= c /\ s[i] < l.start + RateWindow
    /\ Cardinality(Within(s, l.start, l.start + RateWindow)) <= l.count
    /\ Cardinality(Within(s, l.start - RateWindow, l.start)) <= RateLimit
    /\ \A t \in Nat : Cardinality(Within(s, t, t + RateWindow)) <= 2 * RateLimit

RateInv == Limited(limit, taken, clock)

LEMMA WithinFinite ==
    ASSUME NEW s \in Seq(Nat), NEW a \in Int, NEW b \in Int
    PROVE  /\ IsFiniteSet(Within(s, a, b)) /\ Cardinality(Within(s, a, b)) \in Nat
           /\ Within(s, a, b) \subseteq 1..Len(s)
<1>1. Within(s, a, b) \subseteq 1..Len(s) /\ Len(s) \in Nat
  BY DEF Within
<1>2. IsFiniteSet(1..Len(s))
  BY <1>1, FS_Interval
<1>3. QED
  BY <1>1, <1>2, FS_Subset, FS_CardinalityType

LEMMA WithinGrows ==
    ASSUME NEW s \in Seq(Nat), NEW a \in Int, NEW b \in Int, NEW c \in Nat
    PROVE  /\ a <= c /\ c < b => Within(Append(s, c), a, b) = Within(s, a, b) \union {Len(s) + 1}
           /\ ~(a <= c /\ c < b) => Within(Append(s, c), a, b) = Within(s, a, b)
<1>1. /\ DOMAIN Append(s, c) = 1..(Len(s) + 1) /\ DOMAIN s = 1..Len(s) /\ Len(s) \in Nat
      /\ \A i \in 1..Len(s) : Append(s, c)[i] = s[i]
      /\ Append(s, c)[Len(s) + 1] = c
  OBVIOUS
<1>2. \A i \in 1..(Len(s) + 1) : i \in 1..Len(s) \/ i = Len(s) + 1
  BY <1>1
<1>3. 1..Len(s) \subseteq 1..(Len(s) + 1) /\ Len(s) + 1 \in 1..(Len(s) + 1)
  BY <1>1
<1>4. QED
  BY <1>1, <1>2, <1>3 DEF Within

LEMMA WithinMore ==
    ASSUME NEW s \in Seq(Nat), NEW a \in Int, NEW b \in Int, NEW c \in Nat
    PROVE  Cardinality(Within(Append(s, c), a, b)) <= Cardinality(Within(s, a, b)) + 1
<1>1. IsFiniteSet(Within(s, a, b)) /\ Cardinality(Within(s, a, b)) \in Nat
  BY WithinFinite
<1>2. CASE a <= c /\ c < b
  <2>1. PICK w : w = Within(s, a, b)
    OBVIOUS
  <2>2. Cardinality(w \union {Len(s) + 1}) =
          IF Len(s) + 1 \in w THEN Cardinality(w) ELSE Cardinality(w) + 1
    BY <1>1, <2>1, FS_AddElement
  <2>3. Cardinality(w \union {Len(s) + 1}) <= Cardinality(w) + 1
    BY <1>1, <2>1, <2>2
  <2>4. Within(Append(s, c), a, b) = w \union {Len(s) + 1}
    BY <1>2, <2>1, WithinGrows
  <2>5. QED
    BY <2>1, <2>3, <2>4
<1>3. CASE ~(a <= c /\ c < b)
  BY <1>1, <1>3, WithinGrows
<1>4. QED
  BY <1>2, <1>3

(* A new window begins when the old one is over.                            *)
LEMMA RenewedLimited ==
    ASSUME RateInv
    PROVE  Limited(Renewed, taken, clock) /\ clock < Renewed.start + RateWindow
<1>0. /\ limit.start \in Nat /\ limit.count \in Nat /\ clock \in Nat /\ taken \in Seq(Nat)
      /\ RateWindow \in Nat \ {0} /\ RateLimit \in Nat
      /\ limit.start <= clock /\ limit.count <= RateLimit
  BY LinkStatsAssumption DEF RateInv, Limited
<1>1. CASE clock - limit.start >= RateWindow
  <2>1. PICK l : l = [start |-> clock, count |-> 0]
    OBVIOUS
  <2>2. Renewed = l
    BY <1>1, <2>1 DEF Renewed
  <2>3. l.start = clock /\ l.count = 0 /\ DOMAIN l = {"start", "count"}
    BY <2>1
  <2>4. \A i \in DOMAIN taken : taken[i] \in Nat /\ taken[i] < limit.start + RateWindow
    <3>1. \A i \in DOMAIN taken : taken[i] \in Nat
      BY <1>0
    <3>2. \A i \in DOMAIN taken : taken[i] < limit.start + RateWindow
      BY DEF RateInv, Limited
    <3>3. QED
      BY <3>1, <3>2
  <2>5. \A i \in DOMAIN taken : taken[i] < clock
    BY <1>0, <1>1, <2>4
  <2>6. Within(taken, clock, clock + RateWindow) = {}
    BY <1>0, <2>4, <2>5 DEF Within
  <2>7. Cardinality(Within(taken, clock, clock + RateWindow)) = 0
    BY <2>6, FS_EmptySet
  <2>8. Within(taken, clock - RateWindow, clock) \subseteq
          Within(taken, limit.start, limit.start + RateWindow)
    BY <1>0, <1>1, <2>4 DEF Within
  <2>9. Cardinality(Within(taken, clock - RateWindow, clock)) <= RateLimit
    <3>1. limit.start + RateWindow \in Int /\ limit.start \in Int
          /\ clock - RateWindow \in Int /\ clock \in Int
      BY <1>0
    <3>2. /\ IsFiniteSet(Within(taken, limit.start, limit.start + RateWindow))
          /\ Cardinality(Within(taken, limit.start, limit.start + RateWindow)) \in Nat
      BY <1>0, <3>1, WithinFinite
    <3>3. Cardinality(Within(taken, clock - RateWindow, clock)) \in Nat
      BY <1>0, <3>1, WithinFinite
    <3>4. Cardinality(Within(taken, clock - RateWindow, clock)) <=
            Cardinality(Within(taken, limit.start, limit.start + RateWindow))
      BY <2>8, <3>2, FS_Subset
    <3>5. Cardinality(Within(taken, limit.start, limit.start + RateWindow)) <= limit.count
      BY DEF RateInv, Limited
    <3>6. QED
      BY <1>0, <3>2, <3>3, <3>4, <3>5
  <2>10. \A i \in DOMAIN taken : taken[i] <= clock /\ taken[i] < clock + RateWindow
    BY <1>0, <2>4, <2>5
  <2>11. \A t \in Nat : Cardinality(Within(taken, t, t + RateWindow)) <= 2 * RateLimit
    BY DEF RateInv, Limited
  <2>12. clock <= clock /\ 0 <= RateLimit /\ 0 <= 0 /\ clock < clock + RateWindow
    BY <1>0
  <2>13. Limited(l, taken, clock)
    BY <1>0, <2>3, <2>7, <2>9, <2>10, <2>11, <2>12 DEF Limited
  <2>14. QED
    BY <2>2, <2>3, <2>12, <2>13
<1>2. CASE ~(clock - limit.start >= RateWindow)
  <2>1. Renewed = limit /\ clock < limit.start + RateWindow
    BY <1>0, <1>2 DEF Renewed
  <2>2. QED
    BY <2>1 DEF RateInv
<1>3. QED
  BY <1>1, <1>2

LEMMA LimitedTick ==
    ASSUME NEW l, NEW s, NEW c, Limited(l, s, c)
    PROVE  Limited(l, s, c + 1)
<1>1. c \in Nat /\ l.start \in Nat /\ l.start <= c /\ \A i \in DOMAIN s : s[i] <= c /\ s[i] \in Nat
  BY DEF Limited
<1>2. c + 1 \in Nat /\ l.start <= c + 1 /\ \A i \in DOMAIN s : s[i] <= c + 1
  BY <1>1
<1>3. PICK d : d = c + 1
  OBVIOUS
<1>4. Limited(l, s, d)
  BY <1>2, <1>3 DEF Limited
<1>5. QED
  BY <1>3, <1>4

(* One more datagram is let in.                                             *)
LEMMA LimitedMore ==
    ASSUME NEW l, NEW s, NEW c, Limited(l, s, c), l.count < RateLimit, c < l.start + RateWindow,
           NEW k, k = [l EXCEPT !.count = l.count + 1]
    PROVE  Limited(k, Append(s, c), c)
<1>0. /\ l.start \in Nat /\ l.count \in Nat /\ DOMAIN l = {"start", "count"}
      /\ s \in Seq(Nat) /\ c \in Nat /\ l.start <= c
      /\ RateWindow \in Nat \ {0} /\ RateLimit \in Nat
  BY LinkStatsAssumption DEF Limited
<1>1. k.start = l.start /\ k.count = l.count + 1 /\ DOMAIN k = {"start", "count"}
  BY <1>0
<1>2. PICK a \in Int, b \in Int, e \in Int :
        a = l.start - RateWindow /\ b = l.start /\ e = l.start + RateWindow
  BY <1>0
<1>3. PICK u : u = Append(s, c)
  OBVIOUS
<1>4. u \in Seq(Nat)
  BY <1>0, <1>3
<1>5. \A i \in DOMAIN u : u[i] <= c /\ u[i] < e
  <2>1. \A i \in DOMAIN s : s[i] <= c /\ s[i] < e
    BY <1>2 DEF Limited
  <2>2. c < e
    BY <1>2
  <2>3. \A i \in DOMAIN u : (i \in DOMAIN s /\ u[i] = s[i]) \/ u[i] = c
    BY <1>0, <1>3
  <2>4. QED
    BY <1>0, <2>1, <2>2, <2>3
<1>6. Cardinality(Within(s, b, e)) \in Nat /\ Cardinality(Within(s, b, e)) <= l.count
  BY <1>0, <1>2, WithinFinite DEF Limited
<1>7. Cardinality(Within(u, b, e)) \in Nat /\ Cardinality(Within(u, b, e)) <= l.count + 1
  <2>1. Cardinality(Within(u, b, e)) <= Cardinality(Within(s, b, e)) + 1
    BY <1>0, <1>3, WithinMore
  <2>2. Cardinality(Within(u, b, e)) \in Nat
    BY <1>4, WithinFinite
  <2>3. QED
    BY <1>0, <1>6, <2>1, <2>2
<1>8. Within(u, a, b) = Within(s, a, b)
  <2>1. ~(a <= c /\ c < b)
    BY <1>0, <1>2
  <2>2. QED
    BY <1>0, <1>3, <2>1, WithinGrows
<1>9. Cardinality(Within(u, a, b)) \in Nat /\ Cardinality(Within(u, a, b)) <= RateLimit
  BY <1>2, <1>4, <1>8, WithinFinite DEF Limited
<1>10. ASSUME NEW t \in Nat PROVE Cardinality(Within(u, t, t + RateWindow)) <= 2 * RateLimit
  <2>0. PICK f \in Int : f = t + RateWindow
    BY <1>0
  <2>1. Cardinality(Within(s, t, f)) <= 2 * RateLimit
    BY <2>0 DEF Limited
  <2>2. CASE f <= b
    <3>1. ~(t <= c /\ c < f)
      BY <1>0, <1>2, <2>0, <2>2
    <3>2. QED
      BY <1>0, <1>3, <2>0, <2>1, <3>1, WithinGrows
  <2>3. CASE b < f
    <3>1. a < t
      BY <1>0, <1>2, <2>0, <2>3
    <3>2. \A i \in DOMAIN u : u[i] \in Nat
      BY <1>4
    <3>3. Within(u, t, f) \subseteq Within(u, a, b) \union Within(u, b, e)
      <4> SUFFICES ASSUME NEW i \in DOMAIN u, t <= u[i], u[i] < f
                   PROVE  (a <= u[i] /\ u[i] < b) \/ (b <= u[i] /\ u[i] < e)
        BY DEF Within
      <4>1. u[i] \in Nat /\ u[i] < e
        BY <1>5, <3>2
      <4>2. QED
        BY <3>1, <4>1
    <3>4. /\ IsFiniteSet(Within(u, a, b)) /\ IsFiniteSet(Within(u, b, e))
          /\ IsFiniteSet(Within(u, t, f)) /\ Cardinality(Within(u, t, f)) \in Nat
      BY <1>4, WithinFinite
    <3>5. PICK both : both = Within(u, a, b) \union Within(u, b, e)
      OBVIOUS
    <3>6. IsFiniteSet(both) /\ Cardinality(both) \in Nat
      BY <3>4, <3>5, FS_Union, FS_CardinalityType
    <3>7. Cardinality(both) <= Cardinality(Within(u, a, b)) + Cardinality(Within(u, b, e))
      <4>1. PICK x : x = Within(u, a, b) \cap Within(u, b, e)
        OBVIOUS
      <4>2. IsFiniteSet(x) /\ Cardinality(x) \in Nat
        BY <3>4, <4>1, FS_Intersection, FS_CardinalityType
      <4>3. Cardinality(both) =
              Cardinality(Within(u, a, b)) + Cardinality(Within(u, b, e)) - Cardinality(x)
        BY <3>4, <3>5, <4>1, FS_Union
      <4>4. QED
        BY <1>7, <1>9, <4>2, <4>3
    <3>8. Cardinality(Within(u, t, f)) <= Cardinality(both)
      BY <3>3, <3>5, <3>6, FS_Subset
    <3>9. Cardinality(Within(u, t, f)) <= 2 * RateLimit
      <4>1. PICK x \in Nat, y \in Nat, z \in Nat, w \in Nat :
              /\ x = Cardinality(Within(u, t, f)) /\ y = Cardinality(both)
              /\ z = Cardinality(Within(u, a, b)) /\ w = Cardinality(Within(u, b, e))
        BY <1>7, <1>9, <3>4, <3>6
      <4>2. x <= y /\ y <= z + w /\ z <= RateLimit
        BY <1>9, <3>7, <3>8, <4>1
      <4>5. w <= RateLimit
        <5>1. PICK m \in Nat : m = l.count
          BY <1>0
        <5>2. w <= m + 1 /\ m < RateLimit
          BY <1>7, <4>1, <5>1
        <5>3. w \in Nat /\ RateLimit \in Nat
          BY <1>0, <4>1
        <5>4. QED
          BY <5>1, <5>2, <5>3
      <4>6. RateLimit \in Nat
        BY <1>0
      <4>3. x <= 2 * RateLimit
        BY <4>2, <4>5, <4>6
      <4>4. QED
        BY <4>1, <4>3
    <3>10. QED
      BY <2>0, <3>9
  <2>4. QED
    BY <1>2, <2>0, <2>2, <2>3
<1>11. l.count + 1 \in Nat /\ l.count + 1 <= RateLimit
  BY <1>0
<1>12. Limited(k, u, c)
  BY <1>0, <1>1, <1>2, <1>4, <1>5, <1>7, <1>9, <1>10, <1>11 DEF Limited
<1>13. QED
  BY <1>3, <1>12

LEMMA RateInit == LinksInit => RateInv
<1> SUFFICES ASSUME LinksInit PROVE RateInv
  OBVIOUS
<1>1. limit = [start |-> 0, count |-> 0] /\ clock = 0 /\ taken = <<>>
  BY DEF LinksInit, MeasureInit
<1>2. \A a, b : Within(taken, a, b) = {}
  BY <1>1 DEF Within
<1>3. \A a, b : Cardinality(Within(taken, a, b)) = 0
  BY <1>2, FS_EmptySet
<1>4. PICK l : l = limit
  OBVIOUS
<1>5. l.start = 0 /\ l.count = 0 /\ DOMAIN l = {"start", "count"}
  BY <1>1, <1>4
<1>6. RateWindow \in Nat \ {0} /\ RateLimit \in Nat
  BY LinkStatsAssumption
<1>7. \A t \in Nat : Cardinality(Within(taken, t, t + RateWindow)) <= 2 * RateLimit
  BY <1>3, <1>6
<1>8. /\ Cardinality(Within(taken, 0, 0 + RateWindow)) <= 0
      /\ Cardinality(Within(taken, 0 - RateWindow, 0)) <= RateLimit
  BY <1>3, <1>6
<1>9. Limited(l, taken, clock)
  BY <1>1, <1>5, <1>6, <1>7, <1>8 DEF Limited
<1>10. QED
  BY <1>4, <1>9 DEF RateInv

LEMMA RateStep == RateInv /\ [LinksNext]_linksVars => RateInv'
<1> SUFFICES ASSUME RateInv, [LinksNext]_linksVars PROVE RateInv'
  OBVIOUS
<1>1. CASE UNCHANGED <<limit, taken, clock>>
  BY <1>1 DEF RateInv
<1>2. CASE MeasureTick
  <2>1. clock' = clock + 1 /\ UNCHANGED <<limit, taken>>
    BY <1>2 DEF MeasureTick
  <2>2. Limited(limit, taken, clock + 1)
    BY LimitedTick DEF RateInv
  <2>3. QED
    BY <2>1, <2>2 DEF RateInv
<1>3. CASE DatagramRefused
  BY <1>3, RenewedLimited DEF DatagramRefused, RateInv
<1>4. CASE LetIn /\ UNCHANGED clock
  <2>1. /\ Renewed.count < RateLimit /\ limit' = [Renewed EXCEPT !.count = Renewed.count + 1]
        /\ taken' = Append(taken, clock) /\ UNCHANGED clock
    BY <1>4 DEF LetIn, Allowed
  <2>2. PICK l, k : l = Renewed /\ k = limit'
    OBVIOUS
  <2>3. Limited(l, taken, clock) /\ clock < l.start + RateWindow
    BY <2>2, RenewedLimited
  <2>4. l.count < RateLimit /\ k = [l EXCEPT !.count = l.count + 1]
    BY <2>1, <2>2
  <2>5. Limited(k, Append(taken, clock), clock)
    BY <2>3, <2>4, LimitedMore
  <2>6. QED
    BY <2>1, <2>2, <2>5 DEF RateInv
<1>5. CASE MeasureNext
  <2>1. CASE \/ \E pong \in BOOLEAN : SendControl(pong)
             \/ \E kind \in {"control", "voice"} : SendElsewhere(kind)
             \/ SendVoice \/ RelayDrops \/ DatagramLost
    BY <1>1, <2>1 DEF SendControl, SendVoice, SendElsewhere, RelayDrops, DatagramLost
  <2>2. CASE DatagramUnreadable \/ FrameArrives \/ PongArrives
    BY <1>4, <2>2 DEF DatagramUnreadable, FrameArrives, PongArrives
  <2>3. QED
    BY <1>2, <1>3, <1>5, <2>1, <2>2 DEF MeasureNext
<1>6. QED
  BY <1>1, <1>5 DEF LinksNext, linksVars, measureVars

(* Twice the limit is the most of any stretch, wherever it lies: what it    *)
(* meets of the window before is bounded by that window's limit (allow).    *)
THEOREM RateIsHeld == LinksSpec => []RateHolds
<1>1. RateInv => RateHolds
  BY DEF RateInv, Limited, RateHolds, Within
<1>2. QED
  BY <1>1, RateInit, RateStep, PTL DEF LinksSpec

-----------------------------------------------------------------------------
(* LossIsReal.  Below a frame on its way, and below the peer's counters,    *)
(* every number is one up to the gauge's last, one that was left out or     *)
(* used for others, or that of a frame before it.                           *)

(* The window w ends with the number last; what it shows as received is in  *)
(* G, and what it shows as missing in S.                                    *)
WindowShows(w, last, G, S) ==
    \A i \in 1..Len(w) : LET n == last - Len(w) + i IN IF w[i] THEN n \in G ELSE n \in S

Skipped == dropped \union elsewhere

LossTypes ==
    /\ counter.control \in Nat /\ counter.voice \in Nat
    /\ DOMAIN counter = {"control", "voice"}
    /\ inbound \in Seq([n : Nat, pong : BOOLEAN])
    /\ DOMAIN gauge = {"last", "window", "rtt", "emitted"}
    /\ gauge.last \in Nat \union {NoNumber}
    /\ gauge.window \in Seq(BOOLEAN)
    /\ gauge.last = NoNumber => gauge.window = <<>>

(* Every number below m is accounted for by last, S, or the frames of q     *)
(* before its j-th.                                                         *)
Explained(m, last, S, q, j) ==
    \A k \in Nat : k < m =>
        k <= last \/ k \in S \/ \E i \in 1..Len(q) : i < j /\ q[i].n = k

Complete(last, S, q, c, v) ==
    /\ Explained(c, last, S, q, Len(q) + 1)
    /\ Explained(v, last, S, q, Len(q) + 1)
    /\ \A j \in 1..Len(q) : Explained(q[j].n, last, S, q, j)

AllComplete == Complete(gauge.last, Skipped, inbound, counter.control, counter.voice)

LossInv ==
    /\ LossTypes
    /\ sealed => AllComplete
    /\ WindowShows(gauge.window, gauge.last, got, Skipped)

LEMMA SmallerOf ==
    ASSUME NEW a \in Nat, NEW b \in Nat
    PROVE  Min({a, b}) = IF a <= b THEN a ELSE b
<1>1. PICK c \in {a, b} : c = IF a <= b THEN a ELSE b
  OBVIOUS
<1>2. \A x \in {a, b} : c <= x
  BY <1>1
<1>3. \A x \in {a, b} : (\A y \in {a, b} : x <= y) => x = c
  BY <1>1
<1>4. Min({a, b}) = c
  BY <1>2, <1>3 DEF Min
<1>5. QED
  BY <1>1, <1>4

LEMMA Concatenated ==
    ASSUME NEW S, NEW s \in Seq(S), NEW t \in Seq(S)
    PROVE  /\ s \o t \in Seq(S) /\ Len(s \o t) = Len(s) + Len(t)
           /\ \A i \in 1..Len(s) : (s \o t)[i] = s[i]
           /\ \A i \in 1..Len(t) : (s \o t)[Len(s) + i] = t[i]
<1>1. s \o t \in Seq(S) /\ Len(s \o t) = Len(s) + Len(t)
  OBVIOUS
<1>2. \A i \in 1..Len(s) : (s \o t)[i] = s[i]
  OBVIOUS
<1>3. \A i \in 1..Len(t) : (s \o t)[Len(s) + i] = t[i]
  OBVIOUS
<1>4. QED
  BY <1>1, <1>2, <1>3

(* update_on_receive: the gap is filled, and the oldest entries make room.  *)
LEMMA WindowPushed ==
    ASSUME NEW old \in Seq(BOOLEAN), NEW last \in Int, NEW n \in Nat, last < n,
           NEW G, NEW S, WindowShows(old, last, G, S), n \in G,
           NEW gap \in Nat,
           (old = <<>> /\ gap = 0) \/ (gap = n - last - 1 /\ \A k \in Int : last < k /\ k < n => k \in S)
    PROVE  LET w == Pushed(old, Missing(Min({gap, WindowSize})) \o <<TRUE>>)
           IN  w \in Seq(BOOLEAN) /\ WindowShows(w, n, G, S)
<1>0. WindowSize \in Nat \ {0}
  BY LinkStatsAssumption
<1>1. PICK g \in Nat : g = Min({gap, WindowSize}) /\ g = IF gap <= WindowSize THEN gap ELSE WindowSize
  BY <1>0, SmallerOf
<1>2. PICK h \in Nat : h = Len(old)
  OBVIOUS
<1>3. PICK ms : ms = Missing(g)
  OBVIOUS
<1>4. ms \in Seq(BOOLEAN) /\ Len(ms) = g /\ \A i \in 1..g : ms[i] = FALSE
  BY <1>3 DEF Missing
<1>5. PICK tl : tl = ms \o <<TRUE>>
  OBVIOUS
<1>6. /\ tl \in Seq(BOOLEAN) /\ Len(tl) = g + 1
      /\ \A i \in 1..g : tl[i] = FALSE
      /\ tl[g + 1] = TRUE
  <2>1. PICK one : one = <<TRUE>>
    OBVIOUS
  <2>2. one \in Seq(BOOLEAN) /\ Len(one) = 1 /\ one[1] = TRUE
    BY <2>1
  <2>3. g \in Nat /\ tl = ms \o one
    BY <1>5, <2>1
  <2>7. /\ tl \in Seq(BOOLEAN) /\ Len(tl) = Len(ms) + Len(one)
        /\ \A i \in 1..Len(ms) : tl[i] = ms[i]
        /\ \A i \in 1..Len(one) : tl[Len(ms) + i] = one[i]
    <3>1. PICK B : B = BOOLEAN
      OBVIOUS
    <3>2. ms \in Seq(B) /\ one \in Seq(B)
      BY <1>4, <2>2, <3>1
    <3>3. /\ tl \in Seq(B) /\ Len(tl) = Len(ms) + Len(one)
          /\ \A i \in 1..Len(ms) : tl[i] = ms[i]
          /\ \A i \in 1..Len(one) : tl[Len(ms) + i] = one[i]
      BY <2>3, <3>2, Concatenated
    <3>4. QED
      BY <3>1, <3>3
  <2>4. tl \in Seq(BOOLEAN) /\ Len(tl) = g + 1 /\ \A i \in 1..g : tl[i] = ms[i]
    BY <1>4, <2>2, <2>7
  <2>5. tl[g + 1] = one[1]
    BY <1>4, <2>2, <2>7
  <2>6. QED
    BY <1>4, <2>2, <2>4, <2>5
<1>7. PICK e : e = old \o tl
  OBVIOUS
<1>20. g \in Nat /\ h \in Nat
  OBVIOUS
<1>8. PICK len \in Nat : len = h + g + 1
  BY <1>20
<1>21. g \in Nat /\ h \in Nat /\ len \in Nat /\ len = h + g + 1
  BY <1>8
<1>9. /\ e \in Seq(BOOLEAN) /\ Len(e) = len
      /\ \A i \in 1..h : e[i] = old[i]
      /\ \A i \in (h + 1)..(h + g) : e[i] = FALSE
      /\ e[len] = TRUE
  <2>1. e \in Seq(BOOLEAN) /\ Len(e) = len
    <3>4. PICK B : B = BOOLEAN
      OBVIOUS
    <3>5. old \in Seq(B) /\ tl \in Seq(B)
      BY <1>6, <3>4
    <3>6. e \in Seq(B) /\ Len(e) = Len(old) + Len(tl)
      BY <1>7, <3>5, Concatenated
    <3>1. e \in Seq(BOOLEAN) /\ Len(e) = Len(old) + Len(tl)
      BY <3>4, <3>6
    <3>2. Len(old) = h /\ Len(tl) = g + 1
      BY <1>2, <1>6
    <3>3. QED
      BY <1>21, <3>1, <3>2
  <2>2. \A i \in 1..h : e[i] = old[i]
    BY <1>2, <1>6, <1>7, Concatenated
  <2>9. \A i \in 1..(g + 1) : e[h + i] = tl[i]
    BY <1>2, <1>6, <1>7, Concatenated
  <2>3. \A i \in (h + 1)..(h + g + 1) : e[i] = tl[i - h]
    <3> SUFFICES ASSUME NEW i \in (h + 1)..(h + g + 1) PROVE e[i] = tl[i - h]
      OBVIOUS
    <3>1. PICK k \in 1..(g + 1) : i = h + k /\ k = i - h
      BY <1>20
    <3>2. QED
      BY <2>9, <3>1
  <2>4. \A i \in (h + 1)..(h + g) : i - h \in 1..g /\ i \in (h + 1)..(h + g + 1)
    BY <1>1, <1>2
  <2>5. \A i \in (h + 1)..(h + g) : e[i] = FALSE
    BY <1>6, <2>3, <2>4
  <2>6. len \in (h + 1)..(h + g + 1) /\ len - h = g + 1
    BY <1>21
  <2>7. e[len] = TRUE
    BY <1>6, <2>3, <2>6
  <2>8. QED
    BY <2>1, <2>2, <2>5, <2>7
<1>10. PICK w : w = Newest(e)
  OBVIOUS
<1>11. w = Pushed(old, Missing(Min({gap, WindowSize})) \o <<TRUE>>)
  BY <1>1, <1>3, <1>5, <1>7, <1>10 DEF Pushed
(* What e says of the last WindowSize numbers is right.                     *)
<1>12. ASSUME NEW j \in 1..len, len - WindowSize < j
       PROVE  IF e[j] THEN n - len + j \in G ELSE n - len + j \in S
  <2>1. CASE j = len
    BY <1>8, <1>9, <2>1
  <2>2. CASE j \in (h + 1)..(h + g)
    <3>1. gap = n - last - 1 /\ \A k \in Int : last < k /\ k < n => k \in S
      BY <1>0, <1>1, <1>2, <2>2
    <3>2. last < n - len + j
      BY <1>0, <1>1, <1>2, <1>8, <1>12, <2>2, <3>1
    <3>3. n - len + j < n /\ n - len + j \in Int
      BY <1>21, <2>2
    <3>4. n - len + j \in S
      BY <3>1, <3>2, <3>3
    <3>5. QED
      BY <1>9, <2>2, <3>4
  <2>3. CASE j \in 1..h
    <3>1. g = gap /\ gap = n - last - 1
      <4>1. old # <<>>
        BY <1>2, <2>3
      <4>2. gap = n - last - 1
        BY <4>1
      <4>3. g < WindowSize
        BY <1>0, <1>1, <1>2, <1>8, <1>12, <2>3
      <4>4. QED
        BY <1>0, <1>1, <4>2, <4>3
    <3>2. n - len + j = last - h + j
      BY <1>1, <1>2, <1>8, <3>1
    <3>3. IF old[j] THEN last - h + j \in G ELSE last - h + j \in S
      BY <1>2, <2>3 DEF WindowShows
    <3>4. QED
      BY <1>9, <2>3, <3>2, <3>3
  <2>4. j = len \/ j \in (h + 1)..(h + g) \/ j \in 1..h
    BY <1>21
  <2>5. QED
    BY <2>1, <2>2, <2>3, <2>4
<1>13. CASE len <= WindowSize
  <2>1. w = e
    BY <1>9, <1>10, <1>13 DEF Newest
  <2>2. \A j \in 1..len : len - WindowSize < j
    BY <1>0, <1>8, <1>13
  <2>3. WindowShows(e, n, G, S)
    BY <1>9, <1>12, <2>2 DEF WindowShows
  <2>4. QED
    BY <1>9, <1>11, <2>1, <2>3
<1>14. CASE ~(len <= WindowSize)
  <2>1. w = SubSeq(e, len - WindowSize + 1, len)
    BY <1>9, <1>10, <1>14 DEF Newest
  <2>2. PICK a \in Nat : a = len - WindowSize
    BY <1>0, <1>8, <1>14
  <2>3. w = SubSeq(e, a + 1, len) /\ a + 1 \in 1..len /\ len - a = WindowSize
    BY <1>0, <1>8, <1>14, <2>1, <2>2
  <2>4. w \in Seq(BOOLEAN) /\ Len(w) = WindowSize /\ \A i \in 1..WindowSize : w[i] = e[a + i]
    BY <1>0, <1>9, <2>2, <2>3
  <2>5. ASSUME NEW i \in 1..WindowSize 
        PROVE  IF w[i] THEN n - WindowSize + i \in G ELSE n - WindowSize + i \in S
    <3>1. PICK j \in 1..len : j = a + i /\ len - WindowSize < j
      BY <1>0, <1>8, <1>14, <2>2
    <3>2. IF e[j] THEN n - len + j \in G ELSE n - len + j \in S
      BY <1>12, <3>1
    <3>3. n - len + j = n - WindowSize + i
      BY <1>0, <1>8, <2>2, <3>1
    <3>4. QED
      BY <2>4, <3>1, <3>2, <3>3
  <2>6. WindowShows(w, n, G, S)
    BY <2>4, <2>5 DEF WindowShows
  <2>7. QED
    BY <1>11, <2>4, <2>6
<1>15. QED
  BY <1>13, <1>14

LEMMA ElementOf ==
  ASSUME NEW S, NEW s \in Seq(S)
  PROVE  \A i \in 1..Len(s) : s[i] \in S
  OBVIOUS

LEMMA PingsNumbered ==
  ASSUME NEW s \in Seq([n : Nat, pong : BOOLEAN])
  PROVE  \A i \in 1..Len(s) : s[i].n \in Nat
<1>1. PICK F : F = [n : Nat, pong : BOOLEAN]
  OBVIOUS
<1>2. s \in Seq(F)
  BY <1>1
<1>3. \A i \in 1..Len(s) : s[i] \in F
  BY <1>2, ElementOf
<1>4. \A f \in F : f.n \in Nat
  BY <1>1
<1> SUFFICES ASSUME NEW i \in 1..Len(s) PROVE s[i].n \in Nat
  OBVIOUS
<1>5. s[i] \in F
  BY <1>3
<1>6. QED
  BY <1>4, <1>5

LEMMA LossInit == LinksInit => LossInv
<1> SUFFICES ASSUME LinksInit PROVE LossInv
  OBVIOUS
<1>1. /\ counter = [control |-> 0, voice |-> 0] /\ inbound = <<>> /\ gauge = NewGauge
  BY DEF LinksInit, MeasureInit
<1>2. /\ DOMAIN gauge = {"last", "window", "rtt", "emitted"}
      /\ gauge.last = -1 /\ gauge.window = <<>>
  BY <1>1 DEF NewGauge, NoNumber
<1>3. LossTypes
  BY <1>1, <1>2 DEF LossTypes, NoNumber
<1>4. AllComplete
  BY <1>1, <1>2 DEF AllComplete, Complete, Explained
<1>5. WindowShows(gauge.window, gauge.last, got, Skipped)
  BY <1>2 DEF WindowShows
<1>6. QED
  BY <1>3, <1>4, <1>5 DEF LossInv

(* More is read and more is spent: what was accounted for stays so.         *)
LEMMA ExplainedStays ==
    ASSUME NEW m \in Nat, NEW last \in Int, NEW S, NEW q \in Seq([n : Nat, pong : BOOLEAN]),
           NEW j, Explained(m, last, S, q, j), NEW T, S \subseteq T
    PROVE  Explained(m, last, T, q, j)
  BY DEF Explained

(* A frame is appended with the number m.                                   *)
LEMMA ExplainedAppend ==
    ASSUME NEW last \in Int, NEW S, NEW q \in Seq([n : Nat, pong : BOOLEAN]),
           NEW f \in [n : Nat, pong : BOOLEAN], NEW p, p = Append(q, f)
    PROVE  /\ \A m \in Nat : \A j \in 1..(Len(q) + 1) :
                Explained(m, last, S, q, j) => Explained(m, last, S, p, j)
           /\ \A m \in Nat : Explained(m, last, S, q, Len(q) + 1) =>
                Explained(m, last, S, p, Len(q) + 2)
           /\ Explained(f.n, last, S, q, Len(q) + 1) =>
                Explained(f.n + 1, last, S, p, Len(q) + 2)
<1>1. PICK L \in Nat : L = Len(q)
  OBVIOUS
<1>2. PICK F : F = [n : Nat, pong : BOOLEAN]
  OBVIOUS
<1>3. /\ Len(p) = L + 1 /\ p[L + 1] = f
      /\ \A i \in 1..L : p[i] = q[i]
  <2>1. q \in Seq(F) /\ f \in F
    BY <1>2
  <2>2. QED
    BY <1>1, <2>1
<1>4. \A m \in Nat : \A j \in 1..(L + 2) :
         Explained(m, last, S, q, j) => Explained(m, last, S, p, j)
  <2> SUFFICES ASSUME NEW m \in Nat, NEW j \in 1..(L + 2), Explained(m, last, S, q, j),
                      NEW k \in Nat, k < m
               PROVE  k <= last \/ k \in S \/ \E i \in 1..(L + 1) : i < j /\ p[i].n = k
    BY <1>3 DEF Explained
  <2>1. k <= last \/ k \in S \/ \E i \in 1..L : i < j /\ q[i].n = k
    BY <1>1 DEF Explained
  <2>2. ASSUME NEW i \in 1..L, i < j, q[i].n = k
        PROVE  i \in 1..(L + 1) /\ i < j /\ p[i].n = k
    BY <1>3, <2>2
  <2>3. QED
    BY <2>1, <2>2
<1>5. \A m \in Nat : Explained(m, last, S, q, L + 1) => Explained(m, last, S, q, L + 2)
  <2> SUFFICES ASSUME NEW m \in Nat, Explained(m, last, S, q, L + 1), NEW k \in Nat, k < m
               PROVE  k <= last \/ k \in S \/ \E i \in 1..L : i < L + 2 /\ q[i].n = k
    BY <1>1 DEF Explained
  <2>1. k <= last \/ k \in S \/ \E i \in 1..L : i < L + 1 /\ q[i].n = k
    BY <1>1 DEF Explained
  <2>2. QED
    BY <2>1
<1>6. ASSUME Explained(f.n, last, S, q, L + 1)
      PROVE  Explained(f.n + 1, last, S, p, L + 2)
  <2>1. PICK n \in Nat : n = f.n
    OBVIOUS
  <2>2. Explained(n, last, S, p, L + 2)
    BY <1>4, <1>5, <1>6, <2>1
  <2> SUFFICES ASSUME NEW k \in Nat, k < n + 1
               PROVE  k <= last \/ k \in S \/ \E i \in 1..(L + 1) : i < L + 2 /\ p[i].n = k
    BY <1>3, <2>1 DEF Explained
  <2>3. CASE k < n
    BY <1>3, <2>2, <2>3 DEF Explained
  <2>4. CASE k = n
    <3>1. L + 1 \in 1..(L + 1) /\ L + 1 < L + 2 /\ p[L + 1].n = k
      BY <1>3, <2>1, <2>4
    <3>2. QED
      BY <3>1
  <2>5. k < n \/ k = n
    <3>1. n \in Nat
      BY <2>1
    <3>2. QED
      BY <3>1
  <2>6. QED
    BY <2>3, <2>4, <2>5, Zenon
<1>7. QED
  BY <1>1, <1>4, <1>5, <1>6

(* The first frame is gone, and its number is read or spent.                *)
LEMMA ExplainedTail ==
    ASSUME NEW last \in Int, NEW S, NEW q \in Seq([n : Nat, pong : BOOLEAN]), q # <<>>,
           NEW after \in Int, NEW T, last <= after, S \subseteq T,
           Head(q).n <= after \/ Head(q).n \in T, NEW p, p = Tail(q)
    PROVE  \A m \in Nat : \A j \in 1..(Len(q) + 1) :
              Explained(m, last, S, q, j) => Explained(m, after, T, p, j - 1)
<1>1. PICK L \in Nat : L = Len(q) /\ L > 0
  OBVIOUS
<1>2. PICK F : F = [n : Nat, pong : BOOLEAN]
  OBVIOUS
<1>3. /\ Len(p) = L - 1 /\ Head(q) = q[1]
      /\ \A i \in 1..(L - 1) : p[i] = q[i + 1]
  <2>1. q \in Seq(F)
    BY <1>2
  <2>2. QED
    BY <1>1, <2>1
<1> SUFFICES ASSUME NEW m \in Nat, NEW j \in 1..(L + 1), Explained(m, last, S, q, j)
             PROVE  Explained(m, after, T, p, j - 1)
  BY <1>1
<1> SUFFICES ASSUME NEW k \in Nat, k < m
             PROVE  k <= after \/ k \in T \/ \E i \in 1..(L - 1) : i < j - 1 /\ p[i].n = k
  BY <1>3 DEF Explained
<1>4. k <= last \/ k \in S \/ \E i \in 1..L : i < j /\ q[i].n = k
  BY <1>1 DEF Explained
<1>5. ASSUME NEW i \in 1..L, i < j, q[i].n = k
      PROVE  k <= after \/ k \in T \/ \E h \in 1..(L - 1) : h < j - 1 /\ p[h].n = k
  <2>1. CASE i = 1
    BY <1>3, <1>5, <2>1
  <2>2. CASE i # 1
    <3>1. PICK h \in 1..(L - 1) : h + 1 = i /\ h < j - 1
      BY <1>1, <1>5, <2>2
    <3>2. p[h].n = k
      BY <1>3, <1>5, <3>1
    <3>3. QED
      BY <3>1, <3>2
  <2>3. QED
    BY <2>1, <2>2
<1>6. (k <= last => k <= after) /\ (k \in S => k \in T)
  OBVIOUS
<1>7. QED
  BY <1>4, <1>5, <1>6, Zenon

(* All numbers of a state are accounted for in the next one.                *)
LEMMA CompleteTail ==
    ASSUME NEW last \in Int, NEW S, NEW q \in Seq([n : Nat, pong : BOOLEAN]), q # <<>>,
           NEW after \in Int, NEW T, last <= after, S \subseteq T,
           Head(q).n <= after \/ Head(q).n \in T, NEW p, p = Tail(q),
           NEW c \in Nat, NEW v \in Nat, Complete(last, S, q, c, v)
    PROVE  Complete(after, T, p, c, v)
<1>1. PICK L \in Nat : L = Len(q) /\ L > 0
  OBVIOUS
<1>2. PICK F : F = [n : Nat, pong : BOOLEAN]
  OBVIOUS
<1>3. Len(p) = L - 1 /\ \A i \in 1..(L - 1) : p[i] = q[i + 1]
  <2>1. q \in Seq(F)
    BY <1>2
  <2>2. QED
    BY <1>1, <2>1
<1>4. \A m \in Nat : \A j \in 1..(L + 1) :
         Explained(m, last, S, q, j) => Explained(m, after, T, p, j - 1)
  BY <1>1, ExplainedTail
<1>5. Explained(c, after, T, p, L) /\ Explained(v, after, T, p, L)
  <2>1. L + 1 \in 1..(L + 1) /\ (L + 1) - 1 = L
    BY <1>1
  <2>2. Explained(c, last, S, q, L + 1) /\ Explained(v, last, S, q, L + 1)
    BY <1>1 DEF Complete
  <2>3. QED
    BY <1>4, <2>1, <2>2
<1>6. ASSUME NEW j \in 1..(L - 1) PROVE Explained(p[j].n, after, T, p, j)
  <2>1. j + 1 \in 1..L /\ j + 1 \in 1..(L + 1) /\ (j + 1) - 1 = j
    BY <1>1
  <2>2. Explained(q[j + 1].n, last, S, q, j + 1)
    BY <1>1, <2>1 DEF Complete
  <2>3. q[j + 1].n \in Nat
    BY <1>1, <2>1, PingsNumbered
  <2>4. Explained(q[j + 1].n, after, T, p, j)
    BY <1>4, <2>1, <2>2, <2>3
  <2>5. QED
    BY <1>3, <2>4
<1>7. (L - 1) + 1 = L
  BY <1>1
<1>8. QED
  BY <1>3, <1>5, <1>6, <1>7 DEF Complete

LEMMA CompleteSpent ==
    ASSUME NEW last \in Int, NEW S, NEW q \in Seq([n : Nat, pong : BOOLEAN]),
           NEW c \in Nat, NEW v \in Nat, Complete(last, S, q, c, v),
           NEW d \in Nat, NEW e \in Nat,
           (d = c + 1 /\ e = v) \/ (d = c /\ e = v + 1),
           NEW T, S \subseteq T, d = c + 1 => c \in T, e = v + 1 => v \in T
    PROVE  Complete(last, T, q, d, e)
<1>1. \A m \in Nat : \A j : Explained(m, last, S, q, j) => Explained(m, last, T, q, j)
  BY ExplainedStays
<1>2. \A m \in Nat : m \in T => \A j : Explained(m, last, T, q, j) => Explained(m + 1, last, T, q, j)
  BY DEF Explained
<1>3. PICK K : K = Len(q) + 1
  OBVIOUS
<1>4. Explained(c, last, T, q, K) /\ Explained(v, last, T, q, K)
  BY <1>1, <1>3 DEF Complete
<1>5. Explained(d, last, T, q, K) /\ Explained(e, last, T, q, K)
  <2>1. CASE d = c + 1 /\ e = v
    BY <1>2, <1>4, <2>1
  <2>2. CASE d = c /\ e = v + 1
    BY <1>2, <1>4, <2>2
  <2>3. QED
    BY <2>1, <2>2
<1>6. ASSUME NEW j \in 1..Len(q) PROVE Explained(q[j].n, last, T, q, j)
  <2>1. q[j].n \in Nat /\ Explained(q[j].n, last, S, q, j)
    BY PingsNumbered DEF Complete
  <2>2. QED
    BY <1>1, <2>1
<1>7. QED
  BY <1>3, <1>5, <1>6 DEF Complete

LEMMA CompleteSent ==
    ASSUME NEW last \in Int, NEW S, NEW q \in Seq([n : Nat, pong : BOOLEAN]),
           NEW c \in Nat, NEW v \in Nat, Complete(last, S, q, c, v),
           NEW d \in Nat, NEW e \in Nat,
           NEW f \in [n : Nat, pong : BOOLEAN],
           (d = c + 1 /\ e = v /\ f.n = c) \/ (d = c /\ e = v + 1 /\ f.n = v),
           NEW p, p = Append(q, f)
    PROVE  Complete(last, S, p, d, e)
<1>1. PICK L \in Nat : L = Len(q)
  OBVIOUS
<1>2. PICK F : F = [n : Nat, pong : BOOLEAN]
  OBVIOUS
<1>3. /\ Len(p) = L + 1 /\ p[L + 1] = f
      /\ \A i \in 1..L : p[i] = q[i]
  <2>1. q \in Seq(F) /\ f \in F
    BY <1>2
  <2>2. QED
    BY <1>1, <2>1
<1>4. /\ \A m \in Nat : \A j \in 1..(L + 1) :
           Explained(m, last, S, q, j) => Explained(m, last, S, p, j)
      /\ \A m \in Nat : Explained(m, last, S, q, L + 1) => Explained(m, last, S, p, L + 2)
      /\ Explained(f.n, last, S, q, L + 1) => Explained(f.n + 1, last, S, p, L + 2)
  BY <1>1, ExplainedAppend
<1>5. Explained(c, last, S, q, L + 1) /\ Explained(v, last, S, q, L + 1)
  BY <1>1 DEF Complete
<1>6. Explained(d, last, S, p, L + 2) /\ Explained(e, last, S, p, L + 2)
  BY <1>4, <1>5
<1>7. ASSUME NEW j \in 1..(L + 1) PROVE Explained(p[j].n, last, S, p, j)
  <2>1. CASE j \in 1..L
    <3>1. q[j].n \in Nat /\ Explained(q[j].n, last, S, q, j)
      BY <1>1, <2>1, PingsNumbered DEF Complete
    <3>2. j \in 1..(L + 1)
      OBVIOUS
    <3>3. Explained(q[j].n, last, S, p, j)
      BY <1>4, <3>1, <3>2
    <3>4. QED
      BY <1>3, <2>1, <3>3
  <2>2. CASE j = L + 1
    <3>1. f.n \in Nat /\ L + 1 \in 1..(L + 1) /\ p[j].n = f.n
      BY <1>3, <2>2
    <3>2. Explained(f.n, last, S, q, L + 1)
      BY <1>5
    <3>3. Explained(f.n, last, S, p, L + 1)
      BY <1>4, <3>1, <3>2
    <3>4. QED
      BY <2>2, <3>1, <3>3
  <2>3. j \in 1..L \/ j = L + 1
    OBVIOUS
  <2>4. QED
    BY <2>1, <2>2, <2>3
<1>8. (L + 1) + 1 = L + 2
  OBVIOUS
<1>9. QED
  BY <1>3, <1>6, <1>7, <1>8 DEF Complete

LEMMA CounterAdvanced ==
    ASSUME LossTypes, NEW kind \in {"control", "voice"}, Numbered(kind)
    PROVE  /\ counter'.control \in Nat /\ counter'.voice \in Nat
           /\ DOMAIN counter' = {"control", "voice"}
           /\ kind = "control" => counter'.control = counter.control + 1 /\ counter'.voice = counter.voice
           /\ kind = "voice" => counter'.control = counter.control /\ counter'.voice = counter.voice + 1
<1>1. counter' = [counter EXCEPT ![kind] = counter[kind] + 1]
  BY DEF Numbered
<1>2. CASE kind = "control"
  BY <1>1, <1>2 DEF LossTypes
<1>3. CASE kind = "voice"
  BY <1>1, <1>3 DEF LossTypes
<1>4. QED
  BY <1>2, <1>3

(* A frame for this node leaves the peer.                                   *)
LEMMA SentLoss ==
    ASSUME LossInv, NEW kind \in {"control", "voice"}, Numbered(kind), NEW pong \in BOOLEAN,
           inbound' = Append(inbound, [n |-> counter[kind], pong |-> pong]),
           UNCHANGED <<sealed, gauge, got, dropped, elsewhere>>
    PROVE  LossInv'
<1>1. LossTypes /\ (sealed => AllComplete) /\ WindowShows(gauge.window, gauge.last, got, Skipped)
  BY DEF LossInv
<1>2. /\ counter'.control \in Nat /\ counter'.voice \in Nat
      /\ DOMAIN counter' = {"control", "voice"}
      /\ kind = "control" => counter'.control = counter.control + 1 /\ counter'.voice = counter.voice
      /\ kind = "voice" => counter'.control = counter.control /\ counter'.voice = counter.voice + 1
  BY <1>1, CounterAdvanced
<1>3. PICK f : f = [n |-> counter[kind], pong |-> pong]
  OBVIOUS
<1>4. /\ f \in [n : Nat, pong : BOOLEAN] /\ f.n = counter[kind]
      /\ inbound' = Append(inbound, f)
  <2>1. counter[kind] \in Nat
    BY <1>1 DEF LossTypes
  <2>2. QED
    BY <1>3, <2>1
<1>5. LossTypes'
  <2>1. PICK F : F = [n : Nat, pong : BOOLEAN]
    OBVIOUS
  <2>2. inbound \in Seq(F) /\ f \in F
    BY <1>1, <1>4, <2>1 DEF LossTypes
  <2>3. inbound' \in Seq(F)
    BY <1>4, <2>2
  <2>4. QED
    BY <1>1, <1>2, <2>1, <2>3 DEF LossTypes
<1>6. ASSUME sealed PROVE AllComplete'
  <2>20. PICK last, S, q, c, v :
           /\ last = gauge.last /\ S = Skipped /\ q = inbound
           /\ c = counter.control /\ v = counter.voice
    OBVIOUS
  <2>1. /\ last = gauge.last /\ S = Skipped /\ q = inbound
        /\ c = counter.control /\ v = counter.voice
        /\ last \in Int /\ c \in Nat /\ v \in Nat
        /\ q \in Seq([n : Nat, pong : BOOLEAN])
    <3>1. gauge.last \in Int /\ counter.control \in Nat /\ counter.voice \in Nat
      BY <1>1 DEF LossTypes, NoNumber
    <3>2. inbound \in Seq([n : Nat, pong : BOOLEAN])
      BY <1>1 DEF LossTypes
    <3>3. QED
      BY <2>20, <3>1, <3>2, Zenon
  <2>2. PICK d \in Nat, e \in Nat : d = counter'.control /\ e = counter'.voice
    BY <1>2
  <2>3. (d = c + 1 /\ e = v /\ f.n = c) \/ (d = c /\ e = v + 1 /\ f.n = v)
    BY <1>2, <1>4, <2>1, <2>2
  <2>4. Complete(last, S, q, c, v)
    BY <1>1, <1>6, <2>1 DEF AllComplete
  <2>5. PICK p : p = Append(q, f)
    OBVIOUS
  <2>6. Complete(last, S, p, d, e)
    BY <1>4, <2>1, <2>3, <2>4, <2>5, CompleteSent
  <2>7. gauge'.last = last /\ Skipped' = S /\ inbound' = p
    BY <1>4, <2>1, <2>5 DEF Skipped
  <2>8. QED
    BY <2>2, <2>6, <2>7 DEF AllComplete
<1>7. Skipped' = Skipped
  BY DEF Skipped
<1>8. QED
  BY <1>1, <1>5, <1>6, <1>7 DEF LossInv

(* A number goes to somebody else.                                          *)
LEMMA ElsewhereLoss ==
    ASSUME LossInv, NEW kind \in {"control", "voice"}, SendElsewhere(kind)
    PROVE  LossInv'
<1>1. LossTypes /\ (sealed => AllComplete) /\ WindowShows(gauge.window, gauge.last, got, Skipped)
  BY DEF LossInv
<1>2. /\ counter'.control \in Nat /\ counter'.voice \in Nat
      /\ DOMAIN counter' = {"control", "voice"}
      /\ kind = "control" => counter'.control = counter.control + 1 /\ counter'.voice = counter.voice
      /\ kind = "voice" => counter'.control = counter.control /\ counter'.voice = counter.voice + 1
  BY <1>1, CounterAdvanced DEF SendElsewhere
<1>3. /\ elsewhere' = elsewhere \union {counter[kind]}
      /\ UNCHANGED <<inbound, sealed, gauge, got, dropped>>
  BY DEF SendElsewhere
<1>4. Skipped' = Skipped \union {counter[kind]} /\ Skipped \subseteq Skipped'
  BY <1>3 DEF Skipped
<1>5. LossTypes'
  BY <1>1, <1>2, <1>3 DEF LossTypes
<1>6. ASSUME sealed PROVE AllComplete'
  <2>20. PICK last, S, q, c, v :
           /\ last = gauge.last /\ S = Skipped /\ q = inbound
           /\ c = counter.control /\ v = counter.voice
    OBVIOUS
  <2>1. /\ last = gauge.last /\ S = Skipped /\ q = inbound
        /\ c = counter.control /\ v = counter.voice
        /\ last \in Int /\ c \in Nat /\ v \in Nat
        /\ q \in Seq([n : Nat, pong : BOOLEAN])
    <3>1. gauge.last \in Int /\ counter.control \in Nat /\ counter.voice \in Nat
      BY <1>1 DEF LossTypes, NoNumber
    <3>2. inbound \in Seq([n : Nat, pong : BOOLEAN])
      BY <1>1 DEF LossTypes
    <3>3. QED
      BY <2>20, <3>1, <3>2, Zenon
  <2>21. PICK T : T = Skipped'
    OBVIOUS
  <2>22. PICK d \in Nat, e \in Nat : d = counter'.control /\ e = counter'.voice
    BY <1>2
  <2>2. d = counter'.control /\ e = counter'.voice /\ T = Skipped'
    BY <2>21, <2>22
  <2>3. /\ (d = c + 1 /\ e = v /\ c \in T) \/ (d = c /\ e = v + 1 /\ v \in T)
        /\ S \subseteq T
    BY <1>2, <1>4, <2>1, <2>2
  <2>4. Complete(last, S, q, c, v)
    BY <1>1, <1>6, <2>1 DEF AllComplete
  <2>9. (d = c + 1 => c \in T) /\ (e = v + 1 => v \in T)
    BY <2>3
  <2>5. Complete(last, T, q, d, e)
    BY <2>1, <2>3, <2>4, <2>9, CompleteSpent
  <2>6. gauge'.last = last /\ inbound' = q
    BY <1>3, <2>1
  <2>7. QED
    BY <2>2, <2>5, <2>6 DEF AllComplete
<1>7. WindowShows(gauge'.window, gauge'.last, got', Skipped')
  BY <1>1, <1>3, <1>4 DEF WindowShows
<1>8. QED
  BY <1>3, <1>5, <1>6, <1>7 DEF LossInv

LEMMA TailTyped ==
    ASSUME LossTypes, inbound # <<>>
    PROVE  Tail(inbound) \in Seq([n : Nat, pong : BOOLEAN]) /\ Head(inbound).n \in Nat
<1>1. PICK F : F = [n : Nat, pong : BOOLEAN]
  OBVIOUS
<1>2. inbound \in Seq(F)
  BY <1>1 DEF LossTypes
<1>3. Tail(inbound) \in Seq(F) /\ Head(inbound) \in F
  BY <1>2
<1>4. \A f \in F : f.n \in Nat
  BY <1>1
<1>5. QED
  BY <1>1, <1>3, <1>4

(* A frame that does not reach the gauge: a relay left it out, or the       *)
(* transport's ends part with it.                                           *)
LEMMA MissedLoss ==
    ASSUME LossInv, inbound # <<>>, inbound' = Tail(inbound),
           UNCHANGED <<counter, gauge, got, elsewhere>>,
           \/ dropped' = dropped \union {Head(inbound).n} /\ UNCHANGED sealed
           \/ UNCHANGED dropped /\ ~sealed'
    PROVE  LossInv'
<1>1. LossTypes /\ (sealed => AllComplete) /\ WindowShows(gauge.window, gauge.last, got, Skipped)
  BY DEF LossInv
<1>2. Tail(inbound) \in Seq([n : Nat, pong : BOOLEAN]) /\ Head(inbound).n \in Nat
  BY <1>1, TailTyped
<1>3. LossTypes'
  BY <1>1, <1>2 DEF LossTypes
<1>4. Skipped \subseteq Skipped'
  BY DEF Skipped
<1>5. ASSUME sealed' PROVE AllComplete'
  <2>20. PICK last, S, q, c, v :
           /\ last = gauge.last /\ S = Skipped /\ q = inbound
           /\ c = counter.control /\ v = counter.voice
    OBVIOUS
  <2>1. /\ last = gauge.last /\ S = Skipped /\ q = inbound
        /\ c = counter.control /\ v = counter.voice
        /\ last \in Int /\ c \in Nat /\ v \in Nat
        /\ q \in Seq([n : Nat, pong : BOOLEAN])
    <3>1. gauge.last \in Int /\ counter.control \in Nat /\ counter.voice \in Nat
      BY <1>1 DEF LossTypes, NoNumber
    <3>2. inbound \in Seq([n : Nat, pong : BOOLEAN])
      BY <1>1 DEF LossTypes
    <3>3. QED
      BY <2>20, <3>1, <3>2, Zenon
  <2>2. PICK T, p : T = Skipped' /\ p = Tail(q)
    OBVIOUS
  <2>3. Head(q).n \in T
    BY <1>5, <2>1, <2>2 DEF Skipped
  <2>4. Complete(last, S, q, c, v)
    BY <1>1, <1>5, <2>1 DEF AllComplete
  <2>5. last <= last /\ S \subseteq T /\ q # <<>>
    BY <1>4, <2>1, <2>2
  <2>6. Complete(last, T, p, c, v)
    BY <2>1, <2>2, <2>3, <2>4, <2>5, CompleteTail
  <2>7. /\ gauge'.last = last /\ inbound' = p
        /\ counter'.control = c /\ counter'.voice = v
    BY <2>1, <2>2
  <2>8. QED
    BY <2>2, <2>6, <2>7 DEF AllComplete
<1>6. WindowShows(gauge'.window, gauge'.last, got', Skipped')
  BY <1>1, <1>4 DEF WindowShows
<1>7. QED
  BY <1>3, <1>5, <1>6 DEF LossInv

(* A frame that does.  What the gauge skips is below its number, and no     *)
(* frame is before it any more.                                             *)
LEMMA CountedLoss ==
    ASSUME LossInv, sealed, inbound # <<>>, inbound' = Tail(inbound),
           got' = got \union {Head(inbound).n},
           UNCHANGED <<counter, dropped, elsewhere, sealed>>,
           NEW g, g = Updated(gauge, Head(inbound).n),
           DOMAIN gauge' = DOMAIN g, gauge'.last = g.last, gauge'.window = g.window
    PROVE  LossInv'
<1>1. LossTypes /\ AllComplete /\ WindowShows(gauge.window, gauge.last, got, Skipped)
  BY DEF LossInv
<1>2. PICK n \in Nat : n = Head(inbound).n
  BY <1>1, TailTyped
<1>20. PICK last, old, S, G, q, c, v :
         /\ last = gauge.last /\ old = gauge.window
         /\ S = Skipped /\ G = got' /\ q = inbound
         /\ c = counter.control /\ v = counter.voice
  OBVIOUS
<1>3. /\ last = gauge.last /\ last >= -1 /\ old = gauge.window
      /\ S = Skipped /\ G = got' /\ q = inbound
      /\ c = counter.control /\ v = counter.voice
      /\ last \in Int /\ c \in Nat /\ v \in Nat /\ old \in Seq(BOOLEAN)
      /\ q \in Seq([n : Nat, pong : BOOLEAN])
  <2>1. /\ gauge.last \in Int /\ gauge.last >= -1
        /\ counter.control \in Nat /\ counter.voice \in Nat
    BY <1>1 DEF LossTypes, NoNumber
  <2>2. gauge.window \in Seq(BOOLEAN) /\ inbound \in Seq([n : Nat, pong : BOOLEAN])
    BY <1>1 DEF LossTypes
  <2>3. QED
    BY <1>20, <2>1, <2>2, Zenon
<1>4. Skipped' = S /\ n \in G /\ WindowShows(old, last, G, S)
  BY <1>1, <1>2, <1>3 DEF WindowShows, Skipped
<1>5. Complete(last, S, q, c, v) /\ q # <<>> /\ Head(q).n = n
  BY <1>1, <1>2, <1>3 DEF AllComplete
<1>6. \A k \in Nat : k < n => k <= last \/ k \in S
  <2>1. 1 \in 1..Len(q) /\ Head(q) = q[1]
    BY <1>5
  <2>2. Explained(q[1].n, last, S, q, 1)
    BY <1>5, <2>1 DEF Complete
  <2>3. QED
    BY <1>5, <2>1, <2>2 DEF Explained
<1>7. /\ DOMAIN g = {"last", "window", "rtt", "emitted"}
      /\ g.last \in Nat \union {NoNumber} /\ last <= g.last /\ n <= g.last
      /\ g.window \in Seq(BOOLEAN)
      /\ g.last = NoNumber => g.window = <<>>
      /\ WindowShows(g.window, g.last, G, S)
  <2>1. CASE n <= last
    <3>1. g = gauge
      BY <1>2, <1>3, <2>1 DEF Updated
    <3>2. QED
      BY <1>1, <1>3, <1>4, <2>1, <3>1 DEF LossTypes
  <2>2. CASE ~(n <= last)
    <3>1. PICK gap \in Nat : gap = IF last = NoNumber THEN 0 ELSE n - last - 1
      BY <1>3, <2>2 DEF NoNumber
    <3>2. PICK w : w = Pushed(old, Missing(Min({gap, WindowSize})) \o <<TRUE>>)
      OBVIOUS
    <3>3. DOMAIN g = {"last", "window", "rtt", "emitted"} /\ g.last = n /\ g.window = w
      <4>1. g = [gauge EXCEPT !.window = w, !.last = n]
        BY <1>2, <1>3, <2>2, <3>1, <3>2 DEF Updated
      <4>2. DOMAIN gauge = {"last", "window", "rtt", "emitted"}
        BY <1>1 DEF LossTypes
      <4>3. QED
        BY <4>1, <4>2
    <3>4. last = NoNumber => old = <<>> /\ gap = 0
      BY <1>1, <1>3, <3>1 DEF LossTypes
    <3>5. \A k \in Int : last < k /\ k < n => k \in S
      BY <1>3, <1>6
    <3>6. \/ old = <<>> /\ gap = 0
          \/ gap = n - last - 1 /\ \A k \in Int : last < k /\ k < n => k \in S
      BY <3>1, <3>4, <3>5
    <3>7. last < n /\ last <= n
      BY <1>3, <2>2
    <3>10. /\ old \in Seq(BOOLEAN) /\ last \in Int /\ last < n
           /\ WindowShows(old, last, G, S) /\ n \in G
      BY <1>3, <1>4, <3>7
    <3>8. w \in Seq(BOOLEAN) /\ WindowShows(w, n, G, S)
      BY <3>2, <3>6, <3>10, WindowPushed
    <3>9. QED
      BY <3>3, <3>7, <3>8 DEF NoNumber
  <2>3. QED
    BY <2>1, <2>2
<1>8. LossTypes'
  <2>1. inbound' \in Seq([n : Nat, pong : BOOLEAN])
    BY <1>1, TailTyped
  <2>2. QED
    BY <1>1, <1>7, <2>1 DEF LossTypes
<1>9. AllComplete'
  <2>6. PICK after, p : after = g.last /\ p = Tail(q)
    OBVIOUS
  <2>1. after \in Int /\ after = g.last /\ p = Tail(q)
    BY <1>7, <2>6 DEF NoNumber
  <2>2. last <= after /\ Head(q).n <= after /\ S \subseteq S
    BY <1>5, <1>7, <2>1
  <2>3. Complete(after, S, p, c, v)
    BY <1>3, <1>5, <2>1, <2>2, CompleteTail
  <2>4. /\ gauge'.last = after /\ inbound' = p /\ Skipped' = S
        /\ counter'.control = c /\ counter'.voice = v
    BY <1>3, <1>4, <2>1
  <2>5. QED
    BY <2>3, <2>4 DEF AllComplete
<1>10. WindowShows(gauge'.window, gauge'.last, got', Skipped')
  BY <1>3, <1>4, <1>7
<1>11. QED
  BY <1>8, <1>9, <1>10 DEF LossInv

LEMMA LossStep == LossInv /\ [LinksNext]_linksVars => LossInv'
<1> SUFFICES ASSUME LossInv, [LinksNext]_linksVars PROVE LossInv'
  OBVIOUS
<1>1. CASE UNCHANGED <<counter, inbound, sealed, gauge, got, dropped, elsewhere>>
  BY <1>1 DEF LossInv, LossTypes, AllComplete, Skipped
<1>2. CASE (\E pong \in BOOLEAN : SendControl(pong)) \/ SendVoice
  <2>1. ASSUME NEW pong \in BOOLEAN, SendControl(pong) PROVE LossInv'
    <3>1. inbound' = Append(inbound, [n |-> counter["control"], pong |-> pong])
      BY <2>1 DEF SendControl
    <3>2. QED
      BY <2>1, <3>1, SentLoss DEF SendControl
  <2>2. CASE SendVoice
    <3>1. inbound' = Append(inbound, [n |-> counter["voice"], pong |-> FALSE])
      BY <2>2 DEF SendVoice
    <3>2. QED
      BY <2>2, <3>1, SentLoss DEF SendVoice
  <2>3. QED
    BY <1>2, <2>1, <2>2
<1>10. CASE \E kind \in {"control", "voice"} : SendElsewhere(kind)
  BY <1>10, ElsewhereLoss
<1>3. CASE RelayDrops
  BY <1>3, MissedLoss DEF RelayDrops
<1>4. CASE DatagramLost \/ DatagramRefused
  BY <1>4, MissedLoss DEF DatagramLost, DatagramRefused
<1>5. CASE DatagramUnreadable
  BY <1>5, MissedLoss DEF DatagramUnreadable, LetIn
<1>6. CASE FrameArrives \/ PongArrives
  <2>1. /\ sealed /\ inbound # <<>> /\ inbound' = Tail(inbound)
        /\ got' = got \union {Head(inbound).n}
        /\ UNCHANGED <<counter, dropped, elsewhere, sealed>>
    BY <1>6 DEF FrameArrives, PongArrives, LetIn
  <2>2. PICK g : g = Updated(gauge, Head(inbound).n)
    OBVIOUS
  <2>3. PICK m : m = Measured(Head(inbound).n).gauge
    OBVIOUS
  <2>4. m = g \/ m = [g EXCEPT !.emitted = clock]
    BY <2>2, <2>3 DEF Measured
  <2>5. DOMAIN m = DOMAIN g /\ m.last = g.last /\ m.window = g.window
    <3>1. CASE m = [g EXCEPT !.emitted = clock]
      BY <3>1
    <3>2. QED
      BY <2>4, <3>1
  <2>6. gauge' = m \/ \E r : gauge' = [m EXCEPT !.rtt = r]
    BY <1>6, <2>3 DEF FrameArrives, PongArrives
  <2>7. DOMAIN gauge' = DOMAIN m /\ gauge'.last = m.last /\ gauge'.window = m.window
    <3>1. ASSUME NEW r, gauge' = [m EXCEPT !.rtt = r]
          PROVE  DOMAIN gauge' = DOMAIN m /\ gauge'.last = m.last /\ gauge'.window = m.window
      BY <3>1
    <3>2. QED
      BY <2>6, <3>1
  <2>8. QED
    BY <2>1, <2>2, <2>5, <2>7, CountedLoss
<1>7. CASE MeasureTick
  BY <1>1, <1>7 DEF MeasureTick
<1>8. CASE MeasureNext
  BY <1>2, <1>3, <1>4, <1>5, <1>6, <1>7, <1>8, <1>10 DEF MeasureNext
<1>9. QED
  BY <1>1, <1>8 DEF LinksNext, linksVars, measureVars

(* Whatever the window counts as lost was left out by a relay or used for   *)
(* others, and whatever it counts as received was read: nothing overtakes   *)
(* on a connection whose nonces agree, so that below a number that arrives  *)
(* nothing is still on its way, of either counter (update_on_receive).      *)
THEOREM LossesAreReal == LinksSpec => []LossIsReal
<1>1. LossInv => LossIsReal
  <2> SUFFICES ASSUME LossInv, NEW i \in DOMAIN gauge.window
               PROVE  LET n == gauge.last - Len(gauge.window) + i
                      IN  IF gauge.window[i] THEN n \in got ELSE n \in dropped \union elsewhere
    BY DEF LossIsReal
  <2>1. i \in 1..Len(gauge.window)
    BY DEF LossInv, LossTypes
  <2>2. QED
    BY <2>1 DEF LossInv, WindowShows, Skipped
<1>2. QED
  BY <1>1, LossInit, LossStep, PTL DEF LinksSpec
=============================================================================
