----------------------------- MODULE E2eeProofs -----------------------------
(***************************************************************************)
(* Theorems about E2ee for every set of nodes, every order of their ids    *)
(* and any number of connections, disconnects, restarts and payloads: two  *)
(* peers never hold different keys for their session, and what one of them *)
(* encrypts the other can read.                                            *)
(***************************************************************************)
EXTENDS E2ee, TLAPS

(* A frame of that kind with that public key is among those of q.           *)
Has(q, kind, e) == \E i \in 1..Len(q) : q[i].kind = kind /\ q[i].eph = e

(* It is on its way from s to r over l.                                     *)
Carries(s, r, l, kind, e) == Has(frames[s][r][l], kind, e)

Ephs == KeyPair \union {Absent}

(* The numbers of key pairs are drawn in order, and what the one side of an *)
(* exchange has drawn is not what the other has.                            *)
Drawn ==
    \A s, r \in Peer :
        /\ replying[s][r] < nextKeyPair /\ asked[s][r] < nextKeyPair
        /\ asked[s][r] # Absent => asked[s][r] # replying[r][s]
        /\ \A l \in Link, e \in Ephs :
             /\ Carries(s, r, l, "Init", e) => e # Absent /\ e < nextKeyPair
             /\ Carries(s, r, l, "Resp", e) =>
                  e # Absent /\ e < nextKeyPair /\ e # asked[r][s]

(* Nobody is connected to itself.                                           *)
Alone == \A r \in Peer : up[r][r] = {} /\ \A l \in Link : frames[r][r][l] = <<>>

Types == SecretTypeOK /\ Drawn /\ Alone

-----------------------------------------------------------------------------
(* General facts.                                                           *)

LEMMA Numbers ==
    /\ MaxKeyPairs \in Nat /\ MaxLink \in Nat /\ MaxDrops \in Nat /\ MaxSend \in Nat
    /\ KeyPair = 1..MaxKeyPairs /\ Link = 1..MaxLink /\ Absent = 0 /\ Absent \notin KeyPair
    /\ Absent \notin Link
BY ExchangeAssumption DEF KeyPair, Link, Absent

LEMMA Ranks ==
    ASSUME NEW n \in Peer, NEW m \in Peer
    PROVE  /\ ~(Lower(n, m) /\ Lower(m, n))
           /\ ~Lower(n, n)
BY ExchangeAssumption DEF Lower

LEMMA Controls ==
    ASSUME NEW kind \in Kinds, NEW e \in Ephs
    PROVE  /\ Control(kind, e) \in Frame
           /\ Control(kind, e).kind = kind /\ Control(kind, e).eph = e
           /\ Control(kind, e).key = NoKey
BY DEF Control, Frame, Keys, Ephs

LEMMA Sharing ==
    ASSUME NEW e \in KeyPair, NEW f \in KeyPair
    PROVE  /\ Shared(e, f) = Shared(f, e) /\ Shared(e, f) # NoKey
           /\ e # f => Shared(e, f) \in Keys
<1>1. Shared(e, f) = Shared(f, e) /\ Shared(e, f) # NoKey
  BY DEF Shared, NoKey
<1>2. ASSUME e # f PROVE Shared(e, f) \in Pairs
  <2>1. {e, f} \in {{x, y} : x, y \in KeyPair}
    OBVIOUS
  <2>2. \A x \in KeyPair : {e, f} # {x}
    BY <1>2
  <2>3. QED
    BY <2>1, <2>2 DEF Shared, Pairs
<1>3. QED
  BY <1>1, <1>2 DEF Keys

(* Frames in a sequence.                                                    *)
LEMMA HasTail ==
    ASSUME NEW q \in Seq(Frame), q # <<>>, NEW kind, NEW e
    PROVE  /\ Tail(q) \in Seq(Frame) /\ Head(q) \in Frame
           /\ Has(Tail(q), kind, e) => Has(q, kind, e)
           /\ Has(q, Head(q).kind, Head(q).eph)
<1>1. /\ Tail(q) \in Seq(Frame) /\ Head(q) = q[1] /\ 1 \in 1..Len(q)
      /\ Len(Tail(q)) = Len(q) - 1 /\ Len(q) \in Nat
      /\ \A i \in 1..Len(Tail(q)) : Tail(q)[i] = q[i + 1] /\ i + 1 \in 1..Len(q)
  OBVIOUS
<1>2. Head(q) \in Frame
  BY <1>1
<1>3. Has(Tail(q), kind, e) => Has(q, kind, e)
  BY <1>1 DEF Has
<1>4. Has(q, Head(q).kind, Head(q).eph)
  BY <1>1 DEF Has
<1>5. QED
  BY <1>1, <1>2, <1>3, <1>4

LEMMA HasMore ==
    ASSUME NEW q \in Seq(Frame), NEW fs \in Seq(Frame), NEW kind, NEW e
    PROVE  /\ q \o fs \in Seq(Frame)
           /\ Has(q \o fs, kind, e) <=> Has(q, kind, e) \/ Has(fs, kind, e)
           /\ q # <<>> => q \o fs # <<>> /\ Head(q \o fs) = Head(q)
<1>1. /\ q \o fs \in Seq(Frame) /\ Len(q \o fs) = Len(q) + Len(fs)
      /\ Len(q) \in Nat /\ Len(fs) \in Nat
      /\ \A i \in 1..Len(q) : (q \o fs)[i] = q[i]
      /\ \A i \in 1..Len(fs) : (q \o fs)[Len(q) + i] = fs[i]
  OBVIOUS
<1>2. Has(q, kind, e) => Has(q \o fs, kind, e)
  BY <1>1 DEF Has
<1>3. Has(fs, kind, e) => Has(q \o fs, kind, e)
  <2> SUFFICES ASSUME NEW i \in 1..Len(fs), fs[i].kind = kind, fs[i].eph = e
               PROVE  Has(q \o fs, kind, e)
    BY DEF Has
  <2>1. Len(q) + i \in 1..Len(q \o fs) /\ (q \o fs)[Len(q) + i] = fs[i]
    BY <1>1
  <2>2. QED
    BY <2>1 DEF Has
<1>4. Has(q \o fs, kind, e) => Has(q, kind, e) \/ Has(fs, kind, e)
  <2> SUFFICES ASSUME NEW i \in 1..Len(q \o fs),
                      (q \o fs)[i].kind = kind, (q \o fs)[i].eph = e
               PROVE  Has(q, kind, e) \/ Has(fs, kind, e)
    BY DEF Has
  <2>1. CASE i \in 1..Len(q)
    BY <2>1, <1>1 DEF Has
  <2>2. CASE i \notin 1..Len(q)
    <3>1. i - Len(q) \in 1..Len(fs) /\ Len(q) + (i - Len(q)) = i
      BY <2>2, <1>1
    <3>2. fs[i - Len(q)] = (q \o fs)[i]
      BY <3>1, <1>1
    <3>3. QED
      BY <3>1, <3>2 DEF Has
  <2>3. QED
    BY <2>1, <2>2
<1>5. q # <<>> => q \o fs # <<>> /\ Head(q \o fs) = Head(q)
  BY <1>1
<1>6. QED
  BY <1>1, <1>2, <1>3, <1>4, <1>5

LEMMA HasOne ==
    ASSUME NEW f \in Frame, NEW kind, NEW e
    PROVE  /\ <<f>> \in Seq(Frame) /\ <<f>> # <<>> /\ Head(<<f>>) = f
           /\ Has(<<f>>, kind, e) <=> kind = f.kind /\ e = f.eph
BY DEF Has

LEMMA HasTwo ==
    ASSUME NEW f \in Frame, NEW g \in Frame, NEW kind, NEW e
    PROVE  /\ <<f, g>> \in Seq(Frame)
           /\ Has(<<f, g>>, kind, e) <=> \/ kind = f.kind /\ e = f.eph
                                         \/ kind = g.kind /\ e = g.eph
<1>1. <<f, g>> \in Seq(Frame) /\ Len(<<f, g>>) = 2 /\ <<f, g>>[1] = f /\ <<f, g>>[2] = g
  OBVIOUS
<1>2. 1..2 = {1, 2}
  OBVIOUS
<1>3. QED
  BY <1>1, <1>2 DEF Has

LEMMA HasNone ==
    ASSUME NEW kind, NEW e PROVE ~Has(<<>>, kind, e)
BY DEF Has

(* Every step is one of these.                                              *)
LEMMA Steps ==
    ASSUME [SecretNext]_secretVars
    PROVE  \/ UNCHANGED secretVars
           \/ \E n, m \in Peer : Connect(n, m) \/ DisconnectPeer(n, m)
           \/ \E n, m \in Peer : SendInit(n, m) \/ SendResp(n, m) \/ Send(n, m)
           \/ \E s, r \in Peer : \E l \in Link :
                \/ RecvStray(s, r, l) \/ RecvHello(s, r, l) \/ RecvInit(s, r, l)
                \/ RecvInitIgnored(s, r, l) \/ RecvResp(s, r, l)
                \/ RecvReady(s, r, l) \/ RecvPayload(s, r, l)
           \/ \E n \in Peer : RestartNode(n)
BY DEF SecretNext, ReceiveFrame

-----------------------------------------------------------------------------
(* Tables of tables.                                                        *)

Lines == [Link -> Seq(Frame)]

-----------------------------------------------------------------------------
(* What the actions do to one stream of frames.                             *)

LEMMA Nets ==
    ASSUME SecretTypeOK PROVE frames \in [Peer -> [Peer -> Lines]]
BY DEF SecretTypeOK, Lines

LEMMA Streams ==
    ASSUME SecretTypeOK, NEW x \in Peer, NEW y \in Peer, NEW k \in Link
    PROVE  frames[x][y][k] \in Seq(Frame)
BY Nets DEF Lines

LEMMA PostNet ==
    ASSUME SecretTypeOK, NEW n \in Peer, NEW m \in Peer, NEW fs \in Seq(Frame), Post(n, m, fs)
    PROVE  /\ frames' \in [Peer -> [Peer -> Lines]]
           /\ \A x, y \in Peer, k \in Link :
                frames'[x][y][k] =
                   IF x = n /\ y = m /\ k = route[n][m] /\ k \in up[n][m]
                   THEN frames[x][y][k] \o fs ELSE frames[x][y][k]
<1>1. Over(n, m, fs) \in Lines
  <2>1. \A k \in Link : frames[n][m][k] \in Seq(Frame) /\ frames[n][m][k] \o fs \in Seq(Frame)
    BY Streams
  <2>2. QED
    BY <2>1 DEF Over, Lines
<1>2. frames' = [frames EXCEPT ![n][m] = Over(n, m, fs)]
  BY DEF Post
<1>3. /\ frames' \in [Peer -> [Peer -> Lines]]
      /\ \A x, y \in Peer : frames'[x][y] = IF x = n /\ y = m THEN Over(n, m, fs)
                                         ELSE frames[x][y]
  BY <1>1, <1>2, Nets
<1>4. ASSUME NEW x \in Peer, NEW y \in Peer, NEW k \in Link
      PROVE  frames'[x][y][k] =
                IF x = n /\ y = m /\ k = route[n][m] /\ k \in up[n][m]
                THEN frames[x][y][k] \o fs ELSE frames[x][y][k]
  <2>1. CASE x = n /\ y = m
    <3>1. frames'[x][y] = Over(n, m, fs)
      BY <1>3, <2>1
    <3>2. QED
      BY <2>1, <3>1 DEF Over
  <2>2. CASE ~(x = n /\ y = m)
    BY <1>3, <2>2
  <2>3. QED
    BY <2>1, <2>2
<1>5. QED
  BY <1>3, <1>4

LEMMA TakeNet ==
    ASSUME SecretTypeOK, NEW s \in Peer, NEW r \in Peer, NEW l \in Link,
           frames[s][r][l] # <<>>, Take(s, r, l)
    PROVE  /\ frames' \in [Peer -> [Peer -> Lines]]
           /\ \A x, y \in Peer, k \in Link :
                frames'[x][y][k] = IF x = s /\ y = r /\ k = l
                                THEN Tail(frames[x][y][k]) ELSE frames[x][y][k]
<1>1. PICK t \in Seq(Frame) : t = Tail(frames[s][r][l])
  BY Streams, HasTail
<1>2. PICK o : o = [frames[s][r] EXCEPT ![l] = t]
  OBVIOUS
<1>3. frames' = [frames EXCEPT ![s][r] = o]
  BY <1>1, <1>2 DEF Take
<1>4. o \in Lines /\ \A k \in Link : o[k] = IF k = l THEN t ELSE frames[s][r][k]
  <2>1. frames[s][r] \in [Link -> Seq(Frame)]
    BY Nets DEF Lines
  <2>2. QED
    BY <1>1, <1>2, <2>1 DEF Lines
<1>5. /\ frames' \in [Peer -> [Peer -> Lines]]
      /\ \A x, y \in Peer : frames'[x][y] = IF x = s /\ y = r THEN o ELSE frames[x][y]
  BY <1>3, <1>4, Nets
<1>6. QED
  BY <1>1, <1>4, <1>5

LEMMA TakePostNet ==
    ASSUME SecretTypeOK, NEW s \in Peer, NEW r \in Peer, NEW l \in Link, s # r,
           frames[s][r][l] # <<>>, NEW fs \in Seq(Frame), TakeAndPost(s, r, l, fs)
    PROVE  /\ frames' \in [Peer -> [Peer -> Lines]]
           /\ \A x, y \in Peer, k \in Link :
                frames'[x][y][k] =
                   IF x = s /\ y = r /\ k = l THEN Tail(frames[x][y][k])
                   ELSE IF x = r /\ y = s /\ k = route[r][s] /\ k \in up[r][s]
                   THEN frames[x][y][k] \o fs ELSE frames[x][y][k]
<1>1. PICK t \in Seq(Frame) : t = Tail(frames[s][r][l])
  BY Streams, HasTail
<1>2. PICK o : o = Over(r, s, fs)
  OBVIOUS
<1>3. o \in Lines
  <2>1. \A k \in Link : frames[r][s][k] \in Seq(Frame) /\ frames[r][s][k] \o fs \in Seq(Frame)
    BY Streams
  <2>2. QED
    BY <1>2, <2>1 DEF Over, Lines
<1>4. PICK u, g : u = [frames[s][r] EXCEPT ![l] = t] /\ g = [frames EXCEPT ![s][r] = u]
  OBVIOUS
<1>5. frames' = [g EXCEPT ![r][s] = o]
  BY <1>1, <1>2, <1>4 DEF TakeAndPost
<1>6. u \in Lines /\ \A k \in Link : u[k] = IF k = l THEN t ELSE frames[s][r][k]
  <2>1. frames[s][r] \in [Link -> Seq(Frame)]
    BY Nets DEF Lines
  <2>2. QED
    BY <1>1, <1>4, <2>1 DEF Lines
<1>11. /\ g \in [Peer -> [Peer -> Lines]]
       /\ \A x, y \in Peer : g[x][y] = IF x = s /\ y = r THEN u ELSE frames[x][y]
  BY <1>4, <1>6, Nets
<1>7. /\ frames' \in [Peer -> [Peer -> Lines]]
      /\ \A x, y \in Peer : frames'[x][y] = IF x = r /\ y = s THEN o ELSE g[x][y]
  BY <1>3, <1>5, <1>11
<1>8. \A k \in Link : o[k] = IF k = route[r][s] /\ k \in up[r][s]
                             THEN frames[r][s][k] \o fs ELSE frames[r][s][k]
  BY <1>2 DEF Over
<1>9. ASSUME NEW x \in Peer, NEW y \in Peer, NEW k \in Link
      PROVE  frames'[x][y][k] =
                IF x = s /\ y = r /\ k = l THEN Tail(frames[x][y][k])
                ELSE IF x = r /\ y = s /\ k = route[r][s] /\ k \in up[r][s]
                THEN frames[x][y][k] \o fs ELSE frames[x][y][k]
  BY <1>1, <1>6, <1>7, <1>8, <1>11
<1>10. QED
  BY <1>7, <1>9

LEMMA ConnectNet ==
    ASSUME SecretTypeOK, NEW n \in Peer, NEW m \in Peer, Connect(n, m)
    PROVE  /\ n # m /\ links + 1 \in Link /\ links' = links + 1
           /\ frames' \in [Peer -> [Peer -> Lines]]
           /\ \A x, y \in Peer, k \in Link :
                frames'[x][y][k] =
                   IF k = links + 1 /\ ((x = n /\ y = m) \/ (x = m /\ y = n))
                   THEN <<Control("Hello", Absent)>> ELSE frames[x][y][k]
           /\ up' \in [Peer -> [Peer -> SUBSET Link]]
           /\ \A x, y \in Peer :
                up'[x][y] = IF (x = n /\ y = m) \/ (x = m /\ y = n)
                            THEN up[x][y] \union {links + 1} ELSE up[x][y]
<1>1. PICK h \in Seq(Frame) : h = <<Control("Hello", Absent)>>
  BY Controls, HasOne DEF Kinds, Ephs
<1>2. PICK l : l = links + 1
  OBVIOUS
<1>3. /\ n # m /\ l \in Link /\ links' = l
      /\ frames' = [frames EXCEPT ![n][m][l] = h, ![m][n][l] = h]
      /\ up' = [up EXCEPT ![n][m] = up[n][m] \union {l}, ![m][n] = up[m][n] \union {l}]
  <2>1. links \in 0..MaxLink /\ n # m /\ links < MaxLink
    BY DEF Connect, SecretTypeOK
  <2>2. l \in Link
    BY <1>2, <2>1, Numbers
  <2>3. frames' = [frames EXCEPT ![n][m][l] = h, ![m][n][l] = h] /\ links' = l
    BY <1>1, <1>2 DEF Connect
  <2>4. up' = [up EXCEPT ![n][m] = up[n][m] \union {l}, ![m][n] = up[m][n] \union {l}]
    BY <1>2, <2>1 DEF Connect, SecretTypeOK
  <2>5. QED
    BY <2>1, <2>2, <2>3, <2>4
<1>4. PICK v, w, g, u :
         /\ v = [frames[n][m] EXCEPT ![l] = h] /\ w = [frames[m][n] EXCEPT ![l] = h]
         /\ g = [frames EXCEPT ![n][m] = v]
         /\ u = [up EXCEPT ![n][m] = up[n][m] \union {l}]
  OBVIOUS
<1>5. /\ v \in Lines /\ \A k \in Link : v[k] = IF k = l THEN h ELSE frames[n][m][k]
      /\ w \in Lines /\ \A k \in Link : w[k] = IF k = l THEN h ELSE frames[m][n][k]
  <2>1. frames[n][m] \in [Link -> Seq(Frame)] /\ frames[m][n] \in [Link -> Seq(Frame)]
    BY Nets DEF Lines
  <2>2. v \in Lines /\ \A k \in Link : v[k] = IF k = l THEN h ELSE frames[n][m][k]
    BY <1>3, <1>4, <2>1 DEF Lines
  <2>3. w \in Lines /\ \A k \in Link : w[k] = IF k = l THEN h ELSE frames[m][n][k]
    BY <1>3, <1>4, <2>1 DEF Lines
  <2>4. QED
    BY <2>2, <2>3
<1>6. /\ g \in [Peer -> [Peer -> Lines]]
      /\ \A x, y \in Peer : g[x][y] = IF x = n /\ y = m THEN v ELSE frames[x][y]
  BY <1>4, <1>5, Nets
<1>7. frames' = [g EXCEPT ![m][n] = w]
  <2>1. frames' = [g EXCEPT ![m][n][l] = h] /\ g[m][n] = frames[m][n]
    BY <1>3, <1>4, <1>6
  <2>2. QED
    BY <2>1, <1>4
<1>8. /\ frames' \in [Peer -> [Peer -> Lines]]
      /\ \A x, y \in Peer : frames'[x][y] = IF x = m /\ y = n THEN w ELSE g[x][y]
  BY <1>5, <1>6, <1>7
<1>9. up \in [Peer -> [Peer -> SUBSET Link]] /\ up[m][n] \union {l} \in SUBSET Link
  BY <1>3 DEF SecretTypeOK
<1>10. /\ u \in [Peer -> [Peer -> SUBSET Link]]
       /\ \A x, y \in Peer :
            u[x][y] = IF x = n /\ y = m THEN up[n][m] \union {l} ELSE up[x][y]
  BY <1>3, <1>4, <1>9
<1>11. up' = [u EXCEPT ![m][n] = up[m][n] \union {l}]
  BY <1>3, <1>4
<1>12. /\ up' \in [Peer -> [Peer -> SUBSET Link]]
       /\ \A x, y \in Peer :
            up'[x][y] = IF x = m /\ y = n THEN up[m][n] \union {l} ELSE u[x][y]
  BY <1>9, <1>10, <1>11
<1>13. ASSUME NEW x \in Peer, NEW y \in Peer, NEW k \in Link
       PROVE  frames'[x][y][k] =
                 IF k = l /\ ((x = n /\ y = m) \/ (x = m /\ y = n))
                 THEN h ELSE frames[x][y][k]
  <2>1. CASE x = n /\ y = m
    <3>1. frames'[x][y] = v
      BY <2>1, <1>3, <1>6, <1>8
    <3>2. QED
      BY <2>1, <3>1, <1>5
  <2>2. CASE x = m /\ y = n
    <3>1. frames'[x][y] = w
      BY <2>2, <1>8
    <3>2. QED
      BY <2>2, <3>1, <1>5
  <2>3. CASE ~(x = n /\ y = m) /\ ~(x = m /\ y = n)
    BY <2>3, <1>6, <1>8
  <2>4. QED
    BY <2>1, <2>2, <2>3
<1>14. ASSUME NEW x \in Peer, NEW y \in Peer
       PROVE  up'[x][y] = IF (x = n /\ y = m) \/ (x = m /\ y = n)
                          THEN up[x][y] \union {l} ELSE up[x][y]
  <2>1. CASE x = n /\ y = m
    BY <2>1, <1>3, <1>10, <1>12
  <2>2. CASE x = m /\ y = n
    BY <2>2, <1>12
  <2>3. CASE ~(x = n /\ y = m) /\ ~(x = m /\ y = n)
    BY <2>3, <1>10, <1>12
  <2>4. QED
    BY <2>1, <2>2, <2>3
<1>15. QED
  <2>1. n # m /\ links + 1 \in Link /\ links' = links + 1
    BY <1>2, <1>3
  <2>2. \A x, y \in Peer, k \in Link :
           frames'[x][y][k] =
              IF k = links + 1 /\ ((x = n /\ y = m) \/ (x = m /\ y = n))
              THEN <<Control("Hello", Absent)>> ELSE frames[x][y][k]
    BY <1>1, <1>2, <1>13
  <2>3. \A x, y \in Peer :
           up'[x][y] = IF (x = n /\ y = m) \/ (x = m /\ y = n)
                       THEN up[x][y] \union {links + 1} ELSE up[x][y]
    BY <1>2, <1>14
  <2>4. QED
    BY <1>8, <1>12, <2>1, <2>2, <2>3

-----------------------------------------------------------------------------
(* The type invariant.                                                      *)

LEMMA Heads ==
    ASSUME Types, NEW s \in Peer, NEW r \in Peer, NEW l \in Link, frames[s][r][l] # <<>>
    PROVE  /\ Got(s, r, l) \in Frame
           /\ Carries(s, r, l, Got(s, r, l).kind, Got(s, r, l).eph)
           /\ Got(s, r, l).kind = "Init" =>
                Got(s, r, l).eph \in KeyPair /\ Got(s, r, l).eph < nextKeyPair
           /\ Got(s, r, l).kind = "Resp" =>
                /\ Got(s, r, l).eph \in KeyPair /\ Got(s, r, l).eph < nextKeyPair
                /\ Got(s, r, l).eph # asked[r][s]
<1>1. Got(s, r, l) \in Frame
  BY Streams, HasTail DEF Got, Types
<1>2. Carries(s, r, l, Got(s, r, l).kind, Got(s, r, l).eph)
  BY Streams, HasTail DEF Got, Types, Carries
<1>3. Got(s, r, l).eph \in Ephs
  BY <1>1 DEF Frame, Ephs
<1>4. Got(s, r, l).eph # Absent => Got(s, r, l).eph \in KeyPair
  BY <1>3 DEF Ephs
<1>5. QED
  BY <1>1, <1>2, <1>3, <1>4 DEF Types, Drawn

LEMMA ConnectTypes ==
    ASSUME SecretTypeOK, NEW n \in Peer, NEW m \in Peer, Connect(n, m) PROVE SecretTypeOK'
<1>1. /\ frames' \in [Peer -> [Peer -> Lines]] /\ up' \in [Peer -> [Peer -> SUBSET Link]]
      /\ links + 1 \in Link /\ links' = links + 1
  BY ConnectNet
<1>2. links' \in 0..MaxLink
  BY <1>1, Numbers
<1>3. UNCHANGED <<route, known, begun, replying, asked, key, ready,
                  nextKeyPair, drops, payloads, unread>>
  BY DEF Connect
<1>4. QED
  BY <1>1, <1>2, <1>3 DEF SecretTypeOK, Lines

LEMMA DisconnectTypes ==
    ASSUME SecretTypeOK, NEW n \in Peer, NEW m \in Peer, DisconnectPeer(n, m) PROVE SecretTypeOK'
<1>1. /\ drops' = drops + 1 /\ drops < MaxDrops
      /\ up' = [up EXCEPT ![n][m] = up[n][m] \ {route[n][m]}]
      /\ route' = [route EXCEPT ![n][m] = Absent]
      /\ key' = [key EXCEPT ![n][m] = NoKey]
      /\ asked' = [asked EXCEPT ![n][m] = Absent]
      /\ UNCHANGED <<known, begun, replying, ready, frames, nextKeyPair, links,
                     payloads, unread>>
  BY DEF DisconnectPeer
<1>2. up' \in [Peer -> [Peer -> SUBSET Link]]
  BY <1>1 DEF SecretTypeOK
<1>3. route' \in [Peer -> [Peer -> Link \union {Absent}]]
  BY <1>1 DEF SecretTypeOK
<1>4. asked' \in [Peer -> [Peer -> KeyPair \union {Absent}]]
  BY <1>1 DEF SecretTypeOK
<1>5. key' \in [Peer -> [Peer -> Keys]]
  <2>1. NoKey \in Keys
    BY DEF Keys
  <2>2. QED
    BY <1>1, <2>1 DEF SecretTypeOK
<1>6. drops' \in 0..MaxDrops
  BY <1>1, Numbers DEF SecretTypeOK
<1>7. QED
  BY <1>1, <1>2, <1>3, <1>4, <1>5, <1>6 DEF SecretTypeOK

LEMMA RestartTypes ==
    ASSUME SecretTypeOK, NEW n \in Peer, RestartNode(n) PROVE SecretTypeOK'
<1>1. /\ drops' = drops + 1 /\ drops < MaxDrops
      /\ up' = [up EXCEPT ![n] = [m \in Peer |-> {}]]
      /\ route' = [route EXCEPT ![n] = [m \in Peer |-> Absent]]
      /\ known' = [known EXCEPT ![n] = [m \in Peer |-> FALSE]]
      /\ begun' = [begun EXCEPT ![n] = [m \in Peer |-> 0]]
      /\ replying' = [replying EXCEPT ![n] = [m \in Peer |-> Absent]]
      /\ asked' = [asked EXCEPT ![n] = [m \in Peer |-> Absent]]
      /\ key' = [key EXCEPT ![n] = [m \in Peer |-> NoKey]]
      /\ ready' = [ready EXCEPT ![n] = [m \in Peer |-> {}]]
      /\ UNCHANGED <<frames, nextKeyPair, links, payloads, unread>>
  BY DEF RestartNode
<1>2. up' \in [Peer -> [Peer -> SUBSET Link]]
  BY <1>1 DEF SecretTypeOK
<1>3. route' \in [Peer -> [Peer -> Link \union {Absent}]]
  BY <1>1 DEF SecretTypeOK
<1>4. known' \in [Peer -> [Peer -> BOOLEAN]]
  BY <1>1 DEF SecretTypeOK
<1>5. begun' \in [Peer -> [Peer -> Nat]]
  BY <1>1 DEF SecretTypeOK
<1>6. /\ replying' \in [Peer -> [Peer -> KeyPair \union {Absent}]]
      /\ asked' \in [Peer -> [Peer -> KeyPair \union {Absent}]]
  BY <1>1 DEF SecretTypeOK
<1>7. key' \in [Peer -> [Peer -> Keys]]
  <2>1. NoKey \in Keys
    BY DEF Keys
  <2>2. QED
    BY <1>1, <2>1 DEF SecretTypeOK
<1>8. ready' \in [Peer -> [Peer -> SUBSET Both]]
  BY <1>1 DEF SecretTypeOK
<1>9. drops' \in 0..MaxDrops
  BY <1>1, Numbers DEF SecretTypeOK
<1>10. QED
  BY <1>1, <1>2, <1>3, <1>4, <1>5, <1>6, <1>7, <1>8, <1>9 DEF SecretTypeOK

LEMMA StrayTypes ==
    ASSUME SecretTypeOK, NEW s \in Peer, NEW r \in Peer, NEW l \in Link, RecvStray(s, r, l)
    PROVE  SecretTypeOK'
<1>1. frames' \in [Peer -> [Peer -> Lines]]
  BY TakeNet DEF RecvStray, InFlight
<1>2. UNCHANGED <<tables, nextKeyPair, links, drops, payloads, unread>>
  BY DEF RecvStray
<1>3. QED
  BY <1>1, <1>2 DEF SecretTypeOK, Lines, tables

LEMMA PayloadTypes ==
    ASSUME SecretTypeOK, NEW s \in Peer, NEW r \in Peer, NEW l \in Link, RecvPayload(s, r, l)
    PROVE  SecretTypeOK'
<1>1. frames' \in [Peer -> [Peer -> Lines]]
  BY TakeNet DEF RecvPayload, Comes, InFlight
<1>2. /\ UNCHANGED <<tables, nextKeyPair, links, drops, payloads>>
      /\ unread' = unread \/ unread' = unread \union {<<r, s>>}
  BY DEF RecvPayload
<1>3. unread' \subseteq Peer \X Peer
  BY <1>2 DEF SecretTypeOK
<1>4. QED
  BY <1>1, <1>2, <1>3 DEF SecretTypeOK, Lines, tables

LEMMA HelloTypes ==
    ASSUME SecretTypeOK, NEW s \in Peer, NEW r \in Peer, NEW l \in Link, RecvHello(s, r, l)
    PROVE  SecretTypeOK'
<1>1. frames' \in [Peer -> [Peer -> Lines]]
  BY TakeNet DEF RecvHello, Comes, InFlight
<1>2. /\ route' = [route EXCEPT ![r][s] = l]
      /\ known' = [known EXCEPT ![r][s] = TRUE]
      /\ begun' = [begun EXCEPT ![r][s] = IF MayStart(r, s) THEN begun[r][s] + 1
                                                ELSE begun[r][s]]
      /\ UNCHANGED <<up, replying, asked, key, ready, nextKeyPair, links, drops,
                     payloads, unread>>
  BY DEF RecvHello, MaybeStart
<1>3. route' \in [Peer -> [Peer -> Link \union {Absent}]]
  BY <1>2 DEF SecretTypeOK
<1>4. known' \in [Peer -> [Peer -> BOOLEAN]]
  BY <1>2 DEF SecretTypeOK
<1>5. begun' \in [Peer -> [Peer -> Nat]]
  BY <1>2 DEF SecretTypeOK
<1>6. QED
  BY <1>1, <1>2, <1>3, <1>4, <1>5 DEF SecretTypeOK, Lines

LEMMA SendInitTypes ==
    ASSUME SecretTypeOK, NEW n \in Peer, NEW m \in Peer, SendInit(n, m)
    PROVE  SecretTypeOK'
<1>1. /\ begun[n][m] > 0 /\ nextKeyPair \in KeyPair /\ nextKeyPair' = nextKeyPair + 1
      /\ begun' = [begun EXCEPT ![n][m] = begun[n][m] - 1]
      /\ asked' = [asked EXCEPT ![n][m] = nextKeyPair]
      /\ UNCHANGED <<up, route, known, replying, key, ready, links, drops, payloads,
                     unread>>
  BY DEF SendInit
<1>2. frames' \in [Peer -> [Peer -> Lines]]
  <2>1. <<Control("Init", nextKeyPair)>> \in Seq(Frame)
    BY <1>1, Controls, HasOne DEF Kinds, Ephs
  <2>2. QED
    BY <2>1, PostNet DEF SendInit
<1>3. begun' \in [Peer -> [Peer -> Nat]]
  <2>1. PICK k \in Nat : k = begun[n][m] - 1
    BY <1>1 DEF SecretTypeOK
  <2>2. QED
    BY <1>1, <2>1 DEF SecretTypeOK
<1>4. asked' \in [Peer -> [Peer -> KeyPair \union {Absent}]]
  BY <1>1 DEF SecretTypeOK
<1>5. nextKeyPair' \in 1..(MaxKeyPairs + 1)
  BY <1>1, Numbers
<1>6. QED
  BY <1>1, <1>2, <1>3, <1>4, <1>5 DEF SecretTypeOK, Lines

LEMMA RecvInitTypes ==
    ASSUME Types, NEW s \in Peer, NEW r \in Peer, NEW l \in Link, RecvInit(s, r, l)
    PROVE  SecretTypeOK'
<1>1. /\ frames[s][r][l] # <<>> /\ Got(s, r, l).kind = "Init"
      /\ nextKeyPair \in KeyPair /\ nextKeyPair' = nextKeyPair + 1 /\ Take(s, r, l)
      /\ asked' = asked \/ asked' = [asked EXCEPT ![r][s] = Absent]
      /\ key' = [key EXCEPT ![r][s] = Shared(nextKeyPair, Got(s, r, l).eph)]
      /\ ready' = [ready EXCEPT ![r][s] = ready[r][s] \union {"local"}]
      /\ replying' = [replying EXCEPT ![r][s] = nextKeyPair]
      /\ UNCHANGED <<up, route, known, begun, links, drops, payloads, unread>>
  BY DEF RecvInit, Comes, InFlight, Got
<1>2. frames' \in [Peer -> [Peer -> Lines]]
  BY <1>1, TakeNet DEF Types
<1>3. asked' \in [Peer -> [Peer -> KeyPair \union {Absent}]]
  <2>1. asked \in [Peer -> [Peer -> KeyPair \union {Absent}]]
    BY DEF SecretTypeOK, Types
  <2>2. CASE asked' = asked
    BY <2>1, <2>2
  <2>3. CASE asked' = [asked EXCEPT ![r][s] = Absent]
    BY <2>1, <2>3
  <2>4. QED
    BY <1>1, <2>2, <2>3
<1>4. key' \in [Peer -> [Peer -> Keys]]
  <2>1. Got(s, r, l).eph \in KeyPair /\ Got(s, r, l).eph # nextKeyPair
    BY <1>1, Heads, Numbers
  <2>2. PICK k \in Keys : k = Shared(nextKeyPair, Got(s, r, l).eph)
    BY <1>1, <2>1, Sharing
  <2>3. QED
    BY <1>1, <2>2 DEF SecretTypeOK, Types
<1>5. ready' \in [Peer -> [Peer -> SUBSET Both]]
  <2>1. ready \in [Peer -> [Peer -> SUBSET Both]]
    BY DEF SecretTypeOK, Types
  <2>2. PICK v \in SUBSET Both : v = ready[r][s] \union {"local"}
    BY <2>1 DEF Both
  <2>3. QED
    BY <1>1, <2>1, <2>2
<1>6. replying' \in [Peer -> [Peer -> KeyPair \union {Absent}]]
  BY <1>1 DEF SecretTypeOK, Types
<1>7. nextKeyPair' \in 1..(MaxKeyPairs + 1)
  BY <1>1, Numbers
<1>8. QED
  BY <1>1, <1>2, <1>3, <1>4, <1>5, <1>6, <1>7 DEF SecretTypeOK, Types, Lines

LEMMA IgnoredTypes ==
    ASSUME SecretTypeOK, NEW s \in Peer, NEW r \in Peer, NEW l \in Link,
           RecvInitIgnored(s, r, l) \/ RecvReady(s, r, l)
    PROVE  SecretTypeOK'
<1>1. /\ frames[s][r][l] # <<>> /\ Take(s, r, l)
      /\ asked' = asked \/ asked' = [asked EXCEPT ![r][s] = Absent]
      /\ ready' = ready \/ ready' = [ready EXCEPT ![r][s] = ready[r][s] \union {"remote"}]
      /\ UNCHANGED <<up, route, known, begun, replying, key, nextKeyPair,
                     links, drops, payloads, unread>>
  BY DEF RecvInitIgnored, RecvReady, Comes, InFlight
<1>2. frames' \in [Peer -> [Peer -> Lines]]
  BY <1>1, TakeNet
<1>3. asked' \in [Peer -> [Peer -> KeyPair \union {Absent}]]
  <2>1. asked \in [Peer -> [Peer -> KeyPair \union {Absent}]]
    BY DEF SecretTypeOK
  <2>2. CASE asked' = asked
    BY <2>1, <2>2
  <2>3. CASE asked' = [asked EXCEPT ![r][s] = Absent]
    BY <2>1, <2>3
  <2>4. QED
    BY <1>1, <2>2, <2>3
<1>4. ready' \in [Peer -> [Peer -> SUBSET Both]]
  <2>1. ready \in [Peer -> [Peer -> SUBSET Both]]
    BY DEF SecretTypeOK
  <2>2. PICK v \in SUBSET Both : v = ready[r][s] \union {"remote"}
    BY <2>1 DEF Both
  <2>3. CASE ready' = ready
    BY <2>1, <2>3
  <2>4. CASE ready' = [ready EXCEPT ![r][s] = v]
    BY <2>1, <2>4
  <2>5. QED
    BY <1>1, <2>2, <2>3, <2>4
<1>5. QED
  BY <1>1, <1>2, <1>3, <1>4 DEF SecretTypeOK, Lines

LEMMA SendRespTypes ==
    ASSUME Types, NEW n \in Peer, NEW m \in Peer, SendResp(n, m)
    PROVE  SecretTypeOK'
<1>1. /\ replying[n][m] # Absent /\ replying' = [replying EXCEPT ![n][m] = Absent]
      /\ UNCHANGED <<up, route, known, begun, asked, key, ready, nextKeyPair,
                     links, drops, payloads, unread>>
  BY DEF SendResp
<1>2. frames' \in [Peer -> [Peer -> Lines]]
  <2>1. replying[n][m] \in Ephs /\ Absent \in Ephs
    BY DEF Types, SecretTypeOK, Ephs
  <2>2. <<Control("Resp", replying[n][m]), Control("Ready", Absent)>> \in Seq(Frame)
    BY <2>1, Controls, HasTwo DEF Kinds
  <2>3. QED
    BY <2>2, PostNet DEF SendResp, Types
<1>3. replying' \in [Peer -> [Peer -> KeyPair \union {Absent}]]
  BY <1>1 DEF SecretTypeOK, Types
<1>4. QED
  BY <1>1, <1>2, <1>3 DEF SecretTypeOK, Types, Lines

(* An E2eeResp completes the exchange.                                      *)
Made(r, s) == key[r][s] = NoKey /\ asked[r][s] # Absent /\ known[r][s]

LEMMA RecvRespNet ==
    ASSUME Types, NEW s \in Peer, NEW r \in Peer, NEW l \in Link, RecvResp(s, r, l),
           NEW fs, fs = IF Made(r, s) THEN <<Control("Ready", Absent)>> ELSE <<>>
    PROVE  /\ fs \in Seq(Frame) /\ frames[s][r][l] # <<>> /\ Got(s, r, l).kind = "Resp"
           /\ TakeAndPost(s, r, l, fs)
           /\ asked' = asked \/ asked' = [asked EXCEPT ![r][s] = Absent]
           /\ key[r][s] = NoKey => asked' = [asked EXCEPT ![r][s] = Absent]
           /\ key[r][s] # NoKey => asked' = asked
           /\ key' = IF Made(r, s) THEN [key EXCEPT ![r][s] =
                                      Shared(asked[r][s], Got(s, r, l).eph)] ELSE key
           /\ ready' = IF Made(r, s) THEN [ready EXCEPT ![r][s] = ready[r][s] \union {"local"}]
                       ELSE ready
<1>1. fs \in Seq(Frame)
  BY Controls, HasOne DEF Kinds, Ephs
<1>2. QED
  BY <1>1 DEF RecvResp, Comes, InFlight, Got, Made

LEMMA RecvRespTypes ==
    ASSUME Types, NEW s \in Peer, NEW r \in Peer, NEW l \in Link, s # r,
           RecvResp(s, r, l)
    PROVE  SecretTypeOK'
<1>2. PICK fs : fs = IF Made(r, s) THEN <<Control("Ready", Absent)>> ELSE <<>>
  OBVIOUS
<1>3. /\ fs \in Seq(Frame) /\ frames[s][r][l] # <<>> /\ Got(s, r, l).kind = "Resp"
      /\ TakeAndPost(s, r, l, fs)
      /\ asked' = asked \/ asked' = [asked EXCEPT ![r][s] = Absent]
      /\ key' = IF Made(r, s) THEN [key EXCEPT ![r][s] =
                                 Shared(asked[r][s], Got(s, r, l).eph)] ELSE key
      /\ ready' = IF Made(r, s) THEN [ready EXCEPT ![r][s] = ready[r][s] \union {"local"}]
                  ELSE ready
  BY <1>2, RecvRespNet
<1>4. frames' \in [Peer -> [Peer -> Lines]]
  BY <1>3, TakePostNet DEF Types
<1>5. asked' \in [Peer -> [Peer -> KeyPair \union {Absent}]]
  <2>1. asked \in [Peer -> [Peer -> KeyPair \union {Absent}]]
    BY DEF SecretTypeOK, Types
  <2>2. CASE asked' = asked
    BY <2>1, <2>2
  <2>3. CASE asked' = [asked EXCEPT ![r][s] = Absent]
    BY <2>1, <2>3
  <2>4. QED
    BY <1>3, <2>2, <2>3
<1>6. key' \in [Peer -> [Peer -> Keys]]
  <2>0. key \in [Peer -> [Peer -> Keys]]
    BY DEF SecretTypeOK, Types
  <2>1. CASE Made(r, s)
    <3>1. asked[r][s] \in KeyPair
      BY <2>1 DEF SecretTypeOK, Types, Made
    <3>2. Got(s, r, l).eph \in KeyPair /\ Got(s, r, l).eph # asked[r][s]
      BY <1>3, Heads
    <3>3. PICK k \in Keys : k = Shared(asked[r][s], Got(s, r, l).eph)
      BY <3>1, <3>2, Sharing
    <3>4. QED
      BY <2>0, <2>1, <1>3, <3>3
  <2>2. CASE ~Made(r, s)
    BY <2>0, <2>2, <1>3
  <2>3. QED
    BY <2>1, <2>2
<1>7. ready' \in [Peer -> [Peer -> SUBSET Both]]
  <2>1. ready \in [Peer -> [Peer -> SUBSET Both]]
    BY DEF SecretTypeOK, Types
  <2>2. PICK v \in SUBSET Both : v = ready[r][s] \union {"local"}
    BY <2>1 DEF Both
  <2>3. CASE Made(r, s)
    BY <1>3, <2>1, <2>2, <2>3
  <2>4. CASE ~Made(r, s)
    BY <1>3, <2>1, <2>4
  <2>5. QED
    BY <2>3, <2>4
<1>8. UNCHANGED <<up, route, known, begun, replying, nextKeyPair, links, drops,
                  payloads, unread>>
  BY DEF RecvResp
<1>9. QED
  BY <1>4, <1>5, <1>6, <1>7, <1>8 DEF SecretTypeOK, Types, Lines

LEMMA SendTypes ==
    ASSUME SecretTypeOK, NEW n \in Peer, NEW m \in Peer, Send(n, m)
    PROVE  SecretTypeOK'
<1>1. PICK f : f = IF Ready(n, m)
                   THEN [kind |-> "Enc", eph |-> Absent, key |-> PayloadKey(n, m)]
                   ELSE Control("Plain", Absent)
  OBVIOUS
<1>2. /\ payloads < MaxSend /\ payloads' = payloads + 1 /\ Post(n, m, <<f>>)
      /\ UNCHANGED <<tables, nextKeyPair, links, drops, unread>>
  BY <1>1 DEF Send
<1>3. f \in Frame
  <2>1. PayloadKey(n, m) \in Keys \union {Channel}
    BY DEF PayloadKey, SecretTypeOK, Keys
  <2>2. QED
    BY <1>1, <2>1, Controls DEF Frame, Kinds, Ephs
<1>4. frames' \in [Peer -> [Peer -> Lines]]
  BY <1>2, <1>3, HasOne, PostNet
<1>5. payloads' \in 0..MaxSend
  BY <1>2, Numbers DEF SecretTypeOK
<1>6. QED
  BY <1>2, <1>4, <1>5 DEF SecretTypeOK, tables, Lines

LEMMA TypesKeep ==
    ASSUME Types, [SecretNext]_secretVars PROVE SecretTypeOK'
<1>1. CASE UNCHANGED secretVars
  BY <1>1 DEF secretVars, tables, Types, SecretTypeOK
<1>2. ASSUME NEW s \in Peer, NEW r \in Peer, NEW l \in Link, RecvResp(s, r, l)
      PROVE  SecretTypeOK'
  <2>1. frames[s][r][l] # <<>>
    BY <1>2 DEF RecvResp, Comes, InFlight
  <2>2. s # r
    BY <2>1 DEF Types, Alone
  <2>3. QED
    BY <1>2, <2>2, RecvRespTypes
<1>3. SecretTypeOK
  BY DEF Types
<1>4. ASSUME NEW s \in Peer, NEW r \in Peer, NEW l \in Link,
             \/ RecvStray(s, r, l) \/ RecvHello(s, r, l) \/ RecvInit(s, r, l)
             \/ RecvInitIgnored(s, r, l) \/ RecvReady(s, r, l) \/ RecvPayload(s, r, l)
      PROVE  SecretTypeOK'
  BY <1>3, <1>4, StrayTypes, HelloTypes, RecvInitTypes, IgnoredTypes, PayloadTypes
<1>5. ASSUME NEW n \in Peer, NEW m \in Peer,
             \/ Connect(n, m) \/ DisconnectPeer(n, m) \/ SendInit(n, m) \/ SendResp(n, m)
             \/ Send(n, m)
      PROVE  SecretTypeOK'
  BY <1>3, <1>5, ConnectTypes, DisconnectTypes, SendInitTypes, SendRespTypes, SendTypes
<1>6. ASSUME NEW n \in Peer, RestartNode(n) PROVE SecretTypeOK'
  BY <1>3, <1>6, RestartTypes
<1>7. QED
  BY <1>1, <1>2, <1>4, <1>5, <1>6, Steps

-----------------------------------------------------------------------------
(* What a step does to the stream from x to y over a connection.            *)

(* x puts fs on its route to y.                                             *)
Posted(x, y, fs) ==
    \/ SendInit(x, y) /\ fs = <<Control("Init", nextKeyPair)>>
    \/ SendResp(x, y) /\ fs = <<Control("Resp", replying[x][y]), Control("Ready", Absent)>>
    \/ \E l \in Link : RecvResp(y, x, l) /\ Made(x, y) /\ fs = <<Control("Ready", Absent)>>
    \/ Send(x, y) /\ fs = <<IF Ready(x, y)
                            THEN [kind |-> "Enc", eph |-> Absent, key |-> PayloadKey(x, y)]
                            ELSE Control("Plain", Absent)>>

(* y takes the first frame.                                                 *)
Taken(x, y, k) ==
    /\ InFlight(x, y, k)
    /\ \/ RecvStray(x, y, k) \/ RecvHello(x, y, k) \/ RecvInit(x, y, k)
       \/ RecvInitIgnored(x, y, k) \/ RecvResp(x, y, k) \/ RecvReady(x, y, k)
       \/ RecvPayload(x, y, k)

Connected(x, y) == Connect(x, y) \/ Connect(y, x)

LEMMA PostedFrames ==
    ASSUME Types, NEW x \in Peer, NEW y \in Peer, NEW fs, Posted(x, y, fs)
    PROVE  /\ fs \in Seq(Frame)
           /\ \A kind, e : Has(fs, kind, e) =>
                \/ SendInit(x, y) /\ kind = "Init" /\ e = nextKeyPair
                \/ SendResp(x, y) /\ kind = "Resp" /\ e = replying[x][y]
                \/ kind \notin {"Init", "Resp"}
<1>0. Absent \in Ephs
  BY DEF Ephs
<1>1. CASE SendInit(x, y) /\ fs = <<Control("Init", nextKeyPair)>>
  <2>1. nextKeyPair \in Ephs
    BY <1>1 DEF SendInit, Ephs
  <2>2. PICK f \in Frame : f = Control("Init", nextKeyPair) /\ f.kind = "Init" /\ f.eph = nextKeyPair
    BY <2>1, Controls DEF Kinds
  <2>3. QED
    BY <1>1, <2>2, HasOne
<1>2. CASE SendResp(x, y) /\ fs = <<Control("Resp", replying[x][y]), Control("Ready", Absent)>>
  <2>1. replying[x][y] \in Ephs
    BY DEF Types, SecretTypeOK, Ephs
  <2>2. PICK f \in Frame : /\ f = Control("Resp", replying[x][y])
                           /\ f.kind = "Resp" /\ f.eph = replying[x][y]
    BY <2>1, Controls DEF Kinds
  <2>3. PICK g \in Frame : g = Control("Ready", Absent) /\ g.kind = "Ready"
    BY <1>0, Controls DEF Kinds
  <2>4. QED
    BY <1>2, <2>2, <2>3, HasTwo
<1>3. CASE fs = <<Control("Ready", Absent)>>
  <2>1. PICK g \in Frame : g = Control("Ready", Absent) /\ g.kind = "Ready"
    BY <1>0, Controls DEF Kinds
  <2>2. QED
    BY <1>3, <2>1, HasOne
<1>4. CASE fs = <<IF Ready(x, y)
                  THEN [kind |-> "Enc", eph |-> Absent, key |-> PayloadKey(x, y)]
                  ELSE Control("Plain", Absent)>>
  <2>1. PICK f : f = IF Ready(x, y)
                     THEN [kind |-> "Enc", eph |-> Absent, key |-> PayloadKey(x, y)]
                     ELSE Control("Plain", Absent)
    OBVIOUS
  <2>2. PayloadKey(x, y) \in Keys \union {Channel}
    BY DEF PayloadKey, Types, SecretTypeOK, Keys
  <2>3. f \in Frame /\ f.kind \in {"Enc", "Plain"}
    BY <1>0, <2>1, <2>2, Controls DEF Frame, Kinds, Ephs
  <2>4. QED
    BY <1>4, <2>1, <2>3, HasOne
<1>5. QED
  BY <1>1, <1>2, <1>3, <1>4 DEF Posted

LEMMA NetStep ==
    ASSUME Types, [SecretNext]_secretVars, NEW x \in Peer, NEW y \in Peer, NEW k \in Link
    PROVE  \/ frames'[x][y][k] = frames[x][y][k]
           \/ /\ Taken(x, y, k)
              /\ frames[x][y][k] # <<>> /\ frames'[x][y][k] = Tail(frames[x][y][k])
           \/ \E fs : /\ Posted(x, y, fs) /\ k = route[x][y] /\ k \in up[x][y]
                      /\ frames'[x][y][k] = frames[x][y][k] \o fs
           \/ Connected(x, y) /\ k = links + 1 /\ frames'[x][y][k] = <<Control("Hello", Absent)>>
<1>0. SecretTypeOK /\ Absent \in Ephs
  BY DEF Types, Ephs
<1>1. CASE UNCHANGED secretVars
  BY <1>1 DEF secretVars
<1>2. ASSUME NEW n \in Peer, NEW m \in Peer, Connect(n, m)
      PROVE  \/ frames'[x][y][k] = frames[x][y][k]
             \/ Connected(x, y) /\ k = links + 1 /\ frames'[x][y][k] = <<Control("Hello", Absent)>>
  BY <1>0, <1>2, ConnectNet DEF Connected
<1>3. ASSUME NEW n \in Peer, NEW m \in Peer, DisconnectPeer(n, m) PROVE frames' = frames
  BY <1>3 DEF DisconnectPeer
<1>4. ASSUME NEW n \in Peer, RestartNode(n) PROVE frames' = frames
  BY <1>4 DEF RestartNode
<1>5. ASSUME NEW n \in Peer, NEW m \in Peer, NEW fs, Posted(n, m, fs), Post(n, m, fs)
      PROVE  \/ frames'[x][y][k] = frames[x][y][k]
             \/ /\ Posted(x, y, fs) /\ k = route[x][y] /\ k \in up[x][y]
                /\ frames'[x][y][k] = frames[x][y][k] \o fs
  <2>1. fs \in Seq(Frame)
    BY <1>5, PostedFrames
  <2>2. frames'[x][y][k] = IF x = n /\ y = m /\ k = route[n][m] /\ k \in up[n][m]
                        THEN frames[x][y][k] \o fs ELSE frames[x][y][k]
    BY <1>0, <1>5, <2>1, PostNet
  <2>3. CASE x = n /\ y = m /\ k = route[n][m] /\ k \in up[n][m]
    <3>1. Posted(x, y, fs)
      BY <1>5, <2>3
    <3>2. QED
      BY <2>2, <2>3, <3>1
  <2>4. CASE ~(x = n /\ y = m /\ k = route[n][m] /\ k \in up[n][m])
    BY <2>2, <2>4
  <2>5. QED
    BY <2>3, <2>4
<1>6. ASSUME NEW n \in Peer, NEW m \in Peer,
             SendInit(n, m) \/ SendResp(n, m) \/ Send(n, m)
      PROVE  \E fs : Posted(n, m, fs) /\ Post(n, m, fs)
  BY <1>6 DEF Posted, SendInit, SendResp, Send
<1>7. ASSUME NEW s \in Peer, NEW r \in Peer, NEW l \in Link,
             \/ RecvStray(s, r, l) \/ RecvHello(s, r, l) \/ RecvInit(s, r, l)
             \/ RecvInitIgnored(s, r, l) \/ RecvReady(s, r, l) \/ RecvPayload(s, r, l)
      PROVE  \/ frames'[x][y][k] = frames[x][y][k]
             \/ /\ Taken(x, y, k)
                /\ frames[x][y][k] # <<>> /\ frames'[x][y][k] = Tail(frames[x][y][k])
  <2>1. InFlight(s, r, l) /\ Take(s, r, l)
    BY <1>7 DEF RecvStray, RecvHello, RecvInit, RecvInitIgnored, RecvReady, RecvPayload,
                Comes
  <2>2. frames[s][r][l] # <<>>
    BY <2>1 DEF InFlight
  <2>3. \/ frames'[x][y][k] = frames[x][y][k]
        \/ x = s /\ y = r /\ k = l /\ frames'[x][y][k] = Tail(frames[x][y][k])
    BY <1>0, <2>1, <2>2, TakeNet
  <2>4. QED
    BY <1>7, <2>1, <2>2, <2>3 DEF Taken
<1>8. ASSUME NEW s \in Peer, NEW r \in Peer, NEW l \in Link, RecvResp(s, r, l)
      PROVE  \/ frames'[x][y][k] = frames[x][y][k]
             \/ /\ Taken(x, y, k)
                /\ frames[x][y][k] # <<>> /\ frames'[x][y][k] = Tail(frames[x][y][k])
             \/ \E fs : /\ Posted(x, y, fs) /\ k = route[x][y] /\ k \in up[x][y]
                        /\ frames'[x][y][k] = frames[x][y][k] \o fs
  <2>1. PICK fs : fs = IF Made(r, s) THEN <<Control("Ready", Absent)>> ELSE <<>>
    OBVIOUS
  <2>2. fs \in Seq(Frame) /\ frames[s][r][l] # <<>> /\ TakeAndPost(s, r, l, fs)
    BY <1>8, <2>1, RecvRespNet
  <2>3. s # r /\ InFlight(s, r, l)
    BY <1>8, <2>2 DEF Types, Alone, RecvResp, Comes
  <2>4. frames'[x][y][k] =
           IF x = s /\ y = r /\ k = l THEN Tail(frames[x][y][k])
           ELSE IF x = r /\ y = s /\ k = route[r][s] /\ k \in up[r][s]
           THEN frames[x][y][k] \o fs ELSE frames[x][y][k]
    BY <1>0, <2>2, <2>3, TakePostNet
  <2>5. CASE x = s /\ y = r /\ k = l
    BY <1>8, <2>2, <2>3, <2>4, <2>5 DEF Taken
  <2>6. CASE x = r /\ y = s /\ k = route[r][s] /\ k \in up[r][s]
    <3>1. frames'[x][y][k] = frames[x][y][k] \o fs
      BY <2>3, <2>4, <2>6
    <3>2. CASE Made(r, s)
      <4>1. RecvResp(y, x, l) /\ Made(x, y)
        BY <1>8, <2>6, <3>2
      <4>2. fs = <<Control("Ready", Absent)>>
        BY <2>1, <3>2
      <4>3. Posted(x, y, fs)
        BY <4>1, <4>2 DEF Posted
      <4>4. QED
        BY <2>6, <3>1, <4>3
    <3>3. CASE ~Made(r, s)
      <4>1. fs = <<>> /\ frames[x][y][k] \in Seq(Frame)
        BY <1>0, <2>1, <3>3, Streams
      <4>2. QED
        BY <3>1, <4>1
    <3>4. QED
      BY <3>2, <3>3
  <2>7. CASE /\ ~(x = s /\ y = r /\ k = l)
             /\ ~(x = r /\ y = s /\ k = route[r][s] /\ k \in up[r][s])
    BY <2>4, <2>7
  <2>8. QED
    BY <2>5, <2>6, <2>7
<1>9. QED
  BY <1>1, <1>2, <1>3, <1>4, <1>5, <1>6, <1>7, <1>8, Steps

(* Where the frames come from.                                              *)
LEMMA CarriesStep ==
    ASSUME Types, [SecretNext]_secretVars, NEW x \in Peer, NEW y \in Peer, NEW k \in Link,
           NEW kind \in {"Init", "Resp"}, NEW e, Carries(x, y, k, kind, e)'
    PROVE  \/ Carries(x, y, k, kind, e)
           \/ /\ k = route[x][y] /\ k \in up[x][y]
              /\ kind = "Init" /\ SendInit(x, y) /\ e = nextKeyPair
           \/ /\ k = route[x][y] /\ k \in up[x][y]
              /\ kind = "Resp" /\ SendResp(x, y) /\ e = replying[x][y]
<1>0. frames[x][y][k] \in Seq(Frame) /\ Has(frames'[x][y][k], kind, e)
  BY Streams DEF Types, Carries
<1>1. CASE frames'[x][y][k] = frames[x][y][k]
  BY <1>0, <1>1 DEF Carries
<1>2. CASE frames[x][y][k] # <<>> /\ frames'[x][y][k] = Tail(frames[x][y][k])
  BY <1>0, <1>2, HasTail DEF Carries
<1>3. ASSUME NEW fs, Posted(x, y, fs), k = route[x][y], k \in up[x][y],
             frames'[x][y][k] = frames[x][y][k] \o fs
      PROVE  \/ Carries(x, y, k, kind, e)
             \/ kind = "Init" /\ SendInit(x, y) /\ e = nextKeyPair
             \/ kind = "Resp" /\ SendResp(x, y) /\ e = replying[x][y]
  <2>1. fs \in Seq(Frame)
    BY <1>3, PostedFrames
  <2>2. Has(frames[x][y][k], kind, e) \/ Has(fs, kind, e)
    <3>1. PICK q \in Seq(Frame) : q = frames[x][y][k]
      BY <1>0
    <3>2. Has(q \o fs, kind, e)
      BY <1>0, <1>3, <3>1
    <3>3. QED
      BY <2>1, <3>1, <3>2, HasMore
  <2>3. QED
    BY <1>3, <2>2, PostedFrames DEF Carries
<1>4. CASE frames'[x][y][k] = <<Control("Hello", Absent)>>
  <2>1. PICK f \in Frame : f = Control("Hello", Absent) /\ f.kind = "Hello"
    BY Controls DEF Kinds, Ephs
  <2>2. kind = "Hello"
    BY <1>0, <1>4, <2>1, HasOne
  <2>3. QED
    BY <2>2
<1>5. QED
  BY <1>1, <1>2, <1>3, <1>4, NetStep
-----------------------------------------------------------------------------
(* Who changes the entry of x for y in each table.                          *)

Drop(x, y) == DisconnectPeer(x, y) \/ RestartNode(x)

LEMMA KnownStep ==
    ASSUME Types, [SecretNext]_secretVars, NEW x \in Peer, NEW y \in Peer
    PROVE  \/ known'[x][y] = known[x][y]
           \/ (\E l \in Link : RecvHello(y, x, l)) /\ known'[x][y] = TRUE
           \/ RestartNode(x) /\ known'[x][y] = FALSE
<1>0. known \in [Peer -> [Peer -> BOOLEAN]]
  BY DEF Types, SecretTypeOK
<1>1. CASE UNCHANGED secretVars
  BY <1>1 DEF secretVars, tables
<1>2. ASSUME NEW s \in Peer, NEW r \in Peer, NEW l \in Link, RecvHello(s, r, l)
      PROVE  \/ known'[x][y] = known[x][y]
             \/ RecvHello(y, x, l) /\ known'[x][y] = TRUE
  <2>1. known' = [known EXCEPT ![r][s] = TRUE]
    BY <1>2 DEF RecvHello
  <2>2. CASE x = r /\ y = s
    <3>1. RecvHello(y, x, l)
      BY <1>2, <2>2
    <3>2. known'[x][y] = known[x][y] \/ (known'[x][y] = TRUE)
      BY <1>0, <2>1, <2>2
    <3>3. QED
      BY <3>1, <3>2
  <2>3. CASE ~(x = r /\ y = s)
    BY <1>0, <2>1, <2>3
  <2>4. QED
    BY <2>2, <2>3
<1>3. ASSUME NEW n \in Peer, RestartNode(n)
      PROVE  \/ known'[x][y] = known[x][y]
             \/ RestartNode(x) /\ known'[x][y] = FALSE
  <2>1. known' = [known EXCEPT ![n] = [m \in Peer |-> FALSE]]
    BY <1>3 DEF RestartNode
  <2>2. CASE x = n
    <3>1. RestartNode(x)
      BY <1>3, <2>2
    <3>2. known'[x][y] = known[x][y] \/ (known'[x][y] = FALSE)
      BY <1>0, <2>1, <2>2
    <3>3. QED
      BY <3>1, <3>2
  <2>3. CASE x # n
    BY <1>0, <2>1, <2>3
  <2>4. QED
    BY <2>2, <2>3
<1>4. ASSUME NEW n \in Peer, NEW m \in Peer, Connect(n, m) \/ DisconnectPeer(n, m) \/ SendInit(n, m) \/ SendResp(n, m) \/ Send(n, m)
      PROVE  known' = known
  BY <1>4 DEF Connect, DisconnectPeer, SendInit, SendResp, Send, tables
<1>5. ASSUME NEW s \in Peer, NEW r \in Peer, NEW l \in Link,
             \/ RecvStray(s, r, l) \/ RecvInit(s, r, l) \/ RecvInitIgnored(s, r, l)
             \/ RecvResp(s, r, l) \/ RecvReady(s, r, l) \/ RecvPayload(s, r, l)
      PROVE  known' = known
  BY <1>5 DEF RecvStray, RecvInit, RecvInitIgnored, RecvResp, RecvReady, RecvPayload, tables
<1>6. QED
  BY <1>1, <1>2, <1>3, <1>4, <1>5, Steps DEF Drop

LEMMA RouteStep ==
    ASSUME Types, [SecretNext]_secretVars, NEW x \in Peer, NEW y \in Peer
    PROVE  \/ route'[x][y] = route[x][y]
           \/ \E l \in Link : RecvHello(y, x, l) /\ route'[x][y] = l
           \/ Drop(x, y) /\ route'[x][y] = Absent
<1>0. route \in [Peer -> [Peer -> Link \union {Absent}]]
  BY DEF Types, SecretTypeOK
<1>1. CASE UNCHANGED secretVars
  BY <1>1 DEF secretVars, tables
<1>2. ASSUME NEW s \in Peer, NEW r \in Peer, NEW l \in Link, RecvHello(s, r, l)
      PROVE  \/ route'[x][y] = route[x][y]
             \/ RecvHello(y, x, l) /\ route'[x][y] = l
  <2>1. route' = [route EXCEPT ![r][s] = l]
    BY <1>2 DEF RecvHello
  <2>2. CASE x = r /\ y = s
    <3>1. RecvHello(y, x, l)
      BY <1>2, <2>2
    <3>2. route'[x][y] = route[x][y] \/ (route'[x][y] = l)
      BY <1>0, <2>1, <2>2
    <3>3. QED
      BY <3>1, <3>2
  <2>3. CASE ~(x = r /\ y = s)
    BY <1>0, <2>1, <2>3
  <2>4. QED
    BY <2>2, <2>3
<1>3. ASSUME NEW n \in Peer, NEW m \in Peer, DisconnectPeer(n, m)
      PROVE  \/ route'[x][y] = route[x][y]
             \/ DisconnectPeer(x, y) /\ route'[x][y] = Absent
  <2>1. route' = [route EXCEPT ![n][m] = Absent]
    BY <1>3 DEF DisconnectPeer
  <2>2. CASE x = n /\ y = m
    <3>1. DisconnectPeer(x, y)
      BY <1>3, <2>2
    <3>2. route'[x][y] = route[x][y] \/ (route'[x][y] = Absent)
      BY <1>0, <2>1, <2>2
    <3>3. QED
      BY <3>1, <3>2
  <2>3. CASE ~(x = n /\ y = m)
    BY <1>0, <2>1, <2>3
  <2>4. QED
    BY <2>2, <2>3
<1>4. ASSUME NEW n \in Peer, RestartNode(n)
      PROVE  \/ route'[x][y] = route[x][y]
             \/ RestartNode(x) /\ route'[x][y] = Absent
  <2>1. route' = [route EXCEPT ![n] = [m \in Peer |-> Absent]]
    BY <1>4 DEF RestartNode
  <2>2. CASE x = n
    <3>1. RestartNode(x)
      BY <1>4, <2>2
    <3>2. route'[x][y] = route[x][y] \/ (route'[x][y] = Absent)
      BY <1>0, <2>1, <2>2
    <3>3. QED
      BY <3>1, <3>2
  <2>3. CASE x # n
    BY <1>0, <2>1, <2>3
  <2>4. QED
    BY <2>2, <2>3
<1>5. ASSUME NEW n \in Peer, NEW m \in Peer, Connect(n, m) \/ SendInit(n, m) \/ SendResp(n, m) \/ Send(n, m)
      PROVE  route' = route
  BY <1>5 DEF Connect, SendInit, SendResp, Send, tables
<1>6. ASSUME NEW s \in Peer, NEW r \in Peer, NEW l \in Link,
             \/ RecvStray(s, r, l) \/ RecvInit(s, r, l) \/ RecvInitIgnored(s, r, l)
             \/ RecvResp(s, r, l) \/ RecvReady(s, r, l) \/ RecvPayload(s, r, l)
      PROVE  route' = route
  BY <1>6 DEF RecvStray, RecvInit, RecvInitIgnored, RecvResp, RecvReady, RecvPayload, tables
<1>7. QED
  BY <1>1, <1>2, <1>3, <1>4, <1>5, <1>6, Steps DEF Drop

LEMMA StartingStep ==
    ASSUME Types, [SecretNext]_secretVars, NEW x \in Peer, NEW y \in Peer
    PROVE  \/ begun'[x][y] = begun[x][y]
           \/ \E l \in Link : /\ RecvHello(y, x, l) /\ MayStart(x, y)
                          /\ begun'[x][y] = begun[x][y] + 1
           \/ SendInit(x, y) /\ begun'[x][y] = begun[x][y] - 1
           \/ RestartNode(x) /\ begun'[x][y] = 0
<1>0. begun \in [Peer -> [Peer -> Nat]]
  BY DEF Types, SecretTypeOK
<1>1. CASE UNCHANGED secretVars
  BY <1>1 DEF secretVars, tables
<1>2. ASSUME NEW s \in Peer, NEW r \in Peer, NEW l \in Link, RecvHello(s, r, l)
      PROVE  \/ begun'[x][y] = begun[x][y]
             \/ RecvHello(y, x, l) /\ (MayStart(x, y) /\ begun'[x][y] = begun[x][y] + 1)
  <2>1. begun' = [begun EXCEPT ![r][s] = IF MayStart(r, s) THEN begun[r][s] + 1 ELSE begun[r][s]]
    BY <1>2 DEF RecvHello, MaybeStart
  <2>2. CASE x = r /\ y = s
    <3>1. RecvHello(y, x, l)
      BY <1>2, <2>2
    <3>2. begun'[x][y] = begun[x][y] \/ ((MayStart(x, y) /\ begun'[x][y] = begun[x][y] + 1))
      BY <1>0, <2>1, <2>2
    <3>3. QED
      BY <3>1, <3>2
  <2>3. CASE ~(x = r /\ y = s)
    BY <1>0, <2>1, <2>3
  <2>4. QED
    BY <2>2, <2>3
<1>3. ASSUME NEW n \in Peer, NEW m \in Peer, SendInit(n, m)
      PROVE  \/ begun'[x][y] = begun[x][y]
             \/ SendInit(x, y) /\ begun'[x][y] = begun[x][y] - 1
  <2>1. begun' = [begun EXCEPT ![n][m] = begun[n][m] - 1]
    BY <1>3 DEF SendInit
  <2>2. CASE x = n /\ y = m
    <3>1. SendInit(x, y)
      BY <1>3, <2>2
    <3>2. begun'[x][y] = begun[x][y] \/ (begun'[x][y] = begun[x][y] - 1)
      BY <1>0, <2>1, <2>2
    <3>3. QED
      BY <3>1, <3>2
  <2>3. CASE ~(x = n /\ y = m)
    BY <1>0, <2>1, <2>3
  <2>4. QED
    BY <2>2, <2>3
<1>4. ASSUME NEW n \in Peer, RestartNode(n)
      PROVE  \/ begun'[x][y] = begun[x][y]
             \/ RestartNode(x) /\ begun'[x][y] = 0
  <2>1. begun' = [begun EXCEPT ![n] = [m \in Peer |-> 0]]
    BY <1>4 DEF RestartNode
  <2>2. CASE x = n
    <3>1. RestartNode(x)
      BY <1>4, <2>2
    <3>2. begun'[x][y] = begun[x][y] \/ (begun'[x][y] = 0)
      BY <1>0, <2>1, <2>2
    <3>3. QED
      BY <3>1, <3>2
  <2>3. CASE x # n
    BY <1>0, <2>1, <2>3
  <2>4. QED
    BY <2>2, <2>3
<1>5. ASSUME NEW n \in Peer, NEW m \in Peer, Connect(n, m) \/ DisconnectPeer(n, m) \/ SendResp(n, m) \/ Send(n, m)
      PROVE  begun' = begun
  BY <1>5 DEF Connect, DisconnectPeer, SendResp, Send, tables
<1>6. ASSUME NEW s \in Peer, NEW r \in Peer, NEW l \in Link,
             \/ RecvStray(s, r, l) \/ RecvInit(s, r, l) \/ RecvInitIgnored(s, r, l)
             \/ RecvResp(s, r, l) \/ RecvReady(s, r, l) \/ RecvPayload(s, r, l)
      PROVE  begun' = begun
  BY <1>6 DEF RecvStray, RecvInit, RecvInitIgnored, RecvResp, RecvReady, RecvPayload, tables
<1>7. QED
  BY <1>1, <1>2, <1>3, <1>4, <1>5, <1>6, Steps DEF Drop

LEMMA ReplyingStep ==
    ASSUME Types, [SecretNext]_secretVars, NEW x \in Peer, NEW y \in Peer
    PROVE  \/ replying'[x][y] = replying[x][y]
           \/ \E l \in Link : RecvInit(y, x, l) /\ replying'[x][y] = nextKeyPair
           \/ SendResp(x, y) /\ replying'[x][y] = Absent
           \/ RestartNode(x) /\ replying'[x][y] = Absent
<1>0. replying \in [Peer -> [Peer -> KeyPair \union {Absent}]]
  BY DEF Types, SecretTypeOK
<1>1. CASE UNCHANGED secretVars
  BY <1>1 DEF secretVars, tables
<1>2. ASSUME NEW s \in Peer, NEW r \in Peer, NEW l \in Link, RecvInit(s, r, l)
      PROVE  \/ replying'[x][y] = replying[x][y]
             \/ RecvInit(y, x, l) /\ replying'[x][y] = nextKeyPair
  <2>1. replying' = [replying EXCEPT ![r][s] = nextKeyPair]
    BY <1>2 DEF RecvInit
  <2>2. CASE x = r /\ y = s
    <3>1. RecvInit(y, x, l)
      BY <1>2, <2>2
    <3>2. replying'[x][y] = replying[x][y] \/ (replying'[x][y] = nextKeyPair)
      BY <1>0, <2>1, <2>2
    <3>3. QED
      BY <3>1, <3>2
  <2>3. CASE ~(x = r /\ y = s)
    BY <1>0, <2>1, <2>3
  <2>4. QED
    BY <2>2, <2>3
<1>3. ASSUME NEW n \in Peer, NEW m \in Peer, SendResp(n, m)
      PROVE  \/ replying'[x][y] = replying[x][y]
             \/ SendResp(x, y) /\ replying'[x][y] = Absent
  <2>1. replying' = [replying EXCEPT ![n][m] = Absent]
    BY <1>3 DEF SendResp
  <2>2. CASE x = n /\ y = m
    <3>1. SendResp(x, y)
      BY <1>3, <2>2
    <3>2. replying'[x][y] = replying[x][y] \/ (replying'[x][y] = Absent)
      BY <1>0, <2>1, <2>2
    <3>3. QED
      BY <3>1, <3>2
  <2>3. CASE ~(x = n /\ y = m)
    BY <1>0, <2>1, <2>3
  <2>4. QED
    BY <2>2, <2>3
<1>4. ASSUME NEW n \in Peer, RestartNode(n)
      PROVE  \/ replying'[x][y] = replying[x][y]
             \/ RestartNode(x) /\ replying'[x][y] = Absent
  <2>1. replying' = [replying EXCEPT ![n] = [m \in Peer |-> Absent]]
    BY <1>4 DEF RestartNode
  <2>2. CASE x = n
    <3>1. RestartNode(x)
      BY <1>4, <2>2
    <3>2. replying'[x][y] = replying[x][y] \/ (replying'[x][y] = Absent)
      BY <1>0, <2>1, <2>2
    <3>3. QED
      BY <3>1, <3>2
  <2>3. CASE x # n
    BY <1>0, <2>1, <2>3
  <2>4. QED
    BY <2>2, <2>3
<1>5. ASSUME NEW n \in Peer, NEW m \in Peer, Connect(n, m) \/ DisconnectPeer(n, m) \/ SendInit(n, m) \/ Send(n, m)
      PROVE  replying' = replying
  BY <1>5 DEF Connect, DisconnectPeer, SendInit, Send, tables
<1>6. ASSUME NEW s \in Peer, NEW r \in Peer, NEW l \in Link,
             \/ RecvStray(s, r, l) \/ RecvHello(s, r, l) \/ RecvInitIgnored(s, r, l)
             \/ RecvResp(s, r, l) \/ RecvReady(s, r, l) \/ RecvPayload(s, r, l)
      PROVE  replying' = replying
  BY <1>6 DEF RecvStray, RecvHello, RecvInitIgnored, RecvResp, RecvReady, RecvPayload, tables
<1>7. QED
  BY <1>1, <1>2, <1>3, <1>4, <1>5, <1>6, Steps DEF Drop

LEMMA PendingStep ==
    ASSUME Types, [SecretNext]_secretVars, NEW x \in Peer, NEW y \in Peer
    PROVE  \/ asked'[x][y] = asked[x][y]
           \/ SendInit(x, y) /\ asked'[x][y] = nextKeyPair
           \/ (\E l \in Link : RecvInit(y, x, l)) /\ asked'[x][y] = Absent
           \/ (\E l \in Link : RecvInitIgnored(y, x, l)) /\ asked'[x][y] = Absent
           \/ \E l \in Link : RecvResp(y, x, l) /\ key[x][y] = NoKey /\ asked'[x][y] = Absent
           \/ Drop(x, y) /\ asked'[x][y] = Absent
<1>0. asked \in [Peer -> [Peer -> KeyPair \union {Absent}]]
  BY DEF Types, SecretTypeOK
<1>1. CASE UNCHANGED secretVars
  BY <1>1 DEF secretVars, tables
<1>2. ASSUME NEW n \in Peer, NEW m \in Peer, SendInit(n, m)
      PROVE  \/ asked'[x][y] = asked[x][y]
             \/ SendInit(x, y) /\ asked'[x][y] = nextKeyPair
  <2>1. asked' = [asked EXCEPT ![n][m] = nextKeyPair]
    BY <1>2 DEF SendInit
  <2>2. CASE x = n /\ y = m
    <3>1. SendInit(x, y)
      BY <1>2, <2>2
    <3>2. asked'[x][y] = asked[x][y] \/ (asked'[x][y] = nextKeyPair)
      BY <1>0, <2>1, <2>2
    <3>3. QED
      BY <3>1, <3>2
  <2>3. CASE ~(x = n /\ y = m)
    BY <1>0, <2>1, <2>3
  <2>4. QED
    BY <2>2, <2>3
<1>3. ASSUME NEW s \in Peer, NEW r \in Peer, NEW l \in Link, RecvInit(s, r, l)
      PROVE  \/ asked'[x][y] = asked[x][y]
             \/ RecvInit(y, x, l) /\ asked'[x][y] = Absent
  <2>1. asked' = asked \/ asked' = [asked EXCEPT ![r][s] = Absent]
    BY <1>3 DEF RecvInit
  <2>2. CASE x = r /\ y = s
    <3>1. RecvInit(y, x, l)
      BY <1>3, <2>2
    <3>2. asked'[x][y] = asked[x][y] \/ (asked'[x][y] = Absent)
      BY <1>0, <2>1, <2>2
    <3>3. QED
      BY <3>1, <3>2
  <2>3. CASE ~(x = r /\ y = s)
    BY <1>0, <2>1, <2>3
  <2>4. QED
    BY <2>2, <2>3
<1>4. ASSUME NEW s \in Peer, NEW r \in Peer, NEW l \in Link, RecvInitIgnored(s, r, l)
      PROVE  \/ asked'[x][y] = asked[x][y]
             \/ RecvInitIgnored(y, x, l) /\ asked'[x][y] = Absent
  <2>1. asked' = asked \/ asked' = [asked EXCEPT ![r][s] = Absent]
    BY <1>4 DEF RecvInitIgnored
  <2>2. CASE x = r /\ y = s
    <3>1. RecvInitIgnored(y, x, l)
      BY <1>4, <2>2
    <3>2. asked'[x][y] = asked[x][y] \/ (asked'[x][y] = Absent)
      BY <1>0, <2>1, <2>2
    <3>3. QED
      BY <3>1, <3>2
  <2>3. CASE ~(x = r /\ y = s)
    BY <1>0, <2>1, <2>3
  <2>4. QED
    BY <2>2, <2>3
<1>5. ASSUME NEW s \in Peer, NEW r \in Peer, NEW l \in Link, RecvResp(s, r, l)
      PROVE  \/ asked'[x][y] = asked[x][y]
             \/ RecvResp(y, x, l) /\ (key[x][y] = NoKey /\ asked'[x][y] = Absent)
  <2>1. asked' = IF key[r][s] = NoKey THEN [asked EXCEPT ![r][s] = Absent] ELSE asked
    BY <1>5 DEF RecvResp
  <2>2. CASE x = r /\ y = s
    <3>1. RecvResp(y, x, l)
      BY <1>5, <2>2
    <3>2. asked'[x][y] = asked[x][y] \/ ((key[x][y] = NoKey /\ asked'[x][y] = Absent))
      BY <1>0, <2>1, <2>2
    <3>3. QED
      BY <3>1, <3>2
  <2>3. CASE ~(x = r /\ y = s)
    BY <1>0, <2>1, <2>3
  <2>4. QED
    BY <2>2, <2>3
<1>6. ASSUME NEW n \in Peer, NEW m \in Peer, DisconnectPeer(n, m)
      PROVE  \/ asked'[x][y] = asked[x][y]
             \/ DisconnectPeer(x, y) /\ asked'[x][y] = Absent
  <2>1. asked' = [asked EXCEPT ![n][m] = Absent]
    BY <1>6 DEF DisconnectPeer
  <2>2. CASE x = n /\ y = m
    <3>1. DisconnectPeer(x, y)
      BY <1>6, <2>2
    <3>2. asked'[x][y] = asked[x][y] \/ (asked'[x][y] = Absent)
      BY <1>0, <2>1, <2>2
    <3>3. QED
      BY <3>1, <3>2
  <2>3. CASE ~(x = n /\ y = m)
    BY <1>0, <2>1, <2>3
  <2>4. QED
    BY <2>2, <2>3
<1>7. ASSUME NEW n \in Peer, RestartNode(n)
      PROVE  \/ asked'[x][y] = asked[x][y]
             \/ RestartNode(x) /\ asked'[x][y] = Absent
  <2>1. asked' = [asked EXCEPT ![n] = [m \in Peer |-> Absent]]
    BY <1>7 DEF RestartNode
  <2>2. CASE x = n
    <3>1. RestartNode(x)
      BY <1>7, <2>2
    <3>2. asked'[x][y] = asked[x][y] \/ (asked'[x][y] = Absent)
      BY <1>0, <2>1, <2>2
    <3>3. QED
      BY <3>1, <3>2
  <2>3. CASE x # n
    BY <1>0, <2>1, <2>3
  <2>4. QED
    BY <2>2, <2>3
<1>8. ASSUME NEW n \in Peer, NEW m \in Peer, Connect(n, m) \/ SendResp(n, m) \/ Send(n, m)
      PROVE  asked' = asked
  BY <1>8 DEF Connect, SendResp, Send, tables
<1>9. ASSUME NEW s \in Peer, NEW r \in Peer, NEW l \in Link,
             \/ RecvStray(s, r, l) \/ RecvHello(s, r, l) \/ RecvReady(s, r, l)
             \/ RecvPayload(s, r, l)
      PROVE  asked' = asked
  BY <1>9 DEF RecvStray, RecvHello, RecvReady, RecvPayload, tables
<1>10. QED
  BY <1>1, <1>2, <1>3, <1>4, <1>5, <1>6, <1>7, <1>8, <1>9, Steps DEF Drop

LEMMA KeyStep ==
    ASSUME Types, [SecretNext]_secretVars, NEW x \in Peer, NEW y \in Peer
    PROVE  \/ key'[x][y] = key[x][y]
           \/ \E l \in Link : RecvInit(y, x, l) /\ key'[x][y] = Shared(nextKeyPair, Got(y, x, l).eph)
           \/ \E l \in Link : /\ RecvResp(y, x, l) /\ Made(x, y)
                          /\ key'[x][y] = Shared(asked[x][y], Got(y, x, l).eph)
           \/ Drop(x, y) /\ key'[x][y] = NoKey
<1>0. key \in [Peer -> [Peer -> Keys]]
  BY DEF Types, SecretTypeOK
<1>1. CASE UNCHANGED secretVars
  BY <1>1 DEF secretVars, tables
<1>2. ASSUME NEW s \in Peer, NEW r \in Peer, NEW l \in Link, RecvInit(s, r, l)
      PROVE  \/ key'[x][y] = key[x][y]
             \/ RecvInit(y, x, l) /\ key'[x][y] = Shared(nextKeyPair, Got(y, x, l).eph)
  <2>1. key' = [key EXCEPT ![r][s] = Shared(nextKeyPair, Got(s, r, l).eph)]
    BY <1>2 DEF RecvInit
  <2>2. CASE x = r /\ y = s
    <3>1. RecvInit(y, x, l)
      BY <1>2, <2>2
    <3>2. key'[x][y] = key[x][y] \/ (key'[x][y] = Shared(nextKeyPair, Got(y, x, l).eph))
      BY <1>0, <2>1, <2>2
    <3>3. QED
      BY <3>1, <3>2
  <2>3. CASE ~(x = r /\ y = s)
    BY <1>0, <2>1, <2>3
  <2>4. QED
    BY <2>2, <2>3
<1>3. ASSUME NEW s \in Peer, NEW r \in Peer, NEW l \in Link, RecvResp(s, r, l)
      PROVE  \/ key'[x][y] = key[x][y]
             \/ RecvResp(y, x, l) /\ (Made(x, y) /\ key'[x][y] = Shared(asked[x][y], Got(y, x, l).eph))
  <2>1. key' = IF Made(r, s) THEN [key EXCEPT ![r][s] =
                           Shared(asked[r][s], Got(s, r, l).eph)] ELSE key
    BY <1>3 DEF RecvResp, Made
  <2>2. CASE x = r /\ y = s
    <3>1. RecvResp(y, x, l)
      BY <1>3, <2>2
    <3>2. key'[x][y] = key[x][y] \/ ((Made(x, y) /\ key'[x][y] = Shared(asked[x][y], Got(y, x, l).eph)))
      BY <1>0, <2>1, <2>2
    <3>3. QED
      BY <3>1, <3>2
  <2>3. CASE ~(x = r /\ y = s)
    BY <1>0, <2>1, <2>3
  <2>4. QED
    BY <2>2, <2>3
<1>4. ASSUME NEW n \in Peer, NEW m \in Peer, DisconnectPeer(n, m)
      PROVE  \/ key'[x][y] = key[x][y]
             \/ DisconnectPeer(x, y) /\ key'[x][y] = NoKey
  <2>1. key' = [key EXCEPT ![n][m] = NoKey]
    BY <1>4 DEF DisconnectPeer
  <2>2. CASE x = n /\ y = m
    <3>1. DisconnectPeer(x, y)
      BY <1>4, <2>2
    <3>2. key'[x][y] = key[x][y] \/ (key'[x][y] = NoKey)
      BY <1>0, <2>1, <2>2
    <3>3. QED
      BY <3>1, <3>2
  <2>3. CASE ~(x = n /\ y = m)
    BY <1>0, <2>1, <2>3
  <2>4. QED
    BY <2>2, <2>3
<1>5. ASSUME NEW n \in Peer, RestartNode(n)
      PROVE  \/ key'[x][y] = key[x][y]
             \/ RestartNode(x) /\ key'[x][y] = NoKey
  <2>1. key' = [key EXCEPT ![n] = [m \in Peer |-> NoKey]]
    BY <1>5 DEF RestartNode
  <2>2. CASE x = n
    <3>1. RestartNode(x)
      BY <1>5, <2>2
    <3>2. key'[x][y] = key[x][y] \/ (key'[x][y] = NoKey)
      BY <1>0, <2>1, <2>2
    <3>3. QED
      BY <3>1, <3>2
  <2>3. CASE x # n
    BY <1>0, <2>1, <2>3
  <2>4. QED
    BY <2>2, <2>3
<1>6. ASSUME NEW n \in Peer, NEW m \in Peer, Connect(n, m) \/ SendInit(n, m) \/ SendResp(n, m) \/ Send(n, m)
      PROVE  key' = key
  BY <1>6 DEF Connect, SendInit, SendResp, Send, tables
<1>7. ASSUME NEW s \in Peer, NEW r \in Peer, NEW l \in Link,
             \/ RecvStray(s, r, l) \/ RecvHello(s, r, l) \/ RecvInitIgnored(s, r, l)
             \/ RecvReady(s, r, l) \/ RecvPayload(s, r, l)
      PROVE  key' = key
  BY <1>7 DEF RecvStray, RecvHello, RecvInitIgnored, RecvReady, RecvPayload, tables
<1>8. QED
  BY <1>1, <1>2, <1>3, <1>4, <1>5, <1>6, <1>7, Steps DEF Drop

LEMMA ConnectUp ==
    ASSUME SecretTypeOK, NEW n \in Peer, NEW m \in Peer, Connect(n, m),
           NEW x \in Peer, NEW y \in Peer
    PROVE  up'[x][y] = IF (x = n /\ y = m) \/ (x = m /\ y = n)
                       THEN up[x][y] \union {links + 1} ELSE up[x][y]
<1>1. PICK l \in Link : l = links + 1
  BY ConnectNet
<1>2. n # m /\ up \in [Peer -> [Peer -> SUBSET Link]]
  BY DEF Connect, SecretTypeOK
<1>3. PICK u : u = [up EXCEPT ![n][m] = up[n][m] \union {l}]
  OBVIOUS
<1>4. /\ u \in [Peer -> [Peer -> SUBSET Link]]
      /\ u[x][y] = IF x = n /\ y = m THEN up[n][m] \union {l} ELSE up[x][y]
  BY <1>1, <1>2, <1>3
<1>5. up' = [u EXCEPT ![m][n] = up[m][n] \union {l}]
  BY <1>1, <1>2, <1>3 DEF Connect
<1>6. up'[x][y] = IF x = m /\ y = n THEN up[m][n] \union {l} ELSE u[x][y]
  BY <1>2, <1>4, <1>5
<1>7. QED
  BY <1>1, <1>4, <1>6

LEMMA UpStep ==
    ASSUME Types, [SecretNext]_secretVars, NEW x \in Peer, NEW y \in Peer
    PROVE  \/ up'[x][y] = up[x][y]
           \/ Connected(x, y) /\ up'[x][y] = up[x][y] \union {links + 1}
           \/ Drop(x, y) /\ up'[x][y] \subseteq up[x][y] /\ route[x][y] \notin up'[x][y]
<1>0. up \in [Peer -> [Peer -> SUBSET Link]]
  BY DEF Types, SecretTypeOK
<1>1. CASE UNCHANGED secretVars
  BY <1>1 DEF secretVars, tables
<1>2. ASSUME NEW n \in Peer, NEW m \in Peer, Connect(n, m)
      PROVE  \/ up'[x][y] = up[x][y]
             \/ Connected(x, y) /\ up'[x][y] = up[x][y] \union {links + 1}
  <2>1. up'[x][y] = IF (x = n /\ y = m) \/ (x = m /\ y = n)
                    THEN up[x][y] \union {links + 1} ELSE up[x][y]
    <3>1. SecretTypeOK
      BY DEF Types
    <3>2. QED
      BY <1>2, <3>1, ConnectUp
  <2>2. CASE (x = n /\ y = m) \/ (x = m /\ y = n)
    <3>1. Connected(x, y)
      BY <1>2, <2>2 DEF Connected
    <3>2. QED
      BY <2>1, <2>2, <3>1
  <2>3. QED
    BY <2>1, <2>2
<1>3. ASSUME NEW n \in Peer, NEW m \in Peer, DisconnectPeer(n, m)
      PROVE  \/ up'[x][y] = up[x][y]
             \/ /\ DisconnectPeer(x, y) /\ up'[x][y] \subseteq up[x][y]
                /\ route[x][y] \notin up'[x][y]
  <2>1. up' = [up EXCEPT ![n][m] = up[n][m] \ {route[n][m]}]
    BY <1>3 DEF DisconnectPeer
  <2>2. CASE x = n /\ y = m
    <3>1. DisconnectPeer(x, y)
      BY <1>3, <2>2
    <3>2. up'[x][y] = up[x][y] \ {route[x][y]}
      BY <1>0, <2>1, <2>2
    <3>3. QED
      BY <3>1, <3>2
  <2>3. CASE ~(x = n /\ y = m)
    BY <1>0, <2>1, <2>3
  <2>4. QED
    BY <2>2, <2>3
<1>4. ASSUME NEW n \in Peer, RestartNode(n)
      PROVE  up'[x][y] = up[x][y] \/ (RestartNode(x) /\ up'[x][y] = {})
  <2>1. up' = [up EXCEPT ![n] = [m \in Peer |-> {}]]
    BY <1>4 DEF RestartNode
  <2>2. CASE x = n
    <3>1. RestartNode(x)
      BY <1>4, <2>2
    <3>2. up'[x][y] = {}
      BY <1>0, <2>1, <2>2
    <3>3. QED
      BY <3>1, <3>2
  <2>3. CASE x # n
    BY <1>0, <2>1, <2>3
  <2>4. QED
    BY <2>2, <2>3
<1>5. ASSUME NEW n \in Peer, NEW m \in Peer, SendInit(n, m) \/ SendResp(n, m) \/ Send(n, m)
      PROVE  up' = up
  BY <1>5 DEF SendInit, SendResp, Send, tables
<1>6. ASSUME NEW s \in Peer, NEW r \in Peer, NEW l \in Link,
             \/ RecvStray(s, r, l) \/ RecvHello(s, r, l) \/ RecvInit(s, r, l)
             \/ RecvInitIgnored(s, r, l) \/ RecvResp(s, r, l) \/ RecvReady(s, r, l)
             \/ RecvPayload(s, r, l)
      PROVE  up' = up
  BY <1>6 DEF RecvStray, RecvHello, RecvInit, RecvInitIgnored, RecvResp, RecvReady,
              RecvPayload, tables
<1>7. QED
  BY <1>1, <1>2, <1>3, <1>4, <1>5, <1>6, Steps DEF Drop

(* Numbers only grow.                                                       *)
LEMMA Growing ==
    ASSUME Types, [SecretNext]_secretVars
    PROVE  /\ nextKeyPair \in Nat /\ nextKeyPair' \in Nat /\ nextKeyPair <= nextKeyPair'
           /\ links \in Nat /\ links' \in Nat /\ links <= links'
           /\ drops \in Nat /\ drops' \in Nat /\ drops <= drops'
<1>1. /\ nextKeyPair \in Nat /\ nextKeyPair' \in Nat /\ links \in Nat /\ links' \in Nat
      /\ drops \in Nat /\ drops' \in Nat
  BY TypesKeep, Numbers DEF Types, SecretTypeOK
<1>2. /\ nextKeyPair' = nextKeyPair \/ nextKeyPair' = nextKeyPair + 1
      /\ links' = links \/ links' = links + 1
      /\ drops' = drops \/ drops' = drops + 1
  <2>1. CASE UNCHANGED secretVars
    BY <2>1 DEF secretVars
  <2>2. CASE \E n, m \in Peer : Connect(n, m) \/ DisconnectPeer(n, m)
    BY <2>2 DEF Connect, DisconnectPeer
  <2>3. CASE \E n, m \in Peer : SendInit(n, m) \/ SendResp(n, m) \/ Send(n, m)
    BY <2>3 DEF SendInit, SendResp, Send
  <2>4. CASE \E s, r \in Peer : \E l \in Link :
                \/ RecvStray(s, r, l) \/ RecvHello(s, r, l) \/ RecvInit(s, r, l)
                \/ RecvInitIgnored(s, r, l) \/ RecvResp(s, r, l)
                \/ RecvReady(s, r, l) \/ RecvPayload(s, r, l)
    BY <2>4 DEF RecvStray, RecvHello, RecvInit, RecvInitIgnored, RecvResp, RecvReady,
                RecvPayload
  <2>5. CASE \E n \in Peer : RestartNode(n)
    BY <2>5 DEF RestartNode
  <2>6. QED
    BY <2>1, <2>2, <2>3, <2>4, <2>5, Steps
<1>3. QED
  BY <1>1, <1>2

(* What an action that draws a key pair, or sends one, leaves alone.        *)
LEMMA SendInitOnly ==
    ASSUME NEW n \in Peer, NEW m \in Peer, SendInit(n, m)
    PROVE  /\ begun[n][m] > 0 /\ nextKeyPair \in KeyPair /\ nextKeyPair' = nextKeyPair + 1
           /\ UNCHANGED <<up, route, known, replying, key, ready, links, drops>>
BY DEF SendInit

LEMMA SendRespOnly ==
    ASSUME NEW n \in Peer, NEW m \in Peer, SendResp(n, m)
    PROVE  /\ replying[n][m] # Absent
           /\ UNCHANGED <<up, route, known, begun, asked, key, ready, nextKeyPair,
                          links, drops>>
BY DEF SendResp

LEMMA RecvHelloOnly ==
    ASSUME Types, NEW s \in Peer, NEW r \in Peer, NEW l \in Link, RecvHello(s, r, l)
    PROVE  /\ InFlight(s, r, l) /\ Idle(r) /\ l \in up[r][s] /\ frames[s][r][l] # <<>> /\ s # r
           /\ Head(frames[s][r][l]).kind = "Hello"
           /\ UNCHANGED <<up, replying, asked, key, ready, nextKeyPair, links, drops>>
           /\ \A x, y \in Peer : x # r \/ y # s => route'[x][y] = route[x][y]
<1>1. /\ InFlight(s, r, l) /\ Idle(r) /\ l \in up[r][s]
      /\ Head(frames[s][r][l]).kind = "Hello"
      /\ UNCHANGED <<up, replying, asked, key, ready, nextKeyPair, links, drops>>
      /\ route' = [route EXCEPT ![r][s] = l]
  BY DEF RecvHello, Comes
<1>2. frames[s][r][l] # <<>>
  BY <1>1 DEF InFlight
<1>3. s # r
  BY <1>2 DEF Types, Alone
<1>4. \A x, y \in Peer : x # r \/ y # s => route'[x][y] = route[x][y]
  BY <1>1 DEF Types, SecretTypeOK
<1>5. QED
  BY <1>1, <1>2, <1>3, <1>4

LEMMA RecvInitOnly ==
    ASSUME Types, NEW s \in Peer, NEW r \in Peer, NEW l \in Link,
           RecvInit(s, r, l) \/ RecvInitIgnored(s, r, l)
    PROVE  /\ InFlight(s, r, l) /\ Idle(r) /\ l \in up[r][s] /\ frames[s][r][l] # <<>> /\ s # r
           /\ Head(frames[s][r][l]).kind = "Init"
           /\ Got(s, r, l).eph \in KeyPair /\ Carries(s, r, l, "Init", Got(s, r, l).eph)
           /\ UNCHANGED <<up, route, known, begun, links, drops>>
           /\ RecvInit(s, r, l) =>
                key[r][s] = NoKey /\ known[r][s] /\ nextKeyPair \in KeyPair /\ nextKeyPair' = nextKeyPair + 1
           /\ \A x, y \in Peer : x # r \/ y # s =>
                key'[x][y] = key[x][y] /\ asked'[x][y] = asked[x][y]
<1>1. /\ InFlight(s, r, l) /\ Idle(r) /\ l \in up[r][s]
      /\ Head(frames[s][r][l]).kind = "Init"
      /\ UNCHANGED <<up, route, known, begun, links, drops>>
      /\ asked' = asked \/ asked' = [asked EXCEPT ![r][s] = Absent]
  BY DEF RecvInit, RecvInitIgnored, Comes
<1>2. frames[s][r][l] # <<>>
  BY <1>1 DEF InFlight
<1>3. s # r
  BY <1>2 DEF Types, Alone
<1>4. Got(s, r, l).kind = "Init"
  BY <1>1 DEF Got
<1>5. Got(s, r, l).eph \in KeyPair /\ Carries(s, r, l, "Init", Got(s, r, l).eph)
  <2>1. Got(s, r, l).eph \in KeyPair
    BY <1>2, <1>4, Heads
  <2>2. Carries(s, r, l, Got(s, r, l).kind, Got(s, r, l).eph)
    BY <1>2, Heads
  <2>3. QED
    BY <1>4, <2>1, <2>2
<1>6. key' = key \/ key' = [key EXCEPT ![r][s] = Shared(nextKeyPair, Got(s, r, l).eph)]
  BY DEF RecvInit, RecvInitIgnored
<1>11. key \in [Peer -> [Peer -> Keys]] /\ asked \in [Peer -> [Peer -> KeyPair \union {Absent}]]
  BY DEF Types, SecretTypeOK
<1>7. \A x, y \in Peer : x # r \/ y # s => key'[x][y] = key[x][y]
  <2>1. CASE key' = key
    BY <2>1
  <2>2. CASE key' = [key EXCEPT ![r][s] = Shared(nextKeyPair, Got(s, r, l).eph)]
    BY <1>11, <2>2
  <2>3. QED
    BY <1>6, <2>1, <2>2
<1>8. \A x, y \in Peer : x # r \/ y # s => asked'[x][y] = asked[x][y]
  <2>1. CASE asked' = asked
    BY <2>1
  <2>2. CASE asked' = [asked EXCEPT ![r][s] = Absent]
    BY <1>11, <2>2
  <2>3. QED
    BY <1>1, <2>1, <2>2
<1>9. RecvInit(s, r, l) =>
         key[r][s] = NoKey /\ known[r][s] /\ nextKeyPair \in KeyPair /\ nextKeyPair' = nextKeyPair + 1
  BY DEF RecvInit, IgnoresInit
<1>10. QED
  BY <1>1, <1>2, <1>3, <1>5, <1>7, <1>8, <1>9

LEMMA RecvRespOnly ==
    ASSUME Types, NEW s \in Peer, NEW r \in Peer, NEW l \in Link, RecvResp(s, r, l)
    PROVE  /\ InFlight(s, r, l) /\ Idle(r) /\ l \in up[r][s] /\ frames[s][r][l] # <<>> /\ s # r
           /\ Head(frames[s][r][l]).kind = "Resp"
           /\ Got(s, r, l).eph \in KeyPair /\ Carries(s, r, l, "Resp", Got(s, r, l).eph)
           /\ UNCHANGED <<up, route, known, begun, replying, nextKeyPair, links, drops>>
           /\ \A x, y \in Peer : x # r \/ y # s =>
                key'[x][y] = key[x][y] /\ asked'[x][y] = asked[x][y]
           /\ Made(r, s) => key'[r][s] = Shared(asked[r][s], Got(s, r, l).eph)
<1>1. /\ InFlight(s, r, l) /\ Idle(r) /\ l \in up[r][s]
      /\ Head(frames[s][r][l]).kind = "Resp"
      /\ UNCHANGED <<up, route, known, begun, replying, nextKeyPair, links, drops>>
      /\ asked' = asked \/ asked' = [asked EXCEPT ![r][s] = Absent]
      /\ key' = IF Made(r, s) THEN [key EXCEPT ![r][s] =
                                 Shared(asked[r][s], Got(s, r, l).eph)] ELSE key
  BY DEF RecvResp, Comes, Made
<1>2. frames[s][r][l] # <<>>
  BY <1>1 DEF InFlight
<1>3. s # r
  BY <1>2 DEF Types, Alone
<1>4. Got(s, r, l).kind = "Resp"
  BY <1>1 DEF Got
<1>5. Got(s, r, l).eph \in KeyPair /\ Carries(s, r, l, "Resp", Got(s, r, l).eph)
  <2>1. Got(s, r, l).eph \in KeyPair
    BY <1>2, <1>4, Heads
  <2>2. Carries(s, r, l, Got(s, r, l).kind, Got(s, r, l).eph)
    BY <1>2, Heads
  <2>3. QED
    BY <1>4, <2>1, <2>2
<1>6. key \in [Peer -> [Peer -> Keys]] /\ asked \in [Peer -> [Peer -> KeyPair \union {Absent}]]
  BY DEF Types, SecretTypeOK
<1>7. \A x, y \in Peer : x # r \/ y # s => key'[x][y] = key[x][y]
  BY <1>1, <1>6
<1>8. \A x, y \in Peer : x # r \/ y # s => asked'[x][y] = asked[x][y]
  BY <1>1, <1>6
<1>9. Made(r, s) => key'[r][s] = Shared(asked[r][s], Got(s, r, l).eph)
  BY <1>1, <1>6
<1>10. QED
  BY <1>1, <1>2, <1>3, <1>5, <1>7, <1>8, <1>9

LEMMA AloneStep ==
    ASSUME Types, [SecretNext]_secretVars PROVE Alone'
<1>1. SUFFICES ASSUME NEW r \in Peer
               PROVE  up'[r][r] = {} /\ \A l \in Link : frames'[r][r][l] = <<>>
  BY DEF Alone
<1>2. up[r][r] = {} /\ \A l \in Link : frames[r][r][l] = <<>>
  BY DEF Types, Alone
<1>3. ~Connected(r, r)
  BY DEF Connected, Connect
<1>4. up'[r][r] = {}
  BY <1>2, <1>3, UpStep
<1>5. ASSUME NEW l \in Link PROVE frames'[r][r][l] = <<>>
  BY <1>2, <1>3, NetStep
<1>6. QED
  BY <1>4, <1>5

LEMMA DrawnStep ==
    ASSUME Types, [SecretNext]_secretVars PROVE Drawn'
<1>1. /\ nextKeyPair \in Nat /\ nextKeyPair' \in Nat /\ nextKeyPair <= nextKeyPair' /\ nextKeyPair > 0
      /\ Absent = 0
  BY Growing, Numbers DEF Types, SecretTypeOK
<1>2. ASSUME NEW s \in Peer, NEW r \in Peer
      PROVE  /\ replying[s][r] \in Nat /\ asked[s][r] \in Nat
             /\ replying[s][r] < nextKeyPair /\ asked[s][r] < nextKeyPair
             /\ asked[s][r] # Absent => asked[s][r] # replying[r][s]
  <2>1. replying[s][r] \in Ephs /\ asked[s][r] \in Ephs /\ Ephs \subseteq Nat
    BY Numbers DEF Types, SecretTypeOK, Ephs
  <2>2. QED
    BY <2>1 DEF Types, Drawn
<1>3. ASSUME NEW s \in Peer, NEW r \in Peer PROVE replying'[s][r] < nextKeyPair'
  <2>1. CASE \E l \in Link : RecvInit(r, s, l) /\ replying'[s][r] = nextKeyPair
    BY <1>1, <2>1, RecvInitOnly
  <2>2. QED
    BY <1>1, <1>2, <2>1, ReplyingStep
<1>4. ASSUME NEW s \in Peer, NEW r \in Peer PROVE asked'[s][r] < nextKeyPair'
  <2>1. CASE SendInit(s, r) /\ asked'[s][r] = nextKeyPair
    BY <1>1, <2>1, SendInitOnly
  <2>2. QED
    BY <1>1, <1>2, <2>1, PendingStep
<1>5. ASSUME NEW s \in Peer, NEW r \in Peer, asked'[s][r] # Absent
      PROVE  asked'[s][r] # replying'[r][s]
  <2>1. CASE SendInit(s, r) /\ asked'[s][r] = nextKeyPair
    <3>1. replying'[r][s] = replying[r][s]
      BY <2>1, SendInitOnly
    <3>2. QED
      BY <1>1, <1>2, <2>1, <3>1
  <2>2. CASE asked'[s][r] = asked[s][r]
    <3>1. ASSUME NEW l \in Link, RecvInit(s, r, l), replying'[r][s] = nextKeyPair
          PROVE  asked'[s][r] # replying'[r][s]
      BY <1>1, <1>2, <2>2, <3>1
    <3>2. QED
      BY <1>2, <1>5, <2>2, <3>1, ReplyingStep
  <2>3. QED
    BY <1>5, <2>1, <2>2, PendingStep
<1>6. ASSUME NEW s \in Peer, NEW r \in Peer, NEW l \in Link, NEW e \in Ephs,
             Carries(s, r, l, "Init", e)'
      PROVE  e # Absent /\ e < nextKeyPair'
  <2>0. e \in Nat
    BY Numbers DEF Ephs
  <2>1. CASE Carries(s, r, l, "Init", e)
    <3>1. e # Absent /\ e < nextKeyPair
      BY <2>1 DEF Types, Drawn
    <3>2. QED
      BY <1>1, <2>0, <3>1
  <2>2. CASE SendInit(s, r) /\ e = nextKeyPair
    BY <1>1, <2>0, <2>2, SendInitOnly
  <2>3. QED
    BY <1>6, <2>1, <2>2, CarriesStep
<1>7. ASSUME NEW s \in Peer, NEW r \in Peer, NEW l \in Link, NEW e \in Ephs,
             Carries(s, r, l, "Resp", e)'
      PROVE  e # Absent /\ e < nextKeyPair' /\ e # asked'[r][s]
  <2>0. e \in Nat
    BY Numbers DEF Ephs
  <2>1. CASE Carries(s, r, l, "Resp", e)
    <3>1. e # Absent /\ e < nextKeyPair /\ e # asked[r][s]
      BY <2>1 DEF Types, Drawn
    <3>2. e # asked'[r][s]
      BY <1>1, <3>1, PendingStep
    <3>3. QED
      BY <1>1, <2>0, <3>1, <3>2
  <2>2. CASE SendResp(s, r) /\ e = replying[s][r]
    <3>1. replying[s][r] # Absent /\ asked'[r][s] = asked[r][s]
      BY <2>2, SendRespOnly
    <3>2. replying[s][r] # asked[r][s]
      BY <1>2, <3>1
    <3>3. QED
      BY <1>1, <1>2, <2>0, <2>2, <3>1, <3>2
  <2>3. QED
    BY <1>7, <2>1, <2>2, CarriesStep
<1>8. QED
  BY <1>3, <1>4, <1>5, <1>6, <1>7 DEF Drawn

LEMMA TypesInit ==
    SecretInit => Types
<1> SUFFICES ASSUME SecretInit PROVE Types
  OBVIOUS
<1>1. /\ up = Table({}) /\ route = Table(Absent) /\ known = Table(FALSE)
      /\ begun = Table(0) /\ replying = Table(Absent) /\ asked = Table(Absent)
      /\ key = Table(NoKey) /\ ready = Table({})
      /\ frames = Table([l \in Link |-> <<>>])
      /\ nextKeyPair = 1 /\ links = 0 /\ drops = 0 /\ payloads = 0 /\ unread = {}
  BY DEF SecretInit
<1>2. [l \in Link |-> <<>>] \in Lines /\ NoKey \in Keys
  BY DEF Lines, Keys
<1>3. SecretTypeOK
  BY <1>1, <1>2, Numbers DEF SecretTypeOK, Table, Lines
<1>4. Drawn
  <2>1. ASSUME NEW s \in Peer, NEW r \in Peer, NEW l \in Link, NEW kind, NEW e
        PROVE  ~Carries(s, r, l, kind, e)
    <3>1. frames[s][r][l] = <<>>
      BY <1>1 DEF Table
    <3>2. QED
      BY <3>1, HasNone DEF Carries
  <2>2. \A s, r \in Peer : replying[s][r] = 0 /\ asked[s][r] = 0
    BY <1>1 DEF Table, Absent
  <2>3. QED
    BY <1>1, <2>1, <2>2 DEF Drawn, Absent
<1>5. Alone
  BY <1>1 DEF Alone, Table
<1>6. QED
  BY <1>3, <1>4, <1>5 DEF Types

LEMMA TypesStep ==
    Types /\ [SecretNext]_secretVars => Types'
BY TypesKeep, DrawnStep, AloneStep DEF Types

(* The tables and frames of the key exchange keep their types for every      *)
(* number of nodes, connections, key pairs, disconnects, restarts and        *)
(* payloads.  That a shared key is never one of a key pair with itself       *)
(* needs that the two sides of an exchange never draw the same one.          *)
THEOREM TypeCorrect == SecretSpec => []SecretTypeOK
<1>1. Types => SecretTypeOK
  BY DEF Types
<1>2. QED
  BY TypesInit, TypesStep, <1>1, PTL DEF SecretSpec

-----------------------------------------------------------------------------
(* Connections: which of them two peers have in common, and what was heard   *)
(* over each.                                                               *)

HelloFirst(s, r, l) == frames[s][r][l] # <<>> /\ Head(frames[s][r][l]).kind = "Hello"

(* A route is a standing connection; what is to come is not yet in use.      *)
Dealing ==
    \A r, s \in Peer :
        /\ route[r][s] # Absent => route[r][s] \in up[r][s]
        /\ \A l \in Link : l > links => l \notin up[r][s] /\ frames[r][s][l] = <<>>

(* Only the newest connection of two peers can be up at both of them.        *)
Common ==
    \A r, s \in Peer : \A l \in up[r][s], k \in up[r][s] \union up[s][r] :
        l < k => l \notin up[s][r]

(* Over a connection that is up r has yet to hear the greeting, or it is     *)
(* its route, or it is silent for good; an older one than the route is empty.*)
Heard ==
    \A r, s \in Peer : \A l \in up[r][s] :
        /\ \/ HelloFirst(s, r, l)
           \/ route[r][s] = l
           \/ frames[s][r][l] = <<>> /\ l \notin up[s][r]
        /\ l < route[r][s] => frames[s][r][l] = <<>>

Layout == Dealing /\ Common /\ Heard

LEMMA Linked ==
    ASSUME Types, NEW x \in Peer, NEW y \in Peer
    PROVE  /\ up[x][y] \subseteq Link /\ Link \subseteq Nat /\ route[x][y] \in Nat
           /\ links \in Nat /\ Absent = 0 /\ Absent \notin Link /\ \A l \in Link : l > 0
<1>1. up[x][y] \subseteq Link /\ route[x][y] \in Link \union {Absent} /\ links \in 0..MaxLink
  BY DEF Types, SecretTypeOK
<1>2. QED
  BY <1>1, Numbers

LEMMA ConnectOnly ==
    ASSUME Types, NEW x \in Peer, NEW y \in Peer, Connected(x, y), ~Overlap
    PROVE  /\ links' = links + 1 /\ links + 1 \in Link /\ x # y
           /\ up[x][y] = {} \/ up[y][x] = {}
           /\ up'[x][y] = up[x][y] \union {links + 1}
           /\ up'[y][x] = up[y][x] \union {links + 1}
           /\ \A k \in Link : frames'[x][y][k] = IF k = links + 1 THEN <<Control("Hello", Absent)>>
                                              ELSE frames[x][y][k]
           /\ UNCHANGED <<route, known, begun, replying, asked, key, ready, nextKeyPair,
                          drops>>
<1>0. SecretTypeOK
  BY DEF Types
<1>1. PICK n \in Peer, m \in Peer :
         Connect(n, m) /\ ((x = n /\ y = m) \/ (x = m /\ y = n))
  BY DEF Connected
<1>2. /\ n # m /\ up[n][m] = {}
      /\ UNCHANGED <<route, known, begun, replying, asked, key, ready, nextKeyPair, drops>>
  BY <1>1 DEF Connect
<1>3. links' = links + 1 /\ links + 1 \in Link
  BY <1>0, <1>1, ConnectNet
<1>4. /\ up'[x][y] = up[x][y] \union {links + 1}
      /\ up'[y][x] = up[y][x] \union {links + 1}
  <2>1. up'[x][y] = IF (x = n /\ y = m) \/ (x = m /\ y = n)
                    THEN up[x][y] \union {links + 1} ELSE up[x][y]
    BY <1>0, <1>1, ConnectUp
  <2>2. up'[y][x] = IF (y = n /\ x = m) \/ (y = m /\ x = n)
                    THEN up[y][x] \union {links + 1} ELSE up[y][x]
    BY <1>0, <1>1, ConnectUp
  <2>3. QED
    BY <1>1, <2>1, <2>2
<1>5. ASSUME NEW k \in Link
      PROVE  frames'[x][y][k] = IF k = links + 1 THEN <<Control("Hello", Absent)>>
                             ELSE frames[x][y][k]
  <2>1. frames'[x][y][k] = IF k = links + 1 /\ ((x = n /\ y = m) \/ (x = m /\ y = n))
                        THEN <<Control("Hello", Absent)>> ELSE frames[x][y][k]
    BY <1>0, <1>1, ConnectNet
  <2>2. QED
    BY <1>1, <2>1
<1>6. QED
  BY <1>1, <1>2, <1>3, <1>4, <1>5

LEMMA DropOnly ==
    ASSUME Types, NEW x \in Peer, NEW y \in Peer, Drop(x, y)
    PROVE  /\ route'[x][y] = Absent /\ key'[x][y] = NoKey /\ asked'[x][y] = Absent
           /\ UNCHANGED <<frames, links, nextKeyPair>>
           /\ \A a, b \in Peer : a # x =>
                /\ up'[a][b] = up[a][b] /\ route'[a][b] = route[a][b]
                /\ key'[a][b] = key[a][b] /\ asked'[a][b] = asked[a][b]
                /\ replying'[a][b] = replying[a][b] /\ begun'[a][b] = begun[a][b]
           /\ drops' = drops + 1
<1>0. /\ up \in [Peer -> [Peer -> SUBSET Link]]
      /\ route \in [Peer -> [Peer -> Link \union {Absent}]]
      /\ key \in [Peer -> [Peer -> Keys]]
      /\ asked \in [Peer -> [Peer -> KeyPair \union {Absent}]]
      /\ replying \in [Peer -> [Peer -> KeyPair \union {Absent}]]
      /\ begun \in [Peer -> [Peer -> Nat]]
  BY DEF Types, SecretTypeOK
<1>1. CASE DisconnectPeer(x, y)
  <2>1. /\ up' = [up EXCEPT ![x][y] = up[x][y] \ {route[x][y]}]
        /\ route' = [route EXCEPT ![x][y] = Absent]
        /\ key' = [key EXCEPT ![x][y] = NoKey]
        /\ asked' = [asked EXCEPT ![x][y] = Absent]
        /\ UNCHANGED <<replying, begun, frames, links, nextKeyPair>> /\ drops' = drops + 1
    BY <1>1 DEF DisconnectPeer
  <2>2. route'[x][y] = Absent /\ key'[x][y] = NoKey /\ asked'[x][y] = Absent
    BY <1>0, <2>1
  <2>3. \A a, b \in Peer : a # x =>
                /\ up'[a][b] = up[a][b] /\ route'[a][b] = route[a][b]
                /\ key'[a][b] = key[a][b] /\ asked'[a][b] = asked[a][b]
    BY <1>0, <2>1
  <2>4. QED
    BY <2>1, <2>2, <2>3
<1>2. CASE RestartNode(x)
  <2>1. /\ up' = [up EXCEPT ![x] = [m \in Peer |-> {}]]
        /\ route' = [route EXCEPT ![x] = [m \in Peer |-> Absent]]
        /\ key' = [key EXCEPT ![x] = [m \in Peer |-> NoKey]]
        /\ asked' = [asked EXCEPT ![x] = [m \in Peer |-> Absent]]
        /\ replying' = [replying EXCEPT ![x] = [m \in Peer |-> Absent]]
        /\ begun' = [begun EXCEPT ![x] = [m \in Peer |-> 0]]
        /\ UNCHANGED <<frames, links, nextKeyPair>> /\ drops' = drops + 1
    BY <1>2 DEF RestartNode
  <2>2. route'[x][y] = Absent /\ key'[x][y] = NoKey /\ asked'[x][y] = Absent
    BY <1>0, <2>1
  <2>3. \A a, b \in Peer : a # x =>
                /\ up'[a][b] = up[a][b] /\ route'[a][b] = route[a][b]
                /\ key'[a][b] = key[a][b] /\ asked'[a][b] = asked[a][b]
                /\ replying'[a][b] = replying[a][b] /\ begun'[a][b] = begun[a][b]
    BY <1>0, <2>1
  <2>4. QED
    BY <2>1, <2>2, <2>3
<1>3. QED
  BY <1>1, <1>2 DEF Drop

LEMMA DealingStep ==
    ASSUME Types, Dealing, [SecretNext]_secretVars, ~Overlap PROVE Dealing'
<1>1. ASSUME NEW r \in Peer, NEW s \in Peer, route'[r][s] # Absent
      PROVE  route'[r][s] \in up'[r][s]
  <2>1. CASE Drop(r, s)
    BY <1>1, <2>1, DropOnly
  <2>2. CASE \E l \in Link : RecvHello(s, r, l) /\ route'[r][s] = l
    BY <2>2, RecvHelloOnly
  <2>3. CASE route'[r][s] = route[r][s] /\ ~Drop(r, s)
    <3>1. route[r][s] \in up[r][s]
      BY <1>1, <2>3 DEF Dealing
    <3>2. QED
      BY <2>3, <3>1, UpStep
  <2>4. QED
    BY <2>1, <2>2, <2>3, RouteStep
<1>2. ASSUME NEW r \in Peer, NEW s \in Peer, NEW l \in Link, l > links'
      PROVE  l \notin up'[r][s] /\ frames'[r][s][l] = <<>>
  <2>1. /\ links \in Nat /\ links' \in Nat /\ links <= links' /\ l \in Nat
    BY Growing, Linked
  <2>2. l > links
    BY <1>2, <2>1
  <2>3. l \notin up[r][s] /\ frames[r][s][l] = <<>>
    BY <2>2 DEF Dealing
  <2>4. Connected(r, s) => l # links + 1
    BY <1>2, ConnectOnly, <2>1
  <2>5. l \notin up'[r][s]
    BY <2>3, <2>4, UpStep
  <2>6. frames'[r][s][l] = <<>>
    BY <2>3, <2>4, NetStep
  <2>7. QED
    BY <2>5, <2>6
<1>3. QED
  BY <1>1, <1>2 DEF Dealing

LEMMA CommonStep ==
    ASSUME Types, Dealing, Common, [SecretNext]_secretVars, ~Overlap PROVE Common'
<1>1. SUFFICES ASSUME NEW r \in Peer, NEW s \in Peer, NEW l \in up'[r][s],
                      NEW k \in up'[r][s] \union up'[s][r], l < k, l \in up'[s][r]
               PROVE  FALSE
  BY DEF Common
<1>2. CASE Connected(r, s)
  <2>1. /\ up'[r][s] = up[r][s] \union {links + 1} /\ up'[s][r] = up[s][r] \union {links + 1}
        /\ up[r][s] = {} \/ up[s][r] = {}
    BY <1>2, ConnectOnly
  <2>2. l = links + 1
    BY <1>1, <2>1
  <2>3. k \in up[r][s] \/ k \in up[s][r] \/ k = links + 1
    BY <2>1
  <2>4. links \in Nat /\ up[r][s] \subseteq Link /\ up[s][r] \subseteq Link /\ Link \subseteq Nat
    BY Linked
  <2>5. k \in Nat /\ k > links
    <3>1. k \in Nat
      <4>1. CASE k = links + 1
        BY <2>4, <4>1
      <4>2. CASE k \in up[r][s]
        BY <2>4, <4>2
      <4>3. CASE k \in up[s][r]
        BY <2>4, <4>3
      <4>4. QED
        BY <2>3, <4>1, <4>2, <4>3
    <3>2. links + 1 < k
      BY <1>1, <2>2
    <3>3. QED
      BY <2>4, <3>1, <3>2
  <2>6. k # links + 1
    BY <1>1, <2>2, <2>4
  <2>7. k \in Link
    BY <2>3, <2>4, <2>6
  <2>8. k \notin up[r][s] /\ k \notin up[s][r]
    BY <2>5, <2>7 DEF Dealing
  <2>9. QED
    BY <2>3, <2>6, <2>8
<1>3. CASE ~Connected(r, s)
  <2>1. ~Connected(s, r)
    BY <1>3 DEF Connected
  <2>2. up'[r][s] \subseteq up[r][s] /\ up'[s][r] \subseteq up[s][r]
    BY <1>3, <2>1, UpStep
  <2>3. QED
    BY <1>1, <2>2 DEF Common
<1>4. QED
  BY <1>2, <1>3

LEMMA HeardStep ==
    ASSUME Types, Layout, [SecretNext]_secretVars, ~Overlap, Ordered PROVE Heard'
<1>1. SUFFICES ASSUME NEW r \in Peer, NEW s \in Peer, NEW l \in up'[r][s]
               PROVE  /\ \/ HelloFirst(s, r, l)'
                         \/ route'[r][s] = l
                         \/ frames'[s][r][l] = <<>> /\ l \notin up'[s][r]
                      /\ l < route'[r][s] => frames'[s][r][l] = <<>>
  BY DEF Heard
<1>2. /\ up[r][s] \subseteq Link /\ up[s][r] \subseteq Link /\ Link \subseteq Nat
      /\ route[r][s] \in Nat /\ links \in Nat /\ Absent = 0 /\ \A k \in Link : k > 0
  BY Linked
<1>3. ASSUME l \in up[r][s]
      PROVE  /\ \/ HelloFirst(s, r, l)
                \/ route[r][s] = l
                \/ frames[s][r][l] = <<>> /\ l \notin up[s][r]
             /\ l < route[r][s] => frames[s][r][l] = <<>>
  BY <1>3 DEF Layout, Heard
<1>4. CASE Connected(r, s)
  <2>1. Connected(s, r)
    BY <1>4 DEF Connected
  <2>2. /\ up'[r][s] = up[r][s] \union {links + 1} /\ up'[s][r] = up[s][r] \union {links + 1}
        /\ route' = route /\ links + 1 \in Link
    BY <1>4, ConnectOnly
  <2>3. \A k \in Link : frames'[s][r][k] = IF k = links + 1 THEN <<Control("Hello", Absent)>>
                                        ELSE frames[s][r][k]
    BY <2>1, ConnectOnly
  <2>4. CASE l = links + 1
    <3>1. frames'[s][r][l] = <<Control("Hello", Absent)>>
      BY <2>2, <2>3, <2>4
    <3>2. PICK f \in Frame : f = Control("Hello", Absent) /\ f.kind = "Hello"
      BY Controls DEF Kinds, Ephs
    <3>3. <<f>> # <<>> /\ Head(<<f>>) = f
      BY <3>2, HasOne
    <3>4. HelloFirst(s, r, l)'
      BY <3>1, <3>2, <3>3 DEF HelloFirst
    <3>5. route[r][s] # Absent => route[r][s] \in up[r][s]
      BY DEF Layout, Dealing
    <3>6. route[r][s] <= links
      <4>1. CASE route[r][s] \in up[r][s]
        <5>1. route[r][s] \in Link
          BY <1>2, <4>1
        <5>2. ~(route[r][s] > links)
          BY <4>1, <5>1 DEF Layout, Dealing
        <5>3. QED
          BY <1>2, <5>2
      <4>2. QED
        BY <1>2, <3>5, <4>1
    <3>7. ~(l < route'[r][s])
      BY <1>2, <2>2, <2>4, <3>6
    <3>8. QED
      BY <3>4, <3>7
  <2>5. CASE l # links + 1
    <3>1. l \in up[r][s] /\ l \in Link
      BY <1>2, <2>2, <2>5
    <3>2. frames'[s][r][l] = frames[s][r][l]
      BY <2>3, <2>5, <3>1
    <3>3. HelloFirst(s, r, l) => HelloFirst(s, r, l)'
      BY <3>2 DEF HelloFirst
    <3>4. l \notin up[s][r] => l \notin up'[s][r]
      BY <2>2, <2>5
    <3>5. QED
      BY <1>3, <2>2, <3>1, <3>2, <3>3, <3>4
  <2>6. QED
    BY <2>4, <2>5
<1>5. CASE ~Connected(r, s)
  <2>1. ~Connected(s, r)
    BY <1>5 DEF Connected
  <2>2. up'[r][s] \subseteq up[r][s] /\ up'[s][r] \subseteq up[s][r]
    BY <1>5, <2>1, UpStep
  <2>3. l \in up[r][s] /\ l \in Link
    BY <1>2, <2>2
  <2>4. CASE Drop(r, s)
    <3>1. route'[r][s] = Absent /\ frames' = frames
      BY <2>4, DropOnly
    <3>2. l # route[r][s]
      <4>1. route[r][s] \notin up'[r][s] \/ up'[r][s] = up[r][s]
        BY <1>5, UpStep
      <4>2. route[r][s] \notin up'[r][s]
        <5>1. CASE DisconnectPeer(r, s)
          <6>1. up' = [up EXCEPT ![r][s] = up[r][s] \ {route[r][s]}]
            BY <5>1 DEF DisconnectPeer
          <6>2. QED
            BY <6>1 DEF Types, SecretTypeOK
        <5>2. CASE RestartNode(r)
          <6>1. up' = [up EXCEPT ![r] = [m \in Peer |-> {}]]
            BY <5>2 DEF RestartNode
          <6>2. QED
            BY <6>1 DEF Types, SecretTypeOK
        <5>3. QED
          BY <2>4, <5>1, <5>2 DEF Drop
      <4>3. QED
        BY <1>1, <4>2
    <3>3. HelloFirst(s, r, l) => HelloFirst(s, r, l)'
      BY <3>1 DEF HelloFirst
    <3>4. ~(l < route'[r][s])
      BY <1>2, <2>3, <3>1
    <3>5. QED
      BY <1>3, <2>2, <2>3, <3>1, <3>2, <3>3, <3>4
  <2>5. ASSUME NEW h \in Link, RecvHello(s, r, h), route'[r][s] = h
        PROVE  /\ \/ HelloFirst(s, r, l)'
                  \/ route'[r][s] = l
                  \/ frames'[s][r][l] = <<>> /\ l \notin up'[s][r]
               /\ l < route'[r][s] => frames'[s][r][l] = <<>>
    <3>1. InFlight(s, r, h) /\ h \in up[r][s] /\ frames[s][r][h] # <<>> /\ s # r
      BY <2>5, RecvHelloOnly
    <3>2. \A k \in Link : k < h => frames[s][r][k] = <<>>
      BY <3>1 DEF InFlight
    <3>3. CASE l = h
      BY <1>2, <2>3, <2>5, <3>3
    <3>4. CASE l # h
      <4>1. frames'[s][r][l] = frames[s][r][l]
        <5>1. Take(s, r, h) /\ SecretTypeOK
          BY <2>5 DEF RecvHello, Types
        <5>2. QED
          BY <2>3, <3>1, <3>4, <5>1, TakeNet
      <4>2. HelloFirst(s, r, l) => HelloFirst(s, r, l)'
        BY <4>1 DEF HelloFirst
      <4>3. l < h => frames'[s][r][l] = <<>>
        BY <2>3, <3>2, <4>1
      <4>4. ASSUME route[r][s] = l PROVE frames'[s][r][l] = <<>> /\ l \notin up'[s][r]
        <5>1. ~(h < route[r][s])
          BY <3>1 DEF Layout, Heard
        <5>2. l < h
          BY <1>2, <2>3, <3>4, <4>4, <5>1
        <5>3. l \notin up[s][r]
          BY <2>3, <3>1, <5>2 DEF Layout, Common
        <5>4. QED
          BY <2>2, <4>3, <5>2, <5>3
      <4>5. QED
        BY <1>3, <2>2, <2>3, <2>5, <4>1, <4>2, <4>3, <4>4
    <3>5. QED
      BY <3>3, <3>4
  <2>6. CASE ~Drop(r, s) /\ \A h \in Link : ~(RecvHello(s, r, h) /\ route'[r][s] = h)
    <3>1. route'[r][s] = route[r][s]
      BY <2>6, RouteStep
    <3>2. CASE frames'[s][r][l] = frames[s][r][l]
      <4>1. HelloFirst(s, r, l) => HelloFirst(s, r, l)'
        BY <3>2 DEF HelloFirst
      <4>2. QED
        BY <1>3, <2>2, <2>3, <3>1, <3>2, <4>1
    <3>3. CASE Taken(s, r, l) /\ frames[s][r][l] # <<>> /\ frames'[s][r][l] = Tail(frames[s][r][l])
      <4>1. ~HelloFirst(s, r, l)
        <5>1. ~RecvHello(s, r, l)
          <6>1. ASSUME RecvHello(s, r, l) PROVE route'[r][s] = l
            BY <6>1 DEF RecvHello, Types, SecretTypeOK
          <6>2. QED
            BY <2>3, <2>6, <6>1
        <5>2. ~RecvStray(s, r, l)
          BY <2>3 DEF RecvStray
        <5>3. Head(frames[s][r][l]).kind # "Hello"
          BY <3>3, <5>1, <5>2 DEF Taken, RecvInit, RecvInitIgnored, RecvResp, RecvReady,
                                  RecvPayload, Comes
        <5>4. QED
          BY <5>3 DEF HelloFirst
      <4>2. QED
        BY <1>3, <2>3, <3>1, <3>3, <4>1
    <3>4. ASSUME NEW fs, Posted(s, r, fs), l = route[s][r], l \in up[s][r],
                 frames'[s][r][l] = frames[s][r][l] \o fs
          PROVE  /\ HelloFirst(s, r, l)' \/ route'[r][s] = l
                 /\ ~(l < route'[r][s])
      <4>1. PICK q \in Seq(Frame) : q = frames[s][r][l]
        BY <2>3, Streams DEF Types
      <4>2. fs \in Seq(Frame)
        BY <3>4, PostedFrames
      <4>3. q # <<>> => q \o fs # <<>> /\ Head(q \o fs) = Head(q)
        BY <4>1, <4>2, HasMore
      <4>4. HelloFirst(s, r, l) => HelloFirst(s, r, l)'
        <5>1. frames'[s][r][l] = q \o fs
          BY <3>4, <4>1
        <5>2. QED
          BY <4>1, <4>3, <5>1 DEF HelloFirst
      <4>5. HelloFirst(s, r, l)' \/ route'[r][s] = l
        BY <1>3, <2>3, <3>1, <3>4, <4>4
      <4>6. ASSUME l < route[r][s] PROVE FALSE
        <5>1. route[r][s] # Absent
          BY <1>2, <2>3, <4>6
        <5>2. route[r][s] \in up[r][s]
          BY <5>1 DEF Layout, Dealing
        <5>3. l \notin up[s][r]
          BY <2>3, <4>6, <5>2 DEF Layout, Common
        <5>4. QED
          BY <3>4, <5>3
      <4>7. QED
        BY <3>1, <4>5, <4>6
    <3>5. QED
      BY <2>1, <2>3, <3>2, <3>3, <3>4, NetStep
  <2>7. QED
    BY <2>4, <2>5, <2>6
<1>6. QED
  BY <1>4, <1>5

LEMMA LayoutStep ==
    ASSUME Types, Layout, [SecretNext]_secretVars, ~Overlap, Ordered PROVE Layout'
BY DealingStep, CommonStep, HeardStep DEF Layout

LEMMA LayoutInit ==
    SecretInit => Layout
<1> SUFFICES ASSUME SecretInit PROVE Layout
  OBVIOUS
<1>1. /\ up = Table({}) /\ route = Table(Absent) /\ frames = Table([l \in Link |-> <<>>])
  BY DEF SecretInit
<1>2. \A r, s \in Peer : up[r][s] = {} /\ route[r][s] = Absent
                         /\ \A l \in Link : frames[r][s][l] = <<>>
  BY <1>1 DEF Table
<1>3. Dealing
  BY <1>2 DEF Dealing
<1>4. Common /\ Heard
  BY <1>2 DEF Common, Heard
<1>5. QED
  BY <1>3, <1>4 DEF Layout

-----------------------------------------------------------------------------
(* Who asks and who answers.                                                *)

Roles ==
    \A r, s \in Peer :
        /\ \A l \in Link, e \in KeyPair :
             /\ Carries(r, s, l, "Init", e) => Lower(r, s)
             /\ Carries(r, s, l, "Resp", e) => Lower(s, r)
        /\ replying[r][s] # Absent => Lower(s, r)
        /\ begun[r][s] # 0 =>
             key[r][s] = NoKey /\ asked[r][s] = Absent /\ begun[r][s] = 1
        /\ begun[r][s] # 0 \/ asked[r][s] # Absent => Lower(r, s) /\ known[r][s]

(* With one receive task nothing arrives in the middle of a handler.        *)
LEMMA AtRest ==
    ASSUME ~Overlap, NEW r \in Peer, NEW s \in Peer, Idle(r)
    PROVE  begun[r][s] = 0 /\ replying[r][s] = Absent
BY DEF Idle

LEMMA Entries ==
    ASSUME Types, NEW n \in Peer, NEW m \in Peer
    PROVE  /\ SendInit(n, m) =>
                begun'[n][m] = begun[n][m] - 1 /\ asked'[n][m] = nextKeyPair
           /\ RestartNode(n) => begun'[n][m] = 0 /\ asked'[n][m] = Absent
           /\ \A l \in Link : RecvHello(m, n, l) => known'[n][m] = TRUE
           /\ \A l \in Link : RecvInit(m, n, l) =>
                key'[n][m] = Shared(nextKeyPair, Got(m, n, l).eph)
<1>0. /\ known \in [Peer -> [Peer -> BOOLEAN]]
      /\ key \in [Peer -> [Peer -> Keys]]
      /\ asked \in [Peer -> [Peer -> KeyPair \union {Absent}]]
      /\ begun \in [Peer -> [Peer -> Nat]]
  BY DEF Types, SecretTypeOK
<1>1. ASSUME SendInit(n, m)
      PROVE  begun'[n][m] = begun[n][m] - 1 /\ asked'[n][m] = nextKeyPair
  <2>1. /\ begun' = [begun EXCEPT ![n][m] = begun[n][m] - 1]
        /\ asked' = [asked EXCEPT ![n][m] = nextKeyPair]
    BY <1>1 DEF SendInit
  <2>2. QED
    BY <1>0, <2>1
<1>2. ASSUME RestartNode(n) PROVE begun'[n][m] = 0 /\ asked'[n][m] = Absent
  <2>1. /\ begun' = [begun EXCEPT ![n] = [x \in Peer |-> 0]]
        /\ asked' = [asked EXCEPT ![n] = [x \in Peer |-> Absent]]
    BY <1>2 DEF RestartNode
  <2>2. QED
    BY <1>0, <2>1
<1>3. ASSUME NEW l \in Link, RecvHello(m, n, l) PROVE known'[n][m] = TRUE
  <2>1. known' = [known EXCEPT ![n][m] = TRUE]
    BY <1>3 DEF RecvHello
  <2>2. QED
    BY <1>0, <2>1
<1>4. ASSUME NEW l \in Link, RecvInit(m, n, l)
      PROVE  key'[n][m] = Shared(nextKeyPair, Got(m, n, l).eph)
  <2>1. key' = [key EXCEPT ![n][m] = Shared(nextKeyPair, Got(m, n, l).eph)]
    BY <1>4 DEF RecvInit
  <2>2. QED
    BY <1>0, <2>1
<1>5. QED
  BY <1>1, <1>2, <1>3, <1>4

LEMMA RolesStep ==
    ASSUME Types, Roles, [SecretNext]_secretVars, ~Overlap PROVE Roles'
<1>1. ASSUME NEW r \in Peer, NEW s \in Peer
      PROVE  /\ begun[r][s] \in Nat /\ asked[r][s] \in Ephs /\ Absent = 0 /\ Absent \notin KeyPair
             /\ replying[r][s] # Absent => Lower(s, r)
             /\ begun[r][s] # 0 =>
                  key[r][s] = NoKey /\ asked[r][s] = Absent /\ begun[r][s] = 1
             /\ begun[r][s] # 0 \/ asked[r][s] # Absent => Lower(r, s) /\ known[r][s]
  BY Numbers DEF Roles, Types, SecretTypeOK, Ephs
<1>2. ASSUME NEW r \in Peer, NEW s \in Peer, NEW l \in Link, NEW e \in KeyPair,
             Carries(r, s, l, "Init", e)'
      PROVE  Lower(r, s)
  <2>1. CASE Carries(r, s, l, "Init", e)
    BY <2>1 DEF Roles
  <2>2. CASE SendInit(r, s)
    <3>1. begun[r][s] > 0
      BY <2>2, SendInitOnly
    <3>2. begun[r][s] # 0
      BY <1>1, <3>1
    <3>3. QED
      BY <1>1, <3>2
  <2>3. QED
    BY <1>2, <2>1, <2>2, CarriesStep
<1>3. ASSUME NEW r \in Peer, NEW s \in Peer, NEW l \in Link, NEW e \in KeyPair,
             Carries(r, s, l, "Resp", e)'
      PROVE  Lower(s, r)
  <2>1. CASE Carries(r, s, l, "Resp", e)
    BY <2>1 DEF Roles
  <2>2. CASE SendResp(r, s)
    BY <1>1, <2>2, SendRespOnly
  <2>3. QED
    BY <1>3, <2>1, <2>2, CarriesStep
<1>4. ASSUME NEW r \in Peer, NEW s \in Peer, replying'[r][s] # Absent
      PROVE  Lower(s, r)
  <2>1. ASSUME NEW l \in Link, RecvInit(s, r, l) PROVE Lower(s, r)
    <3>1. Got(s, r, l).eph \in KeyPair /\ Carries(s, r, l, "Init", Got(s, r, l).eph)
      BY <2>1, RecvInitOnly
    <3>2. QED
      BY <3>1 DEF Roles
  <2>2. QED
    BY <1>1, <1>4, <2>1, ReplyingStep
<1>5. ASSUME NEW r \in Peer, NEW s \in Peer, begun'[r][s] # 0
      PROVE  /\ key'[r][s] = NoKey /\ asked'[r][s] = Absent /\ begun'[r][s] = 1
             /\ Lower(r, s) /\ known'[r][s]
  <2>1. ~RestartNode(r)
    BY <1>5, Entries
  <2>2. ~SendInit(r, s)
    <3>1. ASSUME SendInit(r, s) PROVE FALSE
      <4>1. begun[r][s] > 0 /\ begun'[r][s] = begun[r][s] - 1
        BY <3>1, SendInitOnly, Entries
      <4>2. begun[r][s] = 1
        BY <1>1, <4>1
      <4>3. QED
        BY <1>5, <4>1, <4>2
    <3>2. QED
      BY <3>1
  <2>3. CASE \E l \in Link : /\ RecvHello(s, r, l) /\ MayStart(r, s)
                             /\ begun'[r][s] = begun[r][s] + 1
    <3>1. PICK l \in Link : /\ RecvHello(s, r, l) /\ MayStart(r, s)
                            /\ begun'[r][s] = begun[r][s] + 1
      BY <2>3
    <3>2. /\ Idle(r) /\ key' = key /\ asked' = asked /\ known'[r][s] = TRUE
      BY <3>1, RecvHelloOnly, Entries
    <3>3. begun'[r][s] = 1
      BY <3>1, <3>2, AtRest
    <3>4. QED
      BY <3>1, <3>2, <3>3 DEF MayStart
  <2>4. CASE begun'[r][s] = begun[r][s]
    <3>1. /\ key[r][s] = NoKey /\ asked[r][s] = Absent /\ begun[r][s] = 1
          /\ Lower(r, s) /\ known[r][s]
      BY <1>1, <1>5, <2>4
    <3>2. ~Idle(r)
      BY <1>5, <2>4, AtRest
    <3>3. key'[r][s] = NoKey
      BY <3>1, <3>2, KeyStep, RecvInitOnly, RecvRespOnly
    <3>4. asked'[r][s] = Absent
      BY <2>2, <3>1, <3>2, PendingStep, RecvInitOnly
    <3>5. known'[r][s]
      BY <2>1, <3>1, KnownStep
    <3>6. QED
      BY <2>4, <3>1, <3>3, <3>4, <3>5
  <2>5. QED
    BY <2>1, <2>2, <2>3, <2>4, StartingStep
<1>6. ASSUME NEW r \in Peer, NEW s \in Peer, asked'[r][s] # Absent
      PROVE  Lower(r, s) /\ known'[r][s]
  <2>1. ~RestartNode(r)
    BY <1>6, Entries
  <2>2. known[r][s] => known'[r][s]
    BY <2>1, KnownStep
  <2>3. CASE SendInit(r, s)
    <3>1. begun[r][s] > 0
      BY <2>3, SendInitOnly
    <3>2. begun[r][s] # 0
      BY <1>1, <3>1
    <3>3. QED
      BY <1>1, <2>2, <3>2
  <2>4. CASE asked'[r][s] = asked[r][s]
    BY <1>1, <1>6, <2>2, <2>4
  <2>5. QED
    BY <1>6, <2>3, <2>4, PendingStep
<1>7. QED
  BY <1>2, <1>3, <1>4, <1>5, <1>6 DEF Roles

-----------------------------------------------------------------------------
(* The exchange.                                                            *)

(* n is waiting for an answer to what it has asked over their connection.   *)
Asked ==
    \A n, m \in Peer : \A l \in up[n][m] \intersect up[m][n], e \in KeyPair :
        Carries(n, m, l, "Init", e) =>
            /\ route[n][m] = l
            /\ key[n][m] = NoKey => asked[n][m] = e

(* m's answer to n over l, sent or about to be.                             *)
Answer(m, n, l, f) ==
    \/ Carries(m, n, l, "Resp", f)
    \/ replying[m][n] = f /\ route[m][n] = l

(* It answers what n has asked last: m holds its key as long as it has the   *)
(* connection, and no other question can reach m.                           *)
Current(n, m, l, f) ==
    /\ route[n][m] = l
    /\ \A k \in up[m][n] \ {l}, e \in KeyPair : ~Carries(n, m, k, "Init", e)
    /\ l \in up[m][n] => route[m][n] = l /\ key[m][n] # NoKey
    /\ l \notin up[m][n] => key[m][n] = NoKey
    /\ key[n][m] = NoKey =>
         /\ asked[n][m] # Absent /\ asked[n][m] # f
         /\ key[m][n] # NoKey => key[m][n] = Shared(asked[n][m], f)

Answered ==
    \A n, m \in Peer : \A l \in up[n][m], f \in KeyPair :
        Answer(m, n, l, f) => Current(n, m, l, f)

(* Who holds a key has had its questions answered.                          *)
Keyed ==
    \A n, m \in Peer : key[n][m] # NoKey => \A l \in up[m][n], e \in KeyPair :
        Carries(n, m, l, "Init", e) => key[m][n] # NoKey /\ route[m][n] = l

Exchange == Types /\ Layout /\ Roles /\ Asked /\ Answered /\ Keyed /\ KeyAgreement

LEMMA DropUp ==
    ASSUME Types, NEW x \in Peer, NEW y \in Peer, Drop(x, y)
    PROVE  up'[x][y] \subseteq up[x][y] /\ route[x][y] \notin up'[x][y]
<1>1. CASE DisconnectPeer(x, y)
  <2>1. up' = [up EXCEPT ![x][y] = up[x][y] \ {route[x][y]}]
    BY <1>1 DEF DisconnectPeer
  <2>2. QED
    BY <2>1 DEF Types, SecretTypeOK
<1>2. CASE RestartNode(x)
  <2>1. up' = [up EXCEPT ![x] = [m \in Peer |-> {}]]
    BY <1>2 DEF RestartNode
  <2>2. QED
    BY <2>1 DEF Types, SecretTypeOK
<1>3. QED
  BY <1>1, <1>2 DEF Drop

LEMMA CarriedOld ==
    ASSUME Types, Layout, NEW x \in Peer, NEW y \in Peer, NEW k \in Link,
           NEW kind, NEW e, Carries(x, y, k, kind, e)
    PROVE  frames[x][y][k] # <<>> /\ k <= links
<1>1. frames[x][y][k] # <<>>
  BY HasNone DEF Carries
<1>2. ~(k > links)
  BY <1>1 DEF Layout, Dealing
<1>3. QED
  BY <1>1, <1>2, Linked

LEMMA UpOld ==
    ASSUME Types, [SecretNext]_secretVars, NEW x \in Peer, NEW y \in Peer, NEW l \in Link, l <= links
    PROVE  /\ l \in up'[x][y] => l \in up[x][y]
           /\ ~Drop(x, y) /\ l \in up[x][y] => l \in up'[x][y]
<1>1. l # links + 1
  BY Linked
<1>2. QED
  BY <1>1, UpStep

(* A route stays while the connection is up at both ends, or while something *)
(* is to be heard over it.                                                  *)
LEMMA RouteKept ==
    ASSUME Types, Layout, [SecretNext]_secretVars, Ordered, ~Overlap,
           NEW x \in Peer, NEW y \in Peer, NEW l \in Link,
           l \in up'[x][y], route[x][y] = l, l \in up[y][x] \/ frames[y][x][l] # <<>>
    PROVE  route'[x][y] = l
<1>1. ~Drop(x, y)
  BY DropUp
<1>2. route[x][y] # Absent
  BY Numbers
<1>3. l \in up[x][y]
  BY <1>2 DEF Layout, Dealing
<1>4. ASSUME NEW h \in Link, RecvHello(y, x, h) PROVE h = l
  <2>1. InFlight(y, x, h) /\ h \in up[x][y] /\ frames[y][x][h] # <<>>
    BY <1>4, RecvHelloOnly
  <2>2. ~(h < l)
    BY <2>1 DEF Layout, Heard
  <2>3. ~(l < h)
    <3>1. ASSUME l < h PROVE FALSE
      <4>1. frames[y][x][l] = <<>>
        BY <2>1, <3>1 DEF InFlight
      <4>2. l \notin up[y][x]
        BY <1>3, <2>1, <3>1 DEF Layout, Common
      <4>3. QED
        BY <4>1, <4>2
    <3>2. QED
      BY <3>1
  <2>4. h \in Nat /\ l \in Nat
    BY Linked
  <2>5. QED
    BY <2>2, <2>3, <2>4
<1>5. QED
  BY <1>1, <1>4, RouteStep

LEMMA KeyGone ==
    ASSUME Types, [SecretNext]_secretVars, NEW x \in Peer, NEW y \in Peer,
           key'[x][y] = NoKey, ~Drop(x, y)
    PROVE  key[x][y] = NoKey
<1>1. ASSUME NEW l \in Link, RecvInit(y, x, l), key'[x][y] = Shared(nextKeyPair, Got(y, x, l).eph)
      PROVE  FALSE
  BY <1>1, RecvInitOnly, Sharing
<1>2. ASSUME NEW l \in Link, RecvResp(y, x, l), Made(x, y),
             key'[x][y] = Shared(asked[x][y], Got(y, x, l).eph)
      PROVE  FALSE
  <2>1. asked[x][y] \in KeyPair
    BY <1>2 DEF Made, Types, SecretTypeOK
  <2>2. QED
    BY <1>2, <2>1, RecvRespOnly, Sharing
<1>3. QED
  BY <1>1, <1>2, KeyStep

LEMMA PendingKept ==
    ASSUME Types, Roles, [SecretNext]_secretVars, ~Overlap, NEW x \in Peer, NEW y \in Peer,
           asked[x][y] # Absent, key'[x][y] = NoKey, ~Drop(x, y)
    PROVE  asked'[x][y] = asked[x][y]
<1>1. Lower(x, y) /\ known[x][y] /\ begun[x][y] = 0
  BY DEF Roles
<1>2. ~SendInit(x, y)
  BY <1>1, SendInitOnly
<1>3. ASSUME NEW l \in Link, RecvInit(y, x, l) \/ RecvInitIgnored(y, x, l) PROVE FALSE
  <2>1. Got(y, x, l).eph \in KeyPair /\ Carries(y, x, l, "Init", Got(y, x, l).eph)
    BY <1>3, RecvInitOnly
  <2>2. Lower(y, x)
    BY <2>1 DEF Roles
  <2>3. QED
    BY <1>1, <2>2, Ranks
<1>4. ASSUME NEW l \in Link, RecvResp(y, x, l), key[x][y] = NoKey PROVE FALSE
  <2>1. Made(x, y)
    BY <1>1, <1>4 DEF Made
  <2>2. asked[x][y] \in KeyPair
    BY DEF Types, SecretTypeOK
  <2>3. QED
    BY <1>4, <2>1, <2>2, RecvRespOnly, Sharing
<1>5. QED
  BY <1>2, <1>3, <1>4, PendingStep

LEMMA AskedStep ==
    ASSUME Exchange, [SecretNext]_secretVars, Ordered, ~Overlap PROVE Asked'
<1>0. Types /\ Layout /\ Roles
  BY DEF Exchange
<1>1. SUFFICES ASSUME NEW n \in Peer, NEW m \in Peer,
                      NEW l \in up'[n][m] \intersect up'[m][n], NEW e \in KeyPair,
                      Carries(n, m, l, "Init", e)'
               PROVE  route'[n][m] = l /\ (key'[n][m] = NoKey => asked'[n][m] = e)
  BY DEF Asked
<1>2. l \in Link
  BY <1>0, TypesKeep DEF SecretTypeOK
<1>3. CASE SendInit(n, m) /\ e = nextKeyPair /\ l = route[n][m]
  BY <1>0, <1>3, SendInitOnly, Entries
<1>4. CASE Carries(n, m, l, "Init", e)
  <2>1. l <= links
    BY <1>0, <1>2, <1>4, CarriedOld
  <2>2. l \in up[n][m] /\ l \in up[m][n]
    BY <1>0, <1>2, <2>1, UpOld
  <2>3. route[n][m] = l /\ (key[n][m] = NoKey => asked[n][m] = e)
    BY <1>4, <2>2 DEF Exchange, Asked
  <2>4. route'[n][m] = l
    BY <1>0, <1>2, <2>2, <2>3, RouteKept
  <2>5. ~Drop(n, m)
    BY <1>0, <2>3, DropUp
  <2>6. ASSUME key'[n][m] = NoKey PROVE asked'[n][m] = e
    <3>1. key[n][m] = NoKey
      BY <1>0, <2>5, <2>6, KeyGone
    <3>2. asked[n][m] = e /\ asked[n][m] # Absent
      BY <2>3, <3>1, Numbers
    <3>3. QED
      BY <1>0, <2>5, <2>6, <3>2, PendingKept
  <2>7. QED
    BY <2>4, <2>6
<1>5. QED
  BY <1>0, <1>1, <1>2, <1>3, <1>4, CarriesStep

(* An answer is there already or m begins it now, over its route.            *)
LEMMA AnswerFrom ==
    ASSUME Exchange, [SecretNext]_secretVars, Ordered, ~Overlap,
           NEW n \in Peer, NEW m \in Peer, NEW l \in Link, NEW f \in KeyPair,
           Answer(m, n, l, f)'
    PROVE  \/ Answer(m, n, l, f)
           \/ f = nextKeyPair /\ route[m][n] = l /\ \E h \in Link : RecvInit(n, m, h)
<1>0. Types /\ f # Absent
  BY Numbers DEF Exchange
<1>1. CASE Carries(m, n, l, "Resp", f)'
  BY <1>0, <1>1, CarriesStep DEF Answer
<1>2. CASE replying'[m][n] = f /\ route'[m][n] = l
  <2>1. CASE replying'[m][n] = replying[m][n]
    <3>1. replying[m][n] # Absent
      BY <1>0, <1>2, <2>1
    <3>2. \A h \in Link : ~RecvHello(n, m, h)
      BY <1>0, <3>1, RecvHelloOnly, AtRest
    <3>3. l # Absent
      BY Numbers
    <3>4. route'[m][n] = route[m][n]
      BY <1>0, <1>2, <3>2, <3>3, RouteStep
    <3>5. QED
      BY <1>2, <2>1, <3>4 DEF Answer
  <2>2. CASE \E h \in Link : RecvInit(n, m, h) /\ replying'[m][n] = nextKeyPair
    <3>1. PICK h \in Link : RecvInit(n, m, h) /\ replying'[m][n] = nextKeyPair
      BY <2>2
    <3>2. route' = route
      BY <1>0, <3>1, RecvInitOnly
    <3>3. QED
      BY <1>2, <3>1, <3>2
  <2>3. QED
    BY <1>0, <1>2, <2>1, <2>2, ReplyingStep
<1>3. QED
  BY <1>1, <1>2 DEF Answer

(* The question m takes up is the last of n, and it came over the route.     *)
LEMMA NewAnswer ==
    ASSUME Exchange, [SecretNext]_secretVars, Ordered, ~Overlap,
           NEW n \in Peer, NEW m \in Peer, NEW l \in up'[n][m], NEW h \in Link,
           RecvInit(n, m, h), route[m][n] = l, NEW f \in KeyPair, f = nextKeyPair
    PROVE  Current(n, m, l, f)'
<1>0. Types /\ Layout /\ Roles
  BY DEF Exchange
<1>1. l \in Link
  BY <1>0, TypesKeep DEF SecretTypeOK
<1>2. PICK e \in KeyPair : e = Got(n, m, h).eph /\ Carries(n, m, h, "Init", e)
  BY <1>0, RecvInitOnly
<1>3. /\ h \in up[m][n] /\ frames[n][m][h] # <<>> /\ n # m
      /\ Head(frames[n][m][h]).kind = "Init"
      /\ up' = up /\ route' = route /\ nextKeyPair \in KeyPair
      /\ key[m][n] = NoKey /\ key'[n][m] = key[n][m] /\ asked'[n][m] = asked[n][m]
  BY <1>0, RecvInitOnly
<1>4. key'[m][n] = Shared(nextKeyPair, e)
  BY <1>0, <1>2, Entries
<1>5. h = l
  <2>1. ~HelloFirst(n, m, h)
    BY <1>3 DEF HelloFirst
  <2>2. route[m][n] = h
    BY <1>3, <2>1 DEF Exchange, Layout, Heard
  <2>3. QED
    BY <2>2
<1>6. l \in up[n][m] /\ l \in up[m][n]
  BY <1>3, <1>5
<1>7. route[n][m] = l /\ (key[n][m] = NoKey => asked[n][m] = e)
  BY <1>2, <1>5, <1>6 DEF Exchange, Asked
<1>8. ASSUME NEW k \in up'[m][n] \ {l}, NEW d \in KeyPair, Carries(n, m, k, "Init", d)'
      PROVE  FALSE
  <2>1. k \in up[m][n] /\ k \in Link /\ k # l
    BY <1>0, <1>3 DEF Types, SecretTypeOK
  <2>2. ~SendInit(n, m)
    <3>1. ASSUME SendInit(n, m) PROVE FALSE
      <4>1. key' = key
        BY <3>1, SendInitOnly
      <4>2. QED
        BY <1>3, <1>4, <4>1, Sharing
    <3>2. QED
      BY <3>1
  <2>3. Carries(n, m, k, "Init", d)
    BY <1>0, <1>8, <2>1, <2>2, CarriesStep
  <2>4. frames[n][m][k] # <<>>
    BY <1>0, <2>1, <2>3, CarriedOld
  <2>5. ~(l < k)
    BY <1>6, <2>1 DEF Exchange, Layout, Common
  <2>6. ~(k < l)
    BY <2>1, <2>4 DEF Exchange, Layout, Heard
  <2>7. QED
    BY <1>0, <1>1, <2>1, <2>5, <2>6, Linked
<1>9. key'[m][n] # NoKey
  BY <1>3, <1>4, Sharing
<1>10. ASSUME key'[n][m] = NoKey
       PROVE  /\ asked'[n][m] # Absent /\ asked'[n][m] # f
              /\ key'[m][n] = Shared(asked'[n][m], f)
  <2>1. asked'[n][m] = e
    BY <1>3, <1>7, <1>10
  <2>2. e # nextKeyPair
    <3>1. asked[n][m] < nextKeyPair
      BY <1>0 DEF Types, Drawn
    <3>2. QED
      BY <1>3, <2>1, <3>1, Numbers
  <2>3. QED
    BY <1>3, <1>4, <2>1, <2>2, Numbers, Sharing
<1>11. QED
  BY <1>3, <1>6, <1>7, <1>8, <1>9, <1>10 DEF Current

LEMMA OldAnswer ==
    ASSUME Exchange, [SecretNext]_secretVars, Ordered, ~Overlap,
           NEW n \in Peer, NEW m \in Peer, NEW l \in up'[n][m], NEW f \in KeyPair,
           Answer(m, n, l, f)
    PROVE  Current(n, m, l, f)'
<1>0. Types /\ Layout /\ Roles
  BY DEF Exchange
<1>1. l \in Link /\ f # Absent /\ l # Absent
  <2>1. l \in Link
    BY <1>0, TypesKeep DEF SecretTypeOK
  <2>2. QED
    BY <2>1, Numbers
<1>2. /\ Lower(n, m) /\ l <= links
      /\ l \in up[m][n] \/ frames[m][n][l] # <<>>
  <2>1. CASE Carries(m, n, l, "Resp", f)
    BY <1>0, <1>1, <2>1, CarriedOld DEF Roles
  <2>2. CASE replying[m][n] = f /\ route[m][n] = l
    <3>1. Lower(n, m) /\ l \in up[m][n]
      BY <1>0, <1>1, <2>2 DEF Roles, Layout, Dealing
    <3>2. ~(l > links)
      BY <1>0, <1>1, <3>1 DEF Layout, Dealing
    <3>3. QED
      BY <1>0, <1>1, <3>1, <3>2, Linked
  <2>3. QED
    BY <2>1, <2>2 DEF Answer
<1>3. l \in up[n][m]
  BY <1>0, <1>1, <1>2, UpOld
<1>4. /\ route[n][m] = l
      /\ \A k \in up[m][n] \ {l}, e \in KeyPair : ~Carries(n, m, k, "Init", e)
      /\ l \in up[m][n] => route[m][n] = l /\ key[m][n] # NoKey
      /\ l \notin up[m][n] => key[m][n] = NoKey
      /\ key[n][m] = NoKey =>
           /\ asked[n][m] # Absent /\ asked[n][m] # f
           /\ key[m][n] # NoKey => key[m][n] = Shared(asked[n][m], f)
  BY <1>3 DEF Exchange, Answered, Current
<1>5. route'[n][m] = l /\ ~Drop(n, m)
  <2>1. ~Drop(n, m)
    BY <1>0, <1>4, DropUp
  <2>2. QED
    BY <1>0, <1>1, <1>2, <1>4, <2>1, RouteKept
<1>6. key'[m][n] = key[m][n] \/ (Drop(m, n) /\ key'[m][n] = NoKey)
  <2>1. ASSUME NEW h \in Link, RecvInit(n, m, h) PROVE FALSE
    <3>1. /\ h \in up[m][n] /\ key[m][n] = NoKey
          /\ \E e \in KeyPair : Carries(n, m, h, "Init", e)
      BY <1>0, <2>1, RecvInitOnly
    <3>2. QED
      BY <1>4, <3>1
  <2>2. ASSUME NEW h \in Link, RecvResp(n, m, h) PROVE FALSE
    <3>1. Got(n, m, h).eph \in KeyPair /\ Carries(n, m, h, "Resp", Got(n, m, h).eph)
      BY <1>0, <2>2, RecvRespOnly
    <3>2. Lower(m, n)
      BY <1>0, <3>1 DEF Roles
    <3>3. QED
      BY <1>2, <3>2, Ranks
  <2>3. QED
    BY <1>0, <2>1, <2>2, KeyStep
<1>7. ASSUME NEW k \in up'[m][n] \ {l}, NEW e \in KeyPair, Carries(n, m, k, "Init", e)'
      PROVE  FALSE
  <2>1. k \in Link /\ k # l
    BY <1>0, TypesKeep DEF SecretTypeOK
  <2>2. CASE Carries(n, m, k, "Init", e)
    <3>1. k <= links
      BY <1>0, <2>1, <2>2, CarriedOld
    <3>2. k \in up[m][n]
      BY <1>0, <1>7, <2>1, <3>1, UpOld
    <3>3. QED
      BY <1>4, <2>1, <2>2, <3>2
  <2>3. CASE k = route[n][m]
    BY <1>4, <2>1, <2>3
  <2>4. QED
    BY <1>0, <1>7, <2>1, <2>2, <2>3, CarriesStep
<1>8. ASSUME l \in up'[m][n] PROVE route'[m][n] = l /\ key'[m][n] # NoKey
  <2>1. l \in up[m][n]
    BY <1>0, <1>1, <1>2, <1>8, UpOld
  <2>2. route[m][n] = l /\ key[m][n] # NoKey
    BY <1>4, <2>1
  <2>3. ~Drop(m, n)
    BY <1>0, <1>8, <2>2, DropUp
  <2>4. route'[m][n] = l
    BY <1>0, <1>1, <1>3, <1>8, <2>2, RouteKept
  <2>5. QED
    BY <1>6, <2>2, <2>3, <2>4
<1>9. ASSUME l \notin up'[m][n] PROVE key'[m][n] = NoKey
  <2>1. CASE Drop(m, n)
    BY <1>0, <2>1, DropOnly
  <2>2. CASE ~Drop(m, n)
    <3>1. l \notin up[m][n]
      BY <1>0, <1>1, <1>2, <1>9, <2>2, UpOld
    <3>2. QED
      BY <1>4, <1>6, <3>1
  <2>3. QED
    BY <2>1, <2>2
<1>10. ASSUME key'[n][m] = NoKey
       PROVE  /\ asked'[n][m] # Absent /\ asked'[n][m] # f
              /\ key'[m][n] # NoKey => key'[m][n] = Shared(asked'[n][m], f)
  <2>1. key[n][m] = NoKey
    BY <1>0, <1>5, <1>10, KeyGone
  <2>2. asked[n][m] # Absent
    BY <1>4, <2>1
  <2>3. asked'[n][m] = asked[n][m]
    BY <1>0, <1>5, <1>10, <2>2, PendingKept
  <2>4. key'[m][n] # NoKey => key'[m][n] = key[m][n]
    BY <1>6
  <2>5. QED
    BY <1>4, <2>1, <2>3, <2>4
<1>11. QED
  BY <1>5, <1>7, <1>8, <1>9, <1>10 DEF Current

LEMMA AnsweredStep ==
    ASSUME Exchange, [SecretNext]_secretVars, Ordered, ~Overlap PROVE Answered'
<1>1. SUFFICES ASSUME NEW n \in Peer, NEW m \in Peer, NEW l \in up'[n][m], NEW f \in KeyPair,
                      Answer(m, n, l, f)'
               PROVE  Current(n, m, l, f)'
  BY DEF Answered
<1>2. l \in Link
  BY TypesKeep DEF Exchange, SecretTypeOK
<1>3. CASE Answer(m, n, l, f)
  BY <1>3, OldAnswer
<1>4. CASE f = nextKeyPair /\ route[m][n] = l /\ \E h \in Link : RecvInit(n, m, h)
  <2>1. PICK h \in Link : RecvInit(n, m, h)
    BY <1>4
  <2>2. QED
    BY <1>4, <2>1, NewAnswer
<1>5. QED
  BY <1>1, <1>2, <1>3, <1>4, AnswerFrom

LEMMA KeyedStep ==
    ASSUME Exchange, [SecretNext]_secretVars, Ordered, ~Overlap PROVE Keyed'
<1>0. Types /\ Layout /\ Roles
  BY DEF Exchange
<1>1. SUFFICES ASSUME NEW n \in Peer, NEW m \in Peer, key'[n][m] # NoKey,
                      NEW l \in up'[m][n], NEW e \in KeyPair, Carries(n, m, l, "Init", e)'
               PROVE  key'[m][n] # NoKey /\ route'[m][n] = l
  BY DEF Keyed
<1>2. l \in Link
  BY <1>0, TypesKeep DEF SecretTypeOK
<1>3. CASE SendInit(n, m)
  <2>1. begun[n][m] # 0 /\ key' = key
    BY <1>3, SendInitOnly
  <2>2. key[n][m] = NoKey
    BY <1>0, <2>1 DEF Roles
  <2>3. QED
    BY <1>1, <2>1, <2>2
<1>4. CASE Carries(n, m, l, "Init", e)
  <2>1. l <= links /\ frames[n][m][l] # <<>>
    BY <1>0, <1>2, <1>4, CarriedOld
  <2>2. l \in up[m][n]
    BY <1>0, <1>2, <2>1, UpOld
  <2>3. key[m][n] # NoKey /\ route[m][n] = l
    <3>1. CASE key'[n][m] = key[n][m]
      BY <1>1, <1>4, <2>2, <3>1 DEF Exchange, Keyed
    <3>2. ASSUME NEW h \in Link, RecvInit(m, n, h) PROVE FALSE
      <4>1. Got(m, n, h).eph \in KeyPair /\ Carries(m, n, h, "Init", Got(m, n, h).eph)
        BY <1>0, <3>2, RecvInitOnly
      <4>2. Lower(m, n) /\ Lower(n, m)
        BY <1>0, <1>2, <1>4, <4>1 DEF Roles
      <4>3. QED
        BY <4>2, Ranks
    <3>3. ASSUME NEW h \in Link, RecvResp(m, n, h)
          PROVE  key[m][n] # NoKey /\ route[m][n] = l
      <4>1. PICK f \in KeyPair : Carries(m, n, h, "Resp", f)
        BY <1>0, <3>3, RecvRespOnly
      <4>2. h \in up[n][m]
        BY <1>0, <3>3, RecvRespOnly
      <4>3. Current(n, m, h, f)
        BY <4>1, <4>2 DEF Exchange, Answered, Answer
      <4>4. h = l
        BY <1>4, <2>2, <4>3 DEF Current
      <4>5. QED
        BY <2>2, <4>3, <4>4 DEF Current
    <3>4. QED
      BY <1>0, <1>1, <3>1, <3>2, <3>3, KeyStep, DropOnly
  <2>4. ~Drop(m, n)
    BY <1>0, <2>3, DropUp
  <2>5. key'[m][n] # NoKey
    BY <1>0, <2>3, <2>4, KeyGone
  <2>6. route'[m][n] = l
    BY <1>0, <1>2, <2>1, <2>3, RouteKept
  <2>7. QED
    BY <2>5, <2>6
<1>5. QED
  BY <1>0, <1>1, <1>2, <1>3, <1>4, CarriesStep

(* A new key is the one the other side holds.                               *)
LEMMA NewKey ==
    ASSUME Exchange, [SecretNext]_secretVars, Ordered, ~Overlap, NEW n \in Peer, NEW m \in Peer,
           NEW h \in Link, RecvInit(m, n, h) \/ (RecvResp(m, n, h) /\ Made(n, m)),
           key'[m][n] # NoKey
    PROVE  key'[n][m] = key'[m][n]
<1>0. Types /\ Layout /\ Roles
  BY DEF Exchange
<1>1. CASE RecvInit(m, n, h)
  <2>1. /\ h \in up[n][m] /\ key[n][m] = NoKey /\ key'[m][n] = key[m][n]
        /\ Got(m, n, h).eph \in KeyPair /\ Carries(m, n, h, "Init", Got(m, n, h).eph)
    BY <1>0, <1>1, RecvInitOnly
  <2>2. key[n][m] # NoKey
    BY <2>1 DEF Exchange, Keyed
  <2>3. QED
    BY <2>1, <2>2
<1>2. CASE RecvResp(m, n, h) /\ Made(n, m)
  <2>1. PICK f \in KeyPair : /\ Carries(m, n, h, "Resp", f)
                         /\ key'[n][m] = Shared(asked[n][m], f)
    BY <1>0, <1>2, RecvRespOnly
  <2>2. h \in up[n][m] /\ key'[m][n] = key[m][n] /\ key[n][m] = NoKey
    BY <1>0, <1>2, RecvRespOnly DEF Made
  <2>3. Current(n, m, h, f)
    BY <2>1, <2>2 DEF Exchange, Answered, Answer
  <2>4. key[m][n] = Shared(asked[n][m], f)
    BY <2>2, <2>3 DEF Current
  <2>5. QED
    BY <2>1, <2>2, <2>4
<1>3. QED
  BY <1>1, <1>2

LEMMA AgreementStep ==
    ASSUME Exchange, [SecretNext]_secretVars, Ordered, ~Overlap PROVE KeyAgreement'
<1>0. Types
  BY DEF Exchange
<1>1. SUFFICES ASSUME NEW n \in Peer, NEW m \in Peer,
                      key'[n][m] # NoKey, key'[m][n] # NoKey
               PROVE  key'[n][m] = key'[m][n]
  BY DEF KeyAgreement
<1>2. ASSUME NEW x \in Peer, NEW y \in Peer, key'[x][y] # NoKey
      PROVE  \/ key'[x][y] = key[x][y]
             \/ \E h \in Link : RecvInit(y, x, h) \/ (RecvResp(y, x, h) /\ Made(x, y))
  BY <1>0, <1>2, KeyStep
<1>3. CASE key'[n][m] = key[n][m] /\ key'[m][n] = key[m][n]
  BY <1>1, <1>3 DEF Exchange, KeyAgreement
<1>4. CASE \E h \in Link : RecvInit(m, n, h) \/ (RecvResp(m, n, h) /\ Made(n, m))
  BY <1>1, <1>4, NewKey
<1>5. CASE \E h \in Link : RecvInit(n, m, h) \/ (RecvResp(n, m, h) /\ Made(m, n))
  BY <1>1, <1>5, NewKey
<1>6. QED
  BY <1>1, <1>2, <1>3, <1>4, <1>5

LEMMA ExchangeStep ==
    ASSUME Exchange, [SecretNext]_secretVars, Ordered, ~Overlap PROVE Exchange'
<1>1. Types /\ Layout /\ Roles
  BY DEF Exchange
<1>2. Types' /\ Layout' /\ Roles'
  BY <1>1, TypesStep, LayoutStep, RolesStep
<1>3. QED
  BY <1>2, AskedStep, AnsweredStep, KeyedStep, AgreementStep DEF Exchange

LEMMA ExchangeInit ==
    SecretInit => Exchange
<1> SUFFICES ASSUME SecretInit PROVE Exchange
  OBVIOUS
<1>1. \A n, m \in Peer :
         /\ up[n][m] = {} /\ begun[n][m] = 0 /\ replying[n][m] = Absent
         /\ asked[n][m] = Absent /\ key[n][m] = NoKey
         /\ \A l \in Link : frames[n][m][l] = <<>>
  BY DEF SecretInit, Table
<1>2. ASSUME NEW s \in Peer, NEW r \in Peer, NEW l \in Link, NEW kind, NEW e
      PROVE  ~Carries(s, r, l, kind, e)
  BY <1>1, HasNone DEF Carries
<1>3. Roles
  BY <1>1, <1>2, Zenon DEF Roles
<1>4. Asked /\ Answered /\ Keyed /\ KeyAgreement
  BY <1>1 DEF Asked, Answered, Keyed, KeyAgreement
<1>5. QED
  BY <1>3, <1>4, TypesInit, LayoutInit DEF Exchange

(* Two peers that both hold a key for their session hold the same one, over  *)
(* any number of reconnections and restarts (start_e2ee, handle_e2ee_init    *)
(* and handle_e2ee_resp).  It takes that one task receives and that what was *)
(* sent over an older connection does not arrive after what came later.      *)
THEOREM Agreement ==
    ASSUME Ordered, ~Overlap PROVE SecretSpec => []KeyAgreement
<1>1. Exchange /\ [SecretNext]_secretVars => Exchange'
  BY ExchangeStep
<1>2. Exchange => KeyAgreement
  BY DEF Exchange
<1>3. QED
  BY ExchangeInit, <1>1, <1>2, PTL DEF SecretSpec

-----------------------------------------------------------------------------
(* What is encrypted can be read.                                           *)

In(q, f) == \E i \in 1..Len(q) : q[i] = f

LEMMA InTail ==
    ASSUME NEW q \in Seq(Frame), q # <<>>, NEW f
    PROVE  In(Tail(q), f) => In(q, f)
<1>1. /\ Len(Tail(q)) = Len(q) - 1 /\ Len(q) \in Nat
      /\ \A i \in 1..Len(Tail(q)) : Tail(q)[i] = q[i + 1] /\ i + 1 \in 1..Len(q)
  OBVIOUS
<1>2. QED
  BY <1>1 DEF In

LEMMA InHead ==
    ASSUME NEW q \in Seq(Frame), q # <<>> PROVE In(q, Head(q))
<1>1. Head(q) = q[1] /\ 1 \in 1..Len(q)
  OBVIOUS
<1>2. QED
  BY <1>1 DEF In

LEMMA InMore ==
    ASSUME NEW q \in Seq(Frame), NEW fs \in Seq(Frame), NEW f, In(q \o fs, f)
    PROVE  In(q, f) \/ In(fs, f)
<1>1. /\ Len(q \o fs) = Len(q) + Len(fs) /\ Len(q) \in Nat /\ Len(fs) \in Nat
      /\ \A i \in 1..Len(q) : (q \o fs)[i] = q[i]
      /\ \A i \in 1..Len(fs) : (q \o fs)[Len(q) + i] = fs[i]
  OBVIOUS
<1>2. PICK i \in 1..Len(q \o fs) : (q \o fs)[i] = f
  BY DEF In
<1>3. CASE i \in 1..Len(q)
  BY <1>1, <1>2, <1>3 DEF In
<1>4. CASE i \notin 1..Len(q)
  <2>1. i - Len(q) \in 1..Len(fs) /\ Len(q) + (i - Len(q)) = i
    BY <1>1, <1>4
  <2>2. fs[i - Len(q)] = f
    BY <1>1, <1>2, <2>1
  <2>3. QED
    BY <2>1, <2>2 DEF In
<1>5. QED
  BY <1>3, <1>4

LEMMA InOne ==
    ASSUME NEW g, NEW f, In(<<g>>, f) PROVE f = g
BY DEF In

LEMMA InTwo ==
    ASSUME NEW g, NEW h, NEW f, In(<<g, h>>, f) PROVE f = g \/ f = h
<1>1. Len(<<g, h>>) = 2 /\ <<g, h>>[1] = g /\ <<g, h>>[2] = h /\ 1..2 = {1, 2}
  OBVIOUS
<1>2. QED
  BY <1>1 DEF In

LEMMA PostedTells ==
    ASSUME Types, NEW x \in Peer, NEW y \in Peer, NEW fs, Posted(x, y, fs), NEW f, In(fs, f)
    PROVE  /\ f.kind = "Ready" =>
                \/ SendResp(x, y)
                \/ \E l \in Link : RecvResp(y, x, l) /\ Made(x, y)
           /\ f.kind = "Enc" => Send(x, y) /\ Ready(x, y) /\ f.key = PayloadKey(x, y)
<1>0. Absent \in Ephs /\ replying[x][y] \in Ephs
  BY DEF Ephs, Types, SecretTypeOK
<1>1. CASE SendInit(x, y) /\ fs = <<Control("Init", nextKeyPair)>>
  <2>1. nextKeyPair \in Ephs
    BY <1>1 DEF SendInit, Ephs
  <2>2. f.kind = "Init"
    BY <1>1, <2>1, InOne, Controls DEF Kinds
  <2>3. QED
    BY <2>2
<1>2. CASE SendResp(x, y) /\ fs = <<Control("Resp", replying[x][y]), Control("Ready", Absent)>>
  <2>1. f = Control("Resp", replying[x][y]) \/ f = Control("Ready", Absent)
    BY <1>2, InTwo
  <2>2. f.kind = "Resp" \/ f.kind = "Ready"
    BY <1>0, <2>1, Controls DEF Kinds
  <2>3. QED
    BY <1>2, <2>2
<1>3. CASE \E l \in Link : RecvResp(y, x, l) /\ Made(x, y) /\ fs = <<Control("Ready", Absent)>>
  <2>1. f.kind = "Ready"
    BY <1>0, <1>3, InOne, Controls DEF Kinds
  <2>2. QED
    BY <1>3, <2>1
<1>4. CASE Send(x, y) /\ fs = <<IF Ready(x, y)
                  THEN [kind |-> "Enc", eph |-> Absent, key |-> PayloadKey(x, y)]
                  ELSE Control("Plain", Absent)>>
  <2>1. f = IF Ready(x, y) THEN [kind |-> "Enc", eph |-> Absent, key |-> PayloadKey(x, y)]
            ELSE Control("Plain", Absent)
    BY <1>4, InOne
  <2>2. CASE Ready(x, y)
    BY <1>4, <2>1, <2>2
  <2>3. CASE ~Ready(x, y)
    <3>1. f.kind = "Plain"
      BY <1>0, <2>1, <2>3, Controls DEF Kinds
    <3>2. QED
      BY <3>1
  <2>4. QED
    BY <2>2, <2>3
<1>5. QED
  BY <1>1, <1>2, <1>3, <1>4 DEF Posted

LEMMA FrameStep ==
    ASSUME Types, [SecretNext]_secretVars, NEW x \in Peer, NEW y \in Peer, NEW k \in Link, NEW f,
           In(frames'[x][y][k], f), f.kind # "Hello"
    PROVE  \/ In(frames[x][y][k], f)
           \/ /\ f.kind = "Ready" =>
                   \/ SendResp(x, y)
                   \/ \E l \in Link : RecvResp(y, x, l) /\ Made(x, y)
              /\ f.kind = "Enc" => Send(x, y) /\ Ready(x, y) /\ f.key = PayloadKey(x, y)
<1>0. PICK q \in Seq(Frame) : q = frames[x][y][k]
  BY Streams DEF Types
<1>1. CASE frames'[x][y][k] = frames[x][y][k]
  BY <1>1
<1>2. CASE frames[x][y][k] # <<>> /\ frames'[x][y][k] = Tail(frames[x][y][k])
  BY <1>0, <1>2, InTail
<1>3. ASSUME NEW fs, Posted(x, y, fs), frames'[x][y][k] = frames[x][y][k] \o fs
      PROVE  \/ In(frames[x][y][k], f)
             \/ /\ f.kind = "Ready" =>
                     \/ SendResp(x, y)
                     \/ \E l \in Link : RecvResp(y, x, l) /\ Made(x, y)
                /\ f.kind = "Enc" =>
                     Send(x, y) /\ Ready(x, y) /\ f.key = PayloadKey(x, y)
  <2>1. fs \in Seq(Frame)
    BY <1>3, PostedFrames
  <2>2. In(q \o fs, f)
    BY <1>0, <1>3
  <2>3. CASE In(q, f)
    BY <1>0, <2>3
  <2>4. CASE In(fs, f)
    BY <1>3, <2>4, PostedTells
  <2>5. QED
    BY <1>0, <2>1, <2>2, <2>3, <2>4, InMore
<1>4. CASE frames'[x][y][k] = <<Control("Hello", Absent)>>
  <2>1. f.kind = "Hello"
    BY <1>4, InOne, Controls DEF Kinds, Ephs
  <2>2. QED
    BY <2>1
<1>5. QED
  BY <1>1, <1>2, <1>3, <1>4, NetStep

(* Before anything goes down: who has a flag set, is about to answer, or has *)
(* told the other side that it is ready, holds a key; and what is encrypted  *)
(* is under a key that both sides hold.                                     *)
Reach ==
    drops = 0 =>
        /\ \A r, s \in Peer :
             /\ "local" \in ready[r][s] => key[r][s] # NoKey
             /\ "remote" \in ready[r][s] => key[s][r] # NoKey
             /\ replying[r][s] # Absent => key[r][s] # NoKey
             /\ \A l \in Link : \A f : In(frames[s][r][l], f) =>
                  /\ f.kind = "Ready" => key[s][r] # NoKey
                  /\ f.kind = "Enc" =>
                       f.key = key[s][r] /\ key[s][r] # NoKey /\ key[r][s] # NoKey
        /\ unread = {}

LEMMA KeyStays ==
    ASSUME Types, [SecretNext]_secretVars, drops' = 0, NEW x \in Peer, NEW y \in Peer
    PROVE  /\ drops = 0 /\ ~Drop(x, y)
           /\ key[x][y] # NoKey => key'[x][y] = key[x][y]
<1>1. drops = 0
  BY Growing
<1>2. ~Drop(x, y)
  BY <1>1, DropOnly
<1>3. key[x][y] # NoKey => key'[x][y] = key[x][y]
  BY <1>2, KeyStep, RecvInitOnly DEF Made
<1>4. QED
  BY <1>1, <1>2, <1>3

LEMMA ReadyStep ==
    ASSUME Types, [SecretNext]_secretVars, NEW x \in Peer, NEW y \in Peer
    PROVE  \/ ready'[x][y] = ready[x][y]
           \/ \E l \in Link : RecvInit(y, x, l) /\ ready'[x][y] = ready[x][y] \union {"local"}
           \/ \E l \in Link : /\ RecvResp(y, x, l) /\ Made(x, y)
                          /\ ready'[x][y] = ready[x][y] \union {"local"}
           \/ \E l \in Link : RecvReady(y, x, l) /\ ready'[x][y] = ready[x][y] \union {"remote"}
           \/ RestartNode(x) /\ ready'[x][y] = {}
<1>0. ready \in [Peer -> [Peer -> SUBSET Both]]
  BY DEF Types, SecretTypeOK
<1>1. CASE UNCHANGED secretVars
  BY <1>1 DEF secretVars, tables
<1>2. ASSUME NEW s \in Peer, NEW r \in Peer, NEW l \in Link, RecvInit(s, r, l)
      PROVE  \/ ready'[x][y] = ready[x][y]
             \/ RecvInit(y, x, l) /\ ready'[x][y] = ready[x][y] \union {"local"}
  <2>1. ready' = [ready EXCEPT ![r][s] = ready[r][s] \union {"local"}]
    BY <1>2 DEF RecvInit
  <2>2. CASE x = r /\ y = s
    <3>1. RecvInit(y, x, l)
      BY <1>2, <2>2
    <3>2. ready'[x][y] = ready[x][y] \/ (ready'[x][y] = ready[x][y] \union {"local"})
      BY <1>0, <2>1, <2>2
    <3>3. QED
      BY <3>1, <3>2
  <2>3. CASE ~(x = r /\ y = s)
    BY <1>0, <2>1, <2>3
  <2>4. QED
    BY <2>2, <2>3
<1>3. ASSUME NEW s \in Peer, NEW r \in Peer, NEW l \in Link, RecvResp(s, r, l)
      PROVE  \/ ready'[x][y] = ready[x][y]
             \/ RecvResp(y, x, l) /\ (Made(x, y) /\ ready'[x][y] = ready[x][y] \union {"local"})
  <2>1. ready' = IF Made(r, s) THEN [ready EXCEPT ![r][s] =
                             ready[r][s] \union {"local"}] ELSE ready
    BY <1>3 DEF RecvResp, Made
  <2>2. CASE x = r /\ y = s
    <3>1. RecvResp(y, x, l)
      BY <1>3, <2>2
    <3>2. ready'[x][y] = ready[x][y] \/ ((Made(x, y) /\ ready'[x][y] = ready[x][y] \union {"local"}))
      BY <1>0, <2>1, <2>2
    <3>3. QED
      BY <3>1, <3>2
  <2>3. CASE ~(x = r /\ y = s)
    BY <1>0, <2>1, <2>3
  <2>4. QED
    BY <2>2, <2>3
<1>4. ASSUME NEW s \in Peer, NEW r \in Peer, NEW l \in Link, RecvReady(s, r, l)
      PROVE  \/ ready'[x][y] = ready[x][y]
             \/ RecvReady(y, x, l) /\ ready'[x][y] = ready[x][y] \union {"remote"}
  <2>1. ready' = [ready EXCEPT ![r][s] = ready[r][s] \union {"remote"}]
    BY <1>4 DEF RecvReady
  <2>2. CASE x = r /\ y = s
    <3>1. RecvReady(y, x, l)
      BY <1>4, <2>2
    <3>2. ready'[x][y] = ready[x][y] \/ (ready'[x][y] = ready[x][y] \union {"remote"})
      BY <1>0, <2>1, <2>2
    <3>3. QED
      BY <3>1, <3>2
  <2>3. CASE ~(x = r /\ y = s)
    BY <1>0, <2>1, <2>3
  <2>4. QED
    BY <2>2, <2>3
<1>5. ASSUME NEW n \in Peer, RestartNode(n)
      PROVE  \/ ready'[x][y] = ready[x][y]
             \/ RestartNode(x) /\ ready'[x][y] = {}
  <2>1. ready' = [ready EXCEPT ![n] = [m \in Peer |-> {}]]
    BY <1>5 DEF RestartNode
  <2>2. CASE x = n
    <3>1. RestartNode(x)
      BY <1>5, <2>2
    <3>2. ready'[x][y] = ready[x][y] \/ (ready'[x][y] = {})
      BY <1>0, <2>1, <2>2
    <3>3. QED
      BY <3>1, <3>2
  <2>3. CASE x # n
    BY <1>0, <2>1, <2>3
  <2>4. QED
    BY <2>2, <2>3
<1>6. ASSUME NEW n \in Peer, NEW m \in Peer, Connect(n, m) \/ DisconnectPeer(n, m) \/ SendInit(n, m) \/ SendResp(n, m) \/ Send(n, m)
      PROVE  ready' = ready
  BY <1>6 DEF Connect, DisconnectPeer, SendInit, SendResp, Send, tables
<1>7. ASSUME NEW s \in Peer, NEW r \in Peer, NEW l \in Link,
             \/ RecvStray(s, r, l) \/ RecvHello(s, r, l) \/ RecvInitIgnored(s, r, l)
             \/ RecvPayload(s, r, l)
      PROVE  ready' = ready
  BY <1>7 DEF RecvStray, RecvHello, RecvInitIgnored, RecvPayload, tables
<1>8. QED
  BY <1>1, <1>2, <1>3, <1>4, <1>5, <1>6, <1>7, Steps DEF Drop

LEMMA NewlyKeyed ==
    ASSUME Types, [SecretNext]_secretVars, drops' = 0, NEW x \in Peer, NEW y \in Peer, NEW l \in Link,
           RecvInit(y, x, l) \/ (RecvResp(y, x, l) /\ Made(x, y))
    PROVE  key'[x][y] # NoKey
<1>1. CASE RecvInit(y, x, l)
  <2>1. nextKeyPair \in KeyPair /\ Got(y, x, l).eph \in KeyPair
    BY <1>1, RecvInitOnly
  <2>2. key'[x][y] = Shared(nextKeyPair, Got(y, x, l).eph)
    BY <1>1, Entries
  <2>3. QED
    BY <2>1, <2>2, Sharing
<1>2. CASE RecvResp(y, x, l) /\ Made(x, y)
  <2>1. asked[x][y] \in KeyPair
    BY <1>2 DEF Made, Types, SecretTypeOK
  <2>2. QED
    BY <1>2, <2>1, RecvRespOnly, Sharing
<1>3. QED
  BY <1>1, <1>2

LEMMA UnreadStep ==
    ASSUME [SecretNext]_secretVars
    PROVE  \/ unread' = unread
           \/ \E s, r \in Peer, l \in Link :
                /\ RecvPayload(s, r, l) /\ Got(s, r, l).kind = "Enc"
                /\ Got(s, r, l).key # PayloadKey(r, s)
<1>1. CASE UNCHANGED secretVars
  BY <1>1 DEF secretVars
<1>2. ASSUME NEW n \in Peer, NEW m \in Peer,
             \/ Connect(n, m) \/ DisconnectPeer(n, m) \/ SendInit(n, m) \/ SendResp(n, m)
             \/ Send(n, m)
      PROVE  unread' = unread
  BY <1>2 DEF Connect, DisconnectPeer, SendInit, SendResp, Send
<1>3. ASSUME NEW n \in Peer, RestartNode(n) PROVE unread' = unread
  BY <1>3 DEF RestartNode
<1>4. ASSUME NEW s \in Peer, NEW r \in Peer, NEW l \in Link,
             \/ RecvStray(s, r, l) \/ RecvHello(s, r, l) \/ RecvInit(s, r, l)
             \/ RecvInitIgnored(s, r, l) \/ RecvResp(s, r, l) \/ RecvReady(s, r, l)
      PROVE  unread' = unread
  BY <1>4 DEF RecvStray, RecvHello, RecvInit, RecvInitIgnored, RecvResp, RecvReady
<1>5. ASSUME NEW s \in Peer, NEW r \in Peer, NEW l \in Link, RecvPayload(s, r, l)
      PROVE  \/ unread' = unread
             \/ /\ RecvPayload(s, r, l) /\ Got(s, r, l).kind = "Enc"
                /\ Got(s, r, l).key # PayloadKey(r, s)
  BY <1>5 DEF RecvPayload
<1>6. QED
  BY <1>1, <1>2, <1>3, <1>4, <1>5, Steps

LEMMA ReachStep ==
    ASSUME Types, KeyAgreement, Reach, [SecretNext]_secretVars PROVE Reach'
<1>1. SUFFICES ASSUME drops' = 0
      PROVE  /\ \A r, s \in Peer :
                  /\ "local" \in ready'[r][s] => key'[r][s] # NoKey
                  /\ "remote" \in ready'[r][s] => key'[s][r] # NoKey
                  /\ replying'[r][s] # Absent => key'[r][s] # NoKey
                  /\ \A l \in Link : \A f : In(frames'[s][r][l], f) =>
                       /\ f.kind = "Ready" => key'[s][r] # NoKey
                       /\ f.kind = "Enc" =>
                            f.key = key'[s][r] /\ key'[s][r] # NoKey /\ key'[r][s] # NoKey
             /\ unread' = {}
  BY DEF Reach
<1>2. ASSUME NEW x \in Peer, NEW y \in Peer, key[x][y] # NoKey
      PROVE  key'[x][y] = key[x][y] /\ key'[x][y] # NoKey
  BY <1>1, <1>2, KeyStays
<1>3. ASSUME NEW r \in Peer, NEW s \in Peer
      PROVE  /\ "local" \in ready[r][s] => key[r][s] # NoKey
             /\ "remote" \in ready[r][s] => key[s][r] # NoKey
             /\ replying[r][s] # Absent => key[r][s] # NoKey
             /\ \A l \in Link : \A f : In(frames[s][r][l], f) =>
                  /\ f.kind = "Ready" => key[s][r] # NoKey
                  /\ f.kind = "Enc" =>
                       f.key = key[s][r] /\ key[s][r] # NoKey /\ key[r][s] # NoKey
  <2>1. drops = 0
    BY <1>1, KeyStays
  <2>2. QED
    BY <2>1 DEF Reach
<1>4. ASSUME NEW r \in Peer, NEW s \in Peer, "local" \in ready'[r][s]
      PROVE  key'[r][s] # NoKey
  <2>1. CASE "local" \in ready[r][s]
    BY <1>2, <1>3, <2>1
  <2>2. CASE \E l \in Link : RecvInit(s, r, l) \/ (RecvResp(s, r, l) /\ Made(r, s))
    BY <1>1, <2>2, NewlyKeyed
  <2>3. QED
    BY <1>4, <2>1, <2>2, ReadyStep
<1>5. ASSUME NEW r \in Peer, NEW s \in Peer, "remote" \in ready'[r][s]
      PROVE  key'[s][r] # NoKey
  <2>1. CASE "remote" \in ready[r][s]
    BY <1>2, <1>3, <2>1
  <2>2. ASSUME NEW l \in Link, RecvReady(s, r, l) PROVE key'[s][r] # NoKey
    <3>1. frames[s][r][l] # <<>> /\ Head(frames[s][r][l]).kind = "Ready"
      BY <2>2 DEF RecvReady, Comes, InFlight
    <3>2. In(frames[s][r][l], Head(frames[s][r][l]))
      BY <3>1, Streams, InHead DEF Types
    <3>3. key[s][r] # NoKey
      BY <1>3, <3>1, <3>2
    <3>4. QED
      BY <1>2, <3>3
  <2>3. QED
    BY <1>5, <2>1, <2>2, ReadyStep
<1>6. ASSUME NEW r \in Peer, NEW s \in Peer, replying'[r][s] # Absent
      PROVE  key'[r][s] # NoKey
  <2>1. CASE replying[r][s] # Absent
    BY <1>2, <1>3, <2>1
  <2>2. CASE \E l \in Link : RecvInit(s, r, l)
    BY <1>1, <2>2, NewlyKeyed
  <2>3. QED
    BY <1>6, <2>1, <2>2, ReplyingStep
<1>7. ASSUME NEW r \in Peer, NEW s \in Peer, NEW l \in Link, NEW f, In(frames'[s][r][l], f),
             f.kind = "Ready"
      PROVE  key'[s][r] # NoKey
  <2>1. CASE In(frames[s][r][l], f)
    BY <1>2, <1>3, <1>7, <2>1
  <2>2. CASE SendResp(s, r)
    BY <1>2, <1>3, <2>2, SendRespOnly
  <2>3. CASE \E h \in Link : RecvResp(r, s, h) /\ Made(s, r)
    BY <1>1, <2>3, NewlyKeyed
  <2>4. QED
    BY <1>7, <2>1, <2>2, <2>3, FrameStep
<1>8. ASSUME NEW r \in Peer, NEW s \in Peer, NEW l \in Link, NEW f, In(frames'[s][r][l], f),
             f.kind = "Enc"
      PROVE  f.key = key'[s][r] /\ key'[s][r] # NoKey /\ key'[r][s] # NoKey
  <2>1. CASE In(frames[s][r][l], f)
    BY <1>2, <1>3, <1>8, <2>1
  <2>2. CASE Ready(s, r) /\ f.key = PayloadKey(s, r)
    <3>1. "local" \in ready[s][r] /\ "remote" \in ready[s][r]
      BY <2>2 DEF Ready, Both
    <3>2. key[s][r] # NoKey /\ key[r][s] # NoKey
      BY <1>3, <3>1
    <3>3. f.key = key[s][r]
      BY <2>2, <3>2 DEF PayloadKey
    <3>4. QED
      BY <1>2, <3>2, <3>3
  <2>3. QED
    BY <1>8, <2>1, <2>2, FrameStep
<1>9. unread' = {}
  <2>1. ASSUME NEW s \in Peer, NEW r \in Peer, NEW l \in Link, RecvPayload(s, r, l),
               Got(s, r, l).kind = "Enc", Got(s, r, l).key # PayloadKey(r, s)
        PROVE  FALSE
    <3>1. frames[s][r][l] # <<>>
      BY <2>1 DEF RecvPayload, Comes, InFlight
    <3>2. In(frames[s][r][l], Got(s, r, l))
      BY <3>1, Streams, InHead DEF Types, Got
    <3>3. Got(s, r, l).key = key[s][r] /\ key[s][r] # NoKey /\ key[r][s] # NoKey
      BY <1>3, <2>1, <3>2
    <3>4. key[r][s] = key[s][r]
      BY <3>3 DEF KeyAgreement
    <3>5. QED
      BY <2>1, <3>3, <3>4 DEF PayloadKey
  <2>2. unread = {}
    <3>1. drops = 0
      BY <1>1, Growing
    <3>2. QED
      BY <3>1 DEF Reach
  <2>3. QED
    BY <2>1, <2>2, UnreadStep
<1>10. QED
  BY <1>4, <1>5, <1>6, <1>7, <1>8, <1>9

LEMMA ReachInit ==
    SecretInit => Reach
<1> SUFFICES ASSUME SecretInit PROVE Reach
  OBVIOUS
<1>1. \A n, m \in Peer :
         /\ ready[n][m] = {} /\ replying[n][m] = Absent
         /\ \A l \in Link : frames[n][m][l] = <<>>
  BY DEF SecretInit, Table
<1>2. \A f : ~In(<<>>, f)
  BY DEF In
<1>3. unread = {}
  BY DEF SecretInit
<1>4. QED
  BY <1>1, <1>2, <1>3, Zenon DEF Reach

(* As long as no connection goes down, whatever one side encrypts the other  *)
(* can read (maybe_encrypt_payload and decrypt_payload): the flags of        *)
(* e2ee_ready are set, and E2eeReady sent, only by a side that has its key.  *)
THEOREM Readable ==
    ASSUME Ordered, ~Overlap PROVE SecretSpec => []EncryptedIsReadable
<1> DEFINE I == Exchange /\ Reach
<1>1. SecretInit => I
  BY ExchangeInit, ReachInit
<1>2. I /\ [SecretNext]_secretVars => I'
  BY ExchangeStep, ReachStep DEF Exchange
<1>3. I => EncryptedIsReadable
  BY DEF Reach, EncryptedIsReadable
<1>4. QED
  BY <1>1, <1>2, <1>3, PTL DEF SecretSpec

=============================================================================
