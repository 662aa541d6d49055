-------------------------------- MODULE E2ee --------------------------------
(***************************************************************************)
(* The pairwise end-to-end key exchange of crates/rift-mesh for one session *)
(* (the channel's): E2eeInit, E2eeResp, EncryptedReady, and what the four   *)
(* tables e2ee_keys, e2ee_pending, e2ee_ready and peer_public_keys make of  *)
(* a chat or voice payload.                                                 *)
(*                                                                         *)
(* It stands on the packet layer (MeshLink): a frame sent over a connection *)
(* is read in order or not at all.  A connection is a number, a later one   *)
(* a greater; a node that reconnects does so from a new port, so its peer   *)
(* may still hold the old connection and files the new one beside it.       *)
(*                                                                         *)
(* An X25519 key pair is a number, and the shared key of two pairs is the   *)
(* set of both: derive_e2ee_shared_key is symmetric.                        *)
(***************************************************************************)
EXTENDS Integers, Sequences

CONSTANTS
    Peer,
    Rank,       \* Rank[n]: the order of the peer ids
    GroupKey,   \* MeshConfig.e2ee_key is set (to the same value everywhere)
    Overlap,    \* receive tasks of several sockets run at once
    Ordered,    \* what was sent over a connection arrives, or never does,
                \* before anything that is sent over a later one
    MaxKeyPairs,  \* bound: key pairs generated
    MaxLink,    \* bound: connections made
    MaxDrops,   \* bound: disconnects and restarts
    MaxSend     \* bound: payloads sent

ASSUME ExchangeAssumption ==
    /\ Rank \in [Peer -> Nat]
    /\ \A n, m \in Peer : Rank[n] = Rank[m] => n = m
    /\ GroupKey \in BOOLEAN
    /\ Overlap \in BOOLEAN
    /\ Ordered \in BOOLEAN
    /\ MaxKeyPairs \in Nat
    /\ MaxLink \in Nat
    /\ MaxDrops \in Nat
    /\ MaxSend \in Nat

KeyPair  == 1..MaxKeyPairs
Link == 1..MaxLink
Absent == 0

NoKey   == {}
Channel == {0}                                  \* MeshConfig.e2ee_key
Pairs   == {{e, f} : e, f \in KeyPair} \ {{e} : e \in KeyPair}
Keys    == Pairs \union {NoKey}

Both  == {"local", "remote"}                    \* E2eeReadyState
Kinds == {"Hello", "Init", "Resp", "Ready", "Plain", "Enc"}
Frame == [kind : Kinds, eph : KeyPair \union {Absent},
          key : Keys \union {Channel}]

VARIABLES
    up,        \* up[n][m]: n's connections to m
    route,     \* route[n][m]: the one n sends to m over
    known,     \* known[n][m]: n has m's public key
    begun,     \* begun[n][m]: calls of start_e2ee that passed its checks
    replying,  \* replying[n][m]: the key pair handle_e2ee_init answers with
    asked,     \* asked[n][m]: e2ee_pending
    key,       \* key[n][m]: e2ee_keys
    ready,     \* ready[n][m]: the flags of e2ee_ready that are set
    frames,    \* frames[n][m][l]: the frames in flight from n to m over l
    nextKeyPair, links, drops, payloads,
    unread     \* history: who could not decrypt a payload of whom

tables     == <<up, route, known, begun, replying, asked, key, ready>>
secretVars == <<tables, frames, nextKeyPair, links, drops, payloads, unread>>

Table(x) == [n \in Peer |-> [m \in Peer |-> x]]

SecretInit ==
    /\ up = Table({})
    /\ route = Table(Absent)
    /\ known = Table(FALSE)
    /\ begun = Table(0)
    /\ replying = Table(Absent)
    /\ asked = Table(Absent)
    /\ key = Table(NoKey)
    /\ ready = Table({})
    /\ frames = Table([l \in Link |-> <<>>])
    /\ nextKeyPair = 1 /\ links = 0 /\ drops = 0 /\ payloads = 0
    /\ unread = {}

Lower(n, m) == Rank[n] < Rank[m]

Shared(e, f) == {e, f}

Control(kind, e) == [kind |-> kind, eph |-> e, key |-> NoKey]

(* send_to_peer: over the route, if there is one and its connection stands. *)
Over(n, m, fs) ==
    [l \in Link |-> IF l = route[n][m] /\ l \in up[n][m]
                     THEN frames[n][m][l] \o fs ELSE frames[n][m][l]]

Post(n, m, fs) == frames' = [frames EXCEPT ![n][m] = Over(n, m, fs)]

-----------------------------------------------------------------------------
(* A handshake completes: both ends have the connection, and each sends its *)
(* greeting (Join, ..., Hello) over it.                                     *)
Connect(n, m) ==
    /\ n # m /\ links < MaxLink
    /\ up[n][m] = {} \/ Overlap
    /\ LET l == links + 1
       IN  /\ links' = l
           /\ up' = [up EXCEPT ![n][m] = @ \union {l}, ![m][n] = @ \union {l}]
           /\ frames' = [frames EXCEPT ![n][m][l] = <<Control("Hello", Absent)>>,
                                 ![m][n][l] = <<Control("Hello", Absent)>>]
    /\ UNCHANGED <<route, known, begun, replying, asked, key, ready,
                   nextKeyPair, drops, payloads, unread>>

(* MeshHandle::disconnect_peer: disconnect_addr leaves e2ee_ready and       *)
(* peer_public_keys as they are.                                            *)
DisconnectPeer(n, m) ==
    /\ drops < MaxDrops
    /\ route[n][m] \in up[n][m]
    /\ drops' = drops + 1
    /\ up' = [up EXCEPT ![n][m] = @ \ {route[n][m]}]
    /\ route' = [route EXCEPT ![n][m] = Absent]
    /\ key' = [key EXCEPT ![n][m] = NoKey]
    /\ asked' = [asked EXCEPT ![n][m] = Absent]
    /\ UNCHANGED <<known, begun, replying, ready, frames, nextKeyPair, links,
                   payloads, unread>>

(* The process ends and starts again.                                       *)
RestartNode(n) ==
    /\ drops < MaxDrops
    /\ drops' = drops + 1
    /\ up' = [up EXCEPT ![n] = [m \in Peer |-> {}]]
    /\ route' = [route EXCEPT ![n] = [m \in Peer |-> Absent]]
    /\ known' = [known EXCEPT ![n] = [m \in Peer |-> FALSE]]
    /\ begun' = [begun EXCEPT ![n] = [m \in Peer |-> 0]]
    /\ replying' = [replying EXCEPT ![n] = [m \in Peer |-> Absent]]
    /\ asked' = [asked EXCEPT ![n] = [m \in Peer |-> Absent]]
    /\ key' = [key EXCEPT ![n] = [m \in Peer |-> NoKey]]
    /\ ready' = [ready EXCEPT ![n] = [m \in Peer |-> {}]]
    /\ UNCHANGED <<frames, nextKeyPair, links, payloads, unread>>

-----------------------------------------------------------------------------
(* The receive loop reads a datagram only when it is done with the last.    *)

(* Mutation: every datagram is handled by a task of its own.                *)
Mutant_Idle(r) == TRUE
Idle(r) == \/ Overlap
           \/ \A m \in Peer : begun[r][m] = 0 /\ replying[r][m] = Absent

InFlight(s, r, l) ==
    /\ frames[s][r][l] # <<>>
    /\ Ordered => \A k \in Link : k < l => frames[s][r][k] = <<>>

Comes(s, r, l, kind) ==
    /\ InFlight(s, r, l) /\ Idle(r)
    /\ l \in up[r][s]
    /\ Head(frames[s][r][l]).kind = kind

Got(s, r, l) == Head(frames[s][r][l])

Take(s, r, l) == frames' = [frames EXCEPT ![s][r][l] = Tail(@)]

(* r takes the frame of s and answers with fs.                              *)
TakeAndPost(s, r, l, fs) ==
    frames' = [frames EXCEPT ![s][r][l] = Tail(@), ![r][s] = Over(r, s, fs)]

(* The connection is gone: nothing can decrypt the datagram.                *)
RecvStray(s, r, l) ==
    /\ InFlight(s, r, l)
    /\ l \notin up[r][s]
    /\ Take(s, r, l)
    /\ UNCHANGED <<tables, nextKeyPair, links, drops, payloads, unread>>

(* Join and Hello: the route is set, the public key stored, and start_e2ee  *)
(* called, whose checks are made here and whose effects in SendInit.        *)
MayStart(n, m) ==
    Lower(n, m) /\ key[n][m] = NoKey /\ asked[n][m] = Absent

(* maybe_start_e2ee: E2EE is among the features a node has unless its user  *)
(* says otherwise, and nothing here has a key for the whole channel.        *)
MaybeStart(n, m) ==
    begun' = [begun EXCEPT ![n][m] = IF MayStart(n, m) THEN @ + 1 ELSE @]

RecvHello(s, r, l) ==
    /\ Comes(s, r, l, "Hello")
    /\ Take(s, r, l)
    /\ route' = [route EXCEPT ![r][s] = l]
    /\ known' = [known EXCEPT ![r][s] = TRUE]
    /\ MaybeStart(r, s)
    /\ UNCHANGED <<up, replying, asked, key, ready, nextKeyPair, links, drops,
                   payloads, unread>>

(* The rest of start_e2ee: if sending fails, the pending entry stays.       *)
SendInit(n, m) ==
    /\ begun[n][m] > 0
    /\ nextKeyPair \in KeyPair
    /\ nextKeyPair' = nextKeyPair + 1
    /\ begun' = [begun EXCEPT ![n][m] = @ - 1]
    /\ asked' = [asked EXCEPT ![n][m] = nextKeyPair]
    /\ Post(n, m, <<Control("Init", nextKeyPair)>>)
    /\ UNCHANGED <<up, route, known, replying, key, ready, links, drops,
                   payloads, unread>>

(* handle_e2ee_init ignores an E2eeInit when it has a key already, when it  *)
(* is itself the initiator and has one pending, or without a public key.    *)
IgnoresInit(n, m) ==
    \/ key[n][m] # NoKey
    \/ Lower(n, m) /\ asked[n][m] # Absent
    \/ ~known[n][m]

RecvInit(s, r, l) ==
    /\ Comes(s, r, l, "Init")
    /\ ~IgnoresInit(r, s)
    /\ nextKeyPair \in KeyPair
    /\ nextKeyPair' = nextKeyPair + 1
    /\ Take(s, r, l)
    /\ asked' = IF Lower(r, s) THEN asked
                  ELSE [asked EXCEPT ![r][s] = Absent]
    /\ key' = [key EXCEPT ![r][s] = Shared(nextKeyPair, Got(s, r, l).eph)]
    /\ ready' = [ready EXCEPT ![r][s] = @ \union {"local"}]
    /\ replying' = [replying EXCEPT ![r][s] = nextKeyPair]
    /\ UNCHANGED <<up, route, known, begun, links, drops, payloads, unread>>

RecvInitIgnored(s, r, l) ==
    /\ Comes(s, r, l, "Init")
    /\ IgnoresInit(r, s)
    /\ Take(s, r, l)
    /\ asked' = IF key[r][s] # NoKey \/ Lower(r, s) THEN asked
                  ELSE [asked EXCEPT ![r][s] = Absent]
    /\ UNCHANGED <<up, route, known, begun, replying, key, ready, nextKeyPair,
                   links, drops, payloads, unread>>

(* Mutation: the responder never says that it is ready.                     *)
Mutant_SendResp(n, m) ==
    /\ replying[n][m] # Absent
    /\ replying' = [replying EXCEPT ![n][m] = Absent]
    /\ Post(n, m, <<Control("Resp", replying[n][m])>>)
    /\ UNCHANGED <<up, route, known, begun, asked, key, ready, nextKeyPair,
                   links, drops, payloads, unread>>

(* The rest of handle_e2ee_init.                                            *)
SendResp(n, m) ==
    /\ replying[n][m] # Absent
    /\ replying' = [replying EXCEPT ![n][m] = Absent]
    /\ Post(n, m, <<Control("Resp", replying[n][m]), Control("Ready", Absent)>>)
    /\ UNCHANGED <<up, route, known, begun, asked, key, ready, nextKeyPair,
                   links, drops, payloads, unread>>

(* handle_e2ee_resp; without a pending key pair, with a key already or      *)
(* without the public key there is no new key.                              *)
RecvResp(s, r, l) ==
    /\ Comes(s, r, l, "Resp")
    /\ LET fresh == key[r][s] = NoKey
           made  == fresh /\ asked[r][s] # Absent /\ known[r][s]
       IN  /\ asked' = IF fresh THEN [asked EXCEPT ![r][s] = Absent] ELSE asked
           /\ key' = IF made
                     THEN [key EXCEPT ![r][s] =
                             Shared(asked[r][s], Got(s, r, l).eph)]
                     ELSE key
           /\ ready' = IF made THEN [ready EXCEPT ![r][s] = @ \union {"local"}]
                       ELSE ready
           /\ TakeAndPost(s, r, l, IF made THEN <<Control("Ready", Absent)>> ELSE <<>>)
    /\ UNCHANGED <<up, route, known, begun, replying, nextKeyPair, links, drops,
                   payloads, unread>>

RecvReady(s, r, l) ==
    /\ Comes(s, r, l, "Ready")
    /\ Take(s, r, l)
    /\ ready' = [ready EXCEPT ![r][s] = @ \union {"remote"}]
    /\ UNCHANGED <<up, route, known, begun, replying, asked, key, nextKeyPair,
                   links, drops, payloads, unread>>

-----------------------------------------------------------------------------
(* Chat and voice.  Both directions look for the pairwise key first and     *)
(* fall back on the channel's.                                              *)
PayloadKey(n, m) ==
    IF key[n][m] # NoKey THEN key[n][m]
    ELSE IF GroupKey THEN Channel ELSE NoKey

(* Mutation: one side being ready is enough.                                *)
Mutant_Ready(n, m) == ready[n][m] # {}
Ready(n, m) == ready[n][m] = Both

(* maybe_encrypt_payload: an error without a key, the payload as it is      *)
(* until both sides are ready, and encrypted from then on.                  *)
Send(n, m) ==
    /\ payloads < MaxSend
    /\ route[n][m] \in up[n][m]
    /\ PayloadKey(n, m) # NoKey
    /\ payloads' = payloads + 1
    /\ Post(n, m, <<IF Ready(n, m)
                    THEN [kind |-> "Enc", eph |-> Absent, key |-> PayloadKey(n, m)]
                    ELSE Control("Plain", Absent)>>)
    /\ UNCHANGED <<tables, nextKeyPair, links, drops, unread>>

(* decrypt_payload; a payload that does not decrypt is logged and lost.     *)
RecvPayload(s, r, l) ==
    /\ Comes(s, r, l, "Plain") \/ Comes(s, r, l, "Enc")
    /\ Take(s, r, l)
    /\ unread' = IF Got(s, r, l).kind = "Enc" /\ Got(s, r, l).key # PayloadKey(r, s)
                 THEN unread \union {<<r, s>>} ELSE unread
    /\ UNCHANGED <<tables, nextKeyPair, links, drops, payloads>>

-----------------------------------------------------------------------------

ReceiveFrame(s, r) ==
    \E l \in Link :
        \/ RecvStray(s, r, l)
        \/ RecvHello(s, r, l)
        \/ RecvInit(s, r, l)
        \/ RecvInitIgnored(s, r, l)
        \/ RecvResp(s, r, l)
        \/ RecvReady(s, r, l)
        \/ RecvPayload(s, r, l)

SecretNext ==
    \/ \E n, m \in Peer :
         \/ Connect(n, m)
         \/ DisconnectPeer(n, m)
         \/ SendInit(n, m)
         \/ SendResp(n, m)
         \/ Send(n, m)
         \/ ReceiveFrame(n, m)
    \/ \E n \in Peer : RestartNode(n)

SecretSpec == SecretInit /\ [][SecretNext]_secretVars

(* What is in flight is received, and a handler that began is finished.     *)
SecretFairness ==
    \A n, m \in Peer :
        /\ WF_secretVars(ReceiveFrame(n, m))
        /\ WF_secretVars(SendInit(n, m))
        /\ WF_secretVars(SendResp(n, m))

SecretFairSpec == SecretSpec /\ SecretFairness

-----------------------------------------------------------------------------
(* Every table entry and frame is of its type.                              *)
SecretTypeOK ==
    /\ up \in [Peer -> [Peer -> SUBSET Link]]
    /\ route \in [Peer -> [Peer -> Link \union {Absent}]]
    /\ known \in [Peer -> [Peer -> BOOLEAN]]
    /\ begun \in [Peer -> [Peer -> Nat]]
    /\ replying \in [Peer -> [Peer -> KeyPair \union {Absent}]]
    /\ asked \in [Peer -> [Peer -> KeyPair \union {Absent}]]
    /\ key \in [Peer -> [Peer -> Keys]]
    /\ ready \in [Peer -> [Peer -> SUBSET Both]]
    /\ frames \in [Peer -> [Peer -> [Link -> Seq(Frame)]]]
    /\ nextKeyPair \in 1..(MaxKeyPairs + 1)
    /\ links \in 0..MaxLink
    /\ drops \in 0..MaxDrops
    /\ payloads \in 0..MaxSend
    /\ unread \subseteq Peer \X Peer

(* Two peers that both hold a key for their session hold the same one: the  *)
(* comment on start_e2ee, "only the lower peer id sends init to avoid key   *)
(* mismatch".  An E2eeResp does not say which E2eeInit it answers, so this  *)
(* rests on the order of events over restarts and reconnections.            *)
KeyAgreement ==
    \A n, m \in Peer :
        key[n][m] # NoKey /\ key[m][n] # NoKey => key[n][m] = key[m][n]

(* Until a connection goes down, every encrypted payload is encrypted under *)
(* a key its receiver holds when it arrives (maybe_encrypt_payload and      *)
(* decrypt_payload): the ready flags order the key before the payload.      *)
EncryptedIsReadable == drops = 0 => unread = {}

(* Two peers that are connected come to encrypt for one another, unless a   *)
(* connection goes down (start_e2ee on Hello, and the three replies).       *)
Agreed(n, m) ==
    /\ key[n][m] # NoKey /\ key[n][m] = key[m][n]
    /\ Ready(n, m) /\ Ready(m, n)

Converges ==
    \A n, m \in Peer : up[n][m] # {} ~> Agreed(n, m) \/ drops > 0
=============================================================================
