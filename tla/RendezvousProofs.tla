-------------------------- MODULE RendezvousProofs --------------------------
(***************************************************************************)
(* Proofs about Rendezvous, for any parties, lists of addresses, tokens    *)
(* and bounds, and a network that may repeat what it delivers.             *)
(*                                                                         *)
(* SessionsAgree: the third message of a handshake is believed only if it  *)
(* names the responder's key, and that key was named to one address in one *)
(* message (Answered); a session on the socket of its handshake sends to   *)
(* where that went (PathOf).  ClosedByEarlier: as long as no earlier run   *)
(* of its node has ended, a running run holds the token's entry, and no    *)
(* later run has been let in (Undisturbed).                                *)
(***************************************************************************)
EXTENDS Rendezvous, TLAPS

Caller == Connector \union Listener

(* What the steps need to know of the types.                                *)
Stage == {"idle", "probing", "second", "allocating", "relaying", "answer", "relaysecond",
          "listening", "first", "third", "done", "failed"}

TypeOK ==
    /\ stage \in [Caller -> Stage]
    /\ DOMAIN hs = Caller
    /\ accepts \in [Listener -> Nat]

(* The key r is one that a listener has used, and if it is of the call that *)
(* is under way, then that call waits for no message before the third, and  *)
(* has sent the second to a.                                                *)
Answered(r, a) ==
    /\ r \in Listener \X Nat
    /\ r[2] <= accepts[r[1]]
    /\ r[2] = accepts[r[1]] =>
         /\ stage[r[1]] \notin {"listening", "first"}
         /\ stage[r[1]] = "third" => hs[r[1]].with = a

(* Somebody has run the handshake to its end as the initiator and has sent  *)
(* the third message to b.                                                  *)
InitiatorOf(i, r, b) ==
    \E y \in completed : y.role = "I" /\ y.i = i /\ y.r = r /\ y.with = b

(* A connector that waits for the second message on its own socket says so. *)
OwnSocket ==
    \A c \in Connector : stage[c] = "second" => hs[c].at = c

SecondsSent ==
    \A d \in net : d.body.kind = "second" => Answered(d.body.r, d.to)

ThirdsSent ==
    \A d \in net : d.body.kind = "third" => InitiatorOf(d.body.i, d.body.r, d.to)

(* An initiator's session is on the socket of its handshake and sends to     *)
(* where that went, unless it is a relayed one.                              *)
PathOf(y) ==
    \/ y.path = None
    \/ y.path.socket = Fresh(y.i)
    \/ y.path = [socket |-> y.at, to |-> y.with]

InitiatorsAnswered ==
    \A y \in completed : y.role = "I" => Answered(y.r, y.at) /\ PathOf(y)

HandshakeInv ==
    /\ TypeOK
    /\ OwnSocket
    /\ SecondsSent
    /\ ThirdsSent
    /\ InitiatorsAnswered
    /\ SessionsAgree

-----------------------------------------------------------------------------
(* Runs.                                                                    *)

RunStates == {"new", "running"} \union Ended

Past == Ended \ {"refused"}

RunsOK ==
    /\ DOMAIN run = Mesh
    /\ \A m \in Mesh : DOMAIN run[m] = Run
    /\ \A m \in Mesh : \A k \in Run :
         /\ DOMAIN run[m][k] = {"state", "last", "queue"}
         /\ run[m][k].state \in RunStates
    /\ table \in [Mesh -> Run \union {0}]
    /\ leaving \in [Mesh -> SUBSET Run]
    /\ DOMAIN hand = Mesh

(* An earlier run of the node was let in and has ended.                     *)
Freed(m, k) == \E j \in 1..(k - 1) : run[m][j].state \in Past

(* The runs of a node begin in order.                                       *)
InOrder ==
    \A m \in Mesh : \A j, k \in Run :
        j < k /\ run[m][j].state = "new" => run[m][k].state = "new"

(* Who is about to remove an entry has been let in.                         *)
LeaversEnded ==
    \A m \in Mesh : \A k \in leaving[m] : run[m][k].state \in Past

HolderLetIn ==
    \A m \in Mesh : hand[m] # NoHand =>
        /\ hand[m].run \in Run
        /\ run[m][hand[m].run].state \in {"running"} \union Past

TableLetIn ==
    \A m \in Mesh : table[m] # 0 => run[m][table[m]].state \in {"running"} \union Past

Undisturbed ==
    \A m \in Mesh : \A k \in Run :
        run[m][k].state = "running" /\ ~Freed(m, k) =>
            /\ table[m] = k
            /\ \A j \in Run : k < j => run[m][j].state \in {"new", "refused"}

RunInv ==
    /\ RunsOK /\ InOrder /\ LeaversEnded /\ HolderLetIn /\ TableLetIn
    /\ Undisturbed /\ ClosedByEarlier

-----------------------------------------------------------------------------
(* Handshakes.                                                              *)

(* What a step may do to a call: a call that goes on does not fall back     *)
(* before the second message, and the peer it was sent to stays.            *)
CallsGoOn ==
    \A l \in Listener :
        /\ accepts'[l] >= accepts[l]
        /\ accepts'[l] = accepts[l] =>
             /\ stage'[l] \in {"listening", "first"} =>
                  stage[l] \in {"listening", "first"}
             /\ stage'[l] = "third" =>
                  \/ stage[l] \in {"listening", "first"}
                  \/ stage[l] = "third" /\ hs'[l].with = hs[l].with

LEMMA AnsweredStays ==
    ASSUME TypeOK, TypeOK', CallsGoOn, NEW r, NEW a, Answered(r, a)
    PROVE  Answered(r, a)'
<1>1. r[1] \in Listener /\ r[2] \in Nat
  BY DEF Answered
<1>2. accepts[r[1]] \in Nat /\ accepts'[r[1]] \in Nat
  BY <1>1 DEF TypeOK
<1>3. r[2] <= accepts'[r[1]]
  BY <1>1, <1>2 DEF Answered, CallsGoOn
<1>4. ASSUME r[2] = accepts'[r[1]]
      PROVE  /\ stage'[r[1]] \notin {"listening", "first"}
             /\ stage'[r[1]] = "third" => hs'[r[1]].with = a
  BY <1>1, <1>2, <1>4 DEF Answered, CallsGoOn
<1> QED
  BY <1>3, <1>4 DEF Answered

LEMMA InitiatorStays ==
    ASSUME completed \subseteq completed', NEW i, NEW r, NEW b, InitiatorOf(i, r, b)
    PROVE  InitiatorOf(i, r, b)'
  BY DEF InitiatorOf

(* What a new datagram and a new entry of the history have to show.         *)
Fits(d) ==
    /\ d.body.kind = "second" => Answered(d.body.r, d.to)
    /\ d.body.kind = "third" => InitiatorOf(d.body.i, d.body.r, d.to)

Met(x) ==
    \E y \in completed :
        /\ y.role = "I" /\ y.i = x.i /\ y.r = x.r /\ y.with = x.at /\ x.with = y.at
        /\ x.path # None /\ y.path # None =>
             y.path.socket = Fresh(y.i) \/ Facing(x.path, y.path)

Agreed(x) ==
    /\ x.role = "I" => Answered(x.r, x.at) /\ PathOf(x)
    /\ x.role = "R" => Met(x)

LEMMA Through ==
    ASSUME HandshakeInv, TypeOK', OwnSocket', CallsGoOn, completed \subseteq completed',
           \A d \in net' : d \in net \/ Fits(d)',
           \A x \in completed' : x \in completed \/ Agreed(x)'
    PROVE  HandshakeInv'
<1>1. \A d \in net' : Fits(d)'
  <2> SUFFICES ASSUME NEW d \in net', d \in net PROVE Fits(d)'
    OBVIOUS
  <2>1. d.body.kind = "second" => Answered(d.body.r, d.to)'
    BY AnsweredStays DEF HandshakeInv, SecondsSent
  <2>2. d.body.kind = "third" => InitiatorOf(d.body.i, d.body.r, d.to)'
    BY InitiatorStays DEF HandshakeInv, ThirdsSent
  <2> QED
    BY <2>1, <2>2 DEF Fits
<1>2. \A x \in completed' : Agreed(x)'
  <2> SUFFICES ASSUME NEW x \in completed', x \in completed PROVE Agreed(x)'
    OBVIOUS
  <2>1. x.role = "I" => Answered(x.r, x.at)' /\ PathOf(x)
    BY AnsweredStays DEF HandshakeInv, InitiatorsAnswered
  <2>2. x.role = "R" => Met(x)'
    BY DEF HandshakeInv, SessionsAgree, Met
  <2> QED
    BY <2>1, <2>2 DEF Agreed, PathOf
<1>3. SecondsSent' /\ ThirdsSent'
  BY <1>1 DEF Fits, SecondsSent, ThirdsSent
<1>4. InitiatorsAnswered' /\ SessionsAgree'
  BY <1>2 DEF Agreed, Met, InitiatorsAnswered, SessionsAgree
<1> QED
  BY <1>3, <1>4 DEF HandshakeInv

(* Probes and first messages have nothing to show.                          *)
LEMMA Plain ==
    ASSUME NEW a, NEW b, NEW body, body.kind \notin {"second", "third"}
    PROVE  Fits(Datagram(a, b, body))'
<1>1. Datagram(a, b, body).body = body
  BY DEF Datagram
<1> QED
  BY <1>1 DEF Fits

LEMMA Kinds ==
    ASSUME NEW s, NEW p
    PROVE  /\ Probe(s, p).kind = "probe"
           /\ First(p).kind = "first"
  BY DEF Probe, First

(* A call goes on to a stage in which it owes nobody a third message.       *)
LEMMA Goes ==
    ASSUME TypeOK, OwnSocket, UNCHANGED accepts, NEW p \in Caller, NEW s \in Stage, NEW v,
           s \notin {"listening", "first", "third"},
           stage' = [stage EXCEPT ![p] = s],
           hs' = hs \/ hs' = [hs EXCEPT ![p] = v],
           s = "second" => hs' = [hs EXCEPT ![p] = v] /\ v.at = p
    PROVE  TypeOK' /\ OwnSocket' /\ CallsGoOn
<1>1. /\ stage' \in [Caller -> Stage] /\ stage'[p] = s
      /\ \A q \in Caller : q # p => stage'[q] = stage[q]
  BY DEF TypeOK
<1>2. DOMAIN hs' = Caller /\ \A q \in Caller : q # p => hs'[q] = hs[q]
  BY DEF TypeOK
<1>3. s = "second" => hs'[p].at = p
  BY DEF TypeOK
<1>4. TypeOK'
  BY <1>1, <1>2 DEF TypeOK
<1>5. OwnSocket'
  BY <1>1, <1>2, <1>3 DEF OwnSocket, Caller
<1>6. CallsGoOn
  <2> SUFFICES ASSUME NEW l \in Listener
      PROVE  /\ accepts'[l] >= accepts[l]
             /\ stage'[l] \in {"listening", "first"} =>
                  stage[l] \in {"listening", "first"}
             /\ stage'[l] = "third" => stage[l] = "third" /\ hs'[l].with = hs[l].with
    BY DEF CallsGoOn
  <2>1. l \in Caller /\ accepts[l] \in Nat
    BY DEF Caller, TypeOK
  <2>2. accepts'[l] >= accepts[l]
    BY <2>1
  <2>3. CASE l = p
    BY <1>1, <2>2, <2>3
  <2>4. CASE l # p
    BY <1>1, <1>2, <2>1, <2>2, <2>4
  <2> QED
    BY <2>3, <2>4
<1> QED
  BY <1>4, <1>5, <1>6

LEMMA Rests ==
    ASSUME TypeOK, OwnSocket, UNCHANGED <<accepts, stage, hs>>
    PROVE  TypeOK' /\ OwnSocket' /\ CallsGoOn
<1>1. TypeOK' /\ OwnSocket'
  BY DEF TypeOK, OwnSocket
<1>2. CallsGoOn
  BY DEF TypeOK, CallsGoOn
<1> QED
  BY <1>1, <1>2

(* The steps of a call between its messages.                                *)
QuietCall(p) ==
    \/ Deadline(p) \/ Allocate(p) \/ RelayProbe(p) \/ NoRelayAnswer(p) \/ SendProbes(p)

LEMMA QuietSteps ==
    ASSUME HandshakeInv, NEW c \in Connector, QuietCall(c)
    PROVE  HandshakeInv'
<1>1. TypeOK /\ OwnSocket
  BY DEF HandshakeInv
<1>2. /\ UNCHANGED <<hs, accepts, completed>>
      /\ \/ UNCHANGED stage
         \/ \E s \in {"allocating", "failed", "relaying", "answer"} :
              stage' = [stage EXCEPT ![c] = s]
  BY DEF QuietCall, Deadline, Allocate, RelayProbe, NoRelayAnswer, SendProbes, NextServer,
         NextAddr, callVars
<1>4. TypeOK' /\ OwnSocket' /\ CallsGoOn
  <2> SUFFICES ASSUME NEW s \in {"allocating", "failed", "relaying", "answer"},
                      stage' = [stage EXCEPT ![c] = s]
      PROVE  TypeOK' /\ OwnSocket' /\ CallsGoOn
    BY <1>1, <1>2, Rests
  <2>1. c \in Caller /\ s \in Stage /\ s \notin {"listening", "first", "third", "second"}
    BY DEF Caller, Stage
  <2> QED
    BY <1>1, <1>2, <2>1, Goes
<1>5. \A d \in net' : d \in net \/ Fits(d)'
  <2>1. CASE Deadline(c) \/ Allocate(c) \/ NoRelayAnswer(c)
    BY <2>1 DEF Deadline, Allocate, NoRelayAnswer
  <2>2. CASE RelayProbe(c)
    BY <2>2, Plain, Kinds DEF RelayProbe
  <2>3. CASE SendProbes(c)
    BY <2>3, Plain, Kinds DEF SendProbes
  <2> QED
    BY <2>1, <2>2, <2>3 DEF QuietCall
<1> QED
  BY <1>2, <1>4, <1>5, Through

(* Reading removes a datagram at most.                                      *)
LEMMA Reading ==
    ASSUME NEW e, NEW ds, Exchanged(e, ds)
    PROVE  \A d \in net' : d \in net \/ d \in ds
  BY DEF Exchanged

LEMMA ReadAnswerStep ==
    ASSUME HandshakeInv, NEW c \in Connector, NEW d \in net, ReadAnswer(c, d)
    PROVE  HandshakeInv'
<1>1. TypeOK /\ OwnSocket
  BY DEF HandshakeInv
<1>2. UNCHANGED <<accepts, completed>> /\ stage[c] = "probing"
  BY DEF ReadAnswer
<1>3. CASE Valid(c, d.body)
  <2>1. /\ stage' = [stage EXCEPT ![c] = "second"]
        /\ hs' = [hs EXCEPT ![c] = [at |-> c, with |-> d.from]]
        /\ Exchanged(d, {Datagram(c, d.from, First(c))})
    BY <1>3 DEF ReadAnswer
  <2>2. TypeOK' /\ OwnSocket' /\ CallsGoOn
    BY <1>1, <1>2, <2>1, Goes DEF Caller, Stage
  <2>3. Fits(Datagram(c, d.from, First(c)))'
    BY Plain, Kinds
  <2> QED
    BY <1>2, <2>1, <2>2, <2>3, Reading, Through
<1>4. CASE ~Valid(c, d.body)
  <2>1. UNCHANGED <<stage, hs>> /\ Exchanged(d, {})
    BY <1>4 DEF ReadAnswer
  <2>2. TypeOK' /\ OwnSocket' /\ CallsGoOn
    BY <1>1, <1>2, <2>1, Rests
  <2> QED
    BY <1>2, <2>1, <2>2, Reading, Through
<1> QED
  BY <1>3, <1>4

LEMMA ReadRelayAnswerStep ==
    ASSUME HandshakeInv, NEW c \in Connector, NEW d \in net, ReadRelayAnswer(c, d)
    PROVE  HandshakeInv'
<1>1. TypeOK /\ OwnSocket
  BY DEF HandshakeInv
<1>2. UNCHANGED <<accepts, completed>> /\ stage[c] = "answer"
  BY DEF ReadRelayAnswer
<1>3. CASE Valid(c, d.body)
  <2>1. /\ stage' = [stage EXCEPT ![c] = "relaysecond"]
        /\ hs' = [hs EXCEPT ![c] = [at |-> d.to, with |-> d.from]]
        /\ Exchanged(d, {Datagram(d.to, d.from, First(c))})
    BY <1>3 DEF ReadRelayAnswer
  <2>2. TypeOK' /\ OwnSocket' /\ CallsGoOn
    BY <1>1, <1>2, <2>1, Goes DEF Caller, Stage
  <2>3. Fits(Datagram(d.to, d.from, First(c)))'
    BY Plain, Kinds
  <2> QED
    BY <1>2, <2>1, <2>2, <2>3, Reading, Through
<1>4. CASE ~Valid(c, d.body)
  <2>1. /\ UNCHANGED hs /\ Exchanged(d, {})
        /\ stage' = [stage EXCEPT ![c] = "relaying"]
    BY <1>4 DEF ReadRelayAnswer, NextAddr
  <2>2. TypeOK' /\ OwnSocket' /\ CallsGoOn
    BY <1>1, <1>2, <2>1, Goes DEF Caller, Stage
  <2> QED
    BY <1>2, <2>1, <2>2, Reading, Through
<1> QED
  BY <1>3, <1>4

(* The initiator's end: the second message was sent to where it is read.    *)
LEMMA FinishingStep ==
    ASSUME HandshakeInv, NEW c \in Connector, NEW d \in net, NEW path,
           Readable(c, d.body), hs[c].at = d.to, UNCHANGED <<hs, accepts>>,
           Finished(c, d.body.r, path),
           \/ path = None
           \/ path.socket = Fresh(c)
           \/ path = [socket |-> hs[c].at, to |-> hs[c].with],
           Exchanged(d, {Datagram(d.to, hs[c].with, Third(c, d.body.r))})
    PROVE  HandshakeInv'
<1> DEFINE x == [role |-> "I", at |-> hs[c].at, with |-> hs[c].with, i |-> c,
                 r |-> d.body.r, path |-> path]
           s == IF path = None THEN "failed" ELSE "done"
<1>1. TypeOK /\ OwnSocket
  BY DEF HandshakeInv
<1>2. completed' = completed \union {x} /\ stage' = [stage EXCEPT ![c] = s]
  BY DEF Finished
<1>3. c \in Caller /\ s \in Stage /\ s \notin {"listening", "first", "third", "second"}
  BY DEF Caller, Stage
<1>4. TypeOK' /\ OwnSocket' /\ CallsGoOn
  <2> HIDE DEF s
  <2> QED
    BY <1>1, <1>2, <1>3, Goes
<1>5. Answered(d.body.r, d.to)'
  BY <1>1, <1>4, AnsweredStays DEF HandshakeInv, SecondsSent, Readable
<1>6. \A y \in completed' : y \in completed \/ Agreed(y)'
  <2> SUFFICES ASSUME NEW y \in completed', y = x PROVE Agreed(y)'
    BY <1>2
  <2>1. /\ y.role = "I" /\ y.i = c /\ y.r = d.body.r /\ y.at = d.to
        /\ y.with = hs[c].with /\ y.path = path
    OBVIOUS
  <2>2. Answered(y.r, y.at)'
    BY <2>1, <1>5
  <2>3. PathOf(y)'
    <3> HIDE DEF x
    <3> QED
      BY <2>1 DEF PathOf
  <2> QED
    BY <2>1, <2>2, <2>3 DEF Agreed
<1>7. \A e \in net' : e \in net \/ Fits(e)'
  <2> SUFFICES ASSUME NEW e \in net', e = Datagram(d.to, hs[c].with, Third(c, d.body.r))
      PROVE  Fits(e)'
    BY Reading
  <2>1. /\ e.to = hs[c].with /\ e.body = Third(c, d.body.r)
        /\ e.body.kind = "third" /\ e.body.i = c /\ e.body.r = d.body.r
    BY DEF Datagram, Third
  <2>2. x \in completed' /\ x.role = "I" /\ x.i = c /\ x.r = d.body.r /\ x.with = hs[c].with
    BY <1>2
  <2>3. InitiatorOf(e.body.i, e.body.r, e.to)'
    <3> HIDE DEF x
    <3> QED
      BY <2>1, <2>2 DEF InitiatorOf
  <2> QED
    BY <2>1, <2>3 DEF Fits
<1> QED
  BY <1>2, <1>4, <1>6, <1>7, Through

(* A call that ends in failure, and sends nothing.                          *)
LEMMA FailingStep ==
    ASSUME HandshakeInv, NEW p \in Caller, UNCHANGED <<hs, accepts, completed>>,
           stage' = [stage EXCEPT ![p] = "failed"], net' \subseteq net
    PROVE  HandshakeInv'
<1>1. TypeOK /\ OwnSocket
  BY DEF HandshakeInv
<1>2. TypeOK' /\ OwnSocket' /\ CallsGoOn
  BY <1>1, Goes DEF Stage
<1> QED
  BY <1>2, Through

LEMMA ReadSecondStep ==
    ASSUME HandshakeInv, NEW c \in Connector, NEW d \in net,
           ReadSecond(c, d) \/ ReadRelaySecond(c, d)
    PROVE  HandshakeInv'
<1>1. c \in Caller /\ UNCHANGED <<hs, accepts>> /\ hs[c].at = d.to
  BY DEF ReadSecond, ReadRelaySecond, HandshakeInv, OwnSocket, Caller
<1>2. CASE Readable(c, d.body)
  <2>1. Exchanged(d, {Datagram(d.to, hs[c].with, Third(c, d.body.r))})
    BY <1>2 DEF ReadSecond, ReadRelaySecond
  <2>2. PICK path : /\ Finished(c, d.body.r, path)
                    /\ \/ path = None
                       \/ path.socket = Fresh(c)
                       \/ path = [socket |-> hs[c].at, to |-> hs[c].with]
    <3>1. CASE ReadSecond(c, d)
      <4>1. hs[c].at = c
        BY <3>1 DEF ReadSecond, HandshakeInv, OwnSocket
      <4>2. Finished(c, d.body.r, OwnPath(c))
        BY <1>2, <3>1 DEF ReadSecond
      <4> QED
        BY <4>1, <4>2 DEF OwnPath
    <3>2. CASE ReadRelaySecond(c, d)
      <4>1. RelayedPath(c).socket = Fresh(c)
        BY DEF RelayedPath
      <4>2. Finished(c, d.body.r, None) \/ Finished(c, d.body.r, RelayedPath(c))
        BY <1>2, <3>2 DEF ReadRelaySecond
      <4> QED
        BY <4>1, <4>2
    <3> QED
      BY <3>1, <3>2
  <2> QED
    BY <1>1, <1>2, <2>1, <2>2, FinishingStep
<1>3. CASE ~Readable(c, d.body)
  <2>1. /\ stage' = [stage EXCEPT ![c] = "failed"] /\ Exchanged(d, {})
        /\ UNCHANGED completed
    BY <1>3 DEF ReadSecond, ReadRelaySecond
  <2> QED
    BY <1>1, <2>1, FailingStep DEF Exchanged
<1> QED
  BY <1>2, <1>3

LEMMA GivesUpStep ==
    ASSUME HandshakeInv, NEW p \in Caller, GivesUp(p)
    PROVE  HandshakeInv'
  BY FailingStep DEF GivesUp

-----------------------------------------------------------------------------
(* The listener.                                                            *)

LEMMA AcceptStep ==
    ASSUME HandshakeInv, NEW l \in Listener, Accept(l)
    PROVE  HandshakeInv'
<1>1. /\ TypeOK /\ OwnSocket /\ l \in Caller /\ UNCHANGED <<hs, net, completed>>
      /\ stage' = [stage EXCEPT ![l] = "listening"]
      /\ accepts' = [accepts EXCEPT ![l] = @ + 1]
  BY DEF HandshakeInv, Caller, Accept
<1>2. TypeOK'
  BY <1>1 DEF TypeOK, Stage
<1>3. OwnSocket'
  BY <1>1 DEF OwnSocket, TypeOK, Caller
<1>4. CallsGoOn
  <2> SUFFICES ASSUME NEW k \in Listener
      PROVE  /\ accepts'[k] >= accepts[k]
             /\ accepts'[k] = accepts[k] => stage'[k] = stage[k]
    BY <1>1 DEF CallsGoOn
  <2>1. accepts[k] \in Nat /\ k \in Caller
    BY <1>1 DEF TypeOK, Caller
  <2>2. CASE k = l
    BY <1>1, <2>1, <2>2 DEF TypeOK
  <2>3. CASE k # l
    BY <1>1, <2>1, <2>3 DEF TypeOK
  <2> QED
    BY <2>2, <2>3
<1> QED
  BY <1>1, <1>2, <1>3, <1>4, Through

(* On to the next message of the listener's side.                           *)
LEMMA Waits ==
    ASSUME TypeOK, OwnSocket, UNCHANGED accepts, NEW l \in Listener,
           NEW s \in {"first", "third"}, NEW v, stage[l] = "listening" \/ stage[l] = "first",
           stage' = [stage EXCEPT ![l] = s],
           hs' = [hs EXCEPT ![l] = v]
    PROVE  TypeOK' /\ OwnSocket' /\ CallsGoOn
<1>1. /\ stage' \in [Caller -> Stage] /\ stage'[l] = s /\ l \in Caller
      /\ \A q \in Caller : q # l => stage'[q] = stage[q]
  BY DEF TypeOK, Caller, Stage
<1>2. DOMAIN hs' = Caller /\ \A q \in Caller : q # l => hs'[q] = hs[q]
  BY DEF TypeOK
<1>3. TypeOK'
  BY <1>1, <1>2 DEF TypeOK
<1>4. OwnSocket'
  BY <1>1, <1>2 DEF OwnSocket, Caller
<1>5. CallsGoOn
  <2> SUFFICES ASSUME NEW k \in Listener
      PROVE  /\ accepts'[k] >= accepts[k]
             /\ stage'[k] \in {"listening", "first"} =>
                  stage[k] \in {"listening", "first"}
             /\ stage'[k] = "third" =>
                  \/ stage[k] \in {"listening", "first"}
                  \/ stage[k] = "third" /\ hs'[k].with = hs[k].with
    BY DEF CallsGoOn
  <2>1. k \in Caller /\ accepts[k] \in Nat
    BY DEF Caller, TypeOK
  <2>2. accepts'[k] >= accepts[k]
    BY <2>1
  <2>3. CASE k = l
    BY <1>1, <2>2, <2>3
  <2>4. CASE k # l
    BY <1>1, <1>2, <2>1, <2>2, <2>4
  <2> QED
    BY <2>3, <2>4
<1> QED
  BY <1>3, <1>4, <1>5

LEMMA ReadProbeStep ==
    ASSUME HandshakeInv, NEW l \in Listener, NEW d \in net, ReadProbe(l, d)
    PROVE  HandshakeInv'
<1>1. /\ TypeOK /\ OwnSocket /\ UNCHANGED <<accepts, completed>>
      /\ stage[l] = "listening"
  BY DEF HandshakeInv, ReadProbe
<1>2. CASE Valid(l, d.body)
  <2>1. /\ stage' = [stage EXCEPT ![l] = "first"]
        /\ hs' = [hs EXCEPT ![l] = [at |-> l, with |-> d.from]]
        /\ Exchanged(d, {Datagram(l, d.from, Probe(d.body.slot, l))})
    BY <1>2 DEF ReadProbe
  <2>4. TypeOK' /\ OwnSocket' /\ CallsGoOn
    BY <1>1, <2>1, Waits
  <2>3. Fits(Datagram(l, d.from, Probe(d.body.slot, l)))'
    BY Plain, Kinds
  <2> QED
    BY <1>1, <2>1, <2>3, <2>4, Reading, Through
<1>3. CASE ~Valid(l, d.body)
  <2>1. UNCHANGED <<stage, hs>> /\ Exchanged(d, {})
    BY <1>3 DEF ReadProbe
  <2>2. TypeOK' /\ OwnSocket' /\ CallsGoOn
    BY <1>1, <2>1, Rests
  <2> QED
    BY <1>1, <2>1, <2>2, Reading, Through
<1> QED
  BY <1>2, <1>3

(* The call's key is named in this message and in no other.                 *)
LEMMA ReadFirstStep ==
    ASSUME HandshakeInv, NEW l \in Listener, NEW d \in net, ReadFirst(l, d)
    PROVE  HandshakeInv'
<1> DEFINE i == IF d.body.kind = "first" THEN d.body.i ELSE Junk
           v == [at |-> l, with |-> hs[l].with, i |-> i]
<1>1. /\ TypeOK /\ OwnSocket /\ UNCHANGED <<accepts, completed>>
      /\ stage[l] = "first" /\ stage' = [stage EXCEPT ![l] = "third"]
      /\ hs' = [hs EXCEPT ![l] = v]
      /\ Exchanged(d, {Datagram(l, hs[l].with, Second(i, Responder(l)))})
  BY DEF HandshakeInv, ReadFirst
<1>2. TypeOK' /\ OwnSocket' /\ CallsGoOn
  <2> HIDE DEF v, i
  <2> QED
    BY <1>1, Waits
<1>3. \A e \in net' : e \in net \/ Fits(e)'
  <2> SUFFICES ASSUME NEW e \in net', e = Datagram(l, hs[l].with, Second(i, Responder(l)))
      PROVE  Fits(e)'
    BY <1>1, Reading
  <2> HIDE DEF i
  <2>1. /\ e.to = hs[l].with /\ e.body = Second(i, Responder(l))
        /\ e.body.kind = "second" /\ e.body.r = <<l, accepts[l]>>
    BY DEF Datagram, Second, Responder
  <2>2. l \in Caller /\ accepts[l] \in Nat
    BY <1>1 DEF TypeOK, Caller
  <2>3. hs'[l].with = hs[l].with /\ stage'[l] = "third" /\ accepts'[l] = accepts[l]
    BY <1>1, <2>2 DEF TypeOK
  <2>4. Answered(e.body.r, e.to)'
    BY <2>1, <2>2, <2>3 DEF Answered
  <2> QED
    BY <2>1, <2>4 DEF Fits
<1> QED
  BY <1>1, <1>2, <1>3, Through

(* The responder's end.                                                     *)
LEMMA ReadThirdStep ==
    ASSUME HandshakeInv, NEW l \in Listener, NEW d \in net, ReadThird(l, d)
    PROVE  HandshakeInv'
<1>1. /\ TypeOK /\ OwnSocket /\ UNCHANGED <<hs, accepts>> /\ l \in Caller
      /\ stage[l] = "third" /\ d.to = l /\ net' \subseteq net
  BY DEF HandshakeInv, ReadThird, Exchanged, Caller
<1>2. CASE ~Concludes(l, d.body)
  BY <1>1, <1>2, FailingStep DEF ReadThird
<1>3. CASE Concludes(l, d.body)
  <2> DEFINE x == [role |-> "R", at |-> l, with |-> hs[l].with, i |-> hs[l].i,
                   r |-> Responder(l), path |-> OwnPath(l)]
             s == IF OwnPath(l) = None THEN "failed" ELSE "done"
  <2>1. completed' = completed \union {x} /\ stage' = [stage EXCEPT ![l] = s]
    BY <1>3 DEF ReadThird
  <2>2. s \in Stage /\ s \notin {"listening", "first", "third", "second"}
    BY DEF Stage
  <2>3. TypeOK' /\ OwnSocket' /\ CallsGoOn
    <3> HIDE DEF s
    <3> QED
      BY <1>1, <2>1, <2>2, Goes
  <2>4. d.body.kind = "third" /\ d.body.i = hs[l].i /\ d.body.r = <<l, accepts[l]>>
    BY <1>3 DEF Concludes, Responder
  <2>5. PICK y \in completed : y.role = "I" /\ y.i = hs[l].i /\ y.r = <<l, accepts[l]>>
                                /\ y.with = l
    BY <1>1, <2>4 DEF HandshakeInv, ThirdsSent, InitiatorOf
  <2>6. Answered(y.r, y.at)
    BY <2>5 DEF HandshakeInv, InitiatorsAnswered
  <2>7. hs[l].with = y.at
    BY <1>1, <2>5, <2>6 DEF Answered
  <2>8. \A z \in completed' : z \in completed \/ Agreed(z)'
    <3> SUFFICES ASSUME NEW z \in completed', z = x PROVE Agreed(z)'
      BY <2>1
    <3>1. /\ z.role = "R" /\ z.at = l /\ z.with = hs[l].with /\ z.i = hs[l].i
          /\ z.r = <<l, accepts[l]>> /\ z.path = OwnPath(l)
      BY DEF Responder
    <3>2. y \in completed'
      BY <2>1
    <3>3. PathOf(y)
      BY <2>5 DEF HandshakeInv, InitiatorsAnswered
    <3>4. z.path # None => z.path = [socket |-> l, to |-> y.at]
      BY <2>7, <3>1 DEF OwnPath
    <3>5. z.path # None /\ y.path # None =>
             y.path.socket = Fresh(y.i) \/ Facing(z.path, y.path)
      <4> HIDE DEF x
      <4> QED
        BY <2>5, <3>3, <3>4 DEF PathOf, Facing
    <3>6. Met(z)'
      BY <2>5, <2>7, <3>1, <3>2, <3>5 DEF Met
    <3> QED
      BY <3>1, <3>6 DEF Agreed
  <2> QED
    BY <1>1, <2>1, <2>3, <2>8, Through
<1> QED
  BY <1>2, <1>3

-----------------------------------------------------------------------------
(* The rest of the system sends probes at most.                             *)

LEMMA MeshSteps ==
    ASSUME HandshakeInv, UNCHANGED <<stage, hs, accepts, completed>>,
           \/ net' \subseteq net
           \/ \E m \in Mesh, k \in Run : Emit(m, k)
    PROVE  HandshakeInv'
<1>1. TypeOK' /\ OwnSocket' /\ CallsGoOn
  BY Rests DEF HandshakeInv
<1>2. CASE net' \subseteq net
  BY <1>1, <1>2, Through
<1>3. CASE \E m \in Mesh, k \in Run : Emit(m, k)
  <2>1. PICK m \in Mesh, k \in Run : Emit(m, k)
    BY <1>3
  <2>2. \A d \in net' : d \in net \/ Fits(d)'
    BY <2>1, Plain, Kinds DEF Emit
  <2> QED
    BY <1>1, <2>2, Through
<1> QED
  BY <1>2, <1>3

LEMMA HandshakeInit == Init => HandshakeInv
<1> SUFFICES ASSUME Init PROVE HandshakeInv
  OBVIOUS
<1>1. TypeOK
  BY DEF Init, TypeOK, Caller, Stage
<1>2. OwnSocket
  BY DEF Init, OwnSocket
<1>3. net = {} /\ completed = {}
  BY DEF Init
<1> QED
  BY <1>1, <1>2, <1>3
     DEF HandshakeInv, SecondsSent, ThirdsSent, InitiatorsAnswered, SessionsAgree

LEMMA HandshakeNext == HandshakeInv /\ [Next]_vars => HandshakeInv'
<1> SUFFICES ASSUME HandshakeInv, [Next]_vars PROVE HandshakeInv'
  OBVIOUS
<1>1. CASE UNCHANGED vars
  BY <1>1, MeshSteps DEF vars, callVars
<1>2. CASE \E p \in Connector \union Mesh : Tick(p)
  BY <1>2, MeshSteps DEF Tick, callVars
<1>3. CASE \E c \in Connector : Connecting(c)
  BY <1>3, QuietSteps, GivesUpStep DEF Connecting, QuietCall, Caller
<1>4. CASE \E l \in Listener : Accept(l) \/ GivesUp(l)
  BY <1>4, AcceptStep, GivesUpStep DEF Caller
<1>5. CASE \E m \in Mesh, k \in Run : Running(m, k)
  <2> SUFFICES ASSUME NEW m \in Mesh, NEW k \in Run, Running(m, k) PROVE HandshakeInv'
    BY <1>5
  <2>1. UNCHANGED <<stage, hs, accepts, completed>>
    BY DEF Running, StartRun, Emit, TakeProbe, FindClosed, RunOut, Unregister, Return, callVars
  <2>2. Emit(m, k) \/ UNCHANGED net
    BY DEF Running, StartRun, TakeProbe, FindClosed, RunOut, Unregister, Return
  <2> QED
    BY <2>1, <2>2, MeshSteps
<1>6. CASE \E m \in Mesh : HandOver(m)
  BY <1>6, MeshSteps DEF HandOver, callVars
<1>7. ASSUME NEW d \in net, NEW c \in Connector, ReadByConnector(c, d) PROVE HandshakeInv'
  BY <1>7, ReadAnswerStep, ReadSecondStep, ReadRelayAnswerStep DEF ReadByConnector
<1>8. ASSUME NEW d \in net, NEW l \in Listener, ReadByListener(l, d) PROVE HandshakeInv'
  BY <1>8, ReadProbeStep, ReadFirstStep, ReadThirdStep DEF ReadByListener
<1>9. ASSUME NEW d \in net, NEW m \in Mesh, PickUp(m, d) PROVE HandshakeInv'
  BY <1>9, MeshSteps DEF PickUp, callVars, Exchanged
<1> QED
  BY <1>1, <1>2, <1>3, <1>4, <1>5, <1>6, <1>7, <1>8, <1>9 DEF Next

(* However many connectors, listeners and relays take part, and however     *)
(* often accept is called: who accepted a session did so with the initiator *)
(* of the very same handshake, between the same two addresses, and unless   *)
(* the initiator went through a relay, both sessions, if there are two,     *)
(* send to each other's socket.                                             *)
THEOREM HandshakesAgree == Spec => []SessionsAgree
<1>1. HandshakeInv => SessionsAgree
  BY DEF HandshakeInv
<1> QED
  BY HandshakeInit, HandshakeNext, <1>1, PTL DEF Spec

-----------------------------------------------------------------------------
(* Runs: a step moves one run of one node to a state, or none.              *)

Moves(m, k, s) ==
    \A n \in Mesh : \A j \in Run :
        run'[n][j].state = IF n = m /\ j = k THEN s ELSE run[n][j].state

RunShape ==
    /\ DOMAIN run = Mesh
    /\ \A m \in Mesh : DOMAIN run[m] = Run
    /\ \A m \in Mesh : \A k \in Run : DOMAIN run[m][k] = {"state", "last", "queue"}

LEMMA RunIndex ==
    /\ 0 \notin Run
    /\ \A j, k \in Run : j \in Int /\ (j < k => j \in 1..(k - 1))
    /\ \A k \in Run : \A j \in 1..(k - 1) : j \in Run /\ j < k
  BY RendezvousAssumption DEF Run

LEMMA SetRun ==
    ASSUME RunsOK, NEW m \in Mesh, NEW k \in Run, NEW r,
           DOMAIN r = {"state", "last", "queue"}, run' = [run EXCEPT ![m][k] = r]
    PROVE  RunShape' /\ Moves(m, k, r.state)
<1>1. DOMAIN run' = Mesh /\ \A n \in Mesh : DOMAIN run'[n] = Run
  BY DEF RunsOK
<1>2. \A n \in Mesh : \A j \in Run :
         run'[n][j] = IF n = m /\ j = k THEN r ELSE run[n][j]
  BY DEF RunsOK
<1>3. \A n \in Mesh : \A j \in Run : DOMAIN run'[n][j] = {"state", "last", "queue"}
  BY <1>2 DEF RunsOK
<1>4. Moves(m, k, r.state)
  BY <1>2 DEF Moves
<1> QED
  BY <1>1, <1>3, <1>4 DEF RunShape

(* The forms in which the actions write it.                                 *)
LEMMA SetState ==
    ASSUME RunsOK, NEW m \in Mesh, NEW k \in Run, NEW s,
           run' = [run EXCEPT ![m][k].state = s]
    PROVE  RunShape' /\ Moves(m, k, s)
<1> DEFINE r == [run[m][k] EXCEPT !.state = s]
<1>1. DOMAIN r = {"state", "last", "queue"} /\ r.state = s
  BY DEF RunsOK
<1>2. run' = [run EXCEPT ![m][k] = r]
  BY DEF RunsOK
<1> HIDE DEF r
<1>3. RunShape' /\ Moves(m, k, r.state)
  BY <1>1, <1>2, SetRun
<1> QED
  BY <1>1, <1>3 DEF Moves

LEMMA SetLast ==
    ASSUME RunsOK, NEW m \in Mesh, NEW k \in Run, NEW v,
           run' = [run EXCEPT ![m][k].last = v]
    PROVE  RunShape' /\ Moves(m, k, run[m][k].state)
<1> DEFINE r == [run[m][k] EXCEPT !.last = v]
<1>1. DOMAIN r = {"state", "last", "queue"} /\ r.state = run[m][k].state
  BY DEF RunsOK
<1>2. run' = [run EXCEPT ![m][k] = r]
  BY DEF RunsOK
<1> HIDE DEF r
<1> QED
  BY <1>1, <1>2, SetRun

LEMMA SetQueue ==
    ASSUME RunsOK, NEW m \in Mesh, NEW k \in Run, NEW v,
           run' = [run EXCEPT ![m][k].queue = v]
    PROVE  RunShape' /\ Moves(m, k, run[m][k].state)
<1> DEFINE r == [run[m][k] EXCEPT !.queue = v]
<1>1. DOMAIN r = {"state", "last", "queue"} /\ r.state = run[m][k].state
  BY DEF RunsOK
<1>2. run' = [run EXCEPT ![m][k] = r]
  BY DEF RunsOK
<1> HIDE DEF r
<1> QED
  BY <1>1, <1>2, SetRun

(* States as they were.                                                     *)
SameStates ==
    \A n \in Mesh : \A j \in Run : run'[n][j].state = run[n][j].state

LEMMA Unmoved ==
    ASSUME NEW m \in Mesh, NEW k \in Run, Moves(m, k, run[m][k].state)
    PROVE  SameStates
  BY DEF Moves, SameStates

(* A run that was let in and has ended stays so.                            *)
LEMMA FreedStays ==
    ASSUME NEW m \in Mesh, NEW k \in Run, Freed(m, k),
           \A j \in Run : run[m][j].state \in Past => run'[m][j].state \in Past
    PROVE  Freed(m, k)'
  BY RunIndex DEF Freed

(* Nothing of the runs' states moves: the entry may go only if nobody       *)
(* undisturbed holds it.                                                    *)
LEMMA Entries ==
    ASSUME RunInv, RunShape', SameStates,
           table' \in [Mesh -> Run \union {0}], leaving' \in [Mesh -> SUBSET Run],
           DOMAIN hand' = Mesh,
           \A m \in Mesh : leaving'[m] \subseteq leaving[m],
           \A m \in Mesh : hand'[m] # NoHand =>
               \/ hand'[m] = hand[m]
               \/ table[m] # 0 /\ hand'[m].run = table[m],
           \A m \in Mesh : \/ table'[m] = table[m]
                           \/ /\ table'[m] = 0
                              /\ \E j \in Run : run[m][j].state \in Past
    PROVE  RunInv'
<1>1. RunsOK'
  BY DEF RunInv, RunsOK, RunShape, SameStates
<1>2. InOrder'
  BY DEF RunInv, InOrder, SameStates
<1>3. LeaversEnded'
  BY <1>1 DEF RunInv, RunsOK, LeaversEnded, SameStates
<1>4. TableLetIn'
  BY DEF RunInv, RunsOK, TableLetIn, SameStates
<1>5. HolderLetIn'
  BY DEF RunInv, RunsOK, TableLetIn, HolderLetIn, SameStates
<1>6. \A m \in Mesh : \A k \in Run : Freed(m, k)' <=> Freed(m, k)
  BY RunIndex DEF Freed, SameStates
<1>7. Undisturbed'
  <2> SUFFICES ASSUME NEW m \in Mesh, NEW k \in Run,
                      run[m][k].state = "running", ~Freed(m, k)
      PROVE  /\ table'[m] = k
             /\ \A j \in Run : k < j => run[m][j].state \in {"new", "refused"}
    BY <1>6 DEF Undisturbed, SameStates
  <2>1. /\ table[m] = k
        /\ \A j \in Run : k < j => run[m][j].state \in {"new", "refused"}
    BY DEF RunInv, Undisturbed
  <2>2. \A j \in Run : run[m][j].state \notin Past
    <3> SUFFICES ASSUME NEW j \in Run, run[m][j].state \in Past PROVE FALSE
      OBVIOUS
    <3>1. ~(j < k)
      BY RunIndex DEF Freed
    <3>2. ~(k < j)
      BY <2>1 DEF Past, Ended
    <3>3. j # k
      BY DEF Past, Ended
    <3>4. j \in Int /\ k \in Int
      BY RunIndex
    <3> QED
      BY <3>1, <3>2, <3>3, <3>4
  <2> QED
    BY <2>1, <2>2
<1>8. ClosedByEarlier'
  <2>1. \A m \in Mesh : \A k \in Run : run[m][k].state = "closed" => Freed(m, k)
    BY DEF RunInv, ClosedByEarlier, Freed, Past
  <2>2. \A m \in Mesh : \A k \in Run : run'[m][k].state = "closed" => Freed(m, k)'
    BY <1>6, <2>1 DEF SameStates
  <2> QED
    BY <2>2 DEF ClosedByEarlier, Freed, Past
<1> QED
  BY <1>1, <1>2, <1>3, <1>4, <1>5, <1>7, <1>8 DEF RunInv

LEMMA StartRunStep ==
    ASSUME RunInv, NEW m \in Mesh, NEW k \in Run, StartRun(m, k)
    PROVE  RunInv'
<1>1. /\ RunsOK /\ InOrder /\ LeaversEnded /\ HolderLetIn /\ TableLetIn
      /\ Undisturbed /\ ClosedByEarlier
  BY DEF RunInv
<1>2. /\ run[m][k].state = "new" /\ UNCHANGED <<hand, leaving>>
      /\ \A j \in 1..(k - 1) : run[m][j].state # "new"
  BY DEF StartRun
<1>3. \A j \in Run : k < j => run[m][j].state = "new"
  BY <1>1, <1>2 DEF InOrder
<1>4. \A s \in {"running", "refused"} : Moves(m, k, s) =>
        /\ \A n \in Mesh : \A j \in Run : run'[n][j].state \in RunStates
        /\ InOrder' /\ LeaversEnded' /\ HolderLetIn'
        /\ \A n \in Mesh : \A j \in Run : Freed(n, j)' <=> Freed(n, j)
        /\ ClosedByEarlier'
  <2> SUFFICES ASSUME NEW s \in {"running", "refused"}, Moves(m, k, s)
      PROVE  /\ \A n \in Mesh : \A j \in Run : run'[n][j].state \in RunStates
             /\ InOrder' /\ LeaversEnded' /\ HolderLetIn'
             /\ \A n \in Mesh : \A j \in Run : Freed(n, j)' <=> Freed(n, j)
             /\ ClosedByEarlier'
    OBVIOUS
  <2>1. \A n \in Mesh : \A j \in Run : run'[n][j].state \in RunStates
    BY <1>1 DEF Moves, RunsOK, RunStates, Ended
  <2>2. InOrder'
    <3> SUFFICES ASSUME NEW n \in Mesh, NEW i \in Run, NEW j \in Run, i < j,
                        run'[n][i].state = "new"
        PROVE  run'[n][j].state = "new"
      BY DEF InOrder
    <3>1. run[n][i].state = "new" /\ ~(n = m /\ i = k)
      BY DEF Moves
    <3>2. run[n][j].state = "new"
      BY <1>1, <3>1 DEF InOrder
    <3>3. ~(n = m /\ j = k)
      BY <1>2, <3>1, RunIndex
    <3> QED
      BY <3>2, <3>3 DEF Moves
  <2>3. LeaversEnded'
    BY <1>1, <1>2 DEF LeaversEnded, Moves, RunsOK, Past, Ended
  <2>4. HolderLetIn'
    BY <1>1, <1>2 DEF HolderLetIn, Moves, Past, Ended
  <2>5. \A n \in Mesh : \A j \in Run :
          run'[n][j].state \in Past <=> run[n][j].state \in Past
    BY <1>2 DEF Moves, Past, Ended
  <2>6. \A n \in Mesh : \A j \in Run : Freed(n, j)' <=> Freed(n, j)
    BY <2>5, RunIndex DEF Freed
  <2>7. ClosedByEarlier'
    <3>1. \A n \in Mesh : \A j \in Run : run[n][j].state = "closed" => Freed(n, j)
      BY <1>1 DEF ClosedByEarlier, Freed, Past
    <3>2. \A n \in Mesh : \A j \in Run : run'[n][j].state = "closed" => Freed(n, j)'
      BY <2>6, <3>1 DEF Moves
    <3> QED
      BY <3>2 DEF ClosedByEarlier, Freed, Past
  <2> QED
    BY <2>1, <2>2, <2>3, <2>4, <2>6, <2>7
<1>5. CASE table[m] # 0
  <2>1. RunShape' /\ Moves(m, k, "refused") /\ UNCHANGED table
    BY <1>1, <1>5, SetState DEF StartRun
  <2>2. RunsOK'
    BY <1>1, <1>2, <1>4, <2>1 DEF RunsOK, RunShape
  <2>3. TableLetIn'
    BY <1>1, <1>2, <2>1 DEF TableLetIn, Moves, RunsOK, Past, Ended
  <2>4. Undisturbed'
    <3> SUFFICES ASSUME NEW n \in Mesh, NEW j \in Run,
                        run'[n][j].state = "running", ~Freed(n, j)
        PROVE  /\ table[n] = j
               /\ \A i \in Run : j < i => run'[n][i].state \in {"new", "refused"}
      BY <1>4, <2>1 DEF Undisturbed
    <3>1. run[n][j].state = "running"
      BY <2>1 DEF Moves
    <3> QED
      BY <1>1, <2>1, <3>1 DEF Undisturbed, Moves
  <2> QED
    BY <1>4, <2>1, <2>2, <2>3, <2>4 DEF RunInv
<1>6. CASE table[m] = 0
  <2>1. RunShape' /\ Moves(m, k, "running") /\ table' = [table EXCEPT ![m] = k]
    BY <1>1, <1>6, SetState DEF StartRun
  <2>2. RunsOK'
    BY <1>1, <1>2, <1>4, <2>1 DEF RunsOK, RunShape
  <2>3. \A n \in Mesh : table'[n] = IF n = m THEN k ELSE table[n]
    BY <1>1, <2>1 DEF RunsOK
  <2>4. TableLetIn'
    <3> SUFFICES ASSUME NEW n \in Mesh, table'[n] # 0
        PROVE  run'[n][table'[n]].state \in {"running"} \union Past
      BY DEF TableLetIn
    <3>1. CASE n = m
      BY <2>1, <2>3, <3>1 DEF Moves
    <3>2. CASE n # m
      BY <1>1, <2>1, <2>3, <3>2 DEF Moves, TableLetIn, RunsOK
    <3> QED
      BY <3>1, <3>2
  <2>5. Undisturbed'
    <3> SUFFICES ASSUME NEW n \in Mesh, NEW j \in Run,
                        run'[n][j].state = "running", ~Freed(n, j)
        PROVE  /\ table'[n] = j
               /\ \A i \in Run : j < i => run'[n][i].state \in {"new", "refused"}
      BY <1>4, <2>1 DEF Undisturbed
    <3>1. CASE n = m /\ j = k
      <4>1. \A i \in Run : j < i => i # k
        BY <3>1, RunIndex
      <4> QED
        BY <1>3, <2>1, <2>3, <3>1, <4>1 DEF Moves
    <3>2. CASE n = m /\ j # k
      <4>1. run[m][j].state = "running"
        BY <2>1, <3>2 DEF Moves
      <4>2. table[m] = j
        BY <1>1, <3>2, <4>1 DEF Undisturbed
      <4> QED
        BY <1>6, <4>2, RunIndex
    <3>3. CASE n # m
      BY <1>1, <2>1, <2>3, <3>3 DEF Undisturbed, Moves
    <3> QED
      BY <3>1, <3>2, <3>3
  <2> QED
    BY <1>4, <2>1, <2>2, <2>4, <2>5 DEF RunInv
<1> QED
  BY <1>5, <1>6

(* A run returns; how = "closed" only if an earlier one has ended.          *)
LEMMA ReturnStep ==
    ASSUME RunInv, NEW m \in Mesh, NEW k \in Run, NEW how \in Past, Return(m, k, how),
           run[m][k].state = "running", how = "closed" => Freed(m, k)
    PROVE  RunInv'
<1>1. /\ RunsOK /\ InOrder /\ LeaversEnded /\ HolderLetIn /\ TableLetIn
      /\ Undisturbed /\ ClosedByEarlier
  BY DEF RunInv
<1>2. RunShape' /\ Moves(m, k, how)
  <2> DEFINE r == [state |-> how, last |-> 0, queue |-> <<>>]
  <2>1. run' = [run EXCEPT ![m][k] = r]
    BY DEF Return
  <2>2. DOMAIN r = {"state", "last", "queue"} /\ r.state = how
    OBVIOUS
  <2> HIDE DEF r
  <2>3. RunShape' /\ Moves(m, k, r.state)
    BY <1>1, <2>1, <2>2, SetRun
  <2> QED
    BY <2>2, <2>3 DEF Moves
<1>3. /\ UNCHANGED <<table, hand>>
      /\ leaving' \in [Mesh -> SUBSET Run]
      /\ \A n \in Mesh : leaving'[n] = IF n = m THEN leaving[m] \union {k} ELSE leaving[n]
  BY <1>1 DEF Return, RunsOK
<1>4. RunsOK'
  BY <1>1, <1>2, <1>3 DEF RunsOK, RunShape, Moves, Past, RunStates
<1>5. how \notin {"new", "running", "refused"}
  BY DEF Past, Ended
<1>6. InOrder'
  <2> SUFFICES ASSUME NEW n \in Mesh, NEW i \in Run, NEW j \in Run, i < j,
                      run'[n][i].state = "new"
      PROVE  run'[n][j].state = "new"
    BY DEF InOrder
  <2>1. run[n][i].state = "new"
    BY <1>2, <1>5 DEF Moves
  <2>2. run[n][j].state = "new"
    BY <1>1, <2>1 DEF InOrder
  <2> QED
    BY <1>2, <2>2 DEF Moves
<1>7. LeaversEnded'
  <2> SUFFICES ASSUME NEW n \in Mesh, NEW j \in leaving'[n]
      PROVE  run'[n][j].state \in Past
    BY DEF LeaversEnded
  <2>1. j \in Run
    BY <1>3
  <2>2. (n = m /\ j = k) \/ j \in leaving[n]
    BY <1>3
  <2> QED
    BY <1>1, <1>2, <2>1, <2>2 DEF LeaversEnded, Moves
<1>8. HolderLetIn'
  BY <1>1, <1>2, <1>3 DEF HolderLetIn, Moves
<1>9. TableLetIn'
  BY <1>1, <1>2, <1>3 DEF TableLetIn, Moves, RunsOK
<1>10. \A n \in Mesh : \A j \in Run : Freed(n, j) => Freed(n, j)'
  <2>1. \A n \in Mesh : \A j \in Run : run[n][j].state \in Past => run'[n][j].state \in Past
    BY <1>2 DEF Moves
  <2> QED
    BY <2>1, FreedStays
<1>11. Undisturbed'
  <2> SUFFICES ASSUME NEW n \in Mesh, NEW j \in Run,
                      run'[n][j].state = "running", ~Freed(n, j)
      PROVE  /\ table'[n] = j
             /\ \A i \in Run : j < i => run'[n][i].state \in {"new", "refused"}
    BY <1>10 DEF Undisturbed
  <2>1. run[n][j].state = "running" /\ ~(n = m /\ j = k)
    BY <1>2, <1>5 DEF Moves
  <2>2. /\ table[n] = j
        /\ \A i \in Run : j < i => run[n][i].state \in {"new", "refused"}
    BY <1>1, <2>1 DEF Undisturbed
  <2> QED
    BY <1>2, <1>3, <2>2 DEF Moves
<1>12. ClosedByEarlier'
  <2>1. \A n \in Mesh : \A j \in Run : run[n][j].state = "closed" => Freed(n, j)
    BY <1>1 DEF ClosedByEarlier, Freed, Past
  <2>2. \A n \in Mesh : \A j \in Run : run'[n][j].state = "closed" => Freed(n, j)'
    BY <1>2, <1>10, <2>1 DEF Moves
  <2> QED
    BY <2>2 DEF ClosedByEarlier, Freed, Past
<1> QED
  BY <1>4, <1>6, <1>7, <1>8, <1>9, <1>11, <1>12 DEF RunInv

LEMMA TakeStep ==
    ASSUME RunInv, NEW m \in Mesh, NEW k \in Run,
           TakeProbe(m, k) \/ Emit(m, k) \/ FindClosed(m, k) \/ RunOut(m, k)
    PROVE  RunInv'
<1>1. RunsOK /\ run[m][k].state = "running"
  BY DEF RunInv, TakeProbe, Emit, FindClosed, RunOut
<1>2. CASE \/ Emit(m, k)
           \/ TakeProbe(m, k) /\ ~Valid(m, Head(run[m][k].queue))
  <2>1. UNCHANGED <<table, hand, leaving>>
    BY <1>2 DEF Emit, TakeProbe
  <2>2. RunShape' /\ Moves(m, k, run[m][k].state)
    BY <1>1, <1>2, SetLast, SetQueue DEF Emit, TakeProbe
  <2>3. SameStates
    BY <2>2, Unmoved
  <2> QED
    BY <1>1, <2>1, <2>2, <2>3, Entries DEF RunsOK
<1>3. CASE TakeProbe(m, k) /\ Valid(m, Head(run[m][k].queue))
  <2>1. Return(m, k, "met")
    BY <1>3 DEF TakeProbe
  <2>2. "met" \in Past
    BY DEF Past, Ended
  <2> QED
    BY <1>1, <2>1, <2>2, ReturnStep
<1>4. CASE FindClosed(m, k)
  <2>1. Return(m, k, "closed") /\ table[m] # k
    BY <1>4 DEF FindClosed
  <2>2. "closed" \in Past
    BY DEF Past, Ended
  <2>3. Freed(m, k)
    BY <1>1, <2>1 DEF RunInv, Undisturbed
  <2> QED
    BY <1>1, <2>1, <2>2, <2>3, ReturnStep
<1>5. CASE RunOut(m, k)
  <2>1. Return(m, k, "over")
    BY <1>5 DEF RunOut
  <2>2. "over" \in Past
    BY DEF Past, Ended
  <2> QED
    BY <1>1, <2>1, <2>2, ReturnStep
<1> QED
  BY <1>2, <1>3, <1>4, <1>5

LEMMA UnregisterStep ==
    ASSUME RunInv, NEW m \in Mesh, NEW k \in Run, Unregister(m, k)
    PROVE  RunInv'
<1>1. RunsOK /\ k \in leaving[m] /\ UNCHANGED <<run, hand>>
  BY DEF RunInv, Unregister
<1>2. /\ leaving' \in [Mesh -> SUBSET Run]
      /\ \A n \in Mesh : leaving'[n] \subseteq leaving[n]
  BY <1>1 DEF RunsOK, Unregister
<1>3. /\ table' \in [Mesh -> Run \union {0}]
      /\ \A n \in Mesh : table'[n] = IF n = m THEN 0 ELSE table[n]
  BY <1>1 DEF RunsOK, Unregister
<1>4. run[m][k].state \in Past
  BY <1>1 DEF RunInv, LeaversEnded
<1>5. RunShape' /\ SameStates
  BY <1>1 DEF RunsOK, RunShape, SameStates
<1>6. \A n \in Mesh : \/ table'[n] = table[n]
                      \/ /\ table'[n] = 0
                         /\ \E j \in Run : run[n][j].state \in Past
  BY <1>3, <1>4
<1> QED
  BY <1>1, <1>2, <1>3, <1>5, <1>6, Entries DEF RunsOK

LEMMA PickUpStep ==
    ASSUME RunInv, NEW m \in Mesh, NEW d \in net, PickUp(m, d)
    PROVE  RunInv'
<1>1. RunsOK /\ UNCHANGED <<run, table, leaving>>
  BY DEF RunInv, PickUp
<1>2. /\ DOMAIN hand' = Mesh
      /\ \A n \in Mesh : n # m => hand'[n] = hand[n]
      /\ hand'[m] = IF table[m] = 0 THEN NoHand ELSE [run |-> table[m], probe |-> d.body]
  BY <1>1 DEF RunsOK, PickUp
<1>3. RunShape' /\ SameStates
  BY <1>1 DEF RunsOK, RunShape, SameStates
<1>4. \A n \in Mesh : hand'[n] # NoHand =>
         \/ hand'[n] = hand[n]
         \/ table[n] # 0 /\ hand'[n].run = table[n]
  BY <1>2
<1> QED
  BY <1>1, <1>2, <1>3, <1>4, Entries DEF RunsOK

LEMMA HandOverStep ==
    ASSUME RunInv, NEW m \in Mesh, HandOver(m)
    PROVE  RunInv'
<1> DEFINE k == hand[m].run
<1>1. /\ RunsOK /\ UNCHANGED leaving /\ hand[m] # NoHand
      /\ hand' = [hand EXCEPT ![m] = NoHand]
  BY DEF RunInv, HandOver
<1>2. k \in Run /\ run[m][k].state \in {"running"} \union Past
  BY <1>1 DEF RunInv, HolderLetIn
<1>3. /\ DOMAIN hand' = Mesh
      /\ \A n \in Mesh : hand'[n] # NoHand => hand'[n] = hand[n]
  BY <1>1 DEF RunsOK
<1>4. CASE run[m][k].state = "running"
  <2>1. UNCHANGED table
    BY <1>4 DEF HandOver
  <2>2. RunShape' /\ Moves(m, k, run[m][k].state)
    <3>1. PICK v : run' = [run EXCEPT ![m][k].queue = v]
      BY <1>4 DEF HandOver
    <3> HIDE DEF k
    <3> QED
      BY <1>1, <1>2, <3>1, SetQueue
  <2>3. SameStates
    <3> HIDE DEF k
    <3> QED
      BY <1>2, <2>2, Unmoved
  <2> QED
    BY <1>1, <1>3, <2>1, <2>2, <2>3, Entries DEF RunsOK
<1>5. CASE run[m][k].state # "running"
  <2>1. UNCHANGED run /\ table' = [table EXCEPT ![m] = 0]
    BY <1>5 DEF HandOver
  <2>2. /\ table' \in [Mesh -> Run \union {0}]
        /\ \A n \in Mesh : table'[n] = IF n = m THEN 0 ELSE table[n]
    BY <1>1, <2>1 DEF RunsOK
  <2>3. RunShape' /\ SameStates
    BY <1>1, <2>1 DEF RunsOK, RunShape, SameStates
  <2>4. \A n \in Mesh : \/ table'[n] = table[n]
                        \/ /\ table'[n] = 0
                           /\ \E j \in Run : run[n][j].state \in Past
    BY <1>2, <1>5, <2>2
  <2> QED
    BY <1>1, <1>3, <2>2, <2>3, <2>4, Entries DEF RunsOK
<1> QED
  BY <1>4, <1>5

LEMMA OtherSteps ==
    ASSUME RunInv, UNCHANGED meshVars
    PROVE  RunInv'
<1>1. UNCHANGED <<run, table, hand, leaving>>
  BY DEF meshVars
<1>2. RunsOK' /\ InOrder' /\ LeaversEnded' /\ HolderLetIn' /\ TableLetIn'
  BY <1>1 DEF RunInv, RunsOK, InOrder, LeaversEnded, HolderLetIn, TableLetIn
<1>3. Undisturbed' /\ ClosedByEarlier'
  BY <1>1 DEF RunInv, Undisturbed, ClosedByEarlier, Freed
<1> QED
  BY <1>2, <1>3 DEF RunInv

LEMMA RunInit == Init => RunInv
<1> SUFFICES ASSUME Init PROVE RunInv
  OBVIOUS
<1>1. /\ run = [m \in Mesh |-> [k \in Run |-> [state |-> "new", last |-> 0, queue |-> <<>>]]]
      /\ table = [m \in Mesh |-> 0] /\ leaving = [m \in Mesh |-> {}]
      /\ hand = [m \in Mesh |-> NoHand]
  BY DEF Init, NoRun
<1>2. \A m \in Mesh : \A k \in Run : run[m][k].state = "new"
  BY <1>1
<1>3. RunsOK
  BY <1>1 DEF RunsOK, RunStates
<1>4. InOrder /\ LeaversEnded /\ HolderLetIn /\ TableLetIn
  BY <1>1, <1>2 DEF InOrder, LeaversEnded, HolderLetIn, TableLetIn
<1>5. Undisturbed /\ ClosedByEarlier
  BY <1>2 DEF Undisturbed, ClosedByEarlier
<1> QED
  BY <1>3, <1>4, <1>5 DEF RunInv

LEMMA RunNext == RunInv /\ [Next]_vars => RunInv'
<1> SUFFICES ASSUME RunInv, [Next]_vars PROVE RunInv'
  OBVIOUS
<1>1. CASE UNCHANGED vars
  BY <1>1, OtherSteps DEF vars
<1>2. CASE \E p \in Connector \union Mesh : Tick(p)
  BY <1>2, OtherSteps DEF Tick
<1>3. CASE \E c \in Connector : Connecting(c)
  BY <1>3, OtherSteps
     DEF Connecting, SendProbes, Deadline, Allocate, RelayProbe, NoRelayAnswer, GivesUp
<1>4. CASE \E l \in Listener : Accept(l) \/ GivesUp(l)
  BY <1>4, OtherSteps DEF Accept, GivesUp
<1>5. CASE \E m \in Mesh, k \in Run : Running(m, k)
  BY <1>5, StartRunStep, TakeStep, UnregisterStep DEF Running
<1>6. CASE \E m \in Mesh : HandOver(m)
  BY <1>6, HandOverStep
<1>7. ASSUME NEW d \in net, NEW c \in Connector, ReadByConnector(c, d) PROVE RunInv'
  BY <1>7, OtherSteps
     DEF ReadByConnector, ReadAnswer, ReadSecond, ReadRelayAnswer, ReadRelaySecond
<1>8. ASSUME NEW d \in net, NEW l \in Listener, ReadByListener(l, d) PROVE RunInv'
  BY <1>8, OtherSteps DEF ReadByListener, ReadProbe, ReadFirst, ReadThird
<1>9. ASSUME NEW d \in net, NEW m \in Mesh, PickUp(m, d) PROVE RunInv'
  BY <1>9, PickUpStep
<1> QED
  BY <1>1, <1>2, <1>3, <1>4, <1>5, <1>6, <1>7, <1>8, <1>9 DEF Next

(* However many runs a node makes and however full the queues are: a run    *)
(* finds its queue closed only after an earlier run of the node has ended.  *)
THEOREM RunsKept == Spec => []ClosedByEarlier
<1>1. RunInv => ClosedByEarlier
  BY DEF RunInv
<1> QED
  BY RunInit, RunNext, <1>1, PTL DEF Spec
=============================================================================
