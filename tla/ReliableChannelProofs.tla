----------------------- MODULE ReliableChannelProofs -----------------------
(***************************************************************************)
(* Theorems about ReliableChannel for every number of calls, attempts,     *)
(* channels and sends, and every size of the queues: what an               *)
(* acknowledgement means, that a datagram comes out at most once, and that *)
(* a reliable channel implements OrderedStream.                            *)
(***************************************************************************)
EXTENDS ReliableChannel, FiniteSetTheorems, TLAPS

(* The records of Calls and Demux by name.                                  *)
Busy == [pc : {"seal", "transmit", "wait"}, kind : ChannelKind, chan : ChannelId,
         seq : Nat, tries : 0..(Attempts - 1), n : Nat, fired : BOOLEAN]

Acking  == [pc : {"ack", "insert"}, frame : Frame, n : Nat]
Pushing == [pc : {"push"}, kind : ChannelKind, chan : ChannelId, list : Seq(Nat)]

(* What waits for those before it.                                          *)
Recv == {r \in [next : Nat, buffered : SUBSET Nat] : IsFiniteSet(r.buffered)}

Return == [sent : Payload1, how : {"ok", "io", "timeout"}]

(* The type invariant, by the parts that change together; a buffer is       *)
(* finite.                                                                  *)
Handles ==
    /\ opened \in [Peer -> 0..MaxChannel]
    /\ kind \in [Peer -> [ChannelId -> ChannelKind]]
    /\ channels \in [Peer -> SUBSET ChannelId]

Sending ==
    /\ nextSeq \in [Peer -> [ChannelId -> Nat]]
    /\ call \in [Peer -> [Task -> Calls]]
    /\ waiters \in [Peer -> SUBSET [chan : ChannelId, seq : Nat]]
    /\ sends \in [Peer -> Nat]
    /\ returned \in [Peer -> SUBSET Return]

Wires ==
    /\ tx \in [Peer -> Nat]
    /\ rx \in [Peer -> Nat]
    /\ wire \in [Peer -> SUBSET Sealed]

Receiving ==
    /\ demux \in [Peer -> Demux]
    /\ \A p \in Peer : demux[p].pc = "push" => demux[p].list # <<>>
    /\ recv \in [Peer -> [ChannelId -> Recv]]
    /\ queued \in [Peer -> [ChannelId -> [ChannelKind -> Seq(Nat)]]]
    /\ taken \in [Peer -> [ChannelId -> Nat]]
    /\ stop \in [Peer -> BOOLEAN]
    /\ dropped \in [Peer -> SUBSET Payload1]

Types == Handles /\ Sending /\ Wires /\ Receiving

-----------------------------------------------------------------------------
(* General facts.                                                           *)

LEMMA Others ==
    ASSUME NEW p \in Peer
    PROVE  Other(p) \in Peer /\ Other(p) # p /\ Other(Other(p)) = p
<1>1. IsFiniteSet(Peer) /\ Cardinality(Peer) = 2
  BY SessionAssumption
<1>2. IsFiniteSet(Peer \ {p}) /\ Cardinality(Peer \ {p}) = 1
  BY <1>1, FS_RemoveElement
<1>3. PICK q : Peer \ {p} = {q}
  BY <1>2, FS_Singleton
<1>4. q \in Peer /\ q # p /\ \A r \in Peer : r = p \/ r = q
  BY <1>3
<1>5. Other(p) = q
  BY <1>4 DEF Other
<1>6. Other(q) = p
  BY <1>4 DEF Other
<1>7. QED
  BY <1>4, <1>5, <1>6

LEMMA BusyCalls ==
    ASSUME NEW x \in Calls
    PROVE  x.pc \in {"seal", "transmit", "wait"} => x \in Busy
BY DEF Calls, Busy, Idle

LEMMA CallKinds ==
    Calls = {Idle} \union Busy
BY DEF Calls, Busy

LEMMA DemuxKinds ==
    /\ Demux = [pc : {"recv", "stopped"}] \union Acking \union Pushing
    /\ \A d \in Demux : d.pc \in {"ack", "insert"} => d \in Acking
    /\ \A d \in Demux : d.pc = "push" => d \in Pushing
BY DEF Demux, Acking, Pushing

LEMMA Payloading ==
    ASSUME NEW x \in Busy PROVE Payload(x) \in Payload1
BY DEF Payload, Payload1, Busy

LEMMA Numbers ==
    /\ ChannelId = 1..MaxChannel /\ MaxChannel \in Nat
    /\ Attempts \in Nat \ {0} /\ QueueSize \in Nat \ {0}
BY SessionAssumption DEF ChannelId

(* The numbers that leave the buffer follow next.                           *)
LEMMA Draining ==
    ASSUME NEW next \in Nat, NEW buffered \in SUBSET Nat, IsFiniteSet(buffered)
    PROVE  LET list == Drain(next, buffered)
               run  == {s \in buffered : next..s \subseteq buffered}
           IN  /\ list \in Seq(Nat)
               /\ Len(list) = Cardinality(run)
               /\ IsFiniteSet(run)
               /\ \A i \in 1..Len(list) : list[i] = next + i - 1
<1> DEFINE run == {s \in buffered : next..s \subseteq buffered}
           K == Cardinality(run)
<1>1. IsFiniteSet(run) /\ K \in Nat
  <2>1. IsFiniteSet(run)
    BY FS_Subset
  <2>2. QED
    BY <2>1, FS_CardinalityType
<1>2. Drain(next, buffered) = [i \in 1..K |-> next + i - 1]
  BY DEF Drain
<1> HIDE DEF run, K
<1>3. [i \in 1..K |-> next + i - 1] \in Seq(Nat) /\ Len([i \in 1..K |-> next + i - 1]) = K
  BY <1>1
<1>4. QED
  BY <1>1, <1>2, <1>3 DEF run, K

LEMMA Ranges ==
    ASSUME NEW S, NEW s \in Seq(S)
    PROVE  Range(s) = {s[i] : i \in 1..Len(s)} /\ Range(s) \subseteq S
BY DEF Range

LEMMA Appended ==
    ASSUME NEW s \in Seq(Nat), NEW k \in Nat
    PROVE  /\ Append(s, k) \in Seq(Nat) /\ Len(Append(s, k)) = Len(s) + 1
           /\ Len(s) \in Nat
           /\ \A i \in 1..Len(s) : Append(s, k)[i] = s[i]
           /\ Append(s, k)[Len(s) + 1] = k
OBVIOUS

LEMMA HeadTail ==
    ASSUME NEW s \in Seq(Nat), s # <<>>
    PROVE  /\ Head(s) \in Nat /\ Head(s) = s[1]
           /\ Tail(s) \in Seq(Nat) /\ Len(Tail(s)) = Len(s) - 1 /\ Len(s) > 0
           /\ \A i \in 1..Len(Tail(s)) : Tail(s)[i] = s[i + 1]
OBVIOUS

-----------------------------------------------------------------------------
(* Types.                                                                   *)

LEMMA EmptyRecv == Empty \in Recv
BY FS_EmptySet DEF Empty, Recv

LEMMA TypesInit == Init => Types
<1> SUFFICES ASSUME Init PROVE Types
  OBVIOUS
<1>1. "ReliableOrdered" \in ChannelKind
  BY DEF ChannelKind
<1>2. Handles
  BY <1>1, Numbers DEF Init, Handles
<1>3. Sending
  BY CallKinds DEF Init, Sending
<1>4. Wires
  BY DEF Init, Wires
<1>5. Receiving
  <2>1. [pc |-> "recv"] \in Demux
    BY DEF Demux
  <2>2. QED
    BY <2>1, EmptyRecv DEF Init, Receiving
<1>6. QED
  BY <1>2, <1>3, <1>4, <1>5 DEF Types

LEMMA OpenTypes ==
    ASSUME Types, NEW p \in Peer, NEW k \in ChannelKind, OpenChannel(p, k)
    PROVE  Types'
<1> DEFINE c == opened[p] + 1
<1>1. /\ c \in ChannelId
      /\ opened' = [opened EXCEPT ![p] = c]
      /\ kind' = [kind EXCEPT ![p][c] = k]
      /\ channels' = [channels EXCEPT ![p] = @ \union {c}]
  BY DEF OpenChannel
<1>2. UNCHANGED <<nextSeq, call, waiters, sends, returned, tx, rx, wire, demux, queued,
                  taken, stop>>
  BY DEF OpenChannel, callVars
<1>3. \/ UNCHANGED <<recv, dropped>>
      \/ /\ recv' = [recv EXCEPT ![p][c] = Empty]
         /\ dropped' = [dropped EXCEPT ![p] = @ \union Buffered(p, c)]
  BY DEF OpenChannel
<1> HIDE DEF c
<1>4. Handles'
  BY <1>1, Numbers DEF Types, Handles
<1>5. Buffered(p, c) \subseteq Payload1
  BY <1>1 DEF Buffered, Payloads, Payload1, ChannelKind, Types, Receiving, Recv
<1>6. Receiving'
  <2>1. recv' \in [Peer -> [ChannelId -> Recv]]
    <3>1. ASSUME recv' = [recv EXCEPT ![p][c] = Empty] PROVE recv' \in [Peer -> [ChannelId -> Recv]]
      BY <1>1, <3>1, EmptyRecv DEF Types, Receiving
    <3>2. QED
      BY <1>3, <3>1 DEF Types, Receiving
  <2>2. dropped' \in [Peer -> SUBSET Payload1]
    BY <1>3, <1>5 DEF Types, Receiving
  <2>3. QED
    BY <1>2, <2>1, <2>2 DEF Types, Receiving
<1>7. Sending' /\ Wires'
  BY <1>2 DEF Types, Sending, Wires
<1>8. QED
  BY <1>4, <1>6, <1>7 DEF Types

LEMMA CloseTypes ==
    ASSUME Types, NEW p \in Peer, NEW c \in ChannelId, Close(p, c)
    PROVE  Types'
<1>1. /\ channels' = [channels EXCEPT ![p] = @ \ {c}]
      /\ recv' = [recv EXCEPT ![p][c] = Empty]
      /\ dropped' = [dropped EXCEPT ![p] = @ \union Buffered(p, c)]
      /\ waiters' = [waiters EXCEPT ![p] = {w \in @ : w.chan # c}]
  BY DEF Close
<1>2. UNCHANGED <<opened, kind, nextSeq, call, sends, returned, tx, rx, wire, demux,
                  queued, taken, stop>>
  BY DEF Close, callVars
<1>3. Handles'
  BY <1>1, <1>2 DEF Types, Handles
<1>4. Buffered(p, c) \subseteq Payload1
  BY DEF Buffered, Payloads, Payload1, ChannelKind, Types, Receiving, Recv
<1>5. Receiving'
  <2>1. recv' \in [Peer -> [ChannelId -> Recv]]
    BY <1>1, EmptyRecv DEF Types, Receiving
  <2>2. dropped' \in [Peer -> SUBSET Payload1]
    BY <1>1, <1>4 DEF Types, Receiving
  <2>3. QED
    BY <1>2, <2>1, <2>2 DEF Types, Receiving
<1>6. Sending'
  BY <1>1, <1>2 DEF Types, Sending
<1>7. Wires'
  BY <1>2 DEF Types, Wires
<1>8. QED
  BY <1>3, <1>5, <1>6, <1>7 DEF Types

LEMMA SendTypes ==
    ASSUME Types, NEW p \in Peer, NEW t \in Task, NEW c \in ChannelId, Send(p, t, c)
    PROVE  Types'
<1> DEFINE x == [pc |-> "seal", kind |-> kind[p][c], chan |-> c, seq |-> nextSeq[p][c],
                 tries |-> 0, n |-> 0, fired |-> FALSE]
<1>1. /\ sends' = [sends EXCEPT ![p] = @ + 1]
      /\ nextSeq' = [nextSeq EXCEPT ![p][c] = @ + 1]
      /\ call' = [call EXCEPT ![p][t] = x]
  BY DEF Send
<1>2. UNCHANGED <<opened, kind, channels, returned, waiters, tx, rx, wire, demux, recv,
                  queued, taken, stop, dropped>>
  BY DEF Send, handleVars
<1>3. x \in Busy
  BY Numbers DEF Busy, Types, Handles, Sending
<1> HIDE DEF x
<1>4. call' \in [Peer -> [Task -> Calls]]
  BY <1>1, <1>3, CallKinds DEF Types, Sending
<1>5. Sending'
  BY <1>1, <1>2, <1>4 DEF Types, Sending
<1>6. Handles' /\ Wires' /\ Receiving'
  BY <1>2 DEF Types, Handles, Wires, Receiving
<1>7. QED
  BY <1>5, <1>6 DEF Types

(* The call of one task changes to x, a record of the same type.            *)
LEMMA CallUpdate ==
    ASSUME Types, NEW p \in Peer, NEW t \in Task, NEW x \in Busy \union {Idle},
           call' = [call EXCEPT ![p][t] = x]
    PROVE  call' \in [Peer -> [Task -> Calls]]
BY CallKinds DEF Types, Sending

LEMMA SealTypes ==
    ASSUME Types, NEW p \in Peer, NEW t \in Task, Seal(p, t)
    PROVE  Types'
<1> DEFINE x == call[p][t]
           y == [x EXCEPT !.pc = "transmit", !.n = tx[p], !.fired = FALSE]
<1>1. /\ waiters' = waiters \/ waiters' = [waiters EXCEPT ![p] = @ \union {Key(x)}]
      /\ tx' = [tx EXCEPT ![p] = @ + 1]
      /\ call' = [call EXCEPT ![p][t] = y]
  BY DEF Seal
<1>2. UNCHANGED <<opened, kind, channels, nextSeq, sends, returned, rx, wire, demux,
                  recv, queued, taken, stop, dropped>>
  BY DEF Seal, handleVars
<1>3. x \in Busy
  BY BusyCalls DEF Seal, Types, Sending
<1>4. tx[p] \in Nat
  BY DEF Types, Wires
<1>5. y \in Busy
  BY <1>3, <1>4 DEF Busy
<1>6. Key(x) \in [chan : ChannelId, seq : Nat]
  BY <1>3 DEF Key, Busy
<1> HIDE DEF x, y
<1>7. call' \in [Peer -> [Task -> Calls]]
  BY <1>1, <1>5, CallUpdate
<1>8. waiters' \in [Peer -> SUBSET [chan : ChannelId, seq : Nat]]
  <2>1. waiters[p] \union {Key(x)} \in SUBSET [chan : ChannelId, seq : Nat]
    BY <1>6 DEF Types, Sending
  <2>2. QED
    BY <1>1, <2>1 DEF Types, Sending
<1>9. Sending'
  BY <1>2, <1>7, <1>8 DEF Types, Sending
<1>10. Wires'
  BY <1>1, <1>2, <1>4 DEF Types, Wires
<1>11. Handles' /\ Receiving'
  BY <1>2 DEF Types, Handles, Receiving
<1>12. QED
  BY <1>9, <1>10, <1>11 DEF Types

LEMMA FinishTypes ==
    ASSUME Types, NEW p \in Peer, NEW t \in Task, call[p][t].pc # "idle",
           NEW how \in {"ok", "io", "timeout"}, Finish(p, t, how)
    PROVE  /\ call' \in [Peer -> [Task -> Calls]]
           /\ returned' \in [Peer -> SUBSET Return]
<1>1. call[p][t] \in Busy
  BY CallKinds DEF Types, Sending, Idle
<1>2. [sent |-> Payload(call[p][t]), how |-> how] \in Return
  BY <1>1, Payloading DEF Return
<1>3. returned' \in [Peer -> SUBSET Return]
  BY <1>2 DEF Finish, Types, Sending
<1>4. call' \in [Peer -> [Task -> Calls]]
  BY CallUpdate DEF Finish
<1>5. QED
  BY <1>3, <1>4

LEMMA TransmitTypes ==
    ASSUME Types, NEW p \in Peer, NEW t \in Task, Transmit(p, t)
    PROVE  Types'
<1> DEFINE x == call[p][t]
<1>1. /\ x.pc = "transmit"
      /\ wire' = [wire EXCEPT ![Other(p)] = @ \union {DataFrame(x)}]
      /\ \/ call' = [call EXCEPT ![p][t] = [x EXCEPT !.pc = "wait"]] /\ returned' = returned
         \/ Finish(p, t, "ok")
  BY DEF Transmit
<1>2. UNCHANGED <<opened, kind, channels, nextSeq, sends, waiters, tx, rx, demux, recv,
                  queued, taken, stop, dropped>>
  BY DEF Transmit, handleVars
<1>3. x \in Busy
  BY <1>1, BusyCalls DEF Types, Sending
<1>4. DataFrame(x) \in Sealed
  BY <1>3 DEF Busy, DataFrame, Sealed, Frame
<1>5. Wires'
  BY <1>1, <1>2, <1>4, Others DEF Types, Wires
<1>6. [x EXCEPT !.pc = "wait"] \in Busy
  BY <1>3 DEF Busy
<1>7. /\ call' \in [Peer -> [Task -> Calls]]
      /\ returned' \in [Peer -> SUBSET Return]
  <2>1. CASE Finish(p, t, "ok")
    BY <2>1, <1>1, FinishTypes
  <2>2. CASE call' = [call EXCEPT ![p][t] = [x EXCEPT !.pc = "wait"]] /\ returned' = returned
    <3>1. returned' \in [Peer -> SUBSET Return]
      BY <2>2 DEF Types, Sending
    <3>2. call' \in [Peer -> [Task -> Calls]]
      BY <2>2, <1>6, CallUpdate
    <3>3. QED
      BY <3>1, <3>2
  <2>3. QED
    BY <2>1, <2>2, <1>1
<1>8. Sending'
  BY <1>2, <1>7 DEF Types, Sending
<1>9. Handles' /\ Receiving'
  BY <1>2 DEF Types, Handles, Receiving
<1>10. QED
  BY <1>5, <1>8, <1>9 DEF Types

LEMMA ReturnTypes ==
    ASSUME Types, NEW p \in Peer, NEW t \in Task,
           TransmitFails(p, t) \/ Acknowledged(p, t)
    PROVE  Types'
<1>1. call[p][t].pc # "idle" /\ (Finish(p, t, "io") \/ Finish(p, t, "ok"))
  BY DEF TransmitFails, Acknowledged
<1>2. UNCHANGED <<opened, kind, channels, nextSeq, sends, waiters, tx, rx, wire, demux,
                  recv, queued, taken, stop, dropped>>
  BY DEF TransmitFails, Acknowledged, handleVars
<1>3. /\ call' \in [Peer -> [Task -> Calls]]
      /\ returned' \in [Peer -> SUBSET Return]
  BY <1>1, FinishTypes
<1>4. Sending'
  BY <1>2, <1>3 DEF Types, Sending
<1>5. Handles' /\ Wires' /\ Receiving'
  BY <1>2 DEF Types, Handles, Wires, Receiving
<1>6. QED
  BY <1>4, <1>5 DEF Types

LEMMA RetryTypes ==
    ASSUME Types, NEW p \in Peer, NEW t \in Task, Retry(p, t)
    PROVE  Types'
<1> DEFINE x == call[p][t]
           y == [x EXCEPT !.pc = "seal", !.tries = @ + 1]
<1>1. /\ x.pc = "wait"
      /\ waiters' = [waiters EXCEPT ![p] = @ \ {Key(x)}]
      /\ \/ Finish(p, t, "timeout")
         \/ /\ ~(x.tries + 1 >= Attempts)
            /\ call' = [call EXCEPT ![p][t] = y]
            /\ returned' = returned
  BY DEF Retry
<1>2. UNCHANGED <<opened, kind, channels, nextSeq, sends, tx, rx, wire, demux, recv,
                  queued, taken, stop, dropped>>
  BY DEF Retry, handleVars
<1>3. x \in Busy
  BY <1>1, BusyCalls DEF Types, Sending
<1>4. ~(x.tries + 1 >= Attempts) => y \in Busy
  <2>1. x.tries \in 0..(Attempts - 1)
    BY <1>3 DEF Busy
  <2>2. ~(x.tries + 1 >= Attempts) => x.tries + 1 \in 0..(Attempts - 1)
    BY <2>1, Numbers
  <2>3. QED
    BY <1>3, <2>2 DEF Busy
<1>5. /\ call' \in [Peer -> [Task -> Calls]]
      /\ returned' \in [Peer -> SUBSET Return]
  <2>1. CASE Finish(p, t, "timeout")
    BY <2>1, <1>1, FinishTypes
  <2>2. CASE ~Finish(p, t, "timeout")
    <3>1. call' = [call EXCEPT ![p][t] = y] /\ returned' = returned /\ y \in Busy
      BY <2>2, <1>1, <1>4
    <3> HIDE DEF y
    <3>2. call' \in [Peer -> [Task -> Calls]]
      BY <3>1, CallUpdate
    <3>3. QED
      BY <3>1, <3>2 DEF Types, Sending
  <2>3. QED
    BY <2>1, <2>2
<1>6. waiters' \in [Peer -> SUBSET [chan : ChannelId, seq : Nat]]
  BY <1>1 DEF Types, Sending
<1>7. Sending'
  BY <1>2, <1>5, <1>6 DEF Types, Sending
<1>8. Handles' /\ Wires' /\ Receiving'
  BY <1>2 DEF Types, Handles, Wires, Receiving
<1>9. QED
  BY <1>7, <1>8 DEF Types

LEMMA FrameType ==
    ASSUME Types, NEW p \in Peer, NEW d \in wire[p]
    PROVE  d \in Sealed /\ d.frame \in Frame /\ d.n \in Nat
BY DEF Types, Wires, Sealed

(* Opening a datagram only moves the nonce on.                              *)
LEMMA OpensType ==
    ASSUME Types, NEW p \in Peer, NEW d, Opens(p, d)
    PROVE  rx' \in [Peer -> Nat] /\ d.n = rx[p] /\ rx' = [rx EXCEPT ![p] = @ + 1]
BY DEF Opens, Types, Wires

LEMMA RecvAckTypes ==
    ASSUME Types, NEW p \in Peer, NEW d \in wire[p], RecvAck(p, d)
    PROVE  Types'
<1> DEFINE w == [chan |-> d.frame.chan, seq |-> d.frame.seq]
           waits(t) == /\ w \in waiters[p]
                       /\ call[p][t].pc \in {"transmit", "wait"}
                       /\ call[p][t].kind = "ReliableOrdered"
                       /\ Key(call[p][t]) = w
           row == [t \in Task |-> IF waits(t) THEN [call[p][t] EXCEPT !.fired = TRUE]
                                  ELSE call[p][t]]
<1>1. /\ waiters' = [waiters EXCEPT ![p] = @ \ {w}]
      /\ call' = [call EXCEPT ![p] = row]
  BY DEF RecvAck
<1>2. UNCHANGED <<opened, kind, channels, nextSeq, sends, returned, tx, wire, demux,
                  recv, queued, taken, stop, dropped>>
  BY DEF RecvAck, handleVars
<1>3. ASSUME NEW t \in Task, waits(t)
      PROVE  [call[p][t] EXCEPT !.fired = TRUE] \in Calls
  <2>1. call[p][t] \in Busy
    BY <1>3, BusyCalls DEF Types, Sending
  <2>2. [call[p][t] EXCEPT !.fired = TRUE] \in Busy
    BY <2>1 DEF Busy
  <2>3. QED
    BY <2>2, CallKinds
<1>4. row \in [Task -> Calls]
  BY <1>3 DEF Types, Sending
<1> HIDE DEF row, w
<1>5. call' \in [Peer -> [Task -> Calls]]
  BY <1>1, <1>4 DEF Types, Sending
<1>6. waiters' \in [Peer -> SUBSET [chan : ChannelId, seq : Nat]]
  BY <1>1 DEF Types, Sending
<1>7. Sending'
  BY <1>2, <1>5, <1>6 DEF Types, Sending
<1>8. Wires'
  BY <1>2, OpensType DEF Types, Wires, RecvAck
<1>9. Handles' /\ Receiving'
  BY <1>2 DEF Types, Handles, Receiving
<1>10. QED
  BY <1>7, <1>8, <1>9 DEF Types

(* The demultiplexer of p turns to d.                                       *)
LEMMA DemuxUpdate ==
    ASSUME Types, NEW p \in Peer, NEW d \in Demux, d.pc = "push" => d.list # <<>>,
           demux' = [demux EXCEPT ![p] = d]
    PROVE  /\ demux' \in [Peer -> Demux]
           /\ \A q \in Peer : demux'[q].pc = "push" => demux'[q].list # <<>>
<1>1. demux \in [Peer -> Demux] /\ \A q \in Peer : demux[q].pc = "push" => demux[q].list # <<>>
  BY DEF Types, Receiving
<1>2. \A q \in Peer : demux'[q] = IF q = p THEN d ELSE demux[q]
  BY <1>1
<1>3. QED
  BY <1>1, <1>2

LEMMA RecvDataTypes ==
    ASSUME Types, NEW p \in Peer, NEW d \in wire[p], RecvDatagram(p, d) \/ RecvReliable(p, d)
    PROVE  Types'
<1> DEFINE f == d.frame
           push == [pc |-> "push", kind |-> f.kind, chan |-> f.chan, list |-> <<f.seq>>]
           ack  == [pc |-> "ack", frame |-> f, n |-> tx[p]]
<1>1. /\ \/ demux' = demux
         \/ demux' = [demux EXCEPT ![p] = push]
         \/ demux' = [demux EXCEPT ![p] = ack]
      /\ ack.pc # "push" /\ push.list # <<>>
      /\ tx' = tx \/ tx' = [tx EXCEPT ![p] = @ + 1]
      /\ Opens(p, d)
  BY DEF RecvDatagram, RecvReliable
<1>2. UNCHANGED <<opened, kind, channels, nextSeq, call, waiters, sends, returned, wire,
                  recv, queued, taken, stop, dropped>>
  BY DEF RecvDatagram, RecvReliable, handleVars, callVars
<1>3. f \in Frame /\ tx[p] \in Nat
  BY FrameType DEF Types, Wires
<1>4. push \in Demux /\ ack \in Demux
  BY <1>3, DemuxKinds DEF Frame, Pushing, Acking
<1> HIDE DEF push, ack
<1>5. /\ demux' \in [Peer -> Demux]
      /\ \A q \in Peer : demux'[q].pc = "push" => demux'[q].list # <<>>
  <2>1. CASE demux' = demux
    BY <2>1 DEF Types, Receiving
  <2>2. CASE demux' # demux
    BY <2>2, <1>1, <1>4, DemuxUpdate
  <2>3. QED
    BY <2>1, <2>2
<1>6. tx' \in [Peer -> Nat]
  BY <1>1, <1>3 DEF Types, Wires
<1>7. Receiving'
  BY <1>2, <1>5 DEF Types, Receiving
<1>8. Wires'
  BY <1>1, <1>2, <1>6, OpensType DEF Types, Wires
<1>9. Handles' /\ Sending'
  BY <1>2 DEF Types, Handles, Sending
<1>10. QED
  BY <1>7, <1>8, <1>9 DEF Types

(* The acknowledgement is sealed and sent; the frame stays in hand.         *)
LEMMA Acked ==
    ASSUME Types, NEW p \in Peer, SendAck(p)
    PROVE  LET a == [frame |-> [demux[p].frame EXCEPT !.ack = TRUE], n |-> demux[p].n]
               d == [demux[p] EXCEPT !.pc = "insert"]
           IN  /\ demux[p].pc = "ack" /\ demux[p] \in Acking /\ a \in Sealed /\ d \in Acking
               /\ d.pc = "insert" /\ d.frame = demux[p].frame /\ d.n = demux[p].n
               /\ wire' = [wire EXCEPT ![Other(p)] = @ \union {a}]
               /\ demux' = [demux EXCEPT ![p] = d]
               /\ UNCHANGED <<opened, kind, channels, nextSeq, call, waiters, sends,
                              returned, tx, rx, recv, queued, taken, stop, dropped>>
<1>1. demux[p].pc = "ack" /\ demux[p] \in Acking
  BY DemuxKinds DEF SendAck, Types, Receiving
<1>2. [frame |-> [demux[p].frame EXCEPT !.ack = TRUE], n |-> demux[p].n] \in Sealed
  BY <1>1 DEF Acking, Frame, Sealed
<1> DEFINE d == [demux[p] EXCEPT !.pc = "insert"]
<1>3. /\ d \in Acking
      /\ d.pc = "insert" /\ d.frame = demux[p].frame /\ d.n = demux[p].n
  BY <1>1 DEF Acking
<1>4. /\ wire' = [wire EXCEPT ![Other(p)] =
              @ \union {[frame |-> [demux[p].frame EXCEPT !.ack = TRUE], n |-> demux[p].n]}]
      /\ demux' = [demux EXCEPT ![p] = d]
  BY DEF SendAck, Types, Receiving
<1>5. UNCHANGED <<opened, kind, channels, nextSeq, call, waiters, sends, returned, tx, rx,
                  recv, queued, taken, stop, dropped>>
  BY DEF SendAck, handleVars, callVars
<1>6. QED
  BY <1>1, <1>2, <1>3, <1>4, <1>5

LEMMA SendAckTypes ==
    ASSUME Types, NEW p \in Peer, SendAck(p)
    PROVE  Types'
<1> DEFINE a == [frame |-> [demux[p].frame EXCEPT !.ack = TRUE], n |-> demux[p].n]
           d == [demux[p] EXCEPT !.pc = "insert"]
<1>1. /\ a \in Sealed /\ d \in Acking /\ d.pc = "insert"
      /\ wire' = [wire EXCEPT ![Other(p)] = @ \union {a}]
      /\ demux' = [demux EXCEPT ![p] = d]
      /\ UNCHANGED <<opened, kind, channels, nextSeq, call, waiters, sends, returned, tx, rx,
                     recv, queued, taken, stop, dropped>>
  BY Acked
<1> HIDE DEF a, d
<1>2. /\ demux' \in [Peer -> Demux]
      /\ \A q \in Peer : demux'[q].pc = "push" => demux'[q].list # <<>>
  BY <1>1, DemuxKinds, DemuxUpdate
<1>3. Receiving'
  BY <1>1, <1>2 DEF Types, Receiving
<1>4. Wires'
  BY <1>1, Others DEF Types, Wires
<1>5. Handles' /\ Sending'
  BY <1>1 DEF Types, Handles, Sending
<1>6. QED
  BY <1>3, <1>4, <1>5 DEF Types

LEMMA InsertTypes ==
    ASSUME Types, NEW p \in Peer, Insert(p)
    PROVE  Types'
<1> DEFINE f == demux[p].frame
           c == f.chan
           r == recv[p][c]
           buffered == Accepts(r, f.seq)
           list == Drain(r.next, buffered)
           s == [next |-> r.next + Len(list), buffered |-> buffered \ Range(list)]
           push == [pc |-> "push", kind |-> f.kind, chan |-> c, list |-> list]
<1>1. /\ demux[p].pc = "insert"
      /\ recv' = [recv EXCEPT ![p][c] = s]
      /\ \/ demux' = [demux EXCEPT ![p] = push] /\ list # <<>>
         \/ demux' = [demux EXCEPT ![p] = [pc |-> "recv"]]
      /\ \/ dropped' = dropped
         \/ dropped' = [dropped EXCEPT ![p] = @ \union Payloads(c, Range(list))]
  BY DEF Insert
<1>2. UNCHANGED <<opened, kind, channels, nextSeq, call, waiters, sends, returned, tx, rx,
                  wire, queued, taken, stop>>
  BY DEF Insert, handleVars, callVars
<1>3. demux[p] \in Acking
  BY <1>1, DemuxKinds DEF Types, Receiving
<1>4. f \in Frame
  BY <1>3 DEF Acking
<1>5. c \in ChannelId /\ f.kind \in ChannelKind /\ f.seq \in Nat
  BY <1>4 DEF Frame
<1>6. r \in Recv
  BY <1>5 DEF Types, Receiving
<1>7. r.next \in Nat /\ buffered \in SUBSET Nat /\ IsFiniteSet(buffered)
  BY <1>5, <1>6, FS_AddElement DEF Accepts, Recv
<1>8. list \in Seq(Nat)
  BY <1>7, Draining
<1> HIDE DEF f, buffered
<1>10. s \in Recv
  <2>1. Len(list) \in Nat
    BY <1>8
  <2>2. IsFiniteSet(buffered \ Range(list))
    BY <1>7, FS_Subset
  <2> HIDE DEF list, r
  <2>3. r.next + Len(list) \in Nat
    BY <1>7, <2>1
  <2>4. s \in [next : Nat, buffered : SUBSET Nat]
    BY <1>7, <2>3
  <2>5. QED
    BY <2>2, <2>4 DEF Recv
<1>11. push \in Demux /\ [pc |-> "recv"] \in Demux /\ push.list = list
  BY <1>5, <1>8, DemuxKinds DEF Pushing
<1>12. Payloads(c, Range(list)) \subseteq Payload1
  <2>1. Range(list) \subseteq Nat
    BY <1>8, Ranges
  <2>2. QED
    BY <2>1, <1>5 DEF Payloads, Payload1, ChannelKind
<1> HIDE DEF s, push, list
<1>13. Receiving'
  <2>1. recv' \in [Peer -> [ChannelId -> Recv]]
    BY <1>1, <1>10 DEF Types, Receiving
  <2>2. /\ demux' \in [Peer -> Demux]
        /\ \A q \in Peer : demux'[q].pc = "push" => demux'[q].list # <<>>
    BY <1>1, <1>11, DemuxUpdate
  <2>3. dropped' \in [Peer -> SUBSET Payload1]
    BY <1>1, <1>12 DEF Types, Receiving
  <2>4. QED
    BY <1>2, <2>1, <2>2, <2>3 DEF Types, Receiving
<1>14. Handles' /\ Sending' /\ Wires'
  BY <1>2 DEF Types, Handles, Sending, Wires
<1>15. QED
  BY <1>13, <1>14 DEF Types

LEMMA Popping ==
    ASSUME NEW d \in Pushing, NEW l \in Seq(Nat), NEW e, e = [d EXCEPT !.list = l]
    PROVE  /\ e \in Pushing /\ e.list = l
           /\ e.pc = "push" /\ e.kind = d.kind /\ e.chan = d.chan
BY DEF Pushing

LEMMA PushTypes ==
    ASSUME Types, NEW p \in Peer, Push(p)
    PROVE  Types'
<1> DEFINE c == demux[p].chan
           k == demux[p].kind
           list == demux[p].list
           rest == [demux[p] EXCEPT !.list = Tail(list)]
<1>1. /\ demux[p].pc = "push"
      /\ queued' = [queued EXCEPT ![p][c][k] = Append(@, Head(list))]
      /\ demux' = [demux EXCEPT ![p] = IF Len(list) = 1 THEN [pc |-> "recv"] ELSE rest]
  BY DEF Push
<1>2. UNCHANGED <<opened, kind, channels, nextSeq, call, waiters, sends, returned, tx, rx,
                  wire, recv, taken, stop, dropped>>
  BY DEF Push, handleVars, callVars
<1>3. demux[p] \in Pushing /\ list # <<>>
  BY <1>1, DemuxKinds DEF Types, Receiving
<1>4. c \in ChannelId /\ k \in ChannelKind /\ list \in Seq(Nat)
  BY <1>3 DEF Pushing
<1> HIDE DEF c, k, list
<1>5. /\ Head(list) \in Nat /\ Tail(list) \in Seq(Nat)
      /\ Len(list) # 1 => Tail(list) # <<>>
  <2>1. /\ Head(list) \in Nat /\ Tail(list) \in Seq(Nat)
        /\ Len(Tail(list)) = Len(list) - 1 /\ Len(list) > 0
    BY <1>3, <1>4, HeadTail
  <2>2. Len(list) \in Nat
    BY <1>4
  <2>3. Len(list) # 1 => Len(Tail(list)) # 0
    BY <2>1, <2>2
  <2>4. Len(<<>>) = 0
    OBVIOUS
  <2>5. QED
    BY <2>1, <2>3, <2>4
<1>6. rest \in Pushing /\ rest.list = Tail(list)
  BY <1>3, <1>5, Popping
<1> HIDE DEF rest
<1>7. [pc |-> "recv"] \in Demux /\ rest \in Demux
  BY <1>6, DemuxKinds
<1>8. /\ demux' \in [Peer -> Demux]
      /\ \A q \in Peer : demux'[q].pc = "push" => demux'[q].list # <<>>
  <2>1. CASE Len(list) = 1
    BY <2>1, <1>1, <1>7, DemuxUpdate
  <2>2. CASE Len(list) # 1
    BY <2>2, <1>1, <1>5, <1>6, <1>7, DemuxUpdate
  <2>3. QED
    BY <2>1, <2>2
<1>9. queued' \in [Peer -> [ChannelId -> [ChannelKind -> Seq(Nat)]]]
  <2>1. Append(queued[p][c][k], Head(list)) \in Seq(Nat)
    BY <1>4, <1>5, Appended DEF Types, Receiving
  <2>2. QED
    BY <1>1, <1>4, <2>1 DEF Types, Receiving
<1>10. Receiving'
  BY <1>2, <1>8, <1>9 DEF Types, Receiving
<1>11. Handles' /\ Sending' /\ Wires'
  BY <1>2 DEF Types, Handles, Sending, Wires
<1>12. QED
  BY <1>10, <1>11 DEF Types

LEMMA ReadTypes ==
    ASSUME Types, NEW p \in Peer, NEW c \in ChannelId, Read(p, c)
    PROVE  Types'
<1>1. /\ taken' = [taken EXCEPT ![p][c] = @ + 1]
      /\ UNCHANGED <<opened, kind, channels, nextSeq, call, waiters, sends, returned, tx, rx,
                  wire, demux, recv, queued, stop, dropped>>
  BY DEF Read, handleVars, callVars
<1>2. Receiving'
  BY <1>1 DEF Types, Receiving
<1>3. QED
  BY <1>1, <1>2 DEF Types, Handles, Sending, Wires

LEMMA StopTypes ==
    ASSUME Types, NEW p \in Peer, Shutdown(p) \/ Stop(p)
    PROVE  Types'
<1>1. /\ stop' = stop \/ stop' = [stop EXCEPT ![p] = TRUE]
      /\ demux' = demux \/ demux' = [demux EXCEPT ![p] = [pc |-> "stopped"]]
      /\ UNCHANGED <<opened, kind, channels, nextSeq, call, waiters, sends, returned, tx, rx,
                  wire, recv, queued, taken, dropped>>
  BY DEF Shutdown, Stop, handleVars, callVars
<1>2. [pc |-> "stopped"] \in Demux
  BY DEF Demux
<1>3. /\ demux' \in [Peer -> Demux]
      /\ \A q \in Peer : demux'[q].pc = "push" => demux'[q].list # <<>>
  <2>1. CASE demux' = demux
    BY <2>1 DEF Types, Receiving
  <2>2. CASE demux' # demux
    BY <2>2, <1>1, <1>2, DemuxUpdate
  <2>3. QED
    BY <2>1, <2>2
<1>4. stop' \in [Peer -> BOOLEAN]
  BY <1>1 DEF Types, Receiving
<1>5. Receiving'
  BY <1>1, <1>3, <1>4 DEF Types, Receiving
<1>6. QED
  BY <1>1, <1>5 DEF Types, Handles, Sending, Wires

(* Every step of the session is one of these.                               *)
LEMMA Steps ==
    ASSUME [Next]_vars
    PROVE  \/ UNCHANGED vars
           \/ \E p \in Peer, k \in ChannelKind : OpenChannel(p, k)
           \/ \E p \in Peer, c \in ChannelId : Close(p, c) \/ Read(p, c)
           \/ \E p \in Peer, t \in Task, c \in ChannelId : Send(p, t, c)
           \/ \E p \in Peer, t \in Task :
                \/ Seal(p, t) \/ Transmit(p, t) \/ Retry(p, t)
                \/ TransmitFails(p, t) \/ Acknowledged(p, t)
           \/ \E p \in Peer : \E d \in wire[p] :
                RecvAck(p, d) \/ RecvDatagram(p, d) \/ RecvReliable(p, d)
           \/ \E p \in Peer : SendAck(p) \/ Insert(p) \/ Push(p) \/ Shutdown(p) \/ Stop(p)
<1>1. \A p \in Peer : KindsOf[p] \subseteq ChannelKind
  BY SessionAssumption
<1>2. QED
  BY <1>1 DEF Next, Continue, Receive, Deliver

LEMMA TypesStep ==
    ASSUME Types, [Next]_vars PROVE Types'
<1>1. CASE UNCHANGED vars
  BY <1>1 DEF vars, handleVars, callVars, Types, Handles, Sending, Wires, Receiving
<1>2. QED
  BY <1>1, Steps, OpenTypes, CloseTypes, ReadTypes, SendTypes, SealTypes, TransmitTypes,
     RetryTypes, ReturnTypes, RecvAckTypes, RecvDataTypes, SendAckTypes, InsertTypes,
     PushTypes, StopTypes

(* Spec => []TypeOK: every handle, call, table and datagram is well typed.  *)
THEOREM TypeCorrect == Spec => []TypeOK
<1>1. Types => TypeOK
  <2> SUFFICES ASSUME Types PROVE TypeOK
    OBVIOUS
  <2>1. recv \in [Peer -> [ChannelId -> [next : Nat, buffered : SUBSET Nat]]]
    BY DEF Types, Receiving, Recv
  <2>2. QED
    BY <2>1 DEF TypeOK, Types, Handles, Sending, Wires, Receiving, Return
<1>2. QED
  BY TypesInit, TypesStep, <1>1, PTL DEF Spec

-----------------------------------------------------------------------------
(* What an acknowledgement means.                                           *)

Reliable(c, s) == [kind |-> "ReliableOrdered", chan |-> c, seq |-> s]

Pushed(q, c) ==
    /\ demux[q].pc = "push"
    /\ demux[q].kind = "ReliableOrdered" /\ demux[q].chan = c

(* Peer q has payload s of channel c in the buffer or further on, or had    *)
(* and threw it away.                                                       *)
Settled(q, c, s) ==
    \/ s \in Range(queued[q][c]["ReliableOrdered"])
    \/ Pushed(q, c) /\ s \in Range(demux[q].list)
    \/ s \in recv[q][c].buffered
    \/ Reliable(c, s) \in dropped[q]

(* It is in hand, acknowledged and not yet buffered.                        *)
Held(q, c, s) == demux[q].pc = "insert" /\ Payload(demux[q].frame) = Reliable(c, s)

Accounted(q, c, s) == Settled(q, c, s) \/ Held(q, c, s)

(* What is below next has been here.                                        *)
Passed ==
    \A q \in Peer, c \in ChannelId, s \in Nat :
        s < recv[q][c].next => Settled(q, c, s)

(* Only what is accounted for is acknowledged, and only data of reliable    *)
(* channels.                                                                *)
AckSent ==
    /\ \A q \in Peer : demux[q].pc \in {"ack", "insert"} =>
          demux[q].frame.kind = "ReliableOrdered" /\ ~demux[q].frame.ack
    /\ \A p \in Peer : \A d \in wire[p] : d.frame.ack =>
          Accounted(Other(p), d.frame.chan, d.frame.seq)

(* A fired waiter is of a payload that is accounted for.                    *)
Fired ==
    \A p \in Peer, t \in Task :
        /\ call[p][t].pc \in {"transmit", "wait"}
        /\ call[p][t].kind = "ReliableOrdered"
        /\ call[p][t].fired
        => Accounted(Other(p), call[p][t].chan, call[p][t].seq)

AckInv == Passed /\ AckSent /\ Fired /\ OkMeansTaken

LEMMA OkAccounted ==
    OkMeansTaken <=>
      \A p \in Peer : \A x \in returned[p] :
         x.how = "ok" /\ x.sent.kind = "ReliableOrdered" =>
            /\ \/ x.sent.seq \in Range(queued[Other(p)][x.sent.chan]["ReliableOrdered"])
               \/ /\ Pushed(Other(p), x.sent.chan)
                  /\ x.sent.seq \in Range(demux[Other(p)].list)
               \/ /\ demux[Other(p)].pc = "insert"
                  /\ Payload(demux[Other(p)].frame) = x.sent
               \/ x.sent.seq \in recv[Other(p)][x.sent.chan].buffered
               \/ x.sent \in dropped[Other(p)]
BY DEF OkMeansTaken, Pushed

LEMMA OkMeans ==
    ASSUME Types
    PROVE  OkMeansTaken <=>
      \A p \in Peer : \A x \in returned[p] :
         x.how = "ok" /\ x.sent.kind = "ReliableOrdered" =>
            Accounted(Other(p), x.sent.chan, x.sent.seq)
<1>1. ASSUME NEW p \in Peer, NEW x \in returned[p], x.sent.kind = "ReliableOrdered"
      PROVE  x.sent = Reliable(x.sent.chan, x.sent.seq)
  <2>1. x.sent \in Payload1
    BY DEF Types, Sending, Return
  <2>2. QED
    BY <2>1, <1>1 DEF Payload1, Reliable
<1>2. QED
  BY <1>1, OkAccounted DEF Accounted, Settled, Held

(* The payloads of a buffer that is thrown away.                            *)
LEMMA Discarded ==
    ASSUME NEW c, NEW S, NEW s \in S
    PROVE  Reliable(c, s) \in Payloads(c, S)
BY DEF Reliable, Payloads

(* What is settled remains so, whatever either end does.                    *)
LEMMA KeptBuffer ==
    ASSUME Types, NEW p \in Peer, NEW b \in ChannelId,
           UNCHANGED <<queued, demux>>,
           recv' = [recv EXCEPT ![p][b] = Empty],
           dropped' = [dropped EXCEPT ![p] = @ \union Buffered(p, b)],
           NEW q \in Peer, NEW c \in ChannelId, NEW s \in Nat, Settled(q, c, s)
    PROVE  Settled(q, c, s)'
<1>1. CASE s \in recv[q][c].buffered /\ q = p /\ c = b
  <2>1. Reliable(c, s) \in Buffered(p, b)
    BY <1>1, Discarded DEF Buffered
  <2>2. Reliable(c, s) \in dropped'[q]
    BY <2>1, <1>1 DEF Types, Receiving
  <2>3. QED
    BY <2>2 DEF Settled
<1>2. CASE ~(q = p /\ c = b)
  <2>1. recv'[q][c] = recv[q][c]
    BY <1>2 DEF Types, Receiving
  <2>2. dropped[q] \subseteq dropped'[q]
    BY DEF Types, Receiving
  <2>3. QED
    BY <2>1, <2>2 DEF Settled, Pushed
<1>3. CASE s \notin recv[q][c].buffered
  <2>1. dropped[q] \subseteq dropped'[q]
    BY DEF Types, Receiving
  <2>2. QED
    BY <2>1, <1>3 DEF Settled, Pushed
<1>4. QED
  BY <1>1, <1>2, <1>3

LEMMA KeptListening ==
    ASSUME Types, NEW p \in Peer, demux[p].pc # "push", NEW d,
           demux' = [demux EXCEPT ![p] = d],
           UNCHANGED <<queued, recv, dropped>>,
           NEW q \in Peer, NEW c \in ChannelId, NEW s \in Nat, Settled(q, c, s)
    PROVE  Settled(q, c, s)'
<1>1. Pushed(q, c) => demux'[q] = demux[q]
  BY DEF Types, Receiving, Pushed
<1>2. QED
  BY <1>1 DEF Settled, Pushed

LEMMA KeptPush ==
    ASSUME Types, NEW p \in Peer, Push(p),
           NEW q \in Peer, NEW c \in ChannelId, NEW s \in Nat, Settled(q, c, s)
    PROVE  Settled(q, c, s)'
<1> DEFINE b == demux[p].chan
           k == demux[p].kind
           list == demux[p].list
           Q == queued[p][b][k]
<1>1. /\ demux[p].pc = "push"
      /\ queued' = [queued EXCEPT ![p][b][k] = Append(@, Head(list))]
      /\ demux' = [demux EXCEPT ![p] = IF Len(list) = 1 THEN [pc |-> "recv"]
                                       ELSE [demux[p] EXCEPT !.list = Tail(list)]]
      /\ UNCHANGED <<recv, dropped>>
  BY DEF Push
<1>2. demux[p] \in Pushing /\ list # <<>>
  BY <1>1, DemuxKinds DEF Types, Receiving
<1>3. b \in ChannelId /\ k \in ChannelKind /\ list \in Seq(Nat)
  BY <1>2 DEF Pushing
<1>4. Q \in Seq(Nat)
  BY <1>3 DEF Types, Receiving
<1>5. CASE q # p
  <2>1. queued'[q] = queued[q] /\ demux'[q] = demux[q]
    BY <1>1, <1>5 DEF Types, Receiving
  <2>2. QED
    BY <2>1, <1>1 DEF Settled, Pushed
<1>6. CASE q = p
  <2>1. /\ Head(list) \in Nat /\ Head(list) = list[1]
        /\ Tail(list) \in Seq(Nat) /\ Len(Tail(list)) = Len(list) - 1 /\ Len(list) > 0
        /\ \A i \in 1..Len(Tail(list)) : Tail(list)[i] = list[i + 1]
    <3> HIDE DEF list
    <3>1. QED
      BY <1>2, <1>3, HeadTail
  <2>2. Append(Q, Head(list)) \in Seq(Nat) /\ Len(Append(Q, Head(list))) = Len(Q) + 1
        /\ Len(Q) \in Nat
        /\ \A i \in 1..Len(Q) : Append(Q, Head(list))[i] = Q[i]
        /\ Append(Q, Head(list))[Len(Q) + 1] = Head(list)
    <3> HIDE DEF list, Q
    <3>1. QED
      BY <1>4, <2>1, Appended
  <2>3. /\ Range(Append(Q, Head(list))) = {Append(Q, Head(list))[i] : i \in 1..(Len(Q) + 1)}
        /\ Range(Q) = {Q[i] : i \in 1..Len(Q)}
        /\ Range(list) = {list[i] : i \in 1..Len(list)}
        /\ Range(Tail(list)) = {Tail(list)[i] : i \in 1..Len(Tail(list))}
    <3> HIDE DEF list, Q
    <3>1. QED
      BY <1>3, <1>4, <2>1, <2>2, Ranges
  <2>4. Range(Q) \subseteq Range(Append(Q, Head(list)))
        /\ Head(list) \in Range(Append(Q, Head(list)))
    <3> HIDE DEF list, Q
    <3>1. QED
      BY <2>2, <2>3
  <2>5. ASSUME s \in Range(list), s # Head(list)
        PROVE  s \in Range(Tail(list)) /\ Len(list) # 1
    <3> HIDE DEF list
    <3>1. PICK i \in 1..Len(list) : s = list[i]
      BY <2>3, <2>5
    <3>2. i # 1
      BY <3>1, <2>1, <2>5
    <3>3. Len(list) \in Nat
      BY <1>3
    <3>4. i - 1 \in 1..Len(Tail(list)) /\ i = (i - 1) + 1
      BY <3>2, <3>3, <2>1
    <3>5. s = Tail(list)[i - 1]
      BY <3>1, <3>4, <2>1
    <3>6. s \in Range(Tail(list))
      BY <3>4, <3>5, <2>3
    <3>7. Len(list) # 1
      BY <3>1, <3>2, <3>3
    <3>8. QED
      BY <3>6, <3>7
  <2>6. \A a \in ChannelId, l \in ChannelKind :
          queued'[p][a][l] = IF a = b /\ l = k THEN Append(Q, Head(list)) ELSE queued[p][a][l]
    <3> HIDE DEF list, b, k
    <3>1. queued' = [queued EXCEPT ![p][b][k] = Append(@, Head(list))]
      BY <1>1
    <3>2. queued \in [Peer -> [ChannelId -> [ChannelKind -> Seq(Nat)]]]
      BY DEF Types, Receiving
    <3>3. QED
      BY <3>1, <3>2, <1>3
  <2>7. "ReliableOrdered" \in ChannelKind
    BY DEF ChannelKind
  <2>8. CASE s \in Range(queued[q][c]["ReliableOrdered"])
    BY <2>8, <2>4, <2>6, <2>7, <1>6 DEF Settled
  <2>9. CASE Pushed(q, c) /\ s \in Range(list) /\ s = Head(list)
    BY <2>9, <2>4, <2>6, <2>7, <1>6 DEF Settled, Pushed
  <2>10. CASE Pushed(q, c) /\ s \in Range(list) /\ s # Head(list)
    <3>1. s \in Range(Tail(list)) /\ Len(list) # 1
      BY <2>10, <2>5
    <3>2. demux'[q] = [demux[p] EXCEPT !.list = Tail(list)]
      BY <3>1, <1>1, <1>6 DEF Types, Receiving
    <3>3. /\ demux'[q].pc = "push" /\ demux'[q].kind = demux[p].kind
          /\ demux'[q].chan = demux[p].chan /\ demux'[q].list = Tail(list)
      <4> HIDE DEF list
      <4>1. QED
        BY <3>2, <1>2 DEF Pushing
    <3>4. QED
      BY <3>1, <3>3, <2>10, <1>6 DEF Settled, Pushed
  <2>11. CASE s \in recv[q][c].buffered \/ Reliable(c, s) \in dropped[q]
    BY <2>11, <1>1 DEF Settled
  <2>12. QED
    BY <2>8, <2>9, <2>10, <2>11, <1>6 DEF Settled
<1>7. QED
  BY <1>5, <1>6

(* The buffer with the frame in hand, and what then leaves it.              *)
Filled(p, b)  == Accepts(recv[p][b], demux[p].frame.seq)
Drained(p, b) == Drain(recv[p][b].next, Filled(p, b))

(* A frame's number and what it lets leave the buffer are settled when the  *)
(* frame has been buffered.                                                 *)
LEMMA InsertPlaces ==
    ASSUME Types, AckSent, NEW p \in Peer, Insert(p),
           NEW b, b = demux[p].frame.chan
    PROVE  /\ b \in ChannelId /\ demux[p].frame.seq \in Nat
           /\ recv[p][b] \in Recv
           /\ Drained(p, b) \in Seq(Nat)
           /\ \A i \in 1..Len(Drained(p, b)) : Drained(p, b)[i] = recv[p][b].next + i - 1
           /\ recv' = [recv EXCEPT ![p][b] =
                          [next |-> recv[p][b].next + Len(Drained(p, b)),
                           buffered |-> Filled(p, b) \ Range(Drained(p, b))]]
           /\ \A s \in Nat : s \in Filled(p, b) \/ s \in Range(Drained(p, b))
                              => Settled(p, b, s)'
<1> DEFINE k == demux[p].frame.seq
           r == recv[p][b]
           buffered == Filled(p, b)
           list == Drained(p, b)
           push == [pc |-> "push", kind |-> demux[p].frame.kind, chan |-> b, list |-> list]
<1>1. /\ demux[p].pc = "insert"
      /\ recv' = [recv EXCEPT ![p][b] = [next |-> r.next + Len(list),
                                         buffered |-> buffered \ Range(list)]]
      /\ b \notin channels[p] =>
           dropped' = [dropped EXCEPT ![p] = @ \union Payloads(b, Range(list))]
      /\ b \in channels[p] /\ list # <<>> => demux' = [demux EXCEPT ![p] = push]
  BY DEF Insert, Filled, Drained
<1>2. demux[p] \in Acking /\ demux[p].frame.kind = "ReliableOrdered"
  BY <1>1, DemuxKinds DEF Types, Receiving, AckSent
<1>3. b \in ChannelId /\ k \in Nat
  BY <1>2 DEF Acking, Frame
<1>4. r \in Recv
  BY <1>3 DEF Types, Receiving
<1>5. r.next \in Nat /\ buffered \in SUBSET Nat /\ IsFiniteSet(buffered)
  BY <1>3, <1>4, FS_AddElement DEF Filled, Accepts, Recv
<1>6. list \in Seq(Nat) /\ \A i \in 1..Len(list) : list[i] = r.next + i - 1
  BY <1>5, Draining DEF Drained
<1> HIDE DEF list, buffered
<1>7. ASSUME NEW s \in Nat, s \in Range(list)
      PROVE  Settled(p, b, s)'
  <2>1. CASE b \in channels[p]
    <3>1. list # <<>>
      <4>1. Range(<<>>) = {}
        BY DEF Range
      <4>2. QED
        BY <4>1, <1>7
    <3>2. demux'[p] = push
      BY <3>1, <2>1, <1>1 DEF Types, Receiving
    <3>3. QED
      BY <3>2, <1>2, <1>7 DEF Settled, Pushed
  <2>2. CASE b \notin channels[p]
    <3>1. Reliable(b, s) \in Payloads(b, Range(list))
      BY <1>7, Discarded
    <3>2. Reliable(b, s) \in dropped'[p]
      BY <3>1, <2>2, <1>1 DEF Types, Receiving
    <3>3. QED
      BY <3>2 DEF Settled
  <2>3. QED
    BY <2>1, <2>2
<1>8. ASSUME NEW s \in Nat, s \in buffered, s \notin Range(list)
      PROVE  Settled(p, b, s)'
  <2>1. recv'[p][b].buffered = buffered \ Range(list)
    BY <1>1, <1>3 DEF Types, Receiving
  <2>2. QED
    BY <2>1, <1>8 DEF Settled
<1>9. \A s \in Nat : s \in buffered \/ s \in Range(list) => Settled(p, b, s)'
  BY <1>7, <1>8
<1>10. QED
  BY <1>1, <1>3, <1>4, <1>6, <1>9 DEF list, buffered

LEMMA KeptInsert ==
    ASSUME Types, AckSent, NEW p \in Peer, Insert(p),
           NEW q \in Peer, NEW c \in ChannelId, NEW s \in Nat, Settled(q, c, s)
    PROVE  Settled(q, c, s)'
<1>0. PICK b : b = demux[p].frame.chan
  OBVIOUS
<1>1. /\ UNCHANGED queued
      /\ demux[p].pc = "insert" /\ \E d : demux' = [demux EXCEPT ![p] = d]
      /\ \E S : dropped' = dropped \/ dropped' = [dropped EXCEPT ![p] = @ \union S]
      /\ \E x : recv' = [recv EXCEPT ![p][b] = x]
  BY <1>0 DEF Insert
<1>2. b \in ChannelId
  BY <1>0, InsertPlaces
<1>3. Pushed(q, c) => demux'[q] = demux[q]
  BY <1>1 DEF Types, Receiving, Pushed
<1>4. dropped[q] \subseteq dropped'[q]
  <2>1. PICK S : dropped' = dropped \/ dropped' = [dropped EXCEPT ![p] = @ \union S]
    BY <1>1
  <2>2. QED
    BY <2>1 DEF Types, Receiving
<1>5. CASE q = p /\ c = b /\ s \in recv[q][c].buffered
  <2>1. s \in Filled(p, b)
    BY <1>5 DEF Filled, Accepts
  <2>2. QED
    BY <1>0, <2>1, <1>5, InsertPlaces
<1>6. CASE ~(q = p /\ c = b)
  <2>1. recv'[q][c] = recv[q][c]
    BY <1>6, <1>1, <1>2 DEF Types, Receiving
  <2>2. QED
    BY <2>1, <1>1, <1>3, <1>4 DEF Settled, Pushed
<1>7. CASE s \notin recv[q][c].buffered
  BY <1>7, <1>1, <1>3, <1>4 DEF Settled, Pushed
<1>8. QED
  BY <1>5, <1>6, <1>7

LEMMA Kept ==
    ASSUME Types, AckSent, [Next]_vars,
           NEW q \in Peer, NEW c \in ChannelId, NEW s \in Nat, Settled(q, c, s)
    PROVE  Settled(q, c, s)'
<1>1. CASE UNCHANGED <<queued, demux, recv, dropped>>
  BY <1>1 DEF Settled, Pushed
<1>2. CASE UNCHANGED vars
  BY <1>1, <1>2 DEF vars
<1>3. ASSUME NEW p \in Peer, NEW k \in ChannelKind, OpenChannel(p, k)
      PROVE  Settled(q, c, s)'
  <2>1. opened[p] + 1 \in ChannelId /\ UNCHANGED <<queued, demux>>
    BY <1>3 DEF OpenChannel
  <2>2. \/ UNCHANGED <<recv, dropped>>
        \/ /\ recv' = [recv EXCEPT ![p][opened[p] + 1] = Empty]
           /\ dropped' = [dropped EXCEPT ![p] = @ \union Buffered(p, opened[p] + 1)]
    BY <1>3 DEF OpenChannel
  <2>3. QED
    BY <2>1, <2>2, <1>1, KeptBuffer
<1>4. ASSUME NEW p \in Peer, NEW a \in ChannelId, Close(p, a) \/ Read(p, a)
      PROVE  Settled(q, c, s)'
  <2>1. CASE Close(p, a)
    <3>1. /\ UNCHANGED <<queued, demux>>
          /\ recv' = [recv EXCEPT ![p][a] = Empty]
          /\ dropped' = [dropped EXCEPT ![p] = @ \union Buffered(p, a)]
      BY <2>1 DEF Close
    <3>2. QED
      BY <3>1, KeptBuffer
  <2>2. CASE Read(p, a)
    BY <2>2, <1>1 DEF Read
  <2>3. QED
    BY <1>4, <2>1, <2>2
<1>5. ASSUME NEW p \in Peer, NEW t \in Task,
             \/ \E a \in ChannelId : Send(p, t, a)
             \/ Seal(p, t) \/ Transmit(p, t) \/ Retry(p, t)
             \/ TransmitFails(p, t) \/ Acknowledged(p, t)
      PROVE  Settled(q, c, s)'
  BY <1>5, <1>1 DEF Send, Seal, Transmit, Retry, TransmitFails, Acknowledged
<1>6. ASSUME NEW p \in Peer, NEW d \in wire[p],
             RecvAck(p, d) \/ RecvDatagram(p, d) \/ RecvReliable(p, d)
      PROVE  Settled(q, c, s)'
  <2>1. /\ UNCHANGED <<queued, recv, dropped>>
        /\ demux[p].pc # "push"
        /\ demux' = demux \/ \E e : demux' = [demux EXCEPT ![p] = e]
    BY <1>6 DEF RecvAck, RecvDatagram, RecvReliable, Opens, Listening
  <2>2. QED
    BY <2>1, <1>1, KeptListening
<1>7. ASSUME NEW p \in Peer, SendAck(p) \/ Insert(p) \/ Push(p)
      PROVE  Settled(q, c, s)'
  <2>1. CASE SendAck(p)
    <3>1. /\ UNCHANGED <<queued, recv, dropped>>
          /\ demux[p].pc # "push"
          /\ \E e : demux' = [demux EXCEPT ![p] = e]
      BY <2>1, Acked
    <3>2. QED
      BY <3>1, KeptListening
  <2>2. QED
    BY <1>7, <2>1, KeptInsert, KeptPush
<1>8. ASSUME NEW p \in Peer, Shutdown(p) \/ Stop(p)
      PROVE  Settled(q, c, s)'
  <2>1. CASE Shutdown(p)
    BY <2>1, <1>1 DEF Shutdown
  <2>2. CASE Stop(p)
    <3>1. /\ UNCHANGED <<queued, recv, dropped>>
          /\ demux[p].pc # "push"
          /\ demux' = [demux EXCEPT ![p] = [pc |-> "stopped"]]
      BY <2>2 DEF Stop, Listening
    <3>2. QED
      BY <3>1, KeptListening
  <2>3. QED
    BY <1>8, <2>1, <2>2
<1>9. QED
  BY <1>2, <1>3, <1>4, <1>5, <1>6, <1>7, <1>8, Steps

(* What is acknowledged leaves the hand only for the buffer, unless it is a *)
(* duplicate.                                                               *)
LEMMA StaysAccounted ==
    ASSUME Types, AckSent, Passed, [Next]_vars,
           NEW q \in Peer, NEW c \in ChannelId, NEW s \in Nat, Accounted(q, c, s)
    PROVE  Accounted(q, c, s)'
<1>1. CASE Settled(q, c, s)
  BY <1>1, Kept DEF Accounted
<1>2. CASE Held(q, c, s) /\ demux'[q] = demux[q]
  BY <1>2 DEF Accounted, Held
<1>3. CASE Held(q, c, s) /\ Insert(q)
  <2>1. c = demux[q].frame.chan /\ s = demux[q].frame.seq
    BY <1>3 DEF Held, Payload, Reliable
  <2>2. CASE s < recv[q][c].next
    <3>1. Settled(q, c, s)
      BY <2>2 DEF Passed
    <3>2. QED
      BY <3>1, <1>1
  <2>3. CASE ~(s < recv[q][c].next)
    <3>1. recv[q][c].next \in Nat
      BY DEF Types, Receiving, Recv
    <3>2. s \in Filled(q, c)
      BY <3>1, <2>1, <2>3 DEF Filled, Accepts
    <3>3. Settled(q, c, s)'
      BY <1>3, <2>1, <3>2, InsertPlaces
    <3>4. QED
      BY <3>3 DEF Accounted
  <2>4. QED
    BY <2>2, <2>3
<1>4. ASSUME Held(q, c, s), NEW p \in Peer, demux[p].pc # "insert", NEW d,
             demux' = [demux EXCEPT ![p] = d]
      PROVE  demux'[q] = demux[q]
  BY <1>4 DEF Held, Types, Receiving
<1>5. ASSUME Held(q, c, s), NEW p \in Peer,
             \/ \E d \in wire[p] : RecvAck(p, d) \/ RecvDatagram(p, d) \/ RecvReliable(p, d)
             \/ SendAck(p) \/ Push(p) \/ Stop(p)
      PROVE  demux'[q] = demux[q]
  <2>1. /\ demux[p].pc # "insert"
        /\ demux' = demux \/ \E e : demux' = [demux EXCEPT ![p] = e]
    <3>1. CASE SendAck(p)
      BY <3>1, Acked
    <3>2. CASE Push(p) \/ Stop(p)
      BY <3>2 DEF Push, Stop, Listening
    <3>3. CASE \E d \in wire[p] : RecvAck(p, d) \/ RecvDatagram(p, d) \/ RecvReliable(p, d)
      BY <3>3 DEF RecvAck, RecvDatagram, RecvReliable, Opens, Listening
    <3>4. QED
      BY <1>5, <3>1, <3>2, <3>3
  <2>2. QED
    BY <2>1, <1>4, <1>5
<1>6. ASSUME Held(q, c, s), NEW p \in Peer, Insert(p)
      PROVE  Insert(q) \/ demux'[q] = demux[q]
  <2>1. \E e : demux' = [demux EXCEPT ![p] = e]
    BY <1>6 DEF Insert
  <2>2. QED
    BY <2>1, <1>6 DEF Types, Receiving
<1>7. ASSUME NEW p \in Peer,
             \/ \E t \in Task :
                  \/ \E a \in ChannelId : Send(p, t, a)
                  \/ Seal(p, t) \/ Transmit(p, t) \/ Retry(p, t)
                  \/ TransmitFails(p, t) \/ Acknowledged(p, t)
             \/ \E k \in ChannelKind : OpenChannel(p, k)
             \/ \E b \in ChannelId : Close(p, b) \/ Read(p, b)
             \/ Shutdown(p)
      PROVE  demux' = demux
  BY <1>7 DEF Send, Seal, Transmit, Retry, TransmitFails, Acknowledged, OpenChannel, Close,
              Read, Shutdown
<1>8. UNCHANGED vars => demux' = demux
  BY DEF vars
<1>9. Held(q, c, s) => Insert(q) \/ demux'[q] = demux[q]
  BY <1>5, <1>6, <1>7, <1>8, Steps
<1>10. QED
  BY <1>1, <1>2, <1>3, <1>9 DEF Accounted

LEMMA AckInit == Init => AckInv
<1> SUFFICES ASSUME Init PROVE AckInv
  OBVIOUS
<1>1. Passed
  BY DEF Init, Passed, Empty
<1>2. AckSent
  BY DEF Init, AckSent
<1>3. Fired
  BY DEF Init, Fired, Idle
<1>4. OkMeansTaken
  BY DEF Init, OkMeansTaken
<1>5. QED
  BY <1>1, <1>2, <1>3, <1>4 DEF AckInv

LEMMA PassedStep ==
    ASSUME Types, AckInv, [Next]_vars PROVE Passed'
<1>1. SUFFICES ASSUME NEW q \in Peer, NEW c \in ChannelId, NEW s \in Nat,
                      s < recv'[q][c].next
               PROVE  Settled(q, c, s)'
  BY DEF Passed
<1>2. CASE recv'[q][c].next = recv[q][c].next
  <2>1. Settled(q, c, s)
    BY <1>1, <1>2 DEF AckInv, Passed
  <2>2. QED
    BY <2>1, Kept DEF AckInv
<1>3. recv'[q][c] # Empty
  BY <1>1 DEF Empty
<1>4. ASSUME NEW p \in Peer, NEW b \in ChannelId, recv' = [recv EXCEPT ![p][b] = Empty]
      PROVE  recv'[q][c] = recv[q][c]
  BY <1>3, <1>4 DEF Types, Receiving
<1>5. ASSUME NEW p \in Peer, NEW k \in ChannelKind, OpenChannel(p, k)
      PROVE  recv'[q][c] = recv[q][c]
  BY <1>4, <1>5 DEF OpenChannel
<1>6. ASSUME NEW p \in Peer, NEW b \in ChannelId, Close(p, b)
      PROVE  recv'[q][c] = recv[q][c]
  BY <1>4, <1>6 DEF Close
<1>7. CASE \E p \in Peer : Insert(p)
  <2>1. PICK p \in Peer : Insert(p)
    BY <1>7
  <2>2. PICK b : b = demux[p].frame.chan
    OBVIOUS
  <2> DEFINE r == recv[p][b]
             buffered == Filled(p, b)
             list == Drained(p, b)
  <2>3. /\ b \in ChannelId /\ r \in Recv /\ list \in Seq(Nat)
        /\ \A i \in 1..Len(list) : list[i] = r.next + i - 1
        /\ recv' = [recv EXCEPT ![p][b] = [next |-> r.next + Len(list),
                                           buffered |-> buffered \ Range(list)]]
        /\ \A k \in Nat : k \in buffered \/ k \in Range(list) => Settled(p, b, k)'
    <3>1. AckSent
      BY DEF AckInv
    <3>2. /\ b \in ChannelId /\ recv[p][b] \in Recv /\ Drained(p, b) \in Seq(Nat)
          /\ \A i \in 1..Len(Drained(p, b)) : Drained(p, b)[i] = recv[p][b].next + i - 1
      BY <2>1, <2>2, <3>1, InsertPlaces
    <3>3. recv' = [recv EXCEPT ![p][b] =
                    [next |-> recv[p][b].next + Len(Drained(p, b)),
                     buffered |-> Filled(p, b) \ Range(Drained(p, b))]]
      BY <2>1, <2>2, <3>1, InsertPlaces
    <3>4. \A k \in Nat : k \in Filled(p, b) \/ k \in Range(Drained(p, b))
                         => Settled(p, b, k)'
      BY <2>1, <2>2, <3>1, InsertPlaces
    <3>5. QED
      BY <3>2, <3>3, <3>4
  <2> HIDE DEF list, buffered
  <2>4. CASE ~(q = p /\ c = b)
    <3>1. recv'[q][c] = recv[q][c]
      BY <2>3, <2>4 DEF Types, Receiving
    <3>2. QED
      BY <3>1, <1>2
  <2>5. CASE q = p /\ c = b
    <3>1. recv'[q][c].next = r.next + Len(list)
      BY <2>3, <2>5 DEF Types, Receiving
    <3>2. CASE s < r.next
      <4>1. Settled(q, c, s)
        BY <3>2, <2>5 DEF AckInv, Passed
      <4>2. QED
        BY <4>1, Kept DEF AckInv
    <3>3. CASE ~(s < r.next)
      <4>1. r.next \in Nat /\ Len(list) \in Nat
        BY <2>3 DEF Recv
      <4>2. s - r.next + 1 \in 1..Len(list)
        BY <1>1, <3>1, <3>3, <4>1
      <4>3. list[s - r.next + 1] = s
        <5>1. list[s - r.next + 1] = r.next + (s - r.next + 1) - 1
          BY <2>3, <4>2
        <5>2. QED
          BY <5>1, <4>1
      <4>4. s \in Range(list)
        BY <2>3, <4>2, <4>3, Ranges
      <4>5. QED
        BY <2>3, <2>5, <4>4
    <3>4. QED
      BY <3>2, <3>3
  <2>6. QED
    BY <2>4, <2>5
<1>8. CASE UNCHANGED recv
  BY <1>2, <1>8
<1>9. UNCHANGED vars => UNCHANGED recv
  BY DEF vars
<1>10. ASSUME NEW p \in Peer, NEW t \in Task,
              \/ \E a \in ChannelId : Send(p, t, a)
              \/ Seal(p, t) \/ Transmit(p, t) \/ Retry(p, t)
              \/ TransmitFails(p, t) \/ Acknowledged(p, t)
       PROVE  UNCHANGED recv
  BY <1>10 DEF Send, Seal, Transmit, Retry, TransmitFails, Acknowledged
<1>11. ASSUME NEW p \in Peer, NEW d \in wire[p],
              RecvAck(p, d) \/ RecvDatagram(p, d) \/ RecvReliable(p, d)
       PROVE  UNCHANGED recv
  BY <1>11 DEF RecvAck, RecvDatagram, RecvReliable
<1>12. ASSUME NEW p \in Peer, SendAck(p) \/ Push(p) \/ Shutdown(p) \/ Stop(p)
       PROVE  UNCHANGED recv
  BY <1>12 DEF SendAck, Push, Shutdown, Stop
<1>13. ASSUME NEW p \in Peer, NEW b \in ChannelId, Read(p, b) PROVE UNCHANGED recv
  BY <1>13 DEF Read
<1>14. QED
  BY <1>2, <1>5, <1>6, <1>7, <1>8, <1>9, <1>10, <1>11, <1>12, <1>13, Steps

(* An acknowledgement that is sent is of what is accounted for.             *)
LEMMA AckSentStep ==
    ASSUME Types, AckInv, [Next]_vars PROVE AckSent'
<1>1. ASSUME NEW q \in Peer, demux'[q].pc \in {"ack", "insert"}
      PROVE  demux'[q].frame.kind = "ReliableOrdered" /\ ~demux'[q].frame.ack
  <2>1. CASE demux'[q] = demux[q]
    BY <1>1, <2>1 DEF AckInv, AckSent
  <2>2. ASSUME NEW p \in Peer, NEW e, e.pc \notin {"ack", "insert"},
               demux' = [demux EXCEPT ![p] = e]
        PROVE  demux'[q] = demux[q]
    BY <1>1, <2>2 DEF Types, Receiving
  <2>3. ASSUME NEW p \in Peer, NEW d \in wire[p], RecvReliable(p, d)
        PROVE  demux'[q].frame.kind = "ReliableOrdered" /\ ~demux'[q].frame.ack
    <3>1. /\ ~d.frame.ack /\ d.frame.kind = "ReliableOrdered"
          /\ demux' = [demux EXCEPT ![p] = [pc |-> "ack", frame |-> d.frame, n |-> tx[p]]]
      BY <2>3 DEF RecvReliable
    <3>2. CASE q = p
      BY <3>1, <3>2 DEF Types, Receiving
    <3>3. CASE q # p
      BY <3>1, <3>3, <2>1 DEF Types, Receiving
    <3>4. QED
      BY <3>2, <3>3
  <2>4. ASSUME NEW p \in Peer, NEW d \in wire[p], RecvAck(p, d) \/ RecvDatagram(p, d)
        PROVE  demux'[q] = demux[q]
    <3> DEFINE e == [pc |-> "push", kind |-> d.frame.kind, chan |-> d.frame.chan,
                     list |-> <<d.frame.seq>>]
    <3>1. demux' = demux \/ demux' = [demux EXCEPT ![p] = e]
      BY <2>4 DEF RecvAck, RecvDatagram
    <3>2. e.pc \notin {"ack", "insert"}
      OBVIOUS
    <3> HIDE DEF e
    <3>3. QED
      BY <3>1, <3>2, <2>2
  <2>5. ASSUME NEW p \in Peer, Insert(p) \/ Push(p) \/ Shutdown(p) \/ Stop(p)
        PROVE  demux'[q] = demux[q]
    <3>1. \/ demux' = demux
          \/ \E e : e.pc \notin {"ack", "insert"} /\ demux' = [demux EXCEPT ![p] = e]
      <4>1. CASE Insert(p)
        BY <4>1 DEF Insert
      <4>2. CASE Push(p)
        <5>1. demux[p].pc = "push" /\ demux[p] \in Pushing
          BY <4>2, DemuxKinds DEF Push, Types, Receiving
        <5>2. [demux[p] EXCEPT !.list = Tail(demux[p].list)].pc = "push"
          BY <5>1 DEF Pushing
        <5>3. \/ demux' = [demux EXCEPT ![p] = [pc |-> "recv"]]
              \/ demux' = [demux EXCEPT ![p] = [demux[p] EXCEPT !.list = Tail(demux[p].list)]]
          BY <4>2 DEF Push
        <5>4. QED
          BY <5>2, <5>3
      <4>3. CASE Shutdown(p) \/ Stop(p)
        BY <4>3 DEF Shutdown, Stop
      <4>4. QED
        BY <2>5, <4>1, <4>2, <4>3
    <3>2. QED
      BY <3>1, <2>2
  <2>6. UNCHANGED vars => demux' = demux
    BY DEF vars
  <2>7. ASSUME NEW p \in Peer, NEW t \in Task,
               \/ \E a \in ChannelId : Send(p, t, a)
               \/ Seal(p, t) \/ Transmit(p, t) \/ Retry(p, t)
               \/ TransmitFails(p, t) \/ Acknowledged(p, t)
        PROVE  demux' = demux
    BY <2>7 DEF Send, Seal, Transmit, Retry, TransmitFails, Acknowledged
  <2>8. ASSUME NEW p \in Peer, \/ \E k \in ChannelKind : OpenChannel(p, k)
                               \/ \E b \in ChannelId : Close(p, b) \/ Read(p, b)
        PROVE  demux' = demux
    BY <2>8 DEF OpenChannel, Close, Read
  <2>9. ASSUME NEW p \in Peer, SendAck(p)
        PROVE  demux'[q].frame.kind = "ReliableOrdered" /\ ~demux'[q].frame.ack
    <3>1. PICK e : /\ demux' = [demux EXCEPT ![p] = e]
                   /\ e.frame = demux[p].frame /\ demux[p].pc = "ack"
      BY <2>9, Acked
    <3>2. CASE q = p
      <4>1. demux'[q] = e
        BY <3>1, <3>2 DEF Types, Receiving
      <4>2. QED
        BY <4>1, <3>1 DEF AckInv, AckSent
    <3>3. CASE q # p
      BY <3>1, <3>3, <2>1 DEF Types, Receiving
    <3>4. QED
      BY <3>2, <3>3
  <2>10. QED
    BY <2>1, <2>3, <2>4, <2>5, <2>6, <2>7, <2>8, <2>9, Steps
<1>2. ASSUME NEW p \in Peer, NEW d \in wire'[p], d.frame.ack
      PROVE  Accounted(Other(p), d.frame.chan, d.frame.seq)'
  <2>1. d \in Sealed /\ Other(p) \in Peer
    BY TypesStep, Others DEF Types, Wires
  <2>2. PICK q \in Peer, c \in ChannelId, s \in Nat :
           q = Other(p) /\ c = d.frame.chan /\ s = d.frame.seq
    BY <2>1 DEF Sealed, Frame
  <2>3. CASE d \in wire[p]
    <3>1. Accounted(q, c, s)
      BY <2>2, <2>3, <1>2 DEF AckInv, AckSent
    <3>2. Accounted(q, c, s)'
      BY <3>1, StaysAccounted DEF AckInv
    <3>3. QED
      BY <3>2, <2>2
  <2>4. CASE d \notin wire[p]
    <3>1. \E r \in Peer : SendAck(r)
      <4>1. wire' # wire
        BY <2>4
      <4>2. UNCHANGED vars => wire' = wire
        BY DEF vars
      <4>3. ASSUME NEW r \in Peer, NEW t \in Task, Transmit(r, t)
            PROVE  FALSE
        <5>1. wire' = [wire EXCEPT ![Other(r)] = @ \union {DataFrame(call[r][t])}]
          BY <4>3 DEF Transmit
        <5>2. d = DataFrame(call[r][t])
          BY <5>1, <2>4, Others DEF Types, Wires
        <5>3. ~d.frame.ack
          BY <5>2 DEF DataFrame
        <5>4. QED
          BY <5>3, <1>2
      <4>4. ASSUME NEW r \in Peer, NEW t \in Task,
                   \/ \E a \in ChannelId : Send(r, t, a)
                   \/ Seal(r, t) \/ Retry(r, t) \/ TransmitFails(r, t) \/ Acknowledged(r, t)
            PROVE  wire' = wire
        BY <4>4 DEF Send, Seal, Retry, TransmitFails, Acknowledged
      <4>5. ASSUME NEW r \in Peer, NEW e \in wire[r],
                   RecvAck(r, e) \/ RecvDatagram(r, e) \/ RecvReliable(r, e)
            PROVE  wire' = wire
        BY <4>5 DEF RecvAck, RecvDatagram, RecvReliable
      <4>6. ASSUME NEW r \in Peer, \/ Insert(r) \/ Push(r) \/ Shutdown(r) \/ Stop(r)
                                   \/ \E k \in ChannelKind : OpenChannel(r, k)
                                   \/ \E b \in ChannelId : Close(r, b) \/ Read(r, b)
            PROVE  wire' = wire
        BY <4>6 DEF Insert, Push, Shutdown, Stop, OpenChannel, Close, Read
      <4>7. QED
        BY <4>1, <4>2, <4>3, <4>4, <4>5, <4>6, Steps
    <3>2. PICK r \in Peer : SendAck(r)
      BY <3>1
    <3> DEFINE a == [frame |-> [demux[r].frame EXCEPT !.ack = TRUE], n |-> demux[r].n]
    <3>3. PICK h : /\ demux[r].pc = "ack" /\ demux[r] \in Acking
                   /\ wire' = [wire EXCEPT ![Other(r)] = @ \union {a}]
                   /\ demux' = [demux EXCEPT ![r] = h]
                   /\ h.pc = "insert" /\ h.frame = demux[r].frame
      BY <3>2, Acked
    <3>4. demux[r].frame \in Frame /\ demux[r].frame.kind = "ReliableOrdered"
      BY <3>3 DEF Acking, AckInv, AckSent
    <3>5. p = Other(r) /\ d = a
      <4> HIDE DEF a
      <4>1. QED
        BY <3>3, <2>4, Others DEF Types, Wires
    <3>6. q = r /\ c = demux[r].frame.chan /\ s = demux[r].frame.seq
      BY <3>4, <3>5, <2>2, Others DEF Frame
    <3>7. Accounted(q, c, s)'
      <4>1. demux'[q] = h
        BY <3>3, <3>6 DEF Types, Receiving
      <4>2. Payload(h.frame) = Reliable(c, s)
        BY <3>3, <3>4, <3>6 DEF Payload, Reliable
      <4>3. QED
        BY <4>1, <4>2, <3>3 DEF Accounted, Held
    <3>8. QED
      BY <3>7, <2>2
  <2>5. QED
    BY <2>3, <2>4
<1>3. QED
  BY <1>1, <1>2 DEF AckSent

(* A waiter that can fire only where an acknowledgement names it.           *)
LEMMA FiredStep ==
    ASSUME Types, AckInv, [Next]_vars PROVE Fired'
<1>1. SUFFICES ASSUME NEW p \in Peer, NEW t \in Task,
                      call'[p][t].pc \in {"transmit", "wait"},
                      call'[p][t].kind = "ReliableOrdered", call'[p][t].fired
               PROVE  Accounted(Other(p), call[p][t].chan, call[p][t].seq)'
  BY DEF Fired
<1>2. call'[p][t] \in Busy /\ Other(p) \in Peer
  BY <1>1, TypesStep, BusyCalls, Others DEF Types, Sending
<1>3. PICK q \in Peer, c \in ChannelId, s \in Nat :
         q = Other(p) /\ c = call'[p][t].chan /\ s = call'[p][t].seq
  BY <1>2 DEF Busy
<1>4. ASSUME Accounted(q, c, s)
      PROVE  Accounted(Other(p), call[p][t].chan, call[p][t].seq)'
  <2>1. Accounted(q, c, s)'
    BY <1>4, StaysAccounted DEF AckInv
  <2>2. QED
    BY <2>1, <1>3
<1>5. SUFFICES Accounted(q, c, s)
  BY <1>4
<1>6. CASE call'[p][t] = call[p][t]
  BY <1>1, <1>3, <1>6 DEF AckInv, Fired
<1>7. ASSUME NEW r \in Peer, NEW u \in Task, NEW y,
             y.pc \in {"idle", "seal"} \/ (y.pc = "transmit" /\ ~y.fired),
             call' = [call EXCEPT ![r][u] = y]
      PROVE  call'[p][t] = call[p][t]
  <2>1. CASE p = r /\ t = u
    <3>1. call'[p][t] = y
      BY <1>7, <2>1 DEF Types, Sending
    <3>2. QED
      BY <3>1, <1>1, <1>7
  <2>2. CASE ~(p = r /\ t = u)
    BY <1>7, <2>2 DEF Types, Sending
  <2>3. QED
    BY <2>1, <2>2
<1>8. ASSUME NEW r \in Peer, NEW u \in Task, NEW how, Finish(r, u, how)
      PROVE  call'[p][t] = call[p][t]
  <2>1. call' = [call EXCEPT ![r][u] = Idle] /\ Idle.pc = "idle"
    BY <1>8 DEF Finish, Idle
  <2>2. QED
    BY <2>1, <1>7
<1>9. ASSUME NEW r \in Peer, NEW u \in Task, Transmit(r, u)
      PROVE  Accounted(q, c, s)
  <2>1. CASE Finish(r, u, "ok")
    BY <2>1, <1>6, <1>8
  <2>2. CASE call' = [call EXCEPT ![r][u] = [call[r][u] EXCEPT !.pc = "wait"]]
    <3>1. CASE p = r /\ t = u
      <4>1. call[p][t].pc = "transmit" /\ call[p][t] \in Busy
        BY <3>1, <1>9, BusyCalls DEF Transmit, Types, Sending
      <4>2. call'[p][t] = [call[p][t] EXCEPT !.pc = "wait"]
        BY <3>1, <2>2 DEF Types, Sending
      <4>3. /\ call'[p][t].kind = call[p][t].kind /\ call'[p][t].fired = call[p][t].fired
            /\ call'[p][t].chan = call[p][t].chan /\ call'[p][t].seq = call[p][t].seq
        BY <4>1, <4>2 DEF Busy
      <4>4. QED
        BY <4>1, <4>3, <1>1, <1>3 DEF AckInv, Fired
    <3>2. CASE ~(p = r /\ t = u)
      BY <3>2, <2>2, <1>6 DEF Types, Sending
    <3>3. QED
      BY <3>1, <3>2
  <2>3. QED
    BY <1>9, <2>1, <2>2 DEF Transmit
<1>10. ASSUME NEW r \in Peer, NEW u \in Task, Seal(r, u)
       PROVE  call'[p][t] = call[p][t]
  <2> DEFINE y == [call[r][u] EXCEPT !.pc = "transmit", !.n = tx[r], !.fired = FALSE]
  <2>1. call' = [call EXCEPT ![r][u] = y] /\ call[r][u] \in Busy
    BY <1>10, BusyCalls DEF Seal, Types, Sending
  <2>2. y.pc = "transmit" /\ ~y.fired
    BY <2>1 DEF Busy
  <2> HIDE DEF y
  <2>3. QED
    BY <2>1, <2>2, <1>7
<1>11. ASSUME NEW r \in Peer, NEW u \in Task, Retry(r, u)
       PROVE  call'[p][t] = call[p][t]
  <2> DEFINE y == [call[r][u] EXCEPT !.pc = "seal", !.tries = @ + 1]
  <2>1. /\ call[r][u] \in Busy
        /\ Finish(r, u, "timeout") \/ call' = [call EXCEPT ![r][u] = y]
    BY <1>11, BusyCalls DEF Retry, Types, Sending
  <2>2. y.pc = "seal"
    BY <2>1 DEF Busy
  <2> HIDE DEF y
  <2>3. QED
    BY <2>1, <2>2, <1>7, <1>8
<1>12. ASSUME NEW r \in Peer, NEW u \in Task,
              \/ \E a \in ChannelId : Send(r, u, a)
              \/ TransmitFails(r, u) \/ Acknowledged(r, u)
       PROVE  call'[p][t] = call[p][t]
  <2>1. CASE \E a \in ChannelId : Send(r, u, a)
    <3>1. PICK a \in ChannelId : Send(r, u, a)
      BY <2>1
    <3> DEFINE y == [pc |-> "seal", kind |-> kind[r][a], chan |-> a, seq |-> nextSeq[r][a],
                     tries |-> 0, n |-> 0, fired |-> FALSE]
    <3>2. call' = [call EXCEPT ![r][u] = y] /\ y.pc = "seal"
      BY <3>1 DEF Send
    <3> HIDE DEF y
    <3>3. QED
      BY <3>2, <1>7
  <2>2. CASE TransmitFails(r, u) \/ Acknowledged(r, u)
    BY <2>2, <1>8 DEF TransmitFails, Acknowledged
  <2>3. QED
    BY <1>12, <2>1, <2>2
<1>13. ASSUME NEW r \in Peer, NEW d \in wire[r], RecvAck(r, d)
       PROVE  Accounted(q, c, s)
  <2> DEFINE w == [chan |-> d.frame.chan, seq |-> d.frame.seq]
             waits(u) == /\ w \in waiters[r]
                         /\ call[r][u].pc \in {"transmit", "wait"}
                         /\ call[r][u].kind = "ReliableOrdered"
                         /\ Key(call[r][u]) = w
  <2>1. /\ d.frame.ack
        /\ call' = [call EXCEPT ![r] =
              [u \in Task |-> IF waits(u) THEN [call[r][u] EXCEPT !.fired = TRUE]
                              ELSE call[r][u]]]
    BY <1>13 DEF RecvAck
  <2>2. CASE p = r /\ waits(t)
    <3>1. call'[p][t] = [call[p][t] EXCEPT !.fired = TRUE] /\ call[p][t] \in Busy
      BY <2>1, <2>2, BusyCalls DEF Types, Sending
    <3>2. call'[p][t].chan = call[p][t].chan /\ call'[p][t].seq = call[p][t].seq
      BY <3>1 DEF Busy
    <3>3. call[p][t].chan = d.frame.chan /\ call[p][t].seq = d.frame.seq
      BY <2>2 DEF Key
    <3>4. Accounted(Other(p), d.frame.chan, d.frame.seq)
      BY <2>1, <2>2 DEF AckInv, AckSent
    <3>5. QED
      BY <3>2, <3>3, <3>4, <1>3
  <2>3. CASE ~(p = r /\ waits(t))
    <3>1. call'[p][t] = call[p][t]
      BY <2>1, <2>3 DEF Types, Sending
    <3>2. QED
      BY <3>1, <1>6
  <2>4. QED
    BY <2>2, <2>3
<1>14. ASSUME NEW r \in Peer,
              \/ \E k \in ChannelKind : OpenChannel(r, k)
              \/ \E b \in ChannelId : Close(r, b) \/ Read(r, b)
              \/ \E d \in wire[r] : RecvDatagram(r, d) \/ RecvReliable(r, d)
              \/ SendAck(r) \/ Insert(r) \/ Push(r) \/ Shutdown(r) \/ Stop(r)
       PROVE  call' = call
  BY <1>14 DEF OpenChannel, Close, Read, RecvDatagram, RecvReliable, SendAck, Insert, Push,
               Shutdown, Stop, callVars
<1>15. UNCHANGED vars => call' = call
  BY DEF vars, callVars
<1>16. QED
  BY <1>6, <1>9, <1>10, <1>11, <1>12, <1>13, <1>14, <1>15, Steps

(* A call that returns Ok was acknowledged, or sent a datagram.             *)
LEMMA OkStep ==
    ASSUME Types, AckInv, [Next]_vars PROVE OkMeansTaken'
<1>1. SUFFICES ASSUME NEW p \in Peer, NEW x \in returned'[p],
                      x.how = "ok", x.sent.kind = "ReliableOrdered"
               PROVE  Accounted(Other(p), x.sent.chan, x.sent.seq)'
  <2>1. Types'
    BY TypesStep
  <2>2. (OkMeansTaken <=>
           \A p \in Peer : \A x \in returned[p] :
              x.how = "ok" /\ x.sent.kind = "ReliableOrdered" =>
                 Accounted(Other(p), x.sent.chan, x.sent.seq))'
    BY <2>1, OkMeans, PTL
  <2>3. QED
    BY <2>2
<1>2. x \in Return /\ Other(p) \in Peer
  BY TypesStep, Others DEF Types, Sending
<1>3. PICK q \in Peer, c \in ChannelId, s \in Nat :
         q = Other(p) /\ c = x.sent.chan /\ s = x.sent.seq
  BY <1>2 DEF Return, Payload1
<1>4. SUFFICES Accounted(q, c, s)
  <2>1. ASSUME Accounted(q, c, s) PROVE Accounted(q, c, s)'
    BY <2>1, StaysAccounted DEF AckInv
  <2>2. QED
    BY <2>1, <1>3
<1>5. CASE x \in returned[p]
  <2>1. Accounted(Other(p), x.sent.chan, x.sent.seq)
    BY <1>1, <1>5, OkMeans DEF AckInv
  <2>2. QED
    BY <2>1, <1>3
<1>6. CASE x \notin returned[p]
  <2>1. ASSUME NEW r \in Peer, NEW u \in Task, NEW how, Finish(r, u, how)
        PROVE  r = p /\ how = "ok" /\ x.sent = Payload(call[r][u])
    <3> DEFINE y == [sent |-> Payload(call[r][u]), how |-> how]
    <3>1. returned' = [returned EXCEPT ![r] = @ \union {y}]
      BY <2>1 DEF Finish
    <3>2. y.how = how /\ y.sent = Payload(call[r][u])
      OBVIOUS
    <3> HIDE DEF y
    <3>3. x = y /\ r = p
      BY <3>1, <1>6 DEF Types, Sending
    <3>4. QED
      BY <3>2, <3>3, <1>1
  <2>2. ASSUME NEW r \in Peer, NEW u \in Task, Transmit(r, u)
        PROVE  FALSE
    <3>1. returned' = returned \/ (Finish(r, u, "ok") /\ call[r][u].kind # "ReliableOrdered")
      BY <2>2 DEF Transmit
    <3>2. Finish(r, u, "ok") /\ call[r][u].kind # "ReliableOrdered"
      BY <3>1, <1>6
    <3>3. x.sent = Payload(call[r][u])
      BY <3>2, <2>1
    <3>4. QED
      BY <3>2, <3>3, <1>1 DEF Payload
  <2>3. ASSUME NEW r \in Peer, NEW u \in Task, TransmitFails(r, u) \/ Retry(r, u)
        PROVE  FALSE
    <3>1. returned' = returned \/ Finish(r, u, "io") \/ Finish(r, u, "timeout")
      BY <2>3 DEF TransmitFails, Retry
    <3>2. QED
      BY <3>1, <2>1, <1>6
  <2>4. ASSUME NEW r \in Peer, NEW u \in Task, Acknowledged(r, u)
        PROVE  Accounted(q, c, s)
    <3>1. Finish(r, u, "ok") /\ call[r][u].pc = "wait" /\ call[r][u].fired
      BY <2>4 DEF Acknowledged
    <3>2. r = p /\ x.sent = Payload(call[r][u])
      BY <3>1, <2>1
    <3>3. /\ call[r][u].kind = "ReliableOrdered"
          /\ x.sent.chan = call[r][u].chan /\ x.sent.seq = call[r][u].seq
      BY <3>2, <1>1 DEF Payload
    <3>4. Accounted(Other(r), call[r][u].chan, call[r][u].seq)
      BY <3>1, <3>3 DEF AckInv, Fired
    <3>5. QED
      BY <3>2, <3>3, <3>4, <1>3
  <2>5. ASSUME NEW r \in Peer,
               \/ \E u \in Task : Seal(r, u) \/ \E a \in ChannelId : Send(r, u, a)
               \/ \E k \in ChannelKind : OpenChannel(r, k)
               \/ \E b \in ChannelId : Close(r, b) \/ Read(r, b)
               \/ \E d \in wire[r] : RecvAck(r, d) \/ RecvDatagram(r, d) \/ RecvReliable(r, d)
               \/ SendAck(r) \/ Insert(r) \/ Push(r) \/ Shutdown(r) \/ Stop(r)
        PROVE  returned' = returned
    BY <2>5 DEF Seal, Send, OpenChannel, Close, Read, RecvAck, RecvDatagram, RecvReliable,
                SendAck, Insert, Push, Shutdown, Stop, callVars
  <2>6. UNCHANGED vars => returned' = returned
    BY DEF vars, callVars
  <2>7. QED
    BY <1>6, <2>2, <2>3, <2>4, <2>5, <2>6, Steps
<1>7. QED
  BY <1>5, <1>6

(* Spec => []OkMeansTaken: a reliable send that returned Ok has its payload *)
(* at the peer, or the peer acknowledged it and threw it away.  What        *)
(* carries it is that a payload, once below next or acknowledged, never     *)
(* leaves hand, buffer, list, queue and the history of what was dropped.   *)
THEOREM OkHolds == Spec => []OkMeansTaken
<1>1. Types /\ AckInv /\ [Next]_vars => AckInv'
  BY PassedStep, AckSentStep, FiredStep, OkStep DEF AckInv
<1>2. AckInv => OkMeansTaken
  BY DEF AckInv
<1>3. QED
  BY TypesInit, TypesStep, AckInit, <1>1, <1>2, PTL DEF Spec

-----------------------------------------------------------------------------
(* Datagrams come out once.                                                 *)

(* d carries the datagram s of channel c.                                   *)
Carries(d, c, s) ==
    /\ d.frame.kind = "UnreliableDatagram" /\ ~d.frame.ack
    /\ d.frame.chan = c /\ d.frame.seq = s

Open(p, t) == call[p][t].pc # "idle"

(* Each call to send has a number of its own, which is not on the wire      *)
(* before a datagram has been transmitted; then the call is over.           *)
CallsApart ==
    \A p \in Peer, t \in Task : Open(p, t) =>
        /\ call[p][t].seq < nextSeq[p][call[p][t].chan]
        /\ call[p][t].pc = "wait" => call[p][t].kind # "UnreliableDatagram"
        /\ call[p][t].kind = "UnreliableDatagram" =>
             \A d \in wire[Other(p)] : ~Carries(d, call[p][t].chan, call[p][t].seq)
        /\ \A u \in Task : u # t /\ Open(p, u) /\ call[p][u].chan = call[p][t].chan =>
             call[p][u].seq # call[p][t].seq

(* No datagram is sealed twice.                                             *)
WireApart ==
    \A q \in Peer : \A d \in wire[q] :
        d.frame.kind = "UnreliableDatagram" /\ ~d.frame.ack =>
            /\ d.frame.seq < nextSeq[Other(q)][d.frame.chan]
            /\ \A e \in wire[q] : Carries(e, d.frame.chan, d.frame.seq) => e.n = d.n

(* What came out was under a nonce that is behind the receiver's.           *)
Behind(q, c, s) == \E d \in wire[q] : Carries(d, c, s) /\ d.n < rx[q]

Pushes(q, c) ==
    /\ demux[q].pc = "push"
    /\ demux[q].kind = "UnreliableDatagram" /\ demux[q].chan = c

Datagrams(q, c) == queued[q][c]["UnreliableDatagram"]

(* A datagram that is in the queue, or about to be, came under a nonce that *)
(* the receiver has passed, and is there once.                              *)
ArrivedAt(q, c) ==
    /\ \A i \in 1..Len(Datagrams(q, c)) : Behind(q, c, Datagrams(q, c)[i])
    /\ \A i, j \in 1..Len(Datagrams(q, c)) :
          Datagrams(q, c)[i] = Datagrams(q, c)[j] => i = j
    /\ Pushes(q, c) =>
          /\ Len(demux[q].list) = 1
          /\ Behind(q, c, demux[q].list[1])
          /\ \A i \in 1..Len(Datagrams(q, c)) : Datagrams(q, c)[i] # demux[q].list[1]

Arrived == \A q \in Peer, c \in ChannelId : ArrivedAt(q, c)

Apart == CallsApart /\ WireApart

LEMMA OnceInit == Init => Apart /\ Arrived
<1> SUFFICES ASSUME Init PROVE Apart /\ Arrived
  OBVIOUS
<1>1. CallsApart
  BY DEF Init, CallsApart, Open, Idle
<1>2. WireApart
  BY DEF Init, WireApart
<1>3. Arrived
  <2>1. \A q \in Peer, c \in ChannelId : queued[q][c]["UnreliableDatagram"] = <<>>
    BY DEF Init, ChannelKind
  <2>2. \A q \in Peer, c \in ChannelId : ~Pushes(q, c)
    BY DEF Init, Pushes
  <2>3. QED
    BY <2>1, <2>2 DEF Arrived, ArrivedAt, Datagrams
<1>4. QED
  BY <1>1, <1>2, <1>3 DEF Apart

(* A step that opens no call and puts no datagram on the wire.              *)
LEMMA ApartKept ==
    ASSUME Types, Apart, nextSeq' = nextSeq,
           \A p \in Peer, t \in Task : Open(p, t)' =>
               /\ Open(p, t)
               /\ call'[p][t].chan = call[p][t].chan /\ call'[p][t].seq = call[p][t].seq
               /\ call'[p][t].kind = call[p][t].kind
               /\ call'[p][t].pc = "wait" => call'[p][t].kind # "UnreliableDatagram",
           \A q \in Peer : \A d \in wire'[q] :
               d \in wire[q] \/ d.frame.kind # "UnreliableDatagram" \/ d.frame.ack
    PROVE  Apart'
<1>1. CallsApart'
  <2>1. SUFFICES ASSUME NEW p \in Peer, NEW t \in Task, Open(p, t)'
        PROVE  /\ call'[p][t].seq < nextSeq'[p][call'[p][t].chan]
               /\ call'[p][t].pc = "wait" => call'[p][t].kind # "UnreliableDatagram"
               /\ call'[p][t].kind = "UnreliableDatagram" =>
                    \A d \in wire'[Other(p)] :
                        ~Carries(d, call'[p][t].chan, call'[p][t].seq)
               /\ \A u \in Task : u # t /\ Open(p, u)' /\ call'[p][u].chan = call'[p][t].chan
                     => call'[p][u].seq # call'[p][t].seq
    BY DEF CallsApart, Carries
  <2>2. /\ call[p][t].seq < nextSeq[p][call[p][t].chan]
        /\ call[p][t].kind = "UnreliableDatagram" =>
             \A d \in wire[Other(p)] : ~Carries(d, call[p][t].chan, call[p][t].seq)
        /\ \A u \in Task : u # t /\ Open(p, u) /\ call[p][u].chan = call[p][t].chan =>
             call[p][u].seq # call[p][t].seq
    BY <2>1 DEF Apart, CallsApart
  <2>3. Other(p) \in Peer
    BY Others
  <2>4. QED
    BY <2>1, <2>2, <2>3 DEF Carries
<1>2. WireApart'
  BY DEF Apart, WireApart, Carries
<1>3. QED
  BY <1>1, <1>2 DEF Apart

(* One call changes, to a record that is over or keeps its number.          *)
LEMMA ApartCall ==
    ASSUME Types, Apart, NEW p \in Peer, NEW t \in Task, NEW y,
           call' = [call EXCEPT ![p][t] = y],
           \/ y.pc = "idle"
           \/ /\ Open(p, t)
              /\ y.chan = call[p][t].chan /\ y.seq = call[p][t].seq
              /\ y.kind = call[p][t].kind
              /\ y.pc = "wait" => y.kind # "UnreliableDatagram",
           UNCHANGED nextSeq,
           \A q \in Peer : \A d \in wire'[q] :
               d \in wire[q] \/ d.frame.kind # "UnreliableDatagram" \/ d.frame.ack
    PROVE  Apart'
<1>1. ASSUME NEW r \in Peer, NEW u \in Task, Open(r, u)'
      PROVE  /\ Open(r, u)
             /\ call'[r][u].chan = call[r][u].chan /\ call'[r][u].seq = call[r][u].seq
             /\ call'[r][u].kind = call[r][u].kind
             /\ call'[r][u].pc = "wait" => call'[r][u].kind # "UnreliableDatagram"
  <2>1. CASE r = p /\ u = t
    <3>1. call'[r][u] = y
      BY <2>1 DEF Types, Sending
    <3>2. QED
      BY <3>1, <2>1, <1>1 DEF Open
  <2>2. CASE ~(r = p /\ u = t)
    <3>1. call'[r][u] = call[r][u]
      BY <2>2 DEF Types, Sending
    <3>2. QED
      BY <3>1, <1>1 DEF Open, Apart, CallsApart
  <2>3. QED
    BY <2>1, <2>2
<1>2. QED
  BY <1>1, ApartKept

(* A new call takes the next number.                                        *)
LEMMA ApartSend ==
    ASSUME Types, Apart, NEW p \in Peer, NEW t \in Task, NEW c \in ChannelId,
           Send(p, t, c)
    PROVE  Apart'
<1> DEFINE x == [pc |-> "seal", kind |-> kind[p][c], chan |-> c,
                 seq |-> nextSeq[p][c], tries |-> 0, n |-> 0, fired |-> FALSE]
<1>1. /\ x.pc = "seal" /\ x.chan = c /\ x.seq = nextSeq[p][c]
      /\ call' = [call EXCEPT ![p][t] = x]
      /\ nextSeq' = [nextSeq EXCEPT ![p][c] = @ + 1]
      /\ wire' = wire
  BY DEF Send
<1> HIDE DEF x
<1>2. /\ call'[p][t] = x
      /\ \A r \in Peer, u \in Task : ~(r = p /\ u = t) => call'[r][u] = call[r][u]
  BY <1>1 DEF Types, Sending
<1>3. \A r \in Peer, b \in ChannelId :
         /\ nextSeq[r][b] \in Nat /\ nextSeq'[r][b] \in Nat
         /\ nextSeq[r][b] <= nextSeq'[r][b]
  BY <1>1 DEF Types, Sending
<1>4. nextSeq'[p][c] = nextSeq[p][c] + 1 /\ nextSeq[p][c] \in Nat
  BY <1>1 DEF Types, Sending
<1>5. \A r \in Peer, u \in Task : Open(r, u) => call[r][u].chan \in ChannelId
                                              /\ call[r][u].seq \in Nat
  BY CallKinds DEF Types, Sending, Open, Idle, Busy
<1>6. \A q \in Peer : \A d \in wire[q] : d.frame.chan \in ChannelId /\ d.frame.seq \in Nat
  BY FrameType DEF Frame
<1>7. WireApart'
  <2>1. \A q \in Peer : Other(q) \in Peer
    BY Others
  <2>2. SUFFICES ASSUME NEW q \in Peer, NEW d \in wire[q],
                        d.frame.kind = "UnreliableDatagram" /\ ~d.frame.ack
                 PROVE  /\ d.frame.seq < nextSeq'[Other(q)][d.frame.chan]
                        /\ \A e \in wire[q] :
                             Carries(e, d.frame.chan, d.frame.seq) => e.n = d.n
    BY <1>1 DEF WireApart, Carries
  <2>3. /\ d.frame.seq < nextSeq[Other(q)][d.frame.chan]
        /\ \A e \in wire[q] : Carries(e, d.frame.chan, d.frame.seq) => e.n = d.n
    BY <2>2 DEF Apart, WireApart
  <2>4. QED
    BY <2>1, <2>3, <1>3, <1>6
<1>8. CallsApart'
  <2>1. SUFFICES ASSUME NEW r \in Peer, NEW u \in Task, Open(r, u)'
        PROVE  /\ call'[r][u].seq < nextSeq'[r][call'[r][u].chan]
               /\ call'[r][u].pc = "wait" => call'[r][u].kind # "UnreliableDatagram"
               /\ call'[r][u].kind = "UnreliableDatagram" =>
                    \A d \in wire[Other(r)] :
                        ~Carries(d, call'[r][u].chan, call'[r][u].seq)
               /\ \A v \in Task : v # u /\ Open(r, v)' /\ call'[r][v].chan = call'[r][u].chan
                     => call'[r][v].seq # call'[r][u].seq
    BY <1>1 DEF CallsApart, Carries
  <2>2. CASE r = p /\ u = t
    <3>1. call'[r][u] = x
      BY <2>2, <1>2
    <3>2. \A d \in wire[Other(p)] : ~Carries(d, c, nextSeq[p][c])
      <4>1. SUFFICES ASSUME NEW d \in wire[Other(p)], Carries(d, c, nextSeq[p][c])
                     PROVE  FALSE
        OBVIOUS
      <4>2. Other(p) \in Peer /\ Other(Other(p)) = p
        BY Others
      <4>3. d.frame.seq < nextSeq[p][d.frame.chan]
        BY <4>1, <4>2 DEF Apart, WireApart, Carries
      <4>4. QED
        BY <4>1, <4>3, <1>4 DEF Carries
    <3>3. ASSUME NEW v \in Task, v # u, Open(r, v)', call'[r][v].chan = c
          PROVE  call'[r][v].seq # nextSeq[p][c]
      <4>1. call'[r][v] = call[r][v]
        BY <1>2, <2>2, <3>3
      <4>2. call[p][v].seq < nextSeq[p][c] /\ call[p][v].seq \in Nat
        BY <4>1, <3>3, <2>2, <1>5 DEF Open, Apart, CallsApart
      <4>3. QED
        BY <4>1, <4>2, <1>4, <2>2
    <3>4. QED
      BY <3>1, <3>2, <3>3, <1>1, <1>4, <2>2
  <2>3. CASE ~(r = p /\ u = t)
    <3>1. call'[r][u] = call[r][u] /\ Open(r, u)
      BY <2>3, <1>2, <2>1 DEF Open
    <3>2. /\ call[r][u].seq < nextSeq[r][call[r][u].chan]
          /\ call[r][u].pc = "wait" => call[r][u].kind # "UnreliableDatagram"
          /\ call[r][u].kind = "UnreliableDatagram" =>
               \A d \in wire[Other(r)] : ~Carries(d, call[r][u].chan, call[r][u].seq)
          /\ \A v \in Task : v # u /\ Open(r, v) /\ call[r][v].chan = call[r][u].chan =>
               call[r][v].seq # call[r][u].seq
      BY <3>1 DEF Apart, CallsApart
    <3>3. call[r][u].seq < nextSeq'[r][call[r][u].chan]
      BY <3>1, <3>2, <1>3, <1>5
    <3>4. ASSUME NEW v \in Task, v # u, Open(r, v)', call'[r][v].chan = call[r][u].chan
          PROVE  call'[r][v].seq # call[r][u].seq
      <4>1. CASE r = p /\ v = t
        <5>1. call'[r][v] = x /\ call[r][u].chan = c
          BY <4>1, <1>2, <1>1, <3>4
        <5>2. call[r][u].seq < nextSeq[p][c] /\ call[r][u].seq \in Nat
          BY <5>1, <3>2, <4>1, <1>5, <3>1
        <5>3. QED
          BY <5>1, <5>2, <1>1, <1>4
      <4>2. CASE ~(r = p /\ v = t)
        <5>1. call'[r][v] = call[r][v] /\ Open(r, v)
          BY <4>2, <1>2, <3>4 DEF Open
        <5>2. QED
          BY <5>1, <3>2, <3>4
      <4>3. QED
        BY <4>1, <4>2
    <3>5. QED
      BY <3>1, <3>2, <3>3, <3>4
  <2>4. QED
    BY <2>2, <2>3
<1>9. QED
  BY <1>7, <1>8 DEF Apart

(* A datagram goes out, and its call is over.                               *)
LEMMA ApartTransmit ==
    ASSUME Types, Apart, NEW p \in Peer, NEW t \in Task, Transmit(p, t),
           call[p][t].kind = "UnreliableDatagram"
    PROVE  Apart'
<1> DEFINE x == call[p][t]
           y == DataFrame(x)
<1>1. /\ x.pc = "transmit" /\ Open(p, t)
      /\ call' = [call EXCEPT ![p][t] = Idle]
      /\ wire' = [wire EXCEPT ![Other(p)] = @ \union {y}]
      /\ nextSeq' = nextSeq
  BY DEF Transmit, Finish, Open
<1>2. Other(p) \in Peer /\ Other(Other(p)) = p
  BY Others
<1>3. /\ y.frame.kind = "UnreliableDatagram" /\ ~y.frame.ack
      /\ y.frame.chan = x.chan /\ y.frame.seq = x.seq
  BY DEF DataFrame
<1>4. \A r \in Peer, u \in Task : Open(r, u)' =>
         Open(r, u) /\ call'[r][u] = call[r][u] /\ ~(r = p /\ u = t)
  BY <1>1 DEF Types, Sending, Open, Idle
<1>5. \A q \in Peer : \A d \in wire'[q] : d \in wire[q] \/ (q = Other(p) /\ d = y)
  BY <1>1 DEF Types, Wires
<1>6. x.seq < nextSeq[p][x.chan] /\ \A d \in wire[Other(p)] : ~Carries(d, x.chan, x.seq)
  BY <1>1 DEF Apart, CallsApart
<1>7. \A u \in Task : u # t /\ Open(p, u) /\ call[p][u].chan = x.chan =>
         call[p][u].seq # x.seq
  BY <1>1 DEF Apart, CallsApart
<1> HIDE DEF x, y
<1>8. WireApart'
  <2>1. SUFFICES ASSUME NEW q \in Peer, NEW d \in wire'[q],
                        d.frame.kind = "UnreliableDatagram" /\ ~d.frame.ack
                 PROVE  /\ d.frame.seq < nextSeq[Other(q)][d.frame.chan]
                        /\ \A e \in wire'[q] :
                             Carries(e, d.frame.chan, d.frame.seq) => e.n = d.n
    BY <1>1 DEF WireApart, Carries
  <2>2. CASE d \in wire[q]
    <3>1. /\ d.frame.seq < nextSeq[Other(q)][d.frame.chan]
          /\ \A e \in wire[q] : Carries(e, d.frame.chan, d.frame.seq) => e.n = d.n
      BY <2>1, <2>2 DEF Apart, WireApart
    <3>2. q = Other(p) => ~Carries(y, d.frame.chan, d.frame.seq)
      BY <2>1, <2>2, <1>3, <1>6 DEF Carries
    <3>3. QED
      BY <3>1, <3>2, <1>5
  <2>3. CASE d \notin wire[q]
    <3>1. q = Other(p) /\ d = y
      BY <2>3, <1>5
    <3>2. \A e \in wire[q] : ~Carries(e, d.frame.chan, d.frame.seq)
      BY <3>1, <1>3, <1>6
    <3>3. QED
      BY <3>1, <3>2, <1>2, <1>3, <1>5, <1>6
  <2>4. QED
    BY <2>2, <2>3
<1>9. CallsApart'
  <2>1. SUFFICES ASSUME NEW r \in Peer, NEW u \in Task, Open(r, u)'
        PROVE  /\ call'[r][u].seq < nextSeq'[r][call'[r][u].chan]
               /\ call'[r][u].pc = "wait" => call'[r][u].kind # "UnreliableDatagram"
               /\ call'[r][u].kind = "UnreliableDatagram" =>
                    \A d \in wire'[Other(r)] :
                        ~Carries(d, call'[r][u].chan, call'[r][u].seq)
               /\ \A v \in Task : v # u /\ Open(r, v)' /\ call'[r][v].chan = call'[r][u].chan
                     => call'[r][v].seq # call'[r][u].seq
    BY DEF CallsApart, Carries
  <2>2. Open(r, u) /\ call'[r][u] = call[r][u] /\ ~(r = p /\ u = t)
    BY <2>1, <1>4
  <2>3. /\ call[r][u].seq < nextSeq[r][call[r][u].chan]
        /\ call[r][u].pc = "wait" => call[r][u].kind # "UnreliableDatagram"
        /\ call[r][u].kind = "UnreliableDatagram" =>
             \A d \in wire[Other(r)] : ~Carries(d, call[r][u].chan, call[r][u].seq)
        /\ \A v \in Task : v # u /\ Open(r, v) /\ call[r][v].chan = call[r][u].chan =>
             call[r][v].seq # call[r][u].seq
    BY <2>2 DEF Apart, CallsApart
  <2>4. Other(r) = Other(p) => r = p
    BY Others
  <2>5. Other(r) \in Peer
    BY Others
  <2>6. Other(r) = Other(p) => ~Carries(y, call[r][u].chan, call[r][u].seq)
    BY <2>2, <2>4, <1>3, <1>7 DEF Carries
  <2>7. QED
    BY <2>2, <2>3, <2>5, <2>6, <1>1, <1>4, <1>5
<1>10. QED
  BY <1>8, <1>9 DEF Apart

LEMMA ApartStep ==
    ASSUME Types, Apart, AckSent, [Next]_vars PROVE Apart'
<1>1. CASE UNCHANGED <<nextSeq, call, wire>>
  BY <1>1, ApartKept DEF Apart, CallsApart, Open
<1>2. ASSUME NEW p \in Peer, NEW t \in Task, Transmit(p, t)
      PROVE  Apart'
  <2>1. CASE call[p][t].kind = "UnreliableDatagram"
    BY <1>2, <2>1, ApartTransmit
  <2>2. CASE call[p][t].kind # "UnreliableDatagram"
    <3>1. call[p][t].pc = "transmit" /\ call[p][t] \in Busy
      BY <1>2, BusyCalls DEF Transmit, Types, Sending
    <3>2. PICK y : y = [call[p][t] EXCEPT !.pc = "wait"]
      OBVIOUS
    <3>3. /\ call' = [call EXCEPT ![p][t] = y]
          /\ wire' = [wire EXCEPT ![Other(p)] = @ \union {DataFrame(call[p][t])}]
          /\ nextSeq' = nextSeq
      BY <1>2, <2>2, <3>1, <3>2 DEF Transmit, Busy, ChannelKind
    <3>4. /\ Open(p, t) /\ y.chan = call[p][t].chan /\ y.seq = call[p][t].seq
          /\ y.kind = call[p][t].kind
      BY <3>1, <3>2 DEF Open, Busy
    <3>5. DataFrame(call[p][t]).frame.kind # "UnreliableDatagram"
      BY <2>2 DEF DataFrame
    <3>6. \A q \in Peer : \A d \in wire'[q] :
             d \in wire[q] \/ d.frame.kind # "UnreliableDatagram" \/ d.frame.ack
      BY <3>3, <3>5 DEF Types, Wires
    <3>7. QED
      BY <3>3, <3>4, <3>6, <2>2, ApartCall
  <2>3. QED
    BY <2>1, <2>2
<1>3. ASSUME NEW p \in Peer, NEW t \in Task,
             Seal(p, t) \/ Retry(p, t) \/ TransmitFails(p, t) \/ Acknowledged(p, t)
      PROVE  Apart'
  <2>1. nextSeq' = nextSeq /\ wire' = wire /\ Open(p, t)
    BY <1>3 DEF Seal, Retry, TransmitFails, Acknowledged, Open
  <2>2. \A q \in Peer : \A d \in wire'[q] :
           d \in wire[q] \/ d.frame.kind # "UnreliableDatagram" \/ d.frame.ack
    BY <2>1
  <2>3. call[p][t] \in Busy
    BY <1>3, BusyCalls DEF Seal, Retry, TransmitFails, Acknowledged, Types, Sending
  <2>4. \E y : /\ call' = [call EXCEPT ![p][t] = y]
               /\ \/ y.pc = "idle"
                  \/ /\ y.chan = call[p][t].chan /\ y.seq = call[p][t].seq
                     /\ y.kind = call[p][t].kind /\ y.pc # "wait"
    <3>1. CASE Seal(p, t)
      <4>1. PICK y : y = [call[p][t] EXCEPT !.pc = "transmit", !.n = tx[p], !.fired = FALSE]
        OBVIOUS
      <4>2. call' = [call EXCEPT ![p][t] = y]
        BY <3>1, <4>1 DEF Seal
      <4>3. /\ y.chan = call[p][t].chan /\ y.seq = call[p][t].seq
            /\ y.kind = call[p][t].kind /\ y.pc = "transmit"
        BY <4>1, <2>3 DEF Busy
      <4>4. QED
        BY <4>2, <4>3
    <3>2. CASE TransmitFails(p, t) \/ Acknowledged(p, t)
      <4>1. call' = [call EXCEPT ![p][t] = Idle] /\ Idle.pc = "idle"
        BY <3>2 DEF TransmitFails, Acknowledged, Finish, Idle
      <4>2. QED
        BY <4>1
    <3>3. CASE Retry(p, t) /\ call[p][t].tries + 1 >= Attempts
      <4>1. call' = [call EXCEPT ![p][t] = Idle] /\ Idle.pc = "idle"
        BY <3>3 DEF Retry, Finish, Idle
      <4>2. QED
        BY <4>1
    <3>4. CASE Retry(p, t) /\ ~(call[p][t].tries + 1 >= Attempts)
      <4>1. PICK y : y = [call[p][t] EXCEPT !.pc = "seal", !.tries = call[p][t].tries + 1]
        OBVIOUS
      <4>2. call' = [call EXCEPT ![p][t] = y]
        BY <3>4, <4>1 DEF Retry
      <4>3. /\ y.chan = call[p][t].chan /\ y.seq = call[p][t].seq
            /\ y.kind = call[p][t].kind /\ y.pc = "seal"
        BY <4>1, <2>3 DEF Busy
      <4>4. QED
        BY <4>2, <4>3
    <3>5. QED
      BY <1>3, <3>1, <3>2, <3>3, <3>4
  <2>5. QED
    BY <2>1, <2>2, <2>4, ApartCall
<1>4. ASSUME NEW p \in Peer, NEW d \in wire[p], RecvAck(p, d)
      PROVE  Apart'
  <2>1. nextSeq' = nextSeq /\ wire' = wire
    BY <1>4 DEF RecvAck
  <2>2. ASSUME NEW r \in Peer, NEW u \in Task
        PROVE  \/ call'[r][u] = call[r][u]
               \/ /\ call[r][u].kind = "ReliableOrdered"
                  /\ call[r][u] \in Busy
                  /\ call'[r][u] = [call[r][u] EXCEPT !.fired = TRUE]
    <3>1. CASE r = p
      <4>1. \/ call'[p][u] = call[p][u]
            \/ /\ call[p][u].kind = "ReliableOrdered"
               /\ call[p][u].pc \in {"transmit", "wait"}
               /\ call'[p][u] = [call[p][u] EXCEPT !.fired = TRUE]
        BY <1>4 DEF RecvAck, Types, Sending
      <4>2. QED
        BY <4>1, <3>1, BusyCalls DEF Types, Sending
    <3>2. CASE r # p
      BY <1>4, <3>2 DEF RecvAck, Types, Sending
    <3>3. QED
      BY <3>1, <3>2
  <2>3. ASSUME NEW r \in Peer, NEW u \in Task, Open(r, u)'
        PROVE  /\ Open(r, u)
               /\ call'[r][u].chan = call[r][u].chan /\ call'[r][u].seq = call[r][u].seq
               /\ call'[r][u].kind = call[r][u].kind
               /\ call'[r][u].pc = "wait" => call'[r][u].kind # "UnreliableDatagram"
    <3>1. CASE call'[r][u] = call[r][u]
      BY <2>3, <3>1 DEF Open, Apart, CallsApart
    <3>2. CASE call'[r][u] # call[r][u]
      <4>1. /\ call[r][u].kind = "ReliableOrdered" /\ call[r][u] \in Busy
            /\ call'[r][u] = [call[r][u] EXCEPT !.fired = TRUE]
        BY <2>2, <3>2
      <4>2. /\ call'[r][u].chan = call[r][u].chan /\ call'[r][u].seq = call[r][u].seq
            /\ call'[r][u].kind = call[r][u].kind
        BY <4>1 DEF Busy
      <4>3. Open(r, u)
        BY <4>1 DEF Open, Busy
      <4>4. QED
        BY <4>1, <4>2, <4>3
    <3>3. QED
      BY <3>1, <3>2
  <2>4. QED
    BY <2>1, <2>3, ApartKept
<1>5. ASSUME NEW p \in Peer, SendAck(p)
      PROVE  Apart'
  <2>1. /\ nextSeq' = nextSeq /\ call' = call
        /\ wire' = [wire EXCEPT ![Other(p)] =
              @ \union {[frame |-> [demux[p].frame EXCEPT !.ack = TRUE], n |-> demux[p].n]}]
        /\ demux[p].pc = "ack"
    BY <1>5 DEF SendAck, callVars
  <2>2. demux[p].frame.kind = "ReliableOrdered" /\ demux[p] \in Acking
    BY <2>1, DemuxKinds DEF AckSent, Types, Receiving
  <2>3. PICK e : e = [frame |-> [demux[p].frame EXCEPT !.ack = TRUE], n |-> demux[p].n]
    OBVIOUS
  <2>4. e.frame.kind # "UnreliableDatagram"
    BY <2>2, <2>3 DEF Acking, Frame
  <2>5. \A q \in Peer : \A d \in wire'[q] : d \in wire[q] \/ d = e
    BY <2>1, <2>3 DEF Types, Wires
  <2>6. QED
    BY <2>1, <2>4, <2>5, ApartKept DEF Apart, CallsApart, Open
<1>6. ASSUME NEW p \in Peer, NEW k \in ChannelKind, OpenChannel(p, k)
      PROVE  UNCHANGED <<nextSeq, call, wire>>
  BY <1>6 DEF OpenChannel, callVars
<1>7. ASSUME NEW p \in Peer, NEW c \in ChannelId, Close(p, c) \/ Read(p, c)
      PROVE  UNCHANGED <<nextSeq, call, wire>>
  BY <1>7 DEF Close, Read, callVars
<1>8. ASSUME NEW p \in Peer, NEW d \in wire[p], RecvDatagram(p, d) \/ RecvReliable(p, d)
      PROVE  UNCHANGED <<nextSeq, call, wire>>
  BY <1>8 DEF RecvDatagram, RecvReliable, callVars
<1>9. ASSUME NEW p \in Peer, Insert(p) \/ Push(p) \/ Shutdown(p) \/ Stop(p)
      PROVE  UNCHANGED <<nextSeq, call, wire>>
  BY <1>9 DEF Insert, Push, Shutdown, Stop, callVars
<1>10. UNCHANGED vars => UNCHANGED <<nextSeq, call, wire>>
  BY DEF vars, callVars
<1>11. QED
  BY <1>1, <1>2, <1>3, <1>4, <1>5, <1>6, <1>7, <1>8, <1>9, <1>10, Steps, ApartSend

(* What was sent stays on the wire, and the receiver's nonce only grows.    *)
LEMMA OnWire ==
    ASSUME Types, [Next]_vars, NEW q \in Peer
    PROVE  wire[q] \subseteq wire'[q] /\ rx[q] <= rx'[q]
<1>1. Types'
  BY TypesStep
<1>2. rx[q] \in Nat /\ rx'[q] \in Nat
  BY <1>1 DEF Types, Wires
<1>3. UNCHANGED vars => UNCHANGED <<wire, rx>>
  BY DEF vars
<1>4. ASSUME NEW p \in Peer, NEW k \in ChannelKind, OpenChannel(p, k)
      PROVE  UNCHANGED <<wire, rx>>
  BY <1>4 DEF OpenChannel
<1>5. ASSUME NEW p \in Peer, NEW c \in ChannelId, Close(p, c) \/ Read(p, c)
      PROVE  UNCHANGED <<wire, rx>>
  BY <1>5 DEF Close, Read
<1>6. ASSUME NEW p \in Peer, NEW t \in Task, NEW c \in ChannelId, Send(p, t, c)
      PROVE  UNCHANGED <<wire, rx>>
  BY <1>6 DEF Send
<1>7. ASSUME NEW p \in Peer, NEW t \in Task,
             Seal(p, t) \/ Retry(p, t) \/ TransmitFails(p, t) \/ Acknowledged(p, t)
      PROVE  UNCHANGED <<wire, rx>>
  BY <1>7 DEF Seal, Retry, TransmitFails, Acknowledged
<1>8. ASSUME NEW p \in Peer, NEW t \in Task, Transmit(p, t)
      PROVE  wire[q] \subseteq wire'[q] /\ rx' = rx
  BY <1>8 DEF Transmit, Types, Wires
<1>9. ASSUME NEW p \in Peer, NEW d \in wire[p],
             RecvAck(p, d) \/ RecvDatagram(p, d) \/ RecvReliable(p, d)
      PROVE  wire' = wire /\ rx[q] <= rx'[q]
  <2>1. wire' = wire /\ Opens(p, d)
    BY <1>9 DEF RecvAck, RecvDatagram, RecvReliable
  <2>2. rx' = [rx EXCEPT ![p] = @ + 1]
    BY <2>1 DEF Opens
  <2>3. QED
    BY <2>1, <2>2, <1>2 DEF Types, Wires
<1>10. ASSUME NEW p \in Peer, SendAck(p)
       PROVE  wire[q] \subseteq wire'[q] /\ rx' = rx
  BY <1>10 DEF SendAck, Types, Wires
<1>11. ASSUME NEW p \in Peer, Insert(p) \/ Push(p) \/ Shutdown(p) \/ Stop(p)
       PROVE  UNCHANGED <<wire, rx>>
  BY <1>11 DEF Insert, Push, Shutdown, Stop
<1>12. QED
  BY <1>2, <1>3, <1>4, <1>5, <1>6, <1>7, <1>8, <1>9, <1>10, <1>11, Steps

LEMMA BehindKept ==
    ASSUME Types, [Next]_vars, NEW q \in Peer, NEW c, NEW s, Behind(q, c, s)
    PROVE  Behind(q, c, s)'
<1>1. PICK d \in wire[q] : Carries(d, c, s) /\ d.n < rx[q]
  BY DEF Behind
<1>2. rx[q] \in Nat /\ rx'[q] \in Nat /\ d.n \in Nat
  BY TypesStep, FrameType DEF Types, Wires
<1>3. d \in wire'[q] /\ d.n < rx'[q]
  BY <1>1, <1>2, OnWire
<1>4. QED
  BY <1>1, <1>3 DEF Behind, Carries

LEMMA DatagramQueue ==
    ASSUME Types, NEW q \in Peer, NEW c \in ChannelId
    PROVE  Datagrams(q, c) \in Seq(Nat)
BY DEF Datagrams, Types, Receiving, ChannelKind

LEMMA ArrivedKept ==
    ASSUME Types, [Next]_vars, NEW q \in Peer, NEW c \in ChannelId, ArrivedAt(q, c),
           Datagrams(q, c)' = Datagrams(q, c),
           Pushes(q, c)' => demux'[q] = demux[q]
    PROVE  ArrivedAt(q, c)'
<1>1. Pushes(q, c)' => Pushes(q, c)
  BY DEF Pushes
<1>2. \A i \in 1..Len(Datagrams(q, c)) : Behind(q, c, Datagrams(q, c)[i])'
  BY BehindKept DEF ArrivedAt
<1>3. Pushes(q, c)' => Behind(q, c, demux[q].list[1])'
  BY <1>1, BehindKept DEF ArrivedAt
<1>4. (\A i \in 1..Len(Datagrams(q, c)) : Behind(q, c, Datagrams(q, c)[i]))'
  BY <1>2 DEF Behind
<1>5. (Pushes(q, c) => /\ Len(demux[q].list) = 1
                       /\ Behind(q, c, demux[q].list[1])
                       /\ \A i \in 1..Len(Datagrams(q, c)) :
                             Datagrams(q, c)[i] # demux[q].list[1])'
  BY <1>1, <1>3 DEF ArrivedAt, Behind
<1>6. QED
  BY <1>4, <1>5 DEF ArrivedAt

(* A datagram that decrypts is not in the queue yet: what is there came     *)
(* under another nonce.                                                     *)
LEMMA ArrivedRecv ==
    ASSUME Types, Apart, [Next]_vars, NEW p \in Peer, NEW d \in wire[p],
           RecvDatagram(p, d), NEW q \in Peer, NEW c \in ChannelId, ArrivedAt(q, c)
    PROVE  ArrivedAt(q, c)'
<1>1. /\ demux[p].pc = "recv" /\ queued' = queued
      /\ ~d.frame.ack /\ d.frame.kind = "UnreliableDatagram"
      /\ Opens(p, d)
  BY DEF RecvDatagram, Opens, Listening
<1>2. Datagrams(q, c)' = Datagrams(q, c)
  BY <1>1 DEF Datagrams
<1>3. CASE Pushes(q, c)' => demux'[q] = demux[q]
  BY <1>2, <1>3, ArrivedKept
<1>4. CASE Pushes(q, c)' /\ demux'[q] # demux[q]
  <2>1. q = p /\ d.frame.chan = c /\ demux'[q].list = <<d.frame.seq>>
    <3>1. demux' = [demux EXCEPT ![p] = [pc |-> "push", kind |-> d.frame.kind,
                                         chan |-> d.frame.chan, list |-> <<d.frame.seq>>]]
      BY <1>4 DEF RecvDatagram
    <3>2. q = p
      BY <3>1, <1>4 DEF Types, Receiving
    <3>3. demux'[p] = [pc |-> "push", kind |-> d.frame.kind,
                       chan |-> d.frame.chan, list |-> <<d.frame.seq>>]
      BY <3>1 DEF Types, Receiving
    <3>4. QED
      BY <3>2, <3>3, <1>4 DEF Pushes
  <2>2. /\ d.n = rx[p] /\ rx'[p] = rx[p] + 1 /\ rx[p] \in Nat
        /\ d \in wire'[p]
    BY <1>1, OpensType, OnWire DEF Types, Wires
  <2>3. Behind(q, c, d.frame.seq)'
    <3>1. Carries(d, c, d.frame.seq) /\ d.n < rx'[p]
      BY <1>1, <2>1, <2>2 DEF Carries
    <3>2. QED
      BY <3>1, <2>1, <2>2 DEF Behind, Carries
  <2>4. ASSUME NEW i \in 1..Len(Datagrams(q, c)), Datagrams(q, c)[i] = d.frame.seq
        PROVE  FALSE
    <3>1. Behind(q, c, d.frame.seq)
      BY <2>4 DEF ArrivedAt
    <3>2. PICK e \in wire[p] : Carries(e, c, d.frame.seq) /\ e.n < rx[p]
      BY <3>1, <2>1 DEF Behind
    <3>3. e.n = d.n
      BY <3>2, <1>1, <2>1 DEF Apart, WireApart
    <3>4. QED
      BY <3>2, <3>3, <2>2
  <2>5. \A k : Behind(q, c, k) => Behind(q, c, k)'
    BY BehindKept
  <2>6. (\A i \in 1..Len(Datagrams(q, c)) : Behind(q, c, Datagrams(q, c)[i]))'
    <3>1. PICK Q : Q = Datagrams(q, c)
      OBVIOUS
    <3>2. \A i \in 1..Len(Q) : Behind(q, c, Q[i])
      BY <3>1 DEF ArrivedAt
    <3>3. \A i \in 1..Len(Q) : Behind(q, c, Q[i])'
      BY <3>2, <2>5
    <3>4. QED
      BY <3>1, <3>3, <1>2 DEF Behind
  <2>7. (/\ Len(demux[q].list) = 1
         /\ Behind(q, c, demux[q].list[1])
         /\ \A i \in 1..Len(Datagrams(q, c)) : Datagrams(q, c)[i] # demux[q].list[1])'
    <3>1. Len(demux'[q].list) = 1 /\ demux'[q].list[1] = d.frame.seq
      BY <2>1
    <3>2. Behind(q, c, demux[q].list[1])'
      BY <3>1, <2>3 DEF Behind
    <3>3. QED
      BY <3>1, <3>2, <2>4, <1>2
  <2>8. QED
    BY <2>6, <2>7, <1>2 DEF ArrivedAt
<1>5. QED
  BY <1>3, <1>4

LEMMA ArrivedPush ==
    ASSUME Types, [Next]_vars, NEW p \in Peer, Push(p),
           NEW q \in Peer, NEW c \in ChannelId, ArrivedAt(q, c)
    PROVE  ArrivedAt(q, c)'
<1>1. /\ demux[p].pc = "push"
      /\ demux[p] \in Pushing
      /\ demux[p].chan \in ChannelId /\ demux[p].kind \in ChannelKind
      /\ queued' = [queued EXCEPT ![p][demux[p].chan][demux[p].kind] =
                        Append(@, Head(demux[p].list))]
  <2>1. demux[p].pc = "push"
    BY DEF Push
  <2>2. demux[p] \in Pushing
    BY <2>1, DemuxKinds DEF Types, Receiving
  <2>3. QED
    BY <2>1, <2>2 DEF Push, Pushing
<1>2. demux' = [demux EXCEPT ![p] = IF Len(demux[p].list) = 1
                                    THEN [pc |-> "recv"]
                                    ELSE [demux[p] EXCEPT !.list = Tail(demux[p].list)]]
  BY DEF Push
<1>3. CASE ~(q = p /\ Pushes(p, c))
  <2>1. Datagrams(q, c)' = Datagrams(q, c)
    BY <1>1, <1>3 DEF Datagrams, Pushes, Types, Receiving, ChannelKind
  <2>2. Pushes(q, c)' => demux'[q] = demux[q]
    <3>1. CASE q # p
      BY <3>1, <1>2 DEF Types, Receiving
    <3>2. CASE q = p
      <4>1. CASE Len(demux[p].list) = 1
        BY <4>1, <3>2, <1>2 DEF Types, Receiving, Pushes
      <4>2. CASE Len(demux[p].list) # 1
        <5>1. PICK e : e = [demux[p] EXCEPT !.list = Tail(demux[p].list)]
          OBVIOUS
        <5>2. demux'[p] = e
          BY <5>1, <4>2, <1>2 DEF Types, Receiving
        <5>3. e.kind = demux[p].kind /\ e.chan = demux[p].chan
          BY <5>1, <1>1 DEF Pushing
        <5>4. QED
          BY <5>2, <5>3, <3>2, <1>1, <1>3 DEF Pushes
      <4>3. QED
        BY <4>1, <4>2
    <3>3. QED
      BY <3>1, <3>2
  <2>3. QED
    BY <2>1, <2>2, ArrivedKept
<1>4. CASE q = p /\ Pushes(p, c)
  <2>0. PICK Q, s : Q = Datagrams(q, c) /\ s = demux[p].list[1]
    OBVIOUS
  <2>1. /\ demux[p].kind = "UnreliableDatagram" /\ demux[p].chan = c
        /\ Len(demux[p].list) = 1
        /\ Behind(q, c, s)
        /\ \A i \in 1..Len(Q) : Q[i] # s
    BY <2>0, <1>4 DEF ArrivedAt, Pushes
  <2>2. demux[p].list \in Seq(Nat) /\ Head(demux[p].list) = s /\ s \in Nat
    BY <2>0, <1>1, <2>1, HeadTail DEF Pushing
  <2>3. Datagrams(q, c)' = Append(Q, s)
    BY <2>0, <1>1, <1>4, <2>1, <2>2 DEF Datagrams, Types, Receiving
  <2>4. Q \in Seq(Nat)
    BY <2>0, DatagramQueue
  <2>5. ~Pushes(q, c)'
    BY <1>2, <1>4, <2>1 DEF Pushes, Types, Receiving
  <2>6. /\ \A i \in 1..Len(Q) : Behind(q, c, Q[i])'
        /\ Behind(q, c, s)'
    <3>1. \A i \in 1..Len(Q) : Behind(q, c, Q[i])
      BY <2>0 DEF ArrivedAt
    <3>2. \A k : Behind(q, c, k) => Behind(q, c, k)'
      BY BehindKept
    <3>3. QED
      BY <2>1, <3>1, <3>2
  <2>7. \A i, j \in 1..Len(Q) : Q[i] = Q[j] => i = j
    BY <2>0 DEF ArrivedAt
  <2>8. /\ Len(Append(Q, s)) = Len(Q) + 1 /\ Len(Q) \in Nat
        /\ \A i \in 1..Len(Q) : Append(Q, s)[i] = Q[i]
        /\ Append(Q, s)[Len(Q) + 1] = s
    BY <2>2, <2>4, Appended
  <2>9. PICK R : R = Append(Q, s)
    OBVIOUS
  <2>10. \A i \in 1..Len(R) : Behind(q, c, R[i])'
    <3>1. ASSUME NEW i \in 1..Len(R) PROVE Behind(q, c, R[i])'
      <4>1. CASE i \in 1..Len(Q)
        <5>1. R[i] = Q[i] /\ Behind(q, c, Q[i])'
          BY <4>1, <2>6, <2>8, <2>9
        <5>2. QED
          BY <5>1 DEF Behind
      <4>2. CASE i \notin 1..Len(Q)
        <5>1. R[i] = s
          BY <4>2, <3>1, <2>8, <2>9
        <5>2. QED
          BY <5>1, <2>6 DEF Behind
      <4>3. QED
        BY <4>1, <4>2
    <3>2. QED
      BY <3>1
  <2>11. \A i, j \in 1..Len(R) : R[i] = R[j] => i = j
    BY <2>1, <2>7, <2>8, <2>9
  <2>12. (\A i \in 1..Len(Datagrams(q, c)) : Behind(q, c, Datagrams(q, c)[i]))'
    BY <2>3, <2>9, <2>10 DEF Behind
  <2>13. QED
    BY <2>3, <2>5, <2>9, <2>11, <2>12 DEF ArrivedAt
<1>5. QED
  BY <1>3, <1>4

LEMMA ArrivedStep ==
    ASSUME Types, Apart, AckSent, Arrived, [Next]_vars PROVE Arrived'
<1> SUFFICES ASSUME NEW q \in Peer, NEW c \in ChannelId PROVE ArrivedAt(q, c)'
  BY DEF Arrived
<1>1. ArrivedAt(q, c)
  BY DEF Arrived
<1>2. CASE queued' = queued /\ (Pushes(q, c)' => demux'[q] = demux[q])
  <2>1. Datagrams(q, c)' = Datagrams(q, c)
    BY <1>2 DEF Datagrams
  <2>2. QED
    BY <2>1, <1>1, <1>2, ArrivedKept
<1>3. ASSUME NEW p \in Peer, Insert(p)
      PROVE  queued' = queued /\ (Pushes(q, c)' => demux'[q] = demux[q])
  <2>1. queued' = queued /\ demux[p].pc = "insert"
    BY <1>3 DEF Insert
  <2>2. demux[p].frame.kind = "ReliableOrdered"
    BY <2>1 DEF AckSent
  <2>3. demux' = [demux EXCEPT ![p] = demux'[p]]
    BY <1>3 DEF Insert, Types, Receiving
  <2>4. demux'[p].pc = "push" => demux'[p].kind = "ReliableOrdered"
    BY <1>3, <2>2 DEF Insert, Types, Receiving
  <2>5. QED
    BY <2>1, <2>3, <2>4 DEF Pushes, Types, Receiving
<1>4. ASSUME NEW p \in Peer, NEW d \in wire[p], RecvReliable(p, d)
      PROVE  queued' = queued /\ (Pushes(q, c)' => demux'[q] = demux[q])
  BY <1>4 DEF RecvReliable, Pushes, Types, Receiving
<1>5. ASSUME NEW p \in Peer, Stop(p)
      PROVE  queued' = queued /\ (Pushes(q, c)' => demux'[q] = demux[q])
  BY <1>5 DEF Stop, Pushes, Types, Receiving
<1>6. ASSUME NEW p \in Peer, NEW k \in ChannelKind, OpenChannel(p, k)
      PROVE  UNCHANGED <<queued, demux>>
  BY <1>6 DEF OpenChannel
<1>7. ASSUME NEW p \in Peer, NEW b \in ChannelId, Close(p, b) \/ Read(p, b)
      PROVE  UNCHANGED <<queued, demux>>
  BY <1>7 DEF Close, Read
<1>8. ASSUME NEW p \in Peer, NEW t \in Task, NEW b \in ChannelId, Send(p, t, b)
      PROVE  UNCHANGED <<queued, demux>>
  BY <1>8 DEF Send
<1>9. ASSUME NEW p \in Peer, NEW t \in Task,
             \/ Seal(p, t) \/ Transmit(p, t) \/ Retry(p, t)
             \/ TransmitFails(p, t) \/ Acknowledged(p, t)
      PROVE  UNCHANGED <<queued, demux>>
  BY <1>9 DEF Seal, Transmit, Retry, TransmitFails, Acknowledged
<1>10. ASSUME NEW p \in Peer, NEW d \in wire[p], RecvAck(p, d)
       PROVE  UNCHANGED <<queued, demux>>
  BY <1>10 DEF RecvAck
<1>11. ASSUME NEW p \in Peer, Shutdown(p)
       PROVE  UNCHANGED <<queued, demux>>
  BY <1>11 DEF Shutdown
<1>12. UNCHANGED vars => UNCHANGED <<queued, demux>>
  BY DEF vars
<1>13. ASSUME NEW p \in Peer, SendAck(p)
       PROVE  queued' = queued /\ (Pushes(q, c)' => demux'[q] = demux[q])
  <2>1. PICK e : e.pc = "insert" /\ demux' = [demux EXCEPT ![p] = e] /\ queued' = queued
    BY <1>13, Acked
  <2>2. QED
    BY <2>1 DEF Pushes, Types, Receiving
<1>14. QED
  BY <1>1, <1>2, <1>3, <1>4, <1>5, <1>6, <1>7, <1>8, <1>9, <1>10, <1>11, <1>12, <1>13, Steps,
     ArrivedRecv, ArrivedPush

(* Spec => []DatagramsOnce: a datagram comes out of its channel at most     *)
(* once.                                                                    *)
THEOREM OnceHolds == Spec => []DatagramsOnce
<1>1. Types /\ Arrived => DatagramsOnce
  <2> SUFFICES ASSUME Types, Arrived, NEW p \in Peer, NEW c \in ChannelId
               PROVE  IsInjective(queued[p][c]["UnreliableDatagram"])
    BY DEF DatagramsOnce
  <2>1. Datagrams(p, c) \in Seq(Nat)
    BY DatagramQueue
  <2>2. DOMAIN Datagrams(p, c) = 1..Len(Datagrams(p, c))
    BY <2>1
  <2>3. \A i, j \in 1..Len(Datagrams(p, c)) :
           Datagrams(p, c)[i] = Datagrams(p, c)[j] => i = j
    BY DEF Arrived, ArrivedAt
  <2>4. QED
    BY <2>2, <2>3 DEF IsInjective, Datagrams
<1>2. Types /\ AckInv /\ [Next]_vars => AckInv'
  BY PassedStep, AckSentStep, FiredStep, OkStep DEF AckInv
<1>3. Types /\ AckInv /\ Apart /\ Arrived /\ [Next]_vars => Apart' /\ Arrived'
  BY ApartStep, ArrivedStep DEF AckInv
<1>4. QED
  BY TypesInit, TypesStep, AckInit, OnceInit, <1>1, <1>2, <1>3, PTL DEF Spec


-----------------------------------------------------------------------------
(* The refinement of OrderedStream.                                         *)

(* What can leave a buffer that has nothing below next is the stretch of    *)
(* numbers from next on.                                                    *)
LEMMA DrainRun ==
    ASSUME NEW next \in Nat, NEW buffered \in SUBSET Nat, IsFiniteSet(buffered),
           \A s \in buffered : s >= next
    PROVE  /\ Range(Drain(next, buffered)) \subseteq buffered
           /\ \A s \in buffered \ Range(Drain(next, buffered)) :
                 s >= next + Len(Drain(next, buffered))
<1> DEFINE run == {s \in buffered : next..s \subseteq buffered}
           K == Cardinality(run)
           all == next..(next + K - 1)
           list == Drain(next, buffered)
<1>1. /\ list \in Seq(Nat) /\ Len(list) = K /\ IsFiniteSet(run)
      /\ \A i \in 1..Len(list) : list[i] = next + i - 1
  BY Draining
<1>2. K \in Nat
  BY <1>1, FS_CardinalityType
<1>3. run \subseteq all
  <2> SUFFICES ASSUME NEW s \in run PROVE s \in all
    OBVIOUS
  <2>1. s \in Nat /\ s >= next
    OBVIOUS
  <2>2. next..s \subseteq run
    <3>1. ASSUME NEW t \in next..s PROVE t \in run
      <4>1. next..t \subseteq next..s
        BY <2>1
      <4>2. QED
        BY <4>1
    <3>2. QED
      BY <3>1
  <2>3. Cardinality(next..s) <= K
    BY <1>1, <2>2, FS_Subset
  <2>4. Cardinality(next..s) = s - next + 1
    BY <2>1, FS_Interval
  <2> HIDE DEF K, run
  <2>5. QED
    BY <1>2, <2>1, <2>3, <2>4
<1>4. IsFiniteSet(all) /\ Cardinality(all) = K
  <2> HIDE DEF K
  <2>1. next + K - 1 \in Int /\ next \in Int
    BY <1>2
  <2>2. Cardinality(all) = IF next > next + K - 1 THEN 0 ELSE (next + K - 1) - next + 1
    BY <2>1, FS_Interval
  <2>3. IsFiniteSet(all)
    BY <2>1, FS_Interval
  <2>4. QED
    BY <1>2, <2>2, <2>3
<1>5. run = all
  <2> HIDE DEF all
  <2>1. QED
    BY <1>3, <1>4, FS_Subset
<1>6. Range(list) = all
  <2>1. Range(list) = {list[i] : i \in 1..Len(list)}
    BY <1>1, Ranges
  <2> HIDE DEF K, list
  <2>2. ASSUME NEW s \in all PROVE s \in Range(list)
    <3>1. s - next + 1 \in 1..Len(list) /\ list[s - next + 1] = s
      BY <1>1, <1>2
    <3>2. QED
      BY <2>1, <3>1
  <2>3. \A i \in 1..Len(list) : list[i] \in all
    BY <1>1, <1>2
  <2>4. QED
    BY <2>1, <2>2, <2>3
<1>7. ASSUME NEW s \in buffered \ all PROVE s >= next + K
  <2> HIDE DEF K
  <2>1. QED
    BY <1>2
<1> HIDE DEF K, all, list
<1>8. run \subseteq buffered
  OBVIOUS
<1>9. QED
  BY <1>1, <1>5, <1>6, <1>7, <1>8 DEF list

(* A payload that p has numbered: sent on a handle of that kind.            *)
Numbered(p, k, c, s) ==
    /\ c \in 1..opened[p] /\ kind[p][c] = k
    /\ s \in Nat /\ s < nextSeq[p][c]

(* A channel that is not open yet has sent nothing.                         *)
Fresh ==
    \A p \in Peer, c \in ChannelId : c > opened[p] =>
        /\ nextSeq[p][c] = 0 /\ kind[p][c] = "ReliableOrdered" /\ c \notin channels[p]

(* Whatever is under way was numbered by its sender.                        *)
CallsNumbered ==
    \A p \in Peer, t \in Task : call[p][t].pc # "idle" =>
        Numbered(p, call[p][t].kind, call[p][t].chan, call[p][t].seq)

WireNumbered ==
    \A q \in Peer : \A d \in wire[q] : ~d.frame.ack =>
        Numbered(Other(q), d.frame.kind, d.frame.chan, d.frame.seq)

AckNumbered ==
    \A q \in Peer : demux[q].pc \in {"ack", "insert"} =>
        /\ demux[q].frame.kind = "ReliableOrdered"
        /\ Numbered(Other(q), "ReliableOrdered", demux[q].frame.chan, demux[q].frame.seq)

(* What waits in a buffer, waits for numbers that are still to come.        *)
Waiting ==
    \A q \in Peer, c \in ChannelId : \A s \in recv[q][c].buffered :
        /\ s >= recv[q][c].next
        /\ Numbered(Other(q), "ReliableOrdered", c, s)

(* What has left the buffer of c at q for the queue.                        *)
Handed(q, c) ==
    Len(queued[q][c]["ReliableOrdered"]) + (IF Pushed(q, c) THEN Len(demux[q].list) ELSE 0)

(* The payloads of a reliable channel come out as 0, 1, 2, ...              *)
InTurn(q, c) ==
    /\ \A i \in 1..Len(queued[q][c]["ReliableOrdered"]) :
          queued[q][c]["ReliableOrdered"][i] = i - 1
    /\ Pushed(q, c) => \A i \in 1..Len(demux[q].list) :
          demux[q].list[i] = Len(queued[q][c]["ReliableOrdered"]) + i - 1
    /\ \A s \in Nat : s < Handed(q, c) => Numbered(Other(q), "ReliableOrdered", c, s)
    /\ c \in channels[q] => recv[q][c].next = Handed(q, c)
    /\ c > opened[q] => Handed(q, c) = 0

Turns == \A q \in Peer, c \in ChannelId : kind[q][c] = "ReliableOrdered" => InTurn(q, c)

StreamInv == Fresh /\ CallsNumbered /\ WireNumbered /\ AckNumbered /\ Waiting /\ Turns

(* Counters and handles only grow.                                          *)
LEMMA Growth ==
    ASSUME Types, [Next]_vars, NEW p \in Peer, NEW c \in ChannelId
    PROVE  /\ opened[p] \in Nat /\ opened'[p] \in Nat /\ opened[p] <= opened'[p]
           /\ nextSeq[p][c] \in Nat /\ nextSeq'[p][c] \in Nat
           /\ nextSeq[p][c] <= nextSeq'[p][c]
           /\ c <= opened[p] \/ c > opened'[p] => kind'[p][c] = kind[p][c]
           /\ c > opened'[p] => nextSeq'[p][c] = nextSeq[p][c]
           /\ c > opened'[p] /\ c \notin channels[p] => c \notin channels'[p]
<1>0. Types'
  BY TypesStep
<1>1. /\ opened[p] \in Nat /\ opened'[p] \in Nat
      /\ nextSeq[p][c] \in Nat /\ nextSeq'[p][c] \in Nat
  BY <1>0, Numbers DEF Types, Handles, Sending
<1>2. ASSUME NEW q \in Peer, NEW k \in ChannelKind, OpenChannel(q, k)
      PROVE  /\ opened[p] <= opened'[p] /\ nextSeq' = nextSeq
             /\ c <= opened[p] \/ c > opened'[p] => kind'[p][c] = kind[p][c]
             /\ c > opened'[p] /\ c \notin channels[p] => c \notin channels'[p]
  <2>1. /\ opened' = [opened EXCEPT ![q] = opened[q] + 1]
        /\ kind' = [kind EXCEPT ![q][opened[q] + 1] = k]
        /\ channels' = [channels EXCEPT ![q] = @ \union {opened[q] + 1}]
        /\ nextSeq' = nextSeq /\ opened[q] + 1 \in ChannelId
    BY <1>2 DEF OpenChannel, callVars
  <2>2. CASE p = q
    BY <2>1, <2>2, <1>1, Numbers DEF Types, Handles
  <2>3. CASE p # q
    BY <2>1, <2>3, <1>1, Numbers DEF Types, Handles
  <2>4. QED
    BY <2>1, <2>2, <2>3
<1>3. ASSUME NEW q \in Peer, NEW b \in ChannelId, Close(q, b)
      PROVE  opened' = opened /\ kind' = kind /\ nextSeq' = nextSeq
             /\ channels'[p] \subseteq channels[p]
  BY <1>3 DEF Close, callVars, Types, Handles
<1>4. ASSUME NEW q \in Peer, NEW t \in Task, NEW b \in ChannelId, Send(q, t, b)
      PROVE  /\ opened' = opened /\ kind' = kind /\ channels' = channels
             /\ nextSeq[p][c] <= nextSeq'[p][c]
             /\ c > opened[p] => nextSeq'[p][c] = nextSeq[p][c]
  <2>1. /\ opened' = opened /\ kind' = kind /\ channels' = channels
        /\ nextSeq' = [nextSeq EXCEPT ![q][b] = @ + 1] /\ b <= opened[q]
    BY <1>4 DEF Send, handleVars
  <2>2. CASE p = q /\ c = b
    <3>1. nextSeq'[p][c] = nextSeq[p][c] + 1
      BY <2>1, <2>2 DEF Types, Sending
    <3>2. c <= opened[p]
      BY <2>1, <2>2
    <3>3. nextSeq[p][c] <= nextSeq'[p][c]
      BY <3>1, <1>1
    <3>4. ~(c > opened[p])
      BY <3>2, <1>1, Numbers
    <3>5. QED
      BY <2>1, <3>3, <3>4
  <2>3. CASE ~(p = q /\ c = b)
    BY <2>1, <2>3, <1>1 DEF Types, Sending
  <2>4. QED
    BY <2>1, <2>2, <2>3
<1>5. CASE UNCHANGED <<opened, kind, nextSeq, channels>>
  BY <1>1, <1>5
<1>6. CASE ~UNCHANGED <<opened, kind, nextSeq, channels>>
  <2>1. \/ \E q \in Peer, k \in ChannelKind : OpenChannel(q, k)
        \/ \E q \in Peer, b \in ChannelId : Close(q, b)
        \/ \E q \in Peer, t \in Task, b \in ChannelId : Send(q, t, b)
    <3>1. ~UNCHANGED vars
      BY <1>6 DEF vars, handleVars, callVars
    <3>2. \A q \in Peer, b \in ChannelId : ~Read(q, b)
      BY <1>6 DEF Read, handleVars, callVars
    <3>3. \A q \in Peer, t \in Task :
             /\ ~Seal(q, t) /\ ~Transmit(q, t) /\ ~Retry(q, t)
             /\ ~TransmitFails(q, t) /\ ~Acknowledged(q, t)
      BY <1>6 DEF Seal, Transmit, Retry, TransmitFails, Acknowledged, handleVars
    <3>4. \A q \in Peer : \A d \in wire[q] :
             ~RecvAck(q, d) /\ ~RecvDatagram(q, d) /\ ~RecvReliable(q, d)
      BY <1>6 DEF RecvAck, RecvDatagram, RecvReliable, handleVars, callVars
    <3>5. \A q \in Peer :
             ~SendAck(q) /\ ~Insert(q) /\ ~Push(q) /\ ~Shutdown(q) /\ ~Stop(q)
      BY <1>6 DEF SendAck, Insert, Push, Shutdown, Stop, handleVars, callVars
    <3>6. QED
      BY Steps, <3>1, <3>2, <3>3, <3>4, <3>5
  <2>2. QED
    BY <1>1, <1>2, <1>3, <1>4, <2>1
<1>7. QED
  BY <1>5, <1>6

LEMMA NumberedKept ==
    ASSUME Types, [Next]_vars, NEW p \in Peer, NEW k, NEW c \in ChannelId, NEW s
    PROVE  Numbered(p, k, c, s) => Numbered(p, k, c, s)'
BY Growth, Numbers DEF Numbered

LEMMA FreshStep ==
    ASSUME Types, Fresh, [Next]_vars PROVE Fresh'
<1> SUFFICES ASSUME NEW p \in Peer, NEW c \in ChannelId, c > opened'[p]
             PROVE  /\ nextSeq'[p][c] = 0 /\ kind'[p][c] = "ReliableOrdered"
                    /\ c \notin channels'[p]
  BY DEF Fresh
<1>1. c > opened[p]
  BY Growth, Numbers
<1>2. QED
  BY <1>1, Growth DEF Fresh

(* A call that is open after a step was open before, for the same payload,  *)
(* or has just begun.                                                       *)
LEMMA CallsGoOn ==
    ASSUME Types, [Next]_vars, NEW p \in Peer, NEW t \in Task, Open(p, t)'
    PROVE  \/ \E c \in ChannelId : Send(p, t, c)
           \/ /\ Open(p, t)
              /\ call'[p][t].chan = call[p][t].chan /\ call'[p][t].seq = call[p][t].seq
              /\ call'[p][t].kind = call[p][t].kind
<1>1. CASE call'[p][t] = call[p][t]
  BY <1>1 DEF Open
<1>2. ASSUME NEW q \in Peer, NEW u \in Task, NEW c \in ChannelId, Send(q, u, c)
      PROVE  (q = p /\ u = t) \/ call'[p][t] = call[p][t]
  <2>1. \E x : call' = [call EXCEPT ![q][u] = x]
    BY <1>2 DEF Send
  <2>2. QED
    BY <2>1 DEF Types, Sending
<1>3. ASSUME NEW q \in Peer, NEW u \in Task,
             \/ Seal(q, u) \/ Transmit(q, u) \/ Retry(q, u)
             \/ TransmitFails(q, u) \/ Acknowledged(q, u)
      PROVE  \/ call'[p][t] = call[p][t]
             \/ /\ Open(p, t)
                /\ call'[p][t].chan = call[p][t].chan /\ call'[p][t].seq = call[p][t].seq
                /\ call'[p][t].kind = call[p][t].kind
  <2>1. call[q][u] \in Busy /\ Open(q, u)
    BY <1>3, BusyCalls DEF Seal, Transmit, Retry, TransmitFails, Acknowledged, Types, Sending,
       Open
  <2>2. \E y : /\ call' = [call EXCEPT ![q][u] = y]
               /\ \/ y.pc = "idle"
                  \/ /\ y.chan = call[q][u].chan /\ y.seq = call[q][u].seq
                     /\ y.kind = call[q][u].kind
    <3>1. CASE Seal(q, u)
      <4>1. PICK y : y = [call[q][u] EXCEPT !.pc = "transmit", !.n = tx[q], !.fired = FALSE]
        OBVIOUS
      <4>2. call' = [call EXCEPT ![q][u] = y]
        BY <3>1, <4>1 DEF Seal
      <4>3. /\ y.chan = call[q][u].chan /\ y.seq = call[q][u].seq
            /\ y.kind = call[q][u].kind
        BY <4>1, <2>1 DEF Busy
      <4>4. QED
        BY <4>2, <4>3
    <3>2. ASSUME call' = [call EXCEPT ![q][u] = Idle]
          PROVE  \E y : call' = [call EXCEPT ![q][u] = y] /\ y.pc = "idle"
      <4>1. Idle.pc = "idle"
        BY DEF Idle
      <4>2. QED
        BY <3>2, <4>1
    <3>3. CASE Transmit(q, u) /\ call' # [call EXCEPT ![q][u] = Idle]
      <4>1. PICK y : y = [call[q][u] EXCEPT !.pc = "wait"]
        OBVIOUS
      <4>2. call' = [call EXCEPT ![q][u] = y]
        BY <3>3, <4>1 DEF Transmit, Finish
      <4>3. /\ y.chan = call[q][u].chan /\ y.seq = call[q][u].seq
            /\ y.kind = call[q][u].kind
        BY <4>1, <2>1 DEF Busy
      <4>4. QED
        BY <4>2, <4>3
    <3>4. CASE Retry(q, u) /\ call' # [call EXCEPT ![q][u] = Idle]
      <4>1. PICK y : y = [call[q][u] EXCEPT !.pc = "seal", !.tries = call[q][u].tries + 1]
        OBVIOUS
      <4>2. call' = [call EXCEPT ![q][u] = y]
        BY <3>4, <4>1 DEF Retry, Finish
      <4>3. /\ y.chan = call[q][u].chan /\ y.seq = call[q][u].seq
            /\ y.kind = call[q][u].kind
        BY <4>1, <2>1 DEF Busy
      <4>4. QED
        BY <4>2, <4>3
    <3>5. TransmitFails(q, u) \/ Acknowledged(q, u) => call' = [call EXCEPT ![q][u] = Idle]
      BY DEF TransmitFails, Acknowledged, Finish
    <3>6. QED
      BY <1>3, <3>1, <3>2, <3>3, <3>4, <3>5
  <2>3. PICK y : /\ call' = [call EXCEPT ![q][u] = y]
                 /\ \/ y.pc = "idle"
                    \/ /\ y.chan = call[q][u].chan /\ y.seq = call[q][u].seq
                       /\ y.kind = call[q][u].kind
    BY <2>2
  <2>4. CASE q = p /\ u = t
    <3>1. call'[p][t] = y
      BY <2>3, <2>4 DEF Types, Sending
    <3>2. QED
      BY <3>1, <2>1, <2>3, <2>4 DEF Open
  <2>5. CASE ~(q = p /\ u = t)
    BY <2>3, <2>5 DEF Types, Sending
  <2>6. QED
    BY <2>4, <2>5
<1>4. ASSUME NEW q \in Peer, NEW d \in wire[q], RecvAck(q, d)
      PROVE  \/ call'[p][t] = call[p][t]
             \/ /\ Open(p, t)
                /\ call'[p][t].chan = call[p][t].chan /\ call'[p][t].seq = call[p][t].seq
                /\ call'[p][t].kind = call[p][t].kind
  <2>1. CASE q = p
    <3>1. \/ call'[p][t] = call[p][t]
          \/ /\ call[p][t].pc \in {"transmit", "wait"}
             /\ call'[p][t] = [call[p][t] EXCEPT !.fired = TRUE]
      BY <1>4, <2>1 DEF RecvAck, Types, Sending
    <3>2. CASE /\ call[p][t].pc \in {"transmit", "wait"}
               /\ call'[p][t] = [call[p][t] EXCEPT !.fired = TRUE]
      <4>1. call[p][t] \in Busy
        BY <3>2, BusyCalls DEF Types, Sending
      <4>2. QED
        BY <4>1, <3>2 DEF Busy, Open
    <3>3. QED
      BY <3>1, <3>2
  <2>2. CASE q # p
    BY <1>4, <2>2 DEF RecvAck, Types, Sending
  <2>3. QED
    BY <2>1, <2>2
<1>5. ASSUME NEW q \in Peer, NEW k \in ChannelKind, OpenChannel(q, k)
      PROVE  call' = call
  BY <1>5 DEF OpenChannel, callVars
<1>6. ASSUME NEW q \in Peer, NEW c \in ChannelId, Close(q, c) \/ Read(q, c)
      PROVE  call' = call
  BY <1>6 DEF Close, Read, callVars
<1>7. ASSUME NEW q \in Peer, NEW d \in wire[q], RecvDatagram(q, d) \/ RecvReliable(q, d)
      PROVE  call' = call
  BY <1>7 DEF RecvDatagram, RecvReliable, callVars
<1>8. ASSUME NEW q \in Peer, SendAck(q) \/ Insert(q) \/ Push(q) \/ Shutdown(q) \/ Stop(q)
      PROVE  call' = call
  BY <1>8 DEF SendAck, Insert, Push, Shutdown, Stop, callVars
<1>9. UNCHANGED vars => call' = call
  BY DEF vars, callVars
<1>10. QED
  BY <1>1, <1>2, <1>3, <1>4, <1>5, <1>6, <1>7, <1>8, <1>9, Steps

LEMMA CallsNumberedStep ==
    ASSUME Types, CallsNumbered, [Next]_vars PROVE CallsNumbered'
<1> SUFFICES ASSUME NEW p \in Peer, NEW t \in Task, Open(p, t)'
             PROVE  Numbered(p, call[p][t].kind, call[p][t].chan, call[p][t].seq)'
  BY DEF CallsNumbered, Open
<1>1. ASSUME NEW c \in ChannelId, Send(p, t, c)
      PROVE  Numbered(p, call[p][t].kind, call[p][t].chan, call[p][t].seq)'
  <2>1. /\ c <= opened[p] /\ opened' = opened /\ kind' = kind
        /\ nextSeq' = [nextSeq EXCEPT ![p][c] = @ + 1]
        /\ call' = [call EXCEPT ![p][t] =
                     [pc |-> "seal", kind |-> kind[p][c], chan |-> c,
                      seq |-> nextSeq[p][c], tries |-> 0, n |-> 0, fired |-> FALSE]]
    BY <1>1 DEF Send, handleVars
  <2>2. /\ call'[p][t].kind = kind[p][c] /\ call'[p][t].chan = c
        /\ call'[p][t].seq = nextSeq[p][c]
    BY <2>1 DEF Types, Sending
  <2>3. nextSeq'[p][c] = nextSeq[p][c] + 1 /\ nextSeq[p][c] \in Nat
    BY <2>1 DEF Types, Sending
  <2>4. c \in 1..opened[p]
    BY <2>1, Growth, Numbers
  <2>5. QED
    BY <2>1, <2>2, <2>3, <2>4 DEF Numbered
<1>2. CASE /\ Open(p, t)
           /\ call'[p][t].chan = call[p][t].chan /\ call'[p][t].seq = call[p][t].seq
           /\ call'[p][t].kind = call[p][t].kind
  <2>1. PICK k, c, s : k = call[p][t].kind /\ c = call[p][t].chan /\ s = call[p][t].seq
    OBVIOUS
  <2>2. Numbered(p, k, c, s)
    BY <1>2, <2>1 DEF CallsNumbered, Open
  <2>3. c \in ChannelId
    BY <2>2, Numbers DEF Numbered, Types, Handles
  <2>4. Numbered(p, k, c, s)'
    BY <2>2, <2>3, NumberedKept
  <2>5. QED
    BY <2>1, <2>4, <1>2 DEF Numbered
<1>3. QED
  BY <1>1, <1>2, CallsGoOn

(* What is new on the wire is the payload of an open call, or an            *)
(* acknowledgement.                                                         *)
LEMMA NewOnWire ==
    ASSUME Types, [Next]_vars, NEW q \in Peer, NEW d \in wire'[q], d \notin wire[q],
           ~d.frame.ack
    PROVE  \E t \in Task : /\ call[Other(q)][t] \in Busy
                           /\ d = DataFrame(call[Other(q)][t])
<1>1. UNCHANGED vars => wire' = wire
  BY DEF vars
<1>2. ASSUME NEW p \in Peer, NEW k \in ChannelKind, OpenChannel(p, k)
      PROVE  wire' = wire
  BY <1>2 DEF OpenChannel
<1>3. ASSUME NEW p \in Peer, NEW c \in ChannelId, Close(p, c) \/ Read(p, c)
      PROVE  wire' = wire
  BY <1>3 DEF Close, Read
<1>4. ASSUME NEW p \in Peer, NEW t \in Task, NEW c \in ChannelId, Send(p, t, c)
      PROVE  wire' = wire
  BY <1>4 DEF Send
<1>5. ASSUME NEW p \in Peer, NEW t \in Task,
             Seal(p, t) \/ Retry(p, t) \/ TransmitFails(p, t) \/ Acknowledged(p, t)
      PROVE  wire' = wire
  BY <1>5 DEF Seal, Retry, TransmitFails, Acknowledged
<1>6. ASSUME NEW p \in Peer, NEW t \in Task, Transmit(p, t)
      PROVE  call[Other(q)][t] \in Busy /\ d = DataFrame(call[Other(q)][t])
  <2>1. /\ call[p][t].pc = "transmit"
        /\ wire' = [wire EXCEPT ![Other(p)] = @ \union {DataFrame(call[p][t])}]
    BY <1>6 DEF Transmit
  <2>2. Other(p) = q /\ d = DataFrame(call[p][t])
    BY <2>1, Others DEF Types, Wires
  <2>3. p = Other(q)
    BY <2>2, Others
  <2>4. call[p][t] \in Busy
    BY <2>1, BusyCalls DEF Types, Sending
  <2>5. QED
    BY <2>2, <2>3, <2>4
<1>7. ASSUME NEW p \in Peer, NEW e \in wire[p],
             RecvAck(p, e) \/ RecvDatagram(p, e) \/ RecvReliable(p, e)
      PROVE  wire' = wire
  BY <1>7 DEF RecvAck, RecvDatagram, RecvReliable
<1>8. ASSUME NEW p \in Peer, SendAck(p)
      PROVE  FALSE
  <2>1. /\ demux[p].pc = "ack"
        /\ wire' = [wire EXCEPT ![Other(p)] =
              @ \union {[frame |-> [demux[p].frame EXCEPT !.ack = TRUE], n |-> demux[p].n]}]
    BY <1>8 DEF SendAck
  <2>2. demux[p] \in Acking
    BY <2>1, DemuxKinds DEF Types, Receiving
  <2>3. PICK e : e = [frame |-> [demux[p].frame EXCEPT !.ack = TRUE], n |-> demux[p].n]
    OBVIOUS
  <2>4. e.frame.ack
    BY <2>2, <2>3 DEF Acking, Frame
  <2>5. d = e
    BY <2>1, <2>3 DEF Types, Wires
  <2>6. QED
    BY <2>4, <2>5
<1>9. ASSUME NEW p \in Peer, Insert(p) \/ Push(p) \/ Shutdown(p) \/ Stop(p)
      PROVE  wire' = wire
  BY <1>9 DEF Insert, Push, Shutdown, Stop
<1>10. QED
  BY <1>1, <1>2, <1>3, <1>4, <1>5, <1>6, <1>7, <1>8, <1>9, Steps

LEMMA WireNumberedStep ==
    ASSUME Types, CallsNumbered, WireNumbered, [Next]_vars PROVE WireNumbered'
<1> SUFFICES ASSUME NEW q \in Peer, NEW d \in wire'[q], ~d.frame.ack
             PROVE  Numbered(Other(q), d.frame.kind, d.frame.chan, d.frame.seq)'
  BY DEF WireNumbered
<1>1. Other(q) \in Peer
  BY Others
<1>2. Numbered(Other(q), d.frame.kind, d.frame.chan, d.frame.seq)
  <2>1. CASE d \in wire[q]
    BY <2>1 DEF WireNumbered
  <2>2. CASE d \notin wire[q]
    <3>1. PICK t \in Task : /\ call[Other(q)][t] \in Busy
                            /\ d = DataFrame(call[Other(q)][t])
      BY <2>2, NewOnWire
    <3>2. PICK x : x = call[Other(q)][t]
      OBVIOUS
    <3>3. d.frame.kind = x.kind /\ d.frame.chan = x.chan /\ d.frame.seq = x.seq
      BY <3>1, <3>2 DEF DataFrame
    <3>4. Numbered(Other(q), x.kind, x.chan, x.seq)
      BY <1>1, <3>1, <3>2 DEF CallsNumbered, Busy
    <3>5. QED
      BY <3>3, <3>4
  <2>3. QED
    BY <2>1, <2>2
<1>3. d.frame.chan \in ChannelId
  BY <1>1, <1>2, Numbers DEF Numbered, Types, Handles
<1>4. QED
  BY <1>1, <1>2, <1>3, NumberedKept

(* The demultiplexer acknowledges what it has just received.                *)
LEMMA Acknowledging ==
    ASSUME Types, [Next]_vars, NEW q \in Peer, demux'[q].pc \in {"ack", "insert"}
    PROVE  \/ demux'[q] = demux[q]
           \/ demux[q].pc = "ack" /\ demux'[q].frame = demux[q].frame
           \/ \E d \in wire[q] : /\ demux'[q].frame = d.frame
                                 /\ ~d.frame.ack /\ d.frame.kind = "ReliableOrdered"
<1>1. UNCHANGED vars => demux' = demux
  BY DEF vars
<1>2. ASSUME NEW p \in Peer, NEW k \in ChannelKind, OpenChannel(p, k)
      PROVE  demux' = demux
  BY <1>2 DEF OpenChannel
<1>3. ASSUME NEW p \in Peer, NEW c \in ChannelId, Close(p, c) \/ Read(p, c)
      PROVE  demux' = demux
  BY <1>3 DEF Close, Read
<1>4. ASSUME NEW p \in Peer, NEW t \in Task, NEW c \in ChannelId, Send(p, t, c)
      PROVE  demux' = demux
  BY <1>4 DEF Send
<1>5. ASSUME NEW p \in Peer, NEW t \in Task,
             \/ Seal(p, t) \/ Transmit(p, t) \/ Retry(p, t)
             \/ TransmitFails(p, t) \/ Acknowledged(p, t)
      PROVE  demux' = demux
  BY <1>5 DEF Seal, Transmit, Retry, TransmitFails, Acknowledged
<1>6. ASSUME NEW p \in Peer, NEW d \in wire[p], RecvReliable(p, d)
      PROVE  \/ demux'[q] = demux[q]
             \/ d \in wire[q] /\ demux'[q].frame = d.frame
                /\ ~d.frame.ack /\ d.frame.kind = "ReliableOrdered"
  BY <1>6 DEF RecvReliable, Types, Receiving
<1>7. ASSUME NEW p \in Peer, NEW d \in wire[p], RecvAck(p, d) \/ RecvDatagram(p, d)
      PROVE  demux'[q] = demux[q]
  BY <1>7 DEF RecvAck, RecvDatagram, Types, Receiving
<1>8. ASSUME NEW p \in Peer, Insert(p)
      PROVE  demux'[q] = demux[q]
  <2>1. \E l : \/ demux' = [demux EXCEPT ![p] = [pc |-> "push", kind |-> demux[p].frame.kind,
                                     chan |-> demux[p].frame.chan, list |-> l]]
               \/ demux' = [demux EXCEPT ![p] = [pc |-> "recv"]]
    BY <1>8 DEF Insert
  <2>2. QED
    BY <2>1 DEF Types, Receiving
<1>9. ASSUME NEW p \in Peer, Push(p)
      PROVE  demux'[q] = demux[q]
  <2>1. PICK e : e = [demux[p] EXCEPT !.list = Tail(demux[p].list)]
    OBVIOUS
  <2>2. demux' = [demux EXCEPT ![p] = IF Len(demux[p].list) = 1 THEN [pc |-> "recv"] ELSE e]
    BY <1>9, <2>1 DEF Push
  <2>3. demux[p] \in Pushing
    BY <1>9, DemuxKinds DEF Push, Types, Receiving
  <2>4. e.pc = "push"
    BY <2>1, <2>3 DEF Pushing
  <2>5. QED
    BY <2>2, <2>4 DEF Types, Receiving
<1>10. ASSUME NEW p \in Peer, Shutdown(p) \/ Stop(p)
       PROVE  demux'[q] = demux[q]
  BY <1>10 DEF Shutdown, Stop, Types, Receiving
<1>11. ASSUME NEW p \in Peer, SendAck(p)
       PROVE  \/ demux'[q] = demux[q]
              \/ demux[q].pc = "ack" /\ demux'[q].frame = demux[q].frame
  <2>1. PICK e : /\ demux[p].pc = "ack" /\ e.frame = demux[p].frame
                 /\ demux' = [demux EXCEPT ![p] = e]
    BY <1>11, Acked
  <2>2. QED
    BY <2>1 DEF Types, Receiving
<1>12. QED
  BY <1>1, <1>2, <1>3, <1>4, <1>5, <1>6, <1>7, <1>8, <1>9, <1>10, <1>11, Steps

LEMMA AckNumberedStep ==
    ASSUME Types, WireNumbered, AckNumbered, [Next]_vars PROVE AckNumbered'
<1> SUFFICES ASSUME NEW q \in Peer, demux'[q].pc \in {"ack", "insert"}
             PROVE  /\ demux'[q].frame.kind = "ReliableOrdered"
                    /\ Numbered(Other(q), "ReliableOrdered", demux[q].frame.chan,
                                demux[q].frame.seq)'
  BY DEF AckNumbered
<1>1. PICK f : f = demux'[q].frame
  OBVIOUS
<1>2. f.kind = "ReliableOrdered" /\ Numbered(Other(q), "ReliableOrdered", f.chan, f.seq)
  BY <1>1, Acknowledging DEF AckNumbered, WireNumbered
<1>3. Other(q) \in Peer /\ f.chan \in ChannelId
  BY <1>2, Others, Numbers DEF Numbered, Types, Handles
<1>4. Numbered(Other(q), "ReliableOrdered", f.chan, f.seq)'
  BY <1>2, <1>3, NumberedKept
<1>5. QED
  BY <1>1, <1>2, <1>4 DEF Numbered

(* A buffer stays, is thrown away, or takes the frame in hand and lets what *)
(* is in turn go.                                                           *)
LEMMA Buffers ==
    ASSUME Types, [Next]_vars, NEW q \in Peer, NEW c \in ChannelId
    PROVE  \/ recv'[q][c] = recv[q][c]
           \/ recv'[q][c] = Empty
           \/ Insert(q) /\ c = demux[q].frame.chan
<1>1. UNCHANGED vars => recv' = recv
  BY DEF vars
<1>2. ASSUME NEW p \in Peer, NEW k \in ChannelKind, OpenChannel(p, k)
      PROVE  recv'[q][c] = recv[q][c] \/ recv'[q][c] = Empty
  <2>1. recv' = recv \/ recv' = [recv EXCEPT ![p][opened[p] + 1] = Empty]
    BY <1>2 DEF OpenChannel
  <2>2. PICK b \in ChannelId : b = opened[p] + 1
    BY <1>2 DEF OpenChannel
  <2>3. CASE recv' = recv
    BY <2>3
  <2>4. CASE recv' = [recv EXCEPT ![p][b] = Empty]
    BY <2>4 DEF Types, Receiving
  <2>5. QED
    BY <2>1, <2>2, <2>3, <2>4
<1>3. ASSUME NEW p \in Peer, NEW b \in ChannelId, Close(p, b)
      PROVE  recv'[q][c] = recv[q][c] \/ recv'[q][c] = Empty
  <2>1. recv' = [recv EXCEPT ![p][b] = Empty]
    BY <1>3 DEF Close
  <2>2. QED
    BY <2>1 DEF Types, Receiving
<1>4. ASSUME NEW p \in Peer, NEW b \in ChannelId, Read(p, b)
      PROVE  recv' = recv
  BY <1>4 DEF Read
<1>5. ASSUME NEW p \in Peer, NEW t \in Task, NEW b \in ChannelId, Send(p, t, b)
      PROVE  recv' = recv
  BY <1>5 DEF Send
<1>6. ASSUME NEW p \in Peer, NEW t \in Task,
             \/ Seal(p, t) \/ Transmit(p, t) \/ Retry(p, t)
             \/ TransmitFails(p, t) \/ Acknowledged(p, t)
      PROVE  recv' = recv
  BY <1>6 DEF Seal, Transmit, Retry, TransmitFails, Acknowledged
<1>7. ASSUME NEW p \in Peer, NEW d \in wire[p],
             RecvAck(p, d) \/ RecvDatagram(p, d) \/ RecvReliable(p, d)
      PROVE  recv' = recv
  BY <1>7 DEF RecvAck, RecvDatagram, RecvReliable
<1>8. ASSUME NEW p \in Peer, Insert(p)
      PROVE  recv'[q][c] = recv[q][c] \/ (p = q /\ c = demux[q].frame.chan)
  <2>1. \E r : recv' = [recv EXCEPT ![p][demux[p].frame.chan] = r]
    BY <1>8 DEF Insert
  <2>2. QED
    BY <2>1 DEF Types, Receiving
<1>9. ASSUME NEW p \in Peer, SendAck(p) \/ Push(p) \/ Shutdown(p) \/ Stop(p)
      PROVE  recv' = recv
  BY <1>9 DEF SendAck, Push, Shutdown, Stop
<1>10. QED
  BY <1>1, <1>2, <1>3, <1>4, <1>5, <1>6, <1>7, <1>8, <1>9, Steps

(* What the demultiplexer has in hand and in the buffer, when it drains.    *)
LEMMA Fills ==
    ASSUME Types, AckSent, AckNumbered, Waiting, NEW q \in Peer, Insert(q),
           NEW c, c = demux[q].frame.chan
    PROVE  /\ c \in ChannelId /\ recv[q][c].next \in Nat
           /\ Drained(q, c) \in Seq(Nat)
           /\ \A i \in 1..Len(Drained(q, c)) : Drained(q, c)[i] = recv[q][c].next + i - 1
           /\ recv'[q][c] = [next |-> recv[q][c].next + Len(Drained(q, c)),
                             buffered |-> Filled(q, c) \ Range(Drained(q, c))]
           /\ Range(Drained(q, c)) \subseteq Filled(q, c)
           /\ \A s \in Filled(q, c) \ Range(Drained(q, c)) :
                 s >= recv[q][c].next + Len(Drained(q, c))
           /\ \A s \in Filled(q, c) : Numbered(Other(q), "ReliableOrdered", c, s)
<1>1. /\ c \in ChannelId /\ demux[q].frame.seq \in Nat
      /\ recv[q][c] \in Recv
      /\ Drained(q, c) \in Seq(Nat)
      /\ \A i \in 1..Len(Drained(q, c)) : Drained(q, c)[i] = recv[q][c].next + i - 1
      /\ recv' = [recv EXCEPT ![q][c] =
                     [next |-> recv[q][c].next + Len(Drained(q, c)),
                      buffered |-> Filled(q, c) \ Range(Drained(q, c))]]
  <2>1. c \in ChannelId /\ demux[q].frame.seq \in Nat
    BY InsertPlaces
  <2>2. recv[q][c] \in Recv /\ Drained(q, c) \in Seq(Nat)
    BY InsertPlaces
  <2>3. \A i \in 1..Len(Drained(q, c)) : Drained(q, c)[i] = recv[q][c].next + i - 1
    BY InsertPlaces
  <2>4. recv' = [recv EXCEPT ![q][c] =
                    [next |-> recv[q][c].next + Len(Drained(q, c)),
                     buffered |-> Filled(q, c) \ Range(Drained(q, c))]]
    BY InsertPlaces
  <2>5. QED
    BY <2>1, <2>2, <2>3, <2>4
<1>2. /\ recv[q][c].next \in Nat /\ recv[q][c].buffered \in SUBSET Nat
      /\ IsFiniteSet(recv[q][c].buffered)
  BY <1>1 DEF Recv
<1>3. /\ Filled(q, c) \in SUBSET Nat /\ IsFiniteSet(Filled(q, c))
      /\ Filled(q, c) \subseteq recv[q][c].buffered \union {demux[q].frame.seq}
      /\ \A s \in Filled(q, c) : s \in recv[q][c].buffered \/ s >= recv[q][c].next
  BY <1>1, <1>2, FS_AddElement DEF Filled, Accepts
<1>4. \A s \in Filled(q, c) : s >= recv[q][c].next
  BY <1>1, <1>3 DEF Waiting
<1>5. /\ Range(Drained(q, c)) \subseteq Filled(q, c)
      /\ \A s \in Filled(q, c) \ Range(Drained(q, c)) :
            s >= recv[q][c].next + Len(Drained(q, c))
  BY <1>2, <1>3, <1>4, DrainRun DEF Drained
<1>6. Numbered(Other(q), "ReliableOrdered", c, demux[q].frame.seq)
  BY DEF Insert, AckNumbered
<1>7. \A s \in Filled(q, c) : Numbered(Other(q), "ReliableOrdered", c, s)
  BY <1>1, <1>3, <1>6 DEF Waiting
<1>8. recv'[q][c] = [next |-> recv[q][c].next + Len(Drained(q, c)),
                     buffered |-> Filled(q, c) \ Range(Drained(q, c))]
  BY <1>1 DEF Types, Receiving
<1>9. QED
  BY <1>1, <1>2, <1>5, <1>7, <1>8

LEMMA WaitingStep ==
    ASSUME Types, AckSent, AckNumbered, Waiting, [Next]_vars PROVE Waiting'
<1> SUFFICES ASSUME NEW q \in Peer, NEW c \in ChannelId, NEW s \in recv'[q][c].buffered
             PROVE  /\ s >= recv'[q][c].next
                    /\ Numbered(Other(q), "ReliableOrdered", c, s)'
  BY DEF Waiting
<1>1. Other(q) \in Peer
  BY Others
<1>2. CASE recv'[q][c] = recv[q][c]
  BY <1>1, <1>2, NumberedKept DEF Waiting
<1>3. CASE recv'[q][c] = Empty
  BY <1>3 DEF Empty
<1>4. CASE Insert(q) /\ c = demux[q].frame.chan
  <2>1. /\ recv'[q][c] = [next |-> recv[q][c].next + Len(Drained(q, c)),
                          buffered |-> Filled(q, c) \ Range(Drained(q, c))]
        /\ \A k \in Filled(q, c) \ Range(Drained(q, c)) :
              k >= recv[q][c].next + Len(Drained(q, c))
        /\ \A k \in Filled(q, c) : Numbered(Other(q), "ReliableOrdered", c, k)
    BY <1>4, Fills
  <2>2. /\ recv'[q][c].next = recv[q][c].next + Len(Drained(q, c))
        /\ recv'[q][c].buffered = Filled(q, c) \ Range(Drained(q, c))
    BY <2>1
  <2>3. s \in Filled(q, c) /\ s >= recv'[q][c].next
    BY <2>1, <2>2
  <2>4. QED
    BY <1>1, <2>1, <2>3, NumberedKept
<1>5. QED
  BY <1>2, <1>3, <1>4, Buffers

(* The queue of a channel, and what is about to be put into it.             *)
Queue(q, c) == queued[q][c]["ReliableOrdered"]

LEMMA QueueType ==
    ASSUME Types, NEW q \in Peer, NEW c \in ChannelId
    PROVE  /\ Queue(q, c) \in Seq(Nat) /\ Len(Queue(q, c)) \in Nat
           /\ Pushed(q, c) => demux[q].list \in Seq(Nat) /\ Len(demux[q].list) \in Nat
           /\ Handed(q, c) \in Nat
<1>1. Queue(q, c) \in Seq(Nat) /\ Len(Queue(q, c)) \in Nat
  BY DEF Queue, Types, Receiving, ChannelKind
<1>2. Pushed(q, c) => demux[q].list \in Seq(Nat) /\ Len(demux[q].list) \in Nat
  BY DemuxKinds DEF Pushed, Types, Receiving, Pushing
<1>3. CASE Pushed(q, c)
  <2>1. Handed(q, c) = Len(Queue(q, c)) + Len(demux[q].list)
    BY <1>3 DEF Handed, Queue
  <2>2. QED
    BY <1>1, <1>2, <1>3, <2>1
<1>4. CASE ~Pushed(q, c)
  <2>1. Handed(q, c) = Len(Queue(q, c)) + 0
    BY <1>4 DEF Handed, Queue
  <2>2. QED
    BY <1>1, <1>4, <2>1
<1>5. QED
  BY <1>3, <1>4

(* A step that leaves the queue of c alone.                                 *)
LEMMA TurnKept ==
    ASSUME Types, [Next]_vars, NEW q \in Peer, NEW c \in ChannelId, InTurn(q, c),
           Queue(q, c)' = Queue(q, c),
           Pushed(q, c)' <=> Pushed(q, c),
           Pushed(q, c) => demux'[q].list = demux[q].list,
           c \in channels'[q] => c \in channels[q] /\ recv'[q][c].next = recv[q][c].next
    PROVE  InTurn(q, c)'
<1>1. Handed(q, c)' = Handed(q, c)
  BY DEF Handed, Queue
<1>2. Other(q) \in Peer
  BY Others
<1>3. \A s \in Nat : s < Handed(q, c) => Numbered(Other(q), "ReliableOrdered", c, s)'
  BY <1>2, NumberedKept DEF InTurn
<1>4. (\A s \in Nat : s < Handed(q, c) => Numbered(Other(q), "ReliableOrdered", c, s))'
  BY <1>1, <1>3
<1>5. c > opened'[q] => c > opened[q]
  BY Growth, Numbers
<1>6. (/\ \A i \in 1..Len(queued[q][c]["ReliableOrdered"]) :
             queued[q][c]["ReliableOrdered"][i] = i - 1
       /\ Pushed(q, c) => \A i \in 1..Len(demux[q].list) :
             demux[q].list[i] = Len(queued[q][c]["ReliableOrdered"]) + i - 1)'
  BY DEF InTurn, Queue
<1>7. (c \in channels[q] => recv[q][c].next = Handed(q, c))'
  BY <1>1 DEF InTurn
<1>8. (c > opened[q] => Handed(q, c) = 0)'
  BY <1>1, <1>5 DEF InTurn
<1>9. QED
  BY <1>4, <1>6, <1>7, <1>8 DEF InTurn

(* register begins with an empty buffer, and nothing has been queued.       *)
LEMMA TurnOpen ==
    ASSUME Types, Fresh, Turns, [Next]_vars, NEW q \in Peer, NEW k \in ChannelKind,
           OpenChannel(q, k), NEW c \in ChannelId, c = opened[q] + 1,
           kind'[q][c] = "ReliableOrdered"
    PROVE  InTurn(q, c)'
<1>1. /\ opened' = [opened EXCEPT ![q] = c] /\ kind' = [kind EXCEPT ![q][c] = k]
      /\ UNCHANGED <<queued, demux>>
      /\ k = "ReliableOrdered" => recv' = [recv EXCEPT ![q][c] = Empty]
  BY DEF OpenChannel
<1>2. k = "ReliableOrdered" /\ opened'[q] = c
  BY <1>1 DEF Types, Handles
<1>3. recv'[q][c].next = 0
  BY <1>1, <1>2 DEF Types, Receiving, Empty
<1>4. c > opened[q] /\ opened[q] \in Nat
  BY Growth, Numbers
<1>5. InTurn(q, c) /\ Handed(q, c) = 0
  BY <1>4 DEF Fresh, Turns, InTurn
<1>6. Handed(q, c)' = 0
  BY <1>1, <1>5 DEF Handed, Pushed
<1>7. (/\ \A i \in 1..Len(queued[q][c]["ReliableOrdered"]) :
             queued[q][c]["ReliableOrdered"][i] = i - 1
       /\ Pushed(q, c) => \A i \in 1..Len(demux[q].list) :
             demux[q].list[i] = Len(queued[q][c]["ReliableOrdered"]) + i - 1)'
  BY <1>1, <1>5 DEF InTurn, Pushed
<1>8. (\A s \in Nat : s < Handed(q, c) => Numbered(Other(q), "ReliableOrdered", c, s))'
  BY <1>6
<1>9. (c \in channels[q] => recv[q][c].next = Handed(q, c))'
  BY <1>3, <1>6
<1>10. (c > opened[q] => Handed(q, c) = 0)'
  BY <1>6
<1>11. QED
  BY <1>7, <1>8, <1>9, <1>10 DEF InTurn

(* What is drained follows what was handed over before.                     *)
LEMMA TurnInsert ==
    ASSUME Types, Fresh, AckSent, AckNumbered, Waiting, [Next]_vars, NEW q \in Peer,
           Insert(q), NEW c, c = demux[q].frame.chan, InTurn(q, c), c \in channels[q]
    PROVE  InTurn(q, c)'
<1>0. PICK list : list = Drained(q, c)
  OBVIOUS
<1>1. /\ c \in ChannelId /\ recv[q][c].next \in Nat
      /\ list \in Seq(Nat) /\ Len(list) \in Nat
      /\ \A i \in 1..Len(list) : list[i] = recv[q][c].next + i - 1
      /\ recv'[q][c].next = recv[q][c].next + Len(list)
      /\ \A s \in Range(list) : Numbered(Other(q), "ReliableOrdered", c, s)
  <2>1. /\ c \in ChannelId /\ recv[q][c].next \in Nat
        /\ Drained(q, c) \in Seq(Nat)
        /\ \A i \in 1..Len(Drained(q, c)) : Drained(q, c)[i] = recv[q][c].next + i - 1
    BY Fills
  <2>2. recv'[q][c] = [next |-> recv[q][c].next + Len(Drained(q, c)),
                       buffered |-> Filled(q, c) \ Range(Drained(q, c))]
    BY Fills
  <2>3. recv'[q][c].next = recv[q][c].next + Len(list)
    BY <1>0, <2>2
  <2>4. \A s \in Range(Drained(q, c)) : Numbered(Other(q), "ReliableOrdered", c, s)
    BY Fills
  <2>5. QED
    BY <1>0, <2>1, <2>3, <2>4
<1>2. /\ demux[q].pc = "insert"
      /\ UNCHANGED <<queued, opened, channels>>
      /\ demux' = [demux EXCEPT ![q] =
            IF list # <<>>
            THEN [pc |-> "push", kind |-> demux[q].frame.kind, chan |-> c, list |-> list]
            ELSE [pc |-> "recv"]]
  BY <1>0 DEF Insert, Filled, Drained, handleVars
<1>3. demux[q].frame.kind = "ReliableOrdered"
  BY <1>2 DEF AckNumbered
<1>4. ~Pushed(q, c) /\ Queue(q, c)' = Queue(q, c)
  BY <1>2 DEF Pushed, Queue
<1>5. Handed(q, c) = Len(Queue(q, c)) /\ Len(Queue(q, c)) \in Nat
  BY <1>1, <1>4, QueueType DEF Handed, Queue
<1>6. recv[q][c].next = Len(Queue(q, c))
  BY <1>5 DEF InTurn
<1>7. CASE list = <<>>
  <2>1. ~Pushed(q, c)' /\ Len(list) = 0
    BY <1>2, <1>7 DEF Pushed, Types, Receiving
  <2>2. recv'[q][c].next = recv[q][c].next
    BY <1>1, <2>1
  <2>3. QED
    BY <1>1, <1>2, <1>4, <2>1, <2>2, TurnKept
<1>8. CASE list # <<>>
  <2>1. demux'[q] = [pc |-> "push", kind |-> "ReliableOrdered", chan |-> c, list |-> list]
    BY <1>2, <1>3, <1>8 DEF Types, Receiving
  <2>2. Pushed(q, c)' /\ demux'[q].list = list
    BY <2>1 DEF Pushed
  <2>3. Handed(q, c)' = Len(Queue(q, c)) + Len(list)
    BY <1>4, <2>2 DEF Handed, Queue
  <2>4. ASSUME NEW s \in Nat, s < Len(Queue(q, c)) + Len(list)
        PROVE  Numbered(Other(q), "ReliableOrdered", c, s)'
    <3>1. Numbered(Other(q), "ReliableOrdered", c, s)
      <4>1. CASE s < Len(Queue(q, c))
        BY <4>1, <1>5 DEF InTurn
      <4>2. CASE s >= Len(Queue(q, c))
        <5>0. s - Len(Queue(q, c)) + 1 \in 1..Len(list)
          BY <4>2, <2>4, <1>1, <1>5
        <5>1. PICK i \in 1..Len(list) : i = s - Len(Queue(q, c)) + 1
          BY <5>0
        <5>2. list[i] = s
          <6>1. PICK n \in Nat : n = Len(Queue(q, c))
            BY <1>5
          <6>2. list[i] = n + i - 1 /\ i = s - n + 1
            BY <5>1, <1>1, <1>6, <6>1
          <6>3. QED
            BY <6>2
        <5>3. list[i] \in Range(list)
          BY <1>1, Ranges
        <5>4. QED
          BY <5>2, <5>3, <1>1
      <4>3. QED
        BY <4>1, <4>2, <1>5
    <3>2. QED
      BY <3>1, <1>1, Others, NumberedKept
  <2>5. (\A s \in Nat : s < Handed(q, c) => Numbered(Other(q), "ReliableOrdered", c, s))'
    BY <2>3, <2>4
  <2>6. (/\ \A i \in 1..Len(queued[q][c]["ReliableOrdered"]) :
               queued[q][c]["ReliableOrdered"][i] = i - 1
         /\ Pushed(q, c) => \A i \in 1..Len(demux[q].list) :
               demux[q].list[i] = Len(queued[q][c]["ReliableOrdered"]) + i - 1)'
    <3>1. \A i \in 1..Len(list) : list[i] = Len(Queue(q, c)) + i - 1
      BY <1>1, <1>6
    <3>2. QED
      BY <3>1, <1>2, <2>2 DEF InTurn, Queue
  <2>7. (c \in channels[q] => recv[q][c].next = Handed(q, c))'
    BY <1>1, <1>6, <2>3
  <2>8. (c > opened[q] => Handed(q, c) = 0)'
    <3>1. ~(c > opened[q])
      BY <1>1 DEF Fresh
    <3>2. QED
      BY <3>1, <1>2
  <2>9. QED
    BY <2>5, <2>6, <2>7, <2>8 DEF InTurn
<1>9. QED
  BY <1>7, <1>8

(* The first of what was handed over joins the queue.                       *)
LEMMA TurnPush ==
    ASSUME Types, [Next]_vars, NEW q \in Peer, Push(q), NEW c \in ChannelId,
           InTurn(q, c), Pushed(q, c)
    PROVE  /\ InTurn(q, c)'
           /\ Queue(q, c)' = Append(Queue(q, c), Len(Queue(q, c)))
           /\ Len(Queue(q, c)) < Handed(q, c)
<1>0. PICK list, n, rest : /\ list = demux[q].list /\ n = Len(Queue(q, c))
                           /\ rest = [demux[q] EXCEPT !.list = Tail(list)]
  OBVIOUS
<1>1. /\ demux[q].pc = "push" /\ demux[q].chan = c /\ demux[q].kind = "ReliableOrdered"
      /\ demux[q] \in Pushing /\ list # <<>>
  BY <1>0, DemuxKinds DEF Pushed, Types, Receiving
<1>2. /\ queued' = [queued EXCEPT ![q][c]["ReliableOrdered"] = Append(@, Head(list))]
      /\ demux' = [demux EXCEPT ![q] = IF Len(list) = 1 THEN [pc |-> "recv"] ELSE rest]
      /\ UNCHANGED <<opened, channels, recv>>
  BY <1>0, <1>1 DEF Push, handleVars
<1>3. list \in Seq(Nat) /\ n \in Nat
  BY <1>0, <1>1, QueueType DEF Pushing
<1>4. /\ Head(list) \in Nat /\ Head(list) = list[1]
      /\ Tail(list) \in Seq(Nat) /\ Len(Tail(list)) = Len(list) - 1
      /\ Len(list) > 0 /\ Len(list) \in Nat
      /\ \A i \in 1..Len(Tail(list)) : Tail(list)[i] = list[i + 1]
  BY <1>1, <1>3, HeadTail
<1>5. \A i \in 1..Len(list) : list[i] = n + i - 1
  BY <1>0 DEF InTurn, Queue
<1>6. Head(list) = n
  <2>1. 1 \in 1..Len(list)
    BY <1>4
  <2>2. list[1] = n + 1 - 1
    BY <1>5, <2>1
  <2>3. QED
    BY <1>3, <1>4, <2>2
<1>7. Queue(q, c)' = Append(Queue(q, c), n)
  BY <1>2, <1>6 DEF Queue, Types, Receiving, ChannelKind
<1>8. /\ Len(Append(Queue(q, c), n)) = n + 1
      /\ \A i \in 1..n : Append(Queue(q, c), n)[i] = Queue(q, c)[i]
      /\ Append(Queue(q, c), n)[n + 1] = n
  BY <1>0, <1>3, QueueType, Appended
<1>9. Handed(q, c) = n + Len(list)
  BY <1>0 DEF Handed, Queue
<1>10. /\ rest \in Pushing /\ rest.list = Tail(list)
       /\ rest.pc = "push" /\ rest.kind = "ReliableOrdered" /\ rest.chan = c
  <2>1. PICK d \in Pushing : d = demux[q]
    BY <1>1
  <2>2. PICK l \in Seq(Nat) : l = Tail(list)
    BY <1>4
  <2>3. /\ rest \in Pushing /\ rest.list = Tail(list)
        /\ rest.pc = "push" /\ rest.kind = d.kind /\ rest.chan = d.chan
    <3>1. rest = [d EXCEPT !.list = l]
      BY <1>0, <2>1, <2>2
    <3>2. rest \in Pushing /\ rest.list = l /\ rest.pc = "push"
      BY <3>1 DEF Pushing
    <3>3. rest.kind = d.kind /\ rest.chan = d.chan
      BY <3>1 DEF Pushing
    <3>4. QED
      BY <2>2, <3>2, <3>3
  <2>4. QED
    BY <1>1, <2>1, <2>3
<1>11. /\ Len(list) = 1 => ~Pushed(q, c)'
       /\ Len(list) # 1 => Pushed(q, c)' /\ demux'[q].list = Tail(list)
  BY <1>2, <1>10 DEF Pushed, Types, Receiving
<1>12. Len(Queue(q, c)') = n + 1
  BY <1>7, <1>8
<1>13. Handed(q, c)' = n + Len(list)
  <2>1. CASE Len(list) = 1
    <3>1. Handed(q, c)' = Len(Queue(q, c)') + 0
      BY <1>11, <2>1 DEF Handed, Queue
    <3>2. QED
      BY <3>1, <2>1, <1>3, <1>12
  <2>2. CASE Len(list) # 1
    <3>1. Handed(q, c)' = Len(Queue(q, c)') + Len(Tail(list))
      BY <1>11, <2>2 DEF Handed, Queue
    <3>2. QED
      BY <3>1, <1>3, <1>4, <1>12
  <2>3. QED
    BY <2>1, <2>2
<1>14. (\A s \in Nat : s < Handed(q, c) => Numbered(Other(q), "ReliableOrdered", c, s))'
  <2>1. \A s \in Nat : s < Handed(q, c) => Numbered(Other(q), "ReliableOrdered", c, s)'
    BY Others, NumberedKept DEF InTurn
  <2>2. QED
    BY <2>1, <1>9, <1>13
<1>15. \A i \in 1..Len(Queue(q, c)') : Queue(q, c)'[i] = i - 1
  <2> SUFFICES ASSUME NEW i \in 1..(n + 1) PROVE Append(Queue(q, c), n)[i] = i - 1
    BY <1>7, <1>12
  <2>1. CASE i \in 1..n
    BY <2>1, <1>0, <1>8 DEF InTurn, Queue
  <2>2. CASE i = n + 1
    BY <2>2, <1>3, <1>8
  <2>3. i \in 1..n \/ i = n + 1
    BY <1>3
  <2>4. QED
    BY <2>1, <2>2, <2>3
<1>16. Len(list) # 1 => \A i \in 1..Len(Tail(list)) : Tail(list)[i] = n + 1 + i - 1
  <2> SUFFICES ASSUME NEW i \in 1..Len(Tail(list)) PROVE Tail(list)[i] = n + 1 + i - 1
    OBVIOUS
  <2>1. i \in Nat /\ i + 1 \in 1..Len(list)
    BY <1>4
  <2>2. Tail(list)[i] = n + (i + 1) - 1
    BY <2>1, <1>4, <1>5
  <2>3. QED
    BY <2>1, <2>2, <1>3
<1>17. (/\ \A i \in 1..Len(queued[q][c]["ReliableOrdered"]) :
              queued[q][c]["ReliableOrdered"][i] = i - 1
        /\ Pushed(q, c) => \A i \in 1..Len(demux[q].list) :
              demux[q].list[i] = Len(queued[q][c]["ReliableOrdered"]) + i - 1)'
  BY <1>11, <1>12, <1>15, <1>16 DEF Queue
<1>18. (c \in channels[q] => recv[q][c].next = Handed(q, c))'
  BY <1>2, <1>9, <1>13 DEF InTurn
<1>19. (c > opened[q] => Handed(q, c) = 0)'
  BY <1>2, <1>9, <1>13 DEF InTurn
<1>20. InTurn(q, c)'
  BY <1>14, <1>17, <1>18, <1>19 DEF InTurn
<1>21. n < Handed(q, c)
  BY <1>3, <1>4, <1>9
<1>22. QED
  BY <1>0, <1>7, <1>20, <1>21

(* A step that does not concern the payloads of c at q.                     *)
Quiet(q, c) ==
    /\ kind'[q][c] = kind[q][c]
    /\ Queue(q, c)' = Queue(q, c)
    /\ Pushed(q, c)' <=> Pushed(q, c)
    /\ Pushed(q, c) => demux'[q].list = demux[q].list
    /\ c \in channels'[q] => c \in channels[q] /\ recv'[q][c].next = recv[q][c].next

LEMMA QuietEnough ==
    ASSUME NEW q \in Peer, NEW c \in ChannelId, kind' = kind, queued' = queued,
           channels' = channels, recv' = recv,
           demux' = demux \/ demux'[q] = demux[q] \/ (~Pushed(q, c) /\ ~Pushed(q, c)')
    PROVE  Quiet(q, c)
BY DEF Quiet, Queue, Pushed

LEMMA TurnSteps ==
    ASSUME Types, [Next]_vars, NEW q \in Peer, NEW c \in ChannelId
    PROVE  \/ Quiet(q, c)
           \/ \E k \in ChannelKind : OpenChannel(q, k) /\ c = opened[q] + 1
           \/ Insert(q) /\ c = demux[q].frame.chan /\ c \in channels[q]
           \/ Push(q) /\ Pushed(q, c)
<1>1. ASSUME UNCHANGED vars PROVE Quiet(q, c)
  <2>1. UNCHANGED <<kind, queued, channels, recv, demux>>
    BY <1>1 DEF vars, handleVars
  <2>2. QED
    BY <2>1, QuietEnough
<1>2. ASSUME NEW p \in Peer, NEW k \in ChannelKind, OpenChannel(p, k),
             ~(p = q /\ c = opened[q] + 1)
      PROVE  Quiet(q, c)
  <2>1. PICK b \in ChannelId : b = opened[p] + 1
    BY <1>2 DEF OpenChannel
  <2>2. /\ kind' = [kind EXCEPT ![p][b] = k]
        /\ channels' = [channels EXCEPT ![p] = channels[p] \union {b}]
        /\ recv' = recv \/ recv' = [recv EXCEPT ![p][b] = Empty]
        /\ UNCHANGED <<queued, demux>>
    BY <1>2, <2>1 DEF OpenChannel
  <2>3. p # q \/ b # c
    BY <1>2, <2>1
  <2>4. kind'[q][c] = kind[q][c]
    BY <2>2, <2>3 DEF Types, Handles
  <2>5. c \in channels'[q] => c \in channels[q]
    BY <2>2, <2>3 DEF Types, Handles
  <2>6. recv'[q][c] = recv[q][c]
    BY <2>2, <2>3 DEF Types, Receiving
  <2>7. QED
    BY <2>2, <2>4, <2>5, <2>6 DEF Quiet, Queue, Pushed
<1>3. ASSUME NEW p \in Peer, NEW b \in ChannelId, Close(p, b)
      PROVE  Quiet(q, c)
  <2>1. /\ channels' = [channels EXCEPT ![p] = channels[p] \ {b}]
        /\ recv' = [recv EXCEPT ![p][b] = Empty]
        /\ UNCHANGED <<kind, queued, demux>>
    BY <1>3 DEF Close
  <2>2. c \in channels'[q] => c \in channels[q] /\ ~(p = q /\ b = c)
    BY <2>1 DEF Types, Handles
  <2>3. ~(p = q /\ b = c) => recv'[q][c] = recv[q][c]
    BY <2>1 DEF Types, Receiving
  <2>4. QED
    BY <2>1, <2>2, <2>3 DEF Quiet, Queue, Pushed
<1>4. ASSUME NEW p \in Peer, NEW b \in ChannelId, Read(p, b) PROVE Quiet(q, c)
  <2>1. UNCHANGED <<kind, queued, channels, recv, demux>>
    BY <1>4 DEF Read, handleVars
  <2>2. QED
    BY <2>1, QuietEnough
<1>5. ASSUME NEW p \in Peer, NEW t \in Task, NEW b \in ChannelId, Send(p, t, b)
      PROVE  Quiet(q, c)
  <2>1. UNCHANGED <<kind, queued, channels, recv, demux>>
    BY <1>5 DEF Send, handleVars
  <2>2. QED
    BY <2>1, QuietEnough
<1>6. ASSUME NEW p \in Peer, NEW t \in Task,
             \/ Seal(p, t) \/ Transmit(p, t) \/ Retry(p, t)
             \/ TransmitFails(p, t) \/ Acknowledged(p, t)
      PROVE  Quiet(q, c)
  <2>1. UNCHANGED <<kind, queued, channels, recv, demux>>
    BY <1>6 DEF Seal, Transmit, Retry, TransmitFails, Acknowledged, handleVars
  <2>2. QED
    BY <2>1, QuietEnough
<1>7. ASSUME NEW p \in Peer, NEW d \in wire[p],
             RecvAck(p, d) \/ RecvDatagram(p, d) \/ RecvReliable(p, d)
      PROVE  Quiet(q, c)
  <2>1. UNCHANGED <<kind, queued, channels, recv>>
    BY <1>7 DEF RecvAck, RecvDatagram, RecvReliable, handleVars
  <2>2. /\ demux[p].pc = "recv"
        /\ \/ demux' = demux
           \/ \E f, l : demux' = [demux EXCEPT ![p] =
                 [pc |-> "push", kind |-> "UnreliableDatagram", chan |-> f, list |-> l]]
           \/ \E f, n : demux' = [demux EXCEPT ![p] = [pc |-> "ack", frame |-> f, n |-> n]]
    BY <1>7 DEF RecvAck, RecvDatagram, RecvReliable, Opens, Listening
  <2>3. demux' = demux \/ demux'[q] = demux[q] \/ (~Pushed(q, c) /\ ~Pushed(q, c)')
    BY <2>2 DEF Pushed, Types, Receiving
  <2>4. QED
    BY <2>1, <2>3, QuietEnough
<1>8. ASSUME NEW p \in Peer, Insert(p)
      PROVE  Quiet(q, c) \/ (p = q /\ c = demux[q].frame.chan /\ c \in channels[q])
  <2>0. PICK b : b = demux[p].frame.chan
    OBVIOUS
  <2>1. PICK l, r : /\ recv' = [recv EXCEPT ![p][b] = r]
                    /\ demux' = [demux EXCEPT ![p] =
                          IF b \in channels[p] /\ l # <<>>
                          THEN [pc |-> "push", kind |-> demux[p].frame.kind,
                                chan |-> b, list |-> l]
                          ELSE [pc |-> "recv"]]
    <3>1. recv' = [recv EXCEPT ![p][b] =
                      [next |-> recv[p][b].next + Len(Drained(p, b)),
                       buffered |-> Filled(p, b) \ Range(Drained(p, b))]]
      BY <1>8, <2>0 DEF Insert, Drained, Filled
    <3>2. demux' = [demux EXCEPT ![p] =
                       IF b \in channels[p] /\ Drained(p, b) # <<>>
                       THEN [pc |-> "push", kind |-> demux[p].frame.kind,
                             chan |-> b, list |-> Drained(p, b)]
                       ELSE [pc |-> "recv"]]
      BY <1>8, <2>0 DEF Insert, Drained, Filled
    <3>3. QED
      BY <3>1, <3>2
  <2>2. demux[p].pc = "insert" /\ UNCHANGED <<kind, channels, queued>>
    BY <1>8 DEF Insert, handleVars
  <2>3. CASE p # q
    <3>1. demux'[q] = demux[q] /\ recv'[q] = recv[q]
      BY <2>1, <2>3 DEF Types, Receiving
    <3>2. QED
      BY <3>1, <2>2 DEF Quiet, Queue, Pushed
  <2>4. CASE p = q /\ b \in channels[q] /\ b # c
    <3>1. recv'[q][c] = recv[q][c]
      BY <2>1, <2>4 DEF Types, Receiving
    <3>2. ~Pushed(q, c) /\ ~Pushed(q, c)'
      BY <2>1, <2>2, <2>4 DEF Pushed, Types, Receiving
    <3>3. QED
      BY <3>1, <3>2, <2>2 DEF Quiet, Queue
  <2>5. CASE p = q /\ b \notin channels[q]
    <3>1. c \in channels[q] => recv'[q][c] = recv[q][c]
      BY <2>1, <2>5 DEF Types, Receiving
    <3>2. ~Pushed(q, c) /\ ~Pushed(q, c)'
      BY <2>1, <2>2, <2>5 DEF Pushed, Types, Receiving
    <3>3. QED
      BY <3>1, <3>2, <2>2 DEF Quiet, Queue
  <2>6. QED
    BY <2>0, <2>3, <2>4, <2>5
<1>9. ASSUME NEW p \in Peer, Push(p) PROVE Quiet(q, c) \/ (p = q /\ Pushed(q, c))
  <2>1. PICK b, l, k, r : /\ b = demux[p].chan /\ k = demux[p].kind
                          /\ queued' = [queued EXCEPT ![p][b][k] = l]
                          /\ demux' = [demux EXCEPT ![p] = r]
                          /\ r = [pc |-> "recv"] \/ \E t : r = [demux[p] EXCEPT !.list = t]
    BY <1>9 DEF Push
  <2>2. demux[p].pc = "push" /\ UNCHANGED <<kind, channels, recv>>
    BY <1>9 DEF Push, handleVars
  <2>3. CASE p # q
    <3>1. demux'[q] = demux[q] /\ queued'[q] = queued[q]
      BY <2>1, <2>3 DEF Types, Receiving
    <3>2. QED
      BY <3>1, <2>2 DEF Quiet, Queue, Pushed
  <2>4. CASE p = q /\ ~Pushed(q, c)
    <3>1. b # c \/ k # "ReliableOrdered"
      BY <2>1, <2>2, <2>4 DEF Pushed
    <3>2. Queue(q, c)' = Queue(q, c)
      BY <2>1, <2>4, <3>1 DEF Queue, Types, Receiving, ChannelKind
    <3>3. ~Pushed(q, c)'
      <4>1. demux[q] \in Pushing
        BY <2>2, <2>4, DemuxKinds DEF Types, Receiving
      <4>2. r.pc = "recv" \/ (r.chan = b /\ r.kind = k)
        BY <2>1, <2>4, <4>1 DEF Pushing
      <4>3. demux'[q] = r
        BY <2>1, <2>4 DEF Types, Receiving
      <4>4. QED
        BY <3>1, <4>2, <4>3 DEF Pushed
    <3>4. QED
      BY <2>2, <2>4, <3>2, <3>3 DEF Quiet
  <2>5. QED
    BY <2>3, <2>4
<1>10. ASSUME NEW p \in Peer, Shutdown(p) PROVE Quiet(q, c)
  <2>1. UNCHANGED <<kind, queued, channels, recv, demux>>
    BY <1>10 DEF Shutdown, handleVars
  <2>2. QED
    BY <2>1, QuietEnough
<1>11. ASSUME NEW p \in Peer, Stop(p) PROVE Quiet(q, c)
  <2>1. /\ UNCHANGED <<kind, queued, channels, recv>>
        /\ demux[p].pc = "recv" /\ demux' = [demux EXCEPT ![p] = [pc |-> "stopped"]]
    BY <1>11 DEF Stop, Listening, handleVars
  <2>2. demux'[q] = demux[q] \/ (~Pushed(q, c) /\ ~Pushed(q, c)')
    BY <2>1 DEF Pushed, Types, Receiving
  <2>3. QED
    BY <2>1, <2>2, QuietEnough
<1>12. ASSUME NEW p \in Peer, SendAck(p) PROVE Quiet(q, c)
  <2>1. PICK e : /\ demux[p].pc = "ack" /\ e.pc = "insert"
                 /\ demux' = [demux EXCEPT ![p] = e]
                 /\ UNCHANGED <<kind, queued, channels, recv>>
    BY <1>12, Acked
  <2>2. demux'[q] = demux[q] \/ (~Pushed(q, c) /\ ~Pushed(q, c)')
    BY <2>1 DEF Pushed, Types, Receiving
  <2>3. QED
    BY <2>1, <2>2, QuietEnough
<1>13. QED
  BY <1>1, <1>2, <1>3, <1>4, <1>5, <1>6, <1>7, <1>8, <1>9, <1>10, <1>11, <1>12, Steps

LEMMA TurnsStep ==
    ASSUME Types, StreamInv, AckSent, [Next]_vars PROVE Turns'
<1> SUFFICES ASSUME NEW q \in Peer, NEW c \in ChannelId, kind'[q][c] = "ReliableOrdered"
             PROVE  InTurn(q, c)'
  BY DEF Turns
<1> USE DEF StreamInv
<1>1. ASSUME Quiet(q, c) PROVE InTurn(q, c)'
  <2>1. InTurn(q, c)
    BY <1>1 DEF Quiet, Turns
  <2>2. QED
    BY <1>1, <2>1, TurnKept DEF Quiet
<1>2. ASSUME NEW k \in ChannelKind, OpenChannel(q, k), c = opened[q] + 1
      PROVE  InTurn(q, c)'
  BY <1>2, TurnOpen
<1>3. ASSUME Insert(q), c = demux[q].frame.chan, c \in channels[q] PROVE InTurn(q, c)'
  <2>1. kind' = kind
    BY <1>3 DEF Insert, handleVars
  <2>2. InTurn(q, c)
    BY <2>1 DEF Turns
  <2>3. QED
    BY <1>3, <2>2, TurnInsert
<1>4. ASSUME Push(q), Pushed(q, c) PROVE InTurn(q, c)'
  <2>1. kind' = kind
    BY <1>4 DEF Push, handleVars
  <2>2. InTurn(q, c)
    BY <2>1 DEF Turns
  <2>3. QED
    BY <1>4, <2>2, TurnPush
<1>5. QED
  BY <1>1, <1>2, <1>3, <1>4, TurnSteps

LEMMA StreamInit == Init => StreamInv
<1> SUFFICES ASSUME Init PROVE StreamInv
  OBVIOUS
<1>1. Fresh
  BY DEF Init, Fresh
<1>2. CallsNumbered
  BY DEF Init, CallsNumbered, Idle
<1>3. WireNumbered
  BY DEF Init, WireNumbered
<1>4. AckNumbered
  BY DEF Init, AckNumbered
<1>5. Waiting
  BY DEF Init, Waiting, Empty
<1>6. Turns
  <2> SUFFICES ASSUME NEW q \in Peer, NEW c \in ChannelId PROVE InTurn(q, c)
    BY DEF Turns
  <2>1. queued[q][c]["ReliableOrdered"] = <<>> /\ ~Pushed(q, c) /\ channels[q] = {}
    BY DEF Init, Pushed, ChannelKind
  <2>2. Handed(q, c) = 0
    BY <2>1 DEF Handed
  <2>3. QED
    BY <2>1, <2>2 DEF InTurn
<1>7. QED
  BY <1>1, <1>2, <1>3, <1>4, <1>5, <1>6 DEF StreamInv

LEMMA StreamStep ==
    ASSUME Types, StreamInv, AckSent, [Next]_vars PROVE StreamInv'
<1>1. Fresh' /\ CallsNumbered' /\ WireNumbered'
  BY FreshStep, CallsNumberedStep, WireNumberedStep DEF StreamInv
<1>2. AckNumbered' /\ Waiting'
  BY AckNumberedStep, WaitingStep DEF StreamInv
<1>3. QED
  BY <1>1, <1>2, TurnsStep DEF StreamInv

(* What the refinement mapping of Promise makes of a state.                 *)
Sent == [k \in Stream |-> IF kind[k[1]][k[2]] = "ReliableOrdered"
                          THEN Count(nextSeq[k[1]][k[2]]) ELSE <<>>]
Got == [k \in Stream |-> IF kind[Other(k[1])][k[2]] = "ReliableOrdered"
                         THEN queued[Other(k[1])][k[2]]["ReliableOrdered"] ELSE <<>>]

LEMMA PromiseMeans ==
    Promise!Next <=>
        /\ DOMAIN Sent' = Stream
        /\ \A k \in Stream : IsPrefix(Sent[k], Sent'[k])
        /\ \/ Got' = Got
           \/ \E k \in Stream :
                /\ Len(Got[k]) < Len(Sent[k])
                /\ Got' = [Got EXCEPT ![k] = Append(@, Sent[k][Len(@) + 1])]
BY DEF Promise!Next, Promise!Take, Promise!IsPrefix, IsPrefix, Sent, Got

LEMMA PromiseStep ==
    ASSUME \A k \in Stream : IsPrefix(Sent[k], Sent'[k]),
           \/ Got' = Got
           \/ \E k \in Stream :
                /\ Len(Got[k]) < Len(Sent[k])
                /\ Got' = [Got EXCEPT ![k] = Append(Got[k], Sent[k][Len(Got[k]) + 1])]
    PROVE  Promise!Next
<1>1. DOMAIN Sent' = Stream
  BY DEF Sent
<1>2. QED
  BY <1>1, PromiseMeans

LEMMA Counted ==
    ASSUME NEW m \in Nat, NEW n \in Nat, m <= n
    PROVE  /\ Count(m) \in Seq(Nat) /\ Len(Count(m)) = m
           /\ \A i \in 1..m : Count(m)[i] = i - 1
           /\ IsPrefix(Count(m), Count(n))
<1>1. /\ Count(m) \in Seq(Nat) /\ Len(Count(m)) = m
      /\ Count(n) \in Seq(Nat) /\ Len(Count(n)) = n
      /\ \A i \in 1..m : Count(m)[i] = i - 1
      /\ \A i \in 1..n : Count(n)[i] = i - 1
  BY DEF Count
<1>2. \A i \in 1..m : i \in 1..n
  OBVIOUS
<1>3. SubSeq(Count(m), 1, m) = SubSeq(Count(n), 1, m)
  <2>1. SubSeq(Count(m), 1, m) = [i \in 1..m |-> Count(m)[i]]
    BY <1>1
  <2>2. SubSeq(Count(n), 1, m) = [i \in 1..m |-> Count(n)[i]]
    BY <1>1
  <2>3. QED
    BY <1>1, <1>2, <2>1, <2>2
<1>4. QED
  BY <1>1, <1>3 DEF IsPrefix

(* What p has sent on a handle only gets longer.                            *)
LEMMA SentGrows ==
    ASSUME Types, Fresh, [Next]_vars, NEW k \in Stream
    PROVE  IsPrefix(Sent[k], Sent'[k])
<1>1. PICK p \in Peer, c \in ChannelId : k = <<p, c>>
  BY DEF Stream
<1>2. PICK m \in Nat, n \in Nat : m = nextSeq[p][c] /\ n = nextSeq'[p][c] /\ m <= n
  BY Growth
<1>3. Sent[k] = IF kind[p][c] = "ReliableOrdered" THEN Count(m) ELSE <<>>
  BY <1>1, <1>2 DEF Sent
<1>4. Sent'[k] = IF kind'[p][c] = "ReliableOrdered" THEN Count(n) ELSE <<>>
  BY <1>1, <1>2 DEF Sent
<1>5. IsPrefix(<<>>, <<>>)
  BY DEF IsPrefix
<1>6. CASE kind'[p][c] = kind[p][c]
  BY <1>2, <1>3, <1>4, <1>5, <1>6, Counted
<1>7. CASE c > opened[p]
  <2>1. m = 0 /\ Sent[k] = Count(m)
    BY <1>2, <1>3, <1>7 DEF Fresh
  <2>2. Count(0) = <<>>
    BY DEF Count
  <2>3. CASE kind'[p][c] = "ReliableOrdered"
    BY <1>2, <1>4, <2>1, <2>3, Counted
  <2>4. CASE kind'[p][c] # "ReliableOrdered"
    BY <1>4, <1>5, <2>1, <2>2, <2>4
  <2>5. QED
    BY <2>3, <2>4
<1>8. c <= opened[p] \/ c > opened[p]
  BY Growth, Numbers
<1>9. QED
  BY <1>6, <1>7, <1>8, Growth

(* What came to the reader of c at q, if it opened c as reliable.           *)
Given(q, c) == IF kind[q][c] = "ReliableOrdered" THEN Queue(q, c) ELSE <<>>

LEMMA GivenKept ==
    ASSUME Types, StreamInv, [Next]_vars, NEW q \in Peer, NEW c \in ChannelId,
           ~(Push(q) /\ Pushed(q, c) /\ kind[q][c] = "ReliableOrdered")
    PROVE  Given(q, c)' = Given(q, c)
<1>1. CASE Quiet(q, c)
  BY <1>1 DEF Quiet, Given
<1>2. ASSUME NEW k \in ChannelKind, OpenChannel(q, k), c = opened[q] + 1
      PROVE  Given(q, c)' = Given(q, c)
  <2>1. queued' = queued
    BY <1>2 DEF OpenChannel
  <2>2. c > opened[q]
    BY <1>2, Growth
  <2>3. kind[q][c] = "ReliableOrdered" /\ Handed(q, c) = 0
    BY <2>2 DEF StreamInv, Fresh, Turns, InTurn
  <2>4. Len(Queue(q, c)) = 0 /\ Queue(q, c) \in Seq(Nat)
    <3>1. CASE Pushed(q, c)
      <4>1. /\ Len(Queue(q, c)) + Len(demux[q].list) = 0
            /\ Len(Queue(q, c)) \in Nat /\ Len(demux[q].list) \in Nat
        BY <2>3, <3>1, QueueType DEF Handed, Queue
      <4>2. QED
        BY <4>1, QueueType
    <3>2. CASE ~Pushed(q, c)
      <4>1. Len(Queue(q, c)) + 0 = 0 /\ Len(Queue(q, c)) \in Nat
        BY <2>3, <3>2, QueueType DEF Handed, Queue
      <4>2. QED
        BY <4>1, QueueType
    <3>3. QED
      BY <3>1, <3>2
  <2>5. Queue(q, c) = <<>>
    BY <2>4
  <2>6. Queue(q, c)' = <<>>
    BY <2>1, <2>5 DEF Queue
  <2>7. QED
    BY <2>5, <2>6 DEF Given
<1>3. CASE Insert(q)
  <2>1. queued' = queued /\ kind' = kind
    BY <1>3 DEF Insert, handleVars
  <2>2. QED
    BY <2>1 DEF Given, Queue
<1>4. CASE Push(q) /\ Pushed(q, c)
  <2>1. kind' = kind /\ kind[q][c] # "ReliableOrdered"
    BY <1>4 DEF Push, handleVars
  <2>2. QED
    BY <2>1 DEF Given
<1>5. QED
  BY <1>1, <1>2, <1>3, <1>4, TurnSteps

(* A payload joins the queue in its turn, or the queues stay as they are.   *)
LEMMA GotStep ==
    ASSUME Types, StreamInv, [Next]_vars
    PROVE  \/ Got' = Got
           \/ \E k \in Stream :
                /\ Len(Got[k]) < Len(Sent[k])
                /\ Got' = [Got EXCEPT ![k] = Append(Got[k], Sent[k][Len(Got[k]) + 1])]
<1>1. Got = [k \in Stream |-> Given(Other(k[1]), k[2])]
  BY DEF Got, Given, Queue
<1>2. Got' = [k \in Stream |-> Given(Other(k[1]), k[2])']
  BY DEF Got, Given, Queue
<1>3. \A k \in Stream : /\ k = <<k[1], k[2]>> /\ k[1] \in Peer /\ k[2] \in ChannelId
                        /\ Other(k[1]) \in Peer
  BY Others DEF Stream
<1>4. CASE \E q \in Peer, c \in ChannelId :
               Push(q) /\ Pushed(q, c) /\ kind[q][c] = "ReliableOrdered"
  <2>1. PICK q \in Peer, c \in ChannelId :
               Push(q) /\ Pushed(q, c) /\ kind[q][c] = "ReliableOrdered"
    BY <1>4
  <2>2. PICK p \in Peer : p = Other(q) /\ Other(p) = q
    BY Others
  <2>3. InTurn(q, c)
    BY <2>1 DEF StreamInv, Turns
  <2>4. /\ Queue(q, c)' = Append(Queue(q, c), Len(Queue(q, c)))
        /\ Len(Queue(q, c)) < Handed(q, c)
    BY <2>1, <2>3, TurnPush
  <2>5. PICK n \in Nat : n = Len(Queue(q, c))
    BY QueueType
  <2>6. Numbered(p, "ReliableOrdered", c, n)
    BY <2>2, <2>3, <2>4, <2>5 DEF InTurn
  <2>7. PICK m \in Nat : m = nextSeq[p][c] /\ n < m /\ kind[p][c] = "ReliableOrdered"
    BY <2>6, Growth DEF Numbered
  <2>8. PICK k \in Stream : k = <<p, c>>
    BY DEF Stream
  <2>9. Sent[k] = Count(m) /\ Len(Sent[k]) = m /\ Sent[k][n + 1] = n
    <3>1. Sent[k] = Count(m)
      BY <2>7, <2>8 DEF Sent
    <3>2. n + 1 \in 1..m /\ (n + 1) - 1 = n
      BY <2>7
    <3>3. Len(Count(m)) = m /\ \A i \in 1..m : Count(m)[i] = i - 1
      BY Counted
    <3>4. QED
      BY <3>1, <3>2, <3>3
  <2>10. Got[k] = Queue(q, c) /\ Got'[k] = Queue(q, c)'
    <3>1. kind' = kind
      BY <2>1 DEF Push, handleVars
    <3>2. QED
      BY <2>1, <2>2, <2>8, <3>1 DEF Got, Queue
  <2>11. Got'[k] = Append(Got[k], Sent[k][Len(Got[k]) + 1])
    BY <2>4, <2>5, <2>9, <2>10
  <2>12. ASSUME NEW j \in Stream, j # k PROVE Got'[j] = Got[j]
    <3>1. PICK b \in Peer, d \in ChannelId : b = Other(j[1]) /\ d = j[2]
      BY <1>3
    <3>2. Got[j] = Given(b, d) /\ Got'[j] = Given(b, d)'
      BY <3>1 DEF Got, Given, Queue
    <3>3. b # q \/ d # c
      <4>1. j = <<j[1], j[2]>> /\ j[1] \in Peer
        BY <1>3
      <4>2. b = q => j[1] = p
        BY <2>2, <3>1, <4>1, Others
      <4>3. QED
        BY <2>8, <2>12, <3>1, <4>1, <4>2
    <3>4. ~(Push(b) /\ Pushed(b, d) /\ kind[b][d] = "ReliableOrdered") \/ b # q
      BY <2>1, <3>3 DEF Pushed
    <3>5. CASE ~(Push(b) /\ Pushed(b, d) /\ kind[b][d] = "ReliableOrdered")
      BY <3>2, <3>5, GivenKept
    <3>6. CASE b # q
      <4>1. queued'[b] = queued[b] /\ kind' = kind
        BY <2>1, <3>6 DEF Push, handleVars, Types, Receiving
      <4>2. QED
        BY <3>2, <4>1 DEF Given, Queue
    <3>7. QED
      BY <3>4, <3>5, <3>6
  <2>13. Got' = [Got EXCEPT ![k] = Append(Got[k], Sent[k][Len(Got[k]) + 1])]
    <3>1. DOMAIN Got = Stream /\ DOMAIN Got' = Stream
      BY DEF Got
    <3>2. Got' = [j \in Stream |-> Got'[j]]
      BY DEF Got
    <3>3. Got = [j \in Stream |-> Got[j]]
      BY DEF Got
    <3>4. QED
      BY <2>11, <2>12, <3>1, <3>2, <3>3
  <2>14. Len(Got[k]) < Len(Sent[k])
    BY <2>5, <2>7, <2>9, <2>10
  <2>15. QED
    BY <2>13, <2>14
<1>5. CASE ~\E q \in Peer, c \in ChannelId :
               Push(q) /\ Pushed(q, c) /\ kind[q][c] = "ReliableOrdered"
  <2>1. ASSUME NEW k \in Stream PROVE Got'[k] = Got[k]
    <3>1. PICK b \in Peer, d \in ChannelId : b = Other(k[1]) /\ d = k[2]
      BY <1>3
    <3>2. Given(b, d)' = Given(b, d)
      BY <1>5, GivenKept
    <3>3. QED
      BY <3>1, <3>2 DEF Got, Given, Queue
  <2>2. Got' = [k \in Stream |-> Got'[k]] /\ Got = [k \in Stream |-> Got[k]]
    BY DEF Got
  <2>3. QED
    BY <2>1, <2>2
<1>6. QED
  BY <1>4, <1>5

(* Spec => ImplementsStream: a reliable channel is an ordered stream.       *)
THEOREM StreamHolds == Spec => ImplementsStream
<1> DEFINE Inv == Types /\ AckInv /\ StreamInv
<1>1. Init => Promise!Init
  <2> SUFFICES ASSUME Init PROVE Promise!Init
    OBVIOUS
  <2>1. ASSUME NEW k \in Stream
        PROVE  /\ nextSeq[k[1]][k[2]] = 0
               /\ queued[Other(k[1])][k[2]]["ReliableOrdered"] = <<>>
    <3>1. k[1] \in Peer /\ k[2] \in ChannelId /\ Other(k[1]) \in Peer
      BY Others DEF Stream
    <3>2. QED
      BY <3>1 DEF Init, ChannelKind
  <2>2. Count(0) = <<>>
    BY DEF Count
  <2>3. QED
    BY <2>1, <2>2 DEF Promise!Init
<1>2. Init => Inv
  BY TypesInit, AckInit, StreamInit
<1>3. Inv /\ [Next]_vars => Inv'
  BY TypesStep, PassedStep, AckSentStep, FiredStep, OkStep, StreamStep DEF AckInv
<1>4. Inv /\ [Next]_vars => [Promise!Next]_<<Sent, Got>>
  <2> SUFFICES ASSUME Inv, [Next]_vars PROVE Promise!Next
    OBVIOUS
  <2>1. \A k \in Stream : IsPrefix(Sent[k], Sent'[k])
    BY SentGrows DEF StreamInv
  <2>2. QED
    BY <2>1, GotStep, PromiseStep
<1> HIDE DEF Inv
<1>5. QED
  BY <1>1, <1>2, <1>3, <1>4, PTL DEF Spec, ImplementsStream, Promise!Spec, Sent, Got
=============================================================================
