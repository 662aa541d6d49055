-------------------------- MODULE ReliableChannel --------------------------
(***************************************************************************)
(* The channels of an RndzvSession (crates/rift-rndzv/src/api.rs): channel *)
(* handles, the stop-and-retry sender of ReliableOrdered channels, and the *)
(* demultiplexer task that decrypts, acknowledges, reorders and queues.    *)
(*                                                                         *)
(* Both ends have finished run_handshake.  The Noise transport under the   *)
(* channels counts nonces implicitly: a frame is sealed with the sender's  *)
(* next nonce, and opens only with the receiver's.  Sealing and handing to *)
(* the socket are two steps, because send and the demultiplexer release    *)
(* the crypto lock between them.                                           *)
(*                                                                         *)
(* A payload is named by the channel and its place among the payloads sent *)
(* there: the sequence number of a reliable send, the count of datagrams.  *)
(***************************************************************************)
EXTENDS Integers, Sequences, FiniteSets, SequencesExt

CONSTANTS
    Peer,          \* the two ends of the session
    Task,          \* calls to RndzvChannel::send that one end may have open
    Attempts,      \* transmissions of a reliable frame: 5
    QueueSize,     \* room in the queue of a channel: 64
    SendErrors,    \* whether the socket may refuse a datagram
    KindsOf,       \* KindsOf[p]: the kinds of channel p opens
    Leavers,       \* ends that close channels and shut the session down
    MaxChannel,    \* bound: channels opened at one end
    MaxSends       \* MaxSends[p], bound: calls to send at p

ChannelKind   == {"ReliableOrdered", "UnreliableDatagram"}
ChannelId     == 1..MaxChannel

ASSUME SessionAssumption ==
    /\ IsFiniteSet(Peer) /\ Cardinality(Peer) = 2
    /\ Attempts \in Nat \ {0}
    /\ QueueSize \in Nat \ {0}
    /\ SendErrors \in BOOLEAN
    /\ KindsOf \in [Peer -> SUBSET ChannelKind]
    /\ Leavers \subseteq Peer
    /\ MaxChannel \in Nat
    /\ MaxSends \in [Peer -> Nat]

Senders == {p \in Peer : MaxSends[p] > 0}

Other(p) == CHOOSE q \in Peer : q # p

(* A frame under its nonce, as it travels to the peer.                      *)
Frame  == [kind : ChannelKind, chan : ChannelId, seq : Nat, ack : BOOLEAN]
Sealed == [frame : Frame, n : Nat]

Idle == [pc |-> "idle"]
Calls == {Idle} \union
         [pc : {"seal", "transmit", "wait"}, kind : ChannelKind, chan : ChannelId,
          seq : Nat, tries : 0..(Attempts - 1), n : Nat, fired : BOOLEAN]

VARIABLES
    opened,    \* opened[p]: how many channel ids p has used (next_channel - 1)
    kind,      \* kind[p][c]: the kind of p's handle
    channels,  \* channels[p]: the ids registered in DemuxState::channels
    nextSeq,   \* nextSeq[p][c]: payloads sent on p's handle
    call,      \* call[p][t]: a call to send in progress
    waiters,   \* waiters[p]: keys of DemuxState::ack_waiters
    tx,        \* tx[p]: the nonce of the next frame p seals
    rx,        \* rx[p]: the nonce p's session expects
    wire,      \* wire[p]: every datagram sent to p
    demux,     \* demux[p]: where p's demultiplexer task is
    recv,      \* recv[p][c]: DemuxState::reliable_recv (absent = next 0)
    queued,    \* queued[p][c][k]: payloads of kind k put into c's queue so far
    taken,     \* taken[p][c]: how many of them recv has returned
    stop,      \* stop[p]: the shutdown watch
    sends,     \* sends[p]: calls to send so far
    returned,  \* history: returned[p], the sends of p that returned, and how
    dropped    \* history: payloads that p acknowledged and threw away

callVars == <<nextSeq, call, sends, returned>>
handleVars == <<opened, kind, channels>>
vars == <<handleVars, callVars, waiters, tx, rx, wire, demux, recv, queued,
          taken, stop, dropped>>

-----------------------------------------------------------------------------

Empty == [next |-> 0, buffered |-> {}]

Init ==
    /\ opened   = [p \in Peer |-> 0]
    /\ kind     = [p \in Peer |-> [c \in ChannelId |-> "ReliableOrdered"]]
    /\ channels = [p \in Peer |-> {}]
    /\ nextSeq  = [p \in Peer |-> [c \in ChannelId |-> 0]]
    /\ call     = [p \in Peer |-> [t \in Task |-> Idle]]
    /\ waiters  = [p \in Peer |-> {}]
    /\ tx       = [p \in Peer |-> 0]
    /\ rx       = [p \in Peer |-> 0]
    /\ wire     = [p \in Peer |-> {}]
    /\ demux    = [p \in Peer |-> [pc |-> "recv"]]
    /\ recv     = [p \in Peer |-> [c \in ChannelId |-> Empty]]
    /\ queued   = [p \in Peer |-> [c \in ChannelId |-> [k \in ChannelKind |-> <<>>]]]
    /\ taken    = [p \in Peer |-> [c \in ChannelId |-> 0]]
    /\ stop     = [p \in Peer |-> FALSE]
    /\ sends    = [p \in Peer |-> 0]
    /\ returned = [p \in Peer |-> {}]
    /\ dropped  = [p \in Peer |-> {}]

(* A payload of the peer of p, as histories name it.                        *)
Payload(f) == [kind |-> f.kind, chan |-> f.chan, seq |-> f.seq]
Payloads(c, seqs) == [kind : {"ReliableOrdered"}, chan : {c}, seq : seqs]
Buffered(p, c) == Payloads(c, recv[p][c].buffered)

(* open_channel: both ends count their ids from 1.  register makes a new    *)
(* ReliableRecvState, over one that frames which came early may have left.  *)
OpenChannel(p, k) ==
    LET c == opened[p] + 1
    IN  /\ c \in ChannelId
        /\ opened' = [opened EXCEPT ![p] = c]
        /\ kind' = [kind EXCEPT ![p][c] = k]
        /\ channels' = [channels EXCEPT ![p] = @ \union {c}]
        /\ IF k = "ReliableOrdered"
           THEN /\ recv' = [recv EXCEPT ![p][c] = Empty]
                /\ dropped' = [dropped EXCEPT ![p] = @ \union Buffered(p, c)]
           ELSE UNCHANGED <<recv, dropped>>
        /\ UNCHANGED <<callVars, waiters, tx, rx, wire, demux, queued, taken, stop>>

(* close: the handle stays, and may still be used to send.                  *)
Close(p, c) ==
    /\ p \in Leavers /\ c \in channels[p]
    /\ channels' = [channels EXCEPT ![p] = @ \ {c}]
    /\ recv' = [recv EXCEPT ![p][c] = Empty]
    /\ dropped' = [dropped EXCEPT ![p] = @ \union Buffered(p, c)]
    /\ waiters' = [waiters EXCEPT ![p] = {w \in @ : w.chan # c}]
    /\ UNCHANGED <<opened, kind, callVars, tx, rx, wire, demux, queued, taken, stop>>

(* Payloads put into the queue of c so far, of either kind.                 *)
Put(p, c) == Len(queued[p][c]["ReliableOrdered"]) + Len(queued[p][c]["UnreliableDatagram"])

(* recv: the next payload of the queue.                                     *)
Read(p, c) ==
    /\ taken[p][c] < Put(p, c)
    /\ taken' = [taken EXCEPT ![p][c] = @ + 1]
    /\ UNCHANGED <<handleVars, callVars, waiters, tx, rx, wire, demux, recv,
                   queued, stop, dropped>>

-----------------------------------------------------------------------------
(* RndzvChannel::send.  A reliable send takes its sequence number first, so *)
(* two open calls may seal and transmit in either order.                    *)

(* Calls are alike: a new one is given a free place, no matter which.       *)
Place(p) == CHOOSE t \in Task : call[p][t] = Idle

Send(p, t, c) ==
    /\ call[p][t] = Idle /\ t = Place(p)
    /\ c <= opened[p]
    /\ sends[p] < MaxSends[p]
    /\ sends' = [sends EXCEPT ![p] = @ + 1]
    /\ nextSeq' = [nextSeq EXCEPT ![p][c] = @ + 1]
    /\ call' = [call EXCEPT ![p][t] =
                   [pc |-> "seal", kind |-> kind[p][c], chan |-> c,
                    seq |-> nextSeq[p][c], tries |-> 0, n |-> 0, fired |-> FALSE]]
    /\ UNCHANGED <<handleVars, returned, waiters, tx, rx, wire, demux, recv,
                   queued, taken, stop, dropped>>

Key(x) == [chan |-> x.chan, seq |-> x.seq]

(* Enter the waiter for the acknowledgement, then encrypt.                  *)
Seal(p, t) ==
    LET x == call[p][t]
    IN  /\ x.pc = "seal"
        /\ waiters' = IF x.kind = "ReliableOrdered"
                      THEN [waiters EXCEPT ![p] = @ \union {Key(x)}]
                      ELSE waiters
        /\ tx' = [tx EXCEPT ![p] = @ + 1]
        /\ call' = [call EXCEPT ![p][t] = [x EXCEPT !.pc = "transmit", !.n = tx[p],
                                                    !.fired = FALSE]]
        /\ UNCHANGED <<handleVars, nextSeq, sends, returned, rx, wire, demux,
                       recv, queued, taken, stop, dropped>>

DataFrame(x) == [frame |-> [kind |-> x.kind, chan |-> x.chan, seq |-> x.seq,
                            ack |-> FALSE],
                 n |-> x.n]

Finish(p, t, how) ==
    /\ call' = [call EXCEPT ![p][t] = Idle]
    /\ returned' = [returned EXCEPT ![p] =
                        @ \union {[sent |-> Payload(call[p][t]), how |-> how]}]

(* send_to: the datagram is on the wire and the call waits 200 ms, unless   *)
(* its channel is one of datagrams.                                         *)
Transmit(p, t) ==
    LET x == call[p][t]
    IN  /\ x.pc = "transmit"
        /\ wire' = [wire EXCEPT ![Other(p)] = @ \union {DataFrame(x)}]
        /\ IF x.kind = "ReliableOrdered"
           THEN /\ call' = [call EXCEPT ![p][t] = [x EXCEPT !.pc = "wait"]]
                /\ UNCHANGED returned
           ELSE Finish(p, t, "ok")
        /\ UNCHANGED <<handleVars, nextSeq, sends, waiters, tx, rx, demux, recv,
                       queued, taken, stop, dropped>>

(* The socket refuses: the call returns and leaves its waiter behind.       *)
TransmitFails(p, t) ==
    /\ SendErrors
    /\ call[p][t].pc = "transmit"
    /\ Finish(p, t, "io")
    /\ UNCHANGED <<handleVars, nextSeq, sends, waiters, tx, rx, wire, demux, recv,
                   queued, taken, stop, dropped>>

Acknowledged(p, t) ==
    /\ call[p][t].pc = "wait"
    /\ call[p][t].fired
    /\ Finish(p, t, "ok")
    /\ UNCHANGED <<handleVars, nextSeq, sends, waiters, tx, rx, wire, demux, recv,
                   queued, taken, stop, dropped>>

(* Mutation: after the last transmission there is no timer.                 *)
Mutant_WaitForever(p, t) ==
    LET x == call[p][t]
    IN  /\ x.pc = "wait" /\ ~x.fired
        /\ x.tries + 1 < Attempts
        /\ waiters' = [waiters EXCEPT ![p] = @ \ {Key(x)}]
        /\ call' = [call EXCEPT ![p][t] = [x EXCEPT !.pc = "seal", !.tries = @ + 1]]
        /\ UNCHANGED <<handleVars, nextSeq, sends, returned, tx, rx, wire, demux,
                       recv, queued, taken, stop, dropped>>

(* 200 ms without an acknowledgement, or close has dropped the waiter.      *)
Retry(p, t) ==
    LET x == call[p][t]
    IN  /\ x.pc = "wait" /\ ~x.fired
        /\ waiters' = [waiters EXCEPT ![p] = @ \ {Key(x)}]
        /\ IF x.tries + 1 >= Attempts
           THEN Finish(p, t, "timeout")
           ELSE /\ call' = [call EXCEPT ![p][t] = [x EXCEPT !.pc = "seal",
                                                            !.tries = @ + 1]]
                /\ UNCHANGED returned
        /\ UNCHANGED <<handleVars, nextSeq, sends, tx, rx, wire, demux, recv,
                       queued, taken, stop, dropped>>

-----------------------------------------------------------------------------
(* start_demux_task.                                                        *)

(* UDP: what was sent may arrive in any order, any number of times, or      *)
(* never.  A datagram under another nonce than the expected one does not    *)
(* decrypt, and changes nothing.                                            *)
Listening(p) == demux[p].pc = "recv"

(* Mutation: an older nonce is good as well.                                *)
Mutant_Opens(p, d) ==
    /\ Listening(p)
    /\ d.n <= rx[p]
    /\ rx' = [rx EXCEPT ![p] = IF d.n = @ THEN @ + 1 ELSE @]

(* Datagram d decrypts.                                                     *)
Opens(p, d) ==
    /\ Listening(p)
    /\ d.n = rx[p]
    /\ rx' = [rx EXCEPT ![p] = @ + 1]

(* An acknowledgement fires the waiter it names, if it is still there.      *)
RecvAck(p, d) ==
    LET f == d.frame
        w == [chan |-> f.chan, seq |-> f.seq]
        waits(t) == /\ w \in waiters[p]
                    /\ call[p][t].pc \in {"transmit", "wait"}
                    /\ call[p][t].kind = "ReliableOrdered"
                    /\ Key(call[p][t]) = w
    IN  /\ Opens(p, d)
        /\ f.ack
        /\ waiters' = [waiters EXCEPT ![p] = @ \ {w}]
        /\ call' = [call EXCEPT ![p] =
                       [t \in Task |-> IF waits(t)
                                       THEN [call[p][t] EXCEPT !.fired = TRUE]
                                       ELSE call[p][t]]]
        /\ UNCHANGED <<handleVars, nextSeq, sends, returned, tx, wire, demux,
                       recv, queued, taken, stop, dropped>>

(* A datagram goes to the queue of its channel, if that is registered.      *)
RecvDatagram(p, d) ==
    LET f == d.frame
    IN  /\ Opens(p, d)
        /\ ~f.ack /\ f.kind = "UnreliableDatagram"
        /\ demux' = IF f.chan \in channels[p]
                    THEN [demux EXCEPT ![p] = [pc |-> "push", kind |-> f.kind,
                                               chan |-> f.chan, list |-> <<f.seq>>]]
                    ELSE demux
        /\ UNCHANGED <<handleVars, callVars, waiters, tx, wire, recv, queued,
                       taken, stop, dropped>>

(* Reliable data is acknowledged before anything else is known about it:    *)
(* decrypt, then seal the acknowledgement.                                  *)
RecvReliable(p, d) ==
    LET f == d.frame
    IN  /\ Opens(p, d)
        /\ ~f.ack /\ f.kind = "ReliableOrdered"
        /\ tx' = [tx EXCEPT ![p] = @ + 1]
        /\ demux' = [demux EXCEPT ![p] = [pc |-> "ack", frame |-> f, n |-> tx[p]]]
        /\ UNCHANGED <<handleVars, callVars, waiters, wire, recv, queued, taken,
                       stop, dropped>>

(* The numbers that can now leave the buffer, in order.                     *)
Drain(next, buffered) ==
    LET run == {s \in buffered : next..s \subseteq buffered}
    IN  [i \in 1..Cardinality(run) |-> next + i - 1]

(* Mutation: a frame ahead of its turn is not kept.                         *)
Mutant_Accepts(r, s) == IF s = r.next THEN r.buffered \union {s} ELSE r.buffered

(* Frames below next are duplicates.                                        *)
Accepts(r, s) == IF s >= r.next THEN r.buffered \union {s} ELSE r.buffered

(* Send the acknowledgement; the code ignores whether that could be done.   *)
SendAck(p) ==
    /\ demux[p].pc = "ack"
    /\ wire' = [wire EXCEPT ![Other(p)] =
          @ \union {[frame |-> [demux[p].frame EXCEPT !.ack = TRUE], n |-> demux[p].n]}]
    /\ demux' = [demux EXCEPT ![p].pc = "insert"]
    /\ UNCHANGED <<handleVars, callVars, waiters, tx, rx, recv, queued, taken, stop, dropped>>

(* Mutation: duplicates are put into the buffer again.                      *)
Mutant_Insert(p) ==
    LET f == demux[p].frame
        c == f.chan
        r == recv[p][c]
        list == IF f.seq < r.next THEN <<f.seq>>
                ELSE Drain(r.next, r.buffered \union {f.seq})
    IN  /\ demux[p].pc = "insert"
        /\ recv' = [recv EXCEPT ![p][c] =
              [next |-> r.next + Len(list),
               buffered |-> (r.buffered \union {f.seq}) \ Range(list)]]
        /\ demux' = [demux EXCEPT ![p] =
              IF c \in channels[p] /\ list # <<>>
              THEN [pc |-> "push", kind |-> f.kind, chan |-> c, list |-> list]
              ELSE [pc |-> "recv"]]
        /\ dropped' = IF c \in channels[p] THEN dropped
                      ELSE [dropped EXCEPT ![p] = @ \union Payloads(c, Range(list))]
        /\ UNCHANGED <<handleVars, callVars, waiters, tx, rx, wire, queued, taken, stop>>

(* The acknowledged frame is buffered, unless it is a duplicate, and what   *)
(* is in turn is drained; what is drained without a registered channel is   *)
(* gone.                                                                    *)
Insert(p) ==
    LET f == demux[p].frame
        c == f.chan
        r == recv[p][c]
        buffered == Accepts(r, f.seq)
        list == Drain(r.next, buffered)
    IN  /\ demux[p].pc = "insert"
        /\ recv' = [recv EXCEPT ![p][c] = [next |-> r.next + Len(list),
                                           buffered |-> buffered \ Range(list)]]
        /\ demux' = [demux EXCEPT ![p] =
              IF c \in channels[p] /\ list # <<>>
              THEN [pc |-> "push", kind |-> f.kind, chan |-> c, list |-> list]
              ELSE [pc |-> "recv"]]
        /\ dropped' = IF c \in channels[p] THEN dropped
                      ELSE [dropped EXCEPT ![p] = @ \union Payloads(c, Range(list))]
        /\ UNCHANGED <<handleVars, callVars, waiters, tx, rx, wire, queued, taken, stop>>

(* Mutation: reading a payload does not make room.                          *)
Mutant_Room(p, c) == Put(p, c) < QueueSize

Room(p, c) == Put(p, c) - taken[p][c] < QueueSize

(* tx.send(payload).await: the task waits for room before anything else.    *)
Push(p) ==
    LET c == demux[p].chan
        list == demux[p].list
    IN  /\ demux[p].pc = "push"
        /\ Room(p, c)
        /\ queued' = [queued EXCEPT ![p][c][demux[p].kind] = Append(@, Head(list))]
        /\ demux' = [demux EXCEPT ![p] = IF Len(list) = 1
                                         THEN [pc |-> "recv"]
                                         ELSE [demux[p] EXCEPT !.list = Tail(list)]]
        /\ UNCHANGED <<handleVars, callVars, waiters, tx, rx, wire, recv, taken,
                       stop, dropped>>

(* RndzvSession::shutdown, or the session is dropped.                       *)
Shutdown(p) ==
    /\ p \in Leavers /\ ~stop[p]
    /\ stop' = [stop EXCEPT ![p] = TRUE]
    /\ UNCHANGED <<handleVars, callVars, waiters, tx, rx, wire, demux, recv,
                   queued, taken, dropped>>

Stop(p) ==
    /\ stop[p] /\ Listening(p)
    /\ demux' = [demux EXCEPT ![p] = [pc |-> "stopped"]]
    /\ UNCHANGED <<handleVars, callVars, waiters, tx, rx, wire, recv, queued,
                   taken, stop, dropped>>

Receive(p, d) ==
    \/ RecvAck(p, d)
    \/ RecvDatagram(p, d)
    \/ RecvReliable(p, d)

(* What a call to send, and the demultiplexer in the middle of a frame, can *)
(* do next.                                                                 *)
Continue(p, t) ==
    \/ Seal(p, t) \/ Transmit(p, t) \/ TransmitFails(p, t)
    \/ Acknowledged(p, t) \/ Retry(p, t)

Deliver(p) == SendAck(p) \/ Insert(p) \/ Push(p)

Next ==
    \E p \in Peer :
        \/ \E k \in KindsOf[p] : OpenChannel(p, k)
        \/ \E c \in ChannelId : Close(p, c) \/ Read(p, c)
        \/ \E t \in Task : Continue(p, t) \/ \E c \in ChannelId : Send(p, t, c)
        \/ \E d \in wire[p] : Receive(p, d)
        \/ Deliver(p)
        \/ Shutdown(p)
        \/ Stop(p)

Spec == Init /\ [][Next]_vars

(* The runtime runs its tasks: an open call goes on (its timer fires), the  *)
(* demultiplexer finishes the frame it has, and sees the shutdown watch,    *)
(* which tokio::select! polls in random order with the socket.  Nothing     *)
(* makes a datagram arrive or a user read, open, close or shut down.        *)
Fairness ==
    /\ \A p \in Senders, t \in Task : WF_vars(Continue(p, t))
    /\ \A p \in Peer : WF_vars(Deliver(p))
    /\ \A p \in Leavers : SF_vars(Stop(p))

FairSpec == Spec /\ Fairness

-----------------------------------------------------------------------------
(* Properties.                                                              *)

Payload1 == [kind : ChannelKind, chan : ChannelId, seq : Nat]

Demux == [pc : {"recv", "stopped"}] \union [pc : {"ack", "insert"}, frame : Frame, n : Nat]
         \union [pc : {"push"}, kind : ChannelKind, chan : ChannelId, list : Seq(Nat)]

(* Every handle, call, table entry and datagram is of its type.             *)
TypeOK ==
    /\ opened \in [Peer -> 0..MaxChannel]
    /\ kind \in [Peer -> [ChannelId -> ChannelKind]]
    /\ channels \in [Peer -> SUBSET ChannelId]
    /\ nextSeq \in [Peer -> [ChannelId -> Nat]]
    /\ call \in [Peer -> [Task -> Calls]]
    /\ waiters \in [Peer -> SUBSET [chan : ChannelId, seq : Nat]]
    /\ tx \in [Peer -> Nat]
    /\ rx \in [Peer -> Nat]
    /\ wire \in [Peer -> SUBSET Sealed]
    /\ demux \in [Peer -> Demux]
    /\ recv \in [Peer -> [ChannelId -> [next : Nat, buffered : SUBSET Nat]]]
    /\ queued \in [Peer -> [ChannelId -> [ChannelKind -> Seq(Nat)]]]
    /\ taken \in [Peer -> [ChannelId -> Nat]]
    /\ stop \in [Peer -> BOOLEAN]
    /\ sends \in [Peer -> Nat]
    /\ returned \in [Peer -> SUBSET [sent : Payload1, how : {"ok", "io", "timeout"}]]
    /\ dropped \in [Peer -> SUBSET Payload1]

(* A reliable send that returned Ok is accounted for at the peer: the       *)
(* payload is in the channel's queue or on its way there or to the buffer,  *)
(* waits in the buffer for those before it, or was thrown away because the  *)
(* peer had not opened the channel yet, or closed it.                       *)
OkMeansTaken ==
    \A p \in Peer : \A x \in returned[p] :
        x.how = "ok" /\ x.sent.kind = "ReliableOrdered" =>
            LET q == Other(p)
                c == x.sent.chan
            IN  \/ x.sent.seq \in Range(queued[q][c]["ReliableOrdered"])
                \/ /\ demux[q].pc = "push"
                   /\ demux[q].kind = "ReliableOrdered" /\ demux[q].chan = c
                   /\ x.sent.seq \in Range(demux[q].list)
                \/ demux[q].pc = "insert" /\ Payload(demux[q].frame) = x.sent
                \/ x.sent.seq \in recv[q][c].buffered
                \/ x.sent \in dropped[q]

(* A datagram comes out of its channel at most once, though UDP may repeat  *)
(* it and nothing but the session's nonce counter is there to notice.       *)
DatagramsOnce ==
    \A p \in Peer, c \in ChannelId :
        IsInjective(queued[p][c]["UnreliableDatagram"])

Count(n) == [i \in 1..n |-> i - 1]

Stream == Peer \X ChannelId

(* The reliable payloads sent on a handle are numbered 0, 1, 2, ...; those  *)
(* that came to the other end count if it opened the channel as reliable.   *)
Promise == INSTANCE OrderedStream WITH
    sent <- [k \in Stream |-> IF kind[k[1]][k[2]] = "ReliableOrdered"
                              THEN Count(nextSeq[k[1]][k[2]]) ELSE <<>>],
    got  <- [k \in Stream |->
                IF kind[Other(k[1])][k[2]] = "ReliableOrdered"
                THEN queued[Other(k[1])][k[2]]["ReliableOrdered"] ELSE <<>>]

(* "Reliable, ordered delivery" (api.rs): whatever the network loses or     *)
(* reorders, however calls overlap and retry, what a reader is given is the *)
(* beginning of what was sent, without a gap or a repetition.               *)
ImplementsStream == Promise!Spec

(* A call to send returns, by its fifth timeout at the latest, even when    *)
(* the session no longer decrypts or the peer has gone.                     *)
SendsReturn ==
    \A p \in Senders, t \in Task : call[p][t] # Idle ~> call[p][t] = Idle

(* shutdown ends the demultiplexer, unless that waits for room in the queue *)
(* of a channel nobody reads.                                               *)
ShutdownEnds ==
    \A p \in Leavers :
        stop[p] ~> \/ demux[p].pc = "stopped"
                   \/ demux[p].pc = "push" /\ ~(Put(p, demux[p].chan)
                                - taken[p][demux[p].chan] < QueueSize)
=============================================================================
