----------------------------- MODULE LinkStats -----------------------------
(***************************************************************************)
(* What a node measures of the link from one peer (crates/rift-mesh):      *)
(* the limit on datagrams, the window of received and missing numbers, the *)
(* round trip, and the route that consider_route takes for good or bad.    *)
(*                                                                         *)
(* The peer numbers its control frames with one counter, whomever they are *)
(* for, and its voice with another; both numbers are read here as one      *)
(* sequence.  The transport decrypts in order or not at all (MeshLink), so *)
(* on a living connection only a relay leaves frames out.  The peer's      *)
(* frames keep to one path while it is measured.                           *)
(***************************************************************************)
EXTENDS Integers, Sequences, FiniteSets, SequencesExt, FiniteSetsExt

CONSTANTS
    WindowSize,       \* LinkStatsState.window_size (100)
    RateLimit,        \* RATE_LIMIT_PKTS_PER_SEC (1200)
    RateWindow,       \* RATE_LIMIT_WINDOW, in ticks (a second)
    EmitEvery,        \* ticks between two reports (500 ms)
    TolLost, TolOf,   \* packet_loss_tolerance, as TolLost / TolOf
    MaxFrames,        \* bound: frames of the peer
    MaxTicks          \* bound: ticks of the clock

ASSUME LinkStatsAssumption ==
    /\ WindowSize \in Nat \ {0} /\ RateLimit \in Nat /\ RateWindow \in Nat \ {0}
    /\ EmitEvery \in Nat \ {0} /\ TolLost \in Nat /\ TolOf \in Nat \ {0}
    /\ MaxFrames \in Nat /\ MaxTicks \in Nat

VARIABLES
    counter,     \* counter.control, counter.voice: the peer's next numbers
    inbound,     \* the frames on their way here, [n |-> number, pong]
    overRelay,   \* the frames come in envelopes of a relay
    sealed,      \* the connection's nonces agree: datagrams decrypt
    limit,       \* RateLimitState
    gauge,       \* LinkStatsState, the window oldest first
    choice,      \* the route consider_route wants
    clock,
    taken,       \* history: the times of the datagrams that were let in
    got,         \* history: numbers of the frames that were read
    dropped,     \* history: numbers that the relay left out
    elsewhere    \* history: numbers of frames that were for others only

measureVars == <<counter, inbound, overRelay, sealed, limit, gauge, choice,
                 clock, taken, got, dropped, elsewhere>>

NoNumber == -1     \* last_seq is None

\* LinkStatsState::new: as if the last report was long ago.
NewGauge == [last |-> NoNumber, window |-> <<>>, rtt |-> 0, emitted |-> -EmitEvery]

MeasureInit ==
    /\ counter = [control |-> 0, voice |-> 0]
    /\ inbound = <<>>
    /\ overRelay \in BOOLEAN
    /\ sealed = TRUE
    /\ limit = [start |-> 0, count |-> 0]
    /\ gauge = NewGauge
    /\ choice = IF overRelay THEN "relay" ELSE "direct"
    /\ clock = 0
    /\ taken = <<>>
    /\ got = {} /\ dropped = {} /\ elsewhere = {}

\* next_control_seq, or the number the SDK gives a voice frame.
Numbered(kind) ==
    /\ counter.control + counter.voice < MaxFrames
    /\ counter' = [counter EXCEPT ![kind] = @ + 1]

\* A Pong, or any other control frame.
SendControl(pong) ==
    /\ Numbered("control")
    /\ inbound' = Append(inbound, [n |-> counter.control, pong |-> pong])
    /\ UNCHANGED <<overRelay, sealed, limit, gauge, choice, clock, taken, got, dropped, elsewhere>>

SendVoice ==
    /\ Numbered("voice")
    /\ inbound' = Append(inbound, [n |-> counter.voice, pong |-> FALSE])
    /\ UNCHANGED <<overRelay, sealed, limit, gauge, choice, clock, taken, got, dropped, elsewhere>>

\* A control frame for another peer, the relay of this link for one, voice
\* that goes to a forwarder only, or a frame that could not be sent.
SendElsewhere(kind) ==
    /\ Numbered(kind)
    /\ elsewhere' = elsewhere \union {counter[kind]}
    /\ UNCHANGED <<inbound, overRelay, sealed, limit, gauge, choice, clock, taken, got, dropped>>

\* forward_relay: the relay has no route, or sending fails.
RelayDrops ==
    /\ overRelay /\ inbound # <<>>
    /\ inbound' = Tail(inbound)
    /\ dropped' = dropped \union {Head(inbound).n}
    /\ UNCHANGED <<counter, overRelay, sealed, limit, gauge, choice, clock, taken, got, elsewhere>>

\* A lost datagram: the counters of the two ends of the transport part.
DatagramLost ==
    /\ inbound # <<>>
    /\ inbound' = Tail(inbound)
    /\ sealed' = FALSE
    /\ UNCHANGED <<counter, overRelay, limit, gauge, choice, clock, taken, got, dropped, elsewhere>>

MeasureTick ==
    /\ clock < MaxTicks
    /\ clock' = clock + 1
    /\ UNCHANGED <<counter, inbound, overRelay, sealed, limit, gauge, choice, taken, got, dropped, elsewhere>>

-----------------------------------------------------------------------------
\* RateLimitState::allow.
Mutant_Renewed ==
    IF clock - limit.start >= RateWindow THEN [limit EXCEPT !.count = 0] ELSE limit
Renewed ==
    IF clock - limit.start >= RateWindow THEN [start |-> clock, count |-> 0] ELSE limit

Allowed == Renewed.count < RateLimit

\* push_window, for several entries: the oldest ones make room.
Newest(s) == IF Len(s) <= WindowSize THEN s ELSE SubSeq(s, Len(s) - WindowSize + 1, Len(s))
Pushed(window, entries) == Newest(window \o entries)

Missing(n) == [i \in 1..n |-> FALSE]
Lost(window) == Cardinality({i \in DOMAIN window : ~window[i]})

\* update_on_receive: an older number changes nothing, a gap fills at most
\* the whole window.
Mutant_Updated(g, n) ==
    IF n <= g.last THEN g
    ELSE LET gap == IF g.last = NoNumber THEN 0 ELSE n - g.last
         IN  [g EXCEPT !.window = Pushed(@, Missing(Min({gap, WindowSize})) \o <<TRUE>>),
                       !.last = n]
Updated(g, n) ==
    IF n <= g.last THEN g
    ELSE LET gap == IF g.last = NoNumber THEN 0 ELSE n - g.last - 1
         IN  [g EXCEPT !.window = Pushed(@, Missing(Min({gap, WindowSize})) \o <<TRUE>>),
                       !.last = n]

\* prefer_relay in consider_route; a relay candidate that is connected is
\* taken for granted (Routing has the case without), and a round trip of 2 is
\* beyond max_latency_ms.
Wanted(g) ==
    IF Lost(g.window) * TolOf > TolLost * Len(g.window) \/ g.rtt > 1
    THEN "relay" ELSE "direct"

\* update_rtt, with the average of the old value and a tenth of the new one:
\* no sample at all and one of no time are the same.
Smoothed(old, sample) ==
    IF old = 0 THEN {sample} ELSE Min({old, sample})..Max({old, sample})

\* update_link_stats reports, and lets consider_route choose, every EmitEvery.
Measured(n) ==
    LET g == Updated(gauge, n)
    IN  IF clock - g.emitted >= EmitEvery
        THEN [gauge |-> [g EXCEPT !.emitted = clock], choice |-> Wanted(g)]
        ELSE [gauge |-> g, choice |-> choice]

\* A datagram over the limit is thrown away before it is decrypted: the ends
\* of the transport part here too.
DatagramRefused ==
    /\ inbound # <<>> /\ ~Allowed
    /\ inbound' = Tail(inbound)
    /\ limit' = Renewed
    /\ sealed' = FALSE
    /\ UNCHANGED <<counter, overRelay, gauge, choice, clock, taken, got, dropped, elsewhere>>

LetIn ==
    /\ inbound # <<>> /\ Allowed
    /\ inbound' = Tail(inbound)
    /\ limit' = [Renewed EXCEPT !.count = @ + 1]
    /\ taken' = Append(taken, clock)

\* handle_packet: what does not decrypt goes no further.
DatagramUnreadable ==
    /\ LetIn
    /\ ~sealed
    /\ UNCHANGED <<counter, overRelay, sealed, gauge, choice, clock, got, dropped, elsewhere>>

FrameArrives ==
    /\ LetIn
    /\ sealed /\ ~Head(inbound).pong
    /\ gauge' = Measured(Head(inbound).n).gauge
    /\ choice' = Measured(Head(inbound).n).choice
    /\ got' = got \union {Head(inbound).n}
    /\ UNCHANGED <<counter, overRelay, sealed, clock, dropped, elsewhere>>

\* A Pong counts like every frame; then its round trip is taken, and reported
\* and considered at once.
PongArrives ==
    /\ LetIn
    /\ sealed /\ Head(inbound).pong
    /\ \E sample \in 0..2 : \E r \in Smoothed(gauge.rtt, sample) :
          LET g == [Measured(Head(inbound).n).gauge EXCEPT !.rtt = r]
          IN  gauge' = g /\ choice' = Wanted(g)
    /\ got' = got \union {Head(inbound).n}
    /\ UNCHANGED <<counter, overRelay, sealed, clock, dropped, elsewhere>>

MeasureNext ==
    \/ \E pong \in BOOLEAN : SendControl(pong)
    \/ SendVoice
    \/ \E kind \in {"control", "voice"} : SendElsewhere(kind)
    \/ RelayDrops
    \/ DatagramLost
    \/ MeasureTick
    \/ DatagramRefused
    \/ DatagramUnreadable
    \/ FrameArrives
    \/ PongArrives

-----------------------------------------------------------------------------
\* Whatever the window counts as lost was left out by the relay or used by
\* the peer for others, and whatever it counts as received was read here:
\* update_on_receive, with last_seq, the gap and its cap, on the numbers of
\* both counters in one sequence.  So no number that is still on its way is
\* given up, and none that the relay left out is taken for received, unless
\* the other counter's was.  That numbers used for others count as losses is
\* what the code does, and the property allows it.
LossIsReal ==
    \A i \in DOMAIN gauge.window :
        LET n == gauge.last - Len(gauge.window) + i
        IN  IF gauge.window[i] THEN n \in got ELSE n \in dropped \union elsewhere

\* In no stretch of time as long as RATE_LIMIT_WINDOW are more than twice
\* RATE_LIMIT_PKTS_PER_SEC datagrams of an address let in, wherever it lies
\* between the windows RateLimitState counts by.
RateHolds ==
    \A t \in 0..MaxTicks :
        Cardinality({i \in DOMAIN taken : t <= taken[i] /\ taken[i] < t + RateWindow})
            <= 2 * RateLimit
=============================================================================
