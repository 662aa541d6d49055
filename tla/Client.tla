------------------------------- MODULE Client -------------------------------
(***************************************************************************)
(* One device that runs the SDK (crates/rift-sdk, with the mixer of        *)
(* crates/rift-media): channels that are joined and left, the event task   *)
(* and the voice tasks that each join starts, trust on first use, the      *)
(* audio tuning and calls that take their voice off the mesh.              *)
(*                                                                         *)
(* Each join has a number.  What the mesh under it does is the environment *)
(* here (MeshLink, Routing, Calls and GroupVoice have it): peers come and  *)
(* go, talk, and their links get better and worse.  The rendezvous of a    *)
(* call is one step (Rendezvous has it); nothing is received over it,      *)
(* since its session is dropped as soon as its channel has been stored.    *)
(***************************************************************************)
EXTENDS Integers, Sequences, FiniteSets, SequencesExt, FiniteSetsExt

CONSTANTS
    Peer,          \* the other members
    Hosts,         \* peers in the known_hosts file at the start
    Odd,           \* peers whose key is not that of their id or of the file
    Configs,       \* configurations the device may have, see Config
    Queue,         \* room for events between a mesh and its event task (256)
    Backlog,       \* room for captured frames (64)
    Prebuffer,     \* frames a stream collects before it is played (8)
    Hangover,      \* frames sent after the last active one, and one (4)
    MinRate, MaxRate, FirstRate,  \* bitrates of the QoS profile and quality
    MaxJoins,      \* bound: joins that start a mesh
    MaxCalls,      \* bound: calls that carry an SRT
    MaxInputs      \* bound: what the user, the microphone and the mesh do

(* anyport: listen_port is 0, so that every join gets a free one; gate:     *)
(* which gate the voice passes; tofu: trust_on_first_use; reject:           *)
(* reject_on_mismatch.                                                      *)
Config == [anyport : BOOLEAN, gate : {"ptt", "vad", "open"},
           tofu : BOOLEAN, reject : BOOLEAN]

ASSUME ClientAssumption ==
    /\ IsFiniteSet(Peer) /\ Hosts \subseteq Peer /\ Odd \subseteq Peer
    /\ Configs \subseteq Config
    /\ Queue \in Nat \ {0} /\ Backlog \in Nat \ {0}
    /\ Prebuffer \in Nat /\ Hangover \in Nat
    /\ MinRate \in Nat \ {0} /\ MaxRate \in Nat /\ FirstRate \in Nat
    /\ MinRate <= MaxRate
    /\ MaxJoins \in Nat /\ MaxCalls \in Nat /\ MaxInputs \in Nat

Join == 1..MaxJoins
Call == 1..MaxCalls
None == 0

VARIABLES
    config,    \* RiftConfig: which of Configs the device has
    runtime,   \* RiftHandle.runtime: the join it belongs to, or None
    born,      \* joins that have started a mesh
    task,      \* task[g]: the event task of join g
    joined,    \* joined[g]: peers_by_id of the mesh of g
    present,   \* present[g]: those of them that are still there
    hello,     \* hello[g]: those whose Hello is to come
    events,    \* events[g]: from the mesh to the event task
    hosts,     \* the known_hosts file
    quality,   \* quality[p]: what the link to p is like
    qos,       \* qos[g]: QosState
    muted, ptt, \* mute_active, ptt_active
    captured,  \* captured[g]: frames of the microphone, TRUE if active
    voice,     \* voice[g]: the voice task: hangover, frame past the gate or not
    streams,   \* streams[g][p]: the mixer
    spoken,    \* spoken[g][p]: frames p has spoken in g
    srt,       \* srt[g]: pending_call_srt
    waiting,   \* calls whose rendezvous is under way, with their join
    slot,      \* slot[g]: the call whose channel is in rndzv_channel, or None
    calls,     \* calls so far
    inputs,    \* inputs so far
    played,    \* history: played[g][p], the frames mixed for the speakers
    hist       \* history of a join: frames sent while muted and after it was
               \* left, a rendezvous under way when it was left, voice at rest

handle == <<config, runtime, born, hosts>>
mesh == <<joined, present, hello, quality, spoken>>
mic == <<muted, ptt, captured, voice>>
call == <<srt, waiting, slot, calls>>
vars == <<handle, task, mesh, events, qos, mic, streams, call, inputs, played, hist>>

Input ==
    /\ inputs < MaxInputs
    /\ inputs' = inputs + 1

Idle      == [kind |-> "idle"]
NoTask    == [kind |-> "none"]
Rejecting(p) == [kind |-> "rejecting", of |-> p]   \* PeerLeft is to be sent

Runs(g) == task[g].kind # "none"

(* StreamState: a stream that is absent from the mixer has no frames and    *)
(* is to be prebuffered.                                                    *)
NoStream == [queue |-> <<>>, filling |-> Prebuffer > 0]

Clamped(r) == IF r < MinRate THEN MinRate ELSE IF r > MaxRate THEN MaxRate ELSE r

(* No bitrate is under 8000, whatever the profile says.                     *)
Bounded(r) == IF Clamped(r) < 8000 THEN 8000 ELSE Clamped(r)

NoQos  == [rate |-> Bounded(FirstRate), fec |-> FALSE, cooling |-> FALSE,
           seen |-> [p \in Peer |-> "none"]]
Silent == [hang |-> 0, hand |-> FALSE]

(* RiftHandle::new *)
Init ==
    /\ config \in Configs
    /\ runtime = None /\ born = 0
    /\ task = [g \in Join |-> NoTask]
    /\ joined = [g \in Join |-> {}] /\ present = joined /\ hello = joined
    /\ events = [g \in Join |-> <<>>]
    /\ hosts = Hosts
    /\ quality = [p \in Peer |-> "good"]
    /\ qos = [g \in Join |-> NoQos]
    /\ muted = FALSE /\ ptt = (config.gate # "ptt")
    /\ captured = [g \in Join |-> <<>>]
    /\ voice = [g \in Join |-> Silent]
    /\ streams = [g \in Join |-> [p \in Peer |-> NoStream]]
    /\ spoken = [g \in Join |-> [p \in Peer |-> 0]]
    /\ srt = [g \in Join |-> {}] /\ waiting = {} /\ calls = 0
    /\ slot = [g \in Join |-> None]
    /\ inputs = 0
    /\ played = [g \in Join |-> [p \in Peer |-> <<>>]]
    /\ hist = [g \in Join |-> [muted |-> 0, left |-> 0, held |-> FALSE, over |-> FALSE]]

-----------------------------------------------------------------------------
(* Joining and leaving.  Joining reads the identity from its file if an     *)
(* earlier join took the one in memory.                                     *)

(* Mesh::new binds the port; the mesh of an earlier join never lets it go,  *)
(* whether that join is still there, was left, or failed later.             *)
CanBind == config.anyport \/ born = 0

StartMesh ==
    /\ runtime = None /\ born < MaxJoins /\ CanBind
    /\ born' = born + 1
    /\ Input

JoinChannel ==
    /\ StartMesh
    /\ runtime' = born + 1
    /\ task' = [task EXCEPT ![born + 1] = Idle]
    /\ UNCHANGED <<config, hosts, mesh, events, qos, mic, streams, call, played, hist>>

(* The audio pipeline or the DHT fails and join_channel returns its error:  *)
(* the tasks of the mesh go on, but there is nobody to read its events.     *)
JoinFails ==
    /\ StartMesh
    /\ UNCHANGED <<config, runtime, task, hosts, mesh, events, qos, mic, streams, call, played, hist>>

(* Only the SessionRuntime is dropped.  The event task owns the mesh and    *)
(* goes on, as do the playback thread and the tasks of the DHT; the voice   *)
(* task ends when it has taken what is captured, since AudioIn goes with    *)
(* the last reference to the VoiceRuntime.                                  *)
LeaveChannel ==
    /\ runtime # None
    /\ Input
    /\ runtime' = None
    /\ hist' = [hist EXCEPT ![runtime].held = \E w \in waiting : w.join = runtime]
    /\ UNCHANGED <<config, born, hosts, task, mesh, events, qos, mic, streams, call, played>>

-----------------------------------------------------------------------------
(* The mesh.  Each of its tasks awaits room for an event.                   *)

Room(g) == Len(events[g]) < Queue

Event(k, p) == [kind |-> k, of |-> p]

(* Without an event task the receiver is gone and send returns at once.     *)
Post(g, e) ==
    /\ Runs(g) => Room(g)
    /\ events' = IF Runs(g) THEN [events EXCEPT ![g] = Append(@, e)] ELSE events

(* p dials, is found on the network, or by the lookup of the DHT.           *)
PeerJoins(g, p) ==
    /\ g <= born /\ p \notin joined[g]
    /\ Input
    /\ Post(g, Event("Joined", p))
    /\ joined' = [joined EXCEPT ![g] = @ \union {p}]
    /\ present' = [present EXCEPT ![g] = @ \union {p}]
    /\ hello' = [hello EXCEPT ![g] = @ \union {p}]
    /\ UNCHANGED <<handle, task, quality, spoken, qos, mic, streams, call, played, hist>>

(* The Hello that follows every Join.                                       *)
HelloArrives(g, p) ==
    /\ p \in hello[g]
    /\ hello' = [hello EXCEPT ![g] = @ \ {p}]
    /\ Post(g, Event("Identity", p))
    /\ UNCHANGED <<handle, task, joined, present, quality, spoken, qos, mic, streams, call, inputs, played, hist>>

(* No client says goodbye (nothing sends a Leave): p just stops answering.  *)
PeerVanishes(g, p) ==
    /\ p \in present[g]
    /\ Input
    /\ present' = [present EXCEPT ![g] = @ \ {p}]
    /\ hello' = [hello EXCEPT ![g] = @ \ {p}]
    /\ UNCHANGED <<handle, task, joined, quality, spoken, events, qos, mic, streams, call, played, hist>>

(* A frame of p that the mesh accepts: it is newer than the last one.       *)
PeerSpeaks(g, p) ==
    /\ p \in present[g] \ hello[g] /\ Runs(g)
    /\ Input
    /\ Post(g, [kind |-> "Voice", of |-> p, frame |-> spoken[g][p] + 1])
    /\ spoken' = [spoken EXCEPT ![g][p] = @ + 1]
    /\ UNCHANGED <<handle, task, joined, present, hello, quality, qos, mic, streams, call, played, hist>>

LinkChanges(p, q) ==
    /\ q # quality[p]
    /\ Input
    /\ quality' = [quality EXCEPT ![p] = q]
    /\ UNCHANGED <<handle, task, joined, present, hello, spoken, events, qos, mic, streams, call, played, hist>>

CallComes(g) ==
    /\ g <= born /\ Runs(g) /\ calls < MaxCalls
    /\ Input
    /\ calls' = calls + 1
    /\ Post(g, [kind |-> "Call", call |-> calls + 1])
    /\ UNCHANGED <<handle, task, mesh, qos, mic, streams, srt, waiting, slot, played, hist>>

-----------------------------------------------------------------------------
(* The audio tuning.                                                        *)

(* Mutation: the rate is lowered but never raised.                          *)
Mutant_NextRate(r, worst) ==
    Bounded(IF worst = "bad" THEN (r * 8) \div 10 ELSE r)

NextRate(r, worst) ==
    Bounded(CASE worst = "bad"  -> (r * 8) \div 10
              [] worst = "good" -> (r * 11) \div 10
              [] OTHER          -> r)

(* The worst loss and round trip of all peers ever reported on, as classes: *)
(* over what the profile tolerates, under half of it, or between.           *)
Worst(seen) ==
    IF \E p \in Peer : seen[p] = "bad" THEN "bad"
    ELSE IF \E p \in Peer : seen[p] = "fair" THEN "fair" ELSE "good"

(* compute_next_tuning: only a change starts the two seconds without one.   *)
Tuned(q) ==
    LET rate == NextRate(q.rate, Worst(q.seen))
        fec  == Worst(q.seen) # "good"
    IN  IF q.cooling \/ (rate = q.rate /\ fec = q.fec) THEN q
        ELSE [q EXCEPT !.rate = rate, !.fec = fec, !.cooling = TRUE]

Cool(g) ==
    /\ qos[g].cooling
    /\ qos' = [qos EXCEPT ![g].cooling = FALSE]
    /\ UNCHANGED <<handle, task, mesh, events, mic, streams, call, inputs, played, hist>>

(* The statistics of the peer, and what follows from them.                 *)
Reported(s, p, q) == Tuned([s EXCEPT !.seen[p] = q])

(* The pinger's answers make the mesh report on every peer there is again   *)
(* and again.  Left out are the reports that would change nothing now, and  *)
(* those on a peer of whom one is waiting.                                  *)
StatsArrive(g, p) ==
    /\ p \in present[g] /\ Runs(g)
    /\ Reported(qos[g], p, quality[p]) # qos[g]
    /\ ~\E i \in 1..Len(events[g]) : events[g][i].kind = "Stats" /\ events[g][i].of = p
    /\ Post(g, [kind |-> "Stats", of |-> p, quality |-> quality[p]])
    /\ UNCHANGED <<handle, task, mesh, qos, mic, streams, call, inputs, played, hist>>

-----------------------------------------------------------------------------
(* The event task of a join.                                                *)

(* AudioMixer::push *)
Push(g, p, frame) == [streams EXCEPT ![g][p].queue = Append(@, frame)]

Take(g, kind) ==
    /\ task[g] = Idle /\ events[g] # <<>> /\ Head(events[g]).kind = kind
    /\ events' = [events EXCEPT ![g] = Tail(@)]

(* What is only handed to the user.                                         *)
OnNotice(g) ==
    /\ Take(g, "Joined") \/ Take(g, "Left")
    /\ UNCHANGED <<handle, task, mesh, qos, mic, streams, call, inputs, played, hist>>

OnVoice(g) ==
    /\ Take(g, "Voice")
    /\ LET e == Head(events[g]) IN streams' = Push(g, e.of, e.frame)
    /\ UNCHANGED <<handle, task, mesh, qos, mic, call, inputs, played, hist>>

OnStats(g) ==
    /\ Take(g, "Stats")
    /\ LET e == Head(events[g])
       IN  qos' = [qos EXCEPT ![g] = Reported(@, e.of, e.quality)]
    /\ UNCHANGED <<handle, task, mesh, mic, streams, call, inputs, played, hist>>

OnCall(g) ==
    /\ Take(g, "Call")
    /\ srt' = [srt EXCEPT ![g] = @ \union {Head(events[g]).call}]
    /\ UNCHANGED <<handle, task, mesh, qos, mic, streams, waiting, slot, calls, inputs, played, hist>>

(* Mutation: the peer is forgotten, but its connection stays.               *)
Mutant_Disconnect(g, p) ==
    /\ joined' = [joined EXCEPT ![g] = @ \ {p}]
    /\ UNCHANGED <<task, present, hello, hosts>>

(* disconnect_peer of one that is not there does nothing.                   *)
Disconnect(g, p) ==
    /\ task' = [task EXCEPT ![g] = IF p \in joined[g] THEN Rejecting(p) ELSE Idle]
    /\ joined' = [joined EXCEPT ![g] = @ \ {p}]
    /\ present' = [present EXCEPT ![g] = @ \ {p}]
    /\ hello' = [hello EXCEPT ![g] = @ \ {p}]
    /\ UNCHANGED hosts

Unwanted(p) ==
    IF p \in Odd THEN config.reject ELSE p \notin hosts /\ ~config.tofu

(* handle_peer_identity: who is trusted on first use is written to the      *)
(* file; who is not wanted is disconnected.                                 *)
OnIdentity(g) ==
    /\ Take(g, "Identity")
    /\ LET p == Head(events[g]).of
       IN  IF Unwanted(p) THEN Disconnect(g, p)
           ELSE /\ hosts' = IF p \in Odd THEN hosts ELSE hosts \union {p}
                /\ UNCHANGED <<task, joined, present, hello>>
    /\ UNCHANGED <<config, runtime, born, quality, spoken, qos, mic, streams, call, inputs, played, hist>>

(* The event task itself has to find room for the PeerLeft of              *)
(* disconnect_addr, in the queue that only it empties.                      *)
PostLeft(g) ==
    /\ task[g].kind = "rejecting" /\ Room(g)
    /\ events' = [events EXCEPT ![g] = Append(@, Event("Left", task[g].of))]
    /\ task' = [task EXCEPT ![g] = Idle]
    /\ UNCHANGED <<handle, mesh, qos, mic, streams, call, inputs, played, hist>>

-----------------------------------------------------------------------------
(* The microphone and the voice task.                                       *)

(* Mutation: the microphone is not closed with the runtime.                 *)
Mutant_MicOn(g) == g <= born /\ Runs(g)

(* The VoiceRuntime is held by the runtime and by calls under way.          *)
MicOn(g) == runtime = g \/ \E w \in waiting : w.join = g

(* audio_in_callback: what finds no room is dropped.                        *)
Capture(g, active) ==
    /\ MicOn(g)
    /\ config.gate = "vad" \/ active
    /\ Input
    /\ captured' = IF Len(captured[g]) < Backlog
                   THEN [captured EXCEPT ![g] = Append(@, active)] ELSE captured
    /\ UNCHANGED <<handle, task, mesh, events, qos, muted, ptt, voice, streams, call, played, hist>>

(* The frames sent after the last active one: the hangover after a frame.   *)
HangAfter(hang, active) ==
    IF active THEN Hangover ELSE IF hang > 0 THEN hang - 1 ELSE 0

(* Mutation: push to talk opens the gate although the microphone is muted.  *)
Mutant_Open == config.gate = "ptt" => ptt

Open == (config.gate = "ptt" => ptt) /\ ~muted

(* The gates, looked at once for each frame.                                *)
TakeFrame(g) ==
    /\ ~voice[g].hand /\ captured[g] # <<>>
    /\ captured' = [captured EXCEPT ![g] = Tail(@)]
    /\ LET hang == HangAfter(voice[g].hang, Head(captured[g]))
       IN  voice' = [voice EXCEPT ![g] =
              IF ~Open THEN @
              ELSE IF config.gate = "vad" THEN [hang |-> hang, hand |-> Head(captured[g]) \/ hang > 0]
              ELSE [@ EXCEPT !.hand = TRUE]]
    /\ UNCHANGED <<handle, task, mesh, events, qos, muted, ptt, streams, call, inputs, played, hist>>

(* The frame has been encoded: it goes to the channel of a call, if there   *)
(* is one, and otherwise to the mesh of the join.                           *)
SendFrame(g) ==
    /\ voice[g].hand
    /\ voice' = [voice EXCEPT ![g].hand = FALSE]
    /\ hist' = [hist EXCEPT ![g].muted = IF muted THEN @ + 1 ELSE @,
                            ![g].left = IF runtime # g THEN @ + 1 ELSE @]
    /\ UNCHANGED <<handle, task, mesh, events, qos, muted, ptt, captured, streams, call, inputs, played>>

SetMute(m) ==
    /\ m # muted
    /\ Input
    /\ muted' = m
    /\ hist' = [g \in Join |-> [hist[g] EXCEPT !.muted = 0]]
    /\ UNCHANGED <<handle, task, mesh, events, qos, ptt, captured, voice, streams, call, played>>

SetPtt(on) ==
    /\ on # ptt
    /\ Input
    /\ ptt' = on
    /\ UNCHANGED <<handle, task, mesh, events, qos, muted, captured, voice, streams, call, played, hist>>

-----------------------------------------------------------------------------
(* The mixer and the playback thread.                                       *)

Ready(s) == s.queue # <<>> /\ (s.filling => Len(s.queue) >= Prebuffer)

(* Mutation: a stream is removed without regard to what it still holds.     *)
Mutant_Drained(s) == NoStream

Drained(s) ==
    IF Len(s.queue) = 1 THEN NoStream
    ELSE [queue |-> Tail(s.queue), filling |-> FALSE]

(* mix_next_with_activity, one frame of every stream that is ready.  When   *)
(* none is, the last mix is repeated for a while, which is left out.        *)
Play(g) ==
    /\ \E p \in Peer : Ready(streams[g][p])
    /\ streams' = [streams EXCEPT ![g] = [p \in Peer |->
          IF Ready(@[p]) THEN Drained(@[p]) ELSE @[p]]]
    /\ played' = [played EXCEPT ![g] = [p \in Peer |->
          IF Ready(streams[g][p]) THEN Append(@[p], Head(streams[g][p].queue)) ELSE @[p]]]
    /\ UNCHANGED <<handle, task, mesh, events, qos, mic, call, inputs, hist>>

-----------------------------------------------------------------------------
(* Calls with an SRT.  Other calls do not touch the state of the SDK.       *)

Wait(c) == [join |-> runtime, call |-> c]

Begins(c) ==
    /\ waiting' = waiting \union {Wait(c)}
    /\ hist' = [hist EXCEPT ![runtime].over = FALSE]

StartCall ==
    /\ runtime # None /\ calls < MaxCalls
    /\ Input
    /\ calls' = calls + 1
    /\ Begins(calls + 1)
    /\ UNCHANGED <<handle, task, mesh, events, qos, mic, streams, srt, slot, played>>

(* The URI is taken before the mesh is asked, which may refuse.             *)
AcceptCall(c) ==
    /\ runtime # None /\ c \in srt[runtime]
    /\ Input
    /\ srt' = [srt EXCEPT ![runtime] = @ \ {c}]
    /\ Begins(c) \/ UNCHANGED <<waiting, hist>>
    /\ UNCHANGED <<handle, task, mesh, events, qos, mic, streams, slot, calls, played>>

DeclineCall(c) ==
    /\ runtime # None /\ c \in srt[runtime]
    /\ Input
    /\ srt' = [srt EXCEPT ![runtime] = @ \ {c}]
    /\ UNCHANGED <<handle, task, mesh, events, qos, mic, streams, waiting, slot, calls, played, hist>>

(* connect or accept returns; a channel is stored, by whom ever it is found *)
(* there.                                                                   *)
RendezvousEnds(w) ==
    /\ w \in waiting
    /\ waiting' = waiting \ {w}
    /\ slot' = [slot EXCEPT ![w.join] = w.call] \/ UNCHANGED slot
    /\ UNCHANGED <<handle, task, mesh, events, qos, mic, streams, srt, calls, inputs, played, hist>>

(* Mutation: the channel of the call is forgotten nowhere.                  *)
Mutant_Cleared(g) == slot

(* clear_rndzv_channel *)
Cleared(g) == [slot EXCEPT ![g] = None]

(* The user ends a call, whichever has its channel stored.                  *)
EndCall ==
    /\ runtime # None /\ calls > 0
    /\ Input
    /\ slot' = Cleared(runtime)
    /\ hist' = [hist EXCEPT ![runtime].over = ~\E w \in waiting : w.join = runtime]
    /\ UNCHANGED <<handle, task, mesh, events, qos, mic, streams, srt, waiting, calls, played>>

-----------------------------------------------------------------------------
Next ==
    \/ JoinChannel
    \/ JoinFails
    \/ LeaveChannel
    \/ StartCall
    \/ EndCall
    \/ \E m \in BOOLEAN : SetMute(m)
    \/ \E on \in BOOLEAN : SetPtt(on)
    \/ \E c \in Call : AcceptCall(c)
    \/ \E c \in Call : DeclineCall(c)
    \/ \E w \in waiting : RendezvousEnds(w)
    \/ \E p \in Peer : \E q \in {"good", "fair", "bad"} : LinkChanges(p, q)
    \/ \E g \in Join : \E p \in Peer :
          \/ PeerJoins(g, p)
          \/ HelloArrives(g, p)
          \/ PeerVanishes(g, p)
          \/ PeerSpeaks(g, p)
          \/ StatsArrive(g, p)
    \/ \E g \in Join :
          \/ CallComes(g)
          \/ Cool(g)
          \/ OnNotice(g)
          \/ OnVoice(g)
          \/ OnStats(g)
          \/ OnCall(g)
          \/ OnIdentity(g)
          \/ PostLeft(g)
          \/ \E active \in BOOLEAN : Capture(g, active)
          \/ TakeFrame(g)
          \/ SendFrame(g)
          \/ Play(g)

Spec == Init /\ [][Next]_vars

(* What goes on by itself as long as there is something to do.              *)
Work(g) ==
    \/ OnNotice(g) \/ OnVoice(g) \/ OnStats(g) \/ OnCall(g) \/ OnIdentity(g) \/ PostLeft(g)
    \/ Cool(g)
    \/ \E p \in Peer : HelloArrives(g, p) \/ StatsArrive(g, p)

(* The event task runs, time passes, a Hello that was sent arrives and the  *)
(* reports go on, each join by itself.  None of it can go on for ever.      *)
Fairness == \A g \in Join : WF_vars(Work(g))

FairSpec == Spec /\ Fairness

-----------------------------------------------------------------------------
(* Properties.                                                              *)

(* Once the microphone is muted, each voice task lets at most the one frame *)
(* out that had passed the gate.                                            *)
MuteIsPrompt == \A g \in Join : hist[g].muted <= 1

(* Of a channel that was left, only what was captured before is still sent: *)
(* a full queue and a frame in the voice task.  A rendezvous that was under *)
(* way keeps the microphone open until it ends.                             *)
LeaveIsPrompt ==
    \A g \in Join : hist[g].left <= Backlog + 1 \/ hist[g].held

(* Where a queue of events has voice of p.                                  *)
VoicesOf(q, p) == {i \in 1..Len(q) : q[i].kind = "Voice" /\ q[i].of = p}

(* Whatever the speakers of a join have played of a peer, what waits in the *)
(* mixer and what waits for the event task are together all that the peer   *)
(* has said in it, in order and once.                                       *)
HeardInOrder ==
    \A g \in Join : \A p \in Peer :
        LET coming == VoicesOf(events[g], p)
        IN  \E n \in 0..spoken[g][p] :
              /\ played[g][p] \o streams[g][p].queue = [i \in 1..n |-> i]
              /\ {events[g][i].frame : i \in coming} = (n + 1)..spoken[g][p]
              /\ \A i, j \in coming : i < j => events[g][i].frame < events[g][j].frame

(* Once a call has been ended with no rendezvous under way, the voice goes  *)
(* to the channel until another one begins.                                 *)
EndedMeansBack == \A g \in Join : hist[g].over => slot[g] = None

(* The event task waits for room in the queue that only it empties.         *)
Stuck(g) == task[g].kind = "rejecting" /\ ~Room(g)

(* A peer that is not trusted, or does not have the key it should have and  *)
(* that is a reason, does not stay connected, unless it was gone before it  *)
(* said who it is, or the event task has come to wait for itself.           *)
UnwantedLeave ==
    []<>(\A g \in Join : \A p \in present[g] : Runs(g) /\ Unwanted(p) => Stuck(g))

(* All that the tuning looks at is well, peers that have gone included.     *)
Healthy(g) ==
    /\ Runs(g) /\ present[g] # {} /\ ~Stuck(g)
    /\ \A p \in present[g] : quality[p] = "good"
    /\ \A p \in Peer \ present[g] : qos[g].seen[p] \in {"none", "good"}

(* Once every link stays good, the bitrate comes to be what the profile     *)
(* allows, and forward error correction is switched off.                    *)
TuningRecovers ==
    []<>(\A g \in Join :
            Healthy(g) => qos[g].rate = Bounded(MaxRate) /\ ~qos[g].fec)
=============================================================================
