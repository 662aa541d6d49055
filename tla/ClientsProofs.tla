--------------------------- MODULE ClientsProofs ---------------------------
(***************************************************************************)
(* What the clients show and play to their users, for every set of peers   *)
(* and browsers and all bounds.                                            *)
(*                                                                         *)
(* Client, the terminal client: its variables keep their types; once muted *)
(* it sends no voice, once a call has ended the channel's session is back, *)
(* once the channel is left nothing more goes out to it, and each sender's *)
(* voice is played in order.                                               *)
(* WebChat, the clients in a browser: all who are in a room are shown one  *)
(* conversation.                                                           *)
(***************************************************************************)
EXTENDS Client, WebChat, SequenceTheorems, TLAPS

(* Types of what these properties are about.                                *)
History == [muted : Nat, left : Nat, held : BOOLEAN, over : BOOLEAN]
Hand    == [hang : Nat, hand : BOOLEAN]

JoinNumbers ==
    /\ born \in 0..MaxJoins /\ runtime \in 0..born
    /\ calls \in Nat

Types ==
    /\ JoinNumbers
    /\ captured \in [Join -> Seq(BOOLEAN)]
    /\ voice \in [Join -> Hand]
    /\ waiting \subseteq [join : Join, call : Nat]
    /\ slot \in [Join -> Nat]
    /\ hist \in [Join -> History]

(* A frame sent since the microphone was muted was the one in hand.         *)
MuteInv ==
    \A g \in Join :
        hist[g].muted = 0 \/ (hist[g].muted = 1 /\ muted /\ ~voice[g].hand)

(* No rendezvous is under way that could store a channel.                   *)
EndInv ==
    \A g \in Join :
        hist[g].over => slot[g] = None /\ \A w \in waiting : w.join # g

InHand(g) == IF voice[g].hand THEN 1 ELSE 0

(* A join that has not begun has nothing.                                   *)
Unborn(g) ==
    /\ hist[g].left = 0 /\ Len(captured[g]) = 0 /\ ~voice[g].hand
    /\ \A w \in waiting : w.join # g

(* What a left channel has sent and can still send, and nothing refills it. *)
Spent(g) ==
    /\ hist[g].left + Len(captured[g]) + InHand(g) <= Backlog + 1
    /\ \A w \in waiting : w.join # g

LeaveInv ==
    \A g \in Join :
        /\ Len(captured[g]) <= Backlog
        /\ g > born => Unborn(g)
        /\ runtime = g => hist[g].left = 0
        /\ runtime # g => hist[g].held \/ Spent(g)

-----------------------------------------------------------------------------
(* The steps that concern these variables; every other leaves them alone    *)
(* but may count a call.                                                    *)
Rest == <<runtime, born, muted, captured, voice, waiting, slot, hist>>

Quiet == UNCHANGED Rest /\ calls' \in {calls, calls + 1}

Loud ==
    \/ JoinChannel \/ JoinFails \/ LeaveChannel \/ StartCall \/ EndCall
    \/ \E m \in BOOLEAN : SetMute(m)
    \/ \E c \in Call : AcceptCall(c)
    \/ \E w \in waiting : RendezvousEnds(w)
    \/ \E g \in Join : \E active \in BOOLEAN : Capture(g, active)
    \/ \E g \in Join : TakeFrame(g) \/ SendFrame(g)

LEMMA Steps ==
    ASSUME [Next]_vars PROVE Loud \/ Quiet
<1>1. CASE UNCHANGED vars
  BY <1>1 DEF Quiet, Rest, vars, handle, mesh, mic, call
<1>2. CASE \E on \in BOOLEAN : SetPtt(on)
  BY <1>2 DEF SetPtt, Quiet, Rest, handle, mesh, mic, call
<1>3. CASE \E c \in Call : DeclineCall(c)
  BY <1>3 DEF DeclineCall, Quiet, Rest, handle, mesh, mic, call
<1>4. CASE \E p \in Peer : \E q \in {"good", "fair", "bad"} : LinkChanges(p, q)
  BY <1>4 DEF LinkChanges, Quiet, Rest, handle, mesh, mic, call
<1>5. ASSUME NEW g \in Join, NEW p \in Peer,
             \/ PeerJoins(g, p) \/ HelloArrives(g, p) \/ PeerVanishes(g, p)
             \/ PeerSpeaks(g, p) \/ StatsArrive(g, p)
      PROVE  Quiet
  <2>1. UNCHANGED <<handle, mic, call, hist>>
    BY <1>5 DEF PeerJoins, HelloArrives, PeerVanishes, PeerSpeaks, StatsArrive
  <2>2. QED
    BY <2>1 DEF Quiet, Rest, handle, mic, call
<1>6. ASSUME NEW g \in Join, CallComes(g)
      PROVE  Quiet
  BY <1>6 DEF CallComes, Quiet, Rest, handle, mic
<1>7. ASSUME NEW g \in Join, OnCall(g)
      PROVE  Quiet
  BY <1>7 DEF OnCall, Quiet, Rest, handle, mic
<1>8. ASSUME NEW g \in Join, OnIdentity(g)
      PROVE  Quiet
  BY <1>8 DEF OnIdentity, Quiet, Rest, mic, call
<1>9. ASSUME NEW g \in Join,
             Cool(g) \/ OnNotice(g) \/ OnVoice(g) \/ OnStats(g) \/ PostLeft(g) \/ Play(g)
      PROVE  Quiet
  <2>1. UNCHANGED <<handle, mic, call, hist>>
    BY <1>9 DEF Cool, OnNotice, OnVoice, OnStats, PostLeft, Play
  <2>2. QED
    BY <2>1 DEF Quiet, Rest, handle, mic, call
<1>10. QED
  BY <1>1, <1>2, <1>3, <1>4, <1>5, <1>6, <1>7, <1>8, <1>9 DEF Loud, Next

-----------------------------------------------------------------------------
(* Types.                                                                   *)

LEMMA HeadType ==
    ASSUME NEW S, NEW s \in Seq(S), s # <<>> PROVE Head(s) \in S
OBVIOUS

LEMMA TailType ==
    ASSUME NEW S, NEW s \in Seq(S), s # <<>>
    PROVE  Tail(s) \in Seq(S) /\ Len(Tail(s)) = Len(s) - 1 /\ Len(s) > 0
OBVIOUS

LEMMA HangType ==
    ASSUME NEW hang \in Nat, NEW active PROVE HangAfter(hang, active) \in Nat
<1>1. Hangover \in Nat
  BY ClientAssumption
<1>2. CASE active
  BY <1>1, <1>2 DEF HangAfter
<1>3. CASE ~active
  BY <1>3 DEF HangAfter
<1>4. QED
  BY <1>2, <1>3

LEMMA HistoryUpdate ==
    ASSUME NEW h \in [Join -> History], NEW g \in Join, NEW a \in Nat, NEW b \in Nat
    PROVE  [h EXCEPT ![g].muted = a, ![g].left = b] \in [Join -> History]
<1>1. [h EXCEPT ![g].muted = a] \in [Join -> History]
  BY DEF History
<1>2. QED
  BY <1>1 DEF History

LEMMA JoinType == Join = 1..MaxJoins /\ MaxJoins \in Nat /\ None = 0
BY ClientAssumption DEF Join, None

LEMMA TypesInit == Init => Types
<1> SUFFICES ASSUME Init PROVE Types
  OBVIOUS
<1>1. JoinNumbers
  <2>1. runtime = 0 /\ born = 0 /\ calls = 0
    BY DEF Init, None
  <2>2. QED
    BY <2>1, JoinType DEF JoinNumbers
<1>2. captured \in [Join -> Seq(BOOLEAN)]
  BY DEF Init
<1>3. voice \in [Join -> Hand] /\ slot \in [Join -> Nat]
  BY DEF Init, Silent, Hand, None
<1>4. hist \in [Join -> History]
  BY DEF Init, History
<1>5. waiting = {}
  BY DEF Init
<1>6. QED
  BY <1>1, <1>2, <1>3, <1>4, <1>5 DEF Types

LEMMA TypesStep ==
    ASSUME Types, [Next]_vars PROVE Types'
<1>0. /\ JoinNumbers
      /\ captured \in [Join -> Seq(BOOLEAN)]
      /\ voice \in [Join -> Hand]
      /\ waiting \subseteq [join : Join, call : Nat]
      /\ slot \in [Join -> Nat]
      /\ hist \in [Join -> History]
  BY DEF Types
<1>a. runtime # None => runtime \in Join
  BY <1>0, JoinType DEF JoinNumbers
<1>1. CASE Quiet
  <2>1. JoinNumbers'
    BY <1>0, <1>1, JoinType DEF JoinNumbers, Quiet, Rest
  <2>2. QED
    BY <1>0, <1>1, <2>1 DEF Quiet, Rest, Types
<1>2. CASE JoinChannel \/ JoinFails
  <2>1. /\ born < MaxJoins /\ runtime = None /\ born' = born + 1
        /\ runtime' \in {None, born + 1}
        /\ UNCHANGED <<mic, call, hist>>
    BY <1>2 DEF JoinChannel, JoinFails, StartMesh
  <2>2. JoinNumbers'
    BY <1>0, <2>1, JoinType DEF JoinNumbers, call
  <2>3. QED
    BY <1>0, <2>1, <2>2 DEF Types, mic, call
<1>3. CASE LeaveChannel
  <2>1. hist' \in [Join -> History]
    BY <1>0, <1>3 DEF LeaveChannel, History
  <2>2. JoinNumbers'
    BY <1>0, <1>3, JoinType DEF JoinNumbers, LeaveChannel, call
  <2>3. QED
    BY <1>0, <1>3, <2>1, <2>2 DEF LeaveChannel, Types, mic, call
<1>4. CASE StartCall
  <2>1. /\ calls' = calls + 1 /\ runtime # None /\ Begins(calls + 1)
        /\ UNCHANGED <<handle, mic, slot>>
    BY <1>4 DEF StartCall
  <2>2. Wait(calls + 1) \in [join : Join, call : Nat]
    BY <1>0, <1>a, <2>1 DEF Wait, JoinNumbers
  <2>3. /\ waiting' \subseteq [join : Join, call : Nat]
        /\ hist' \in [Join -> History]
    BY <1>0, <2>1, <2>2 DEF Begins, History
  <2>4. JoinNumbers'
    BY <1>0, <2>1 DEF JoinNumbers, handle
  <2>5. QED
    BY <1>0, <2>1, <2>3, <2>4 DEF Types, mic
<1>5. CASE EndCall
  <2>1. slot' \in [Join -> Nat]
    BY <1>0, <1>5, JoinType DEF EndCall, Cleared
  <2>2. hist' \in [Join -> History]
    BY <1>0, <1>5 DEF EndCall, History
  <2>3. JoinNumbers'
    BY <1>0, <1>5 DEF EndCall, JoinNumbers, handle
  <2>4. QED
    BY <1>0, <1>5, <2>1, <2>2, <2>3 DEF EndCall, Types, mic
<1>6. ASSUME NEW m \in BOOLEAN, SetMute(m) PROVE Types'
  <2>1. hist' \in [Join -> History]
    <3>1. \A g \in Join : [hist[g] EXCEPT !.muted = 0] \in History
      BY <1>0 DEF History
    <3>2. QED
      BY <1>6, <3>1 DEF SetMute
  <2>2. JoinNumbers'
    BY <1>0, <1>6 DEF SetMute, JoinNumbers, handle, call
  <2>3. QED
    BY <1>0, <1>6, <2>1, <2>2 DEF SetMute, Types, call
<1>7. ASSUME NEW c \in Call, AcceptCall(c) PROVE Types'
  <2>1. /\ runtime # None
        /\ Begins(c) \/ UNCHANGED <<waiting, hist>>
        /\ UNCHANGED <<handle, mic, slot, calls>>
    BY <1>7 DEF AcceptCall
  <2>2. Wait(c) \in [join : Join, call : Nat]
    BY <1>a, <2>1 DEF Wait, Call
  <2>3. /\ waiting' \subseteq [join : Join, call : Nat]
        /\ hist' \in [Join -> History]
    <3>1. CASE Begins(c)
      BY <1>0, <2>1, <2>2, <3>1 DEF Begins, History
    <3>2. CASE UNCHANGED <<waiting, hist>>
      BY <1>0, <3>2
    <3>3. QED
      BY <2>1, <3>1, <3>2
  <2>4. JoinNumbers'
    BY <1>0, <2>1 DEF JoinNumbers, handle
  <2>5. QED
    BY <1>0, <2>1, <2>3, <2>4 DEF Types, mic
<1>8. ASSUME NEW w \in waiting, RendezvousEnds(w) PROVE Types'
  <2>1. waiting' \subseteq [join : Join, call : Nat]
    BY <1>0, <1>8 DEF RendezvousEnds
  <2>2. slot' \in [Join -> Nat]
    BY <1>0, <1>8 DEF RendezvousEnds
  <2>3. JoinNumbers'
    BY <1>0, <1>8 DEF RendezvousEnds, JoinNumbers, handle
  <2>4. QED
    BY <1>0, <1>8, <2>1, <2>2, <2>3 DEF RendezvousEnds, Types, mic
<1>9. ASSUME NEW g \in Join, NEW active \in BOOLEAN, Capture(g, active) PROVE Types'
  <2>1. captured' \in [Join -> Seq(BOOLEAN)]
    BY <1>0, <1>9 DEF Capture
  <2>2. JoinNumbers'
    BY <1>0, <1>9 DEF Capture, JoinNumbers, handle, call
  <2>3. QED
    BY <1>0, <1>9, <2>1, <2>2 DEF Capture, Types, call
<1>10. ASSUME NEW g \in Join, TakeFrame(g) PROVE Types'
  <2>1. captured[g] \in Seq(BOOLEAN) /\ captured[g] # <<>>
    BY <1>0, <1>10 DEF TakeFrame
  <2>2. Head(captured[g]) \in BOOLEAN
    BY <2>1, HeadType
  <2>3. Tail(captured[g]) \in Seq(BOOLEAN)
    BY <2>1, TailType
  <2>4. captured' \in [Join -> Seq(BOOLEAN)]
    BY <1>0, <1>10, <2>3 DEF TakeFrame
  <2>5. voice[g].hang \in Nat /\ voice[g].hand \in BOOLEAN
    BY <1>0 DEF Hand
  <2>6. HangAfter(voice[g].hang, Head(captured[g])) \in Nat
    BY <2>5, HangType
  <2>7. voice' \in [Join -> Hand]
    <3> DEFINE hang == HangAfter(voice[g].hang, Head(captured[g]))
               hand == Head(captured[g]) \/ hang > 0
    <3>1. \/ voice' = [voice EXCEPT ![g] = voice[g]]
          \/ voice' = [voice EXCEPT ![g] = [hang |-> hang, hand |-> hand]]
          \/ voice' = [voice EXCEPT ![g] = [voice[g] EXCEPT !.hand = TRUE]]
      BY <1>10 DEF TakeFrame
    <3>2. [hang |-> hang, hand |-> hand] \in Hand
      BY <2>6 DEF Hand
    <3>3. [voice[g] EXCEPT !.hand = TRUE] \in Hand
      BY <1>0 DEF Hand
    <3> HIDE DEF hang, hand
    <3>4. QED
      BY <1>0, <3>1, <3>2, <3>3
  <2>8. JoinNumbers'
    BY <1>0, <1>10 DEF TakeFrame, JoinNumbers, handle, call
  <2>9. QED
    BY <1>0, <1>10, <2>4, <2>7, <2>8 DEF TakeFrame, Types, call
<1>11. ASSUME NEW g \in Join, SendFrame(g) PROVE Types'
  <2>1. voice' \in [Join -> Hand]
    BY <1>0, <1>11 DEF SendFrame, Hand
  <2>2. PICK a \in Nat, b \in Nat : hist' = [hist EXCEPT ![g].muted = a, ![g].left = b]
    <3>1. hist[g].muted \in Nat /\ hist[g].left \in Nat
      BY <1>0 DEF History
    <3>2. PICK a \in Nat : a = IF muted THEN hist[g].muted + 1 ELSE hist[g].muted
      BY <3>1
    <3>3. PICK b \in Nat : b = IF runtime # g THEN hist[g].left + 1 ELSE hist[g].left
      BY <3>1
    <3>4. hist' = [hist EXCEPT ![g].muted = a, ![g].left = b]
      BY <1>0, <1>11, <3>2, <3>3 DEF SendFrame, History
    <3>5. QED
      BY <3>4
  <2>3. hist' \in [Join -> History]
    BY <1>0, <2>2, HistoryUpdate
  <2>4. JoinNumbers'
    BY <1>0, <1>11 DEF SendFrame, JoinNumbers, handle, call
  <2>5. QED
    BY <1>0, <1>11, <2>1, <2>3, <2>4 DEF SendFrame, Types, call
<1>12. QED
  BY <1>1, <1>2, <1>3, <1>4, <1>5, <1>6, <1>7, <1>8, <1>9, <1>10, <1>11, Steps DEF Loud

(* The types hold in every behaviour of a device.                           *)
THEOREM TypeCorrect == Spec => []Types
<1>1. Types /\ [Next]_vars => Types'
  BY TypesStep
<1>2. QED
  BY <1>1, TypesInit, PTL DEF Spec

-----------------------------------------------------------------------------
(* Mute.                                                                    *)

LEMMA MuteInit == Init => MuteInv
BY DEF Init, MuteInv

LEMMA MuteStep ==
    ASSUME Types, MuteInv, [Next]_vars PROVE MuteInv'
<1>0. /\ voice \in [Join -> Hand]
      /\ hist \in [Join -> History]
  BY DEF Types
<1> SUFFICES ASSUME NEW g \in Join
             PROVE  hist'[g].muted = 0 \/ (hist'[g].muted = 1 /\ muted' /\ ~voice'[g].hand)
  BY DEF MuteInv
<1>a. hist[g].muted = 0 \/ (hist[g].muted = 1 /\ muted /\ ~voice[g].hand)
  BY DEF MuteInv
<1>1. CASE UNCHANGED <<muted, voice>> /\ hist'[g].muted = hist[g].muted
  BY <1>a, <1>1
<1>2. CASE Quiet \/ JoinChannel \/ JoinFails
  <2>1. UNCHANGED <<muted, voice, hist>>
    BY <1>2 DEF Quiet, Rest, JoinChannel, JoinFails, mic
  <2>2. QED
    BY <2>1, <1>1
<1>3. CASE LeaveChannel \/ EndCall
  <2>1. hist'[g].muted = hist[g].muted
    BY <1>0, <1>3 DEF LeaveChannel, EndCall, History
  <2>2. UNCHANGED <<muted, voice>>
    BY <1>3 DEF LeaveChannel, EndCall, mic
  <2>3. QED
    BY <2>1, <2>2, <1>1
<1>4. ASSUME NEW c, Begins(c) \/ UNCHANGED <<waiting, hist>>, UNCHANGED mic
      PROVE  UNCHANGED <<muted, voice>> /\ hist'[g].muted = hist[g].muted
  BY <1>0, <1>4 DEF Begins, mic, History
<1>5. CASE StartCall
  BY <1>1, <1>4, <1>5 DEF StartCall
<1>6. CASE \E c \in Call : AcceptCall(c)
  BY <1>1, <1>4, <1>6 DEF AcceptCall
<1>7. CASE \E w \in waiting : RendezvousEnds(w)
  BY <1>1, <1>7 DEF RendezvousEnds, mic
<1>8. CASE \E h \in Join : \E active \in BOOLEAN : Capture(h, active)
  BY <1>1, <1>8 DEF Capture
<1>9. CASE \E m \in BOOLEAN : SetMute(m)
  BY <1>0, <1>9 DEF SetMute, History
<1>10. ASSUME NEW h \in Join, TakeFrame(h)
       PROVE  hist'[g].muted = 0 \/ (hist'[g].muted = 1 /\ muted' /\ ~voice'[g].hand)
  <2>1. UNCHANGED <<muted, hist>>
    BY <1>10 DEF TakeFrame
  <2>2. CASE hist[g].muted = 0
    BY <2>1, <2>2
  <2>3. CASE muted
    <3>1. ~Open
      BY <2>3 DEF Open
    <3>2. voice' = [voice EXCEPT ![h] = voice[h]]
      BY <1>10, <3>1 DEF TakeFrame
    <3>3. QED
      BY <1>0, <1>a, <2>1, <3>2
  <2>4. QED
    BY <1>a, <2>2, <2>3
<1>11. ASSUME NEW h \in Join, SendFrame(h)
       PROVE  hist'[g].muted = 0 \/ (hist'[g].muted = 1 /\ muted' /\ ~voice'[g].hand)
  <2>1. muted' = muted /\ voice' = [voice EXCEPT ![h].hand = FALSE] /\ voice[h].hand
    BY <1>11 DEF SendFrame
  <2>2. hist'[g].muted = IF g = h /\ muted THEN hist[g].muted + 1 ELSE hist[g].muted
    BY <1>0, <1>11 DEF SendFrame, History
  <2>3. CASE g = h
    <3>1. ~voice'[g].hand /\ voice[g].hand
      BY <1>0, <2>1, <2>3 DEF Hand
    <3>2. QED
      BY <1>a, <2>1, <2>2, <3>1
  <2>4. CASE g # h
    <3>1. voice'[g] = voice[g]
      BY <1>0, <2>1, <2>4
    <3>2. QED
      BY <1>a, <2>1, <2>2, <2>4, <3>1
  <2>5. QED
    BY <2>3, <2>4
<1>12. QED
  BY <1>2, <1>3, <1>5, <1>6, <1>7, <1>8, <1>9, <1>10, <1>11, Steps DEF Loud

(* Whatever the microphone has captured and whichever gate the voice goes   *)
(* through, a muted device lets at most one frame out, of each join.        *)
THEOREM MuteHolds == Spec => []MuteIsPrompt
<1>1. Types /\ MuteInv /\ [Next]_vars => MuteInv'
  BY MuteStep
<1>2. MuteInv => MuteIsPrompt
  BY DEF MuteInv, MuteIsPrompt
<1>3. QED
  BY <1>1, <1>2, MuteInit, TypeCorrect, PTL DEF Spec

-----------------------------------------------------------------------------
(* The end of a call.                                                       *)

LEMMA EndInit == Init => EndInv
BY DEF Init, EndInv, None

LEMMA EndStep ==
    ASSUME Types, EndInv, [Next]_vars PROVE EndInv'
<1>0. /\ waiting \subseteq [join : Join, call : Nat]
      /\ slot \in [Join -> Nat]
      /\ hist \in [Join -> History]
  BY DEF Types
<1> SUFFICES ASSUME NEW g \in Join, hist'[g].over
             PROVE  slot'[g] = None /\ \A w \in waiting' : w.join # g
  BY DEF EndInv
<1>a. hist[g].over => slot[g] = None /\ \A w \in waiting : w.join # g
  BY DEF EndInv
<1>1. CASE hist'[g].over = hist[g].over /\ UNCHANGED <<slot, waiting>>
  BY <1>a, <1>1
<1>2. CASE Quiet \/ JoinChannel \/ JoinFails
  <2>1. UNCHANGED <<slot, waiting, hist>>
    BY <1>2 DEF Quiet, Rest, JoinChannel, JoinFails, call
  <2>2. QED
    BY <1>1, <2>1
<1>3. CASE LeaveChannel
  <2>1. hist'[g].over = hist[g].over
    BY <1>0, <1>3 DEF LeaveChannel, History
  <2>2. QED
    BY <1>1, <1>3, <2>1 DEF LeaveChannel, call
<1>4. ASSUME NEW c, Begins(c), slot' = slot
      PROVE  slot'[g] = None /\ \A w \in waiting' : w.join # g
  <2>1. g # runtime /\ hist'[g].over = hist[g].over
    BY <1>0, <1>4 DEF Begins, History
  <2>2. \A w \in waiting' : w \in waiting \/ w.join = runtime
    BY <1>4 DEF Begins, Wait
  <2>3. QED
    BY <1>4, <1>a, <2>1, <2>2
<1>5. CASE StartCall
  BY <1>4, <1>5 DEF StartCall
<1>6. CASE \E c \in Call : AcceptCall(c)
  BY <1>1, <1>4, <1>6 DEF AcceptCall
<1>7. ASSUME NEW v \in waiting, RendezvousEnds(v)
      PROVE  slot'[g] = None /\ \A w \in waiting' : w.join # g
  <2>1. /\ hist' = hist /\ waiting' \subseteq waiting
        /\ slot' = [slot EXCEPT ![v.join] = v.call] \/ slot' = slot
    BY <1>7 DEF RendezvousEnds
  <2>2. v.join # g
    BY <1>a, <2>1
  <2>3. slot'[g] = slot[g]
    BY <1>0, <2>1, <2>2
  <2>4. QED
    BY <1>a, <2>1, <2>3
<1>8. CASE EndCall
  <2>1. /\ slot' = Cleared(runtime) /\ waiting' = waiting
        /\ hist' = [hist EXCEPT ![runtime].over = ~\E w \in waiting : w.join = runtime]
    BY <1>8 DEF EndCall
  <2>2. CASE g = runtime
    <3>1. slot'[g] = None
      BY <1>0, <2>1, <2>2 DEF Cleared
    <3>2. hist'[g].over = ~\E w \in waiting : w.join = runtime
      BY <1>0, <2>1, <2>2 DEF History
    <3>3. QED
      BY <2>1, <2>2, <3>1, <3>2
  <2>3. CASE g # runtime
    <3>1. hist'[g].over = hist[g].over /\ slot'[g] = slot[g]
      BY <1>0, <2>1, <2>3 DEF History, Cleared
    <3>2. QED
      BY <1>a, <2>1, <3>1
  <2>4. QED
    BY <2>2, <2>3
<1>9. CASE \E m \in BOOLEAN : SetMute(m)
  <2>1. hist'[g] = [hist[g] EXCEPT !.muted = 0] /\ hist[g] \in History
    BY <1>0, <1>9 DEF SetMute
  <2>2. hist'[g].over = hist[g].over
    BY <2>1 DEF History
  <2>3. QED
    BY <1>1, <1>9, <2>2 DEF SetMute, call
<1>10. CASE \E h \in Join : \E active \in BOOLEAN : Capture(h, active)
  BY <1>1, <1>10 DEF Capture, call
<1>11. CASE \E h \in Join : TakeFrame(h)
  BY <1>1, <1>11 DEF TakeFrame, call
<1>12. ASSUME NEW h \in Join, SendFrame(h)
       PROVE  hist'[g].over = hist[g].over /\ UNCHANGED <<slot, waiting>>
  BY <1>0, <1>12 DEF SendFrame, History, call
<1>13. QED
  BY <1>1, <1>2, <1>3, <1>5, <1>6, <1>7, <1>8, <1>9, <1>10, <1>11, <1>12, Steps DEF Loud

(* A call that was ended with no rendezvous under way leaves no channel     *)
(* behind that the voice would go to instead of the mesh.  A rendezvous     *)
(* that is under way at the end stores its channel afterwards, and then     *)
(* nothing is claimed.                                                      *)
THEOREM EndHolds == Spec => []EndedMeansBack
<1>1. Types /\ EndInv /\ [Next]_vars => EndInv'
  BY EndStep
<1>2. EndInv => EndedMeansBack
  BY DEF EndInv, EndedMeansBack
<1>3. QED
  BY <1>1, <1>2, EndInit, TypeCorrect, PTL DEF Spec

-----------------------------------------------------------------------------
(* Leaving.                                                                 *)

LEMMA LeaveInit == Init => LeaveInv
<1> SUFFICES ASSUME Init, NEW g \in Join
             PROVE  /\ Len(captured[g]) <= Backlog
                    /\ Unborn(g) /\ Spent(g)
                    /\ runtime = g => hist[g].left = 0
  BY DEF LeaveInv
<1>1. captured[g] = <<>> /\ ~voice[g].hand /\ hist[g].left = 0 /\ waiting = {}
  BY DEF Init, Silent
<1>2. InHand(g) = 0 /\ Len(captured[g]) = 0 /\ Backlog \in Nat
  BY <1>1, ClientAssumption DEF InHand
<1>3. QED
  BY <1>1, <1>2 DEF Unborn, Spent

(* What the invariant says of one join before a step.                       *)
LeaveOf(g) ==
    /\ Len(captured[g]) <= Backlog
    /\ g > born => Unborn(g)
    /\ runtime = g => hist[g].left = 0
    /\ runtime # g => hist[g].held \/ Spent(g)

(* A step that leaves a join its frames and its history.                    *)
LEMMA LeaveSame ==
    ASSUME NEW g \in Join, LeaveOf(g), runtime' = runtime, born' = born,
           captured'[g] = captured[g], voice'[g].hand = voice[g].hand,
           hist'[g].left = hist[g].left, hist'[g].held = hist[g].held,
           \A w \in waiting' : w \in waiting \/ (w.join = runtime /\ runtime <= born),
           born \in Nat, runtime \in Nat
    PROVE  LeaveOf(g)'
<1>1. g > born => \A w \in waiting' : w.join # g
  BY JoinType DEF LeaveOf, Unborn
<1>2. runtime # g /\ (\A w \in waiting : w.join # g) => \A w \in waiting' : w.join # g
  OBVIOUS
<1>3. g > born => Unborn(g)'
  BY <1>1 DEF LeaveOf, Unborn
<1>4. Spent(g) /\ runtime # g => Spent(g)'
  BY <1>2 DEF Spent, InHand
<1>5. QED
  BY <1>3, <1>4 DEF LeaveOf

LEMMA LeaveStep ==
    ASSUME Types, LeaveInv, [Next]_vars PROVE LeaveInv'
<1>0. /\ JoinNumbers
      /\ captured \in [Join -> Seq(BOOLEAN)]
      /\ voice \in [Join -> Hand]
      /\ waiting \subseteq [join : Join, call : Nat]
      /\ hist \in [Join -> History]
  BY DEF Types
<1> SUFFICES ASSUME NEW g \in Join PROVE LeaveOf(g)'
  BY DEF LeaveInv, LeaveOf
<1>a. LeaveOf(g)
  BY DEF LeaveInv, LeaveOf
<1>b. /\ born \in Nat /\ runtime \in Nat /\ runtime <= born /\ g \in Nat /\ g # None
      /\ Len(captured[g]) \in Nat /\ hist[g].left \in Nat /\ Backlog \in Nat
      /\ voice[g].hand \in BOOLEAN /\ InHand(g) \in 0..1
  <2>1. /\ born \in Nat /\ runtime \in Nat /\ runtime <= born /\ g \in Nat /\ g # None
    BY <1>0, JoinType DEF JoinNumbers
  <2>2. captured[g] \in Seq(BOOLEAN) /\ hist[g].left \in Nat /\ voice[g].hand \in BOOLEAN
    BY <1>0 DEF History, Hand
  <2>3. QED
    BY <2>1, <2>2, ClientAssumption DEF InHand
<1>1. CASE Quiet
  BY <1>1, <1>a, <1>b, LeaveSame DEF Quiet, Rest
<1>2. CASE JoinChannel \/ JoinFails
  <2>1. /\ runtime = None /\ born' = born + 1 /\ runtime' \in {None, born + 1}
        /\ UNCHANGED <<captured, voice, hist, waiting>>
    BY <1>2 DEF JoinChannel, JoinFails, StartMesh, mic, call
  <2>2. (g > born => Unborn(g))' /\ (runtime' = g => hist'[g].left = 0)
    BY <1>a, <1>b, <2>1 DEF LeaveOf, Unborn
  <2>3. hist'[g].held \/ Spent(g)'
    BY <1>a, <1>b, <2>1 DEF LeaveOf, Spent, InHand
  <2>4. QED
    BY <1>a, <2>1, <2>2, <2>3 DEF LeaveOf
<1>3. CASE LeaveChannel
  <2>1. /\ runtime # None /\ runtime' = None
        /\ hist' = [hist EXCEPT ![runtime].held = \E w \in waiting : w.join = runtime]
        /\ UNCHANGED <<born, captured, voice, waiting>>
    BY <1>3 DEF LeaveChannel, mic, call
  <2>2. hist'[g].left = hist[g].left
    BY <1>0, <2>1 DEF History
  <2>3. (g > born => Unborn(g))' /\ runtime' # g
    BY <1>a, <1>b, <2>1, <2>2 DEF LeaveOf, Unborn
  <2>4. CASE g = runtime
    <3>1. hist'[g].held = \E w \in waiting : w.join = g
      BY <1>0, <2>1, <2>4 DEF History
    <3>2. hist[g].left = 0 /\ Len(captured[g]) <= Backlog
      BY <1>a, <2>4 DEF LeaveOf
    <3>3. hist'[g].left + Len(captured'[g]) + InHand(g)' <= Backlog + 1
      BY <1>b, <2>1, <2>2, <3>2 DEF InHand
    <3>4. hist'[g].held \/ Spent(g)'
      BY <2>1, <3>1, <3>3 DEF Spent
    <3>5. QED
      BY <1>a, <2>1, <2>3, <3>4 DEF LeaveOf
  <2>5. CASE g # runtime
    <3>1. hist'[g].held = hist[g].held
      BY <1>0, <2>1, <2>5 DEF History
    <3>2. hist'[g].held \/ Spent(g)'
      BY <1>a, <2>1, <2>2, <2>5, <3>1 DEF LeaveOf, Spent, InHand
    <3>3. QED
      BY <1>a, <2>1, <2>3, <3>2 DEF LeaveOf
  <2>6. QED
    BY <2>4, <2>5
<1>4. ASSUME NEW c, Begins(c) \/ UNCHANGED <<waiting, hist>>, UNCHANGED <<handle, mic>>
      PROVE  LeaveOf(g)'
  <2>1. UNCHANGED <<runtime, born, captured, voice>>
    BY <1>4 DEF handle, mic
  <2>2. hist'[g].left = hist[g].left /\ hist'[g].held = hist[g].held
    <3>1. CASE UNCHANGED <<waiting, hist>>
      BY <3>1
    <3>2. CASE Begins(c)
      BY <1>0, <3>2 DEF Begins, History
    <3>3. QED
      BY <1>4, <3>1, <3>2
  <2>3. \A w \in waiting' : w \in waiting \/ w.join = runtime
    BY <1>4 DEF Begins, Wait
  <2>4. QED
    BY <1>a, <1>b, <2>1, <2>2, <2>3, LeaveSame
<1>5. CASE StartCall
  BY <1>4, <1>5 DEF StartCall
<1>6. CASE \E c \in Call : AcceptCall(c)
  BY <1>4, <1>6 DEF AcceptCall
<1>7. CASE EndCall
  <2>1. hist'[g].left = hist[g].left /\ hist'[g].held = hist[g].held
    BY <1>0, <1>7 DEF EndCall, History
  <2>2. QED
    BY <1>7, <1>a, <1>b, <2>1, LeaveSame DEF EndCall, handle, mic
<1>8. CASE \E m \in BOOLEAN : SetMute(m)
  <2>1. hist'[g].left = hist[g].left /\ hist'[g].held = hist[g].held
    BY <1>0, <1>8 DEF SetMute, History
  <2>2. QED
    BY <1>8, <1>a, <1>b, <2>1, LeaveSame DEF SetMute, handle, call
<1>9. CASE \E w \in waiting : RendezvousEnds(w)
  <2>1. waiting' \subseteq waiting /\ UNCHANGED <<handle, mic, hist>>
    BY <1>9 DEF RendezvousEnds
  <2>2. QED
    BY <1>a, <1>b, <2>1, LeaveSame DEF handle, mic
<1>10. ASSUME NEW h \in Join, NEW active \in BOOLEAN, Capture(h, active)
       PROVE  LeaveOf(g)'
  <2>1. /\ UNCHANGED <<runtime, born, voice, hist, waiting>> /\ MicOn(h)
        /\ captured' = IF Len(captured[h]) < Backlog
                       THEN [captured EXCEPT ![h] = Append(@, active)] ELSE captured
    BY <1>10 DEF Capture, handle, call
  <2>2. CASE g # h \/ ~(Len(captured[h]) < Backlog)
    <3>1. captured'[g] = captured[g]
      BY <1>0, <2>1, <2>2
    <3>2. QED
      BY <1>a, <1>b, <2>1, <3>1, LeaveSame
  <2>3. CASE g = h /\ Len(captured[h]) < Backlog
    <3>1. captured'[g] = Append(captured[g], active) /\ captured[g] \in Seq(BOOLEAN)
      BY <1>0, <2>1, <2>3
    <3>2. Len(captured'[g]) <= Backlog
      BY <1>b, <2>3, <3>1
    <3>3. runtime = g \/ ~Spent(g)
      BY <2>1, <2>3 DEF MicOn, Spent
    <3>4. ~(g > born)
      BY <1>a, <1>b, <2>1, <2>3 DEF LeaveOf, Unborn, MicOn
    <3>5. QED
      BY <1>a, <2>1, <3>2, <3>3, <3>4 DEF LeaveOf
  <2>4. QED
    BY <2>2, <2>3
<1>11. ASSUME NEW h \in Join, TakeFrame(h) PROVE LeaveOf(g)'
  <2>1. /\ UNCHANGED <<runtime, born, hist, waiting>>
        /\ ~voice[h].hand /\ captured[h] # <<>>
        /\ captured' = [captured EXCEPT ![h] = Tail(captured[h])]
    BY <1>11 DEF TakeFrame, handle, call
  <2>2. CASE g # h
    <3>1. captured'[g] = captured[g] /\ voice'[g] = voice[g]
      BY <1>0, <1>11, <2>1, <2>2 DEF TakeFrame
    <3>2. QED
      BY <1>a, <1>b, <2>1, <3>1, LeaveSame
  <2>3. CASE g = h
    <3>1. captured[g] \in Seq(BOOLEAN) /\ captured'[g] = Tail(captured[g])
      BY <1>0, <2>1, <2>3
    <3>2. Len(captured'[g]) = Len(captured[g]) - 1 /\ Len(captured[g]) > 0
      <4>1. captured[g] # <<>>
        BY <2>1, <2>3
      <4>2. QED
        BY <3>1, <4>1, TailType
    <3>3. InHand(g) = 0 /\ InHand(g)' \in 0..1
      BY <2>1, <2>3 DEF InHand
    <3>4. ~(g > born)
      BY <1>a, <3>2 DEF LeaveOf, Unborn
    <3>5. Spent(g) => Spent(g)'
      BY <1>b, <2>1, <3>2, <3>3 DEF Spent
    <3>6. Len(captured'[g]) <= Backlog
      BY <1>a, <1>b, <3>2 DEF LeaveOf
    <3>7. QED
      BY <1>a, <2>1, <3>4, <3>5, <3>6 DEF LeaveOf
  <2>4. QED
    BY <2>2, <2>3
<1>12. ASSUME NEW h \in Join, SendFrame(h) PROVE LeaveOf(g)'
  <2>1. /\ UNCHANGED <<runtime, born, captured, waiting>>
        /\ voice[h].hand /\ voice' = [voice EXCEPT ![h].hand = FALSE]
    BY <1>12 DEF SendFrame, handle, call
  <2>2. /\ hist'[g].held = hist[g].held
        /\ hist'[g].left = IF g = h /\ runtime # g THEN hist[g].left + 1 ELSE hist[g].left
    BY <1>0, <1>12 DEF SendFrame, History
  <2>3. CASE g # h
    <3>1. voice'[g] = voice[g]
      BY <1>0, <2>1, <2>3
    <3>2. QED
      BY <1>a, <1>b, <2>1, <2>2, <2>3, <3>1, LeaveSame
  <2>4. CASE g = h
    <3>1. voice[g].hand /\ ~voice'[g].hand
      BY <1>0, <2>1, <2>4 DEF Hand
    <3>2. InHand(g) = 1 /\ InHand(g)' = 0 /\ ~(g > born)
      BY <1>a, <3>1 DEF InHand, LeaveOf, Unborn
    <3>3. Spent(g) => Spent(g)'
      BY <1>b, <2>1, <2>2, <3>2 DEF Spent
    <3>4. QED
      BY <1>a, <2>1, <2>2, <3>2, <3>3 DEF LeaveOf
  <2>5. QED
    BY <2>3, <2>4
<1>13. QED
  BY <1>1, <1>2, <1>3, <1>5, <1>6, <1>7, <1>8, <1>9, <1>10, <1>11, <1>12, Steps DEF Loud

(* Unless a rendezvous was under way, at most a full queue and the frame in *)
(* hand leave the device once its user has left the channel.                *)
THEOREM LeaveHolds == Spec => []LeaveIsPrompt
<1>1. Types /\ LeaveInv /\ [Next]_vars => LeaveInv'
  BY LeaveStep
<1>2. Types /\ LeaveInv => LeaveIsPrompt
  <2> SUFFICES ASSUME Types, LeaveInv, NEW g \in Join
               PROVE  hist[g].left <= Backlog + 1 \/ hist[g].held
    BY DEF LeaveIsPrompt
  <2>1. captured[g] \in Seq(BOOLEAN) /\ hist[g].left \in Nat /\ Backlog \in Nat
    BY ClientAssumption DEF Types, History
  <2>2. Len(captured[g]) \in Nat /\ InHand(g) \in 0..1
    BY <2>1 DEF InHand
  <2>3. CASE runtime = g
    BY <2>1, <2>3 DEF LeaveInv
  <2>4. CASE runtime # g
    BY <2>1, <2>2, <2>4 DEF LeaveInv, Spent
  <2>5. QED
    BY <2>3, <2>4
<1>3. QED
  BY <1>1, <1>2, LeaveInit, TypeCorrect, PTL DEF Spec

-----------------------------------------------------------------------------
(* Voice on its way to the speakers: types.                                 *)

Quality == {"good", "fair", "bad"}

Events ==
    [kind : {"Joined", "Left", "Identity"}, of : Peer]
    \union [kind : {"Voice"}, of : Peer, frame : Nat]
    \union [kind : {"Call"}, call : Nat]
    \union [kind : {"Stats"}, of : Peer, quality : Quality]

Tasks == {NoTask, Idle} \union {Rejecting(p) : p \in Peer}

Stream == [queue : Seq(Nat), filling : BOOLEAN]

VoiceTypes ==
    /\ events \in [Join -> Seq(Events)]
    /\ task \in [Join -> Tasks]
    /\ quality \in [Peer -> Quality]
    /\ spoken \in [Join -> [Peer -> Nat]]
    /\ streams \in [Join -> [Peer -> Stream]]
    /\ played \in [Join -> [Peer -> Seq(Nat)]]

(* Lemmas on what a queue holds of p.                                       *)
Frames(q, p) == {q[i].frame : i \in VoicesOf(q, p)}

Rising(q, p) == \A i, j \in VoicesOf(q, p) : i < j => q[i].frame < q[j].frame

VoiceOf(e, p) == e.kind = "Voice" /\ e.of = p

LEMMA AppendOther ==
    ASSUME NEW q \in Seq(Events), NEW e \in Events, NEW p, ~VoiceOf(e, p)
    PROVE  /\ Frames(Append(q, e), p) = Frames(q, p)
           /\ Rising(q, p) => Rising(Append(q, e), p)
<1> DEFINE r == Append(q, e)
<1>1. /\ Len(r) = Len(q) + 1 /\ Len(q) \in Nat /\ r[Len(r)] = e
      /\ \A i \in 1..Len(q) : r[i] = q[i]
  OBVIOUS
<1> HIDE DEF r
<1>2. VoicesOf(r, p) = VoicesOf(q, p) /\ VoicesOf(q, p) \subseteq 1..Len(q)
  BY <1>1 DEF VoicesOf, VoiceOf
<1>3. Frames(r, p) = Frames(q, p)
  BY <1>1, <1>2 DEF Frames
<1>4. Rising(q, p) => Rising(r, p)
  BY <1>1, <1>2 DEF Rising
<1> QED
  BY <1>3, <1>4 DEF r

LEMMA AppendVoice ==
    ASSUME NEW q \in Seq(Events), NEW e \in Events, NEW p, VoiceOf(e, p),
           Rising(q, p), \A f \in Frames(q, p) : f < e.frame
    PROVE  /\ Frames(Append(q, e), p) = Frames(q, p) \union {e.frame}
           /\ Rising(Append(q, e), p)
<1> DEFINE r == Append(q, e)
<1>1. /\ Len(r) = Len(q) + 1 /\ Len(q) \in Nat /\ r[Len(r)] = e
      /\ \A i \in 1..Len(q) : r[i] = q[i]
  OBVIOUS
<1> HIDE DEF r
<1>2. /\ VoicesOf(r, p) = VoicesOf(q, p) \union {Len(r)}
      /\ VoicesOf(q, p) \subseteq 1..Len(q)
  BY <1>1 DEF VoicesOf, VoiceOf
<1>3. Frames(r, p) = Frames(q, p) \union {e.frame}
  BY <1>1, <1>2 DEF Frames
<1>4. Rising(r, p)
  <2> SUFFICES ASSUME NEW i \in VoicesOf(r, p), NEW j \in VoicesOf(r, p), i < j
      PROVE  r[i].frame < r[j].frame
    BY DEF Rising
  <2>1. i \in VoicesOf(q, p) /\ r[i] = q[i]
    BY <1>1, <1>2
  <2>2. CASE j = Len(r)
    BY <1>1, <2>1, <2>2 DEF Frames
  <2>3. CASE j \in VoicesOf(q, p)
    BY <1>1, <1>2, <2>1, <2>3 DEF Rising
  <2> QED
    BY <1>2, <2>2, <2>3
<1> QED
  BY <1>3, <1>4 DEF r

LEMMA TailPositions ==
    ASSUME NEW q \in Seq(Events), q # <<>>, NEW p
    PROVE  /\ Tail(q) \in Seq(Events) /\ Len(Tail(q)) = Len(q) - 1 /\ Len(q) \in Nat \ {0}
           /\ \A i \in 1..Len(Tail(q)) : Tail(q)[i] = q[i + 1]
           /\ \A i : i \in VoicesOf(Tail(q), p) <=> i \in Nat \ {0} /\ i + 1 \in VoicesOf(q, p)
           /\ Head(q) = q[1] /\ (1 \in VoicesOf(q, p) <=> VoiceOf(Head(q), p))
<1>1. /\ Tail(q) \in Seq(Events) /\ Len(Tail(q)) = Len(q) - 1 /\ Len(q) \in Nat \ {0}
      /\ \A i \in 1..Len(Tail(q)) : Tail(q)[i] = q[i + 1]
      /\ Head(q) = q[1]
  OBVIOUS
<1>2. ASSUME NEW i
      PROVE  i \in VoicesOf(Tail(q), p) <=> i \in Nat \ {0} /\ i + 1 \in VoicesOf(q, p)
  BY <1>1 DEF VoicesOf
<1>3. 1 \in VoicesOf(q, p) <=> VoiceOf(Head(q), p)
  BY <1>1 DEF VoicesOf, VoiceOf
<1> QED
  BY <1>1, <1>2, <1>3

LEMMA TailFrames ==
    ASSUME NEW q \in Seq(Events), q # <<>>, NEW p, Rising(q, p)
    PROVE  /\ Rising(Tail(q), p)
           /\ ~VoiceOf(Head(q), p) => Frames(Tail(q), p) = Frames(q, p)
           /\ VoiceOf(Head(q), p) =>
                /\ Frames(q, p) = Frames(Tail(q), p) \union {Head(q).frame}
                /\ \A f \in Frames(Tail(q), p) : Head(q).frame < f
<1> DEFINE r == Tail(q)
<1>1. /\ Len(r) = Len(q) - 1 /\ Len(q) \in Nat \ {0}
      /\ \A i \in 1..Len(r) : r[i] = q[i + 1]
      /\ \A i : i \in VoicesOf(r, p) <=> i \in Nat \ {0} /\ i + 1 \in VoicesOf(q, p)
      /\ Head(q) = q[1] /\ (1 \in VoicesOf(q, p) <=> VoiceOf(Head(q), p))
  BY TailPositions
<1>2. VoicesOf(r, p) \subseteq 1..Len(r) /\ VoicesOf(q, p) \subseteq 1..Len(q)
  BY DEF VoicesOf
<1> HIDE DEF r
<1>3. \A i \in VoicesOf(r, p) :
        i \in Nat \ {0} /\ i + 1 \in VoicesOf(q, p) /\ r[i] = q[i + 1]
  BY <1>1, <1>2
<1>4. \A j \in VoicesOf(q, p) : j = 1 \/ (j - 1 \in VoicesOf(r, p) /\ r[j - 1] = q[j])
  <2> SUFFICES ASSUME NEW j \in VoicesOf(q, p), j # 1
      PROVE  j - 1 \in VoicesOf(r, p) /\ r[j - 1] = q[j]
    OBVIOUS
  <2>1. j \in 1..Len(q) /\ j - 1 \in Nat \ {0} /\ (j - 1) + 1 = j
    BY <1>1, <1>2
  <2>2. j - 1 \in VoicesOf(r, p)
    BY <1>1, <2>1
  <2> QED
    BY <1>3, <2>1, <2>2
<1>5. Rising(r, p)
  <2> SUFFICES ASSUME NEW i \in VoicesOf(r, p), NEW j \in VoicesOf(r, p), i < j
      PROVE  r[i].frame < r[j].frame
    BY DEF Rising
  <2>1. i + 1 < j + 1
    BY <1>3
  <2> QED
    BY <1>3, <2>1 DEF Rising
<1>6. Frames(r, p) \subseteq Frames(q, p)
  BY <1>3 DEF Frames
<1>7. ASSUME ~VoiceOf(Head(q), p) PROVE Frames(r, p) = Frames(q, p)
  <2>1. \A j \in VoicesOf(q, p) : j - 1 \in VoicesOf(r, p) /\ r[j - 1] = q[j]
    BY <1>1, <1>4, <1>7
  <2> QED
    BY <1>6, <2>1 DEF Frames
<1>8. ASSUME VoiceOf(Head(q), p)
      PROVE  /\ Frames(q, p) = Frames(r, p) \union {Head(q).frame}
             /\ \A f \in Frames(r, p) : Head(q).frame < f
  <2>1. 1 \in VoicesOf(q, p) /\ q[1] = Head(q)
    BY <1>1, <1>8
  <2>2. Head(q).frame \in Frames(q, p)
    BY <2>1 DEF Frames
  <2>3. Frames(q, p) \subseteq Frames(r, p) \union {Head(q).frame}
    BY <1>4, <2>1 DEF Frames
  <2>4. ASSUME NEW f \in Frames(r, p) PROVE Head(q).frame < f
    <3>1. PICK i \in VoicesOf(r, p) : f = r[i].frame
      BY DEF Frames
    <3>2. i + 1 \in VoicesOf(q, p) /\ r[i] = q[i + 1] /\ 1 < i + 1
      BY <1>3
    <3> QED
      BY <2>1, <3>1, <3>2 DEF Rising
  <2> QED
    BY <1>6, <2>2, <2>3, <2>4
<1> QED
  BY <1>5, <1>7, <1>8 DEF r

-----------------------------------------------------------------------------
(* Steps: a notice comes into a queue or is taken from it, or p speaks, or  *)
(* a frame goes to the mixer, or on to the speakers.                        *)

Mixed(g, p) == played[g][p] \o streams[g][p].queue

Heard(g, p) ==
    /\ Mixed(g, p) = [i \in 1..Len(Mixed(g, p)) |-> i]
    /\ Len(Mixed(g, p)) <= spoken[g][p]
    /\ Frames(events[g], p) = (Len(Mixed(g, p)) + 1)..spoken[g][p]
    /\ Rising(events[g], p)

HeardInv == VoiceTypes /\ \A g \in Join : \A p \in Peer : Heard(g, p)

Places == <<spoken, streams, played>>

Noticed(g) ==
    \E e \in Events :
        /\ e.kind # "Voice" /\ UNCHANGED Places
        /\ events' = events \/ events' = [events EXCEPT ![g] = Append(@, e)]

TakenUp(g) ==
    \E kind \in {"Joined", "Left", "Identity", "Stats", "Call"} :
        Take(g, kind) /\ UNCHANGED Places

LEMMA EventKinds ==
    /\ \A p \in Peer : \A k \in {"Joined", "Left", "Identity"} :
         Event(k, p) \in Events /\ Event(k, p).kind = k
    /\ \A p \in Peer, n \in Nat :
         LET e == [kind |-> "Voice", of |-> p, frame |-> n]
         IN  e \in Events
    /\ \A c \in Nat : [kind |-> "Call", call |-> c] \in Events
    /\ \A p \in Peer, q \in Quality : [kind |-> "Stats", of |-> p, quality |-> q] \in Events
  BY DEF Events, Event

LEMMA EventFields ==
    ASSUME NEW e \in Events
    PROVE  /\ e.kind = "Voice" => e.of \in Peer /\ e.frame \in Nat
           /\ e.kind = "Identity" => e.of \in Peer
  BY DEF Events

LEMMA TaskOf ==
    ASSUME NEW t \in Tasks, t.kind = "rejecting" PROVE t.of \in Peer
<1>1. NoTask.kind = "none" /\ Idle.kind = "idle"
  BY DEF NoTask, Idle
<1>2. PICK p \in Peer : t = Rejecting(p)
  BY <1>1 DEF Tasks
<1> QED
  BY <1>2 DEF Rejecting

LEMMA PostSteps ==
    ASSUME VoiceTypes, NEW g \in Join, NEW p \in Peer,
           PeerJoins(g, p) \/ HelloArrives(g, p) \/ StatsArrive(g, p)
    PROVE  Noticed(g)
<1>1. UNCHANGED Places
  BY DEF PeerJoins, HelloArrives, StatsArrive, Places, mesh
<1>2. PICK e \in Events : e.kind # "Voice" /\ Post(g, e)
  <2>1. CASE PeerJoins(g, p)
    BY <2>1, EventKinds DEF PeerJoins
  <2>2. CASE HelloArrives(g, p)
    BY <2>2, EventKinds DEF HelloArrives
  <2>3. CASE StatsArrive(g, p)
    BY <2>3, EventKinds DEF StatsArrive, VoiceTypes
  <2> QED
    BY <2>1, <2>2, <2>3
<1> QED
  BY <1>1, <1>2 DEF Noticed, Post

LEMMA VoiceSteps ==
    ASSUME VoiceTypes, Types, [Next]_vars
    PROVE  \/ UNCHANGED <<events, Places>>
           \/ \E g \in Join : Noticed(g) \/ TakenUp(g) \/ OnVoice(g) \/ Play(g)
           \/ \E g \in Join : \E p \in Peer : PeerSpeaks(g, p)
<1> DEFINE Goal == \/ UNCHANGED <<events, Places>>
                   \/ \E g \in Join : Noticed(g) \/ TakenUp(g) \/ OnVoice(g) \/ Play(g)
                   \/ \E g \in Join : \E p \in Peer : PeerSpeaks(g, p)
<1>1. CASE UNCHANGED vars \/ JoinChannel \/ JoinFails \/ LeaveChannel \/ StartCall \/ EndCall
  BY <1>1 DEF vars, JoinChannel, JoinFails, LeaveChannel, StartCall, EndCall, Places, mesh
<1>2. CASE \/ \E m \in BOOLEAN : SetMute(m) \/ SetPtt(m)
           \/ \E c \in Call : AcceptCall(c) \/ DeclineCall(c)
           \/ \E w \in waiting : RendezvousEnds(w)
           \/ \E p \in Peer : \E q \in Quality : LinkChanges(p, q)
  BY <1>2 DEF SetMute, SetPtt, AcceptCall, DeclineCall, RendezvousEnds, LinkChanges, Places,
              mesh
<1>3. ASSUME NEW g \in Join, NEW p \in Peer,
             \/ PeerJoins(g, p) \/ HelloArrives(g, p) \/ StatsArrive(g, p)
      PROVE  Goal
  BY <1>3, PostSteps
<1>4. ASSUME NEW g \in Join, NEW p \in Peer, PeerVanishes(g, p) \/ PeerSpeaks(g, p)
      PROVE  Goal
  BY <1>4 DEF PeerVanishes, Places
<1>5. ASSUME NEW g \in Join, CallComes(g)
      PROVE  Goal
  <2>1. \E e \in Events : Post(g, e) /\ e.kind # "Voice" /\ UNCHANGED Places
    <3>1. calls + 1 \in Nat
      BY DEF Types, JoinNumbers
    <3>2. [kind |-> "Call", call |-> calls + 1] \in Events
      BY <3>1, EventKinds
    <3> QED
      BY <1>5, <3>2 DEF CallComes, Places, mesh
  <2> QED
    BY <2>1 DEF Post, Noticed
<1>6. ASSUME NEW g \in Join, PostLeft(g)
      PROVE  Goal
  <2> DEFINE e == Event("Left", task[g].of)
  <2>1. task[g] \in Tasks /\ task[g].kind = "rejecting"
    BY <1>6 DEF PostLeft, VoiceTypes
  <2>2. task[g].of \in Peer
    BY <2>1, TaskOf
  <2>3. e \in Events /\ e.kind # "Voice"
    BY <2>2, EventKinds
  <2>4. events' = [events EXCEPT ![g] = Append(@, e)] /\ UNCHANGED Places
    BY <1>6 DEF PostLeft, Places, mesh
  <2> HIDE DEF e
  <2> QED
    BY <2>3, <2>4 DEF Noticed
<1>7. ASSUME NEW g \in Join, OnNotice(g) \/ OnStats(g) \/ OnCall(g) \/ OnIdentity(g)
      PROVE  Goal
  <2>1. TakenUp(g)
    BY <1>7 DEF OnNotice, OnStats, OnCall, OnIdentity, TakenUp, Places, mesh
  <2> QED
    BY <2>1
<1>8. ASSUME NEW g \in Join,
             \/ Cool(g) \/ TakeFrame(g) \/ SendFrame(g)
             \/ \E active \in BOOLEAN : Capture(g, active)
      PROVE  Goal
  BY <1>8 DEF Cool, TakeFrame, SendFrame, Capture, Places, mesh
<1>9. ASSUME NEW g \in Join, OnVoice(g) \/ Play(g)
      PROVE  Goal
  BY <1>9
<1>10. CASE \E g \in Join : \E p \in Peer :
              \/ PeerJoins(g, p) \/ HelloArrives(g, p) \/ PeerVanishes(g, p)
              \/ PeerSpeaks(g, p) \/ StatsArrive(g, p)
  BY <1>3, <1>4, <1>10
<1>11. CASE \E g \in Join :
              \/ CallComes(g) \/ Cool(g) \/ OnNotice(g) \/ OnVoice(g) \/ OnStats(g)
              \/ OnCall(g) \/ OnIdentity(g) \/ PostLeft(g)
              \/ \E active \in BOOLEAN : Capture(g, active)
              \/ TakeFrame(g) \/ SendFrame(g) \/ Play(g)
  BY <1>5, <1>6, <1>7, <1>8, <1>9, <1>11
<1> QED
  BY <1>1, <1>2, <1>10, <1>11 DEF Next, Quality

-----------------------------------------------------------------------------
(* The event task and the links.                                            *)

LEMMA TasksNext ==
    ASSUME VoiceTypes, Types, [Next]_vars
    PROVE  task' \in [Join -> Tasks] /\ quality' \in [Peer -> Quality]
<1>1. task \in [Join -> Tasks] /\ quality \in [Peer -> Quality]
  BY DEF VoiceTypes
<1>2. CASE JoinChannel
  <2>1. /\ task' = [task EXCEPT ![born + 1] = Idle] /\ UNCHANGED quality
        /\ Idle \in Tasks
    BY <1>2 DEF JoinChannel, mesh, Tasks
  <2> QED
    BY <1>1, <2>1
<1>3. ASSUME NEW p \in Peer, NEW q \in Quality, LinkChanges(p, q)
      PROVE  task' \in [Join -> Tasks] /\ quality' \in [Peer -> Quality]
  BY <1>1, <1>3 DEF LinkChanges
<1>4. ASSUME NEW g \in Join, OnIdentity(g)
      PROVE  task' \in [Join -> Tasks] /\ quality' \in [Peer -> Quality]
  <2> DEFINE e == Head(events[g])
  <2>1. events[g] \in Seq(Events) /\ events[g] # <<>> /\ e.kind = "Identity"
    BY <1>4 DEF OnIdentity, Take, VoiceTypes
  <2>2. e \in Events
    BY <2>1
  <2>3. e.of \in Peer
    BY <2>1, <2>2, EventFields
  <2>4. /\ UNCHANGED quality
        /\ \/ UNCHANGED task
           \/ \E t \in {Idle, Rejecting(e.of)} : task' = [task EXCEPT ![g] = t]
    BY <1>4 DEF OnIdentity, Disconnect
  <2>5. Idle \in Tasks /\ Rejecting(e.of) \in Tasks
    BY <2>3 DEF Tasks
  <2> QED
    BY <1>1, <2>4, <2>5
<1>5. ASSUME NEW g \in Join, PostLeft(g)
      PROVE  task' \in [Join -> Tasks] /\ quality' \in [Peer -> Quality]
  <2>1. task' = [task EXCEPT ![g] = Idle] /\ UNCHANGED quality /\ Idle \in Tasks
    BY <1>5 DEF PostLeft, mesh, Tasks
  <2> QED
    BY <1>1, <2>1
<1>6. CASE UNCHANGED <<task, quality>>
  BY <1>1, <1>6
<1>7. CASE UNCHANGED vars \/ JoinFails \/ LeaveChannel \/ StartCall \/ EndCall
  BY <1>6, <1>7 DEF vars, JoinFails, LeaveChannel, StartCall, EndCall, mesh
<1>8. CASE \/ \E m \in BOOLEAN : SetMute(m) \/ SetPtt(m)
           \/ \E c \in Call : AcceptCall(c) \/ DeclineCall(c)
           \/ \E w \in waiting : RendezvousEnds(w)
  BY <1>6, <1>8 DEF SetMute, SetPtt, AcceptCall, DeclineCall, RendezvousEnds, mesh
<1>9. CASE \E g \in Join : \E p \in Peer :
             \/ PeerJoins(g, p) \/ HelloArrives(g, p) \/ PeerVanishes(g, p)
             \/ PeerSpeaks(g, p) \/ StatsArrive(g, p)
  BY <1>6, <1>9 DEF PeerJoins, HelloArrives, PeerVanishes, PeerSpeaks, StatsArrive, mesh
<1>10. CASE \E g \in Join :
              \/ CallComes(g) \/ Cool(g) \/ OnNotice(g) \/ OnVoice(g) \/ OnStats(g)
              \/ OnCall(g) \/ TakeFrame(g) \/ SendFrame(g) \/ Play(g)
              \/ \E active \in BOOLEAN : Capture(g, active)
  BY <1>6, <1>10
     DEF CallComes, Cool, OnNotice, OnVoice, OnStats, OnCall, TakeFrame, SendFrame, Play,
         Capture, mesh
<1> QED
  BY <1>2, <1>3, <1>4, <1>5, <1>7, <1>8, <1>9, <1>10 DEF Next, Quality

-----------------------------------------------------------------------------
(* The queues of frames.                                                    *)

LEMMA SameMixed ==
    ASSUME NEW g \in Join, NEW p \in Peer, Heard(g, p),
           Mixed(g, p)' = Mixed(g, p), spoken'[g][p] = spoken[g][p],
           Frames(events'[g], p) = Frames(events[g], p), Rising(events'[g], p)
    PROVE  Heard(g, p)'
  BY DEF Heard

LEMMA HeardQuiet ==
    ASSUME HeardInv, UNCHANGED <<events, Places>>
    PROVE  /\ events' \in [Join -> Seq(Events)]
           /\ spoken' \in [Join -> [Peer -> Nat]]
           /\ streams' \in [Join -> [Peer -> Stream]]
           /\ played' \in [Join -> [Peer -> Seq(Nat)]]
           /\ \A g \in Join : \A p \in Peer : Heard(g, p)'
  BY DEF HeardInv, VoiceTypes, Places, Heard, Mixed

HeardNext ==
    /\ events' \in [Join -> Seq(Events)]
    /\ spoken' \in [Join -> [Peer -> Nat]]
    /\ streams' \in [Join -> [Peer -> Stream]]
    /\ played' \in [Join -> [Peer -> Seq(Nat)]]
    /\ \A g \in Join : \A p \in Peer : Heard(g, p)'

(* A frame put behind those that wait is put behind those played and those  *)
(* that wait.                                                               *)
LEMMA OnePlayedLater ==
    ASSUME NEW a \in Seq(Nat), NEW q \in Seq(Nat), NEW x \in Nat
    PROVE  a \o Append(q, x) = Append(a \o q, x)
<1>1. <<x>> \in Seq(Nat) /\ a \o q \in Seq(Nat)
  BY ConcatProperties
<1>2. Append(q, x) = q \o <<x>> /\ Append(a \o q, x) = (a \o q) \o <<x>>
  BY <1>1, AppendIsConcat
<1> QED
  BY <1>1, <1>2, ConcatAssociative

(* The first of those that wait may as well have been played.               *)
LEMMA OnePlayedNow ==
    ASSUME NEW a \in Seq(Nat), NEW q \in Seq(Nat), q # <<>>
    PROVE  Append(a, Head(q)) \o Tail(q) = a \o q
<1>1. Head(q) \in Nat /\ Tail(q) \in Seq(Nat) /\ <<Head(q)>> \in Seq(Nat)
  BY HeadTailProperties
<1>2. Append(a, Head(q)) = a \o <<Head(q)>>
  BY <1>1, AppendIsConcat
<1>3. q = <<Head(q)>> \o Tail(q)
  <2>1. PICK t \in Seq(Nat) : t = <<Head(q)>> \o Tail(q)
    BY <1>1, ConcatProperties
  <2>2. /\ Len(t) = Len(<<Head(q)>>) + Len(Tail(q))
        /\ \A i \in 1..Len(<<Head(q)>>) + Len(Tail(q)) :
             t[i] = IF i <= Len(<<Head(q)>>) THEN <<Head(q)>>[i]
                    ELSE Tail(q)[i - Len(<<Head(q)>>)]
    BY <1>1, <2>1, ConcatProperties
  <2>3. Len(<<Head(q)>>) = 1 /\ <<Head(q)>>[1] = Head(q) /\ Head(q) = q[1]
    BY <1>1
  <2>4. /\ Len(q) \in Nat \ {0} /\ Len(Tail(q)) = Len(q) - 1
        /\ \A i \in 1..Len(Tail(q)) : Tail(q)[i] = q[i + 1]
    BY EmptySeq, HeadTailProperties
  <2>5. Len(t) = Len(q)
    BY <2>2, <2>3, <2>4
  <2>6. \A i \in 1..Len(t) : t[i] = q[i]
    BY <2>2, <2>3, <2>4
  <2> QED
    BY <2>1, <2>5, <2>6, SeqEqual
<1>4. a \o (<<Head(q)>> \o Tail(q)) = (a \o <<Head(q)>>) \o Tail(q)
  BY <1>1, ConcatAssociative
<1> QED
  BY <1>2, <1>3, <1>4

LEMMA HeardNoticed ==
    ASSUME HeardInv, NEW h \in Join, Noticed(h)
    PROVE  HeardNext
<1>1. CASE events' = events
  BY <1>1, HeardQuiet DEF Noticed, HeardNext
<1>2. CASE events' # events
  <2>1. PICK e \in Events : /\ e.kind # "Voice" /\ UNCHANGED Places
                            /\ events' = [events EXCEPT ![h] = Append(@, e)]
    BY <1>2 DEF Noticed
  <2>2. events \in [Join -> Seq(Events)]
    BY DEF HeardInv, VoiceTypes
  <2>3. events' \in [Join -> Seq(Events)]
    BY <2>1, <2>2
  <2>4. /\ spoken' \in [Join -> [Peer -> Nat]]
        /\ streams' \in [Join -> [Peer -> Stream]]
        /\ played' \in [Join -> [Peer -> Seq(Nat)]]
    BY <2>1 DEF HeardInv, VoiceTypes, Places
  <2>5. ASSUME NEW g \in Join, NEW p \in Peer PROVE Heard(g, p)'
    <3>1. Heard(g, p) /\ Rising(events[g], p)
      BY DEF HeardInv, Heard
    <3>2. Mixed(g, p)' = Mixed(g, p) /\ spoken'[g][p] = spoken[g][p]
      BY <2>1 DEF Places, Mixed
    <3>3. Frames(events'[g], p) = Frames(events[g], p) /\ Rising(events'[g], p)
      <4>1. CASE g = h
        <5>1. events'[g] = Append(events[g], e) /\ events[g] \in Seq(Events)
          BY <2>1, <2>2, <4>1
        <5>2. ~VoiceOf(e, p)
          BY <2>1 DEF VoiceOf
        <5> QED
          BY <3>1, <5>1, <5>2, AppendOther
      <4>2. CASE g # h
        BY <2>1, <2>2, <3>1, <4>2
      <4> QED
        BY <4>1, <4>2
    <3> QED
      BY <3>1, <3>2, <3>3, SameMixed
  <2> QED
    BY <2>3, <2>4, <2>5 DEF HeardNext
<1> QED
  BY <1>1, <1>2

LEMMA HeardTaken ==
    ASSUME HeardInv, NEW h \in Join, TakenUp(h)
    PROVE  HeardNext
<1>1. PICK kind \in {"Joined", "Left", "Identity", "Stats", "Call"} :
        Take(h, kind) /\ UNCHANGED Places
  BY DEF TakenUp
<1>2. events \in [Join -> Seq(Events)]
  BY DEF HeardInv, VoiceTypes
<1>3. /\ events[h] # <<>> /\ Head(events[h]).kind # "Voice"
      /\ events' = [events EXCEPT ![h] = Tail(@)]
  BY <1>1 DEF Take
<1>4. events' \in [Join -> Seq(Events)]
  BY <1>2, <1>3
<1>5. /\ spoken' \in [Join -> [Peer -> Nat]]
      /\ streams' \in [Join -> [Peer -> Stream]]
      /\ played' \in [Join -> [Peer -> Seq(Nat)]]
  BY <1>1 DEF HeardInv, VoiceTypes, Places
<1>6. ASSUME NEW g \in Join, NEW p \in Peer PROVE Heard(g, p)'
  <2>1. Heard(g, p) /\ Rising(events[g], p)
    BY DEF HeardInv, Heard
  <2>2. Mixed(g, p)' = Mixed(g, p) /\ spoken'[g][p] = spoken[g][p]
    BY <1>1 DEF Places, Mixed
  <2>3. Frames(events'[g], p) = Frames(events[g], p) /\ Rising(events'[g], p)
    <3>1. CASE g = h
      <4>1. events'[g] = Tail(events[g]) /\ events[g] \in Seq(Events) /\ events[g] # <<>>
        BY <1>2, <1>3, <3>1
      <4>2. ~VoiceOf(Head(events[g]), p)
        BY <1>3, <3>1 DEF VoiceOf
      <4> QED
        BY <2>1, <4>1, <4>2, TailFrames
    <3>2. CASE g # h
      BY <1>2, <1>3, <2>1, <3>2
    <3> QED
      BY <3>1, <3>2
  <2> QED
    BY <2>1, <2>2, <2>3, SameMixed
<1> QED
  BY <1>4, <1>5, <1>6 DEF HeardNext

(* The next frame of p comes after all that wait.                           *)
LEMMA HeardSpeaks ==
    ASSUME HeardInv, NEW h \in Join, NEW q \in Peer, PeerSpeaks(h, q)
    PROVE  HeardNext
<1> DEFINE e == [kind |-> "Voice", of |-> q, frame |-> spoken[h][q] + 1]
<1>1. /\ events \in [Join -> Seq(Events)] /\ spoken \in [Join -> [Peer -> Nat]]
      /\ streams \in [Join -> [Peer -> Stream]]
      /\ played \in [Join -> [Peer -> Seq(Nat)]]
  BY DEF HeardInv, VoiceTypes
<1>2. /\ events' = [events EXCEPT ![h] = Append(@, e)]
      /\ spoken' = [spoken EXCEPT ![h][q] = @ + 1]
      /\ UNCHANGED <<streams, played>>
  BY DEF PeerSpeaks, Post
<1>3. spoken[h][q] + 1 \in Nat
  BY <1>1
<1>4. e \in Events
  BY <1>3, EventKinds
<1>5. VoiceOf(e, q) /\ e.frame = spoken[h][q] + 1 /\ e.of = q
  BY DEF VoiceOf
<1> HIDE DEF e
<1>6. events' \in [Join -> Seq(Events)] /\ spoken' \in [Join -> [Peer -> Nat]]
  BY <1>1, <1>2, <1>4
<1>7. ASSUME NEW g \in Join, NEW p \in Peer PROVE Heard(g, p)'
  <2>1. Heard(g, p) /\ Rising(events[g], p) /\ events[g] \in Seq(Events)
    BY <1>1 DEF HeardInv, Heard
  <2>2. Mixed(g, p)' = Mixed(g, p)
    BY <1>2 DEF Mixed
  <2>3. CASE g = h /\ p = q
    <3>1. /\ events'[g] = Append(events[g], e)
          /\ spoken'[g][p] = spoken[g][p] + 1
      BY <1>1, <1>2, <2>3
    <3>2. Frames(events[g], p) = (Len(Mixed(g, p)) + 1)..spoken[g][p]
      BY <2>1 DEF Heard
    <3>3. \A f \in Frames(events[g], p) : f < e.frame
      BY <1>1, <1>5, <2>3, <3>2
    <3>4. /\ Frames(events'[g], p) = Frames(events[g], p) \union {e.frame}
          /\ Rising(events'[g], p)
      BY <1>4, <1>5, <2>1, <2>3, <3>1, <3>3, AppendVoice
    <3>5. Len(Mixed(g, p)) \in Nat /\ Len(Mixed(g, p)) <= spoken[g][p]
      <4>1. Mixed(g, p) \in Seq(Nat)
        BY <1>1 DEF Mixed, Stream
      <4> QED
        BY <2>1, <4>1 DEF Heard
    <3>6. ASSUME NEW l \in Nat, NEW n \in Nat, l <= n
          PROVE  ((l + 1)..n) \union {n + 1} = (l + 1)..(n + 1)
      BY <3>6
    <3>7. spoken[g][p] \in Nat
      BY <1>1
    <3>8. Frames(events'[g], p) = (Len(Mixed(g, p)) + 1)..spoken'[g][p]
      BY <1>5, <2>3, <3>1, <3>2, <3>4, <3>5, <3>6, <3>7
    <3>9. /\ Mixed(g, p) = [i \in 1..Len(Mixed(g, p)) |-> i]
          /\ Len(Mixed(g, p)) <= spoken'[g][p]
      BY <2>1, <3>1, <3>5, <3>7 DEF Heard
    <3> QED
      BY <2>2, <3>4, <3>8, <3>9 DEF Heard
  <2>4. CASE ~(g = h /\ p = q)
    <3>1. spoken'[g][p] = spoken[g][p]
      BY <1>1, <1>2, <2>4
    <3>2. Frames(events'[g], p) = Frames(events[g], p) /\ Rising(events'[g], p)
      <4>1. CASE g = h
        <5>1. events'[g] = Append(events[g], e)
          BY <1>1, <1>2, <4>1
        <5>2. ~VoiceOf(e, p)
          BY <1>5, <2>4, <4>1 DEF VoiceOf
        <5> QED
          BY <1>4, <2>1, <5>1, <5>2, AppendOther
      <4>2. CASE g # h
        BY <1>1, <1>2, <2>1, <4>2
      <4> QED
        BY <4>1, <4>2
    <3> QED
      BY <2>1, <2>2, <3>1, <3>2, SameMixed
  <2> QED
    BY <2>3, <2>4
<1> QED
  BY <1>1, <1>2, <1>6, <1>7 DEF HeardNext

(* The first voice in the queue is the next frame of its speaker.           *)
LEMMA HeardVoice ==
    ASSUME HeardInv, NEW h \in Join, OnVoice(h)
    PROVE  HeardNext
<1> DEFINE e == Head(events[h])
<1>1. /\ events \in [Join -> Seq(Events)] /\ spoken \in [Join -> [Peer -> Nat]]
      /\ streams \in [Join -> [Peer -> Stream]]
      /\ played \in [Join -> [Peer -> Seq(Nat)]]
  BY DEF HeardInv, VoiceTypes
<1>2. /\ events[h] # <<>> /\ e.kind = "Voice"
      /\ events' = [events EXCEPT ![h] = Tail(@)]
      /\ streams' = Push(h, e.of, e.frame)
      /\ UNCHANGED <<spoken, played>>
  BY DEF OnVoice, Take, mesh
<1>3. e \in Events
  BY <1>1, <1>2
<1>4. e.of \in Peer /\ e.frame \in Nat
  BY <1>2, <1>3, EventFields
<1> HIDE DEF e
<1>5. streams' = [streams EXCEPT ![h][e.of].queue = Append(@, e.frame)]
  BY <1>2 DEF Push
<1>6. events' \in [Join -> Seq(Events)] /\ streams' \in [Join -> [Peer -> Stream]]
  <2>1. events' \in [Join -> Seq(Events)]
    BY <1>1, <1>2
  <2>2. PICK s \in Stream : s = streams[h][e.of]
    BY <1>1, <1>4
  <2>3. [s EXCEPT !.queue = Append(@, e.frame)] \in Stream
    BY <1>4 DEF Stream
  <2>4. PICK r \in Stream : r = [s EXCEPT !.queue = Append(@, e.frame)]
    BY <2>3
  <2>5. PICK m \in [Peer -> Stream] : m = [streams[h] EXCEPT ![e.of] = r]
    BY <1>1
  <2>6. streams' = [streams EXCEPT ![h] = m]
    BY <1>1, <1>4, <1>5, <2>2, <2>4, <2>5
  <2>7. streams' \in [Join -> [Peer -> Stream]]
    BY <1>1, <2>6
  <2> QED
    BY <2>1, <2>7
<1>7. ASSUME NEW g \in Join, NEW p \in Peer PROVE Heard(g, p)'
  <2>1. Heard(g, p) /\ Rising(events[g], p) /\ events[g] \in Seq(Events)
    BY <1>1 DEF HeardInv, Heard
  <2>2. Mixed(g, p) \in Seq(Nat) /\ played[g][p] \in Seq(Nat)
        /\ streams[g][p].queue \in Seq(Nat)
    BY <1>1 DEF Mixed, Stream
  <2>3. CASE g = h /\ p = e.of
    <3>1. VoiceOf(Head(events[g]), p) /\ Head(events[g]) = e
      BY <1>2, <2>3 DEF e, VoiceOf
    <3>2. events'[g] = Tail(events[g]) /\ events[g] # <<>>
      BY <1>1, <1>2, <2>3
    <3>3. /\ Frames(events[g], p) = Frames(events'[g], p) \union {e.frame}
          /\ \A f \in Frames(events'[g], p) : e.frame < f
          /\ Rising(events'[g], p)
      BY <2>1, <3>1, <3>2, TailFrames
    <3>4. /\ Mixed(g, p) = [i \in 1..Len(Mixed(g, p)) |-> i]
          /\ Len(Mixed(g, p)) <= spoken[g][p]
          /\ Frames(events[g], p) = (Len(Mixed(g, p)) + 1)..spoken[g][p]
      BY <2>1 DEF Heard
    <3> DEFINE n == Len(Mixed(g, p))
    <3>5. n \in Nat /\ spoken[g][p] \in Nat
      BY <1>1, <2>2
    <3> HIDE DEF n
    <3>6. /\ Frames(events[g], p) = (n + 1)..spoken[g][p]
          /\ Mixed(g, p) = [i \in 1..n |-> i]
      BY <3>4 DEF n
    <3>7. e.frame = n + 1 /\ n + 1 <= spoken[g][p]
      <4>1. e.frame \in (n + 1)..spoken[g][p]
        BY <3>3, <3>6
      <4>2. n + 1 \in (n + 1)..spoken[g][p]
        BY <3>5, <4>1
      <4>3. n + 1 = e.frame \/ e.frame < n + 1
        BY <3>3, <3>6, <4>2
      <4> QED
        BY <3>5, <4>1, <4>3
    <3>8. Frames(events'[g], p) = (n + 2)..spoken[g][p]
      <4>1. e.frame \notin Frames(events'[g], p)
        BY <1>4, <3>3
      <4>2. Frames(events'[g], p) = ((n + 1)..spoken[g][p]) \ {n + 1}
        BY <3>3, <3>6, <3>7, <4>1
      <4>3. ((n + 1)..spoken[g][p]) \ {n + 1} = (n + 2)..spoken[g][p]
        BY <3>5
      <4> QED
        BY <4>2, <4>3
    <3>9. streams'[g][p].queue = Append(streams[g][p].queue, n + 1)
      BY <1>1, <1>4, <1>5, <2>3, <3>7 DEF Stream
    <3>10. Mixed(g, p)' = Append(Mixed(g, p), n + 1)
      <4>1. played'[g][p] = played[g][p]
        BY <1>2
      <4>2. played[g][p] \o Append(streams[g][p].queue, n + 1)
              = Append(played[g][p] \o streams[g][p].queue, n + 1)
        <5>1. n + 1 \in Nat
          BY <3>5
        <5>2. played[g][p] \in Seq(Nat) /\ streams[g][p].queue \in Seq(Nat)
          BY <1>1 DEF Stream
        <5> QED
          BY <5>1, <5>2, OnePlayedLater
      <4> QED
        BY <3>9, <4>1, <4>2 DEF Mixed
    <3>11. /\ Len(Append(Mixed(g, p), n + 1)) = n + 1
           /\ Append(Mixed(g, p), n + 1) = [i \in 1..(n + 1) |-> i]
      <4>1. Len(Append(Mixed(g, p), n + 1)) = n + 1
        BY <2>2, <3>5 DEF n
      <4>2. \A i \in 1..(n + 1) : Append(Mixed(g, p), n + 1)[i] = i
        BY <2>2, <3>5, <3>6 DEF n
      <4> QED
        BY <2>2, <3>5, <4>1, <4>2
    <3>12. Len(Mixed(g, p)') = n + 1 /\ spoken'[g][p] = spoken[g][p]
      BY <1>2, <3>10, <3>11
    <3>13. (n + 1) + 1 = n + 2
      BY <3>5
    <3> QED
      BY <3>3, <3>7, <3>8, <3>10, <3>11, <3>12, <3>13 DEF Heard
  <2>4. CASE ~(g = h /\ p = e.of)
    <3>1. streams'[g][p].queue = streams[g][p].queue
      BY <1>1, <1>4, <1>5, <2>4 DEF Stream
    <3>2. Mixed(g, p)' = Mixed(g, p) /\ spoken'[g][p] = spoken[g][p]
      BY <1>2, <3>1 DEF Mixed
    <3>3. Frames(events'[g], p) = Frames(events[g], p) /\ Rising(events'[g], p)
      <4>1. CASE g = h
        <5>1. events'[g] = Tail(events[g]) /\ events[g] # <<>>
          BY <1>1, <1>2, <4>1
        <5>2. ~VoiceOf(Head(events[g]), p)
          BY <2>4, <4>1 DEF VoiceOf, e
        <5> QED
          BY <2>1, <5>1, <5>2, TailFrames
      <4>2. CASE g # h
        BY <1>1, <1>2, <2>1, <4>2
      <4> QED
        BY <4>1, <4>2
    <3> QED
      BY <2>1, <3>2, <3>3, SameMixed
  <2> QED
    BY <2>3, <2>4
<1> QED
  BY <1>1, <1>2, <1>6, <1>7 DEF HeardNext

(* What is played leaves the mixer at its head, so that nothing is lost or  *)
(* played twice when a stream runs empty.                                   *)
LEMMA HeardPlay ==
    ASSUME HeardInv, NEW h \in Join, Play(h)
    PROVE  HeardNext
<1>1. /\ events \in [Join -> Seq(Events)] /\ spoken \in [Join -> [Peer -> Nat]]
      /\ streams \in [Join -> [Peer -> Stream]]
      /\ played \in [Join -> [Peer -> Seq(Nat)]]
  BY DEF HeardInv, VoiceTypes
<1>2. /\ streams' = [streams EXCEPT ![h] = [p \in Peer |->
              IF Ready(@[p]) THEN Drained(@[p]) ELSE @[p]]]
      /\ played' = [played EXCEPT ![h] = [p \in Peer |->
              IF Ready(streams[h][p]) THEN Append(@[p], Head(streams[h][p].queue)) ELSE @[p]]]
      /\ UNCHANGED <<events, spoken>>
  BY DEF Play, mesh
<1>3. ASSUME NEW s \in Stream, Ready(s)
      PROVE  /\ Drained(s) \in Stream /\ Head(s.queue) \in Nat
             /\ \A a \in Seq(Nat) :
                  Append(a, Head(s.queue)) \o Drained(s).queue = a \o s.queue
  <2>1. s.queue \in Seq(Nat) /\ s.queue # <<>> /\ Len(s.queue) \in Nat \ {0}
    BY <1>3 DEF Ready, Stream
  <2>2. Drained(s).queue = Tail(s.queue)
    <3>1. CASE Len(s.queue) = 1
      <4>1. Drained(s).queue = <<>>
        BY <3>1 DEF Drained, NoStream
      <4>2. Len(Tail(s.queue)) = 0 /\ Tail(s.queue) \in Seq(Nat)
        BY <2>1, <3>1
      <4>3. Tail(s.queue) = <<>>
        BY <4>2, EmptySeq
      <4> QED
        BY <4>1, <4>3
    <3>2. CASE Len(s.queue) # 1
      BY <3>2 DEF Drained
    <3> QED
      BY <3>1, <3>2
  <2>3. Drained(s) \in Stream
    <3>1. Tail(s.queue) \in Seq(Nat)
      BY <2>1
    <3> QED
      BY <3>1 DEF Drained, NoStream, Stream
  <2>4. \A a \in Seq(Nat) : Append(a, Head(s.queue)) \o Tail(s.queue) = a \o s.queue
    BY <2>1, OnePlayedNow
  <2>5. Head(s.queue) \in Nat
    BY <2>1
  <2> QED
    BY <2>2, <2>3, <2>4, <2>5
<1>4. ASSUME NEW g \in Join, NEW p \in Peer
      PROVE  /\ streams'[g][p] \in Stream /\ played'[g][p] \in Seq(Nat)
             /\ Mixed(g, p)' = Mixed(g, p)
  <2>1. streams[g][p] \in Stream /\ played[g][p] \in Seq(Nat)
    BY <1>1
  <2>2. CASE g = h /\ Ready(streams[g][p])
    <3>1. /\ streams'[g][p] = Drained(streams[g][p])
          /\ played'[g][p] = Append(played[g][p], Head(streams[g][p].queue))
      BY <1>1, <1>2, <2>2
    <3>2. PICK s \in Stream : s = streams[g][p]
      BY <2>1
    <3>3. PICK a \in Seq(Nat) : a = played[g][p]
      BY <2>1
    <3>4. /\ Drained(s) \in Stream /\ Append(a, Head(s.queue)) \in Seq(Nat)
          /\ Append(a, Head(s.queue)) \o Drained(s).queue = a \o s.queue
      <4>1. Ready(s)
        BY <2>2, <3>2
      <4>2. Drained(s) \in Stream /\ Head(s.queue) \in Nat
        BY <1>3, <4>1
      <4>3. Append(a, Head(s.queue)) \in Seq(Nat)
        BY <4>2
      <4> QED
        BY <1>3, <4>1, <4>2, <4>3
    <3>5. streams'[g][p] = Drained(s) /\ played'[g][p] = Append(a, Head(s.queue))
      BY <3>1, <3>2, <3>3
    <3>6. Mixed(g, p) = a \o s.queue
      BY <3>2, <3>3 DEF Mixed
    <3>7. Mixed(g, p)' = Append(a, Head(s.queue)) \o Drained(s).queue
      BY <3>5 DEF Mixed
    <3> QED
      BY <3>4, <3>5, <3>6, <3>7
  <2>3. CASE ~(g = h /\ Ready(streams[g][p]))
    <3>1. streams'[g][p] = streams[g][p] /\ played'[g][p] = played[g][p]
      BY <1>1, <1>2, <2>3
    <3> QED
      BY <2>1, <3>1 DEF Mixed
  <2> QED
    BY <2>2, <2>3
<1>5. /\ DOMAIN streams' = Join /\ DOMAIN played' = Join
      /\ \A g \in Join : /\ streams'[g] = [p \in Peer |-> streams'[g][p]]
                         /\ played'[g] = [p \in Peer |-> played'[g][p]]
  BY <1>1, <1>2
<1>6. streams' \in [Join -> [Peer -> Stream]] /\ played' \in [Join -> [Peer -> Seq(Nat)]]
  <2>1. streams' = [g \in Join |-> streams'[g]] /\ played' = [g \in Join |-> played'[g]]
    BY <1>1, <1>2
  <2>2. \A g \in Join : streams'[g] \in [Peer -> Stream] /\ played'[g] \in [Peer -> Seq(Nat)]
    BY <1>4, <1>5
  <2> QED
    BY <2>1, <2>2
<1>7. ASSUME NEW g \in Join, NEW p \in Peer PROVE Heard(g, p)'
  BY <1>2, <1>4 DEF HeardInv, Heard
<1> QED
  BY <1>1, <1>2, <1>6, <1>7 DEF HeardNext

LEMMA HeardInit == Init => HeardInv
<1> SUFFICES ASSUME Init PROVE HeardInv
  OBVIOUS
<1>1. VoiceTypes
  <2>1. NoStream \in Stream
    BY ClientAssumption DEF NoStream, Stream
  <2> QED
    BY <2>1 DEF Init, VoiceTypes, Tasks, Quality
<1>2. ASSUME NEW g \in Join, NEW p \in Peer PROVE Heard(g, p)
  <2>1. /\ events[g] = <<>> /\ spoken[g][p] = 0
        /\ played[g][p] = <<>> /\ streams[g][p].queue = <<>>
    BY DEF Init, NoStream
  <2>2. Mixed(g, p) = <<>> /\ Len(Mixed(g, p)) = 0
    BY <2>1 DEF Mixed
  <2>3. VoicesOf(events[g], p) = {}
    BY <2>1 DEF VoicesOf
  <2>4. Frames(events[g], p) = {} /\ Rising(events[g], p)
    BY <2>3 DEF Frames, Rising
  <2> QED
    BY <2>1, <2>2, <2>4 DEF Heard
<1> QED
  BY <1>1, <1>2 DEF HeardInv

LEMMA HeardStep == Types /\ HeardInv /\ [Next]_vars => HeardInv'
<1> SUFFICES ASSUME Types, HeardInv, [Next]_vars PROVE HeardInv'
  OBVIOUS
<1>1. HeardNext
  <2>1. VoiceTypes
    BY DEF HeardInv
  <2>2. CASE UNCHANGED <<events, Places>>
    BY <2>2, HeardQuiet DEF HeardNext
  <2>3. CASE \E g \in Join : Noticed(g) \/ TakenUp(g) \/ OnVoice(g) \/ Play(g)
    BY <2>3, HeardNoticed, HeardTaken, HeardVoice, HeardPlay
  <2>4. CASE \E g \in Join : \E p \in Peer : PeerSpeaks(g, p)
    BY <2>4, HeardSpeaks
  <2> QED
    BY <2>1, <2>2, <2>3, <2>4, VoiceSteps
<1>2. task' \in [Join -> Tasks] /\ quality' \in [Peer -> Quality]
  BY TasksNext DEF HeardInv
<1> QED
  BY <1>1, <1>2 DEF HeardInv, HeardNext, VoiceTypes

(* What a join's speakers play of a peer is all it says, in order and once: *)
(* for any number of peers and joins, any size of the queues, any number of *)
(* frames a stream collects first, and however often one runs empty.        *)
THEOREM HeardHolds == Spec => []HeardInOrder
<1>1. HeardInv => HeardInOrder
  <2> SUFFICES ASSUME HeardInv, NEW g \in Join, NEW p \in Peer
      PROVE  \E n \in 0..spoken[g][p] :
               /\ played[g][p] \o streams[g][p].queue = [i \in 1..n |-> i]
               /\ {events[g][i].frame : i \in VoicesOf(events[g], p)}
                     = (n + 1)..spoken[g][p]
               /\ \A i, j \in VoicesOf(events[g], p) :
                    i < j => events[g][i].frame < events[g][j].frame
    BY DEF HeardInOrder
  <2>1. Heard(g, p) /\ Mixed(g, p) \in Seq(Nat) /\ spoken[g][p] \in Nat
    BY DEF HeardInv, VoiceTypes, Mixed, Stream
  <2>2. Len(Mixed(g, p)) \in 0..spoken[g][p]
    BY <2>1 DEF Heard
  <2> WITNESS Len(Mixed(g, p)) \in 0..spoken[g][p]
  <2> QED
    BY <2>1 DEF Heard, Mixed, Frames, Rising
<1> QED
  BY <1>1, TypesInit, TypesStep, HeardInit, HeardStep, PTL DEF Spec

-----------------------------------------------------------------------------
(* OneConversation.  What the browsers and the relay hold, and of what kind. *)

Texts == [type : {"data"}, room : Invite, id : Nat, n : Nat, by : Nat]
Envelopes == Texts \union [type : {"join"}, room : Invite] \union [type : {"close"}]

WebTypes ==
    /\ identities \in Nat /\ sockets \in Nat
    /\ me \in [Browser -> {Nobody} \union [id : Nat \ {0}, room : Invite, seq : Nat]]
    /\ socket \in [Browser -> [st : {"none", "connecting", "open", "closing"}, at : Nat]]
    /\ upward \in [Browser -> Seq(Envelopes)]
    /\ downward \in [Browser -> Seq(Texts)]
    /\ member \in [Browser -> {Gone} \union [st : {"new"}]
                              \union [st : {"in"}, room : Invite, next : Nat \ {0}]]
    /\ said \in [Invite -> Seq(Texts)]
    /\ shown \in [Browser -> Seq([text : Texts, to : Nat])]

(* The messages that were sent through a room's channel, and those that are *)
(* on their way to the relay, the next one of an open socket among them.    *)
HeardIn(i) == {said[i][k] : k \in 1..Len(said[i])}
Waiting(b) == {x \in {upward[b][k] : k \in 1..Len(upward[b])} : x.type = "data"}
OnTheWay(b) == Waiting(b) \union (IF socket[b].st = "open" THEN {Data(b)} ELSE {})

(* Numbers of identities and of sockets are used once.                      *)
Accounted ==
    /\ \A b \in Browser : me[b].id <= identities /\ socket[b].at <= sockets
    /\ \A i \in Invite : \A x \in HeardIn(i) :
          /\ x.room = i /\ x.id <= identities
          /\ 0 < x.by /\ x.by <= sockets
    /\ \A b \in Browser : \A x \in Waiting(b) :
          /\ x.by = socket[b].at /\ x.id <= identities
    /\ \A b \in Browser : \A k \in 1..Len(shown[b]) : shown[b][k].to <= identities
    /\ \A a, b \in Browser : a # b /\ socket[a].at = socket[b].at => socket[a].at = 0

(* How far a connection has come, at its two ends.                          *)
Stages ==
    \A b \in Browser :
       /\ socket[b].st # "none" => me[b] # Nobody /\ socket[b].at > 0
       /\ socket[b].st \in {"none", "connecting"} => member[b] = Gone /\ downward[b] = <<>>
       /\ socket[b].st = "connecting" => shown[b] = <<>>
       /\ member[b] = Gone => upward[b] = <<>>
       /\ member[b].st = "new" => downward[b] = <<>> /\ shown[b] = <<>>
       /\ socket[b].st = "connecting" \/ member[b].st = "new" =>
             \A i \in Invite : \A x \in HeardIn(i) : x.by # socket[b].at

(* The numbers of a source, an identity on one socket, go up one by one.    *)
Source(x, y) == x.id = y.id /\ x.by = y.by
Gapless(T) ==
    \A x, y \in T : Source(x, y) =>
       \A n \in (x.n + 1)..(y.n - 1) : \E z \in T : Source(z, x) /\ z.n = n
Climbing(s) ==
    \A k, j \in 1..Len(s) :
       k < j /\ s[k].type = "data" /\ s[j].type = "data" /\ Source(s[k], s[j]) => s[k].n < s[j].n

(* All that the socket of b has brought and is about to bring to room i.    *)
Line(b, i) == {x \in HeardIn(i) : x.by = socket[b].at} \union {x \in OnTheWay(b) : x.room = i}

Rooms(b) == {i \in Invite : member[b].st = "in" => i = member[b].room}

Numbering ==
    /\ \A i \in Invite : Climbing(said[i]) /\ Gapless(HeardIn(i))
    /\ \A b \in Browser : member[b] # Gone =>
          /\ Climbing(upward[b])
          /\ socket[b].st = "open" =>
                \A x \in Waiting(b) : x.id = me[b].id => x.n < me[b].seq
          /\ \A i \in Rooms(b) :
                /\ Gapless(Line(b, i))
                /\ \A x \in HeardIn(i), y \in OnTheWay(b) : Source(x, y) => x.n < y.n

(* Of a room's messages t those from position p on are on their way, as d;  *)
(* s shows only what came before, in the room's order, and between two that *)
(* one identity was shown, and after the last one, all of the same sender.  *)
Arriving(d, t, p) == p + Len(d) <= Len(t) + 1 /\ \A j \in 1..Len(d) : d[j] = t[p + j - 1]
Shown(s, t, p) ==
    \A k \in 1..Len(s) : (\E q \in 1..(p - 1) : s[k].text = t[q]) /\ s[k].text.id # s[k].to
Ordered(s, t, p) ==
    \A j \in 1..Len(s) : \A k \in 1..(j - 1) : \A q, h \in 1..(p - 1) :
       t[q] = s[k].text /\ t[h] = s[j].text => q < h
Unbroken(s, t, p) ==
    \A j \in 1..Len(s) : \A k \in 1..(j - 1) : \A q, h, m \in 1..(p - 1) :
       /\ t[q] = s[k].text /\ t[h] = s[j].text /\ s[k].to = s[j].to
       /\ q < m /\ m < h /\ t[m].id = t[q].id
       => \E g \in (k + 1)..(j - 1) : s[g].text = t[m]
UpToDate(s, t, p, id) ==
    \A k \in 1..Len(s) : \A q, h \in 1..(p - 1) :
       s[k].to = id /\ q < h /\ t[q] = s[k].text /\ t[h].id = t[q].id =>
          \E g \in (k + 1)..Len(s) : s[g].text = t[h]

Follows(b, r, p) ==
    /\ Arriving(downward[b], said[r], p)
    /\ member[b].st = "in" => member[b].room = r /\ member[b].next = p + Len(downward[b])
    /\ Shown(shown[b], said[r], p)
    /\ \A k \in 1..Len(shown[b]) : shown[b][k].to = me[b].id => me[b].room = r
    /\ Ordered(shown[b], said[r], p) /\ Unbroken(shown[b], said[r], p)
    /\ UpToDate(shown[b], said[r], p, me[b].id)

Listening ==
    \A b \in Browser :
       \/ shown[b] = <<>> /\ downward[b] = <<>> /\ member[b].st # "in"
       \/ \E r \in Invite : \E p \in Nat \ {0} : Follows(b, r, p)

WebInv == WebTypes /\ Accounted /\ Stages /\ Numbering /\ Listening

LEMMA ElementOf ==
  ASSUME NEW S, NEW s \in Seq(S)
  PROVE  \A i \in 1..Len(s) : s[i] \in S
  OBVIOUS

LEMMA GaplessMore ==
  ASSUME NEW T, NEW d \in T, NEW e, Gapless(T),
         \A x \in T : x.n \in Nat,
         e.n = d.n + 1, Source(e, d),
         \A x \in T : Source(x, d) => x.n <= d.n
  PROVE  Gapless(T \union {e})
<1> SUFFICES ASSUME NEW x \in T \union {e}, NEW y \in T \union {e}, Source(x, y),
                    NEW n \in (x.n + 1)..(y.n - 1)
             PROVE  \E z \in T \union {e} : Source(z, x) /\ z.n = n
  BY DEF Gapless
<1>1. x.n \in Nat /\ y.n \in Nat /\ d.n \in Nat /\ n \in Nat /\ x.n < n /\ n < y.n
  OBVIOUS
<1>2. CASE y \in T
  <2>1. x \in T
    <3>1. SUFFICES ASSUME x = e PROVE FALSE
      OBVIOUS
    <3>2. y.n <= d.n
      BY <1>2, <3>1 DEF Source
    <3>3. QED
      BY <1>1, <3>1, <3>2
  <2>2. QED
    BY <1>2, <2>1 DEF Gapless
<1>3. CASE y = e
  <2>1. x \in T
    BY <1>1, <1>3
  <2>2. Source(x, d) /\ n <= d.n
    BY <1>1, <1>3 DEF Source
  <2>3. CASE n = d.n
    BY <2>2, <2>3 DEF Source
  <2>4. CASE n < d.n
    <3>1. n \in (x.n + 1)..(d.n - 1)
      BY <1>1, <2>4
    <3>2. QED
      BY <2>1, <2>2, <3>1 DEF Gapless
  <2>5. QED
    BY <1>1, <2>2, <2>3, <2>4
<1>4. QED
  BY <1>2, <1>3

LEMMA GaplessFresh ==
  ASSUME NEW T, NEW e, Gapless(T), e.n \in Nat, \A x \in T : ~Source(x, e)
  PROVE  Gapless(T \union {e})
<1> SUFFICES ASSUME NEW x \in T \union {e}, NEW y \in T \union {e}, Source(x, y),
                    NEW n \in (x.n + 1)..(y.n - 1)
             PROVE  \E z \in T \union {e} : Source(z, x) /\ z.n = n
  BY DEF Gapless
<1>1. (x \in T /\ y \in T) \/ (x = e /\ y = e)
  BY DEF Source
<1>2. CASE x \in T /\ y \in T
  BY <1>2 DEF Gapless
<1>3. CASE x = e /\ y = e
  <2>1. (e.n + 1)..(e.n - 1) = {}
    OBVIOUS
  <2>2. QED
    BY <1>3, <2>1
<1>4. QED
  BY <1>1, <1>2, <1>3

(* What comes last can be left away.                                        *)
LEMMA GaplessLess ==
  ASSUME NEW T, NEW U, Gapless(U), T \subseteq U,
         \A x \in U : x.n \in Nat,
         \A x \in T, y \in U \ T : Source(x, y) => x.n < y.n
  PROVE  Gapless(T)
<1> SUFFICES ASSUME NEW x \in T, NEW y \in T, Source(x, y),
                    NEW n \in (x.n + 1)..(y.n - 1)
             PROVE  \E z \in T : Source(z, x) /\ z.n = n
  BY DEF Gapless
<1>1. PICK z \in U : Source(z, x) /\ z.n = n
  BY DEF Gapless
<1>2. x.n \in Nat /\ y.n \in Nat /\ n \in Nat /\ n < y.n
  OBVIOUS
<1>3. z \in T
  <2>1. SUFFICES ASSUME z \notin T PROVE FALSE
    OBVIOUS
  <2>2. Source(y, z)
    BY <1>1 DEF Source
  <2>3. y.n < z.n
    BY <2>1, <2>2
  <2>4. QED
    BY <1>1, <1>2, <2>3
<1>4. QED
  BY <1>1, <1>3

(* A room hears the next message of a line.                                 *)
LEMMA GaplessHeard ==
  ASSUME NEW H, NEW G, NEW e \in G, Gapless(H), Gapless(G),
         \A x \in H \union G : x.n \in Nat,
         \A x \in H : x.by = e.by => x \in G,
         \A x \in H : Source(x, e) => x.n < e.n,
         \A x \in G \ H : Source(x, e) => x = e \/ e.n < x.n
  PROVE  Gapless(H \union {e})
<1> SUFFICES ASSUME NEW x \in H \union {e}, NEW y \in H \union {e}, Source(x, y),
                    NEW n \in (x.n + 1)..(y.n - 1)
             PROVE  \E z \in H \union {e} : Source(z, x) /\ z.n = n
  BY DEF Gapless
<1>1. x.n \in Nat /\ y.n \in Nat /\ e.n \in Nat /\ n \in Nat /\ x.n < n /\ n < y.n
  OBVIOUS
<1>2. CASE x \in H /\ y \in H
  BY <1>2 DEF Gapless
<1>3. CASE x = e
  <2>1. y = e \/ y.n < e.n
    BY <1>3 DEF Source
  <2>2. QED
    BY <1>1, <1>3, <2>1
<1>4. CASE x \in H /\ y = e
  <2>1. x \in G
    BY <1>4 DEF Source
  <2>2. PICK z \in G : Source(z, x) /\ z.n = n
    BY <2>1, <1>4 DEF Gapless
  <2>3. Source(z, e)
    BY <2>2, <1>4 DEF Source
  <2>4. z \in H
    <3>1. SUFFICES ASSUME z \notin H PROVE FALSE
      OBVIOUS
    <3>2. z = e \/ e.n < z.n
      BY <3>1, <2>3
    <3>3. QED
      BY <3>2, <2>2, <1>1, <1>4
  <2>5. QED
    BY <2>2, <2>4
<1>5. QED
  BY <1>2, <1>3, <1>4

-----------------------------------------------------------------------------
LEMMA WebTypesInit == WebInit => WebTypes
<1> SUFFICES ASSUME WebInit PROVE WebTypes
  OBVIOUS
<1> USE DEF WebInit
<1>1. identities \in Nat /\ sockets \in Nat
  OBVIOUS
<1>2. /\ me \in [Browser -> {Nobody} \union [id : Nat \ {0}, room : Invite, seq : Nat]]
      /\ member \in [Browser -> {Gone} \union [st : {"new"}]
                              \union [st : {"in"}, room : Invite, next : Nat \ {0}]]
  OBVIOUS
<1>3. socket \in [Browser -> [st : {"none", "connecting", "open", "closing"}, at : Nat]]
  BY DEF Unopened
<1>4. /\ upward \in [Browser -> Seq(Envelopes)] /\ downward \in [Browser -> Seq(Texts)]
      /\ said \in [Invite -> Seq(Texts)]
      /\ shown \in [Browser -> Seq([text : Texts, to : Nat])]
  OBVIOUS
<1>5. QED
  BY <1>1, <1>2, <1>3, <1>4 DEF WebTypes

LEMMA DataIsText ==
  ASSUME WebTypes, NEW b \in Browser, me[b] # Nobody
  PROVE  /\ Data(b) \in Texts /\ Data(b).type = "data" /\ Data(b).room = me[b].room
         /\ Data(b).id = me[b].id /\ Data(b).n = me[b].seq /\ Data(b).by = socket[b].at
         /\ me[b].id \in Nat \ {0} /\ me[b].room \in Invite /\ me[b].seq \in Nat
<1>1. /\ me[b] \in [id : Nat \ {0}, room : Invite, seq : Nat]
      /\ socket[b] \in [st : {"none", "connecting", "open", "closing"}, at : Nat]
  BY DEF WebTypes
<1>2. QED
  BY <1>1 DEF Data, Texts

LEMMA NextElements ==
  ASSUME NEW S, NEW s \in Seq(S), s # <<>>
  PROVE  /\ Len(s) \in Nat /\ Len(s) > 0 /\ Head(s) \in S /\ Head(s) = s[1]
         /\ Tail(s) \in Seq(S) /\ Len(Tail(s)) = Len(s) - 1
         /\ \A k \in 1..(Len(s) - 1) : Tail(s)[k] = s[k + 1]
  OBVIOUS

LEMMA MoreElements ==
  ASSUME NEW S, NEW s \in Seq(S), NEW e \in S
  PROVE  /\ Append(s, e) \in Seq(S) /\ Len(Append(s, e)) = Len(s) + 1 /\ Len(s) \in Nat
         /\ \A k \in 1..Len(s) : Append(s, e)[k] = s[k] /\ s[k] \in S
         /\ Append(s, e)[Len(s) + 1] = e
  OBVIOUS

LEMMA ConnectsTypes ==
  ASSUME WebTypes, NEW b \in Browser, Connects(b)
  PROVE  /\ sockets' \in Nat
         /\ socket' \in [Browser -> [st : {"none", "connecting", "open", "closing"}, at : Nat]]
         /\ shown' \in [Browser -> Seq([text : Texts, to : Nat])]
<1>1. sockets + 1 \in Nat
  BY DEF WebTypes
<1>2. [st |-> "connecting", at |-> sockets + 1]
         \in [st : {"none", "connecting", "open", "closing"}, at : Nat]
  BY <1>1
<1>3. sockets' \in Nat
         /\ socket' \in [Browser -> [st : {"none", "connecting", "open", "closing"}, at : Nat]]
  BY <1>1, <1>2 DEF Connects, WebTypes
<1>4. PICK S : S = [text : Texts, to : Nat]
  OBVIOUS
<1>5. shown \in [Browser -> Seq(S)] /\ shown' = [shown EXCEPT ![b] = <<>>]
  BY <1>4 DEF Connects, WebTypes
<1>6. shown' \in [Browser -> Seq(S)]
  BY <1>5
<1>7. QED
  BY <1>3, <1>4, <1>6

LEMMA JoinsTypes ==
  ASSUME WebTypes, NEW b \in Browser, Joins(b)
  PROVE  /\ identities' \in Nat
         /\ me' \in [Browser -> {Nobody} \union [id : Nat \ {0}, room : Invite, seq : Nat]]
<1>1. identities + 1 \in Nat \ {0}
  BY DEF WebTypes
<1>2. PICK i \in Invite : me' = [me EXCEPT ![b] = [id |-> identities + 1, room |-> i, seq |-> 0]]
  BY DEF Joins
<1>3. [id |-> identities + 1, room |-> i, seq |-> 0] \in [id : Nat \ {0}, room : Invite, seq : Nat]
  BY <1>1
<1>4. QED
  BY <1>1, <1>2, <1>3 DEF Joins, WebTypes

LEMMA EndsTypes ==
  ASSUME WebTypes, NEW b \in Browser, Ends(b)
  PROVE  /\ upward' \in [Browser -> Seq(Envelopes)]
         /\ member' \in [Browser -> {Gone} \union [st : {"new"}]
                              \union [st : {"in"}, room : Invite, next : Nat \ {0}]]
  BY DEF Ends, WebTypes

LEMMA TakenTypes ==
  ASSUME WebTypes, NEW b \in Browser, upward[b] # <<>>, Taken(b)
  PROVE  /\ upward' \in [Browser -> Seq(Envelopes)]
         /\ Head(upward[b]) \in Envelopes
<1>1. upward[b] \in Seq(Envelopes)
  BY DEF WebTypes
<1>2. Tail(upward[b]) \in Seq(Envelopes) /\ Head(upward[b]) \in Envelopes
  BY <1>1, NextElements
<1>3. QED
  BY <1>2 DEF Taken, WebTypes

LEMMA WebTypesStep == WebTypes /\ Stages /\ [WebNext]_webVars => WebTypes'
<1> SUFFICES ASSUME WebTypes, Stages, [WebNext]_webVars PROVE WebTypes'
  OBVIOUS
<1>1. CASE UNCHANGED webVars
  BY <1>1 DEF webVars, WebTypes
<1>2. ASSUME NEW b \in Browser, NewWebChat(b) PROVE WebTypes'
  <2>1. /\ identities' \in Nat
        /\ me' \in [Browser -> {Nobody} \union [id : Nat \ {0}, room : Invite, seq : Nat]]
    BY <1>2, JoinsTypes DEF NewWebChat
  <2>2. /\ sockets' \in Nat
        /\ socket' \in [Browser -> [st : {"none", "connecting", "open", "closing"}, at : Nat]]
        /\ shown' \in [Browser -> Seq([text : Texts, to : Nat])]
    BY <1>2, ConnectsTypes DEF NewWebChat
  <2>3. QED
    BY <1>2, <2>1, <2>2 DEF NewWebChat, WebTypes
<1>3. ASSUME NEW b \in Browser, JoinInvite(b) PROVE WebTypes'
  <2>1. /\ identities' \in Nat
        /\ me' \in [Browser -> {Nobody} \union [id : Nat \ {0}, room : Invite, seq : Nat]]
    BY <1>3, JoinsTypes DEF JoinInvite
  <2>2. QED
    BY <1>3, <2>1 DEF JoinInvite, WebTypes
<1>4. ASSUME NEW b \in Browser, ConnectPage(b) PROVE WebTypes'
  <2>1. /\ sockets' \in Nat
        /\ socket' \in [Browser -> [st : {"none", "connecting", "open", "closing"}, at : Nat]]
        /\ shown' \in [Browser -> Seq([text : Texts, to : Nat])]
    BY <1>4, ConnectsTypes DEF ConnectPage
  <2>2. QED
    BY <1>4, <2>1 DEF ConnectPage, WebTypes
<1>5. ASSUME NEW b \in Browser, SocketOpens(b) PROVE WebTypes'
  <2>9. me[b] # Nobody
    BY <1>5 DEF SocketOpens, Stages
  <2>1. me[b].room \in Invite
    BY <2>9, DataIsText
  <2>2. JoinEnvelope(b) \in Envelopes
    BY <2>1 DEF JoinEnvelope, Envelopes
  <2>3. <<JoinEnvelope(b)>> \in Seq(Envelopes)
    BY <2>2
  <2>4. socket[b] \in [st : {"none", "connecting", "open", "closing"}, at : Nat]
    BY DEF WebTypes
  <2>5. socket' \in [Browser -> [st : {"none", "connecting", "open", "closing"}, at : Nat]]
    BY <1>5, <2>4 DEF SocketOpens, WebTypes
  <2>6. upward' \in [Browser -> Seq(Envelopes)]
    BY <1>5, <2>3 DEF SocketOpens, WebTypes
  <2>7. member' \in [Browser -> {Gone} \union [st : {"new"}]
                              \union [st : {"in"}, room : Invite, next : Nat \ {0}]]
    BY <1>5 DEF SocketOpens, WebTypes
  <2>8. QED
    BY <1>5, <2>5, <2>6, <2>7 DEF SocketOpens, WebTypes
<1>6. ASSUME NEW b \in Browser, SendText(b) PROVE WebTypes'
  <2>1. me[b] \in [id : Nat \ {0}, room : Invite, seq : Nat] /\ Data(b) \in Envelopes
    BY <1>6, DataIsText DEF SendText, WebTypes, Envelopes
  <2>2. me' \in [Browser -> {Nobody} \union [id : Nat \ {0}, room : Invite, seq : Nat]]
    <3>1. [me[b] EXCEPT !.seq = @ + 1] \in [id : Nat \ {0}, room : Invite, seq : Nat]
      BY <2>1
    <3>2. PICK f : f = [me[b] EXCEPT !.seq = @ + 1]
      OBVIOUS
    <3>3. me' = [me EXCEPT ![b] = f]
      BY <1>6, <3>2 DEF SendText
    <3>4. QED
      BY <3>1, <3>2, <3>3 DEF WebTypes
  <2>3. upward[b] \in Seq(Envelopes)
    BY DEF WebTypes
  <2>4. Append(upward[b], Data(b)) \in Seq(Envelopes)
    BY <2>1, <2>3, MoreElements
  <2>5. upward' \in [Browser -> Seq(Envelopes)]
    BY <1>6, <2>4 DEF SendText, WebTypes
  <2>6. QED
    BY <1>6, <2>2, <2>5 DEF SendText, WebTypes
<1>7. ASSUME NEW b \in Browser, HangUp(b) PROVE WebTypes'
  <2>1. [type |-> "close"] \in Envelopes
    BY DEF Envelopes
  <2>2. upward[b] \in Seq(Envelopes)
    BY DEF WebTypes
  <2>3. Append(upward[b], [type |-> "close"]) \in Seq(Envelopes)
    BY <2>1, <2>2, MoreElements
  <2>4. upward' \in [Browser -> Seq(Envelopes)]
    BY <1>7, <2>3 DEF HangUp, WebTypes
  <2>5. socket' \in [Browser -> [st : {"none", "connecting", "open", "closing"}, at : Nat]]
    <3>1. socket[b] \in [st : {"none", "connecting", "open", "closing"}, at : Nat]
      BY DEF WebTypes
    <3>2. QED
      BY <1>7, <3>1 DEF HangUp, WebTypes
  <2>6. QED
    BY <1>7, <2>4, <2>5 DEF HangUp, WebTypes
<1>8. ASSUME NEW b \in Browser, RelayAdmits(b) PROVE WebTypes'
  <2>1. CASE Head(upward[b]).type = "join"
    <3>1. /\ upward[b] # <<>> /\ Taken(b)
          /\ member' = [member EXCEPT ![b] = [st |-> "in", room |-> Head(upward[b]).room,
                                   next |-> Len(said[Head(upward[b]).room]) + 1]]
      BY <1>8, <2>1 DEF RelayAdmits
    <3>2. upward' \in [Browser -> Seq(Envelopes)] /\ Head(upward[b]) \in Envelopes
      BY <3>1, TakenTypes
    <3>3. Head(upward[b]).room \in Invite
      BY <3>2, <2>1 DEF Envelopes, Texts
    <3>4. said[Head(upward[b]).room] \in Seq(Texts)
      BY <3>3 DEF WebTypes
    <3>5. Len(said[Head(upward[b]).room]) + 1 \in Nat \ {0}
      BY <3>4
    <3>6. [st |-> "in", room |-> Head(upward[b]).room, next |-> Len(said[Head(upward[b]).room]) + 1]
             \in [st : {"in"}, room : Invite, next : Nat \ {0}]
      BY <3>3, <3>5
    <3>7. member' \in [Browser -> {Gone} \union [st : {"new"}]
                              \union [st : {"in"}, room : Invite, next : Nat \ {0}]]
      BY <3>1, <3>6 DEF WebTypes
    <3>8. QED
      BY <1>8, <3>2, <3>7 DEF RelayAdmits, WebTypes
  <2>2. CASE Head(upward[b]).type # "join"
    <3>1. Ends(b)
      BY <1>8, <2>2 DEF RelayAdmits
    <3>2. QED
      BY <1>8, <3>1, EndsTypes DEF RelayAdmits, WebTypes
  <2>3. QED
    BY <2>1, <2>2
<1>9. ASSUME NEW b \in Browser, RelayReads(b) PROVE WebTypes'
  <2>1. upward[b] \in Seq(Envelopes) /\ upward[b] # <<>>
    BY <1>9 DEF RelayReads, WebTypes
  <2>2. PICK e \in Envelopes : e = Head(upward[b])
    BY <2>1, NextElements
  <2>3. said' \in [Invite -> Seq(Texts)]
    <3>1. CASE e.type = "data" /\ e.room = member[b].room
      <4>1. e \in Texts /\ e.room \in Invite
        BY <3>1 DEF Envelopes, Texts
      <4>2. said[e.room] \in Seq(Texts)
        BY <4>1 DEF WebTypes
      <4>3. Append(said[e.room], e) \in Seq(Texts)
        BY <4>1, <4>2, MoreElements
      <4>4. said' = [said EXCEPT ![e.room] = Append(said[e.room], e)]
        BY <1>9, <2>2, <3>1 DEF RelayReads
      <4>5. QED
        BY <4>3, <4>4 DEF WebTypes
    <3>2. CASE ~(e.type = "data" /\ e.room = member[b].room)
      BY <1>9, <2>2, <3>2 DEF RelayReads, WebTypes
    <3>3. QED
      BY <3>1, <3>2
  <2>4. Ends(b) \/ (Taken(b) /\ member' = member)
    BY <1>9, <2>2 DEF RelayReads
  <2>5. /\ upward' \in [Browser -> Seq(Envelopes)]
        /\ member' \in [Browser -> {Gone} \union [st : {"new"}]
                              \union [st : {"in"}, room : Invite, next : Nat \ {0}]]
    <3>1. CASE Ends(b)
      BY <3>1, EndsTypes
    <3>2. CASE Taken(b) /\ member' = member
      BY <3>2, <2>1, TakenTypes DEF WebTypes
    <3>3. QED
      BY <2>4, <3>1, <3>2
  <2>6. QED
    BY <1>9, <2>3, <2>5 DEF RelayReads, WebTypes
<1>10. ASSUME NEW b \in Browser, RelayWrites(b) PROVE WebTypes'
  <2>1. CASE Behind(b)
    <3>1. Ends(b) /\ downward' = downward
      BY <1>10, <2>1 DEF RelayWrites, Lags
    <3>2. QED
      BY <1>10, <3>1, EndsTypes DEF RelayWrites, WebTypes
  <2>2. CASE ~Behind(b)
    <3>1. PICK r \in Invite, p \in Nat \ {0} :
             member[b] = [st |-> "in", room |-> r, next |-> p] /\ p <= Len(said[r])
      BY <1>10 DEF RelayWrites, WebTypes, Gone
    <3>2. said[r] \in Seq(Texts) /\ downward[b] \in Seq(Texts)
      BY DEF WebTypes
    <3>3. PICK x \in Texts : x = said[r][p]
      BY <3>1, <3>2
    <3>4. Append(downward[b], x) \in Seq(Texts)
      BY <3>2, MoreElements
    <3>5. downward' = [downward EXCEPT ![b] = Append(@, x)] /\ upward' = upward
          /\ member' = [member EXCEPT ![b].next = @ + 1]
      BY <1>10, <2>2, <3>1, <3>3 DEF RelayWrites
    <3>6. [st |-> "in", room |-> r, next |-> p + 1] \in [st : {"in"}, room : Invite, next : Nat \ {0}]
      OBVIOUS
    <3>7. [member[b] EXCEPT !.next = @ + 1] = [st |-> "in", room |-> r, next |-> p + 1]
      BY <3>1
    <3>8. member' \in [Browser -> {Gone} \union [st : {"new"}]
                              \union [st : {"in"}, room : Invite, next : Nat \ {0}]]
      BY <3>5, <3>6, <3>7 DEF WebTypes
    <3>9. downward' \in [Browser -> Seq(Texts)]
      BY <3>4, <3>5 DEF WebTypes
    <3>10. QED
      BY <1>10, <3>5, <3>8, <3>9 DEF RelayWrites, WebTypes
  <2>3. QED
    BY <2>1, <2>2
<1>11. ASSUME NEW b \in Browser, ConnectionBreaks(b) PROVE WebTypes'
  BY <1>11, EndsTypes DEF ConnectionBreaks, WebTypes
<1>12. ASSUME NEW b \in Browser, MessageArrives(b) PROVE WebTypes'
  <2>1. downward[b] \in Seq(Texts) /\ downward[b] # <<>>
    BY <1>12 DEF MessageArrives, WebTypes
  <2>2. Head(downward[b]) \in Texts /\ Tail(downward[b]) \in Seq(Texts)
    BY <2>1, NextElements
  <2>3. downward' \in [Browser -> Seq(Texts)]
    BY <1>12, <2>2 DEF MessageArrives, WebTypes
  <2>4. PICK S : S = [text : Texts, to : Nat]
    OBVIOUS
  <2>5. me[b].id \in Nat
    BY DEF WebTypes, Nobody
  <2>6. PICK e : e = [text |-> Head(downward[b]), to |-> me[b].id]
    OBVIOUS
  <2>7. e \in S
    BY <2>2, <2>4, <2>5, <2>6
  <2>8. shown \in [Browser -> Seq(S)]
    BY <2>4 DEF WebTypes
  <2>9. shown' = shown \/ shown' = [shown EXCEPT ![b] = Append(@, e)]
    BY <1>12, <2>6 DEF MessageArrives
  <2>10. Append(shown[b], e) \in Seq(S)
    BY <2>7, <2>8, MoreElements
  <2>11. shown' \in [Browser -> Seq(S)]
    BY <2>8, <2>9, <2>10
  <2>12. QED
    BY <1>12, <2>3, <2>4, <2>11 DEF MessageArrives, WebTypes
<1>13. ASSUME NEW b \in Browser, SocketCloses(b) PROVE WebTypes'
  <2>1. socket[b] \in [st : {"none", "connecting", "open", "closing"}, at : Nat]
    BY DEF WebTypes
  <2>2. socket' \in [Browser -> [st : {"none", "connecting", "open", "closing"}, at : Nat]]
    BY <1>13, <2>1 DEF SocketCloses, WebTypes
  <2>3. downward' \in [Browser -> Seq(Texts)]
    BY <1>13 DEF SocketCloses, WebTypes
  <2>4. QED
    BY <1>13, <2>2, <2>3 DEF SocketCloses, WebTypes
<1>14. QED
  BY <1>1, <1>2, <1>3, <1>4, <1>5, <1>6, <1>7, <1>8, <1>9, <1>10, <1>11, <1>12, <1>13 DEF WebNext

-----------------------------------------------------------------------------
(* What an action does to the sets of messages.                             *)

LEMMA AllTexts ==
  ASSUME WebTypes
  PROVE  /\ \A i \in Invite : HeardIn(i) \subseteq Texts
         /\ \A b \in Browser : Waiting(b) \subseteq Texts
<1>1. \A i \in Invite : HeardIn(i) \subseteq Texts
  <2> SUFFICES ASSUME NEW i \in Invite, NEW k \in 1..Len(said[i]) PROVE said[i][k] \in Texts
    BY DEF HeardIn
  <2>1. said[i] \in Seq(Texts)
    BY DEF WebTypes
  <2>2. QED
    BY <2>1, ElementOf
<1>2. \A b \in Browser : Waiting(b) \subseteq Texts
  <2> SUFFICES ASSUME NEW b \in Browser, NEW k \in 1..Len(upward[b]), upward[b][k].type = "data"
               PROVE  upward[b][k] \in Texts
    BY DEF Waiting
  <2>1. upward[b] \in Seq(Envelopes)
    BY DEF WebTypes
  <2>2. upward[b][k] \in Envelopes
    BY <2>1, ElementOf
  <2>3. QED
    BY <2>2 DEF Envelopes
<1>3. QED
  BY <1>1, <1>2

LEMMA RoomHears ==
  ASSUME WebTypes, NEW r \in Invite, NEW e \in Texts, said' = [said EXCEPT ![r] = Append(@, e)]
  PROVE  \A i \in Invite : HeardIn(i)' = IF i = r THEN HeardIn(i) \union {e} ELSE HeardIn(i)
<1>1. PICK s \in Seq(Texts) : s = said[r]
  BY DEF WebTypes
<1>2. /\ Len(Append(s, e)) = Len(s) + 1 /\ Append(s, e)[Len(s) + 1] = e /\ Len(s) \in Nat
      /\ \A k \in 1..Len(s) : Append(s, e)[k] = s[k]
  BY MoreElements
<1>3. {Append(s, e)[k] : k \in 1..Len(Append(s, e))} = {s[k] : k \in 1..Len(s)} \union {e}
  <2>1. \A k \in 1..(Len(s) + 1) : k \in 1..Len(s) \/ k = Len(s) + 1
    BY <1>2
  <2>2. 1..Len(s) \subseteq 1..(Len(s) + 1) /\ Len(s) + 1 \in 1..(Len(s) + 1)
    BY <1>2
  <2>3. QED
    BY <1>2, <2>1, <2>2
<1>4. said'[r] = Append(s, e) /\ \A i \in Invite : i # r => said'[i] = said[i]
  BY <1>1 DEF WebTypes
<1>5. QED
  BY <1>1, <1>3, <1>4 DEF HeardIn

LEMMA WaitingAdded ==
  ASSUME WebTypes, NEW b \in Browser, NEW e \in Envelopes,
         upward' = [upward EXCEPT ![b] = Append(@, e)]
  PROVE  \A c \in Browser :
            Waiting(c)' = IF c = b /\ e.type = "data" THEN Waiting(c) \union {e} ELSE Waiting(c)
<1>1. PICK s \in Seq(Envelopes) : s = upward[b]
  BY DEF WebTypes
<1>2. /\ Len(Append(s, e)) = Len(s) + 1 /\ Append(s, e)[Len(s) + 1] = e /\ Len(s) \in Nat
      /\ \A k \in 1..Len(s) : Append(s, e)[k] = s[k]
  BY MoreElements
<1>3. {Append(s, e)[k] : k \in 1..Len(Append(s, e))} = {s[k] : k \in 1..Len(s)} \union {e}
  <2>1. \A k \in 1..(Len(s) + 1) : k \in 1..Len(s) \/ k = Len(s) + 1
    BY <1>2
  <2>2. 1..Len(s) \subseteq 1..(Len(s) + 1) /\ Len(s) + 1 \in 1..(Len(s) + 1)
    BY <1>2
  <2>3. QED
    BY <1>2, <2>1, <2>2
<1>4. upward'[b] = Append(s, e) /\ \A c \in Browser : c # b => upward'[c] = upward[c]
  BY <1>1 DEF WebTypes
<1>5. QED
  BY <1>1, <1>3, <1>4 DEF Waiting

LEMMA WaitingTaken ==
  ASSUME WebTypes, NEW b \in Browser, upward[b] # <<>>, Taken(b)
  PROVE  /\ \A c \in Browser : c # b => Waiting(c)' = Waiting(c)
         /\ Waiting(b) = IF Head(upward[b]).type = "data"
                         THEN Waiting(b)' \union {Head(upward[b])} ELSE Waiting(b)'
<1>1. PICK s \in Seq(Envelopes) : s = upward[b]
  BY DEF WebTypes
<1>2. /\ Len(s) \in Nat /\ Len(s) > 0 /\ Head(s) = s[1] /\ Len(Tail(s)) = Len(s) - 1
      /\ \A k \in 1..(Len(s) - 1) : Tail(s)[k] = s[k + 1]
  BY <1>1, NextElements
<1>3. {s[k] : k \in 1..Len(s)} = {Tail(s)[k] : k \in 1..Len(Tail(s))} \union {Head(s)}
  <2>1. \A k \in 1..Len(s) : k = 1 \/ (k - 1 \in 1..(Len(s) - 1) /\ (k - 1) + 1 = k)
    BY <1>2
  <2>2. \A k \in 1..(Len(s) - 1) : k + 1 \in 1..Len(s)
    BY <1>2
  <2>3. 1 \in 1..Len(s)
    BY <1>2
  <2>4. \A k \in 1..Len(s) : s[k] = Head(s) \/ \E j \in 1..Len(Tail(s)) : Tail(s)[j] = s[k]
    BY <1>2, <2>1
  <2>5. \A k \in 1..Len(Tail(s)) : \E j \in 1..Len(s) : s[j] = Tail(s)[k]
    BY <1>2, <2>2
  <2>6. \E j \in 1..Len(s) : s[j] = Head(s)
    BY <1>2, <2>3
  <2>7. QED
    BY <2>4, <2>5, <2>6
<1>4. upward'[b] = Tail(s) /\ \A c \in Browser : c # b => upward'[c] = upward[c]
  BY <1>1 DEF WebTypes, Taken
<1>5. PICK A, B, h : /\ A = {s[k] : k \in 1..Len(s)}
                     /\ B = {Tail(s)[k] : k \in 1..Len(Tail(s))}
                     /\ h = Head(s)
  OBVIOUS
<1>6. Waiting(b) = {x \in A : x.type = "data"} /\ Waiting(b)' = {x \in B : x.type = "data"}
  BY <1>1, <1>4, <1>5 DEF Waiting
<1>7. A = B \union {h}
  BY <1>3, <1>5
<1>8. {x \in A : x.type = "data"} = IF h.type = "data" THEN {x \in B : x.type = "data"} \union {h}
                                                     ELSE {x \in B : x.type = "data"}
  BY <1>7
<1>9. Waiting(b) = IF h.type = "data" THEN Waiting(b)' \union {h} ELSE Waiting(b)'
  BY <1>6, <1>8
<1>10. QED
  BY <1>1, <1>4, <1>5, <1>9 DEF Waiting

LEMMA WaitingEnded ==
  ASSUME WebTypes, NEW b \in Browser, Ends(b)
  PROVE  \A c \in Browser : Waiting(c)' = IF c = b THEN {} ELSE Waiting(c)
<1>1. upward'[b] = <<>> /\ \A c \in Browser : c # b => upward'[c] = upward[c]
  BY DEF WebTypes, Ends
<1>2. {upward'[b][k] : k \in 1..Len(upward'[b])} = {}
  BY <1>1
<1>3. QED
  BY <1>1, <1>2 DEF Waiting

-----------------------------------------------------------------------------
LEMMA BoundedInit == WebInit => Accounted
<1> SUFFICES ASSUME WebInit PROVE Accounted
  OBVIOUS
<1>1. /\ \A i \in Invite : HeardIn(i) = {}
      /\ \A b \in Browser : Waiting(b) = {} /\ Len(shown[b]) = 0
  BY DEF WebInit, HeardIn, Waiting
<1>2. \A b \in Browser : me[b].id = 0 /\ socket[b].at = 0
  BY DEF WebInit, Nobody, Unopened
<1>3. QED
  BY <1>1, <1>2 DEF Accounted, WebInit

LEMMA StateOnly ==
  ASSUME WebTypes, NEW b \in Browser,
         socket' = socket \/ \E v : socket' = [socket EXCEPT ![b].st = v]
  PROVE  \A c \in Browser : socket'[c].at = socket[c].at
<1>1. CASE socket' = socket
  BY <1>1
<1>2. ASSUME NEW v, socket' = [socket EXCEPT ![b].st = v]
      PROVE  \A c \in Browser : socket'[c].at = socket[c].at
  <2>1. PICK s \in [st : {"none", "connecting", "open", "closing"}, at : Nat] : s = socket[b]
    BY DEF WebTypes
  <2>2. PICK f : f = [s EXCEPT !.st = v]
    OBVIOUS
  <2>3. f.at = s.at
    BY <2>2
  <2>4. socket' = [socket EXCEPT ![b] = f]
    BY <1>2, <2>1, <2>2
  <2>5. QED
    BY <2>1, <2>3, <2>4 DEF WebTypes
<1>3. QED
  BY <1>1, <1>2

(* Numbers that were given stay below.                                      *)
Given ==
    /\ \A i \in Invite : \A x \in HeardIn(i) :
          x.room = i /\ x.id <= identities /\ 0 < x.by /\ x.by <= sockets
    /\ \A b \in Browser : \A x \in Waiting(b) : x.by = socket[b].at /\ x.id <= identities

LEMMA GivenStep ==
  ASSUME WebTypes, WebTypes', Accounted, Stages, WebNext
  PROVE  Given'
<1>1. Given
  BY DEF Given, Accounted
<1>2. /\ \A i \in Invite : \A x \in HeardIn(i) : x.id \in Nat /\ x.by \in Nat
      /\ \A b \in Browser : \A x \in Waiting(b) : x.id \in Nat /\ x.by \in Nat
      /\ identities \in Nat /\ sockets \in Nat
  <2>1. \A x \in Texts : x.id \in Nat /\ x.by \in Nat
    BY DEF Texts
  <2>2. QED
    BY <2>1, AllTexts DEF WebTypes
<1>3. ASSUME NEW b \in Browser, NewWebChat(b) \/ ConnectPage(b) PROVE Given'
  <2>1. /\ said' = said /\ upward' = upward /\ sockets' = sockets + 1
        /\ identities' \in {identities, identities + 1}
        /\ socket[b].st = "none" /\ \A c \in Browser : c # b => socket'[c] = socket[c]
    BY <1>3 DEF NewWebChat, ConnectPage, Joins, Connects, WebTypes
  <2>2. /\ \A i \in Invite : HeardIn(i)' = HeardIn(i)
        /\ \A c \in Browser : Waiting(c)' = Waiting(c)
    BY <2>1 DEF HeardIn, Waiting
  <2>3. Waiting(b) = {}
    BY <2>1 DEF Stages, Waiting
  <2>4. QED
    BY <1>1, <1>2, <2>1, <2>2, <2>3 DEF Given
<1>4. ASSUME NEW b \in Browser, JoinInvite(b) PROVE Given'
  <2>1. /\ said' = said /\ upward' = upward /\ sockets' = sockets
        /\ identities' = identities + 1 /\ socket' = socket
    BY <1>4 DEF JoinInvite, Joins
  <2>2. /\ \A i \in Invite : HeardIn(i)' = HeardIn(i)
        /\ \A c \in Browser : Waiting(c)' = Waiting(c)
    BY <2>1 DEF HeardIn, Waiting
  <2>3. QED
    BY <1>1, <1>2, <2>1, <2>2 DEF Given
<1>5. ASSUME NEW b \in Browser,
             SocketOpens(b) \/ HangUp(b) \/ MessageArrives(b) \/ SocketCloses(b)
      PROVE  Given'
  <2>1. /\ said' = said /\ sockets' = sockets /\ identities' = identities
        /\ socket' = socket \/ \E v : socket' = [socket EXCEPT ![b].st = v]
    BY <1>5 DEF SocketOpens, HangUp, MessageArrives, SocketCloses
  <2>5. \A c \in Browser : socket'[c].at = socket[c].at
    BY <2>1, StateOnly
  <2>2. \A c \in Browser : Waiting(c)' \subseteq Waiting(c)
    <3>1. CASE SocketOpens(b)
      <4>1. upward' = [upward EXCEPT ![b] = <<JoinEnvelope(b)>>]
        BY <3>1 DEF SocketOpens
      <4>2. Waiting(b)' = {}
        BY <4>1 DEF Waiting, JoinEnvelope, WebTypes
      <4>3. QED
        BY <4>1, <4>2 DEF Waiting, WebTypes
    <3>2. CASE HangUp(b)
      <4>1. PICK e \in Envelopes : e = [type |-> "close"]
        BY DEF Envelopes
      <4>2. upward' = upward \/ upward' = [upward EXCEPT ![b] = Append(@, e)]
        BY <3>2, <4>1 DEF HangUp
      <4>3. CASE upward' = upward
        BY <4>3 DEF Waiting
      <4>4. CASE upward' = [upward EXCEPT ![b] = Append(@, e)]
        BY <4>1, <4>4, WaitingAdded
      <4>5. QED
        BY <4>2, <4>3, <4>4
    <3>3. CASE MessageArrives(b) \/ SocketCloses(b)
      BY <3>3 DEF MessageArrives, SocketCloses, Waiting
    <3>4. QED
      BY <1>5, <3>1, <3>2, <3>3
  <2>3. \A i \in Invite : HeardIn(i)' = HeardIn(i)
    BY <2>1 DEF HeardIn
  <2>4. QED
    BY <1>1, <1>2, <2>1, <2>2, <2>3, <2>5 DEF Given
<1>6. ASSUME NEW b \in Browser, SendText(b) PROVE Given'
  <2>1. /\ said' = said /\ sockets' = sockets /\ identities' = identities /\ socket' = socket
        /\ me[b] # Nobody
    BY <1>6 DEF SendText
  <2>2. PICK e \in Envelopes : e = Data(b) /\ e.id <= identities /\ e.by = socket[b].at
    BY <2>1, DataIsText DEF Envelopes, Accounted
  <2>3. upward' = upward \/ upward' = [upward EXCEPT ![b] = Append(@, e)]
    BY <1>6, <2>2 DEF SendText
  <2>4. \A c \in Browser : Waiting(c)' \subseteq Waiting(c) \union (IF c = b THEN {e} ELSE {})
    <3>1. CASE upward' = upward
      BY <3>1 DEF Waiting
    <3>2. CASE upward' = [upward EXCEPT ![b] = Append(@, e)]
      BY <3>2, WaitingAdded
    <3>3. QED
      BY <2>3, <3>1, <3>2
  <2>5. \A i \in Invite : HeardIn(i)' = HeardIn(i)
    BY <2>1 DEF HeardIn
  <2>6. QED
    BY <1>1, <1>2, <2>1, <2>2, <2>4, <2>5 DEF Given
<1>7. ASSUME NEW b \in Browser, RelayAdmits(b) \/ RelayWrites(b) \/ ConnectionBreaks(b)
      PROVE  Given'
  <2>1. /\ said' = said /\ sockets' = sockets /\ identities' = identities /\ socket' = socket
        /\ Ends(b) \/ upward' = upward \/ (Taken(b) /\ upward[b] # <<>>)
    BY <1>7 DEF RelayAdmits, RelayWrites, ConnectionBreaks, Lags
  <2>2. \A c \in Browser : Waiting(c)' \subseteq Waiting(c)
    <3>1. CASE Ends(b)
      BY <3>1, WaitingEnded
    <3>2. CASE upward' = upward
      BY <3>2 DEF Waiting
    <3>3. CASE Taken(b) /\ upward[b] # <<>>
      BY <3>3, WaitingTaken
    <3>4. QED
      BY <2>1, <3>1, <3>2, <3>3
  <2>3. \A i \in Invite : HeardIn(i)' = HeardIn(i)
    BY <2>1 DEF HeardIn
  <2>4. QED
    BY <1>1, <1>2, <2>1, <2>2, <2>3 DEF Given
<1>8. ASSUME NEW b \in Browser, RelayReads(b) PROVE Given'
  <2>1. /\ sockets' = sockets /\ identities' = identities /\ socket' = socket
        /\ upward[b] # <<>> /\ member[b].st = "in" /\ (Ends(b) \/ Taken(b))
    BY <1>8 DEF RelayReads
  <2>2. PICK e \in Envelopes : e = Head(upward[b])
    BY <2>1, NextElements DEF WebTypes
  <2>3. /\ \A c \in Browser : Waiting(c)' \subseteq Waiting(c)
        /\ e.type = "data" => e \in Waiting(b)
    <3>1. upward[b] \in Seq(Envelopes)
      BY DEF WebTypes
    <3>2. e = upward[b][1] /\ 1 \in 1..Len(upward[b])
      BY <2>1, <2>2, <3>1, NextElements
    <3>3. CASE Ends(b)
      BY <3>2, <3>3, WaitingEnded DEF Waiting
    <3>4. CASE Taken(b)
      BY <2>1, <2>2, <3>4, WaitingTaken
    <3>5. QED
      BY <2>1, <3>3, <3>4
  <2>4. CASE said' = said
    <3>1. \A i \in Invite : HeardIn(i)' = HeardIn(i)
      BY <2>4 DEF HeardIn
    <3>2. QED
      BY <1>1, <2>1, <2>3, <3>1 DEF Given
  <2>5. CASE said' # said
    <3>1. /\ e.type = "data" /\ said' = [said EXCEPT ![e.room] = Append(@, e)]
      BY <1>8, <2>2, <2>5 DEF RelayReads
    <3>2. e \in Texts /\ e.room \in Invite /\ e.by \in Nat
      BY <3>1 DEF Texts, Envelopes
    <3>3. \A i \in Invite : HeardIn(i)' = IF i = e.room THEN HeardIn(i) \union {e} ELSE HeardIn(i)
      BY <3>1, <3>2, RoomHears
    <3>4. e.id <= identities /\ e.by = socket[b].at /\ e.by <= sockets
      BY <1>1, <2>3, <3>1 DEF Given, Accounted
    <3>5. 0 < e.by
      <4>1. socket[b].st # "none"
        BY <2>1 DEF Stages, Gone
      <4>2. QED
        BY <4>1, <3>4 DEF Stages
    <3>6. QED
      BY <1>1, <2>1, <2>3, <3>3, <3>4, <3>5 DEF Given
  <2>6. QED
    BY <2>4, <2>5
<1>9. QED
  BY <1>3, <1>4, <1>5, <1>6, <1>7, <1>8 DEF WebNext

LEMMA BoundedStep ==
  ASSUME WebTypes, WebTypes', Accounted, Stages, WebNext
  PROVE  Accounted'
<1> DEFINE Ids(c)  == me[c].id \in Nat /\ me[c].id <= identities
           Ats(c)  == socket[c].at \in Nat /\ socket[c].at <= sockets
           Apart   == \A c, d \in Browser :
                         c # d /\ socket[c].at = socket[d].at => socket[c].at = 0
           Tos(c)  == \A k \in 1..Len(shown[c]) : shown[c][k].to \in Nat /\ shown[c][k].to <= identities
<1>1. /\ \A c \in Browser : Ids(c) /\ Ats(c) /\ Tos(c)
      /\ Apart /\ identities \in Nat /\ sockets \in Nat
  <2>1. \A c \in Browser : me[c].id \in Nat /\ socket[c].at \in Nat
    BY DEF WebTypes, Nobody
  <2>2. \A c \in Browser : \A k \in 1..Len(shown[c]) : shown[c][k].to \in Nat
    <3> SUFFICES ASSUME NEW c \in Browser PROVE \A k \in 1..Len(shown[c]) : shown[c][k].to \in Nat
      OBVIOUS
    <3>1. PICK S : S = [text : Texts, to : Nat]
      OBVIOUS
    <3>2. shown[c] \in Seq(S)
      BY <3>1 DEF WebTypes
    <3>3. \A k \in 1..Len(shown[c]) : shown[c][k] \in S
      BY <3>2, ElementOf
    <3>4. QED
      BY <3>1, <3>3
  <2>3. QED
    BY <2>1, <2>2 DEF Accounted, WebTypes
<1>2. Given'
  BY GivenStep
<1>3. /\ \A c \in Browser : Ids(c)' /\ Ats(c)'
      /\ Apart'
  <2>1. ASSUME NEW b \in Browser, NewWebChat(b) \/ ConnectPage(b)
        PROVE  /\ \A c \in Browser : Ids(c)' /\ Ats(c)'
               /\ Apart'
    <3>1. /\ sockets' = sockets + 1 /\ identities' \in {identities, identities + 1}
          /\ socket'[b] = [st |-> "connecting", at |-> sockets + 1]
          /\ \A c \in Browser : c # b => socket'[c] = socket[c]
      BY <2>1 DEF NewWebChat, ConnectPage, Joins, Connects, WebTypes
    <3>2. me' = me \/ (identities' = identities + 1 /\ Joins(b))
      BY <2>1 DEF NewWebChat, ConnectPage, Joins
    <3>7. Joins(b) => \A c \in Browser : me'[c].id = me[c].id \/ me'[c].id = identities + 1
      BY DEF Joins, WebTypes
    <3>3. \A c \in Browser : me'[c].id = me[c].id \/ me'[c].id = identities'
      BY <3>2, <3>7
    <3>4. \A c \in Browser : Ids(c)' /\ Ats(c)'
      BY <1>1, <3>1, <3>3
    <3>5. Apart'
      BY <1>1, <3>1
    <3>6. QED
      BY <3>4, <3>5
  <2>2. ASSUME NEW b \in Browser, JoinInvite(b)
        PROVE  /\ \A c \in Browser : Ids(c)' /\ Ats(c)'
               /\ Apart'
    <3>1. sockets' = sockets /\ socket' = socket /\ identities' = identities + 1 /\ Joins(b)
      BY <2>2 DEF JoinInvite, Joins
    <3>2. \A c \in Browser : me'[c].id = me[c].id \/ me'[c].id = identities'
      BY <3>1 DEF Joins, WebTypes
    <3>3. QED
      BY <1>1, <3>1, <3>2
  <2>3. ASSUME NEW b \in Browser, SendText(b)
        PROVE  /\ \A c \in Browser : Ids(c)' /\ Ats(c)'
               /\ Apart'
    <3>1. /\ sockets' = sockets /\ socket' = socket /\ identities' = identities
          /\ me' = [me EXCEPT ![b].seq = @ + 1] /\ me[b] # Nobody
      BY <2>3 DEF SendText
    <3>2. PICK f : f = [me[b] EXCEPT !.seq = @ + 1]
      OBVIOUS
    <3>3. f.id = me[b].id
      BY <3>1, <3>2 DEF WebTypes
    <3>4. me' = [me EXCEPT ![b] = f]
      BY <3>1, <3>2
    <3>5. \A c \in Browser : me'[c].id = me[c].id
      BY <3>3, <3>4 DEF WebTypes
    <3>6. QED
      BY <1>1, <3>1, <3>5
  <2>4. ASSUME NEW b \in Browser,
               \/ SocketOpens(b) \/ HangUp(b) \/ RelayAdmits(b) \/ RelayReads(b) \/ RelayWrites(b)
               \/ ConnectionBreaks(b) \/ MessageArrives(b) \/ SocketCloses(b)
        PROVE  /\ \A c \in Browser : Ids(c)' /\ Ats(c)'
               /\ Apart'
    <3>1. /\ me' = me /\ sockets' = sockets /\ identities' = identities
          /\ socket' = socket \/ \E v : socket' = [socket EXCEPT ![b].st = v]
      BY <2>4 DEF SocketOpens, HangUp, RelayAdmits, RelayReads, RelayWrites, ConnectionBreaks,
                  MessageArrives, SocketCloses
    <3>2. \A c \in Browser : socket'[c].at = socket[c].at
      BY <3>1, StateOnly
    <3>3. QED
      BY <1>1, <3>1, <3>2
  <2>5. QED
    BY <2>1, <2>2, <2>3, <2>4 DEF WebNext
<1>4. \A c \in Browser : Tos(c)'
  <2>1. ASSUME NEW b \in Browser, NewWebChat(b) \/ ConnectPage(b) PROVE \A c \in Browser : Tos(c)'
    <3>1. /\ identities' \in {identities, identities + 1} /\ shown' = [shown EXCEPT ![b] = <<>>]
      BY <2>1 DEF NewWebChat, ConnectPage, Joins, Connects
    <3>2. \A c \in Browser : c # b => shown'[c] = shown[c]
      BY <3>1 DEF WebTypes
    <3>3. Len(shown'[b]) = 0
      BY <3>1 DEF WebTypes
    <3>4. QED
      BY <1>1, <3>1, <3>2, <3>3
  <2>2. ASSUME NEW b \in Browser, MessageArrives(b) PROVE \A c \in Browser : Tos(c)'
    <3>1. PICK e : e = [text |-> Head(downward[b]), to |-> me[b].id]
      OBVIOUS
    <3>2. e.to \in Nat /\ e.to <= identities
      BY <1>1, <3>1
    <3>3. identities' = identities /\ (shown' = shown \/ shown' = [shown EXCEPT ![b] = Append(@, e)])
      BY <2>2, <3>1 DEF MessageArrives
    <3>4. PICK S : S = [text : Texts, to : Nat]
      OBVIOUS
    <3>5. downward[b] \in Seq(Texts) /\ downward[b] # <<>>
      BY <2>2 DEF MessageArrives, WebTypes
    <3>6. e \in S
      BY <1>1, <3>1, <3>4, <3>5, NextElements
    <3>7. shown[b] \in Seq(S)
      BY <3>4 DEF WebTypes
    <3>8. CASE shown' = [shown EXCEPT ![b] = Append(@, e)]
      <4>1. /\ Len(shown'[b]) = Len(shown[b]) + 1 /\ Len(shown[b]) \in Nat
            /\ \A k \in 1..Len(shown[b]) : shown'[b][k] = shown[b][k]
            /\ shown'[b][Len(shown[b]) + 1] = e
        BY <3>6, <3>7, <3>8, MoreElements DEF WebTypes
      <4>2. \A k \in 1..Len(shown'[b]) : k \in 1..Len(shown[b]) \/ k = Len(shown[b]) + 1
        BY <4>1
      <4>3. Tos(b)'
        BY <1>1, <3>2, <3>3, <4>1, <4>2
      <4>4. \A c \in Browser : c # b => shown'[c] = shown[c]
        BY <3>8 DEF WebTypes
      <4>5. QED
        BY <1>1, <3>3, <4>3, <4>4
    <3>9. CASE shown' = shown
      BY <1>1, <3>3, <3>9
    <3>10. QED
      BY <3>3, <3>8, <3>9
  <2>3. ASSUME NEW b \in Browser, JoinInvite(b) PROVE \A c \in Browser : Tos(c)'
    <3>1. identities' = identities + 1 /\ shown' = shown
      BY <2>3 DEF JoinInvite, Joins
    <3>2. QED
      BY <1>1, <3>1
  <2>4. ASSUME NEW b \in Browser,
               \/ SocketOpens(b) \/ HangUp(b) \/ RelayAdmits(b) \/ RelayReads(b) \/ RelayWrites(b)
               \/ ConnectionBreaks(b) \/ SendText(b) \/ SocketCloses(b)
        PROVE  \A c \in Browser : Tos(c)'
    <3>1. identities' = identities /\ shown' = shown
      BY <2>4 DEF SocketOpens, HangUp, RelayAdmits, RelayReads, RelayWrites, ConnectionBreaks,
                  SendText, SocketCloses
    <3>2. QED
      BY <1>1, <3>1
  <2>5. QED
    BY <2>1, <2>2, <2>3, <2>4 DEF WebNext
<1>5. QED
  BY <1>2, <1>3, <1>4 DEF Accounted, Given

-----------------------------------------------------------------------------
(* Stages, one browser at a time.                                           *)
Unheard(b) == \A i \in Invite : \A x \in HeardIn(i) : x.by # socket[b].at
Stage(b) ==
    /\ socket[b].st # "none" => me[b] # Nobody /\ socket[b].at > 0
    /\ socket[b].st \in {"none", "connecting"} => member[b] = Gone /\ downward[b] = <<>>
    /\ socket[b].st = "connecting" => shown[b] = <<>>
    /\ member[b] = Gone => upward[b] = <<>>
    /\ member[b].st = "new" => downward[b] = <<>> /\ shown[b] = <<>>
    /\ socket[b].st = "connecting" \/ member[b].st = "new" => Unheard(b)

LEMMA StagesByOne == Stages <=> \A b \in Browser : Stage(b)
  BY DEF Stages, Stage, Unheard

LEMMA StagesInit == WebInit => Stages
<1> SUFFICES ASSUME WebInit, NEW b \in Browser PROVE Stage(b)
  BY StagesByOne
<1>1. \A i \in Invite : HeardIn(i) = {}
  BY DEF WebInit, HeardIn
<1>2. QED
  BY <1>1 DEF WebInit, Stage, Unheard, Unopened, Gone

(* Another's action shows in what the rooms have heard at most.             *)
LEMMA StageKept ==
  ASSUME WebTypes, Stages, NEW b \in Browser,
         socket'[b] = socket[b], me'[b] # Nobody \/ me[b] = Nobody, member'[b] = member[b],
         upward'[b] = upward[b], downward'[b] = downward[b], shown'[b] = shown[b],
         \A i \in Invite : \A x \in HeardIn(i)' : x \in HeardIn(i) \/ x.by # socket[b].at
  PROVE  Stage(b)'
<1>1. Stage(b)
  BY StagesByOne
<1>2. Unheard(b) => Unheard(b)'
  BY DEF Unheard
<1>3. QED
  BY <1>1, <1>2 DEF Stage

LEMMA StagesStep ==
  ASSUME WebTypes, WebTypes', Accounted, Stages, WebNext
  PROVE  Stages'
<1>1. \A c \in Browser : Stage(c)
  BY StagesByOne
<1> SUFFICES \A c \in Browser : Stage(c)'
  BY DEF Stages, Stage, Unheard
<1>2. said' = said => \A i \in Invite : HeardIn(i)' = HeardIn(i)
  BY DEF HeardIn
<1>3. ASSUME NEW b \in Browser, NewWebChat(b) \/ ConnectPage(b) PROVE \A c \in Browser : Stage(c)'
  <2>1. /\ said' = said /\ upward' = upward /\ downward' = downward /\ member' = member
        /\ socket[b].st = "none"
        /\ socket' = [socket EXCEPT ![b] = [st |-> "connecting", at |-> sockets + 1]]
        /\ shown' = [shown EXCEPT ![b] = <<>>]
    BY <1>3 DEF NewWebChat, ConnectPage, Connects
  <2>2. me'[b] # Nobody /\ \A c \in Browser : c # b => me'[c] = me[c]
    <3>1. CASE ConnectPage(b)
      BY <3>1 DEF ConnectPage
    <3>2. CASE NewWebChat(b)
      <4>1. PICK i \in Invite : me' = [me EXCEPT ![b] = [id |-> identities + 1, room |-> i, seq |-> 0]]
        BY <3>2 DEF NewWebChat, Joins
      <4>2. identities + 1 # 0
        BY DEF WebTypes
      <4>3. [id |-> identities + 1, room |-> i, seq |-> 0] # Nobody
        BY <4>2 DEF Nobody
      <4>4. QED
        BY <4>1, <4>3 DEF WebTypes
    <3>3. QED
      BY <1>3, <3>1, <3>2
  <2>3. socket'[b] = [st |-> "connecting", at |-> sockets + 1] /\ shown'[b] = <<>>
    BY <2>1 DEF WebTypes
  <2>4. Unheard(b)'
    <3>1. sockets \in Nat /\ \A i \in Invite : \A x \in HeardIn(i) : x.by <= sockets
      BY DEF WebTypes, Accounted
    <3>2. \A i \in Invite : \A x \in HeardIn(i) : x.by # sockets + 1
      BY <3>1
    <3>3. QED
      BY <1>2, <2>1, <2>3, <3>2 DEF Unheard
  <2>5. member[b] = Gone /\ downward[b] = <<>> /\ upward[b] = <<>> /\ sockets + 1 > 0
    BY <1>1, <2>1 DEF Stage, WebTypes
  <2>6. Stage(b)'
    BY <2>1, <2>2, <2>3, <2>4, <2>5 DEF Stage, Gone
  <2>7. \A c \in Browser : c # b => socket'[c] = socket[c] /\ shown'[c] = shown[c]
    BY <2>1 DEF WebTypes
  <2>8. ASSUME NEW c \in Browser, c # b PROVE Stage(c)'
    BY <1>2, <2>1, <2>2, <2>7, <2>8, StageKept
  <2>9. QED
    BY <2>6, <2>8
<1>4. ASSUME NEW b \in Browser, JoinInvite(b) \/ SendText(b) PROVE \A c \in Browser : Stage(c)'
  <2>1. /\ said' = said /\ downward' = downward /\ member' = member /\ socket' = socket
        /\ shown' = shown
    BY <1>4 DEF JoinInvite, SendText
  <2>2. /\ \A c \in Browser : me'[c] = Nobody => me[c] = Nobody
        /\ upward' = upward \/ (member[b] # Gone /\ \A c \in Browser : c # b => upward'[c] = upward[c])
    <3>1. CASE JoinInvite(b)
      <4>1. PICK i \in Invite : me' = [me EXCEPT ![b] = [id |-> identities + 1, room |-> i, seq |-> 0]]
        BY <3>1 DEF JoinInvite, Joins
      <4>2. identities + 1 # 0
        BY DEF WebTypes
      <4>3. [id |-> identities + 1, room |-> i, seq |-> 0] # Nobody
        BY <4>2 DEF Nobody
      <4>4. QED
        BY <3>1, <4>1, <4>3 DEF WebTypes, JoinInvite
    <3>2. CASE SendText(b)
      <4>1. PICK f : f = [me[b] EXCEPT !.seq = @ + 1]
        OBVIOUS
      <4>2. me' = [me EXCEPT ![b] = f] /\ me[b] # Nobody
        BY <3>2, <4>1 DEF SendText
      <4>3. f.id = me[b].id /\ me[b].id # 0
        BY <4>1, <4>2 DEF WebTypes
      <4>4. f # Nobody
        BY <4>3 DEF Nobody
      <4>5. QED
        BY <3>2, <4>2, <4>4 DEF WebTypes, SendText
    <3>3. QED
      BY <1>4, <3>1, <3>2
  <2>3. \A c \in Browser : Unheard(c) => Unheard(c)'
    BY <1>2, <2>1 DEF Unheard
  <2>4. QED
    BY <1>1, <2>1, <2>2, <2>3 DEF Stage
<1>5. ASSUME NEW b \in Browser, SocketOpens(b) PROVE \A c \in Browser : Stage(c)'
  <2>1. /\ said' = said /\ downward' = downward /\ shown' = shown /\ me' = me
        /\ socket' = [socket EXCEPT ![b].st = "open"] /\ socket[b].st = "connecting"
        /\ member' = [member EXCEPT ![b] = [st |-> "new"]]
        /\ upward' = [upward EXCEPT ![b] = <<JoinEnvelope(b)>>]
    BY <1>5 DEF SocketOpens
  <2>2. socket'[b].st = "open" /\ socket'[b].at = socket[b].at /\ member'[b] = [st |-> "new"]
    BY <2>1 DEF WebTypes
  <2>3. \A c \in Browser : c # b => /\ socket'[c] = socket[c] /\ member'[c] = member[c]
                                    /\ upward'[c] = upward[c]
    BY <2>1 DEF WebTypes
  <2>4. Unheard(b)'
    BY <1>1, <1>2, <2>1, <2>2 DEF Stage, Unheard
  <2>5. member'[b] # Gone
    BY <2>2 DEF Gone
  <2>6. Stage(b)'
    BY <1>1, <2>1, <2>2, <2>4, <2>5 DEF Stage
  <2>7. ASSUME NEW c \in Browser, c # b PROVE Stage(c)'
    BY <1>2, <2>1, <2>3, <2>7, StageKept
  <2>8. QED
    BY <2>6, <2>7
<1>6. ASSUME NEW b \in Browser, HangUp(b) \/ SocketCloses(b) PROVE \A c \in Browser : Stage(c)'
  <2>1. /\ said' = said /\ shown' = shown /\ me' = me /\ member' = member
        /\ socket' = [socket EXCEPT ![b].st = "closing"] \/ socket' = [socket EXCEPT ![b].st = "none"]
        /\ socket[b].st # "none"
        /\ \A c \in Browser : c # b => upward'[c] = upward[c] /\ downward'[c] = downward[c]
        /\ member[b] = Gone => upward' = upward
        /\ member[b].st = "new" => downward'[b] = <<>>
    BY <1>1, <1>6 DEF HangUp, SocketCloses, WebTypes, Stage
  <2>2. \A c \in Browser : socket'[c].at = socket[c].at
    BY <2>1, StateOnly
  <2>3. \A c \in Browser : c # b => socket'[c] = socket[c]
    BY <2>1 DEF WebTypes
  <2>4. \/ socket'[b].st = "closing"
        \/ socket'[b].st = "none" /\ member[b] = Gone /\ downward'[b] = <<>>
    <3>1. CASE HangUp(b)
      BY <3>1 DEF HangUp, WebTypes
    <3>2. CASE SocketCloses(b)
      BY <1>1, <3>2 DEF SocketCloses, WebTypes, Stage
    <3>3. QED
      BY <1>6, <3>1, <3>2
  <2>5. Unheard(b) => Unheard(b)'
    BY <1>2, <2>1, <2>2 DEF Unheard
  <2>6. Stage(b)'
    BY <1>1, <2>1, <2>2, <2>4, <2>5 DEF Stage, Gone
  <2>7. ASSUME NEW c \in Browser, c # b PROVE Stage(c)'
    BY <1>2, <2>1, <2>3, <2>7, StageKept
  <2>8. QED
    BY <2>6, <2>7
<1>7. ASSUME NEW b \in Browser, ConnectionBreaks(b) \/ RelayAdmits(b) \/ RelayWrites(b)
      PROVE  \A c \in Browser : Stage(c)'
  <2>1. /\ said' = said /\ shown' = shown /\ me' = me /\ socket' = socket
        /\ member[b] # Gone
        /\ \A c \in Browser : c # b => /\ upward'[c] = upward[c] /\ downward'[c] = downward[c]
                                       /\ member'[c] = member[c]
    <3>1. CASE ConnectionBreaks(b)
      BY <3>1 DEF ConnectionBreaks, Ends, WebTypes
    <3>2. CASE RelayAdmits(b)
      <4>1. member[b] # Gone /\ (Ends(b) \/ Taken(b))
        BY <3>2 DEF RelayAdmits, Gone
      <4>2. \A c \in Browser : c # b => upward'[c] = upward[c]
        BY <4>1 DEF Ends, Taken, WebTypes
      <4>3. \A c \in Browser : c # b => member'[c] = member[c]
        BY <3>2 DEF RelayAdmits, Ends, WebTypes
      <4>4. QED
        BY <3>2, <4>1, <4>2, <4>3 DEF RelayAdmits
    <3>3. CASE RelayWrites(b)
      <4>1. member[b] # Gone
        BY <3>3 DEF RelayWrites, Gone
      <4>2. CASE Behind(b)
        BY <3>3, <4>1, <4>2 DEF RelayWrites, Lags, Ends, WebTypes
      <4>3. CASE ~Behind(b)
        <5>1. /\ downward' = [downward EXCEPT ![b] =
                              Append(@, said[member[b].room][member[b].next])]
              /\ member' = [member EXCEPT ![b].next = @ + 1] /\ upward' = upward
          BY <3>3, <4>3 DEF RelayWrites
        <5>2. QED
          BY <3>3, <4>1, <5>1 DEF RelayWrites, WebTypes
      <4>4. QED
        BY <4>2, <4>3
    <3>4. QED
      BY <1>7, <3>1, <3>2, <3>3
  <2>2. Ends(b) \/ member'[b].st = "in"
    <3>1. CASE RelayAdmits(b)
      BY <3>1 DEF RelayAdmits, WebTypes
    <3>2. CASE RelayWrites(b)
      <4>1. PICK r \in Invite, p \in Nat \ {0} : member[b] = [st |-> "in", room |-> r, next |-> p]
        BY <3>2 DEF RelayWrites, WebTypes, Gone
      <4>2. PICK f : f = [member[b] EXCEPT !.next = @ + 1]
        OBVIOUS
      <4>3. f.st = "in"
        BY <4>1, <4>2
      <4>4. Ends(b) \/ member' = [member EXCEPT ![b] = f]
        BY <3>2, <4>2 DEF RelayWrites, Lags
      <4>5. QED
        BY <4>3, <4>4 DEF WebTypes
    <3>3. CASE ConnectionBreaks(b)
      BY <3>3 DEF ConnectionBreaks
    <3>4. QED
      BY <1>7, <3>1, <3>2, <3>3
  <2>3. Unheard(b) => Unheard(b)'
    BY <1>2, <2>1 DEF Unheard
  <2>4. Stage(b)'
    <3>1. CASE Ends(b)
      <4>1. member'[b] = Gone /\ upward'[b] = <<>>
        BY <3>1 DEF Ends, WebTypes
      <4>2. socket[b].st \notin {"none", "connecting"}
        BY <1>1, <2>1 DEF Stage
      <4>3. QED
        BY <1>1, <2>1, <2>3, <4>1, <4>2 DEF Stage, Gone
    <3>2. CASE member'[b].st = "in"
      <4>1. socket[b].st \notin {"none", "connecting"}
        BY <1>1, <2>1 DEF Stage
      <4>2. QED
        BY <1>1, <2>1, <2>3, <3>2, <4>1 DEF Stage, Gone
    <3>3. QED
      BY <2>2, <3>1, <3>2
  <2>5. ASSUME NEW c \in Browser, c # b PROVE Stage(c)'
    BY <1>2, <2>1, <2>5, StageKept
  <2>6. QED
    BY <2>4, <2>5
<1>8. ASSUME NEW b \in Browser, MessageArrives(b) PROVE \A c \in Browser : Stage(c)'
  <2>1. /\ said' = said /\ upward' = upward /\ me' = me /\ socket' = socket /\ member' = member
        /\ socket[b].st = "open" /\ downward[b] # <<>>
        /\ \A c \in Browser : c # b => downward'[c] = downward[c] /\ shown'[c] = shown[c]
    BY <1>8 DEF MessageArrives, WebTypes
  <2>2. Unheard(b) => Unheard(b)'
    BY <1>2, <2>1 DEF Unheard
  <2>3. Stage(b)'
    BY <1>1, <2>1, <2>2 DEF Stage
  <2>4. ASSUME NEW c \in Browser, c # b PROVE Stage(c)'
    BY <1>2, <2>1, <2>4, StageKept
  <2>5. QED
    BY <2>3, <2>4
<1>9. ASSUME NEW b \in Browser, RelayReads(b) PROVE \A c \in Browser : Stage(c)'
  <2>1. /\ downward' = downward /\ shown' = shown /\ me' = me /\ socket' = socket
        /\ member[b].st = "in" /\ upward[b] # <<>>
        /\ \A c \in Browser : c # b => upward'[c] = upward[c] /\ member'[c] = member[c]
        /\ Ends(b) \/ member' = member
    BY <1>9 DEF RelayReads, Ends, Taken, WebTypes
  <2>2. /\ socket[b].st \notin {"none", "connecting"} /\ socket[b].at > 0
        /\ me[b] # Nobody
    BY <1>1, <2>1 DEF Stage, Gone
  <2>3. Stage(b)'
    <3>1. CASE Ends(b)
      <4>1. member'[b] = Gone /\ upward'[b] = <<>>
        BY <3>1 DEF Ends, WebTypes
      <4>2. QED
        BY <1>1, <2>1, <2>2, <4>1 DEF Stage, Gone
    <3>2. CASE member' = member
      BY <2>1, <2>2, <3>2 DEF Stage, Gone
    <3>3. QED
      BY <2>1, <3>1, <3>2
  <2>4. ASSUME NEW c \in Browser, c # b PROVE Stage(c)'
    <3>1. socket[b].at # socket[c].at
      BY <2>2, <2>4 DEF Accounted
    <3>2. \A i \in Invite : \A x \in HeardIn(i)' : x \in HeardIn(i) \/ x.by = socket[b].at
      <4>1. PICK e \in Envelopes : e = Head(upward[b])
        BY <2>1, NextElements DEF WebTypes
      <4>2. CASE said' = said
        BY <1>2, <4>2
      <4>3. CASE said' # said
        <5>1. e.type = "data" /\ said' = [said EXCEPT ![e.room] = Append(@, e)]
          BY <1>9, <4>1, <4>3 DEF RelayReads
        <5>2. e \in Texts /\ e.room \in Invite
          BY <5>1 DEF Texts, Envelopes
        <5>3. \A i \in Invite : HeardIn(i)' = IF i = e.room THEN HeardIn(i) \union {e} ELSE HeardIn(i)
          BY <5>1, <5>2, RoomHears
        <5>4. upward[b] \in Seq(Envelopes)
          BY DEF WebTypes
        <5>5. e = upward[b][1] /\ 1 \in 1..Len(upward[b])
          BY <2>1, <4>1, <5>4, NextElements
        <5>6. e \in Waiting(b)
          BY <5>1, <5>5 DEF Waiting
        <5>7. QED
          BY <5>3, <5>6 DEF Accounted
      <4>4. QED
        BY <4>2, <4>3
    <3>3. QED
      BY <2>1, <2>4, <3>1, <3>2, StageKept
  <2>5. QED
    BY <2>3, <2>4
<1>10. QED
  BY <1>3, <1>4, <1>5, <1>6, <1>7, <1>8, <1>9 DEF WebNext

-----------------------------------------------------------------------------
(* Numbering, one browser at a time.                                        *)
LEMMA RisingMore ==
  ASSUME NEW S, NEW s \in Seq(S), NEW e \in S, Climbing(s),
         e.type = "data" =>
            \A k \in 1..Len(s) : s[k].type = "data" /\ Source(s[k], e) => s[k].n < e.n
  PROVE  Climbing(Append(s, e))
<1>1. /\ Len(Append(s, e)) = Len(s) + 1 /\ Len(s) \in Nat
      /\ \A k \in 1..Len(s) : Append(s, e)[k] = s[k]
      /\ Append(s, e)[Len(s) + 1] = e
  BY MoreElements
<1> SUFFICES ASSUME NEW k \in 1..(Len(s) + 1), NEW j \in 1..(Len(s) + 1), k < j,
                    Append(s, e)[k].type = "data", Append(s, e)[j].type = "data",
                    Source(Append(s, e)[k], Append(s, e)[j])
             PROVE  Append(s, e)[k].n < Append(s, e)[j].n
  BY <1>1 DEF Climbing
<1>2. k \in 1..Len(s) /\ (j \in 1..Len(s) \/ j = Len(s) + 1)
  BY <1>1
<1>3. CASE j \in 1..Len(s)
  BY <1>1, <1>2, <1>3 DEF Climbing
<1>4. CASE j = Len(s) + 1
  BY <1>1, <1>2, <1>4
<1>5. QED
  BY <1>2, <1>3, <1>4

LEMMA RisingRest ==
  ASSUME NEW S, NEW s \in Seq(S), s # <<>>, Climbing(s)
  PROVE  /\ Climbing(Tail(s))
         /\ Head(s).type = "data" =>
               \A k \in 1..Len(Tail(s)) : Tail(s)[k].type = "data" /\ Source(Head(s), Tail(s)[k]) =>
                  Head(s).n < Tail(s)[k].n
<1>1. /\ Len(s) \in Nat /\ Len(s) > 0 /\ Head(s) = s[1] /\ Len(Tail(s)) = Len(s) - 1
      /\ \A k \in 1..(Len(s) - 1) : Tail(s)[k] = s[k + 1]
  BY NextElements
<1>2. \A k \in 1..(Len(s) - 1) : k + 1 \in 1..Len(s) /\ 1 < k + 1
  BY <1>1
<1>3. 1 \in 1..Len(s) /\ \A k, j \in 1..(Len(s) - 1) : k < j => k + 1 < j + 1
  BY <1>1
<1>4. Climbing(Tail(s))
  BY <1>1, <1>2, <1>3 DEF Climbing
<1>5. QED
  BY <1>1, <1>2, <1>3, <1>4 DEF Climbing

LEMMA TextFields ==
  \A x \in Texts : /\ x.type = "data" /\ x.id \in Nat /\ x.n \in Nat /\ x.by \in Nat
                   /\ x.room \in Invite
  BY DEF Texts

LineOf(b) ==
    /\ Climbing(upward[b])
    /\ socket[b].st = "open" =>
          \A x \in Waiting(b) : x.id = me[b].id => x.n < me[b].seq
    /\ \A i \in Rooms(b) :
          /\ Gapless(Line(b, i))
          /\ \A x \in HeardIn(i), y \in OnTheWay(b) : Source(x, y) => x.n < y.n

RoomsNumbered == \A i \in Invite : Climbing(said[i]) /\ Gapless(HeardIn(i))

LEMMA NumberingByOne ==
    Numbering <=> RoomsNumbered /\ \A b \in Browser : member[b] # Gone => LineOf(b)
  BY DEF Numbering, RoomsNumbered, LineOf

LEMMA NumberingInit == WebInit => Numbering
<1> SUFFICES ASSUME WebInit PROVE Numbering
  OBVIOUS
<1>1. \A i \in Invite : said[i] = <<>> /\ HeardIn(i) = {}
  BY DEF WebInit, HeardIn
<1>2. RoomsNumbered
  BY <1>1 DEF RoomsNumbered, Climbing, Gapless
<1>3. \A b \in Browser : member[b] = Gone
  BY DEF WebInit
<1>4. QED
  BY <1>2, <1>3, NumberingByOne

(* What is on its way over an open connection.                              *)
LEMMA LineTexts ==
  ASSUME WebTypes, Accounted, Stages, NEW b \in Browser
  PROVE  /\ OnTheWay(b) \subseteq Texts
         /\ \A x \in OnTheWay(b) : x.by = socket[b].at
         /\ \A i \in Invite : /\ Line(b, i) \subseteq Texts
                              /\ \A x \in Line(b, i) : x.by = socket[b].at
<1>1. Waiting(b) \subseteq Texts /\ \A i \in Invite : HeardIn(i) \subseteq Texts
  BY AllTexts
<1>2. \A x \in Waiting(b) : x.by = socket[b].at
  BY DEF Accounted
<1>3. socket[b].st = "open" => Data(b) \in Texts /\ Data(b).by = socket[b].at
  <2>1. socket[b].st = "open" => me[b] # Nobody
    BY DEF Stages
  <2>2. QED
    BY <2>1, DataIsText
<1>4. QED
  BY <1>1, <1>2, <1>3 DEF OnTheWay, Line

LEMMA LineKept ==
  ASSUME WebTypes, Accounted, Stages, NEW b \in Browser,
         LineOf(b), socket'[b] = socket[b], me'[b] = me[b], upward'[b] = upward[b],
         Rooms(b)' \subseteq Rooms(b),
         \A i \in Invite : /\ HeardIn(i) \subseteq HeardIn(i)'
                           /\ \A x \in HeardIn(i)' : x \in HeardIn(i) \/ x.by # socket[b].at
  PROVE  LineOf(b)'
<1>1. Waiting(b)' = Waiting(b) /\ Data(b)' = Data(b)
  BY DEF Waiting, Data
<1>2. OnTheWay(b)' = OnTheWay(b)
  BY <1>1 DEF OnTheWay
<1>3. \A i \in Invite : Line(b, i)' = Line(b, i)
  BY <1>2 DEF Line
<1>4. Rooms(b) \subseteq Invite
  BY DEF Rooms
<1>5. \A i \in Rooms(b)' : Gapless(Line(b, i)')
  BY <1>3, <1>4 DEF LineOf
<1>6. \A x \in OnTheWay(b) : x.by = socket[b].at
  BY LineTexts
<1>7. \A i \in Rooms(b)' : \A x \in HeardIn(i)', y \in OnTheWay(b)' : Source(x, y) => x.n < y.n
  BY <1>2, <1>4, <1>6 DEF LineOf, Source
<1>8. QED
  BY <1>1, <1>5, <1>7 DEF LineOf

LEMMA LineOpens ==
  ASSUME WebTypes, WebTypes', Accounted, Stages, NEW b \in Browser, SocketOpens(b)
  PROVE  LineOf(b)'
<1>1. /\ said' = said /\ me' = me /\ socket[b].st = "connecting"
      /\ upward'[b] = <<JoinEnvelope(b)>>
      /\ \E v : socket' = [socket EXCEPT ![b].st = v]
  BY DEF SocketOpens, WebTypes
<1>2. socket'[b].at = socket[b].at /\ me[b] # Nobody /\ Unheard(b)
  BY <1>1, StateOnly, StagesByOne DEF Stage
<1>3. \A i \in Invite : HeardIn(i)' = HeardIn(i)
  BY <1>1 DEF HeardIn
<1>4. Waiting(b)' = {}
  BY <1>1 DEF Waiting, JoinEnvelope
<1>5. PICK d \in Texts : d = Data(b)' /\ d.by = socket[b].at
  BY <1>1, <1>2, DataIsText DEF Data
<1>6. OnTheWay(b)' \subseteq {d}
  BY <1>4, <1>5 DEF OnTheWay
<1>7. \A i \in Invite : \A x \in HeardIn(i)' : x.by # d.by
  BY <1>2, <1>3, <1>5 DEF Unheard
<1>8. Climbing(upward[b])'
  BY <1>1 DEF Climbing, JoinEnvelope
<1>9. ASSUME NEW i \in Rooms(b)'
      PROVE  /\ Gapless(Line(b, i)')
             /\ \A x \in HeardIn(i)', y \in OnTheWay(b)' : Source(x, y) => x.n < y.n
  <2>1. i \in Invite
    BY <1>9 DEF Rooms
  <2>2. Line(b, i)' \subseteq {d}
    BY <2>1, <1>2, <1>3, <1>5, <1>6, <1>7 DEF Line
  <2>3. Gapless({})
    BY DEF Gapless
  <2>4. d.n \in Nat
    BY TextFields
  <2>5. Gapless({} \union {d})
    BY <2>3, <2>4, GaplessFresh
  <2>6. Line(b, i)' = {} \/ Line(b, i)' = {} \union {d}
    BY <2>2
  <2>7. QED
    BY <2>1, <2>3, <2>5, <2>6, <1>6, <1>7 DEF Source
<1>10. QED
  BY <1>4, <1>8, <1>9 DEF LineOf

(* The next message of an open socket is the last of its line.              *)
LEMMA LineEnds ==
  ASSUME WebTypes, Accounted, Stages, NEW b \in Browser, LineOf(b), NEW i \in Rooms(b),
         socket[b].st = "open"
  PROVE  LET T == {x \in HeardIn(i) : x.by = socket[b].at} \union {x \in Waiting(b) : x.room = i}
         IN  /\ Gapless(T) /\ T \subseteq Texts
             /\ Line(b, i) = T \union (IF me[b].room = i THEN {Data(b)} ELSE {})
             /\ me[b].room = i => \A x \in T : Source(x, Data(b)) => x.n < me[b].seq
<1> DEFINE T == {x \in HeardIn(i) : x.by = socket[b].at} \union {x \in Waiting(b) : x.room = i}
<1>1. me[b] # Nobody /\ i \in Invite
  BY DEF Stages, Rooms
<1>2. /\ Data(b) \in Texts /\ Data(b).room = me[b].room /\ Data(b).id = me[b].id
      /\ Data(b).n = me[b].seq
  BY <1>1, DataIsText
<1>3. T \subseteq Texts
  BY <1>1, AllTexts
<1>4. OnTheWay(b) = Waiting(b) \union {Data(b)}
  BY DEF OnTheWay
<1>5. Line(b, i) = T \union (IF me[b].room = i THEN {Data(b)} ELSE {})
  BY <1>2, <1>4 DEF Line
<1>6. \A x \in T : Source(x, Data(b)) => x.n < me[b].seq
  <2>1. ASSUME NEW x \in HeardIn(i), Source(x, Data(b)) PROVE x.n < me[b].seq
    BY <2>1, <1>2, <1>4 DEF LineOf
  <2>2. ASSUME NEW x \in Waiting(b), Source(x, Data(b)) PROVE x.n < me[b].seq
    BY <2>2, <1>2 DEF LineOf, Source
  <2>3. QED
    BY <2>1, <2>2
<1>7. Gapless(T)
  <2>1. Gapless(Line(b, i))
    BY DEF LineOf
  <2>2. CASE me[b].room = i
    <3>1. T \subseteq Line(b, i) /\ Line(b, i) \ T \subseteq {Data(b)}
      BY <1>5
    <3>2. \A x \in Line(b, i) : x.n \in Nat
      BY <1>2, <1>3, <1>5, TextFields
    <3>3. \A x \in T, y \in Line(b, i) \ T : Source(x, y) => x.n < y.n
      BY <1>2, <1>6, <3>1
    <3>4. QED
      BY <2>1, <3>1, <3>2, <3>3, GaplessLess
  <2>3. CASE me[b].room # i
    BY <2>1, <2>3, <1>5
  <2>4. QED
    BY <2>2, <2>3
<1>8. QED
  BY <1>3, <1>5, <1>6, <1>7

LEMMA LineJoins ==
  ASSUME WebTypes, WebTypes', Accounted, Stages, NEW b \in Browser, JoinInvite(b), LineOf(b)
  PROVE  LineOf(b)'
<1>1. /\ said' = said /\ socket' = socket /\ upward' = upward /\ member' = member
      /\ identities' = identities + 1
  BY DEF JoinInvite, Joins
<1>2. PICK r \in Invite : me'[b] = [id |-> identities + 1, room |-> r, seq |-> 0]
  BY DEF JoinInvite, Joins, WebTypes
<1>3. /\ \A i \in Invite : HeardIn(i)' = HeardIn(i)
      /\ Waiting(b)' = Waiting(b) /\ Rooms(b)' = Rooms(b)
  BY <1>1 DEF HeardIn, Waiting, Rooms
<1>4. CASE socket[b].st # "open"
  <2>1. OnTheWay(b)' = OnTheWay(b)
    BY <1>1, <1>3, <1>4 DEF OnTheWay
  <2>2. Rooms(b) \subseteq Invite
    BY DEF Rooms
  <2>3. \A i \in Rooms(b) : Line(b, i)' = Line(b, i)
    BY <1>1, <1>3, <2>1, <2>2 DEF Line
  <2>4. QED
    BY <1>1, <1>3, <1>4, <2>1, <2>2, <2>3 DEF LineOf
<1>5. CASE socket[b].st = "open"
  <2>1. PICK d : d = Data(b)'
    OBVIOUS
  <2>2. d.id = identities + 1 /\ d.n = 0 /\ d.room = r /\ d.by = socket[b].at
    BY <1>1, <1>2, <2>1 DEF Data
  <2>3. OnTheWay(b)' = Waiting(b) \union {d}
    BY <1>1, <1>3, <1>5, <2>1 DEF OnTheWay
  <2>4. /\ identities \in Nat
        /\ \A i \in Invite : \A x \in HeardIn(i) : x.id \in Nat /\ x.id <= identities
        /\ \A x \in Waiting(b) : x.id \in Nat /\ x.id <= identities
    BY AllTexts, TextFields DEF Accounted, WebTypes
  <2>5. /\ \A i \in Invite : \A x \in HeardIn(i) : ~Source(x, d)
        /\ \A x \in Waiting(b) : ~Source(x, d) /\ x.id # identities + 1
    BY <2>2, <2>4 DEF Source
  <2>6. ASSUME NEW i \in Rooms(b)
        PROVE  /\ Gapless(Line(b, i)')
               /\ \A x \in HeardIn(i)', y \in OnTheWay(b)' : Source(x, y) => x.n < y.n
    <3>1. i \in Invite
      BY DEF Rooms
    <3>2. PICK T : T = {x \in HeardIn(i) : x.by = socket[b].at} \union {x \in Waiting(b) : x.room = i}
      OBVIOUS
    <3>3. Gapless(T)
      BY <1>5, <3>2, LineEnds
    <3>4. Line(b, i)' = T \/ Line(b, i)' = T \union {d}
      BY <1>1, <1>3, <2>2, <2>3, <3>1, <3>2 DEF Line
    <3>5. Gapless(T \union {d})
      <4>1. \A x \in T : ~Source(x, d)
        BY <2>5, <3>1, <3>2
      <4>2. d.n \in Nat
        BY <2>2
      <4>3. QED
        BY <3>3, <4>1, <4>2, GaplessFresh
    <3>6. \A x \in HeardIn(i), y \in Waiting(b) : Source(x, y) => x.n < y.n
      BY DEF LineOf, OnTheWay
    <3>7. QED
      BY <1>3, <2>3, <2>5, <3>1, <3>3, <3>4, <3>5, <3>6
  <2>7. Climbing(upward[b])' /\ \A x \in Waiting(b)' : x.id # me'[b].id
    BY <1>1, <1>2, <1>3, <2>5 DEF LineOf
  <2>8. QED
    BY <1>3, <2>6, <2>7 DEF LineOf
<1>6. QED
  BY <1>4, <1>5

LEMMA LineSends ==
  ASSUME WebTypes, WebTypes', Accounted, Stages, NEW b \in Browser, SendText(b), LineOf(b),
         member[b] # Gone
  PROVE  LineOf(b)'
<1>1. /\ said' = said /\ socket' = socket /\ member' = member /\ me[b] # Nobody
      /\ me' = [me EXCEPT ![b].seq = @ + 1]
  BY DEF SendText
<1>2. /\ \A i \in Invite : HeardIn(i)' = HeardIn(i)
      /\ Rooms(b)' = Rooms(b) /\ Rooms(b) \subseteq Invite
  BY <1>1 DEF HeardIn, Rooms
<1>3. CASE socket[b].st # "open"
  <2>1. upward' = upward
    BY <1>3 DEF SendText
  <2>2. Waiting(b)' = Waiting(b)
    BY <2>1 DEF Waiting
  <2>3. OnTheWay(b)' = OnTheWay(b)
    BY <1>1, <1>3, <2>2 DEF OnTheWay
  <2>4. \A i \in Rooms(b) : Line(b, i)' = Line(b, i)
    BY <1>1, <1>2, <2>3 DEF Line
  <2>5. QED
    BY <1>1, <1>2, <1>3, <2>1, <2>3, <2>4 DEF LineOf
<1>4. CASE socket[b].st = "open"
  <2>1. PICK d \in Texts : /\ d = Data(b) /\ d.id = me[b].id /\ d.n = me[b].seq
                           /\ d.room = me[b].room /\ d.by = socket[b].at /\ d.type = "data"
    BY <1>1, DataIsText
  <2>2. upward' = [upward EXCEPT ![b] = Append(@, d)] /\ d \in Envelopes
    BY <1>4, <2>1 DEF SendText, Envelopes
  <2>3. Waiting(b)' = Waiting(b) \union {d}
    BY <2>1, <2>2, WaitingAdded
  <2>4. me'[b].id = d.id /\ me'[b].seq = d.n + 1 /\ me'[b].room = d.room
    <3>1. PICK m \in [id : Nat \ {0}, room : Invite, seq : Nat] : m = me[b]
      BY <1>1 DEF WebTypes
    <3>2. PICK f : f = [m EXCEPT !.seq = @ + 1]
      OBVIOUS
    <3>3. f.id = m.id /\ f.seq = m.seq + 1 /\ f.room = m.room
      BY <3>2
    <3>4. me'[b] = f
      BY <1>1, <3>1, <3>2 DEF WebTypes
    <3>5. QED
      BY <2>1, <3>1, <3>3, <3>4
  <2>5. PICK e : e = Data(b)'
    OBVIOUS
  <2>6. e.id = d.id /\ e.n = d.n + 1 /\ e.room = d.room /\ e.by = d.by
    BY <1>1, <2>1, <2>4, <2>5 DEF Data
  <2>7. OnTheWay(b)' = Waiting(b) \union {d} \union {e} /\ OnTheWay(b) = Waiting(b) \union {d}
    BY <1>1, <1>4, <2>1, <2>3, <2>5 DEF OnTheWay
  <2>8. \A x \in Waiting(b) : x.id = d.id => x.n < d.n
    BY <1>4, <2>1 DEF LineOf
  <2>9. Climbing(upward'[b])
    <3>1. PICK s \in Seq(Envelopes) : s = upward[b]
      BY DEF WebTypes
    <3>2. \A k \in 1..Len(s) : s[k].type = "data" /\ Source(s[k], d) => s[k].n < d.n
      BY <2>8, <3>1 DEF Waiting, Source
    <3>3. Climbing(Append(s, d))
      BY <2>2, <3>1, <3>2, RisingMore DEF LineOf
    <3>4. QED
      BY <2>2, <3>1, <3>3 DEF WebTypes
  <2>10. d.n \in Nat /\ \A x \in Waiting(b) : x.n \in Nat
    BY AllTexts, TextFields
  <2>11. \A x \in Waiting(b)' : x.id = me'[b].id => x.n < me'[b].seq
    BY <2>3, <2>4, <2>8, <2>10
  <2>12. ASSUME NEW i \in Rooms(b)
         PROVE  /\ Gapless(Line(b, i)')
                /\ \A x \in HeardIn(i)', y \in OnTheWay(b)' : Source(x, y) => x.n < y.n
    <3>1. i \in Invite
      BY <1>2
    <3>2. \A x \in HeardIn(i) : x.n \in Nat
      BY <3>1, AllTexts, TextFields
    <3>3. \A x \in HeardIn(i), y \in OnTheWay(b) : Source(x, y) => x.n < y.n
      BY DEF LineOf
    <3>4. ASSUME NEW x \in HeardIn(i), Source(x, e) PROVE x.n < e.n
      <4>1. Source(x, d)
        BY <2>6, <3>4 DEF Source
      <4>2. x.n < d.n
        BY <2>7, <3>3, <4>1
      <4>3. QED
        BY <2>6, <2>10, <3>2, <4>2
    <3>5. \A x \in HeardIn(i)', y \in OnTheWay(b)' : Source(x, y) => x.n < y.n
      BY <1>2, <2>7, <3>1, <3>3, <3>4
    <3>6. PICK T : T = Line(b, i) /\ Gapless(T)
      BY DEF LineOf
    <3>7. CASE d.room = i
      <4>1. Line(b, i)' = T \union {e} /\ d \in T
        BY <1>1, <1>2, <2>6, <2>7, <3>1, <3>6, <3>7 DEF Line
      <4>2. \A x \in T : x.n \in Nat
        BY <3>6, <3>1, LineTexts, TextFields
      <4>3. \A x \in T : Source(x, d) => x.n <= d.n
        <5>1. ASSUME NEW x \in HeardIn(i), Source(x, d) PROVE x.n <= d.n
          BY <2>7, <2>10, <3>2, <3>3, <5>1
        <5>2. ASSUME NEW x \in OnTheWay(b), Source(x, d) PROVE x.n <= d.n
          BY <2>7, <2>8, <2>10, <5>2 DEF Source
        <5>3. QED
          BY <3>6, <5>1, <5>2 DEF Line
      <4>4. Source(e, d) /\ e.n = d.n + 1
        BY <2>6 DEF Source
      <4>5. Gapless(T \union {e})
        BY <3>6, <4>1, <4>2, <4>3, <4>4, GaplessMore
      <4>6. QED
        BY <3>5, <4>1, <4>5
    <3>8. CASE d.room # i
      <4>1. Line(b, i)' = T
        BY <1>1, <1>2, <2>6, <2>7, <3>1, <3>6, <3>8 DEF Line
      <4>2. QED
        BY <3>5, <3>6, <4>1
    <3>9. QED
      BY <3>7, <3>8
  <2>13. QED
    BY <1>2, <2>9, <2>11, <2>12 DEF LineOf
<1>5. QED
  BY <1>3, <1>4

LEMMA LineHangsUp ==
  ASSUME WebTypes, WebTypes', Accounted, Stages, NEW b \in Browser, HangUp(b), LineOf(b),
         member[b] # Gone
  PROVE  LineOf(b)'
<1>1. /\ said' = said /\ member' = member /\ socket[b].st = "open"
      /\ socket' = [socket EXCEPT ![b].st = "closing"]
      /\ upward' = [upward EXCEPT ![b] = Append(@, [type |-> "close"])]
  BY DEF HangUp
<1>2. /\ \A i \in Invite : HeardIn(i)' = HeardIn(i)
      /\ Rooms(b)' = Rooms(b) /\ Rooms(b) \subseteq Invite
  BY <1>1 DEF HeardIn, Rooms
<1>3. socket'[b].st = "closing" /\ socket'[b].at = socket[b].at
  BY <1>1 DEF WebTypes
<1>4. PICK e \in Envelopes : e = [type |-> "close"]
  BY DEF Envelopes
<1>5. Waiting(b)' = Waiting(b)
  BY <1>1, <1>4, WaitingAdded
<1>6. OnTheWay(b)' = Waiting(b) /\ Waiting(b) \subseteq OnTheWay(b)
  BY <1>3, <1>5 DEF OnTheWay
<1>7. Climbing(upward'[b])
  <2>1. PICK s \in Seq(Envelopes) : s = upward[b]
    BY DEF WebTypes
  <2>2. Climbing(Append(s, e))
    BY <1>4, <2>1, RisingMore DEF LineOf
  <2>3. QED
    BY <1>1, <1>4, <2>1, <2>2 DEF WebTypes
<1>8. ASSUME NEW i \in Rooms(b)
      PROVE  /\ Gapless(Line(b, i)')
             /\ \A x \in HeardIn(i)', y \in OnTheWay(b)' : Source(x, y) => x.n < y.n
  <2>1. PICK T : T = {x \in HeardIn(i) : x.by = socket[b].at} \union {x \in Waiting(b) : x.room = i}
    OBVIOUS
  <2>2. Gapless(T)
    BY <1>1, <2>1, LineEnds
  <2>3. Line(b, i)' = T
    BY <1>2, <1>3, <1>6, <2>1 DEF Line
  <2>4. QED
    BY <1>2, <1>6, <2>2, <2>3 DEF LineOf
<1>9. QED
  BY <1>2, <1>3, <1>7, <1>8 DEF LineOf

(* The relay takes the first envelope of a connection.                      *)
LEMMA LineTaken ==
  ASSUME WebTypes, WebTypes', Accounted, Stages, NEW b \in Browser, LineOf(b),
         upward[b] # <<>>, Taken(b), socket' = socket, me' = me
  PROVE  LET e == Head(upward[b])
         IN  /\ Climbing(upward'[b])
             /\ socket[b].st = "open" =>
                   \A x \in Waiting(b)' : x.id = me[b].id => x.n < me[b].seq
             /\ OnTheWay(b) = OnTheWay(b)' \union (IF e.type = "data" THEN {e} ELSE {})
             /\ e.type = "data" => /\ e \in Texts /\ e \in OnTheWay(b) /\ e.by = socket[b].at
                                   /\ \A y \in OnTheWay(b)' : Source(e, y) => e.n < y.n
<1>1. PICK s \in Seq(Envelopes), e \in Envelopes : s = upward[b] /\ e = Head(upward[b])
  BY NextElements DEF WebTypes
<1>2. upward'[b] = Tail(s)
  BY <1>1 DEF Taken, WebTypes
<1>3. /\ Climbing(Tail(s))
      /\ e.type = "data" =>
            \A k \in 1..Len(Tail(s)) : Tail(s)[k].type = "data" /\ Source(e, Tail(s)[k]) =>
               e.n < Tail(s)[k].n
  <2>1. Climbing(s) /\ s # <<>>
    BY <1>1 DEF LineOf
  <2>2. QED
    BY <1>1, <2>1, RisingRest
<1>4. Waiting(b) = IF e.type = "data" THEN Waiting(b)' \union {e} ELSE Waiting(b)'
  BY <1>1, WaitingTaken
<1>5. Data(b)' = Data(b)
  BY DEF Data
<1>6. OnTheWay(b) = OnTheWay(b)' \union (IF e.type = "data" THEN {e} ELSE {})
  BY <1>4, <1>5 DEF OnTheWay
<1>7. e.type = "data" => e \in Texts /\ e \in OnTheWay(b) /\ e.by = socket[b].at
  BY <1>6, LineTexts
<1>8. socket[b].st = "open" => \A x \in Waiting(b) : x.id = me[b].id => x.n < me[b].seq
  BY DEF LineOf
<1>9. ASSUME e.type = "data", NEW y \in OnTheWay(b)', Source(e, y) PROVE e.n < y.n
  <2>1. CASE y \in Waiting(b)'
    BY <1>2, <1>3, <1>9, <2>1 DEF Waiting
  <2>2. CASE socket[b].st = "open" /\ y = Data(b)
    <3>1. y.id = me[b].id /\ y.n = me[b].seq
      BY <2>2 DEF Data
    <3>2. e \in Waiting(b)
      BY <1>4, <1>9
    <3>3. QED
      BY <1>8, <1>9, <2>2, <3>1, <3>2 DEF Source
  <2>3. QED
    BY <1>5, <1>9, <2>1, <2>2 DEF OnTheWay
<1>10. QED
  BY <1>1, <1>2, <1>3, <1>4, <1>6, <1>7, <1>8, <1>9

LEMMA LineAdmits ==
  ASSUME WebTypes, WebTypes', Accounted, Stages, NEW b \in Browser, RelayAdmits(b), LineOf(b),
         Head(upward[b]).type = "join"
  PROVE  LineOf(b)'
<1>1. /\ said' = said /\ socket' = socket /\ me' = me /\ upward[b] # <<>> /\ Taken(b)
      /\ member[b].st = "new"
  BY DEF RelayAdmits
<1>2. /\ Climbing(upward'[b])
      /\ socket[b].st = "open" => \A x \in Waiting(b)' : x.id = me[b].id => x.n < me[b].seq
      /\ OnTheWay(b)' = OnTheWay(b)
  BY <1>1, LineTaken
<1>3. \A i \in Invite : HeardIn(i)' = HeardIn(i) /\ Line(b, i)' = Line(b, i)
  BY <1>1, <1>2 DEF HeardIn, Line
<1>4. Rooms(b)' \subseteq Rooms(b) /\ Rooms(b) \subseteq Invite
  BY <1>1 DEF Rooms
<1>5. QED
  BY <1>1, <1>2, <1>3, <1>4 DEF LineOf

LEMMA LineReads ==
  ASSUME WebTypes, WebTypes', Accounted, Stages, NEW b \in Browser, RelayReads(b), LineOf(b),
         RoomsNumbered
  PROVE  /\ RoomsNumbered'
         /\ ~Ends(b) => LineOf(b)'
         /\ \A i \in Invite : /\ HeardIn(i) \subseteq HeardIn(i)'
                              /\ \A x \in HeardIn(i)' : x \in HeardIn(i) \/ x.by = socket[b].at
<1>1. /\ socket' = socket /\ me' = me /\ upward[b] # <<>> /\ member[b].st = "in"
      /\ Ends(b) \/ (Taken(b) /\ member' = member)
  BY DEF RelayReads
<1>2. PICK e \in Envelopes, r \in Invite : e = Head(upward[b]) /\ r = member[b].room
  <2>1. Head(upward[b]) \in Envelopes
    BY <1>1, NextElements DEF WebTypes
  <2>2. member[b].room \in Invite
    <3>1. member[b] # Gone /\ member[b] # [st |-> "new"]
      BY <1>1 DEF Gone
    <3>2. member[b] \in [st : {"in"}, room : Invite, next : Nat \ {0}]
      BY <3>1 DEF WebTypes
    <3>3. QED
      BY <3>2
  <2>3. QED
    BY <2>1, <2>2
<1>3. Rooms(b) = {r} /\ (member' = member => Rooms(b)' = {r})
  BY <1>1, <1>2 DEF Rooms
<1>4. CASE ~(e.type = "data" /\ e.room = r)
  <2>1. said' = said
    BY <1>2, <1>4 DEF RelayReads
  <2>2. (\A i \in Invite : HeardIn(i)' = HeardIn(i)) /\ RoomsNumbered'
    BY <2>1 DEF HeardIn, RoomsNumbered
  <2>3. ASSUME Taken(b), member' = member PROVE LineOf(b)'
    <3>1. /\ Climbing(upward'[b])
          /\ socket[b].st = "open" => \A x \in Waiting(b)' : x.id = me[b].id => x.n < me[b].seq
          /\ OnTheWay(b) = OnTheWay(b)' \union (IF e.type = "data" THEN {e} ELSE {})
      BY <1>1, <1>2, <2>3, LineTaken
    <3>2. Line(b, r)' = Line(b, r)
      BY <1>1, <1>4, <2>2, <3>1 DEF Line
    <3>3. QED
      BY <1>1, <1>3, <2>2, <2>3, <3>1, <3>2 DEF LineOf
  <2>4. QED
    BY <1>1, <2>2, <2>3
<1>5. CASE e.type = "data" /\ e.room = r
  <2>1. said' = [said EXCEPT ![r] = Append(@, e)] /\ Taken(b) /\ member' = member
    BY <1>2, <1>5 DEF RelayReads
  <2>2. /\ Climbing(upward'[b])
        /\ socket[b].st = "open" => \A x \in Waiting(b)' : x.id = me[b].id => x.n < me[b].seq
        /\ OnTheWay(b) = OnTheWay(b)' \union {e}
        /\ e \in Texts /\ e.by = socket[b].at
        /\ \A y \in OnTheWay(b)' : Source(e, y) => e.n < y.n
    BY <1>1, <1>2, <1>5, <2>1, LineTaken
  <2>3. \A i \in Invite : HeardIn(i)' = IF i = r THEN HeardIn(i) \union {e} ELSE HeardIn(i)
    BY <2>1, <2>2, RoomHears
  <2>4. \A x \in HeardIn(r) : Source(x, e) => x.n < e.n
    BY <1>3, <2>2 DEF LineOf
  <2>5. Line(b, r)' = Line(b, r) /\ e \in Line(b, r)
    BY <1>1, <1>5, <2>2, <2>3 DEF Line
  <2>6. Gapless(Line(b, r))
    BY <1>3 DEF LineOf
  <2>7. Gapless(HeardIn(r) \union {e})
    <3>1. PICK H, G : H = HeardIn(r) /\ G = Line(b, r)
      OBVIOUS
    <3>2. \A x \in H \union G : x.n \in Nat
      BY <3>1, AllTexts, LineTexts, TextFields
    <3>3. \A x \in H : x.by = e.by => x \in G
      BY <2>2, <3>1 DEF Line
    <3>4. \A x \in G \ H : Source(x, e) => x = e \/ e.n < x.n
      BY <2>2, <3>1 DEF Line, Source
    <3>5. Gapless(H) /\ Gapless(G) /\ e \in G /\ \A x \in H : Source(x, e) => x.n < e.n
      BY <2>4, <2>5, <2>6, <3>1 DEF RoomsNumbered
    <3>6. Gapless(H \union {e})
      BY <3>2, <3>3, <3>4, <3>5, GaplessHeard
    <3>7. QED
      BY <3>1, <3>6
  <2>8. Climbing(said'[r])
    <3>1. PICK s \in Seq(Texts) : s = said[r]
      BY DEF WebTypes
    <3>2. \A k \in 1..Len(s) : Source(s[k], e) => s[k].n < e.n
      BY <2>4, <3>1 DEF HeardIn
    <3>3. Climbing(s)
      BY <3>1 DEF RoomsNumbered
    <3>4. Climbing(Append(s, e))
      BY <2>2, <3>2, <3>3, RisingMore
    <3>5. QED
      BY <2>1, <3>1, <3>4 DEF WebTypes
  <2>9. \A i \in Invite : i # r => said'[i] = said[i]
    BY <2>1 DEF WebTypes
  <2>10. RoomsNumbered'
    BY <2>3, <2>7, <2>8, <2>9 DEF RoomsNumbered
  <2>11. LineOf(b)'
    <3>1. \A x \in HeardIn(r)', y \in OnTheWay(b)' : Source(x, y) => x.n < y.n
      BY <1>3, <2>2, <2>3 DEF LineOf
    <3>2. QED
      BY <1>1, <1>3, <2>1, <2>2, <2>5, <2>6, <3>1 DEF LineOf
  <2>12. QED
    BY <2>2, <2>3, <2>10, <2>11
<1>6. QED
  BY <1>4, <1>5

LEMMA NumberingStep ==
  ASSUME WebTypes, WebTypes', Accounted, Stages, Numbering, WebNext
  PROVE  Numbering'
<1>1. RoomsNumbered /\ \A b \in Browser : member[b] # Gone => LineOf(b)
  BY NumberingByOne
<1> SUFFICES RoomsNumbered' /\ \A b \in Browser : member'[b] # Gone => LineOf(b)'
  BY DEF Numbering, RoomsNumbered, LineOf
<1>2. said' = said => RoomsNumbered' /\ \A i \in Invite : HeardIn(i)' = HeardIn(i)
  BY <1>1 DEF RoomsNumbered, HeardIn
<1>3. ASSUME NEW b \in Browser,
             \/ NewWebChat(b) \/ ConnectPage(b) \/ SocketCloses(b) \/ SocketOpens(b)
             \/ JoinInvite(b) \/ SendText(b) \/ HangUp(b)
             \/ RelayAdmits(b) \/ RelayWrites(b) \/ ConnectionBreaks(b) \/ MessageArrives(b)
      PROVE  RoomsNumbered' /\ \A c \in Browser : member'[c] # Gone => LineOf(c)'
  <2>1. said' = said
    BY <1>3 DEF NewWebChat, ConnectPage, SocketCloses, SocketOpens, JoinInvite, SendText, HangUp,
                RelayAdmits, RelayWrites, ConnectionBreaks, MessageArrives
  <2>2. \A c \in Browser : c # b => member'[c] = member[c]
    BY <1>3 DEF NewWebChat, ConnectPage, SocketCloses, SocketOpens, JoinInvite, SendText, HangUp,
                RelayAdmits, RelayWrites, ConnectionBreaks, MessageArrives, Ends, Lags, WebTypes
  <2>3. \A c \in Browser : c # b => upward'[c] = upward[c]
    BY <1>3 DEF NewWebChat, ConnectPage, SocketCloses, SocketOpens, JoinInvite, SendText, HangUp,
                RelayAdmits, RelayWrites, ConnectionBreaks, MessageArrives, Ends, Lags, Taken, WebTypes
  <2>4. \A c \in Browser : c # b => socket'[c] = socket[c]
    BY <1>3 DEF NewWebChat, ConnectPage, SocketCloses, SocketOpens, JoinInvite, SendText, HangUp,
                RelayAdmits, RelayWrites, ConnectionBreaks, MessageArrives, Connects, WebTypes
  <2>5. \A c \in Browser : c # b => me'[c] = me[c]
    BY <1>3 DEF NewWebChat, ConnectPage, SocketCloses, SocketOpens, JoinInvite, SendText, HangUp,
                RelayAdmits, RelayWrites, ConnectionBreaks, MessageArrives, Joins, WebTypes
  <2>6. ASSUME NEW c \in Browser, c # b, member'[c] # Gone PROVE LineOf(c)'
    <3>1. LineOf(c)
      BY <1>1, <2>2, <2>6
    <3>2. Rooms(c)' = Rooms(c)
      BY <2>2, <2>6 DEF Rooms
    <3>3. QED
      BY <1>2, <2>1, <2>3, <2>4, <2>5, <2>6, <3>1, <3>2, LineKept
  <2>7. ASSUME member'[b] # Gone PROVE LineOf(b)'
    <3>1. CASE NewWebChat(b) \/ ConnectPage(b) \/ SocketCloses(b)
      BY <2>7, <3>1 DEF NewWebChat, ConnectPage, SocketCloses, Connects, Stages
    <3>2. CASE SocketOpens(b)
      BY <3>2, LineOpens
    <3>3. CASE JoinInvite(b)
      BY <1>1, <2>7, <3>3, LineJoins DEF JoinInvite
    <3>4. CASE SendText(b)
      BY <1>1, <2>7, <3>4, LineSends DEF SendText
    <3>5. CASE HangUp(b)
      BY <1>1, <2>7, <3>5, LineHangsUp DEF HangUp
    <3>6. CASE Ends(b)
      BY <2>7, <3>6 DEF Ends, WebTypes
    <3>7. CASE RelayAdmits(b) /\ ~Ends(b)
      <4>1. Head(upward[b]).type = "join" /\ member[b] # Gone
        BY <3>7 DEF RelayAdmits, Gone
      <4>2. QED
        BY <1>1, <3>7, <4>1, LineAdmits
    <3>8. CASE (RelayWrites(b) /\ ~Ends(b)) \/ MessageArrives(b)
      <4>1. socket' = socket /\ me' = me /\ upward' = upward
        BY <3>8 DEF RelayWrites, Lags, MessageArrives
      <4>2. LineOf(b) /\ Rooms(b)' = Rooms(b)
        <5>1. CASE MessageArrives(b)
          BY <1>1, <2>7, <5>1 DEF MessageArrives, Rooms
        <5>2. CASE RelayWrites(b) /\ ~Ends(b)
          <6>1. PICK r \in Invite, p \in Nat \ {0} : member[b] = [st |-> "in", room |-> r, next |-> p]
            BY <5>2 DEF RelayWrites, WebTypes, Gone
          <6>2. PICK f : f = [member[b] EXCEPT !.next = @ + 1]
            OBVIOUS
          <6>3. f.st = "in" /\ f.room = r
            BY <6>1, <6>2
          <6>4. member'[b] = f
            BY <5>2, <6>2 DEF RelayWrites, Lags, WebTypes
          <6>5. QED
            BY <1>1, <6>1, <6>3, <6>4 DEF Rooms, Gone
        <5>3. QED
          BY <3>8, <5>1, <5>2
      <4>3. QED
        BY <1>2, <2>1, <4>1, <4>2, LineKept
    <3>9. QED
      BY <1>3, <3>1, <3>2, <3>3, <3>4, <3>5, <3>6, <3>7, <3>8 DEF ConnectionBreaks
  <2>8. QED
    BY <1>2, <2>1, <2>6, <2>7
<1>4. ASSUME NEW b \in Browser, RelayReads(b)
      PROVE  RoomsNumbered' /\ \A c \in Browser : member'[c] # Gone => LineOf(c)'
  <2>1. /\ socket' = socket /\ me' = me /\ member[b] # Gone /\ (Ends(b) \/ Taken(b))
        /\ Ends(b) \/ member' = member
    BY <1>4 DEF RelayReads, Gone
  <2>2. /\ RoomsNumbered'
        /\ ~Ends(b) => LineOf(b)'
        /\ \A i \in Invite : /\ HeardIn(i) \subseteq HeardIn(i)'
                             /\ \A x \in HeardIn(i)' : x \in HeardIn(i) \/ x.by = socket[b].at
    BY <1>1, <1>4, <2>1, LineReads
  <2>3. \A c \in Browser : c # b => upward'[c] = upward[c] /\ member'[c] = member[c]
    BY <2>1 DEF Ends, Taken, WebTypes
  <2>4. ASSUME NEW c \in Browser, c # b, member'[c] # Gone PROVE LineOf(c)'
    <3>1. LineOf(c) /\ Rooms(c)' = Rooms(c)
      BY <1>1, <2>3, <2>4 DEF Rooms
    <3>2. socket[b].at # socket[c].at
      <4>1. socket[b].st # "none"
        BY <2>1 DEF Stages
      <4>2. socket[b].at > 0
        BY <4>1 DEF Stages
      <4>3. QED
        BY <2>4, <4>2 DEF Accounted
    <3>3. QED
      BY <2>1, <2>2, <2>3, <2>4, <3>1, <3>2, LineKept
  <2>5. member'[b] # Gone => LineOf(b)'
    BY <2>2 DEF Ends, WebTypes
  <2>6. QED
    BY <2>2, <2>4, <2>5
<1>5. QED
  BY <1>3, <1>4 DEF WebNext

-----------------------------------------------------------------------------
(* Listening, one browser at a time.                                        *)
NotYetIn(b) == shown[b] = <<>> /\ downward[b] = <<>> /\ member[b].st # "in"
Hears(b) == NotYetIn(b) \/ \E r \in Invite : \E p \in Nat \ {0} : Follows(b, r, p)

LEMMA ListeningByOne == Listening <=> \A b \in Browser : Hears(b)
  BY DEF Listening, Hears, NotYetIn

LEMMA HeardOnce ==
  ASSUME WebTypes, RoomsNumbered, NEW i \in Invite,
         NEW k \in 1..Len(said[i]), NEW j \in 1..Len(said[i]), said[i][k] = said[i][j]
  PROVE  k = j
<1>1. Len(said[i]) \in Nat /\ said[i][k] \in Texts /\ said[i][j] \in Texts
  <2>1. said[i] \in Seq(Texts)
    BY DEF WebTypes
  <2>2. QED
    BY <2>1, ElementOf
<1>2. /\ said[i][k].type = "data" /\ said[i][j].type = "data" /\ said[i][k].n \in Nat
      /\ Source(said[i][k], said[i][j]) /\ Source(said[i][j], said[i][k])
  BY <1>1, TextFields DEF Source
<1>3. /\ k < j => said[i][k].n < said[i][j].n
      /\ j < k => said[i][j].n < said[i][k].n
  BY <1>2 DEF RoomsNumbered, Climbing
<1>4. QED
  BY <1>1, <1>2, <1>3

(* A room that hears more changes nothing of this.                          *)
LEMMA LongerRoom ==
  ASSUME NEW t, NEW u, NEW p \in Nat \ {0}, Len(t) \in Nat, Len(u) \in Nat, Len(t) <= Len(u),
         \A k \in 1..Len(t) : u[k] = t[k], p <= Len(t) + 1, NEW s, NEW id
  PROVE  /\ Shown(s, t, p) => Shown(s, u, p)
         /\ Ordered(s, t, p) => Ordered(s, u, p)
         /\ Unbroken(s, t, p) => Unbroken(s, u, p)
         /\ UpToDate(s, t, p, id) => UpToDate(s, u, p, id)
<1>1. \A k \in 1..(p - 1) : k \in 1..Len(t) /\ u[k] = t[k]
  OBVIOUS
<1>2. Shown(s, t, p) => Shown(s, u, p)
  BY <1>1 DEF Shown
<1>3. Ordered(s, t, p) => Ordered(s, u, p)
  BY <1>1 DEF Ordered
<1>6. Unbroken(s, t, p) => Unbroken(s, u, p)
  <2> SUFFICES ASSUME Unbroken(s, t, p) PROVE Unbroken(s, u, p)
    OBVIOUS
  <2> SUFFICES ASSUME NEW j \in 1..Len(s), NEW k \in 1..(j - 1)
               PROVE  \A q, h, m \in 1..(p - 1) :
                         /\ u[q] = s[k].text /\ u[h] = s[j].text /\ s[k].to = s[j].to
                         /\ q < m /\ m < h /\ u[m].id = u[q].id
                         => \E g \in (k + 1)..(j - 1) : s[g].text = u[m]
    BY DEF Unbroken
  <2> SUFFICES ASSUME NEW q \in 1..(p - 1), NEW h \in 1..(p - 1), NEW m \in 1..(p - 1),
                      u[q] = s[k].text, u[h] = s[j].text, s[k].to = s[j].to,
                      q < m, m < h, u[m].id = u[q].id
               PROVE  \E g \in (k + 1)..(j - 1) : s[g].text = u[m]
    OBVIOUS
  <2>1. t[q] = s[k].text /\ t[h] = s[j].text /\ t[m].id = t[q].id /\ t[m] = u[m]
    BY <1>1
  <2>2. \E g \in (k + 1)..(j - 1) : s[g].text = t[m]
    BY <2>1 DEF Unbroken
  <2>3. QED
    BY <2>1, <2>2
<1>4. UpToDate(s, t, p, id) => UpToDate(s, u, p, id)
  <2> SUFFICES ASSUME UpToDate(s, t, p, id),
                      NEW k \in 1..Len(s), NEW q \in 1..(p - 1), NEW h \in 1..(p - 1),
                      s[k].to = id, q < h, u[q] = s[k].text, u[h].id = u[q].id
               PROVE  \E g \in (k + 1)..Len(s) : s[g].text = u[h]
    BY DEF UpToDate
  <2>1. t[q] = s[k].text /\ t[h].id = t[q].id /\ t[h] = u[h]
    BY <1>1
  <2>2. \E g \in (k + 1)..Len(s) : s[g].text = t[h]
    BY <2>1 DEF UpToDate
  <2>3. QED
    BY <2>1, <2>2
<1>5. QED
  BY <1>2, <1>3, <1>4, <1>6

LEMMA LongerArriving ==
  ASSUME NEW t, NEW u, NEW p \in Nat \ {0}, Len(t) \in Nat, Len(u) \in Nat, Len(t) <= Len(u),
         \A k \in 1..Len(t) : u[k] = t[k], NEW d, Len(d) \in Nat, Arriving(d, t, p)
  PROVE  Arriving(d, u, p) /\ Arriving(<<>>, u, p) /\ p <= Len(t) + 1
<1>1. p + Len(d) <= Len(t) + 1 /\ \A j \in 1..Len(d) : d[j] = t[p + j - 1]
  BY DEF Arriving
<1>2. \A j \in 1..Len(d) : p + j - 1 \in 1..Len(t)
  BY <1>1
<1>3. \A j \in 1..Len(d) : d[j] = u[p + j - 1]
  BY <1>1, <1>2
<1>4. p <= Len(t) + 1 /\ p + Len(d) <= Len(u) + 1 /\ p + 0 <= Len(u) + 1
  BY <1>1
<1>5. Len(<<>>) = 0 /\ 1..0 = {}
  OBVIOUS
<1>6. Arriving(d, u, p)
  BY <1>3, <1>4 DEF Arriving
<1>7. Arriving(<<>>, u, p)
  BY <1>4, <1>5 DEF Arriving
<1>8. QED
  BY <1>4, <1>6, <1>7

(* Nothing changes for one whose messages stay.                             *)
LEMMA FollowsKept ==
  ASSUME NEW b \in Browser, NEW r \in Invite, NEW p \in Nat \ {0}, Follows(b, r, p),
         Len(said[r]) \in Nat, Len(said'[r]) \in Nat, Len(said[r]) <= Len(said'[r]),
         \A k \in 1..Len(said[r]) : said'[r][k] = said[r][k],
         Len(downward[b]) \in Nat, shown'[b] = shown[b],
         \/ downward'[b] = downward[b]
         \/ downward'[b] = <<>> /\ member'[b].st # "in",
         member'[b] = member[b] \/ member'[b].st # "in",
         \/ me'[b].id = me[b].id /\ me'[b].room = me[b].room
         \/ \A k \in 1..Len(shown[b]) : shown[b][k].to # me'[b].id
  PROVE  Follows(b, r, p)'
<1>1. PICK t, u, d, s, i, j : /\ t = said[r] /\ u = said'[r] /\ d = downward[b]
                              /\ s = shown[b] /\ i = me[b].id /\ j = me'[b].id
  OBVIOUS
<1>2. /\ Arriving(d, t, p) /\ Shown(s, t, p) /\ Ordered(s, t, p) /\ UpToDate(s, t, p, i)
      /\ Unbroken(s, t, p)
      /\ \A k \in 1..Len(s) : s[k].to = i => me[b].room = r
  BY <1>1 DEF Follows
<1>3. Arriving(d, u, p) /\ Arriving(<<>>, u, p) /\ p <= Len(t) + 1
  BY <1>1, <1>2, LongerArriving
<1>4. Shown(s, u, p) /\ Ordered(s, u, p) /\ Unbroken(s, u, p) /\ UpToDate(s, u, p, i)
  BY <1>1, <1>2, <1>3, LongerRoom
<1>5. UpToDate(s, u, p, j) /\ \A k \in 1..Len(s) : s[k].to = j => me'[b].room = r
  <2>1. CASE j = i /\ me'[b].room = me[b].room
    BY <1>2, <1>4, <2>1
  <2>2. CASE \A k \in 1..Len(s) : s[k].to # j
    BY <2>2 DEF UpToDate
  <2>3. QED
    BY <1>1, <2>1, <2>2
<1>6. Arriving(downward'[b], u, p)
  BY <1>1, <1>3
<1>7. member'[b].st = "in" => member'[b].room = r /\ member'[b].next = p + Len(downward'[b])
  BY DEF Follows
<1>8. QED
  BY <1>1, <1>4, <1>5, <1>6, <1>7 DEF Follows

LEMMA NextArrives ==
  ASSUME NEW d \in Seq(Texts), d # <<>>, NEW t, Len(t) \in Nat, NEW p \in Nat \ {0},
         Arriving(d, t, p)
  PROVE  /\ Arriving(Tail(d), t, p + 1) /\ Head(d) = t[p] /\ p \in 1..Len(t)
         /\ (p + 1) + Len(Tail(d)) = p + Len(d)
<1>1. /\ Len(d) \in Nat /\ Len(d) > 0 /\ Head(d) = d[1] /\ Len(Tail(d)) = Len(d) - 1
      /\ \A k \in 1..(Len(d) - 1) : Tail(d)[k] = d[k + 1]
  BY NextElements
<1>2. p + Len(d) <= Len(t) + 1 /\ \A j \in 1..Len(d) : d[j] = t[p + j - 1]
  BY DEF Arriving
<1>3. \A j \in 1..(Len(d) - 1) : j + 1 \in 1..Len(d) /\ p + (j + 1) - 1 = (p + 1) + j - 1
  BY <1>1
<1>4. \A j \in 1..(Len(d) - 1) : Tail(d)[j] = t[(p + 1) + j - 1]
  BY <1>1, <1>2, <1>3
<1>5. (p + 1) + Len(Tail(d)) = p + Len(d) /\ p \in 1..Len(t) /\ 1 \in 1..Len(d) /\ p + 1 - 1 = p
  BY <1>1, <1>2
<1>6. d[1] = t[p]
  BY <1>2, <1>5
<1>7. QED
  BY <1>1, <1>2, <1>4, <1>5, <1>6 DEF Arriving

(* The next message of the room, shown or skipped.                          *)
LEMMA PastNext ==
  ASSUME NEW t, NEW p \in Nat \ {0}, \A q, h \in 1..p : t[q] = t[h] => q = h,
         NEW s, Shown(s, t, p), Len(s) \in Nat
  PROVE  \A k \in 1..Len(s) : \A q \in 1..p : t[q] = s[k].text => q \in 1..(p - 1)
<1> SUFFICES ASSUME NEW k \in 1..Len(s), NEW q \in 1..p, t[q] = s[k].text
             PROVE  q \in 1..(p - 1)
  OBVIOUS
<1>1. PICK h \in 1..(p - 1) : s[k].text = t[h]
  BY DEF Shown
<1>2. h \in 1..p
  OBVIOUS
<1>3. QED
  BY <1>1, <1>2

LEMMA SkipsNext ==
  ASSUME NEW t, NEW p \in Nat \ {0}, \A q, h \in 1..p : t[q] = t[h] => q = h,
         NEW s, NEW id, Len(s) \in Nat,
         Shown(s, t, p), Ordered(s, t, p), Unbroken(s, t, p), UpToDate(s, t, p, id),
         \A k \in 1..Len(s) : s[k].to = id => t[p].id = id
  PROVE  /\ Shown(s, t, p + 1) /\ Ordered(s, t, p + 1) /\ Unbroken(s, t, p + 1)
         /\ UpToDate(s, t, p + 1, id)
<1>1. \A k \in 1..Len(s) : \A q \in 1..p : t[q] = s[k].text => q \in 1..(p - 1)
  BY PastNext
<1>2. (p + 1) - 1 = p /\ 1..(p - 1) \subseteq 1..p /\ \A q \in 1..p : q \in 1..(p - 1) \/ q = p
  OBVIOUS
<1>3. Shown(s, t, p + 1)
  BY <1>2 DEF Shown
<1>4. Ordered(s, t, p + 1)
  <2> SUFFICES ASSUME NEW j \in 1..Len(s), NEW k \in 1..(j - 1), NEW q \in 1..p, NEW h \in 1..p,
                      t[q] = s[k].text, t[h] = s[j].text
               PROVE  q < h
    BY <1>2 DEF Ordered
  <2>1. k \in 1..Len(s)
    OBVIOUS
  <2>2. q \in 1..(p - 1) /\ h \in 1..(p - 1)
    BY <1>1, <2>1
  <2>3. QED
    BY <2>2 DEF Ordered
<1>5. Unbroken(s, t, p + 1)
  <2> SUFFICES ASSUME NEW j \in 1..Len(s), NEW k \in 1..(j - 1)
               PROVE  \A q, h, m \in 1..p :
                         /\ t[q] = s[k].text /\ t[h] = s[j].text /\ s[k].to = s[j].to
                         /\ q < m /\ m < h /\ t[m].id = t[q].id
                         => \E g \in (k + 1)..(j - 1) : s[g].text = t[m]
    BY <1>2 DEF Unbroken
  <2> SUFFICES ASSUME NEW q \in 1..p, NEW h \in 1..p, NEW m \in 1..p,
                      t[q] = s[k].text, t[h] = s[j].text, s[k].to = s[j].to,
                      q < m, m < h, t[m].id = t[q].id
               PROVE  \E g \in (k + 1)..(j - 1) : s[g].text = t[m]
    OBVIOUS
  <2>1. k \in 1..Len(s)
    OBVIOUS
  <2>2. q \in 1..(p - 1) /\ h \in 1..(p - 1)
    BY <1>1, <2>1
  <2>3. m \in 1..(p - 1)
    BY <2>2
  <2>4. QED
    BY <2>2, <2>3 DEF Unbroken
<1>6. UpToDate(s, t, p + 1, id)
  <2> SUFFICES ASSUME NEW k \in 1..Len(s), NEW q \in 1..p, NEW h \in 1..p,
                      s[k].to = id, q < h, t[q] = s[k].text, t[h].id = t[q].id
               PROVE  \E g \in (k + 1)..Len(s) : s[g].text = t[h]
    BY <1>2 DEF UpToDate
  <2>1. q \in 1..(p - 1)
    BY <1>1
  <2>2. h # p
    BY DEF Shown
  <2>3. h \in 1..(p - 1)
    BY <2>2
  <2>4. QED
    BY <2>1, <2>3 DEF UpToDate
<1>7. QED
  BY <1>3, <1>4, <1>5, <1>6

LEMMA ShowsNext ==
  ASSUME NEW t, NEW p \in Nat \ {0}, \A q, h \in 1..p : t[q] = t[h] => q = h,
         NEW S, NEW s \in Seq(S), NEW id, NEW e \in S, e.text = t[p], e.to = id,
         Shown(s, t, p), Ordered(s, t, p), Unbroken(s, t, p), UpToDate(s, t, p, id),
         t[p].id # id
  PROVE  /\ Shown(Append(s, e), t, p + 1) /\ Ordered(Append(s, e), t, p + 1)
         /\ Unbroken(Append(s, e), t, p + 1) /\ UpToDate(Append(s, e), t, p + 1, id)
<1>11. PICK f : f = Append(s, e)
  OBVIOUS
<1>12. PICK L \in Nat : L = Len(s)
  OBVIOUS
<1>1. f = Append(s, e) /\ L = Len(s)
  BY <1>11, <1>12
<1>2. /\ Len(f) = L + 1 /\ f[L + 1] = e
      /\ \A k \in 1..L : f[k] = s[k]
  BY <1>1, MoreElements
<1>3. \A k \in 1..L : \A q \in 1..p : t[q] = s[k].text => q \in 1..(p - 1)
  BY <1>1, PastNext
<1>4. /\ (p + 1) - 1 = p /\ 1..(p - 1) \subseteq 1..p
      /\ \A k \in 1..(L + 1) : k \in 1..L \/ k = L + 1
      /\ p \in 1..p
  OBVIOUS
<1>5. \A q \in 1..p : t[q] = t[p] => q = p
  BY <1>4
<1>6. Shown(f, t, p + 1)
  BY <1>1, <1>2, <1>4 DEF Shown
<1>7. Ordered(f, t, p + 1)
  <2> SUFFICES ASSUME NEW j \in 1..(L + 1), NEW k \in 1..(j - 1), NEW q \in 1..p, NEW h \in 1..p,
                      t[q] = f[k].text, t[h] = f[j].text
               PROVE  q < h
    BY <1>2, <1>4 DEF Ordered
  <2>1. k \in 1..L
    OBVIOUS
  <2>2. q \in 1..(p - 1) /\ t[q] = s[k].text
    BY <1>2, <1>3, <2>1
  <2>3. CASE j \in 1..L
    <3>1. h \in 1..(p - 1) /\ t[h] = s[j].text
      BY <1>2, <1>3, <2>3
    <3>2. QED
      BY <1>1, <2>2, <2>3, <3>1 DEF Ordered
  <2>4. CASE j = L + 1
    <3>1. h = p
      BY <1>2, <1>5, <2>4
    <3>2. QED
      BY <2>2, <3>1
  <2>5. QED
    BY <1>4, <2>3, <2>4
<1>8. Unbroken(f, t, p + 1)
  <2> SUFFICES ASSUME NEW j \in 1..(L + 1), NEW k \in 1..(j - 1)
               PROVE  \A q, h, m \in 1..p :
                         /\ t[q] = f[k].text /\ t[h] = f[j].text /\ f[k].to = f[j].to
                         /\ q < m /\ m < h /\ t[m].id = t[q].id
                         => \E g \in (k + 1)..(j - 1) : f[g].text = t[m]
    BY <1>2, <1>4 DEF Unbroken
  <2> SUFFICES ASSUME NEW q \in 1..p, NEW h \in 1..p, NEW m \in 1..p,
                      t[q] = f[k].text, t[h] = f[j].text, f[k].to = f[j].to,
                      q < m, m < h, t[m].id = t[q].id
               PROVE  \E g \in (k + 1)..(j - 1) : f[g].text = t[m]
    OBVIOUS
  <2>1. k \in 1..L /\ f[k] = s[k]
    BY <1>2
  <2>2. q \in 1..(p - 1) /\ t[q] = s[k].text /\ m \in 1..(p - 1)
    BY <1>3, <2>1
  <2>3. CASE j \in 1..L
    <3>1. h \in 1..(p - 1) /\ t[h] = s[j].text /\ s[k].to = s[j].to
      BY <1>2, <1>3, <2>1, <2>3
    <3>2. PICK g \in (k + 1)..(j - 1) : s[g].text = t[m]
      BY <1>1, <2>2, <2>3, <3>1 DEF Unbroken
    <3>3. g \in 1..L
      BY <2>1, <2>3
    <3>4. QED
      BY <1>2, <3>2, <3>3
  <2>4. CASE j = L + 1
    <3>1. s[k].to = id
      BY <1>2, <2>1, <2>4
    <3>2. PICK g \in (k + 1)..L : s[g].text = t[m]
      BY <1>1, <2>1, <2>2, <3>1 DEF UpToDate
    <3>3. g \in 1..L /\ g \in (k + 1)..(j - 1)
      BY <2>1, <2>4
    <3>4. QED
      BY <1>2, <3>2, <3>3
  <2>5. QED
    BY <1>4, <2>3, <2>4
<1>9. UpToDate(f, t, p + 1, id)
  <2> SUFFICES ASSUME NEW k \in 1..(L + 1), NEW q \in 1..p, NEW h \in 1..p,
                      f[k].to = id, q < h, t[q] = f[k].text, t[h].id = t[q].id
               PROVE  \E g \in (k + 1)..(L + 1) : f[g].text = t[h]
    BY <1>2, <1>4 DEF UpToDate
  <2>1. k # L + 1
    BY <1>2, <1>5
  <2>2. k \in 1..L /\ f[k] = s[k]
    BY <1>2, <2>1
  <2>3. q \in 1..(p - 1) /\ t[q] = s[k].text /\ s[k].to = id
    BY <1>3, <2>2
  <2>4. CASE h = p
    <3>1. L + 1 \in (k + 1)..(L + 1) /\ f[L + 1].text = t[h]
      BY <1>2, <2>2, <2>4
    <3>2. QED
      BY <3>1
  <2>5. CASE h # p
    <3>1. h \in 1..(p - 1)
      BY <2>5
    <3>2. PICK g \in (k + 1)..L : s[g].text = t[h]
      BY <1>1, <2>2, <2>3, <3>1 DEF UpToDate
    <3>3. g \in 1..L /\ g \in (k + 1)..(L + 1)
      BY <2>2
    <3>4. QED
      BY <1>2, <3>2, <3>3
  <2>6. QED
    BY <2>4, <2>5
<1>10. QED
  BY <1>1, <1>6, <1>7, <1>8, <1>9

LEMMA ListeningInit == WebInit => Listening
  BY DEF WebInit, Listening, Gone

LEMMA RoomsGrow ==
  ASSUME WebTypes, WebTypes', WebNext, NEW r \in Invite
  PROVE  /\ Len(said[r]) \in Nat /\ Len(said'[r]) \in Nat /\ Len(said[r]) <= Len(said'[r])
         /\ \A k \in 1..Len(said[r]) : said'[r][k] = said[r][k]
<1>1. PICK t \in Seq(Texts) : t = said[r]
  BY DEF WebTypes
<1>2. said' = said \/ \E b \in Browser : RelayReads(b)
  BY DEF WebNext, NewWebChat, JoinInvite, ConnectPage, SocketOpens, SendText, HangUp, RelayAdmits,
         RelayWrites, ConnectionBreaks, MessageArrives, SocketCloses
<1>3. said'[r] = t \/ \E e \in Texts : said'[r] = Append(t, e)
  <2>1. CASE said' = said
    BY <1>1, <2>1
  <2>2. ASSUME NEW b \in Browser, RelayReads(b), said' # said
        PROVE  said'[r] = t \/ \E e \in Texts : said'[r] = Append(t, e)
    <3>1. upward[b] \in Seq(Envelopes) /\ upward[b] # <<>>
      BY <2>2 DEF RelayReads, WebTypes
    <3>2. PICK e \in Envelopes : e = Head(upward[b])
      BY <3>1, NextElements
    <3>3. e.type = "data" /\ said' = [said EXCEPT ![e.room] = Append(@, e)]
      BY <2>2, <3>2 DEF RelayReads
    <3>4. e \in Texts
      BY <3>3 DEF Envelopes
    <3>5. QED
      BY <1>1, <3>3, <3>4 DEF WebTypes
  <2>3. QED
    BY <1>2, <2>1, <2>2
<1>4. ASSUME NEW e \in Texts
      PROVE  /\ Len(Append(t, e)) = Len(t) + 1 /\ Len(t) \in Nat
             /\ \A k \in 1..Len(t) : Append(t, e)[k] = t[k]
  BY MoreElements
<1>5. Len(t) \in Nat
  OBVIOUS
<1>6. QED
  BY <1>1, <1>3, <1>4, <1>5

LEMMA HearsKept ==
  ASSUME WebTypes, WebTypes', WebNext, NEW b \in Browser, Hears(b), shown'[b] = shown[b],
         \/ downward'[b] = downward[b]
         \/ downward'[b] = <<>> /\ member'[b].st # "in",
         member'[b] = member[b] \/ member'[b].st # "in",
         \/ me'[b].id = me[b].id /\ me'[b].room = me[b].room
         \/ \A k \in 1..Len(shown[b]) : shown[b][k].to # me'[b].id
  PROVE  Hears(b)'
<1>1. CASE NotYetIn(b)
  BY <1>1 DEF NotYetIn, Hears
<1>2. ASSUME NEW r \in Invite, NEW p \in Nat \ {0}, Follows(b, r, p) PROVE Hears(b)'
  <2>1. Len(downward[b]) \in Nat
    BY DEF WebTypes
  <2>2. Follows(b, r, p)'
    BY <1>2, <2>1, RoomsGrow, FollowsKept
  <2>3. QED
    BY <2>2 DEF Hears
<1>3. QED
  BY <1>1, <1>2 DEF Hears

LEMMA AdmittedHears ==
  ASSUME WebTypes, WebTypes', Stages, NEW b \in Browser, RelayAdmits(b), ~Ends(b)
  PROVE  Hears(b)'
<1>1. /\ said' = said /\ shown' = shown /\ downward' = downward /\ me' = me
      /\ upward[b] # <<>> /\ Head(upward[b]).type = "join" /\ member[b].st = "new"
      /\ member' = [member EXCEPT ![b] = [st |-> "in", room |-> Head(upward[b]).room,
                               next |-> Len(said[Head(upward[b]).room]) + 1]]
  BY DEF RelayAdmits
<1>2. Head(upward[b]) \in Envelopes
  BY <1>1, NextElements DEF WebTypes
<1>3. PICK r \in Invite : r = Head(upward[b]).room
  BY <1>1, <1>2 DEF Envelopes, Texts
<1>4. PICK L \in Nat : L = Len(said[r])
  BY DEF WebTypes
<1>5. member'[b] = [st |-> "in", room |-> r, next |-> L + 1]
  BY <1>1, <1>3, <1>4 DEF WebTypes
<1>6. shown[b] = <<>> /\ downward[b] = <<>>
  BY <1>1 DEF Stages
<1>7. Len(shown'[b]) = 0 /\ Len(downward'[b]) = 0
  BY <1>1, <1>6
<1>8. /\ Arriving(downward'[b], said'[r], L + 1) /\ Shown(shown'[b], said'[r], L + 1)
      /\ Ordered(shown'[b], said'[r], L + 1) /\ Unbroken(shown'[b], said'[r], L + 1)
      /\ UpToDate(shown'[b], said'[r], L + 1, me'[b].id)
  BY <1>1, <1>4, <1>7 DEF Arriving, Shown, Ordered, Unbroken, UpToDate
<1>9. Follows(b, r, L + 1)'
  BY <1>5, <1>7, <1>8 DEF Follows
<1>10. L + 1 \in Nat \ {0}
  OBVIOUS
<1>11. QED
  BY <1>9, <1>10 DEF Hears

LEMMA WrittenHears ==
  ASSUME WebTypes, WebTypes', NEW b \in Browser, RelayWrites(b), ~Ends(b), Hears(b)
  PROVE  Hears(b)'
<1>1. PICK x \in Invite, n \in Nat \ {0} : member[b] = [st |-> "in", room |-> x, next |-> n]
  BY DEF RelayWrites, WebTypes, Gone
<1>2. PICK r \in Invite, p \in Nat \ {0} : Follows(b, r, p)
  BY <1>1 DEF Hears, NotYetIn
<1>3. PICK d \in Seq(Texts), t \in Seq(Texts) : d = downward[b] /\ t = said[r]
  BY DEF WebTypes
<1>4. x = r /\ n = p + Len(d) /\ Arriving(d, t, p)
  BY <1>1, <1>2, <1>3 DEF Follows
<1>5. /\ said' = said /\ shown' = shown /\ me' = me
      /\ downward' = [downward EXCEPT ![b] = Append(@, t[n])]
      /\ member' = [member EXCEPT ![b].next = @ + 1]
      /\ n <= Len(t)
  BY <1>1, <1>3, <1>4 DEF RelayWrites, Lags
<1>6. PICK e \in Texts : e = t[n]
  BY <1>5
<1>7. downward'[b] = Append(d, e)
  BY <1>3, <1>5, <1>6 DEF WebTypes
<1>8. /\ Len(Append(d, e)) = Len(d) + 1 /\ Len(d) \in Nat /\ Append(d, e)[Len(d) + 1] = e
      /\ \A k \in 1..Len(d) : Append(d, e)[k] = d[k]
  BY MoreElements
<1>9. Arriving(Append(d, e), t, p)
  <2>1. p + Len(d) <= Len(t) + 1 /\ \A j \in 1..Len(d) : d[j] = t[p + j - 1]
    BY <1>4 DEF Arriving
  <2>2. p + (Len(d) + 1) <= Len(t) + 1 /\ p + (Len(d) + 1) - 1 = n
    BY <1>4, <1>5, <1>8
  <2>3. \A j \in 1..(Len(d) + 1) : j \in 1..Len(d) \/ j = Len(d) + 1
    BY <1>8
  <2>4. \A j \in 1..(Len(d) + 1) : Append(d, e)[j] = t[p + j - 1]
    BY <1>6, <1>8, <2>1, <2>2, <2>3
  <2>5. QED
    BY <1>8, <2>2, <2>4 DEF Arriving
<1>10. member'[b] = [st |-> "in", room |-> r, next |-> n + 1] /\ n + 1 = p + (Len(d) + 1)
  <2>1. PICK f : f = [member[b] EXCEPT !.next = @ + 1]
    OBVIOUS
  <2>2. f = [st |-> "in", room |-> r, next |-> n + 1]
    BY <1>1, <1>4, <2>1
  <2>3. member'[b] = f
    BY <1>5, <2>1 DEF WebTypes
  <2>4. n + 1 = p + (Len(d) + 1)
    BY <1>4, <1>8
  <2>5. QED
    BY <2>2, <2>3, <2>4
<1>11. Follows(b, r, p)'
  BY <1>2, <1>3, <1>5, <1>7, <1>8, <1>9, <1>10 DEF Follows
<1>12. QED
  BY <1>11 DEF Hears

LEMMA ArrivedHears ==
  ASSUME WebTypes, WebTypes', Accounted, RoomsNumbered, NEW b \in Browser, MessageArrives(b), Hears(b)
  PROVE  Hears(b)'
<1>1. /\ said' = said /\ me' = me /\ member' = member /\ downward[b] # <<>>
      /\ downward' = [downward EXCEPT ![b] = Tail(@)]
      /\ shown' = IF Shows(b, Head(downward[b]))
                  THEN [shown EXCEPT ![b] =
                           Append(@, [text |-> Head(downward[b]), to |-> me[b].id])]
                  ELSE shown
  BY DEF MessageArrives
<1>2. PICK r \in Invite, p \in Nat \ {0} : Follows(b, r, p)
  BY <1>1 DEF Hears, NotYetIn
<1>3. PICK S : S = [text : Texts, to : Nat]
  OBVIOUS
<1>4. PICK d \in Seq(Texts), t \in Seq(Texts), s \in Seq(S), id \in Nat :
         d = downward[b] /\ t = said[r] /\ s = shown[b] /\ id = me[b].id
  <2>1. downward[b] \in Seq(Texts) /\ said[r] \in Seq(Texts) /\ me[b].id \in Nat
    BY DEF WebTypes, Nobody
  <2>2. shown[b] \in Seq(S)
    BY <1>3 DEF WebTypes
  <2>3. QED
    BY <2>1, <2>2
<1>5. /\ Arriving(d, t, p) /\ Shown(s, t, p) /\ Ordered(s, t, p) /\ Unbroken(s, t, p)
      /\ UpToDate(s, t, p, id)
      /\ member[b].st = "in" => member[b].room = r /\ member[b].next = p + Len(d)
      /\ \A k \in 1..Len(s) : s[k].to = id => me[b].room = r
  BY <1>2, <1>4 DEF Follows
<1>6. /\ Arriving(Tail(d), t, p + 1) /\ Head(d) = t[p] /\ p \in 1..Len(t)
      /\ (p + 1) + Len(Tail(d)) = p + Len(d) /\ Len(t) \in Nat
  <2>1. d # <<>> /\ Len(t) \in Nat /\ Arriving(d, t, p)
    BY <1>1, <1>4, <1>5
  <2>2. QED
    BY <2>1, NextArrives
<1>7. \A q, h \in 1..p : t[q] = t[h] => q = h
  <2>1. \A q \in 1..p : q \in 1..Len(said[r])
    BY <1>4, <1>6
  <2>2. QED
    BY <1>4, <2>1, HeardOnce
<1>8. t[p] \in Texts /\ t[p].room = r
  <2>1. t[p] \in HeardIn(r)
    BY <1>4, <1>6 DEF HeardIn
  <2>2. QED
    BY <1>6, <2>1 DEF Accounted
<1>9. downward'[b] = Tail(d)
  BY <1>1, <1>4 DEF WebTypes
<1>10. Len(s) \in Nat
  OBVIOUS
<1>11. CASE Shows(b, Head(d))
  <2>1. t[p].id # id /\ me[b].room = r
    BY <1>4, <1>6, <1>8, <1>11 DEF Shows, Decodes
  <2>2. PICK e : e = [text |-> t[p], to |-> id]
    OBVIOUS
  <2>3. e \in S /\ e.text = t[p] /\ e.to = id
    BY <1>3, <1>8, <2>2
  <2>4. shown'[b] = Append(s, e)
    BY <1>1, <1>4, <1>6, <1>11, <2>2 DEF WebTypes
  <2>5. /\ Shown(Append(s, e), t, p + 1) /\ Ordered(Append(s, e), t, p + 1)
        /\ Unbroken(Append(s, e), t, p + 1) /\ UpToDate(Append(s, e), t, p + 1, id)
    BY <1>5, <1>7, <2>1, <2>3, ShowsNext
  <2>6. Follows(b, r, p + 1)'
    BY <1>1, <1>4, <1>5, <1>6, <1>9, <2>1, <2>4, <2>5 DEF Follows
  <2>7. p + 1 \in Nat \ {0}
    OBVIOUS
  <2>8. QED
    BY <2>6, <2>7 DEF Hears
<1>12. CASE ~Shows(b, Head(d))
  <2>1. \A k \in 1..Len(s) : s[k].to = id => t[p].id = id
    BY <1>4, <1>5, <1>6, <1>8, <1>12 DEF Shows, Decodes
  <2>2. shown'[b] = s
    BY <1>1, <1>4, <1>12
  <2>3. /\ Shown(s, t, p + 1) /\ Ordered(s, t, p + 1)
        /\ Unbroken(s, t, p + 1) /\ UpToDate(s, t, p + 1, id)
    BY <1>5, <1>7, <1>10, <2>1, SkipsNext
  <2>4. Follows(b, r, p + 1)'
    BY <1>1, <1>4, <1>5, <1>6, <1>9, <2>2, <2>3 DEF Follows
  <2>5. p + 1 \in Nat \ {0}
    OBVIOUS
  <2>6. QED
    BY <2>4, <2>5 DEF Hears
<1>13. QED
  BY <1>11, <1>12

LEMMA ListeningStep ==
  ASSUME WebTypes, WebTypes', Accounted, Stages, Numbering, Listening, WebNext
  PROVE  Listening'
<1>1. RoomsNumbered /\ \A b \in Browser : Hears(b)
  BY NumberingByOne, ListeningByOne
<1> SUFFICES \A b \in Browser : Hears(b)'
  BY DEF Listening, Hears, NotYetIn
<1>2. ASSUME NEW b \in Browser, NewWebChat(b) \/ ConnectPage(b)
      PROVE  \A c \in Browser : Hears(c)'
  <2>1. /\ downward' = downward /\ member' = member /\ socket[b].st = "none"
        /\ shown' = [shown EXCEPT ![b] = <<>>]
        /\ \A c \in Browser : c # b => me'[c] = me[c]
    BY <1>2 DEF NewWebChat, ConnectPage, Joins, Connects, WebTypes
  <2>2. shown'[b] = <<>> /\ \A c \in Browser : c # b => shown'[c] = shown[c]
    BY <2>1 DEF WebTypes
  <2>3. member[b] = Gone /\ downward[b] = <<>>
    BY <2>1 DEF Stages
  <2>4. Hears(b)'
    BY <2>1, <2>2, <2>3 DEF Hears, NotYetIn, Gone
  <2>5. ASSUME NEW c \in Browser, c # b PROVE Hears(c)'
    BY <1>1, <2>1, <2>2, <2>5, HearsKept
  <2>6. QED
    BY <2>4, <2>5
<1>3. ASSUME NEW b \in Browser, JoinInvite(b) PROVE \A c \in Browser : Hears(c)'
  <2>1. /\ downward' = downward /\ member' = member /\ shown' = shown
        /\ \A c \in Browser : c # b => me'[c] = me[c]
        /\ me'[b].id = identities + 1
    BY <1>3 DEF JoinInvite, Joins, WebTypes
  <2>2. \A k \in 1..Len(shown[b]) : shown[b][k].to # identities + 1
    <3>1. PICK S : S = [text : Texts, to : Nat]
      OBVIOUS
    <3>2. shown[b] \in Seq(S)
      BY <3>1 DEF WebTypes
    <3>6. \A k \in 1..Len(shown[b]) : shown[b][k] \in S
      BY <3>2, ElementOf
    <3>3. \A k \in 1..Len(shown[b]) : shown[b][k].to \in Nat
      BY <3>1, <3>6
    <3>4. /\ \A k \in 1..Len(shown[b]) : shown[b][k].to <= identities
          /\ identities \in Nat
      BY DEF Accounted, WebTypes
    <3>5. QED
      BY <3>3, <3>4
  <2>3. ASSUME NEW c \in Browser PROVE Hears(c)'
    BY <1>1, <2>1, <2>2, HearsKept
  <2>4. QED
    BY <2>3
<1>4. ASSUME NEW b \in Browser, SocketOpens(b) PROVE \A c \in Browser : Hears(c)'
  <2>1. /\ downward' = downward /\ shown' = shown /\ me' = me /\ socket[b].st = "connecting"
        /\ member'[b] = [st |-> "new"]
        /\ \A c \in Browser : c # b => member'[c] = member[c]
    BY <1>4 DEF SocketOpens, WebTypes
  <2>2. shown[b] = <<>> /\ downward[b] = <<>>
    BY <2>1 DEF Stages
  <2>3. Hears(b)'
    BY <2>1, <2>2 DEF Hears, NotYetIn
  <2>4. ASSUME NEW c \in Browser, c # b PROVE Hears(c)'
    BY <1>1, <2>1, <2>4, HearsKept
  <2>5. QED
    BY <2>3, <2>4
<1>5. ASSUME NEW b \in Browser, SendText(b) \/ HangUp(b) PROVE \A c \in Browser : Hears(c)'
  <2>1. downward' = downward /\ shown' = shown /\ member' = member
    BY <1>5 DEF SendText, HangUp
  <2>2. me' = me \/ (me' = [me EXCEPT ![b].seq = @ + 1] /\ me[b] # Nobody)
    BY <1>5 DEF SendText, HangUp
  <2>3. \A c \in Browser : me'[c].id = me[c].id /\ me'[c].room = me[c].room
    <3>1. CASE me' = me
      BY <3>1
    <3>2. CASE me' = [me EXCEPT ![b].seq = @ + 1] /\ me[b] # Nobody
      <4>1. PICK m \in [id : Nat \ {0}, room : Invite, seq : Nat] : m = me[b]
        BY <3>2 DEF WebTypes
      <4>2. PICK f : f = [m EXCEPT !.seq = @ + 1]
        OBVIOUS
      <4>3. f.id = m.id /\ f.room = m.room
        BY <4>2
      <4>4. me' = [me EXCEPT ![b] = f]
        BY <3>2, <4>1, <4>2
      <4>5. QED
        BY <4>1, <4>3, <4>4 DEF WebTypes
    <3>3. QED
      BY <2>2, <3>1, <3>2
  <2>4. ASSUME NEW c \in Browser PROVE Hears(c)'
    BY <1>1, <2>1, <2>3, HearsKept
  <2>5. QED
    BY <2>4
<1>6. ASSUME NEW b \in Browser,
             RelayAdmits(b) \/ RelayReads(b) \/ RelayWrites(b) \/ ConnectionBreaks(b)
      PROVE  \A c \in Browser : Hears(c)'
  <2>1. /\ shown' = shown /\ me' = me
        /\ Ends(b) => downward' = downward
    BY <1>6 DEF RelayAdmits, RelayReads, RelayWrites, ConnectionBreaks, Gone, Ends, WebTypes, Lags
  <2>2. \A c \in Browser : c # b => downward'[c] = downward[c]
    BY <1>6 DEF RelayAdmits, RelayReads, RelayWrites, ConnectionBreaks, WebTypes
  <2>3. \A c \in Browser : c # b => member'[c] = member[c]
    BY <1>6 DEF RelayAdmits, RelayReads, RelayWrites, ConnectionBreaks, Ends, Lags, WebTypes
  <2>4. ASSUME NEW c \in Browser, c # b PROVE Hears(c)'
    BY <1>1, <2>1, <2>2, <2>3, <2>4, HearsKept
  <2>5. Hears(b)'
    <3>1. CASE Ends(b)
      <4>1. member'[b].st # "in"
        BY <3>1 DEF Ends, Gone, WebTypes
      <4>2. QED
        BY <1>1, <2>1, <3>1, <4>1, HearsKept
    <3>2. CASE RelayAdmits(b) /\ ~Ends(b)
      BY <3>2, AdmittedHears
    <3>3. CASE RelayReads(b) /\ ~Ends(b)
      <4>1. downward' = downward /\ member' = member
        BY <3>3 DEF RelayReads
      <4>2. QED
        BY <1>1, <2>1, <4>1, HearsKept
    <3>4. CASE RelayWrites(b) /\ ~Ends(b)
      BY <1>1, <3>4, WrittenHears
    <3>5. QED
      BY <1>6, <3>1, <3>2, <3>3, <3>4 DEF ConnectionBreaks
  <2>6. QED
    BY <2>4, <2>5
<1>7. ASSUME NEW b \in Browser, MessageArrives(b) PROVE \A c \in Browser : Hears(c)'
  <2>1. /\ me' = me /\ member' = member
        /\ \A c \in Browser : c # b => shown'[c] = shown[c] /\ downward'[c] = downward[c]
    BY <1>7 DEF MessageArrives, WebTypes
  <2>2. ASSUME NEW c \in Browser, c # b PROVE Hears(c)'
    BY <1>1, <2>1, <2>2, HearsKept
  <2>3. Hears(b)'
    BY <1>1, <1>7, ArrivedHears
  <2>4. QED
    BY <2>2, <2>3
<1>8. ASSUME NEW b \in Browser, SocketCloses(b) PROVE \A c \in Browser : Hears(c)'
  <2>1. /\ me' = me /\ member' = member /\ shown' = shown /\ downward'[b] = <<>>
        /\ \A c \in Browser : c # b => downward'[c] = downward[c]
        /\ member[b] = Gone
    BY <1>8 DEF SocketCloses, WebTypes, Stages
  <2>2. ASSUME NEW c \in Browser, c # b PROVE Hears(c)'
    BY <1>1, <2>1, <2>2, HearsKept
  <2>3. member'[b].st # "in"
    BY <2>1 DEF Gone
  <2>4. Hears(b)'
    BY <1>1, <2>1, <2>3, HearsKept
  <2>5. QED
    BY <2>2, <2>4
<1>9. QED
  BY <1>2, <1>3, <1>4, <1>5, <1>6, <1>7, <1>8 DEF WebNext

-----------------------------------------------------------------------------
LEMMA WebInvInit == WebInit => WebInv
  BY WebTypesInit, BoundedInit, StagesInit, NumberingInit, ListeningInit DEF WebInv

LEMMA WebInvStep == WebInv /\ [WebNext]_webVars => WebInv'
<1> SUFFICES ASSUME WebInv, [WebNext]_webVars PROVE WebInv'
  OBVIOUS
<1>1. WebTypes /\ Accounted /\ Stages /\ Numbering /\ Listening
  BY DEF WebInv
<1>2. WebTypes'
  BY <1>1, WebTypesStep
<1>3. CASE WebNext
  <2>1. Accounted' /\ Stages' /\ Numbering' /\ Listening'
    BY <1>1, <1>2, <1>3, BoundedStep, StagesStep, NumberingStep, ListeningStep
  <2>2. QED
    BY <1>2, <2>1 DEF WebInv
<1>4. CASE UNCHANGED webVars
  <2>1. /\ me' = me /\ socket' = socket /\ upward' = upward /\ downward' = downward
        /\ member' = member /\ said' = said /\ identities' = identities /\ sockets' = sockets
        /\ shown' = shown
    BY <1>4 DEF webVars
  <2>2. /\ \A i \in Invite : HeardIn(i)' = HeardIn(i)
        /\ \A b \in Browser : Waiting(b)' = Waiting(b) /\ Data(b)' = Data(b)
    BY <2>1 DEF HeardIn, Waiting, Data
  <2>3. \A b \in Browser : OnTheWay(b)' = OnTheWay(b) /\ Rooms(b)' = Rooms(b)
    BY <2>1, <2>2 DEF OnTheWay, Rooms
  <2>4. \A b \in Browser : \A i \in Invite : Line(b, i)' = Line(b, i)
    BY <2>1, <2>2, <2>3 DEF Line
  <2>5. \A b \in Browser : Rooms(b) \subseteq Invite
    BY DEF Rooms
  <2>6. Accounted'
    BY <1>1, <2>1, <2>2 DEF Accounted
  <2>7. Stages'
    BY <1>1, <2>1, <2>2 DEF Stages
  <2>8. Numbering'
    BY <1>1, <2>1, <2>2, <2>3, <2>4, <2>5 DEF Numbering
  <2>9. Listening'
    BY <1>1, <2>1 DEF Listening, Follows
  <2>10. QED
    BY <1>2, <2>6, <2>7, <2>8, <2>9 DEF WebInv
<1>5. QED
  BY <1>3, <1>4

LEMMA PlaceOf ==
  ASSUME WebTypes, RoomsNumbered, NEW i \in Invite, NEW q \in 1..Len(said[i])
  PROVE  Place(i, said[i][q]) = q
<1>1. DOMAIN said[i] = 1..Len(said[i])
  BY DEF WebTypes
<1>2. PICK x : x = said[i][q]
  OBVIOUS
<1>3. \A k \in 1..Len(said[i]) : said[i][k] = x <=> k = q
  BY <1>2, HeardOnce
<1>4. Place(i, x) \in DOMAIN said[i] /\ said[i][Place(i, x)] = x
  BY <1>1, <1>2 DEF Place
<1>5. QED
  BY <1>1, <1>2, <1>3, <1>4

LEMMA OneOrder ==
  ASSUME WebInv, NEW b \in Browser, NEW j \in 1..Len(shown[b]), NEW k \in 1..(j - 1)
  PROVE  LET x == shown[b][k].text
             y == shown[b][j].text
         IN  /\ Place(x.room, x) < Place(y.room, y)
             /\ x.id = y.id /\ x.by = y.by /\ shown[b][k].to = shown[b][j].to =>
                   \A n \in (x.n + 1)..(y.n - 1) :
                      \E h \in (k + 1)..(j - 1) :
                         shown[b][h].text.id = x.id /\ shown[b][h].text.n = n
<1>1. WebTypes /\ Accounted /\ RoomsNumbered /\ Hears(b)
  BY NumberingByOne, ListeningByOne DEF WebInv
<1>2. PICK S : S = [text : Texts, to : Nat]
  OBVIOUS
<1>3. PICK s \in Seq(S) : s = shown[b]
  BY <1>1, <1>2 DEF WebTypes
<1>4. j \in 1..Len(s) /\ k \in 1..Len(s) /\ s # <<>> /\ Len(s) \in Nat
  BY <1>3
<1>5. PICK r \in Invite, p \in Nat \ {0} : Follows(b, r, p)
  BY <1>1, <1>3, <1>4 DEF Hears, NotYetIn
<1>6. PICK t \in Seq(Texts) : t = said[r]
  BY <1>1 DEF WebTypes
<1>7. Shown(s, t, p) /\ Ordered(s, t, p) /\ Unbroken(s, t, p) /\ Arriving(downward[b], t, p)
  BY <1>3, <1>5, <1>6 DEF Follows
<1>8. PICK q \in 1..(p - 1), h \in 1..(p - 1) : s[k].text = t[q] /\ s[j].text = t[h]
  BY <1>4, <1>7 DEF Shown
<1>9. q < h
  BY <1>3, <1>4, <1>7, <1>8 DEF Ordered
<1>10. \A m \in 1..(p - 1) : m \in 1..Len(t)
  <2>1. p + Len(downward[b]) <= Len(t) + 1 /\ Len(downward[b]) \in Nat /\ Len(t) \in Nat
    BY <1>1, <1>7 DEF Arriving, WebTypes
  <2>2. QED
    BY <2>1
<1>11. PICK x \in Texts, y \in Texts : x = t[q] /\ y = t[h]
  BY <1>8, <1>10, ElementOf
<1>12. x \in HeardIn(r) /\ y \in HeardIn(r) /\ x.room = r /\ y.room = r
  BY <1>1, <1>6, <1>8, <1>10, <1>11 DEF HeardIn, Accounted
<1>13. Place(x.room, x) = q /\ Place(y.room, y) = h
  BY <1>1, <1>6, <1>10, <1>11, <1>12, PlaceOf
<1>14. ASSUME x.id = y.id, x.by = y.by, s[k].to = s[j].to, NEW n \in (x.n + 1)..(y.n - 1)
       PROVE  \E g \in (k + 1)..(j - 1) : s[g].text.id = x.id /\ s[g].text.n = n
  <2>1. Gapless(HeardIn(r)) /\ Source(x, y)
    BY <1>1, <1>14 DEF RoomsNumbered, Source
  <2>2. PICK z \in HeardIn(r) : Source(z, x) /\ z.n = n
    BY <1>12, <2>1 DEF Gapless
  <2>3. PICK m \in 1..Len(t) : z = t[m]
    BY <1>6 DEF HeardIn
  <2>4. z \in Texts /\ x.n \in Nat /\ y.n \in Nat /\ z.n \in Nat /\ x.n < z.n /\ z.n < y.n
    <3>1. z \in Texts
      BY <2>3, ElementOf
    <3>2. x.n \in Nat /\ y.n \in Nat /\ z.n \in Nat
      BY <3>1, TextFields
    <3>3. QED
      BY <2>2, <3>1, <3>2
  <2>5. /\ x.type = "data" /\ y.type = "data" /\ z.type = "data"
        /\ Source(z, x) /\ Source(y, z) /\ Climbing(t)
    BY <1>1, <1>6, <2>1, <2>2, <2>4, TextFields DEF RoomsNumbered, Source
  <2>6. q < m
    <3>1. q \in 1..Len(t) /\ t[q] = x /\ t[m] = z /\ q \in Int /\ m \in Int
      BY <1>8, <1>10, <1>11, <2>3
    <3>2. Source(z, x)
      BY <2>5
    <3>3. m < q => z.n < x.n
      BY <2>3, <2>5, <3>1, <3>2 DEF Climbing
    <3>4. m # q
      BY <2>4, <3>1
    <3>5. QED
      BY <2>4, <3>1, <3>3, <3>4
  <2>7. m < h
    <3>1. h \in 1..Len(t) /\ t[h] = y /\ t[m] = z /\ h \in Int /\ m \in Int
      BY <1>8, <1>10, <1>11, <2>3
    <3>2. h < m => y.n < z.n
      BY <2>3, <2>5, <3>1 DEF Climbing
    <3>3. m # h
      BY <2>4, <3>1
    <3>4. QED
      BY <2>4, <3>1, <3>2, <3>3
  <2>8. m \in 1..(p - 1) /\ t[m].id = t[q].id
    BY <1>8, <1>11, <2>2, <2>3, <2>6, <2>7 DEF Source
  <2>9. \E g \in (k + 1)..(j - 1) : s[g].text = t[m]
    BY <1>4, <1>7, <1>8, <1>14, <2>6, <2>7, <2>8 DEF Unbroken
  <2>10. QED
    BY <2>2, <2>3, <2>9 DEF Source
<1>15. QED
  BY <1>3, <1>8, <1>9, <1>11, <1>13, <1>14

(* OneConversation: everybody in a room is shown its messages in one order, *)
(* and those of one socket without a gap.                                   *)
THEOREM ConversationHolds == WebSpec => []OneConversation
<1>1. WebInit => WebInv
  BY WebInvInit
<1>2. WebInv /\ [WebNext]_webVars => WebInv'
  BY WebInvStep
<1>3. WebInv => OneConversation
  <2> SUFFICES ASSUME WebInv, NEW b \in Browser, NEW j \in DOMAIN shown[b], NEW k \in 1..(j - 1)
               PROVE  LET x == shown[b][k].text
                          y == shown[b][j].text
                      IN  /\ Place(x.room, x) < Place(y.room, y)
                          /\ x.id = y.id /\ x.by = y.by /\ shown[b][k].to = shown[b][j].to =>
                                \A n \in (x.n + 1)..(y.n - 1) :
                                   \E h \in (k + 1)..(j - 1) :
                                      shown[b][h].text.id = x.id /\ shown[b][h].text.n = n
    BY DEF OneConversation
  <2>1. j \in 1..Len(shown[b])
    BY DEF WebInv, WebTypes
  <2>2. QED
    BY <2>1, OneOrder
<1>4. QED
  BY <1>1, <1>2, <1>3, PTL DEF WebSpec
=============================================================================
