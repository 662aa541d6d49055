------------------------------- MODULE Codecs -------------------------------
(***************************************************************************)
(* Which codec a node speaks (crates/rift-mesh, rift-sdk, rift-media).     *)
(* Peers announce the codecs they take in the Hello that follows their     *)
(* Join; the node keeps what they said, chooses one codec for the group,   *)
(* and its voice task reads that choice twice for every frame: to encode,  *)
(* and again to label what it has encoded.                                 *)
(*                                                                         *)
(* The module is about one node, the speaker, and the peers that hear it.  *)
(* Each peer may have a socket of its own and with it a receive task.      *)
(***************************************************************************)
EXTENDS Integers, Sequences, FiniteSets, SequencesExt

CONSTANTS
    Listener,        \* the peers
    Announcements,   \* the sets of codecs that peers may announce, none empty
    Preferences,     \* the lists that the application may prefer
    MaxMeetings,     \* bound: connections
    MaxVoiced        \* bound: frames of voice

Codec == {"Opus", "PCM16", "Experimental"}

ASSUME CodecsAssumption ==
    /\ Announcements \subseteq (SUBSET Codec) \ {{}}
    /\ Preferences \subseteq Seq(Codec)
    /\ MaxMeetings \in Nat /\ MaxVoiced \in Nat

VARIABLES
    wish,        \* the list that the application is going to set
    preferred,   \* preferred_codecs
    known,       \* known[m]: peer_capabilities.audio_codecs, {} for no entry
    session,     \* session[m]: the codec in peer_session
    group,       \* group_codec
    inbox,       \* inbox[m]: what is on its way from m, <<>> after a disconnect
    offer,       \* offer[m]: what the connected m has announced, {} if it is not
    task,        \* task[m]: what the receive task of m's socket has yet to do
    meetings,
    voiced,
    frame,       \* the frame that the voice task has encoded
    heard,       \* history: the last frame, as it came to each peer
    settled,     \* history: peers whose Hello the group codec allows for
    unmatched    \* history: no preferred codec suited everybody

codecVars == <<wish, preferred, known, session, group, inbox, offer, task, meetings,
               voiced, frame, heard, settled, unmatched>>

Silence == [st |-> "none"]

CodecInit ==
    /\ wish \in Preferences
    /\ preferred = <<>>
    /\ known = [m \in Listener |-> {}]
    /\ session = [m \in Listener |-> "none"]
    /\ group = "Opus"
    /\ inbox = [m \in Listener |-> <<>>]
    /\ offer = [m \in Listener |-> {}]
    /\ task = [m \in Listener |-> "idle"]
    /\ meetings = 0 /\ voiced = 0
    /\ frame = Silence
    /\ heard = {} /\ settled = {} /\ unmatched = FALSE

\* set_preferred_codecs, which join_channel calls when the mesh runs already.
\* Nobody is told, and nothing is chosen again.
SetPreferredCodecs ==
    /\ preferred # wish
    /\ preferred' = wish
    /\ UNCHANGED <<wish, known, session, group, inbox, offer, task, meetings, voiced,
                   frame, heard, settled, unmatched>>

\* A frame encoded before a codec is agreed anew with m is not for m.
Forget(m) ==
    /\ settled' = settled \ {m}
    /\ frame' = IF frame = Silence THEN frame ELSE [frame EXCEPT !.suits = @ \ {m}]

\* install_connection of the peer, perhaps once more: its Join and its Hello
\* come one after the other.
Meet(m) ==
    /\ meetings < MaxMeetings
    /\ meetings' = meetings + 1
    /\ \E codecs \in Announcements :
          /\ offer' = [offer EXCEPT ![m] = codecs]
          /\ inbox' = [inbox EXCEPT ![m] = <<"Join", "Hello">>]
    /\ Forget(m)
    /\ UNCHANGED <<wish, preferred, known, session, group, task, voiced, heard, unmatched>>

\* disconnect_addr: what the peer has announced is kept.
Part(m) ==
    /\ offer[m] # {}
    /\ offer' = [offer EXCEPT ![m] = {}]
    /\ inbox' = [inbox EXCEPT ![m] = <<>>]
    /\ Forget(m)
    /\ UNCHANGED <<wish, preferred, known, session, group, task, meetings, voiced, heard,
                   unmatched>>

-----------------------------------------------------------------------------
\* In the order of preference; an empty list stands for the default.
Ordered == IF preferred = <<>> THEN <<"Opus", "PCM16">> ELSE preferred

\* The first of them that suits, or Opus.
FirstThat(Suits(_)) ==
    LET suitable == {i \in DOMAIN Ordered : Suits(Ordered[i])}
    IN  IF suitable = {} THEN "Opus" ELSE Ordered[Min(suitable)]

\* negotiate_session_config
Negotiated(codecs) == FirstThat(LAMBDA c : c \in codecs)

AllTake(c) == \A m \in Listener : known[m] # {} => c \in known[m]

\* Mutant: the codec of the peer whose frame is being handled.
Mutant_Selected(m) == Negotiated(known[m])

\* update_group_codec
Selected(m) == FirstThat(AllTake)

HandleJoin(m) ==
    /\ task[m] = "idle"
    /\ inbox[m] # <<>> /\ Head(inbox[m]) = "Join"
    /\ inbox' = [inbox EXCEPT ![m] = Tail(@)]
    /\ known' = [known EXCEPT ![m] = IF @ = {} THEN {"Opus"} ELSE @]
    /\ task' = [task EXCEPT ![m] = "Join"]
    /\ UNCHANGED <<wish, preferred, session, group, offer, meetings, voiced, frame, heard,
                   settled, unmatched>>

\* handle_capabilities, before update_group_codec
HandleHello(m) ==
    /\ task[m] = "idle"
    /\ inbox[m] # <<>> /\ Head(inbox[m]) = "Hello"
    /\ inbox' = [inbox EXCEPT ![m] = Tail(@)]
    /\ known' = [known EXCEPT ![m] = offer[m]]
    /\ session' = [session EXCEPT ![m] = Negotiated(offer[m])]
    /\ task' = [task EXCEPT ![m] = "Hello"]
    /\ UNCHANGED <<wish, preferred, group, offer, meetings, voiced, frame, heard, settled,
                   unmatched>>

\* update_group_codec holds the lock on what is known until it has chosen.
UpdateGroupCodec(m) ==
    /\ task[m] # "idle"
    /\ group' = Selected(m)
    /\ unmatched' = ~\E i \in DOMAIN Ordered : AllTake(Ordered[i])
    /\ settled' = {k \in Listener : offer[k] # {} /\ inbox[k] = <<>>}
    /\ frame' = IF frame = Silence THEN frame
                ELSE [frame EXCEPT !.overtaken = @ \/ group # Selected(m)]
    /\ task' = [task EXCEPT ![m] = "idle"]
    /\ UNCHANGED <<wish, preferred, known, session, inbox, offer, meetings, voiced, heard>>

-----------------------------------------------------------------------------
\* encode_frame of the voice task: an experimental codec has no encoder.
Encode ==
    /\ frame = Silence
    /\ voiced < MaxVoiced
    /\ group # "Experimental"
    /\ voiced' = voiced + 1
    /\ frame' = [st |-> "encoded", codec |-> group, overtaken |-> FALSE,
                 suits |-> IF unmatched THEN {} ELSE settled]
    /\ UNCHANGED <<wish, preferred, known, session, group, inbox, offer, task, meetings, heard,
                   settled, unmatched>>

Received(m, label) ==
    [codec |-> frame.codec, label |-> label, takes |-> offer[m],
     sure |-> m \in frame.suits /\ ~frame.overtaken]

Sent(frames) ==
    /\ frame # Silence
    /\ heard' = frames
    /\ frame' = Silence
    /\ UNCHANGED <<wish, preferred, known, session, group, inbox, offer, task, meetings, voiced,
                   settled, unmatched>>

\* broadcast_voice: the label is the group codec as it is by now.
BroadcastVoice ==
    Sent({Received(m, group) : m \in {k \in Listener : offer[k] # {}}})

\* The channel of a call carries no label and its reader takes all for Opus.
SendOverChannel(m) ==
    Sent({[Received(m, "Opus") EXCEPT !.sure = @ /\ frame.codec = "Opus"]})

CodecNext ==
    \/ SetPreferredCodecs
    \/ Encode
    \/ BroadcastVoice
    \/ \E m \in Listener :
          \/ Meet(m)
          \/ Part(m)
          \/ HandleJoin(m)
          \/ HandleHello(m)
          \/ UpdateGroupCodec(m)
          \/ SendOverChannel(m)

-----------------------------------------------------------------------------
\* What a peer hears is in the codec that its label says and that the peer has
\* announced - if the peer's Hello was allowed for before the frame was
\* encoded, one of our codecs suited everybody, and the codec did not change
\* between encode_frame and broadcast_voice: update_group_codec,
\* handle_capabilities, handle_frame for Join, and the SDK's voice task.
VoiceIsUnderstood ==
    \A f \in heard : f.sure => f.label = f.codec /\ f.codec \in f.takes
=============================================================================
