# Formal models of riftd

riftd is a serverless voice and text chat: peers find one another (LAN, DHT,
invites, predictive rendezvous), run a Noise handshake over UDP, and talk over
the resulting mesh, relaying for one another where no direct path exists. This
directory models the parts of it whose correctness depends on the order of
events at several peers or tasks, checks the models with TLC on small
instances, and proves some of the results with TLAPS for all instances.

To repeat a run: `tlc -workers 2 -config MCCalls_talk.cfg MCCalls.tla`. To
repeat the proofs of a module: `tlapm CallsProofs.tla`. `PROJECT.json` lists
the runs, the lines of the source that each definition stands for, the
findings, the hazards and the theorems.

## The system

Lines are of `src/crates/rift-mesh/src/lib.rs` unless a file is named.

| Part | State | Operations | Talks to |
|---|---|---|---|
| Packet layer | `connections`, `pending` (both by address), the Noise state in each, `authenticated` | `initiate_handshake`, `try_handle_pending`, `start_responder`, `install_connection`, `handle_packet`, the gate of `handle_frame`, `disconnect_addr` | UDP sockets below, everything else above |
| End-to-end keys | `e2ee_keys`, `e2ee_pending`, `e2ee_ready`, `peer_public_keys` | `start_e2ee`, `handle_e2ee_init`, `handle_e2ee_resp`, `maybe_encrypt_payload`, `decrypt_payload` | started by Join and Hello, and by calls |
| Calls | `session_mgr`, `active_session`, the event queue; in the front ends the ringing and the current call | `start_call`, `accept_call`, `decline_call`, `end_call`, `handle_call`; the terminal's event loop, `CallManager` | peers by control messages, front ends by events |
| Routing | `routes`, `peers_by_id`, `peer_addrs`, `relay_candidates`, `peer_caps` | Join, `handle_peer_list`, IceCheckAck, `consider_route`, `spawn_scaling`, `send_to_peer`, `forward_relay` | packet layer below; calls, keys and voice above |
| Group voice | `group_topology`, `voice_seq`, participants of a session | `update_group_topology`, `handle_frame` for Group, Voice and Encrypted, `broadcast_voice`, `forward_group_voice` | routing below |
| Measurements, codecs | `link_stats`, `rate_limits`, `peer_capabilities`, `group_codec` | `update_on_receive`, `allow_packet`, `handle_capabilities`, `update_group_codec` | routing decisions, voice |
| Rendezvous (rift-rndzv, and `run_rendezvous` of the mesh) | slot schedule, handshake, `pr_sessions` | `connect`, `accept`, `run_rendezvous`, `try_handle_pr_probe` | a UDP path of its own, or the mesh's socket |
| Reliable channels (rift-rndzv/src/api.rs) | channels, acknowledgement waiters, reorder buffers, queues | `open_channel`, `send`, `recv`, the demultiplexer, `shutdown` | the Noise session of a rendezvous |
| NAT traversal (rift-nat) | sockets of an attempt, the allocation, permissions, channel numbers | `attempt_hole_punch`, `TurnRelay` | the mesh's sockets |
| DHT (rift-dht, the loops of rift-sdk) | tables of queries and lookups | announce, lookup, the swarm task | libp2p below, the SDK above |
| SDK (rift-sdk, the mixer of rift-media) | runtime, event task, voice task, known hosts, tuning, mixer | `join_channel`, `leave_channel`, mute, calls with an SRT, `handle_peer_identity` | mesh below; terminal, C and JNI interfaces above |
| Web (rift-ws-relay, rift-wasm, rift-web-chat, www/app.js) | rooms, sockets, identities | join, send, the relay's tasks, callbacks | each other |

`PROJECT.json` lists the rest (identity files, parsers, simulators, thin user
interfaces, metrics) with the reason why it is left out.

Inside a process, one task per socket receives datagrams and handles each to
its end before it reads the next; background tasks and the user's operations
run beside it. All share the tables through one mutex per table, so that an
operation touching several tables can be interleaved between any two of them.

### What is hard

* *Implicit nonces over UDP.* `NoiseSession` counts nonces on both sides and
  never sends them: a lost, repeated or overtaken datagram must not be read as
  another one, and after a loss nothing later in that direction can be read.
* *Handshakes that meet.* A pending handshake is replaced by a later one for the
  same address; it is removed before the message that concerns it is read; the
  answer may be handled before the entry exists; a rekey runs over a live session.
* *One side forgets.* Restart and disconnect are one-sided, and no message tells
  the other side. There are tables that disconnect clears and tables that it leaves.
* *Checks and effects under different locks*: `start_e2ee`, `accept_call`,
  `consider_route`, `ensure_channel`.
* *Everyone decides alone*: who initiates a key exchange, who coordinates a
  group, which codec is spoken, which of two crossing calls counts.
* *Bounded queues* between tasks that wait for one another: events, probes,
  channels, the relay's rooms.
* *Things that outlive their cause*: the mesh of a channel that was left, the
  tasks of a hole punch that timed out, a rendezvous of a call that has ended.

What makes each part correct: the packet layer is an ordered, authenticated
stream agreed on by both ends, whose keys and nonces are used once; two holders
of an end-to-end key hold the same one and whatever is encrypted can be read;
voice flows only in a call both users are in; a direct route has a connection
and two peers of a relay find each other; voice is played once, in order and
never to its speaker; a reliable channel is a prefix of what was sent and its
Ok means that the peer had it; a rendezvous ends with two parties that agree;
what is muted or left is silent; a room shows everybody one conversation.

## Modules

| Module | Models |
|---|---|
| `OrderedStream` | what the packet layer and a reliable channel promise: each stream is read as a prefix of what was written |
| `MeshLink` | the packet layer: handshakes, connections, authentication, disconnects, LAN discovery; implements `OrderedStream` |
| `LinkStats` | what a node measures of a link: losses, round trip, rate limit, the route preferred |
| `E2ee` | end-to-end keys of a session, over connections that come and go |
| `Calls` | call sessions with their front ends (terminal, Qt, C interface) |
| `Routing` | routes, relays and the tasks that change them |
| `GroupVoice` | coordinator, topology, forwarding, sealing and de-duplication of voice |
| `Codecs` | capabilities, the group's codec, what the voice task makes of it |
| `ReliableChannel` | rift-rndzv's channels; implements `OrderedStream` |
| `Rendezvous` | `connect` and `accept` with probes, handshake and relay; `run_rendezvous` |
| `HolePunch`, `TurnRelay` | the two halves of rift-nat |
| `Dht` | the swarm task and the SDK's two loops |
| `Client` | one device: channels, event task, voice task, mixer, trust on first use, tuning, calls with an SRT |
| `WebChat` | the WebSocket relay, the page and the chat client |

Five modules put components together: `Links` (a link and what is measured of
it), `Transports` (UDP and WebSocket), `Sessions` (the packets' session and the
peers' key), `Peers` (lookup, routes, codecs) and `Nat` (candidates, relay,
punching). The parts that they compose share no table, so that a run explores
them apart: a variable (`view`, `transport`, `layer`, `matter`, `used`) says
which of the parts moves. What one component needs of another is an assumption
stated in its header and a property of the other: `E2ee`, `Routing` and
`GroupVoice` take a connection to be a stream of frames that may stop, which is
what `ImplementsStream` says of `MeshLink`.

`MC*` modules only give TLC constants. Operators named `Mutant_X`, each just
before the definition `X` it varies, are not used by the specification: they
are plausible mistakes in that piece of code, and putting one in the place of
`X` makes a named property fail (`PROJECT.json`, "mutants"), which shows that
the property depends on the code being as it is. `*Proofs` modules hold the
theorems and are described below.

### MeshLink and LinkStats

A node is a socket address, as there is one socket per node, so the tables by
address become tables by node. `pending[n][m]` is n's `PendingHandshake` for m's
address (awaiting the second message as an initiator, or the third as a
responder), `conn[n][m]` its `PeerConnection` with the two counters of the Noise
transport. A handshake is two ephemeral keys, one of each side; a message carries
those it was made from, and can be read only by who holds the matching one. A data
frame is ciphertext: the session, the direction, the nonce and what is inside.

Each handler of a datagram is one action, chosen as the code chooses it: a
connected address goes to its session (`Decrypted`, `RecvUndecryptable`), a
pending one to its handshake (`RecvSecond`, `RecvThird`, `RecvSpoilsPending`), any
other starts a responder (`StartResponder`). `initiate_handshake` and
`start_responder` take two steps each, as they send their message first and insert
the pending entry after (`Dial`, `Discover`, `Rekey` and `StartResponder` put the
handshake into `starting`, `InsertPending` does the rest). The receive loop waits for
`start_responder` (`Answering`), but a handshake of the node's own may put its entry
in between, and the responder's then replaces it. `Discover` dials whom mDNS resolves
(`Resolved`), connected or not, as often as it is found. Which parts may initiate,
the network's faults and the failure of a send are constants, so that each run says
what it assumes. "dup" covers loss too: a datagram that was sent may arrive any
number of times, none included. With a channel password, a `PeerList` and
what the layers above exchange (`App`: calls, voice, chat, relayed frames) are
ignored until the peer's token was accepted. `Auth` itself, `Join`, `Hello`, the
ICE and E2EE messages, `EncryptedReady` and `PeerState` pass the gate of
`handle_frame` in any case.

`LinkStats` has the limit before decryption, the window of received and missing
numbers after it, and `consider_route`'s choice. A peer numbers control frames
with one counter for all its peers and voice with another, and both are read as
one sequence. Histories record what became of each number: read here (`got`), left
out by the relay (`dropped`), or used for others only (`elsewhere`: control frames
for other peers or for the relay itself, voice for a forwarder, a frame that could
not be sent). On a direct link nothing is ever left out, as the transport goes deaf
at the first lost datagram; a refused one costs the connection its nonce in the
same way; and a first round trip of zero counts as none. A peer whose route
changes while frames are under way on the old one is not modelled here.

### E2ee

A connection is a number, and frames sent over one are received in order until it
is gone at the receiver. Reconnecting uses a new, greater number since a new
process has a new port. `Ordered` says that what was sent over an older
connection does not arrive after what was sent over a newer one: a node needs a
restart or another hole punching and a handshake to come back, and a datagram
rarely lives so long. No code ensures it, and without it `KeyAgreement` fails:
an E2eeResp does not say which E2eeInit it answers, so an old Init that arrives
late is answered over the new connection and the answer is combined with the new
key pair. A key pair is a number, a shared key the set of two. `start_e2ee` is
two steps (its checks in `RecvHello`, its effects in `SendInit`), and so is
`handle_e2ee_init`, because the user's disconnect can come in between, and with
`Overlap` another receive task. With `Overlap` FALSE a node has one socket, as
when it has not used hole punching.

### Calls

`state`, `members` and `active` are the session manager's tables and
`active_session`; `incoming` and `shown` are the front end's ringing and current
call (`incoming_call` and `active_session` in the terminal, `m_incomingSessionId`
and `m_currentSessionId` in `CallManager`). The event queue between mesh and
front end is part of the state, and `accept_call` is two steps, as
`active_session` is set after its messages are sent. Nothing in the mesh reads
`CallState` back: no handler refuses anything because of it, and the properties
rest on the order of messages and events alone.

### Routing, GroupVoice, Codecs

`route[n][m]` is an entry of `routes`, `cand[n][m]` the relay candidate,
`link[n][m]` the frames on their way. Every handler that writes one of these
tables is an action (`RecvJoin`, `RecvPeerList`, `RecvIceCheckAck`, the envelope
of `forward_relay`, statistics that reach `consider_route`), and so are
disconnects, dials and hole punches. `spawn_scaling` copies the tables and works
from the copies, in steps. Not every oddity is excluded by a property: a
disconnect between re-installing a session and its Join returns early and leaves
routes behind (which `DirectIsConnected` excepts by its history variable), an
encrypted frame that is relayed is not opened at its end, an envelope has no time
to live, and `ControlMessage::Leave` has a handler and no sender.

`GroupVoice` has two kinds of groups, the mesh up to `MeshMax` and the hybrid
with a forwarder beyond it. A node that joins late is not told the topology, a
Topology is accepted from anybody, two forwarders may pass sealed copies to and
fro, and hybrid voice sealed with the channel's key cannot be opened by somebody
who shares a key with the speaker: `AllHear` is about settled times in
which none of this applies, `PlayedInOrder` and `NoEcho` are about all times.

`Codecs` is about one node that chooses, since the choice is its own affair.
The group codec is read to encode a frame and read again to label it, so that a
Hello between the two mislabels that frame; caps of departed peers still count,
and preferences are set when the mesh runs already and are announced to nobody.

### ReliableChannel and Rendezvous

Sealing and handing to the socket are two steps, because `send` and the
demultiplexer release the crypto lock between them; with implicit nonces the
wrong order on the wire is a loss. So are acknowledging a frame (`SendAck`) and
buffering it (`Insert`): the sender may have its Ok while the frame is still in the
demultiplexer's hand. `call[p][t]` is an open `send` with its
attempt and whether its waiter has fired (the places `t` are alike, and a new call takes
a free one, `Place`), `demux[p]` the demultiplexer's place in
its loop, which blocks when the queue of a channel is full. `recv[p][c]` is the
reorder state, which `register` resets. Datagrams stay on the wire and may come
at any time, repeatedly or never.

`Rendezvous` has the probing slots of each party by its own clock, the hand-made
Noise handshake that takes whatever datagram comes next, the fallback through a
relay and, for the mesh, the table `pr_sessions` with its guard that unregisters
in a task of its own. What a handshake ran between (`at`, `with`) is one thing, the
`PathBinding` of the session it leads to another (`path`): `OwnPath` is the socket of
the handshake, but `RelayedPath` a fresh socket that sends to the connector's own
relayed address, so that a relayed session reaches nobody and the listener writes
to a relay nobody reads; the bind of that socket may fail too. Broadcast probes go
to `base_port + offset` while listeners bind `base_port`, and find nobody.

### HolePunch, TurnRelay, Dht

With the default ports 7777-7779 the mesh holds the first, so an attempt has at
most two sockets. Each is a task that sends to every address of the peer at a
tick and stops at the first datagram that comes from one. A timeout does not set
the flag: its tasks go on and spoil later attempts, which the two properties
except. `TurnRelay` keeps the server and its messages as sets that only grow;
the tables of permissions and numbers are caches that are never checked against
an answer. `Dht` has the swarm task's two tables; what libp2p stores and how a query
ends is the environment.

### Client and WebChat

`Client` numbers the joins of a device. Leaving drops the runtime only: the
event task, the mesh and its port stay, which is why `CanBind` refuses a second
join on a fixed port, and why the properties about leaving are about the
microphone. The queue between mesh and event task has a bound, and the event
task, its only reader, disconnects unwanted peers through a function that writes
to it. `WebChat` has the bounded broadcast channel of a room, the tasks of a
socket, numbering and identities of texts, and the chat client's `RefCell`:
a callback into JavaScript while it is borrowed is `jammed`. Joins are never
broadcast, and a slow browser is disconnected and does not come back by itself.

## Runs

| Run | Instance | Properties |
|---|---|---|
| `link_faults` | two nodes, lossy, repeating and reordering network, failing sends, answers before the pending entry; two dials, discovery at both, rekeying, 4 ephemeral keys, 4 frames, one disconnect or restart; or two browsers, two rooms, a page and a chat client | `ResponderAgreement`, `NonceUsedOnce`, `OneConversation` |
| `link_auth` | a password one of two dialling nodes lacks; or a link measured over 5 frames and 3 ticks, with or without a relay | `GateHolds`, `ImplementsStream`, `LossIsReal`, `RateHolds` |
| `sessions_setup` | a faultless network and one dial; or three connections, two disconnects or restarts, two payloads, a channel key | `InStep`, `DialsSucceed`, `KeyAgreement`, `EncryptedIsReadable`, `Converges` |
| `calls_talk` | two terminals and a Qt client, two calls, one message lost | `Consent`, `TerminalStaysOut`, `EndsTogether`, `CallerLearns` |
| `channel_faults` | two overlapping sends of either kind, two attempts, a queue of one, failing sockets, closing and shutdown | `OkMeansTaken`, `DatagramsOnce`, `ImplementsStream`, `SendsReturn`, `ShutdownEnds` |
| `routing_churn` | two peers of a relay; or a node with one of three preferences; or two devices in the DHT | `DirectIsConnected`, `RelayIsFound`, `VoiceIsUnderstood`, `LookupsCanEnd` |
| `voice_group` | three nodes, a mesh limit of one, two able to forward | `PlayedInOrder`, `NoEcho`, `AllHear` |
| `rendezvous_meet` | two connectors, one with a relay, and a listener that accepts twice; or two mesh nodes that run twice | `SessionsAgree`, `ClosedByEarlier`, `CallsReturn` |
| `client_device` | two peers, two joins, one call, five inputs | `MuteIsPrompt`, `LeaveIsPrompt`, `HeardInOrder`, `EndedMeansBack`, `UnwantedLeave`, `TuningRecovers` |
| `nat_traverse` | a relay for one peer and two tasks; or two nodes with two ports and one, one datagram lost | `ReachesPeer`, `PunchesMeet`, `PortsReturn` |
| `web_example`, `dht_lookup` | two findings, see below | `CallbacksMaySend`, `LookupFindsPeers` |

*Bounds.* Two nodes suffice for the packet layer, the keys and the channels,
whose tables are kept per peer and whose handlers touch one peer's entry; routes
and groups need the third node that relays, forwards or is not told. Four
ephemeral keys make two complete handshakes or four half ones, enough for an old
handshake to meet a new one. Three connections and two losses allow two rejoins,
hence a stale key, a stale pending entry and a stale frame together. Two calls let
calls cross, or one replace another at a third peer. Two sends on one handle, of
which one may fail, are what it takes to leave a gap; two attempts contain a
retry, a late acknowledgement and giving up. Limits of the code (256 events, 64
frames, 100 numbers, 1200 datagrams, 5 attempts, groups of 5) are constants
and small, so that they are reached.

*Fairness.* `FairSpec` of a module (`Fairness`, `PunchFair`) assumes that what
the runtime has begun goes on: tasks are scheduled, timers fire, a handler
finishes, a queue that has room takes what is waiting. Where the network may lose
datagrams nothing is assumed to arrive, except in `HolePunch`, whose ticks repeat
what was lost and whose losses are bounded, and on the faultless network of
`sessions_setup`. Strong fairness is used once, for the demultiplexer's shutdown:
`tokio::select!` polls its two branches in random order, so a branch that is ready
again and again is taken. Users, discovery, disconnects and restarts are never
assumed to happen.

*Deadlock* is not checked where the bounds or the users' silence end a
behaviour; what must not get stuck is stated as liveness (`SendsReturn`,
`ShutdownEnds`, `CallsReturn`, `UnwantedLeave`) or as an invariant (`LookupsCanEnd`).

### What the properties say

* `ResponderAgreement`: whoever installs a session as responder has a peer that
  installed it as initiator. `NonceUsedOnce`: no session's key encrypts two frames
  under one nonce. `ImplementsStream`: what is read is a prefix of what was written.
  `GateHolds`: with a password, no `PeerList` and nothing of the layers above that
  comes from a node without it has an effect.
* `InStep`, `DialsSucceed`: on a calm network the two ends' counters fit, and every
  dial ends with both ends linked.
* `LossIsReal`: what the window counts as lost was left out by a relay or used by
  the peer for others, and what it counts as received was read; that the second
  kind of loss is none is the code's doing, and allowed.
  `RateHolds`: in any second, wherever it lies between the counted windows, at most
  twice the limit is let in.
* `KeyAgreement`, `EncryptedIsReadable`, `Converges`: two keys are the same key; the
  ready flags order the key before the payload; connected peers end up encrypting.
* `Consent`: no voice in a call not accepted, or declined. `TerminalStaysOut`: who
  hung up is not put back. `EndsTogether`, `CallerLearns`: ends and answers reach
  the other side when nothing is lost.
* `DirectIsConnected`, `RelayIsFound`: a direct route leads to a connection; peers of
  one relay have routes to each other in the end.
* `PlayedInOrder`, `NoEcho`, `AllHear`: each frame at most once and in order, never
  to its speaker, and in settled times to everybody.
* `VoiceIsUnderstood`: the label of a frame is its codec and one its hearer knows.
* `OkMeansTaken`, `DatagramsOnce`, `SendsReturn`, `ShutdownEnds`: what an Ok, a
  datagram, a send and a shutdown of a reliable channel promise.
* `SessionsAgree`: who accepts a session has a connector that ran the same handshake to
  its end between the same addresses, and the two sessions send to each other's socket
  unless the connector's is a relayed one. A connector's session says nothing of the
  listener, who may have given up before the third message. `ClosedByEarlier`,
  `CallsReturn`: a run is not closed by its own burden, and every call returns.
* `MuteIsPrompt`, `LeaveIsPrompt`, `EndedMeansBack`, `HeardInOrder`, `UnwantedLeave`,
  `TuningRecovers`: one device, towards its user.
* `ReachesPeer`, `PunchesMeet`, `PortsReturn`; `LookupsCanEnd`.
* `OneConversation`: a room's messages are shown in one order to all, and those of one
  socket without a gap to whoever keeps one identity (a page that joins another
  invite and comes back under a new one has not seen what was said in between).

### Findings

* `web_example`: `rift-web-chat` holds its state borrowed while it calls back, so
  that the example of its own documentation, a send in `on_connect`, panics and
  leaves the client unusable; not even `disconnect` works then.
* `dht_lookup`: an announcement stores its record under the Rift peer id, a lookup asks for
  it under the libp2p peer id, which is another: no record is ever found.

Other disagreements the models show, with the constants that reproduce them:

* Rekeying (`Rekeyers` not empty, `InStep`) runs a handshake over a live session: the
  peer gives message 1 to the session, and the session's next datagram goes to the
  handshake. Neither survives. (Why `NoncesStayInStep` has its second hypothesis.)
* An answer handled before the pending entry is inserted (`Faults` with "overtake",
  `DialsSucceed`) is taken for a first message, and the dial fails.
* After one side restarts at the same address (`MaxDown` 1) the other never lets go of the
  old session, since it hands the new handshake's first message to it.
* Two receive tasks in `start_e2ee` (`Overlap` TRUE) leave two peers with different keys;
  and a peer that alone has lost its key never gets another.
* A Qt user who hangs up while it rings is in the call when the callee accepts
  (`TerminalStaysOut` without its restriction to terminals).
* A Bye between the two halves of `accept_call` leaves the callee in the ended call.
* A DHT device that has announced itself is told of itself first, by its own store, and
  later reports of providers are ignored; an error of the last record query throws away
  what was found before; each start has a new libp2p id, so stale providers add up.
* A comment of `connect_via_relay` (api.rs:947) announces a wrapper socket that uses the relay,
  or the relay's own; the code binds a fresh one, addresses it to itself through the relay, and
  gives the session another id than the listener does (`SessionsAgree` without the exception
  of `Fresh`).
* Two texts of one sender, equal and within one millisecond, have one `MessageId`.
* Two peers of a relay that also reach each other (`Reachable` with `{a, b}`, `MaxDials` 2,
  `MaxEvents` 1): after `disconnect_peer` there is no route to the peer any more, though both are
  still connected to the relay, since only a PeerList makes one (`RelayIsFound`).
* `handle_peer_list` overwrites `peer_caps` with what the sender makes of the others. A fourth
  node c that reaches both a and the hub, has joined a, and has read the hub's Join but
  not its PeerState, lists the hub to a as no relay, and a then takes no route through it to b
  (`Reachable` and a settlement with `{a, c}`, `Reachable` with `{c, hub}`, `MaxDials` 2;
  `RelayIsFound`).

## Proofs

All theorems are proved for every value of the constants that satisfies the
`ASSUME`s of the modelled component, which TLC evaluates in the runs. Every
proof has the same shape: a conjunction that is inductive, one lemma per action,
below it one step per conjunct the action can disturb, and lemmas about the
model's operators (table updates, sequences, bags of messages) stated once.

| Module | Theorems | Inductive invariant |
|---|---|---|
| `LinksProofs` (`MeshLink`, `LinkStats`) | `TypeCorrect`, `Agreement` (`ResponderAgreement`), `Gate` (`GateHolds`), `NoncesUsedOnce` (`NonceUsedOnce`), `StreamHolds` (`ImplementsStream`), `NoncesStayInStep` and `DiscoveredStayInStep` (`InStep`); `RateIsHeld` (`RateHolds`), `LossesAreReal` (`LossIsReal`) | `AgreementInv`, `AuthInv`, `KeyInv`, `StreamInv`, `SyncInv`; `RateInv`, `LossInv` |
| `E2eeProofs` | `TypeCorrect`, `Agreement` (`KeyAgreement`), `Readable` (`EncryptedIsReadable`) | `Types`, `Exchange`, `Reach` |
| `CallsProofs` | `TypeCorrect`, `ConsentHolds` (`Consent`), `StaysOutHolds` (`TerminalStaysOut`) | `IInv`, `OutInv` |
| `ClientsProofs` (`Client`, `WebChat`) | `TypeCorrect`, `MuteHolds`, `EndHolds`, `LeaveHolds`, `HeardHolds` (`HeardInOrder`); `ConversationHolds` (`OneConversation`) | `MuteInv`, `EndInv`, `LeaveInv`, `HeardInv`; `WebInv` |
| `ForwardingProofs` (`GroupVoice`, `TurnRelay`) | `TypeCorrect`, `InOrder` (`PlayedInOrder`), `Echoless` (`NoEcho`), `GroupHears` (`AllHear`); `RelayReaches` (`ReachesPeer`) | `Types`, `Order`, `HearInv`; `RelayInv` |
| `ReliableChannelProofs` | `TypeCorrect`, `OkHolds` (`OkMeansTaken`), `OnceHolds` (`DatagramsOnce`), `StreamHolds` (`ImplementsStream`) | `AckInv`, `Apart`, `Arrived`, `StreamInv` |
| `RendezvousProofs` | `HandshakesAgree` (`SessionsAgree`), `RunsKept` (`ClosedByEarlier`) | `HandshakeInv`, `RunInv` |
| `PeersProofs` | `RoutesLead` (`DirectIsConnected`), `RoutesTyped`, `RelaysAreFound` (`RelayIsFound`), `VoiceHolds` (`VoiceIsUnderstood`), `LookupsHold` (`LookupsCanEnd`) | `RouteInv`, `RouteTypes`, `FoundInv`, `VoiceInv`, `LookupInv` |

`ResponderAgreement` speaks of the responder at the moment it installs, which is
after the initiator did. `AgreementInv` adds `ThirdSent`: a third handshake
message was only ever sent by an initiator that had installed that very session.
`RecvThird` needs it, `RecvSecond` is the only action that sends such a message.

`KeyInv` is why nonces are used once although sessions are installed, replaced
and, by repeated messages, nearly installed again: an ephemeral key is drawn once
and is in one place at a time (`OnePlace`, `Drawn`, `StartsApart`): started, pending or
installed; a session that was installed used one up (`Unspent`), so that none is
installed twice by one end; and the counter of an installed session is ahead of
every nonce ever sent under it (`Ahead`). `AuthInv` says that a connection is
authenticated only where an Auth with the right token was sent in its session.

`StreamHolds` is a refinement: whatever the network loses, repeats or reorders, a
step of `MeshLink` is, for each direction of each session, a step of `OrderedStream`
or none. A datagram carries no number, the receiver tries its own counter, and so
`StreamInv` counts: what was encrypted of a direction, and what was decrypted of it, are
numbers 0, 1, ... up to the counter of the end that holds the session, each once
(`Consecutive`, `Counted`); of what a key not yet at a connection would read nothing has
been (`Unread`, which is why a session starts where the stream does); every data frame on
the wire was encrypted (`DataSent`); and what was decrypted was sent, with that number
and frame (`SentAs`). `Exchanged` lists what one step may encrypt and decrypt. That a
step of one direction leaves every other alone is `OnePlace` again: two ends with a
session of the same keys are one end.

`InStep` is the converse, that nothing is lost in between, and does not hold of `MeshLink` as
such: the counters of a session part for good when the network drops or swaps two of its
datagrams, and when a handshake is begun over it, whose pending entry swallows the next one.
So `NoncesStayInStep` has both as hypotheses. `Punctual`: the faults are at most "senderr".
`Careful`: a first message leaves only where no connection is. `spawn_discovery` looks before it
dials, `join_invite` and `spawn_rekey` do not, hence `DiscoveredStayInStep`, without dialers and
rekeyers, needs only the network; in `sessions_setup`, with its one dial, both hold. Disconnects,
restarts, refused tokens and crossing handshakes are all allowed. `SyncInv` says for two nodes:
a connection and a handshake of one node towards the other are never there together (`Settled`);
the datagrams of a session are on the wire in the order of their nonces (`Orderly`), so that what a
connection drops is of another session; what one end has written and the other not yet read is on
the wire (`Together`); and so is all an initiator writes before its peer has read the third
message (`Awaited`), even when that message could not be sent, and whether the peer's pending entry
is already there or about to be (`Begun`). That no session comes back after
its end is `KeyInv`.

`RateInv` says by counting why twice the limit is the bound and no more: of the
times at which datagrams were let in, those of the current window are at most `count`,
those of the time before it, as long as a window, at most the limit (a window begins
with a datagram, and not before the last one is over), and a second that begins anywhere
lies within two such stretches (`Within`, `Limited`). `LossInv` follows a number from
the peer's counter to the window: what is on its way has rising numbers above the last
one seen, none of them left out by the relay (`Coming`); every number above the last
one seen is on its way or was left out, as long as the transport decrypts (`Complete`);
and the window ends with the last number and shows what is missing below it
(`WindowShows`), through the cap on a gap and the dropping of the oldest entries
(`WindowPushed`).

`KeyAgreement` needs the most of any invariant, since an E2eeResp does not name
its E2eeInit. `Agreement` is proved for `Ordered` and without `Overlap`, which are
the assumptions of the run, and shows where each is needed. `Layout` is about connections
only: of those two peers have, only the newest can be up at both (`Common`), and
a node has yet to hear the greeting over a connection, or uses it as its route, or
will hear nothing more over it (`Heard`: here `Ordered` is used). `Roles` says that
only the lower id asks, and only once at a time (here `~Overlap`). Then `Asked`: who has
asked over a common connection still waits with that key pair; `Answered`: an answer
on its way, or about to be sent, is `Current`, that is, it answers the last question, m's
key is the one it leads to, and no other question can still reach m; and `Keyed`: who
holds a key has had its questions answered. `RouteKept` is the lemma the preservation
of all three rests on. `Reach` adds for `Readable` that a flag, an E2eeReady and an
encrypted payload each come from a side that held its key.

`Consent` is not inductive: an Accept in flight for a call that somebody can
still decline would break it. As the handlers never look at a session's state,
what prevents this is that a call is put to one user, once, and `IInv` says so: for
each call `Once(c)` - an Invite in flight, an event in a queue or a front end's
ringing call, never two of them nor two of a kind, and none that is answered
already, unless its `accept_call` is under way - together with `Answering` and
`AcceptsSent`. `Undisturbed` carries `Once` over a step for the calls it does not
concern.

`TerminalStaysOut` needs to know that no second answer is on its way to somebody
who has left a call: `ToldOnce` says that an Accept for a participant is the only
one, and finds its user not yet in the call, not about to be told, and not out of it;
`SettledAnswered` that whoever is past that point was in an answered call. It
rests on `IInv`, by which a call is answered once, and fails for the Qt client, whose user may
hang up before the answer.

`LeaveInv` counts: after leaving, what was sent, what is captured and what is
in hand never exceed the backlog and one, since nothing refills the queue once
the microphone is closed; `MuteInv` and `EndInv` say which states of the voice task
and of a call's rendezvous remain possible after a mute and an end. `EndHolds` is about calls that
are ended when no rendezvous is under way (`over`): one that is stores its channel
afterwards, and the voice goes there until the next `end_call`.

`HeardInv` follows a peer's voice through event queue, mixer and speakers:
what was played, followed by what waits in the mixer, is 1, 2, ..., and the frames
in the queue are, in rising order, all that is left up to what the peer has said.
The mixer forgets a stream that runs empty, and the lemmas `OnePlayedLater` and
`OnePlayedNow` show that no frame is lost or repeated by it.

`WebInv` has two halves, one for each direction of the relay. Upward, `Numbering`: of each
source, that is an identity on one socket, the numbers a room has heard and those that
are on their way to it, with the next one of an open socket, are a stretch without a gap
(`Gapless`, `Line`) and arrive in rising order (`Climbing`); a text that a page sends
into a socket nobody reads uses up a number, but then nothing of this source follows.
Downward, `Listening`: what is on its way to a browser is the room's channel from a
position p on (`Arriving`), what it shows lies before p (`Shown`), in the channel's order
(`Ordered`), and between two messages shown to one identity none of the same sender
is missing (`Unbroken`, and `UpToDate` for what comes next). `Accounted` and `Stages` say that
sockets and identities are never used again, so that no source begins anew. The page may
change its invite and its identity at any moment while the socket stays, which is
why the half for one's own identity carries the room it belongs to (`Follows`).

`Types` of the group contains that a frame only travels to a node that still
has the connection it was sent over and did not speak it, which is `NoEcho`'s
reason; `Order` says that what was played of a speaker grows and that
`voice_seq` is its last element.

`HearInv` is why nothing that is spoken in settled times gets lost. As long as
anything is owed the times are `Steady`, for whatever ends them clears `owed`; each
listener then hears a speaker from one node, the speaker or the forwarder (`From`).
`Coming` says that a copy of what is owed leads the queue from there, that is,
nothing the speaker said later is before it, or that it leads the queue to the forwarder
while nothing later is in the one behind: after a later frame `voice_seq` would keep it
out. `Regular` says that what was spoken since travels on no other way, can be opened by
who gets it, and comes to the forwarder sealed, since a frame in clear text that is not
fresh is not forwarded; what was spoken before may be anywhere, in any seal. The bound
`MaxHops` must allow one hop.

`RelayInv` says that, until a task chooses the number with which another is about to
bind another peer (`raced`), a channel number stands for one peer wherever it appears (`Agreed`): in the client's table, in a
task about to send, in the server's table and in everything on its way in either
direction, however long it takes. Tasks that bind at once are allowed: each has the
number its peer has got by now, or the next free one, and that for one peer only
(`Choosing`). `Distinct` holds because `allocate_channel_number` skips
what is taken, and finds something: `NumberIsFree` is the pigeonhole, there being more
numbers than peers (`TurnAssumption` has fewer than the 16384 that `is_channel_data` knows).

`AckInv` follows a payload through the demultiplexer: what is below `next`, was
acknowledged, or has fired a waiter is `Accounted` for: it is in buffer, list, queue or
the record of what was thrown away (`Settled`), or was acknowledged and is about to be
put there (`Held`), and no step takes it out of all of them. `Apart`
says that each open call has a number of its own which is not on the wire as a
datagram before it is sealed, and that each datagram is sealed under one nonce;
`Arrived` that what is queued came under a nonce the receiver has passed: no
second copy can follow.

`StreamHolds` is a refinement: each step of the channel is a step of
`OrderedStream` or leaves what the mapping `Promise` reads alone. What the stream
hands out in turn is, in the channel, the reader's queue followed by the list
the demultiplexer is still working off, and `StreamInv` says that this is the
numbers 0, 1, 2, ... without a gap or a repetition up to `next`, as long as the
channel is registered (`Turns`, `InTurn`, `Handed`); that the reorder buffer
only waits for numbers from `next` on (`Waiting`); and that whatever is under way
carries a number its sender had given out (`Numbered`). The step that needs work
is the one which drains the buffer: `DrainRun` shows, by counting the numbers
between `next` and the new one, that what it drains is exactly that stretch.

A rendezvous does not look at where a handshake message comes from.
`SessionsAgree` holds all the same because a listener draws a new key for each
call it answers and names it to one address in one message (`Answered`), and
the third message is believed only if it names that key: `ThirdsSent` says that
who sends it has run the handshake to its end. `PathOf` says where an initiator's
session sends to: where its handshake did, or through a fresh socket. `RunInv` says what keeps a run safe as long as
no earlier one of its node that was let in has ended (`Undisturbed`): the token's
entry is its own and later runs are refused; and that whoever is about to remove an
entry, or has found its queue closed, is a run that has ended.

`RouteInv` is `DirectIsConnected` with the domains of the tables: it is inductive since
`handle_frame` for Join, `consider_route` and the answer to a candidate check are the
only places that make a route direct, and the history variable `stale` names
those of them, and of the disconnects, that leave no connection.

`RelaysAreFound` is about three nodes and the order in which their greetings are read.
`FoundInv` says, until a hole punch succeeds: who is connected, or listed, reaches the other
directly, so that no connection goes past the relay, and every Join, PeerState and PeerList on a
link is from the node at its other end (`Bound`, `Proper`; relayed frames are of other types);
a new connection begins with a Join and a PeerState, and once the Join is read either the
capability is known or the PeerState is next (`Greeted`), so that a list is never read
before its sender is known to relay; and for two peers a relay lists, the one has a route to the
other or a list that names it is on its way to the one (`Told`). A Join writes such a list to
all, the list, when read, leads to the fallback, and no step but a disconnect from that
very peer takes a route away. The hypothesis `TriangleFree`, no three nodes that reach one
another directly, holds in the run, where only the relay is reached directly, and when all but
relays that do not know of each other are behind NATs. It is needed: see the two
disagreements about triangles above.

`VoiceInv` ties a frame in hand
to the announcements: of a connected peer whose Hello was handled `peer_capabilities` has
what it announced (`HelloKnown`), the group codec is among what each of the settled takes
(`GroupSuits`, by `SelectedSuits`), and so is the codec of the frame (`FrameSuits`).
`LookupInv` is the table of lookups of the DHT task: a lookup's number is its own, so that
the step `Progressed`, which replaces one query by the queries it leads to, touches one
lookup and counts right.

Three proof modules cover two components each, those one run explores apart: their theorems
are about the specification of the component where that has one of its own (`WebSpec`, `TurnSpec`,
`MeshLink`'s `Spec`), and about `LinksSpec` for the measurements.

Only model-checked: all liveness. Liveness under fairness and ENABLED are out of the
prover's reach, and so is induction over data. Every safety property a run expects to
hold is also a theorem.

## Not modelled

Cryptography (a ciphertext is what it was made from, a signature of the right peer
verifies), encodings, device and file I/O, drawing, logging. Two peers that dial
each other at the same moment, as both sides do after a successful hole punch,
answer neither first message and depend on discovery's next round; whether that
ends depends on timing no fairness assumption expresses. The order in which two
crossing calls win is not specified anywhere, so `Calls` says nothing about it.
Several sockets of one node with a receive task each appear where they matter
(`Overlap` of `E2ee`, the tasks of `Codecs`) and not in `MeshLink`. The traffic
counters and the jitter estimate are read by nobody.
