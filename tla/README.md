# A formal model of isaac-launchable

TLA+ modules, TLC configurations and TLAPS proofs for the part of
isaac-launchable that is a program of its own: the gateway that stands between
NVIDIA Kit and a browser (`gateway-go/`), and the replay of trained policies
(`isaaclab-patches/`). `gateway-go/DEPRECATED.md` says that the gateway is no
longer used: nginx now passes `/sign_in` to Kit at `localhost:49100` directly. It
is modelled all the same, because it is the concurrent program of the repository
and its code and tests are still there.
Paths below are relative to the repository; `proxy.go`, `session.go`,
`kit_peer.go`, `browser_peer.go`, `forwarder.go` are under `gateway-go/internal/`.

## The system

A Kit process renders a simulation and speaks WebRTC with NVST signaling over a
WebSocket. It ignores TURN servers and cannot be reached from outside its pod.
The gateway sits in the same pod. For each browser it opens a WebSocket to Kit,
passes most signaling frames through, and takes offers, answers and candidates
out of the stream: it terminates Kit's negotiation in one `PeerConnection`
(upstream) and makes an offer of its own to the browser from another
(downstream). Media is copied from the one to the other without re-encoding.

| Component | State it keeps | Operations | What is hard | Correct when |
|---|---|---|---|---|
| Signaling proxy, `proxy.go` | two sockets, a mutex for each, `closeOnce`, the hooks | `ServeHTTP`, `pump` in two goroutines, `Send`, `SendToKit`, `tearDown` | several goroutines write to one socket; either pump may fail at any time; no deadlines | writes never overlap, frames keep their order, none is lost in mid stream, tear-down is complete and happens once |
| Session negotiation, `session.go`, `kit_peer.go`, `browser_peer.go` | peer ids, ackid counter, two peer connections | `OnKitMessage`, `OnClientMessage`, `handleKitOffer`, `buildBrowserOffer`, `bridgeBrowserOffer`, candidate callbacks, `OnClose` | two pumps, a goroutine per offer and pion's gatherers share ids, counter and peer connections; offers cross; the session may close anywhere | every frame of Kit is acked once, ackids are unique, frames are addressed to the right peers, an answer meets the offer it answers, an offer reaches the browser |
| Media relay, `session.go` 208-215 and 539-618, `kit_peer.go` 36-47, `relay/forwarder.go` | the channel of tracks, one sender per kind, a goroutine per track | `OnTrack`, `attachAndForward`, `replaceOrAddTrack`, `drainRTCP`, `Forward`, `Close` | `OnTrack` races `Close`; a later track replaces an earlier one; a full channel drops | a queued track is attached or given up, packets stay in order, nothing is pumped after the session ends, all goroutines end |
| NVST envelope, `nvst/` | a parsed message with a cached encoding | `Parse`, `AsPeerMsg`, `NewPeerMsgTo...`, `SetPeerMsgInner`, `Encode` | a stale cache; zero values dropped by `omitempty`; numbers as float64 | what is encoded is what was set; parsing undoes building |
| Replay loop, `isaaclab-patches/` | the checkpoint, step counter, last actions, the robots | `resolve_checkpoint`, the loop of `run_replay`, `compute_obs`, `maybe_reset` | decimation and recycling have different periods; a trainer writes checkpoints while one is chosen | an action belongs to the robot it was computed for; fallen robots are put back; the newest checkpoint is loaded |
| Node gateway, `gateway/main.js` (deprecated) | a buffer per client, `upstreamReady` | event handlers of two sockets | callbacks in any order, half-open upstream | same promises as the proxy |
| Clipboard bridge, `web-viewer-sample/clipboard-bridge.ts`, `extensions/` | a dialog, Kit's clipboard | copy and paste over HTTP | overlapping requests | the last text copied is the text kept |
| Configuration, main, start-up scripts, manifests | none after start | straight-line | - | - |

Interactions: the browser and Kit send frames at will; each pump calls its hook
synchronously; the Kit hook writes acks back to Kit and starts goroutines; the
goroutines and pion's callbacks write to both sockets through the proxy's
mutexes; `tearDown` runs `OnClose`, which cancels the context and closes both
peer connections. The replay loop runs inside Kit and shares nothing with the
gateway but the picture.

`PROJECT.json` lists the hazards of the code at their lines and the property
that covers each.

## Modules

| Module | Models | Checked by | Proofs |
|---|---|---|---|
| `FrameRelay` | what the proxy promises to its two ends | through `SignalingProxy` | |
| `SignalingProxy` | `proxy.go` | `MCSignalingProxy*.cfg` | `SignalingProxyProofs` |
| `OfferExchange` | what a session promises to Kit and to the browser | through `Negotiation` | |
| `PeerConnection` | pion's peer connection, as far as the session relies on it | through `Negotiation` | |
| `Negotiation` | `session.go` 53-537, `kit_peer.go`, `browser_peer.go` | `MCNegotiation*.cfg` | `NegotiationProofs`, `NegotiationFrameProofs`, `NegotiationOfferProofs`, `NegotiationOrderProofs`, each extending the one before |
| `MediaRelay` | `session.go` 208-215, 361-377 and 539-618, `kit_peer.go` 36-47 and 136-144, `forwarder.go` | `MCMediaRelay*.cfg` | `MediaRelayProofs` |
| `Playback` | what a session promises a viewer of Kit's media | through `MediaRelay` | |
| `Nvst` | `nvst/envelope.go`, `nvst/peer_msg.go` | `MCNvst.cfg` | `NvstProofs` |
| `ReplayLoop` | `replay_common.py`, with the adapters of `replay_ant.py` and `replay_anymal_d.py` | `MCReplayLoop.cfg` | `ReplayLoopProofs` |

### FrameRelay and SignalingProxy

`SignalingProxy` has one action per blocking or visible step of `proxy.go`. A
goroutine is a value of `pc`: `read` is `ReadMessage`, `hook` the hook call,
`lock` and `write` the two halves of `writeToClient`/`writeToKit`, `reply` and
`replying` the same when a hook writes back to the socket its pump reads from
(the auto-ack), `once` to `onClose` the steps of `tearDown`. Injectors are the
callbacks of the session layer: each calls `Send` or `SendToKit` once, at any
time. A frame is its number; what a hook decides (forward, consume, fail) is
nondeterministic, so the results hold for every hook.

A socket holds `SocketCap` frames; a writer waits when it is full. A remote end
may vanish at any time; frames already buffered may then still be read, and a
write to a lost end may still succeed. The run starts after the browser's
upgrade, and covers a failed dial and a failed factory.

`FrameRelay` knows only accepted frames, stopped directions and what was
written. `SignalingProxy!RefinesRelay` is its specification under the mapping
`accepted` = frames read, less the one in the pump's hands; `stopped` = sides
whose pump has entered `tearDown`; `out` = `wire`. It gives
each direction a life of its own: what is written keeps the order of what was
read, and a direction that stops does not disturb the other. A frame that is not
written was consumed or dropped, and `FrameRelay` does not say which frames a
hook consumes; that a direction loses at most the frame in hand is
`NothingLostMidStream`, which knows what was consumed.

### PeerConnection and Negotiation

`PeerConnection` is external code written as operators on a record: the
signaling states, the rule that a description about to be set must be the last
one created, gathering, and the single gather-complete handler that
`GatheringCompletePromise` installs.

In `Negotiation` a frame of Kit or the browser is read and handled in one step,
the hook's. Both ends may send late, a pump handles its frames in order, and
hooks of the two pumps interleave through the goroutines' steps, so nothing is
hidden by this. Frames the gateway writes are appended to `toKit` and
`toBrowser`: `SignalingProxy` shows that the wire keeps them in order. Each
goroutine stands at a label in `at` and carries the frame it built in `held`;
loading each of the two peer ids, drawing an ackid, each call into a peer
connection and each send are steps of their own, because another goroutine may
run between them. (After an ackid is drawn `kitPeerID` is loaded in the same
step: `peer_info` has set it by then, and it does not change.) `OnClose` is three steps for the same reason.

What is assumed of the ends: Kit sends the browser's `peer_info` before its
first offer, numbers its frames upwards from 1, repeats an offer only when the
previous one is answered, and trickles candidates after an offer or an answer;
the browser answers each offer once, in order, and acks what it reads. The
browser and Kit need not answer at all. Every frame of Kit has an ackid, so the
branch of `ackKitIfNeeded` for one without (`session.go:261-264`), which only
logs, is not in the model. A candidate may be empty, and is then not added. Contents of SDP and candidates are left
out. `refused` remembers which descriptions and candidates pion rejected, which
the code only logs.

`OfferExchange` has no peer connections, goroutines, ids or ackids: it is the
conversation as the two ends see it. Every frame of Kit is acked or shown, in
order. An offer of either end is answered at most once and offered on at most
once, and the other end hears of it in a fixed order: the browser is offered
media after Kit has its answer, and is answered after Kit was offered. There is
no candidate before the first offer, and nobody is told anything once the
sockets are closed. `Negotiation!ImplementsExchange` is its specification under
the mapping `open` = the sockets are open, `heard` = frames Kit sent,
`kitOffers` and `browserOffers` the counters of the ends, `toKit` and
`toBrowser` = the wires seen through `Conversation`, which keeps of each frame
its type and the offer or frame it is about.

### MediaRelay

A track goes through `at`: `calling` is pion's `OnTrack` goroutine before its
`select`, `queued` or `dropped` what the `select` did, `attached` or `refused`
what `attachAndForward` did with it. `ranging` is the track the range loop has
in hand. A forwarder is `check` (top of its loop, `forwarder.go:39`), `read`
(inside `ReadRTP`) or `write` (with a packet in hand); a drain is `run` or
`done`. `senders` are the transceivers of the browser's peer in order: a video
sender with a placeholder from the start, others as `AddTrack` appends them.
`out` of a sender records the packets a browser receives on it.

Three facts of pion enter, each where the code relies on it: a local track
writes to the senders it is bound to, and returns no error when there are none
(the reason packets of an unnegotiated or replaced track count as forwarded);
`ReplaceTrack` on a live sender may refuse a track of another codec; a read or a
write may fail at any time, and after `Close` a read does fail, a write is heard
by nobody, and `AddTrack` fails.
`OnClose` is four steps, since each of them lets other goroutines run: `cancel`,
`browserPeer.Close`, `close(tracks)`, `pc.Close`.

The signaling is reduced to three actions: an offer of Kit, the browser offer
built from it, which offers whatever senders exist when `CreateOffer` runs, and
the browser's answer. `Negotiation` models the rest and is not composed with
`MediaRelay`: they share the two peer connections and the context, and the only
influence of one on the other is through those three actions and `OnClose`.

`Playback` has no channel, goroutines, offers or contexts. The browser has media
lines that carry one track at a time; a track is put on a line of its kind once,
for good; its packets are taken one by one and heard by the line that carries it,
if that is negotiated, or by nobody; after the browser's side is over nothing is
heard. `MediaRelay!ImplementsPlayback` is its specification under the mapping
`lines` = the senders without `offered`, `placed` = the attached tracks, `taken`
= the packets the forwarder has counted, `over` = the browser's peer is closed.

A panic stops every goroutine: `panicked` disables all actions, and the liveness
properties exempt it, because it is a violation of its own (`media_panic`).

### Nvst

One message, which is read or built, edited, and now and then encoded, sent and
read again by the next program (`Hop`). A JSON value is a record with its kind,
which keeps apart what the code tells apart: a number that was decoded
(`float64`) from one Go code put into the map (`int`), a string from a string
that holds an encoded object (`peer_msg.msg` is JSON in JSON). `View` is what
all accessors return; `want` is what they ought to return, kept by constructors
and setters. The builders for Kit and the browser keep a map and, in `encoded`,
the bytes to send; the setters change the map only. Field order is the reason
for the second copy and is left out. `omitempty` is not: an id `to` or an ackid
0 leaves its key out (`WithNumber`), in a session 0 is `browserPeerID` before
`peer_info`, and it reads back as missing (`ReadBack`). `Typed` and `Untyped` are what a message
with a `type` and one without should read as. A frame of a remote end may be any
`WellFormed` object: it has keys the gateway knows, and a `peer_msg` payload, if
it has one, is a text or an object in JSON with the fields of `PeerMsgInner`.
`Negotiation` uses messages by their meaning; `Nvst` is why it may.

### ReplayLoop

One action per statement of the loop of `run_replay` that changes state: the
policy's decision, the write of the action, the physics step, the recycling. An
output of the policy is the number of the step it was computed in, plus 1 (0 is
the zero action), and whether it is within [-1, 1] or beyond; a network without
an output activation gives either. `Driven` is what reaches the robot: `AntAdapter` clamps an
output that is beyond, `AnymalDAdapter` does not; what is remembered for the
next observation is the output as it was. The numbers of observations, of the network and of the pose are left
out: a robot is up or fallen, and its life counts how often it was put back, so
that an observation can be told from one of another life. A step may make any
robot fall or get up. `applied`, `down` and `before` are ghosts: what a robot
was last driven with, how long it has been down, and which files there were
when the script started. The warm-up step of the set-up may make any robot fall;
`down` counts the steps of the loop.

A trainer may create run directories and save models before and between the two
looks the script takes at the file system (`ListRuns`, `GlobModels`). The rest
of the set-up is one step, or fails.

`ReplayAssumption` says that the decimation of an adapter that recycles divides
the recycle period. Ant's 2 divides 30; AnymalD's 4 does not, and AnymalD does
not recycle. No code checks this, and without it a robot that was put back is
driven by an action meant for its former life: the first thing to look at when
an adapter is added.

Operators called "Mutant" in the comments are defects a change of the code could
introduce; nothing in the specifications uses them. They show that each property
would notice.

## What the runs show

| Run | Question | Bounds | Result |
|---|---|---|---|
| `proxy` | safety and refinement of the proxy; can its goroutines wait for each other; does the loss of an end bring the session down | 2 frames per direction, sockets of 1 frame, one callback, auto-acks to Kit | holds, 418 679 states |
| `proxy_stall` | the same when a remote need not read | 2 frames | violated |
| `negotiation` | safety when Kit offers, also twice; refinement of `OfferExchange` | 4 frames of Kit, 2 offers, 1 candidate per peer | holds, 1 748 919 states |
| `negotiation_glare` | both ends offer; safety, refinement of `OfferExchange`, progress, no leaks | 2 frames of Kit, an offer of each end, a further frame of the browser, a second viewer announced | holds, 218 852 states |
| `negotiation_acks` | do the browser's acks of Kit's frames reach Kit | 2 frames | violated |
| `negotiation_trickle` | are Kit's candidates accepted | 3 frames | violated |
| `negotiation_reoffer` | does a repeated offer reach the browser | 3 frames, 2 offers | violated |
| `media` | order, late packets, forgotten tracks, refinement of `Playback`, and the end of all goroutines, with the session closing anywhere | two video tracks of 2 and 1 packets, a silent audio track, channel of 1, 1 offer | holds, 748 664 states |
| `media_panic` | is a track that cannot be announced dropped | as `media` | violated |
| `media_renegotiate` | is an added track negotiated | as `media` | violated |
| `nvst` | do accessors return what was set, before and after the wire | three texts, three peer ids and ackids, 0 among them, two indexes, five payloads, eleven frames | holds, 9 528 states |
| `replay` | are actions, observations, recycling and the checkpoint what they should be | 2 robots, alike but for their names (`SYMMETRY`), outputs within and beyond the range, both adapters, a recycle period of 4, 8 steps, 2 runs, models without a number, 9 and 10 | holds, 14 669 454 states |

Why the bounds suffice. Two frames per direction are the least for order and for
loss in mid stream; a socket of one frame makes every write able to block; one
callback and both pumps already compete for each mutex, and the proofs cover any
number. In the negotiation, four frames are `peer_info`, offer, candidate and a
second offer; two offers are the least for two goroutines on one peer
connection; one candidate per gatherer is enough to fall between any two steps
of an offer. `negotiation_glare` gathers no candidates, to leave room for the
browser's own frames; `negotiation` covers those. `CHECK_DEADLOCK` is off for
the negotiation because a session may stop: both ends can fall silent, and all
goroutines can have ended. The proxy has an explicit `Finished` step instead and
checks deadlock.

The channel of
`media` has room for one track instead of four, so that three tracks fill it. Two
packets let the first video track be heard before and after the second takes its
sender; the audio track finds no sender of its kind and exercises `AddTrack`.
`CHECK_DEADLOCK` is off there too: Kit may stop sending for good.
The frames of `nvst` are those the comments and tests show and those that almost
are a `peer_msg` or a payload; an empty text, index 0, and id and ackid 0 are among the
values, since `omitempty` drops them.
A recycle period of 4 holds two decisions of Ant and one of AnymalD, as 30 holds
many; 8 steps pass it twice, so that a robot can be put back, fall again and be
put back again. The two robots are interchangeable: nothing tells them apart. 9 and 10 sort one way as numbers and the other way as texts.
`CHECK_DEADLOCK` is off because the replay ends. `MCReplayLoop` also evaluates
`define_origins` for up to 40 robots.

Fairness. `GatewayFairness` is the Go scheduler, as one weak fairness condition
on `Scheduled`, all steps of the gateway's goroutines: frames and callbacks are
bounded, so no behaviour takes infinitely many steps, and that something
runnable is run means that every goroutine runs until it waits. The remote ends
are under no fairness, except `RemoteFairness` (a live remote empties its
socket) in `proxy`, where `HangupEndsSession` needs it (`proxy_stall` shows
this), and a browser that reads and answers in `negotiation_reoffer`, where the
strong assumption makes the violation stronger. `MediaRelay` needs one condition
of the same form. Its `Scheduled` holds the gateway's own steps and the
browser's answer; nothing makes Kit send a packet or the session close, and a
drain is only sure to wake up when the browser's peer is closed, a forwarder in
`ReadRTP` when Kit's is (`ForwardRuns`). The replay
promises no progress and is checked without fairness.

The violations are disagreements between the code and what its comments or
tests say; each is quoted in `PROJECT.json`:

- `ClientCloseTearsDownUpstream`: no write has a deadline. While Kit does not
  read, the client's pump is inside `WriteMessage` and does not see the browser
  leave. The test of that name has a Kit that reads.
- `AcksOfPassedFramesReachKit`: every ack of the browser is consumed as one for
  a frame of the gateway, also the ack of `peer_info`, which Kit numbered.
- `KitCandidatesAccepted`: the pump runs ahead of the goroutine that handles the
  offer; a candidate it reads before `SetRemoteDescription` is refused, logged,
  acked and lost.
- `AnnounceNeverPanics`: a `select` with a `default` still panics when the
  channel is closed, and `KitPeer.Close` closes it before the peer connection
  that runs the callback. The panic takes the process, and every session in it.
- `AddedTrackNegotiated`: a track without a sender of its kind (Kit's audio) is
  added after the browser's offer, and no negotiation-needed handler exists: it
  is pumped to nobody unless Kit happens to offer again.
- `OfferReachesBrowser` with two offers: the second `buildBrowserOffer` replaces
  the gather-complete handler of the first and then fails, so neither offer is
  sent.

Smaller disagreements met while reading, without a run: `gateway-go/README.md:71`
says an offer of the browser is ignored, `session.go:341-351` handles it;
`session.go:425-427` says the browser's offer waits for upstream ICE, it does
not; `browser_peer.go:57-59` says "non-trickle", while `session.go:168-201`
trickles the same candidates as well; `forwarder.go:58-60` declares a sentinel of
its own that is never equal to `io.ErrClosedPipe`, so the test at 49-51 never
succeeds; `session.go:99-102` keeps audio out of the browser's offer, but an
offer built after Kit's audio track was added has it; `peer_msg.go:82` says that
`SetPeerMsgInner` re-encodes the payload, but a message built for Kit or the
browser goes on being sent as it was built (`Stale` in `Nvst`; no caller does
this).

## What is proved

Every invariant a passing run checks is also proved, for all values of the
constants under the assumption the module names: `ProxyAssumption`,
`NegotiationAssumption`, `MediaAssumption`, `NvstAssumption` with
`FramesAssumption`, and `ReplayAssumption`. One theorem about the negotiation,
`OrderedAckids`, assumes more and says so below. The inductive invariants:

- `SignalingProxyProofs`: `TypeCorrect`; `MutualExclusion`, from the invariant
  that whoever is inside a write holds the mutex of its side; `TearDownOnce`,
  from an invariant that ties `closeOnce` to the one pump between `closeClient`
  and `onClose`; `ForwardOrder` and `NoLossMidStream`, from one invariant per
  direction: the numbers on the wire increase, are at most the number read, are
  below it while the frame is in hand, and every earlier number is on the wire
  or consumed; `ImplementsRelay`, action by action. `NoDeadlock` states
  `StuckOnlyOnRemote`: a mutex is held only inside a write and `closeOnce` runs
  only while a pump is inside it, so whoever waits, waits in the end for a socket
  without room or for a frame, and both are a remote's to give. It is the part
  of `HangupEndsSession` that needs no fairness.
- `NegotiationProofs`: `TypeCorrect`, which needs that a gatherer about to send
  has a candidate left; `FreshAckids`. `AckidsFresh` alone is not inductive: an
  ackid is drawn before it is sent. `AckidInv` adds that every ackid in the
  hands of a goroutine was drawn from the counter, is not on the wire, and is in
  no other hands, and that Kit's stay at or below `AckBase`. The proof sorts the
  steps into four shapes (`AckidStep`): nothing, pass a frame of Kit, draw, send.
  The assumption `MaxKitFrames <= AckBase` is what the comment on `ackBase`
  relies on: Kit uses low numbers.
- `NegotiationFrameProofs`: `EveryFrameAckedOrShown`. `OwnInv` says that each
  goroutine holds the frame its place in the code determines, so that what it
  sends can be read off; `AckInv` that acks and passed frames are of frames Kit
  has sent, none of both kinds. `LearnedIds`: `LearnInv` says that the ids are
  learned before any goroutine is under way and that `browserPeerID` is this
  browser's or that of a viewer Kit has announced, `AddressInv` that held frames
  are addressed with learned ids, also between the two loads. With
  `OtherViewers = {}` it follows that a frame speaks for this session's own
  browser; with others it need not (see "Not modelled").
- `NegotiationOfferProofs`: `OneOutstandingOffer`, from `OfferInv`: an offer that
  is about to be sent, on the wire, or owed an answer is the one the downstream
  peer connection waits on, and there is no other. `AnswersAccepted` needs four
  parts: only `OnClose` closes a peer connection (`ClosedInv`); Kit is asked to
  answer one offer at a time, the one the upstream waits on (`AskInv`); when
  only Kit offers, only its last offer is being handled and the upstream is
  settled before and after (`HandleInv`); an answer of the browser leaves a
  remote description for its candidates (`RemoteInv`).
- `NegotiationOrderProofs`: `OrderedAckids`, which assumes `MaxBrowserOffers = 0`.
  Drawing and sending are apart, so the order rests on who may hold an ackid at
  one time. `GatherInv`: candidates are sent while gathering runs, the offer is
  stamped when it is complete. `OrderInv`: hence at most one goroutine holds an
  ackid, and it is above all that are on the wire. With an offer of the browser
  the answer to it is stamped apart from both, and the order is lost.
  `LoneOfferPassedOn` states `LoneOfferDelivered`, the part of
  `OfferReachesBrowser` and `BrowserOfferAnswered` that needs no fairness: a live
  session in which nobody can run has passed on the only offer it was made.
  `PathInv` says which states of the two peer connections go with each place of
  the goroutine of a lone offer, so that no call of pion can fail on its way and
  the goroutine has not ended early. `SessionImplementsExchange`: every step of
  the session is one of `OfferExchange` or a stutter. It needs `OnceInv`, for
  "at most once" and for the order: the place of a goroutine tells what has been
  said of its offer (`KitOnce`, `BrowserOnce`), and nobody gathers or sends
  candidates before there was an offer (`CandidateInv`). A lemma says that the
  conversation of a wire with one frame more is the conversation with one item
  more, so each send is read off its frame (`Saying`).
- `MediaRelayProofs`: `TypeCorrect`, with the bound on the channel;
  `LatePackets`, because a forwarder that wrote after the cancel is at the top of
  its loop or gone (`LateInv`); `PlayedInOrder`. `RelayedInOrder` speaks of what
  was played only, so `PlayInv` adds, for each sender: what was played was
  negotiated, it came from tracks that were attached, and if the track the
  sender carries now was heard on it, it was heard last, up to the packet its
  forwarder is about to write. `ChannelInv` says that a track is in the channel
  once and is attached once, so a replaced track never comes back. The proof
  shows that every action but a forwarder's write is quiet for what was played
  (`Quiet`), and that the packet written may follow (`AppendPlayed`).
  `NoneForgotten` states `NoTrackForgotten`, the part of `QueuedIsHandled` that
  needs no fairness, from `ForgetInv`: a queued track is in the channel or in the
  loop's hands, and the loop returns only when the channel is closed and empty.
  `SessionImplementsPlayback`: from `PlayInv`, and from `CountInv` (a forwarder
  has counted what it has read, but for the packet in its hands), an action is
  one step of `Playback` or changes nothing a line shows. That a track finds the first sender
  of its kind needs the well-foundedness of the naturals (`Least`), since
  `FirstOf` is a `CHOOSE`.
- `NvstProofs`: `InnerRoundTrip`, that a payload survives encoding and decoding
  although zero fields are not written; `TypeCorrect`; `AccessorsReadWhatWasSet`
  and `ReceiverReadsTheSame`, from `Consistent`: the map reads as it should, and
  a cached encoding does so too until a setter runs. The second part is needed
  because a hop forgets the map and goes on with the encoding.
- `ReplayLoopProofs`: `TypeCorrect`; `ActionsAreCurrent`, from `LifeInv`: the
  current action belongs to the current life unless a new one is due;
  `ObservationsRemember`, from `ActionInv`: what is remembered, driven through
  the adapter's clamp, is what was applied; both need lemmas on division, for a decimation that divides
  the period. `FallenArePutBack`, from `DownInv`: the steps since the last check
  bound the time each robot is down. `LoadsNewest`, from `CheckpointInv`:
  directories only appear, so the one listed is still no older than any there
  was at the start. `OriginsApart`: `define_origins` gives no two robots one
  place, for any number of them.

Only model-checked: everything temporal except the three refinements
(`HangupEndsSession`, `OfferReachesBrowser`, `BrowserOfferAnswered`,
`GoroutinesEnd`, `QueuedIsHandled`, `MediaGoroutinesEnd`). Liveness under
fairness is outside the prover's reach.

## Not modelled

- The Node gateway (`gateway/main.js`): `gateway/DEPRECATED.md` says it is no
  longer used. The Go gateway was written after it and is itself no longer used
  (`gateway-go/DEPRECATED.md`). Two hazards of the Node gateway are listed in
  `PROJECT.json` without a property.
- The clipboard bridge: a dialog and two HTTP handlers without state of their
  own. Which of two overlapping posts is kept is decided by Kit's HTTP server,
  outside the repository; a model would check an assumption about that server.
- Configuration and `main.go` (read once, then an HTTP server), start-up
  scripts, manifests, Dockerfiles.
- The contents of SDP, and `rewriteKitOffer`, which nothing calls.
- Of the proxy, the browser's HTTP upgrade, which is assumed to have succeeded.
- Of pion, its timers, ICE restarts and DTLS; ICE connecting is part of
  `BridgeWait`, which may end at any time because of its 20-second timer.
- Of the replay, the camera (it changes the view only), the scene and its
  lights, the command line, and all numbers.
- A second session on the same Kit. `OtherViewers` lets Kit announce other
  browsers on this socket; the last `peer_info` wins, so `browserPeerID` is then
  another viewer's and frames speak for it, although `session.go:57` calls it the
  browser's. `RoutedByLearnedIds` is checked in `negotiation`, without other
  viewers, where it says that every frame speaks for this session's browser; with
  others (`negotiation_glare`) it holds only up to the viewers announced so far,
  which is what `LearnedIds` proves. Whether Kit announces other viewers on this
  socket is not in the repository, so this is a listed hazard and not a finding.
- Waits that go round through Kit or the browser. `StuckOnlyOnRemote` and
  `NoDeadlock` say that the goroutines of the proxy do not wait for each other; a
  Kit that does not read before its own writes drain is a remote that does not
  read.
- A connection of the upstream made before `session.go:499` registers its
  handler: `BridgeWait` may end at any time, whatever ICE does.
- An adapter that recycles out of phase with its decimation, and a Kit whose
  ackids reach `ackBase`: assumptions exclude both (`ReplayAssumption`,
  `NegotiationAssumption`).

## Plan

Done: the gateway and the replay loop, with the safety of every module proved,
and the three concurrent modules shown to implement what they promise
(`FrameRelay`, `OfferExchange`, `Playback`). What is left is small or outside the
code: the composition of `Negotiation` with `MediaRelay` (they meet in three
actions and `OnClose`; the product of their states is beyond TLC, but
`OfferExchange` and `Playback` are small enough to be composed), and a session
among several viewers, once it is settled what Kit promises then.
