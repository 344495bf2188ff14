------------------------------- MODULE MediaRelay -------------------------------
(***************************************************************************)
(* The media half of a session of gateway-go: how a track of Kit reaches   *)
(* the browser, and how the goroutines that carry it end.                  *)
(*                                                                         *)
(* Pion calls OnTrack in a goroutine of its own for every remote track;    *)
(* the callback offers the track to a small channel (kit_peer.go).  One    *)
(* goroutine ranges over the channel, attaches each track to a sender of   *)
(* the browser's peer and starts two goroutines for it (session.go): a     *)
(* forwarder that pumps RTP (forwarder.go) and a drain of the sender's     *)
(* RTCP.  OnClose cancels the context, closes the browser's peer, then     *)
(* closes the channel and Kit's peer.                                      *)
(*                                                                         *)
(* A packet is its number in its track.  The signaling is reduced to what  *)
(* media depends on: Kit's offers, the browser offer that each of them     *)
(* builds, and the browser's answer; Negotiation models it in full.        *)
(***************************************************************************)
EXTENDS Naturals, Sequences, FiniteSets

CONSTANTS
  VideoTracks,     \* Kit's remote video tracks
  AudioTracks,     \* Kit's remote audio tracks
  Placeholder,     \* the track the video sender starts with
  NoTrack,         \* the range loop is waiting on the channel
  Finished,        \* the range loop has returned
  TrackCap,        \* capacity of KitPeer.tracks: 4 in the code
  MaxPackets,      \* bound: packets Kit sends on each track
  MaxOffers        \* bound: offers Kit makes

Tracks == VideoTracks \cup AudioTracks

ASSUME MediaAssumption ==
  /\ VideoTracks \cap AudioTracks = {}
  /\ {Placeholder, NoTrack, Finished} \cap Tracks = {}
  /\ NoTrack # Finished
  /\ TrackCap \in Nat \ {0}
  /\ MaxPackets \in [Tracks -> Nat]
  /\ MaxOffers \in Nat

VARIABLES
  offers,     \* Kit's offers that were answered, each with its build goroutine
  built,      \* browser offers built from them
  senders,    \* the transceivers of the browser's peer, in order
  at,         \* where the announcement of each track is
  queue,      \* the channel KitPeer.tracks
  ranging,    \* the track the range loop has in hand
  fwd,        \* where each track's forwarder is
  drain,      \* where each track's RTCP drain is
  got,        \* packets of each track its forwarder has read
  count,      \* packets each forwarder has counted as forwarded
  late,       \* of those, the ones written after cancel()
  stage,      \* how far OnClose has come
  panicked    \* the process died of a send on a closed channel

signaling == <<offers, built>>
pumps == <<fwd, got, count, late>>
vars == <<offers, built, senders, at, queue, ranging, fwd, drain, got, count,
          late, stage, panicked>>

KindOf(t) == IF t \in VideoTracks THEN "video" ELSE "audio"

Sender(kind, track) ==
  [kind |-> kind, track |-> track, offered |-> FALSE, live |-> FALSE, out |-> <<>>]

\* OnClose runs cancel, browserPeer.Close, close(tracks), pc.Close in order.
Stages == {"up", "cancelled", "browserClosed", "channelClosed", "down"}
Cancelled == stage # "up"
BrowserClosed == stage \in {"browserClosed", "channelClosed", "down"}
\* Mutant: KitPeer.Close leaves the channel open.
ChannelStaysOpen == FALSE
ChannelClosed == stage \in {"channelClosed", "down"}
KitClosed == stage = "down"

Init ==
  /\ offers = 0 /\ built = 0
  /\ senders = <<Sender("video", Placeholder)>>
  /\ at = [t \in Tracks |-> "none"]
  /\ queue = <<>>
  /\ ranging = NoTrack
  /\ fwd = [t \in Tracks |-> "none"]
  /\ drain = [t \in Tracks |-> "none"]
  /\ got = [t \in Tracks |-> 0]
  /\ count = [t \in Tracks |-> 0]
  /\ late = [t \in Tracks |-> 0]
  /\ stage = "up"
  /\ panicked = FALSE

-----------------------------------------------------------------------------
(* Signaling, as far as media sees it.                                     *)

KitOffers ==
  /\ ~Cancelled
  /\ offers < MaxOffers
  /\ offers' = offers + 1
  /\ UNCHANGED <<built, senders, at, queue, ranging, pumps, drain, stage, panicked>>

\* buildBrowserOffer does not look at the tracks: it offers every sender the
\* browser's peer has when CreateOffer runs.  It has looked at the context
\* before, so only a closed peer stops it for sure.
BuildOffer ==
  /\ ~BrowserClosed
  /\ built < offers
  /\ built' = built + 1
  /\ senders' = [i \in DOMAIN senders |-> [senders[i] EXCEPT !.offered = TRUE]]
  /\ UNCHANGED <<offers, at, queue, ranging, pumps, drain, stage, panicked>>

BrowserAnswers ==
  /\ ~BrowserClosed
  /\ \E i \in DOMAIN senders : senders[i].offered /\ ~senders[i].live
  /\ senders' = [i \in DOMAIN senders |->
                   [senders[i] EXCEPT !.live = senders[i].offered]]
  /\ UNCHANGED <<signaling, at, queue, ranging, pumps, drain, stage, panicked>>

-----------------------------------------------------------------------------
(* Kit's peer: a track's first packet starts the OnTrack callback.         *)

TrackArrives(t) ==
  /\ offers > 0 /\ ~KitClosed
  /\ at[t] = "none"
  /\ at' = [at EXCEPT ![t] = "calling"]
  /\ UNCHANGED <<signaling, senders, queue, ranging, pumps, drain, stage, panicked>>

\* Mutant: the channel is replaced by a list that never drops a track.
AnnounceUnbounded(t) ==
  /\ at[t] = "calling" /\ ~ChannelClosed
  /\ at' = [at EXCEPT ![t] = "queued"]
  /\ queue' = Append(queue, t)
  /\ UNCHANGED <<signaling, senders, ranging, pumps, drain, stage, panicked>>

Announce(t) ==
  /\ at[t] = "calling" /\ ~ChannelClosed
  /\ IF Len(queue) < TrackCap
       THEN at' = [at EXCEPT ![t] = "queued"] /\ queue' = Append(queue, t)
       ELSE at' = [at EXCEPT ![t] = "dropped"] /\ UNCHANGED queue
  /\ UNCHANGED <<signaling, senders, ranging, pumps, drain, stage, panicked>>

\* A select with a default does not spare a send on a closed channel.
AnnouncePanics(t) ==
  /\ at[t] = "calling" /\ ChannelClosed
  /\ panicked' = TRUE
  /\ UNCHANGED <<signaling, senders, at, queue, ranging, pumps, drain, stage>>

-----------------------------------------------------------------------------
(* The goroutine that ranges over the channel.                             *)

\* Mutant: the loop gives up with the context.
RangeTakesUntilCancel ==
  /\ ~Cancelled
  /\ ranging = NoTrack /\ queue # <<>>
  /\ ranging' = Head(queue) /\ queue' = Tail(queue)
  /\ UNCHANGED <<signaling, senders, at, pumps, drain, stage, panicked>>

\* A closed channel still yields what it holds.
RangeTakes ==
  /\ ranging = NoTrack /\ queue # <<>>
  /\ ranging' = Head(queue)
  /\ queue' = Tail(queue)
  /\ UNCHANGED <<signaling, senders, at, pumps, drain, stage, panicked>>

\* Mutant: the loop returns with the channel's close, whatever is left in it.
RangeEndsEarly ==
  /\ ranging = NoTrack /\ ChannelClosed
  /\ ranging' = Finished
  /\ UNCHANGED <<signaling, senders, at, queue, pumps, drain, stage, panicked>>

RangeEnds ==
  /\ ranging = NoTrack /\ queue = <<>> /\ ChannelClosed
  /\ ranging' = Finished
  /\ UNCHANGED <<signaling, senders, at, queue, pumps, drain, stage, panicked>>

\* Mutant: the kind of a sender is not compared.
SendersOfAny(kind) == DOMAIN senders

\* replaceOrAddTrack: the first sender of the track's kind, whatever it plays.
SendersOf(kind) == {i \in DOMAIN senders : senders[i].kind = kind}
FirstOf(kind) == CHOOSE i \in SendersOf(kind) : \A j \in SendersOf(kind) : i <= j

StartGoroutines(t) ==
  /\ at' = [at EXCEPT ![t] = "attached"]
  /\ fwd' = [fwd EXCEPT ![t] = "check"]
  /\ drain' = [drain EXCEPT ![t] = "run"]

ReplaceTrack(t) ==
  /\ SendersOf(KindOf(t)) # {}
  /\ senders' = [senders EXCEPT ![FirstOf(KindOf(t))].track = t]
  /\ StartGoroutines(t)

AddTrack(t) ==
  /\ SendersOf(KindOf(t)) = {} /\ ~BrowserClosed
  /\ senders' = Append(senders, Sender(KindOf(t), t))
  /\ StartGoroutines(t)

\* A live sender refuses a track of another codec, a closed peer a new sender;
\* the track is logged and given up, the loop goes on.
AttachFails(t) ==
  /\ IF SendersOf(KindOf(t)) = {}
       THEN BrowserClosed
       ELSE senders[FirstOf(KindOf(t))].live
  /\ at' = [at EXCEPT ![t] = "refused"]
  /\ UNCHANGED <<senders, fwd, drain>>

Attach(t) ==
  /\ ranging = t
  /\ ReplaceTrack(t) \/ AddTrack(t) \/ AttachFails(t)
  /\ ranging' = NoTrack
  /\ UNCHANGED <<signaling, queue, got, count, late, stage, panicked>>

-----------------------------------------------------------------------------
(* relay.Forward for one track.                                            *)

\* Mutant: the context is not looked at between packets.
ForwardNeverChecks(t) ==
  /\ fwd[t] = "check"
  /\ fwd' = [fwd EXCEPT ![t] = "read"]
  /\ UNCHANGED <<signaling, senders, at, queue, ranging, drain, got, count,
                 late, stage, panicked>>

ForwardChecks(t) ==
  /\ fwd[t] = "check"
  /\ fwd' = [fwd EXCEPT ![t] = IF Cancelled THEN "done" ELSE "read"]
  /\ UNCHANGED <<signaling, senders, at, queue, ranging, drain, got, count,
                 late, stage, panicked>>

\* ReadRTP returns Kit's next packet, or blocks; it may fail at any time, and
\* does once Kit's peer is closed.
ForwardReads(t) ==
  /\ fwd[t] = "read" /\ got[t] < MaxPackets[t]
  /\ fwd' = [fwd EXCEPT ![t] = "write"]
  /\ got' = [got EXCEPT ![t] = @ + 1]
  /\ UNCHANGED <<signaling, senders, at, queue, ranging, drain, count, late,
                 stage, panicked>>

ReadRTPFails(t) ==
  /\ fwd[t] = "read"
  /\ fwd' = [fwd EXCEPT ![t] = "done"]
  /\ UNCHANGED <<signaling, senders, at, queue, ranging, drain, got, count,
                 late, stage, panicked>>

\* A local track writes to the senders it is bound to; one that was replaced or
\* not negotiated yet has none, and its packets are counted all the same.
Bound(t) == {i \in DOMAIN senders : senders[i].track = t /\ senders[i].live}

\* Mutant: the packet is written once more before the next is read.
ForwardRetries(t) ==
  /\ fwd[t] = "write"
  /\ senders' = [i \in DOMAIN senders |->
                   IF i \in Bound(t) /\ ~BrowserClosed
                     THEN [senders[i] EXCEPT !.out = Append(@, [track |-> t, num |-> got[t]])]
                     ELSE senders[i]]
  /\ count' = [count EXCEPT ![t] = @ + 1]
  /\ late' = IF Cancelled THEN [late EXCEPT ![t] = @ + 1] ELSE late
  /\ fwd' = [fwd EXCEPT ![t] = IF count[t] < got[t] THEN "write" ELSE "check"]
  /\ UNCHANGED <<signaling, at, queue, ranging, drain, got, stage, panicked>>

ForwardWrites(t) ==
  /\ fwd[t] = "write"
  /\ senders' = [i \in DOMAIN senders |->
                   IF i \in Bound(t) /\ ~BrowserClosed
                     THEN [senders[i] EXCEPT !.out = Append(@, [track |-> t, num |-> got[t]])]
                     ELSE senders[i]]
  /\ count' = [count EXCEPT ![t] = @ + 1]
  /\ late' = IF Cancelled THEN [late EXCEPT ![t] = @ + 1] ELSE late
  /\ fwd' = [fwd EXCEPT ![t] = "check"]
  /\ UNCHANGED <<signaling, at, queue, ranging, drain, got, stage, panicked>>

\* A write fails at any time; the forwarder ends without counting the packet.
WriteRTPFails(t) ==
  /\ fwd[t] = "write"
  /\ fwd' = [fwd EXCEPT ![t] = "done"]
  /\ UNCHANGED <<signaling, senders, at, queue, ranging, drain, got, count,
                 late, stage, panicked>>

-----------------------------------------------------------------------------
(* drainRTCP for the sender of one track.                                  *)

\* It reads the sender, between two looks at the context, until one of them
\* ends it; the sender it was started with outlives a replacement of the track.
DrainStops(t) ==
  /\ drain[t] = "run" /\ Cancelled
  /\ drain' = [drain EXCEPT ![t] = "done"]
  /\ UNCHANGED <<signaling, senders, at, queue, ranging, pumps, stage, panicked>>

DrainFails(t) ==
  /\ drain[t] = "run" /\ BrowserClosed
  /\ drain' = [drain EXCEPT ![t] = "done"]
  /\ UNCHANGED <<signaling, senders, at, queue, ranging, pumps, stage, panicked>>

-----------------------------------------------------------------------------
(* OnClose.                                                                *)

CloseStep(from, to) ==
  /\ stage = from /\ stage' = to
  /\ UNCHANGED <<signaling, senders, at, queue, ranging, pumps, drain, panicked>>

Cancel == CloseStep("up", "cancelled")
CloseBrowserPeer == CloseStep("cancelled", "browserClosed")
CloseTracks == CloseStep("browserClosed", "channelClosed")
CloseKitPC == CloseStep("channelClosed", "down")

Range == RangeTakes \/ RangeEnds \/ \E t \in Tracks : Attach(t)
Forward(t) ==
  ForwardChecks(t) \/ ForwardWrites(t) \/ ReadRTPFails(t) \/ WriteRTPFails(t)
ForwardRuns(t) == Forward(t) /\ (fwd[t] = "read" => KitClosed)
DrainRTCP(t) == DrainStops(t) \/ DrainFails(t)
OnTrack(t) == Announce(t) \/ AnnouncePanics(t)
OnClose == CloseBrowserPeer \/ CloseTracks \/ CloseKitPC

\* After a panic no goroutine of the process takes a step.
Next ==
  /\ ~panicked
  /\ \/ KitOffers \/ BuildOffer \/ BrowserAnswers \/ Cancel \/ OnClose \/ Range
     \/ \E t \in Tracks :
          TrackArrives(t) \/ ForwardReads(t) \/ OnTrack(t) \/ Forward(t) \/ DrainRTCP(t)

Spec == Init /\ [][Next]_vars

\* What the scheduler runs when it can, and the browser's answer to an offer.
\* Nothing makes Kit send or the session close; a forwarder may wait in ReadRTP
\* until Kit's peer is closed, and a drain in Read until the browser's is.
Scheduled ==
  /\ ~panicked
  /\ \/ Range \/ OnClose \/ BuildOffer \/ BrowserAnswers
     \/ \E t \in Tracks : OnTrack(t) \/ ForwardRuns(t) \/ DrainFails(t)

\* One fairness condition is enough: no behaviour takes infinitely many steps.
FairSpec == Spec /\ WF_vars(Scheduled)

-----------------------------------------------------------------------------
(* Properties.                                                             *)

SenderRecords ==
  [kind : {"video", "audio"}, track : Tracks \cup {Placeholder},
   offered : BOOLEAN, live : BOOLEAN, out : Seq([track : Tracks, num : Nat])]

\* The type invariant; the channel never holds more than its capacity.
TypeOK ==
  /\ offers \in Nat /\ built \in Nat /\ built <= offers
  /\ senders \in Seq(SenderRecords)
  /\ at \in [Tracks -> {"none", "calling", "queued", "dropped", "attached", "refused"}]
  /\ queue \in Seq(Tracks) /\ Len(queue) <= TrackCap
  /\ ranging \in Tracks \cup {NoTrack, Finished}
  /\ fwd \in [Tracks -> {"none", "check", "read", "write", "done"}]
  /\ drain \in [Tracks -> {"none", "run", "done"}]
  /\ {got, count, late} \subseteq [Tracks -> Nat]
  /\ stage \in Stages
  /\ panicked \in BOOLEAN

\* session.go:571-597.  What a sender plays is one track after another: the
\* packets of a track come in order and without a gap, and once a later track
\* has been heard the one it replaced is not heard again, although its
\* forwarder still runs.
RelayedInOrder ==
  \A i \in DOMAIN senders :
    LET out == senders[i].out IN
      /\ \A j \in 1..(Len(out) - 1) :
           out[j + 1].track = out[j].track => out[j + 1].num = out[j].num + 1
      /\ \A j, k, l \in DOMAIN out :
           j < k /\ k < l /\ out[j].track = out[l].track
             => out[k].track = out[j].track

\* forwarder.go:39-43.  The context is read before every packet, so cancel()
\* lets at most the packet in hand through.
AtMostOneLatePacket == \A t \in Tracks : late[t] <= 1

\* What the browser's media lines are to the browser.
LineOf(s) == [kind |-> s.kind, track |-> s.track, live |-> s.live, out |-> s.out]
Attached == {t \in Tracks : at[t] = "attached"}

Player == INSTANCE Playback
  WITH lines <- [i \in DOMAIN senders |-> LineOf(senders[i])],
       placed <- Attached, taken <- count, over <- BrowserClosed

\* session.go:539-618 and forwarder.go:39-56.  To the browser the channel, the
\* goroutines and the order of OnClose do not show: a track is put on a line of
\* its kind once, its packets are heard in turn or not at all, and none is
\* heard after the browser's peer was closed.
ImplementsPlayback == Player!PlaySpec

\* session.go:209-215 and kit_peer.go:42-45.  When the range loop has nothing to
\* do or has returned, no track is left that found room in the channel and was
\* neither attached nor given up: closing the channel drops none, and none
\* comes in after the loop has returned.
NoTrackForgotten ==
  ranging = Finished \/ (ranging = NoTrack /\ queue = <<>>)
    => \A t \in Tracks : at[t] # "queued"

\* session.go:209-215.  Every track that found room in the channel is taken off
\* it and attached or given up, also when the session closes meanwhile.
QueuedIsHandled == queue # <<>> ~> (queue = <<>> /\ ranging \notin Tracks) \/ panicked

\* session.go:372-376.  After OnClose the range loop, every forwarder and every
\* RTCP drain return, also those started for a track taken after the cancel.
MediaEnded ==
  /\ ranging = Finished
  /\ \A t \in Tracks : fwd[t] \in {"none", "done"} /\ drain[t] \in {"none", "done"}

MediaGoroutinesEnd == Cancelled ~> MediaEnded \/ panicked

\* kit_peer.go:43-45.  A track that cannot be announced is dropped, and the
\* callback returns.  Violated: once Close has closed the channel the callback
\* panics, and the process ends with every session in it.
AnnounceNeverPanics == ~panicked

\* session.go:571-575 and 593.  A track that found no sender of its kind is
\* added, which "will renegotiate".  Violated: no one offers the new sender.
AddedTrackNegotiated ==
  \A t \in Tracks :
    at[t] = "attached"
      ~> \/ Cancelled
         \/ \E i \in SendersOf(KindOf(t)) : senders[i].live
=============================================================================
