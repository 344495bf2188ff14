--------------------------- MODULE MediaRelayProofs ---------------------------
(***************************************************************************)
(* Proofs about MediaRelay, for any tracks, channel capacity and bounds.   *)
(***************************************************************************)
EXTENDS MediaRelay, WellFoundedInduction, TLAPS

-----------------------------------------------------------------------------
(* cancel() lets at most the packet in hand through.  The invariant says   *)
(* where a forwarder is once it has written a packet after the cancel: at  *)
(* the top of its loop, where it sees the context, or gone.                *)

ForwarderType ==
  /\ fwd \in [Tracks -> {"none", "check", "read", "write", "done"}]
  /\ late \in [Tracks -> Nat]

LateInv ==
  /\ ForwarderType
  /\ \A t \in Tracks :
       late[t] = 0 \/ (late[t] = 1 /\ Cancelled /\ fwd[t] \in {"check", "done"})

\* OnClose only moves forward: the context stays cancelled.
LEMMA CancelledStays == ASSUME Cancelled, [Next]_vars PROVE Cancelled'
BY DEF Cancelled, Next, vars, KitOffers, BuildOffer, BrowserAnswers, Cancel, OnClose,
       CloseStep, CloseBrowserPeer, CloseTracks, CloseKitPC, Range, RangeTakes,
       RangeEnds, Attach, TrackArrives, ForwardReads, OnTrack, Announce,
       AnnouncePanics, Forward, ForwardChecks, ForwardWrites, ReadRTPFails,
       WriteRTPFails, DrainRTCP, DrainStops, DrainFails

\* Attaching a track puts its forwarder at the top of its loop.
LEMMA AttachKeepsLate ==
  ASSUME LateInv, NEW t \in Tracks, Attach(t)
  PROVE  LateInv'
<1>1. late' = late /\ stage' = stage
  BY DEF Attach
<1>2. fwd' = fwd \/ fwd' = [fwd EXCEPT ![t] = "check"]
  BY DEF Attach, ReplaceTrack, AddTrack, AttachFails, StartGoroutines
<1> QED BY <1>1, <1>2 DEF LateInv, ForwarderType, Cancelled

LEMMA ForwardKeepsLate ==
  ASSUME LateInv, NEW t \in Tracks, Forward(t) \/ ForwardReads(t)
  PROVE  LateInv'
<1>1. stage' = stage
  BY DEF Forward, ForwardChecks, ForwardReads, ForwardWrites, ReadRTPFails,
         WriteRTPFails
<1>2. CASE ForwardChecks(t)
  <2>1. late' = late /\ fwd[t] = "check"
        /\ fwd' = [fwd EXCEPT ![t] = IF Cancelled THEN "done" ELSE "read"]
    BY <1>2 DEF ForwardChecks
  <2> QED BY <1>1, <2>1 DEF LateInv, ForwarderType, Cancelled
<1>3. CASE ForwardReads(t)
  <2>1. late' = late /\ fwd[t] = "read" /\ fwd' = [fwd EXCEPT ![t] = "write"]
    BY <1>3 DEF ForwardReads
  <2> QED BY <1>1, <2>1 DEF LateInv, ForwarderType, Cancelled
<1>4. CASE ForwardWrites(t)
  <2>1. /\ fwd[t] = "write" /\ fwd' = [fwd EXCEPT ![t] = "check"]
        /\ late' = IF Cancelled THEN [late EXCEPT ![t] = @ + 1] ELSE late
    BY <1>4 DEF ForwardWrites
  <2>2. late[t] = 0
    BY <2>1 DEF LateInv
  <2> QED BY <1>1, <2>1, <2>2 DEF LateInv, ForwarderType, Cancelled
<1>5. CASE ReadRTPFails(t) \/ WriteRTPFails(t)
  <2>1. late' = late /\ fwd' = [fwd EXCEPT ![t] = "done"]
    BY <1>5 DEF ReadRTPFails, WriteRTPFails
  <2> QED BY <1>1, <2>1 DEF LateInv, ForwarderType, Cancelled
<1> QED BY <1>2, <1>3, <1>4, <1>5 DEF Forward

LEMMA LateStep == LateInv /\ [Next]_vars => LateInv'
<1> SUFFICES ASSUME LateInv, [Next]_vars PROVE LateInv'
  OBVIOUS
<1>1. ASSUME fwd' = fwd, late' = late PROVE LateInv'
  BY <1>1, CancelledStays DEF LateInv, ForwarderType
<1>2. CASE KitOffers \/ BuildOffer \/ BrowserAnswers
  BY <1>1, <1>2 DEF KitOffers, BuildOffer, BrowserAnswers, pumps
<1>3. CASE Cancel \/ OnClose
  BY <1>1, <1>3
  DEF Cancel, OnClose, CloseBrowserPeer, CloseTracks, CloseKitPC, CloseStep, pumps
<1>4. CASE RangeTakes \/ RangeEnds
  BY <1>1, <1>4 DEF RangeTakes, RangeEnds, pumps
<1>5. ASSUME NEW t \in Tracks, TrackArrives(t) \/ OnTrack(t) \/ DrainRTCP(t)
      PROVE  LateInv'
  BY <1>1, <1>5
  DEF TrackArrives, OnTrack, Announce, AnnouncePanics, DrainRTCP, DrainStops,
      DrainFails, pumps
<1>6. CASE UNCHANGED vars
  BY <1>1, <1>6 DEF vars
<1> QED
  BY <1>2, <1>3, <1>4, <1>5, <1>6, AttachKeepsLate, ForwardKeepsLate DEF Next, Range

\* A packet in hand when the session is cancelled may still be written, never
\* a second one: however many tracks there are, each forwarder looks at the
\* context before it reads (forwarder.go:39-43).
THEOREM LatePackets == Spec => []AtMostOneLatePacket
<1>1. Init => LateInv
  BY DEF Init, LateInv, ForwarderType
<1>2. LateInv => AtMostOneLatePacket
  BY DEF LateInv, ForwarderType, AtMostOneLatePacket
<1> QED BY <1>1, <1>2, LateStep, PTL DEF Spec

-----------------------------------------------------------------------------
(* Types.  A sender is a record in a sequence, so its updates come first.  *)

Played == [track : Tracks, num : Nat]
SenderTracks == Tracks \cup {Placeholder}

LEMMA OfferedUpdate ==
  ASSUME NEW s \in SenderRecords
  PROVE  [s EXCEPT !.offered = TRUE] \in SenderRecords
BY DEF SenderRecords

LEMMA LiveUpdate ==
  ASSUME NEW s \in SenderRecords
  PROVE  [s EXCEPT !.live = s.offered] \in SenderRecords
BY DEF SenderRecords

LEMMA TrackUpdate ==
  ASSUME NEW s \in SenderRecords, NEW t \in Tracks
  PROVE  [s EXCEPT !.track = t] \in SenderRecords
BY DEF SenderRecords

LEMMA OutUpdate ==
  ASSUME NEW s \in SenderRecords, NEW p \in Played
  PROVE  [s EXCEPT !.out = Append(s.out, p)] \in SenderRecords
<1>1. Append(s.out, p) \in Seq(Played)
  BY DEF SenderRecords, Played
<1> DEFINE o == Append(s.out, p)
<1>2. o \in Seq(Played)
  BY <1>1
<1> HIDE DEF o
<1>3. [s EXCEPT !.out = o] \in SenderRecords
  BY <1>2 DEF SenderRecords, Played
<1> QED BY <1>3 DEF o

LEMMA SenderFields ==
  ASSUME NEW s \in SenderRecords
  PROVE  /\ s.kind \in {"video", "audio"} /\ s.track \in SenderTracks
         /\ s.offered \in BOOLEAN /\ s.live \in BOOLEAN
         /\ s.out \in Seq(Played)
BY DEF SenderRecords, SenderTracks, Played

LEMMA NewSender ==
  ASSUME NEW k \in {"video", "audio"}, NEW t \in SenderTracks
  PROVE  Sender(k, t) \in SenderRecords
BY DEF Sender, SenderRecords, SenderTracks, Played

LEMMA Elements ==
  ASSUME NEW S, NEW q \in Seq(S)
  PROVE  /\ Len(q) \in Nat /\ DOMAIN q = 1..Len(q)
         /\ \A i \in DOMAIN q : q[i] \in S
OBVIOUS

LEMMA MapSeq ==
  ASSUME NEW S, NEW q \in Seq(S), NEW r \in [DOMAIN q -> S]
  PROVE  r \in Seq(S)
<1>1. DOMAIN q = 1..Len(q) /\ Len(q) \in Nat
  OBVIOUS
<1> QED BY <1>1

LEMMA AppendSeq ==
  ASSUME NEW S, NEW q \in Seq(S), NEW e \in S
  PROVE  /\ Append(q, e) \in Seq(S)
         /\ Len(Append(q, e)) = Len(q) + 1
         /\ \A i \in 1..Len(q) : Append(q, e)[i] = q[i]
         /\ Append(q, e)[Len(q) + 1] = e
OBVIOUS

\* What a step does to the senders.
SendersKept ==
  /\ senders' \in Seq(SenderRecords)
  /\ DOMAIN senders' = DOMAIN senders

LEMMA BuildFacts ==
  ASSUME senders \in Seq(SenderRecords), BuildOffer
  PROVE  /\ SendersKept
         /\ \A i \in DOMAIN senders : senders'[i] = [senders[i] EXCEPT !.offered = TRUE]
<1>1. senders' = [i \in DOMAIN senders |-> [senders[i] EXCEPT !.offered = TRUE]]
  BY Zenon DEF BuildOffer
<1>2. \A i \in DOMAIN senders : [senders[i] EXCEPT !.offered = TRUE] \in SenderRecords
  BY Elements, OfferedUpdate, Zenon
<1>3. DOMAIN senders' = DOMAIN senders
      /\ \A i \in DOMAIN senders : senders'[i] = [senders[i] EXCEPT !.offered = TRUE]
  BY <1>1, Zenon
<1>f. senders' = [i \in DOMAIN senders |-> senders'[i]]
  BY <1>1, Zenon
<1>4. senders' \in [DOMAIN senders -> SenderRecords]
  <2>1. \A i \in DOMAIN senders : senders'[i] \in SenderRecords
    BY <1>2, <1>3, Zenon
  <2> QED BY <1>f, <2>1
<1>5. senders' \in Seq(SenderRecords)
  BY <1>4, MapSeq
<1> QED BY <1>3, <1>5, Zenon DEF SendersKept

LEMMA AnswerFacts ==
  ASSUME senders \in Seq(SenderRecords), BrowserAnswers
  PROVE  /\ SendersKept
         /\ \A i \in DOMAIN senders :
              senders'[i] = [senders[i] EXCEPT !.live = senders[i].offered]
<1>1. senders' = [i \in DOMAIN senders |-> [senders[i] EXCEPT !.live = senders[i].offered]]
  BY Zenon DEF BrowserAnswers
<1>2. \A i \in DOMAIN senders :
        [senders[i] EXCEPT !.live = senders[i].offered] \in SenderRecords
  BY Elements, LiveUpdate, Zenon
<1>3. DOMAIN senders' = DOMAIN senders
      /\ \A i \in DOMAIN senders :
           senders'[i] = [senders[i] EXCEPT !.live = senders[i].offered]
  BY <1>1, Zenon
<1>f. senders' = [i \in DOMAIN senders |-> senders'[i]]
  BY <1>1, Zenon
<1>4. senders' \in [DOMAIN senders -> SenderRecords]
  <2>1. \A i \in DOMAIN senders : senders'[i] \in SenderRecords
    BY <1>2, <1>3, Zenon
  <2> QED BY <1>f, <2>1
<1>5. senders' \in Seq(SenderRecords)
  BY <1>4, MapSeq
<1> QED BY <1>3, <1>5, Zenon DEF SendersKept

LEMMA ReplaceFacts ==
  ASSUME senders \in Seq(SenderRecords), NEW t \in Tracks, ReplaceTrack(t)
  PROVE  /\ SendersKept
         /\ \A i \in DOMAIN senders :
              \/ senders'[i] = senders[i]
              \/ senders'[i] = [senders[i] EXCEPT !.track = t]
<1> DEFINE n == FirstOf(KindOf(t))
<1>1. senders' = [senders EXCEPT ![n] = [senders[n] EXCEPT !.track = t]]
  BY DEF ReplaceTrack
<1>2. DOMAIN senders' = DOMAIN senders
      /\ \A i \in DOMAIN senders :
           \/ senders'[i] = senders[i]
           \/ senders'[i] = [senders[i] EXCEPT !.track = t]
  <2> HIDE DEF n
  <2> QED BY <1>1, Zenon
<1>f. senders' = [i \in DOMAIN senders |-> senders'[i]]
  <2> HIDE DEF n
  <2> QED BY <1>1, Zenon
<1>3. \A i \in DOMAIN senders : senders'[i] \in SenderRecords
  <2> SUFFICES ASSUME NEW i \in DOMAIN senders PROVE senders'[i] \in SenderRecords
    OBVIOUS
  <2>1. senders[i] \in SenderRecords
    BY Elements, Zenon
  <2>2. [senders[i] EXCEPT !.track = t] \in SenderRecords
    BY <2>1, TrackUpdate, Zenon
  <2> QED BY <1>2, <2>1, <2>2, Zenon
<1>4. senders' \in [DOMAIN senders -> SenderRecords]
  <2> QED BY <1>f, <1>3
<1>5. senders' \in Seq(SenderRecords)
  BY <1>4, MapSeq
<1> QED BY <1>2, <1>5, Zenon DEF SendersKept

LEMMA WriteFacts ==
  ASSUME senders \in Seq(SenderRecords), NEW t \in Tracks, got[t] \in Nat,
         ForwardWrites(t)
  PROVE  /\ SendersKept
         /\ \A i \in DOMAIN senders :
              senders'[i] =
                IF i \in Bound(t) /\ ~BrowserClosed
                  THEN [senders[i] EXCEPT !.out =
                          Append(senders[i].out, [track |-> t, num |-> got[t]])]
                  ELSE senders[i]
<1> DEFINE p == [track |-> t, num |-> got[t]]
           New(i) == IF i \in Bound(t) /\ ~BrowserClosed
                       THEN [senders[i] EXCEPT !.out = Append(senders[i].out, p)]
                       ELSE senders[i]
<1>1. senders' = [i \in DOMAIN senders |-> New(i)]
  BY Zenon DEF ForwardWrites
<1>2. \A i \in DOMAIN senders : New(i) \in SenderRecords
  <2> SUFFICES ASSUME NEW i \in DOMAIN senders PROVE New(i) \in SenderRecords
    OBVIOUS
  <2>1. senders[i] \in SenderRecords
    BY Elements, Zenon
  <2>2. p \in Played
    BY DEF Played
  <2>3. [senders[i] EXCEPT !.out = Append(senders[i].out, p)] \in SenderRecords
    BY <2>1, <2>2, OutUpdate, Zenon
  <2> QED BY <2>1, <2>3, Zenon
<1>3. /\ DOMAIN senders' = DOMAIN senders
      /\ \A i \in DOMAIN senders : senders'[i] = New(i)
  <2> HIDE DEF New
  <2> QED BY <1>1, Zenon
<1>f. senders' = [i \in DOMAIN senders |-> senders'[i]]
  <2> HIDE DEF New
  <2> QED BY <1>1, Zenon
<1>4. senders' \in [DOMAIN senders -> SenderRecords]
  <2> HIDE DEF New
  <2>1. \A i \in DOMAIN senders : senders'[i] \in SenderRecords
    BY <1>2, <1>3, Zenon
  <2> QED BY <1>f, <2>1
<1>5. senders' \in Seq(SenderRecords)
  BY <1>4, MapSeq
<1> QED BY <1>3, <1>5, Zenon DEF SendersKept

-----------------------------------------------------------------------------
(* What a sender plays.  The invariant follows one sender at a time: if the *)
(* track it carries has been heard on it at all, that track was heard last, *)
(* up to the packet its forwarder is about to write.  A track that has been *)
(* heard was attached, and a track is attached once, because the channel    *)
(* never holds it twice: so a replaced track never comes back.              *)

Blocks(out) ==
  \A j, k, l \in DOMAIN out :
    j < k /\ k < l /\ out[j].track = out[l].track => out[k].track = out[j].track

Gapless(out) ==
  \A j \in 1..(Len(out) - 1) :
    out[j + 1].track = out[j].track => out[j + 1].num = out[j].num + 1

\* Packet p may follow out.
MayFollow(out, p) ==
  \A j \in DOMAIN out :
    out[j].track = p.track =>
      /\ out[Len(out)].track = p.track
      /\ p.num = out[Len(out)].num + 1

LEMMA AppendPlayed ==
  ASSUME NEW out \in Seq(Played), NEW p \in Played,
         Blocks(out), Gapless(out), MayFollow(out, p)
  PROVE  Blocks(Append(out, p)) /\ Gapless(Append(out, p))
<1> DEFINE longer == Append(out, p)
           n == Len(out)
<1>1. /\ n \in Nat /\ Len(longer) = n + 1
      /\ \A i \in 1..n : longer[i] = out[i]
      /\ longer[n + 1] = p
      /\ DOMAIN out = 1..n /\ DOMAIN longer = 1..(n + 1)
  BY AppendSeq, Elements
<1> HIDE DEF longer, n
<1>2. Gapless(longer)
  <2> SUFFICES ASSUME NEW j \in 1..n, longer[j + 1].track = longer[j].track
               PROVE  longer[j + 1].num = longer[j].num + 1
    BY <1>1 DEF Gapless
  <2>1. CASE j = n
    <3>1. out[n].track = p.track /\ n \in DOMAIN out
      BY <1>1, <2>1
    <3>2. p.num = out[n].num + 1
      BY <3>1 DEF MayFollow, n
    <3> QED BY <1>1, <2>1, <3>2
  <2>2. CASE j # n
    <3>1. j \in 1..(n - 1) /\ j \in 1..n /\ j + 1 \in 1..n
      BY <1>1, <2>2
    <3>2. out[j + 1].track = out[j].track => out[j + 1].num = out[j].num + 1
      BY <3>1 DEF Gapless, n
    <3> QED BY <1>1, <3>1, <3>2
  <2> QED BY <2>1, <2>2
<1>3. Blocks(longer)
  <2> SUFFICES ASSUME NEW j \in 1..(n + 1), NEW k \in 1..(n + 1), NEW l \in 1..(n + 1),
                      j < k, k < l, longer[j].track = longer[l].track
               PROVE  longer[k].track = longer[j].track
    BY <1>1 DEF Blocks
  <2>1. j \in 1..n /\ k \in 1..n
    BY <1>1
  <2>2. CASE l \in 1..n
    BY <1>1, <2>1, <2>2 DEF Blocks
  <2>3. CASE l = n + 1
    <3>1. out[j].track = p.track
      BY <1>1, <2>1, <2>3
    <3>2. out[n].track = p.track
      BY <1>1, <2>1, <3>1 DEF MayFollow, n
    <3>3. CASE k = n
      BY <1>1, <2>1, <3>1, <3>2, <3>3
    <3>4. CASE k # n
      <4>1. k < n /\ n \in 1..n
        BY <1>1, <2>1, <3>4
      <4>2. out[k].track = out[j].track
        BY <1>1, <2>1, <3>1, <3>2, <4>1 DEF Blocks
      <4> QED BY <1>1, <2>1, <4>2
    <3> QED BY <3>3, <3>4
  <2> QED BY <1>1, <2>2, <2>3
<1> QED BY <1>2, <1>3 DEF longer

\* The next packet of t its sender expects: one past the last the forwarder
\* has read, or that one while it is about to be written.
Next1(t) == IF fwd[t] = "write" THEN got[t] ELSE got[t] + 1

Heard(out, t) == \E j \in DOMAIN out : out[j].track = t

SenderOK(s) ==
  /\ s.out # <<>> => s.live
  /\ s.live => s.offered
  /\ \A j \in DOMAIN s.out : at[s.out[j].track] = "attached"
  /\ Blocks(s.out) /\ Gapless(s.out)
  /\ Heard(s.out, s.track) =>
       /\ s.out[Len(s.out)].track = s.track
       /\ ~BrowserClosed /\ fwd[s.track] # "done"
            => s.out[Len(s.out)].num + 1 = Next1(s.track)

ChannelInv ==
  /\ \A i \in DOMAIN queue : at[queue[i]] = "queued" /\ queue[i] # ranging
  /\ \A i, j \in DOMAIN queue : queue[i] = queue[j] => i = j
  /\ ranging \in Tracks => at[ranging] = "queued"
  /\ \A t \in Tracks : fwd[t] # "none" => at[t] = "attached"

MediaTypes ==
  /\ senders \in Seq(SenderRecords)
  /\ at \in [Tracks -> {"none", "calling", "queued", "dropped", "attached", "refused"}]
  /\ queue \in Seq(Tracks)
  /\ ranging \in Tracks \cup {NoTrack, Finished}
  /\ fwd \in [Tracks -> {"none", "check", "read", "write", "done"}]
  /\ got \in [Tracks -> Nat]
  /\ stage \in Stages

PlayInv ==
  /\ MediaTypes
  /\ ChannelInv
  /\ \A i \in DOMAIN senders : SenderOK(senders[i])

LEMMA KindsOf == \A t \in Tracks : KindOf(t) \in {"video", "audio"}
BY DEF KindOf

LEMMA AttachFacts ==
  ASSUME MediaTypes, NEW t \in Tracks, Attach(t)
  PROVE  /\ senders' \in Seq(SenderRecords)
         /\ \/ at' = [at EXCEPT ![t] = "attached"] /\ fwd' = [fwd EXCEPT ![t] = "check"]
            \/ at' = [at EXCEPT ![t] = "refused"] /\ fwd' = fwd
         /\ ranging = t /\ ranging' = NoTrack
         /\ queue' = queue /\ got' = got /\ stage' = stage
<1>1. ranging = t /\ ranging' = NoTrack /\ queue' = queue /\ got' = got /\ stage' = stage
  BY DEF Attach
<1>2. CASE ReplaceTrack(t)
  BY <1>1, <1>2, ReplaceFacts DEF ReplaceTrack, StartGoroutines, SendersKept, MediaTypes
<1>3. CASE AddTrack(t)
  <2>1. Sender(KindOf(t), t) \in SenderRecords
    BY KindsOf, NewSender DEF SenderTracks
  <2>2. senders' = Append(senders, Sender(KindOf(t), t))
    BY <1>3 DEF AddTrack
  <2>3. senders' \in Seq(SenderRecords)
    BY <2>1, <2>2, AppendSeq, Zenon DEF MediaTypes
  <2> QED BY <1>1, <1>3, <2>3 DEF AddTrack, StartGoroutines
<1>4. CASE AttachFails(t)
  BY <1>1, <1>4 DEF AttachFails, MediaTypes
<1> QED BY <1>2, <1>3, <1>4 DEF Attach

LEMMA MediaTypesStep == MediaTypes /\ [Next]_vars => MediaTypes'
<1> SUFFICES ASSUME MediaTypes, [Next]_vars PROVE MediaTypes'
  OBVIOUS
<1>1. CASE KitOffers \/ Cancel \/ OnClose
  BY <1>1
  DEF KitOffers, Cancel, OnClose, CloseBrowserPeer, CloseTracks, CloseKitPC,
      CloseStep, pumps, MediaTypes, Stages
<1>2. CASE BuildOffer
  <2>1. senders' \in Seq(SenderRecords)
    BY <1>2, BuildFacts, Zenon DEF MediaTypes, SendersKept
  <2>2. UNCHANGED <<at, queue, ranging, fwd, got, stage>>
    BY <1>2, Zenon DEF BuildOffer, pumps
  <2> QED BY <2>1, <2>2 DEF MediaTypes
<1>3. CASE BrowserAnswers
  <2>1. senders' \in Seq(SenderRecords)
    BY <1>3, AnswerFacts, Zenon DEF MediaTypes, SendersKept
  <2>2. UNCHANGED <<at, queue, ranging, fwd, got, stage>>
    BY <1>3, Zenon DEF BrowserAnswers, pumps
  <2> QED BY <2>1, <2>2 DEF MediaTypes
<1>4. CASE RangeTakes \/ RangeEnds
  <2>1. UNCHANGED <<senders, at, fwd, got, stage>>
    BY <1>4 DEF RangeTakes, RangeEnds, pumps
  <2>2. queue' \in Seq(Tracks) /\ ranging' \in Tracks \cup {NoTrack, Finished}
    <3>1. queue \in Seq(Tracks)
      BY DEF MediaTypes
    <3>2. CASE RangeTakes
      <4>1. queue # <<>> /\ ranging' = Head(queue) /\ queue' = Tail(queue)
        BY <3>2 DEF RangeTakes
      <4> QED BY <3>1, <4>1
    <3>3. CASE RangeEnds
      BY <3>1, <3>3 DEF RangeEnds
    <3> QED BY <1>4, <3>2, <3>3
  <2> QED BY <2>1, <2>2 DEF MediaTypes
<1>5. ASSUME NEW t \in Tracks, Attach(t) PROVE MediaTypes'
  BY <1>5, AttachFacts DEF MediaTypes
<1>6. ASSUME NEW t \in Tracks, TrackArrives(t) \/ OnTrack(t) PROVE MediaTypes'
  <2>1. UNCHANGED <<senders, ranging, fwd, got, stage>>
    BY <1>6 DEF TrackArrives, OnTrack, Announce, AnnouncePanics, pumps
  <2>2. \/ at' = at
        \/ \E v \in {"calling", "queued", "dropped"} : at' = [at EXCEPT ![t] = v]
    BY <1>6 DEF TrackArrives, OnTrack, Announce, AnnouncePanics
  <2>3. queue' = queue \/ queue' = Append(queue, t)
    BY <1>6 DEF TrackArrives, OnTrack, Announce, AnnouncePanics
  <2>4. queue' \in Seq(Tracks)
    <3>1. queue \in Seq(Tracks)
      BY DEF MediaTypes
    <3> QED BY <2>3, <3>1, AppendSeq
  <2>5. at' \in [Tracks -> {"none", "calling", "queued", "dropped", "attached", "refused"}]
    BY <2>2 DEF MediaTypes
  <2> QED BY <2>1, <2>4, <2>5 DEF MediaTypes
<1>7. ASSUME NEW t \in Tracks, DrainRTCP(t) PROVE MediaTypes'
  BY <1>7 DEF DrainRTCP, DrainStops, DrainFails, pumps, MediaTypes
<1>8. ASSUME NEW t \in Tracks,
             ForwardReads(t) \/ ForwardChecks(t) \/ ReadRTPFails(t) \/ WriteRTPFails(t)
      PROVE  MediaTypes'
  <2>1. UNCHANGED <<senders, at, queue, ranging, stage>>
    BY <1>8 DEF ForwardReads, ForwardChecks, ReadRTPFails, WriteRTPFails
  <2>2. \E v \in {"write", "read", "done"} : fwd' = [fwd EXCEPT ![t] = v]
    BY <1>8 DEF ForwardReads, ForwardChecks, ReadRTPFails, WriteRTPFails
  <2>3. got' = got \/ got' = [got EXCEPT ![t] = got[t] + 1]
    BY <1>8 DEF ForwardReads, ForwardChecks, ReadRTPFails, WriteRTPFails
  <2>4. fwd' \in [Tracks -> {"none", "check", "read", "write", "done"}]
    BY <2>2 DEF MediaTypes
  <2>5. got' \in [Tracks -> Nat]
    BY <2>3 DEF MediaTypes
  <2> QED BY <2>1, <2>4, <2>5 DEF MediaTypes
<1>9. ASSUME NEW t \in Tracks, ForwardWrites(t) PROVE MediaTypes'
  <2>1. senders' \in Seq(SenderRecords)
    BY <1>9, WriteFacts, Zenon DEF MediaTypes, SendersKept
  <2>2. UNCHANGED <<at, queue, ranging, got, stage>>
        /\ fwd' = [fwd EXCEPT ![t] = "check"]
    BY <1>9, Zenon DEF ForwardWrites
  <2> QED BY <2>1, <2>2 DEF MediaTypes
<1>10. CASE UNCHANGED vars
  BY <1>10 DEF vars, MediaTypes
<1> QED
  BY <1>1, <1>2, <1>3, <1>4, <1>5, <1>6, <1>7, <1>8, <1>9, <1>10
  DEF Next, Range, Forward

LEMMA ChannelStep ==
  ASSUME MediaTypes, ChannelInv, [Next]_vars
  PROVE  ChannelInv'
<1> USE MediaAssumption
<1>0. Len(queue) \in Nat /\ DOMAIN queue = 1..Len(queue)
      /\ \A i \in DOMAIN queue : queue[i] \in Tracks
  BY DEF MediaTypes
<1>1. ASSUME UNCHANGED <<at, queue, ranging>>,
             \A t \in Tracks : fwd'[t] # "none" => fwd[t] # "none"
      PROVE  ChannelInv'
  BY <1>1 DEF ChannelInv
<1>2. CASE KitOffers \/ Cancel \/ OnClose
  BY <1>1, <1>2
  DEF KitOffers, Cancel, OnClose, CloseBrowserPeer, CloseTracks, CloseKitPC,
      CloseStep, pumps
<1>3. CASE BuildOffer
  BY <1>1, <1>3, Zenon DEF BuildOffer, pumps
<1>4. CASE BrowserAnswers
  BY <1>1, <1>4, Zenon DEF BrowserAnswers, pumps
<1>5. CASE RangeTakes
  <2>1. /\ ranging' = queue[1] /\ queue # <<>> /\ Len(queue) >= 1
        /\ Len(queue') = Len(queue) - 1
        /\ \A i \in 1..(Len(queue) - 1) : queue'[i] = queue[i + 1]
        /\ DOMAIN queue' = 1..(Len(queue) - 1)
        /\ UNCHANGED <<at, fwd>>
    BY <1>0, <1>5 DEF RangeTakes, MediaTypes, pumps
  <2>2. \A i \in DOMAIN queue' : i + 1 \in DOMAIN queue /\ queue'[i] = queue[i + 1]
    BY <1>0, <2>1
  <2>3. 1 \in DOMAIN queue
    BY <1>0, <2>1
  <2>4. \A i \in DOMAIN queue' : at'[queue'[i]] = "queued" /\ queue'[i] # ranging'
    <3> SUFFICES ASSUME NEW i \in DOMAIN queue'
                 PROVE  at'[queue'[i]] = "queued" /\ queue'[i] # ranging'
      OBVIOUS
    <3>1. i \in Nat /\ i >= 1 /\ i + 1 # 1
      BY <1>0, <2>1
    <3> QED BY <2>1, <2>2, <2>3, <3>1 DEF ChannelInv
  <2>5. \A i, j \in DOMAIN queue' : queue'[i] = queue'[j] => i = j
    <3> SUFFICES ASSUME NEW i \in DOMAIN queue', NEW j \in DOMAIN queue',
                        queue'[i] = queue'[j]
                 PROVE  i = j
      OBVIOUS
    <3>1. i + 1 = j + 1
      BY <2>2 DEF ChannelInv
    <3> QED BY <1>0, <2>1, <3>1
  <2>6. at'[ranging'] = "queued"
    BY <2>1, <2>3 DEF ChannelInv
  <2>7. \A t \in Tracks : fwd'[t] # "none" => at'[t] = "attached"
    BY <2>1 DEF ChannelInv
  <2> QED BY <2>4, <2>5, <2>6, <2>7 DEF ChannelInv
<1>6. CASE RangeEnds
  BY <1>0, <1>6 DEF RangeEnds, pumps, ChannelInv
<1>7. ASSUME NEW t \in Tracks, Attach(t) PROVE ChannelInv'
  <2>1. \A u \in Tracks : u # t => at'[u] = at[u] /\ fwd'[u] = fwd[u]
    BY <1>7, AttachFacts DEF MediaTypes
  <2>2. ranging = t /\ ranging' = NoTrack /\ queue' = queue
    BY <1>7, AttachFacts
  <2>3. \A i \in DOMAIN queue : queue[i] # t
    BY <2>2 DEF ChannelInv
  <2>4. fwd'[t] # "none" => at'[t] = "attached"
    <3>1. fwd[t] = "none"
      BY <2>2 DEF ChannelInv
    <3> QED BY <1>7, <3>1, AttachFacts DEF MediaTypes
  <2>5. \A i \in DOMAIN queue' : at'[queue'[i]] = "queued" /\ queue'[i] # ranging'
    BY <1>0, <2>1, <2>2, <2>3 DEF ChannelInv
  <2>6. \A u \in Tracks : fwd'[u] # "none" => at'[u] = "attached"
    BY <2>1, <2>4 DEF ChannelInv
  <2> QED BY <2>2, <2>5, <2>6 DEF ChannelInv
<1>8. ASSUME NEW t \in Tracks, TrackArrives(t) PROVE ChannelInv'
  BY <1>0, <1>8 DEF TrackArrives, pumps, ChannelInv, MediaTypes
<1>9. ASSUME NEW t \in Tracks, Announce(t) PROVE ChannelInv'
  <2>1. at[t] = "calling" /\ fwd' = fwd /\ ranging' = ranging
    BY <1>9 DEF Announce, pumps
  <2>2. CASE at' = [at EXCEPT ![t] = "dropped"] /\ queue' = queue
    BY <1>0, <2>1, <2>2 DEF ChannelInv, MediaTypes
  <2>3. CASE at' = [at EXCEPT ![t] = "queued"] /\ queue' = Append(queue, t)
    <3>1. /\ DOMAIN queue' = 1..(Len(queue) + 1)
          /\ \A i \in 1..Len(queue) : queue'[i] = queue[i]
          /\ queue'[Len(queue) + 1] = t
      BY <2>3 DEF MediaTypes
    <3>2. \A i \in DOMAIN queue : queue[i] # t
      BY <2>1 DEF ChannelInv
    <3>3. \A i \in DOMAIN queue' : at'[queue'[i]] = "queued" /\ queue'[i] # ranging'
      BY <1>0, <2>1, <2>3, <3>1 DEF ChannelInv, MediaTypes
    <3>4. \A i, j \in DOMAIN queue' : queue'[i] = queue'[j] => i = j
      BY <1>0, <3>1, <3>2 DEF ChannelInv
    <3>5. ranging' \in Tracks => at'[ranging'] = "queued"
      BY <2>1, <2>3 DEF ChannelInv, MediaTypes
    <3>6. \A u \in Tracks : fwd'[u] # "none" => at'[u] = "attached"
      BY <2>1, <2>3 DEF ChannelInv, MediaTypes
    <3> QED BY <3>3, <3>4, <3>5, <3>6 DEF ChannelInv
  <2> QED BY <1>9, <2>2, <2>3 DEF Announce
<1>10. ASSUME NEW t \in Tracks, AnnouncePanics(t) \/ DrainRTCP(t) PROVE ChannelInv'
  BY <1>1, <1>10 DEF AnnouncePanics, DrainRTCP, DrainStops, DrainFails, pumps
<1>11. ASSUME NEW t \in Tracks, ForwardReads(t) \/ Forward(t) PROVE ChannelInv'
  <2>1. UNCHANGED <<at, queue, ranging>>
    BY <1>11 DEF ForwardReads, Forward, ForwardChecks, ForwardWrites, ReadRTPFails,
                 WriteRTPFails
  <2>2. fwd[t] # "none" /\ \E v : fwd' = [fwd EXCEPT ![t] = v]
    BY <1>11 DEF ForwardReads, Forward, ForwardChecks, ForwardWrites, ReadRTPFails,
                 WriteRTPFails
  <2>3. \A u \in Tracks : fwd'[u] # "none" => fwd[u] # "none"
    BY <2>2 DEF MediaTypes
  <2> QED BY <1>1, <2>1, <2>3
<1>12. CASE UNCHANGED vars
  BY <1>1, <1>12 DEF vars
<1> QED
  BY <1>2, <1>3, <1>4, <1>5, <1>6, <1>7, <1>8, <1>9, <1>10, <1>11, <1>12
  DEF Next, Range, OnTrack

\* A step that lets no packet through, as a sender sees it: the tracks that
\* were attached still are, and their forwarders expect the packet they did.
Quiet ==
  /\ \A t \in Tracks : at[t] = "attached" =>
       /\ at'[t] = "attached"
       /\ fwd'[t] # "done" => fwd[t] # "done" /\ Next1(t)' = Next1(t)
  /\ BrowserClosed => BrowserClosed'

LEMMA SenderKeeps ==
  ASSUME NEW s \in SenderRecords, SenderOK(s), Quiet
  PROVE  SenderOK(s)'
<1>1. s.out \in Seq(Played) /\ s.track \in SenderTracks
  BY SenderFields
<1>2. \A j \in DOMAIN s.out : s.out[j].track \in Tracks
  <2>1. \A j \in DOMAIN s.out : s.out[j] \in Played
    BY <1>1, Elements, Zenon
  <2> QED BY <2>1 DEF Played
<1>3. \A j \in DOMAIN s.out : at'[s.out[j].track] = "attached"
  BY <1>2 DEF SenderOK, Quiet
<1>4. ASSUME Heard(s.out, s.track), ~BrowserClosed', fwd'[s.track] # "done"
      PROVE  s.out[Len(s.out)].num + 1 = Next1(s.track)'
  <2>1. s.track \in Tracks /\ at[s.track] = "attached"
    BY <1>2, <1>4 DEF Heard, SenderOK
  <2>2. ~BrowserClosed /\ fwd[s.track] # "done" /\ Next1(s.track)' = Next1(s.track)
    BY <1>4, <2>1 DEF Quiet
  <2> QED BY <1>4, <2>2 DEF SenderOK
<1> QED BY <1>3, <1>4 DEF SenderOK

\* The changes of a sender that leave what it plays alone.
LEMMA OfferedKeeps ==
  ASSUME NEW s \in SenderRecords, SenderOK(s)
  PROVE  SenderOK([s EXCEPT !.offered = TRUE])
<1> DEFINE r == [s EXCEPT !.offered = TRUE]
<1>1. r.out = s.out /\ r.live = s.live /\ r.track = s.track /\ r.offered = TRUE
  BY DEF SenderRecords
<1> HIDE DEF r
<1>2. SenderOK(r)
  BY <1>1 DEF SenderOK
<1> QED BY <1>2 DEF r

LEMMA LiveKeeps ==
  ASSUME NEW s \in SenderRecords, SenderOK(s)
  PROVE  SenderOK([s EXCEPT !.live = s.offered])
<1> DEFINE r == [s EXCEPT !.live = s.offered]
<1>1. r.out = s.out /\ r.live = s.offered /\ r.track = s.track /\ r.offered = s.offered
  BY DEF SenderRecords
<1> HIDE DEF r
<1>2. SenderOK(r)
  BY <1>1 DEF SenderOK
<1> QED BY <1>2 DEF r

\* A track is attached once: nothing of it has been played before.
LEMMA TrackKeeps ==
  ASSUME NEW s \in SenderRecords, SenderOK(s), NEW t \in Tracks, at[t] # "attached"
  PROVE  SenderOK([s EXCEPT !.track = t])
<1> DEFINE r == [s EXCEPT !.track = t]
<1>1. r.out = s.out /\ r.live = s.live /\ r.track = t /\ r.offered = s.offered
  BY DEF SenderRecords
<1>2. ~Heard(s.out, t)
  BY DEF SenderOK, Heard
<1> HIDE DEF r
<1>3. SenderOK(r)
  BY <1>1, <1>2 DEF SenderOK
<1> QED BY <1>3 DEF r

LEMMA NewSenderOK ==
  ASSUME NEW k \in {"video", "audio"}, NEW t \in SenderTracks
  PROVE  SenderOK(Sender(k, t))
<1> DEFINE s == Sender(k, t)
<1>1. s.out = <<>> /\ s.live = FALSE
  BY DEF Sender
<1> HIDE DEF s
<1>2. DOMAIN s.out = {} /\ Len(s.out) = 0
  BY <1>1
<1>3. Blocks(s.out) /\ Gapless(s.out) /\ ~Heard(s.out, s.track)
  BY <1>2 DEF Blocks, Gapless, Heard
<1>4. SenderOK(s)
  BY <1>1, <1>2, <1>3 DEF SenderOK
<1> QED BY <1>4 DEF s

\* All actions but a forwarder's write are quiet.
LEMMA QuietSteps ==
  ASSUME MediaTypes, ChannelInv, [Next]_vars, \A t \in Tracks : ~ForwardWrites(t)
  PROVE  Quiet
<1>1. BrowserClosed => BrowserClosed'
  BY DEF BrowserClosed, Next, vars, KitOffers, BuildOffer, BrowserAnswers, Cancel, OnClose,
       CloseStep, CloseBrowserPeer, CloseTracks, CloseKitPC, Range, RangeTakes,
       RangeEnds, Attach, TrackArrives, ForwardReads, OnTrack, Announce,
       AnnouncePanics, Forward, ForwardChecks, ReadRTPFails,
       WriteRTPFails, DrainRTCP, DrainStops, DrainFails
<1>2. ASSUME UNCHANGED <<at, fwd, got>> PROVE Quiet
  BY <1>1, <1>2 DEF Quiet, Next1
<1>3. CASE KitOffers \/ Cancel \/ OnClose
  BY <1>2, <1>3
  DEF KitOffers, Cancel, OnClose, CloseBrowserPeer, CloseTracks, CloseKitPC,
      CloseStep, pumps
<1>4. CASE BuildOffer \/ BrowserAnswers
  BY <1>2, <1>4, Zenon DEF BuildOffer, BrowserAnswers, pumps
<1>5. CASE RangeTakes \/ RangeEnds
  BY <1>2, <1>5 DEF RangeTakes, RangeEnds, pumps
<1>6. ASSUME NEW t \in Tracks, Attach(t) PROVE Quiet
  <2>1. at[t] # "attached"
    BY <1>6, AttachFacts DEF ChannelInv
  <2>2. \A u \in Tracks : u # t => at'[u] = at[u] /\ fwd'[u] = fwd[u] /\ got'[u] = got[u]
    BY <1>6, AttachFacts DEF MediaTypes
  <2> QED BY <1>1, <2>1, <2>2 DEF Quiet, Next1
<1>7. ASSUME NEW t \in Tracks, TrackArrives(t) \/ OnTrack(t) PROVE Quiet
  <2>1. UNCHANGED <<fwd, got>>
    BY <1>7 DEF TrackArrives, OnTrack, Announce, AnnouncePanics, pumps
  <2>2. at[t] # "attached" /\ (at' = at \/ \E v : at' = [at EXCEPT ![t] = v])
    BY <1>7 DEF TrackArrives, OnTrack, Announce, AnnouncePanics
  <2>3. \A u \in Tracks : at[u] = "attached" => at'[u] = "attached"
    BY <2>2 DEF MediaTypes
  <2> QED BY <1>1, <2>1, <2>3 DEF Quiet, Next1
<1>8. ASSUME NEW t \in Tracks, DrainRTCP(t) PROVE Quiet
  BY <1>2, <1>8 DEF DrainRTCP, DrainStops, DrainFails, pumps
<1>9. ASSUME NEW t \in Tracks, ForwardChecks(t) \/ ReadRTPFails(t) \/ WriteRTPFails(t)
      PROVE  Quiet
  <2>1. UNCHANGED <<at, got>>
    BY <1>9 DEF ForwardChecks, ReadRTPFails, WriteRTPFails
  <2>2. fwd' = [fwd EXCEPT ![t] = "done"] \/ (fwd[t] = "check" /\ fwd' = [fwd EXCEPT ![t] = "read"])
    BY <1>9 DEF ForwardChecks, ReadRTPFails, WriteRTPFails
  <2>3. \A u \in Tracks :
          fwd'[u] # "done" => fwd[u] # "done" /\ (fwd'[u] = "write" <=> fwd[u] = "write")
    BY <2>2 DEF MediaTypes
  <2> QED BY <1>1, <2>1, <2>3 DEF Quiet, Next1
<1>10. ASSUME NEW t \in Tracks, ForwardReads(t) PROVE Quiet
  <2>1. /\ at' = at /\ fwd[t] = "read" /\ fwd' = [fwd EXCEPT ![t] = "write"]
        /\ got' = [got EXCEPT ![t] = got[t] + 1]
    BY <1>10 DEF ForwardReads
  <2>2. \A u \in Tracks : u # t => fwd'[u] = fwd[u] /\ got'[u] = got[u]
    BY <2>1 DEF MediaTypes
  <2>3. fwd'[t] = "write" /\ got'[t] = got[t] + 1
    BY <2>1 DEF MediaTypes
  <2> QED BY <1>1, <2>1, <2>2, <2>3 DEF Quiet, Next1
<1>11. CASE UNCHANGED vars
  BY <1>2, <1>11 DEF vars
<1> QED
  BY <1>3, <1>4, <1>5, <1>6, <1>7, <1>8, <1>9, <1>10, <1>11 DEF Next, Range, Forward

\* A sender that plays t takes the packet its forwarder holds.
LEMMA WriteKeeps ==
  ASSUME MediaTypes, NEW t \in Tracks, ForwardWrites(t), ~BrowserClosed,
         NEW s \in SenderRecords, SenderOK(s), s.track = t, s.live,
         fwd[t] # "none" => at[t] = "attached",
         NEW p, p = [track |-> t, num |-> got[t]],
         NEW r, r = [s EXCEPT !.out = Append(s.out, p)]
  PROVE  SenderOK(r)'
<1> DEFINE longer == Append(s.out, p)
<1>1. /\ fwd[t] = "write" /\ fwd' = [fwd EXCEPT ![t] = "check"]
      /\ UNCHANGED <<at, got, stage>>
  BY Zenon DEF ForwardWrites
<1>2. fwd'[t] = "check" /\ Next1(t) = got[t] /\ Next1(t)' = got[t] + 1
      /\ got[t] \in Nat /\ at[t] = "attached"
  BY <1>1 DEF Next1, MediaTypes
<1>3. s.out \in Seq(Played) /\ p \in Played
  BY <1>2, SenderFields DEF Played
<1>4. p.track = t /\ p.num = got[t]
  OBVIOUS
<1>5. MayFollow(s.out, p)
  <2> SUFFICES ASSUME NEW j \in DOMAIN s.out, s.out[j].track = t
               PROVE  s.out[Len(s.out)].track = t /\ got[t] = s.out[Len(s.out)].num + 1
    BY <1>4 DEF MayFollow
  <2>1. Heard(s.out, s.track)
    BY DEF Heard
  <2> QED BY <1>1, <1>2, <2>1 DEF SenderOK
<1>6. Blocks(longer) /\ Gapless(longer)
  BY <1>3, <1>5, AppendPlayed DEF SenderOK
<1>7. /\ Len(s.out) \in Nat /\ DOMAIN s.out = 1..Len(s.out)
      /\ Len(longer) = Len(s.out) + 1 /\ DOMAIN longer = 1..(Len(s.out) + 1)
      /\ \A j \in 1..Len(s.out) : longer[j] = s.out[j]
      /\ longer[Len(longer)] = p
  BY <1>3, AppendSeq, Elements
<1>8. r.out = longer /\ r.live = s.live /\ r.track = t /\ r.offered = s.offered
  <2>1. r = [s EXCEPT !.out = longer]
    OBVIOUS
  <2> HIDE DEF longer
  <2> QED BY <2>1 DEF SenderRecords
<1> HIDE DEF longer
<1>9. \A j \in DOMAIN longer : at[longer[j].track] = "attached"
  BY <1>2, <1>4, <1>7 DEF SenderOK
<1>10. SenderOK(r)'
  <2>1. \A j \in DOMAIN r.out : at'[r.out[j].track] = "attached"
    BY <1>1, <1>8, <1>9
  <2>2. r.out[Len(r.out)].track = t /\ r.out[Len(r.out)].num + 1 = Next1(t)'
    BY <1>2, <1>4, <1>7, <1>8
  <2> QED BY <1>6, <1>8, <2>1, <2>2 DEF SenderOK
<1> QED BY <1>10

\* A write that no sender takes is quiet for a sender of another track, one
\* that was not negotiated, and any sender of a closed peer.
LEMMA WriteMisses ==
  ASSUME MediaTypes, NEW t \in Tracks, ForwardWrites(t),
         NEW s \in SenderRecords, SenderOK(s),
         s.track # t \/ ~s.live \/ BrowserClosed
  PROVE  SenderOK(s)'
<1>1. /\ fwd[t] = "write" /\ fwd' = [fwd EXCEPT ![t] = "check"]
      /\ UNCHANGED <<at, got, stage>>
  BY Zenon DEF ForwardWrites
<1>2. s.out \in Seq(Played) /\ s.track \in SenderTracks
  BY SenderFields
<1>3. \A j \in DOMAIN s.out : s.out[j] \in Played
  BY <1>2, Elements, Zenon
<1>4. ASSUME Heard(s.out, s.track), ~BrowserClosed', fwd'[s.track] # "done"
      PROVE  s.out[Len(s.out)].num + 1 = Next1(s.track)'
  <2>1. s.track \in Tracks
    BY <1>3, <1>4 DEF Heard, Played
  <2>2. s.out # <<>>
    BY <1>4 DEF Heard
  <2>3. ~BrowserClosed
    BY <1>1, <1>4 DEF BrowserClosed
  <2>4. s.track # t
    BY <2>2, <2>3 DEF SenderOK
  <2>5. fwd'[s.track] = fwd[s.track] /\ got'[s.track] = got[s.track]
    BY <1>1, <2>1, <2>4 DEF MediaTypes
  <2> QED BY <1>4, <2>3, <2>5 DEF SenderOK, Next1
<1> QED BY <1>1, <1>4 DEF SenderOK

\* Priming an invariant of a sender primes the sender as well.
LEMMA PrimedSender ==
  ASSUME NEW i, NEW r, senders'[i] = r, SenderOK(r)'
  PROVE  SenderOK(senders[i])'
BY DEF SenderOK, Heard, Next1, BrowserClosed

\* What a sender has become after a quiet step.
LEMMA QuietSenders ==
  ASSUME PlayInv, [Next]_vars, \A t \in Tracks : ~ForwardWrites(t),
         NEW i \in DOMAIN senders'
  PROVE  senders'[i] \in SenderRecords /\ SenderOK(senders'[i])
<1>1. MediaTypes /\ ChannelInv /\ senders \in Seq(SenderRecords)
  BY DEF PlayInv, MediaTypes
<1>2. \A j \in DOMAIN senders : senders[j] \in SenderRecords /\ SenderOK(senders[j])
  BY <1>1, Elements, Zenon DEF PlayInv
<1>3. senders' \in Seq(SenderRecords)
  <2>1. MediaTypes'
    BY <1>1, MediaTypesStep, Zenon
  <2> QED BY <2>1, Zenon DEF MediaTypes
<1>4. senders'[i] \in SenderRecords
  BY <1>3, Elements, Zenon
<1>5. CASE BuildOffer
  <2>1. i \in DOMAIN senders /\ senders'[i] = [senders[i] EXCEPT !.offered = TRUE]
    BY <1>1, <1>5, BuildFacts, Zenon DEF SendersKept
  <2>2. SenderOK([senders[i] EXCEPT !.offered = TRUE])
    BY <1>2, <2>1, OfferedKeeps, Zenon
  <2> QED BY <1>4, <2>1, <2>2, Zenon
<1>6. CASE BrowserAnswers
  <2>1. i \in DOMAIN senders /\ senders'[i] = [senders[i] EXCEPT !.live = senders[i].offered]
    BY <1>1, <1>6, AnswerFacts, Zenon DEF SendersKept
  <2>2. SenderOK([senders[i] EXCEPT !.live = senders[i].offered])
    BY <1>2, <2>1, LiveKeeps, Zenon
  <2> QED BY <1>4, <2>1, <2>2, Zenon
<1>7. ASSUME NEW t \in Tracks, Attach(t) PROVE SenderOK(senders'[i])
  <2>1. at[t] # "attached"
    BY <1>1, <1>7, AttachFacts DEF ChannelInv
  <2>2. CASE ReplaceTrack(t)
    <3>1. /\ i \in DOMAIN senders
          /\ \/ senders'[i] = senders[i]
             \/ senders'[i] = [senders[i] EXCEPT !.track = t]
      BY <1>1, <2>2, ReplaceFacts, Zenon DEF SendersKept
    <3>2. SenderOK([senders[i] EXCEPT !.track = t])
      BY <1>2, <2>1, <3>1, TrackKeeps, Zenon
    <3> QED BY <1>2, <3>1, <3>2, Zenon
  <2>3. CASE AddTrack(t)
    <3> DEFINE new == Sender(KindOf(t), t)
    <3>1. new \in SenderRecords /\ SenderOK(new)
      BY KindsOf, NewSender, NewSenderOK DEF SenderTracks
    <3>2. senders' = Append(senders, new)
      BY <2>3 DEF AddTrack
    <3> HIDE DEF new
    <3>3. (i \in DOMAIN senders /\ senders'[i] = senders[i]) \/ senders'[i] = new
      <4>1. /\ DOMAIN senders' = 1..(Len(senders) + 1) /\ DOMAIN senders = 1..Len(senders)
            /\ Len(senders) \in Nat
            /\ \A j \in 1..Len(senders) : senders'[j] = senders[j]
            /\ senders'[Len(senders) + 1] = new
        BY <1>1, <3>1, <3>2
      <4>2. CASE i = Len(senders) + 1
        BY <4>1, <4>2
      <4>3. CASE i # Len(senders) + 1
        <5>1. i \in 1..Len(senders)
          BY <4>1, <4>3
        <5> QED BY <4>1, <5>1
      <4> QED BY <4>2, <4>3
    <3> QED BY <1>2, <3>1, <3>3, Zenon
  <2>4. CASE AttachFails(t)
    BY <1>2, <2>4, Zenon DEF AttachFails
  <2> QED BY <1>7, <2>2, <2>3, <2>4, Zenon DEF Attach
<1>8. ASSUME senders' = senders PROVE SenderOK(senders'[i])
  BY <1>2, <1>8, Zenon
<1>9. \/ senders' = senders
      \/ BuildOffer \/ BrowserAnswers
      \/ \E t \in Tracks : Attach(t)
  BY DEF Next, vars, KitOffers, Cancel, OnClose, CloseStep, CloseBrowserPeer,
         CloseTracks, CloseKitPC, Range, RangeTakes, RangeEnds, TrackArrives,
         ForwardReads, OnTrack, Announce, AnnouncePanics, Forward, ForwardChecks,
         ReadRTPFails, WriteRTPFails, DrainRTCP, DrainStops, DrainFails
<1> QED BY <1>4, <1>5, <1>6, <1>7, <1>8, <1>9, Zenon

LEMMA SendersStep ==
  ASSUME PlayInv, [Next]_vars
  PROVE  (\A i \in DOMAIN senders : SenderOK(senders[i]))'
<1>1. MediaTypes /\ ChannelInv /\ senders \in Seq(SenderRecords)
  BY DEF PlayInv, MediaTypes
<1>2. \A i \in DOMAIN senders : senders[i] \in SenderRecords /\ SenderOK(senders[i])
  BY <1>1, Elements, Zenon DEF PlayInv
<1> SUFFICES ASSUME NEW i \in DOMAIN senders' PROVE SenderOK(senders[i])'
  BY Zenon
<1> SUFFICES ASSUME NEW r, senders'[i] = r PROVE SenderOK(r)'
  BY PrimedSender
<1>3. CASE \A t \in Tracks : ~ForwardWrites(t)
  <2>1. r \in SenderRecords /\ SenderOK(r)
    BY <1>3, QuietSenders, Zenon
  <2>2. Quiet
    BY <1>1, <1>3, QuietSteps, Zenon
  <2> QED BY <2>1, <2>2, SenderKeeps, Zenon
<1>4. ASSUME NEW t \in Tracks, ForwardWrites(t) PROVE SenderOK(r)'
  <2>1. got[t] \in Nat /\ (fwd[t] # "none" => at[t] = "attached")
    BY <1>1 DEF MediaTypes, ChannelInv
  <2> DEFINE P == [track |-> t, num |-> got[t]]
  <2>2. i \in DOMAIN senders
        /\ r = IF i \in Bound(t) /\ ~BrowserClosed
                 THEN [senders[i] EXCEPT !.out = Append(senders[i].out, P)]
                 ELSE senders[i]
    BY <1>1, <1>4, <2>1, WriteFacts, Zenon DEF SendersKept
  <2> SUFFICES ASSUME NEW s, s = senders[i], NEW p, p = P PROVE SenderOK(r)'
    OBVIOUS
  <2>3. s \in SenderRecords /\ SenderOK(s)
    BY <1>2, <2>2, Zenon
  <2>4. CASE i \in Bound(t) /\ ~BrowserClosed
    <3>1. s.track = t /\ s.live
      BY <2>4, Zenon DEF Bound
    <3>2. r = [s EXCEPT !.out = Append(s.out, p)]
      BY <2>2, <2>4, Zenon
    <3>3. p = [track |-> t, num |-> got[t]] /\ ~BrowserClosed
      BY <2>4
    <3> HIDE DEF P
    <3> QED BY <1>1, <1>4, <2>1, <2>3, <3>1, <3>2, <3>3, WriteKeeps
  <2>5. CASE ~(i \in Bound(t) /\ ~BrowserClosed)
    <3>1. s.track # t \/ ~s.live \/ BrowserClosed
      BY <2>2, <2>5, Zenon DEF Bound
    <3>2. r = s
      BY <2>2, <2>5, Zenon
    <3> QED BY <1>1, <1>4, <2>3, <3>1, <3>2, WriteMisses, Zenon
  <2> QED BY <2>4, <2>5, Zenon
<1> QED BY <1>3, <1>4, Zenon

LEMMA PlayInvStep == PlayInv /\ [Next]_vars => PlayInv'
BY MediaTypesStep, ChannelStep, SendersStep, Zenon DEF PlayInv

LEMMA InitPlays == Init => PlayInv
<1> SUFFICES ASSUME Init PROVE PlayInv
  OBVIOUS
<1> DEFINE s0 == Sender("video", Placeholder)
<1>1. s0 \in SenderRecords /\ SenderOK(s0)
  BY NewSender, NewSenderOK DEF SenderTracks
<1>2. senders = <<s0>>
  BY DEF Init
<1> HIDE DEF s0
<1>3. senders \in Seq(SenderRecords) /\ DOMAIN senders = {1} /\ senders[1] = s0
  BY <1>1, <1>2
<1>4. \A i \in DOMAIN senders : SenderOK(senders[i])
  BY <1>1, <1>3, Zenon
<1>5. MediaTypes
  BY <1>3 DEF Init, MediaTypes, Stages
<1>6. ChannelInv
  BY MediaAssumption DEF Init, ChannelInv
<1> QED BY <1>4, <1>5, <1>6 DEF PlayInv

\* What a viewer sees of a sender is one track after another, each in order and
\* without a gap once it is heard, whatever the tracks, the capacity of the
\* channel and the number of packets (session.go:571-597, forwarder.go:39-56).
THEOREM PlayedInOrder == Spec => []RelayedInOrder
<1>1. PlayInv => RelayedInOrder
  <2> SUFFICES ASSUME PlayInv, NEW i \in DOMAIN senders
               PROVE  Gapless(senders[i].out) /\ Blocks(senders[i].out)
    BY DEF RelayedInOrder, Gapless, Blocks
  <2> QED BY Zenon DEF PlayInv, SenderOK
<1> QED BY <1>1, InitPlays, PlayInvStep, PTL DEF Spec

-----------------------------------------------------------------------------
(* No track is lost between the channel and the goroutine that ranges over *)
(* it.                                                                     *)

ForgetInv ==
  /\ \A t \in Tracks :
       at[t] = "queued" => t = ranging \/ \E i \in DOMAIN queue : queue[i] = t
  /\ ranging = Finished => queue = <<>> /\ ChannelClosed

LEMMA ForgetStep ==
  ASSUME MediaTypes, ChannelInv, ForgetInv, [Next]_vars
  PROVE  ForgetInv'
<1> USE MediaAssumption
<1>0. Len(queue) \in Nat /\ DOMAIN queue = 1..Len(queue)
      /\ \A i \in DOMAIN queue : queue[i] \in Tracks
  BY DEF MediaTypes
<1>1. ASSUME UNCHANGED <<at, queue, ranging>>, stage' = stage PROVE ForgetInv'
  BY <1>1 DEF ForgetInv, ChannelClosed
<1>2. CASE Cancel \/ OnClose
  <2>1. UNCHANGED <<at, queue, ranging>> /\ (ChannelClosed => ChannelClosed')
    BY <1>2 DEF Cancel, OnClose, CloseBrowserPeer, CloseTracks, CloseKitPC,
                CloseStep, ChannelClosed
  <2> QED BY <2>1 DEF ForgetInv
<1>3. CASE KitOffers \/ BuildOffer \/ BrowserAnswers
  BY <1>1, <1>3, Zenon DEF KitOffers, BuildOffer, BrowserAnswers
<1>4. CASE RangeTakes
  <2>1. /\ ranging = NoTrack /\ ranging' = queue[1] /\ Len(queue) >= 1
        /\ DOMAIN queue' = 1..(Len(queue) - 1)
        /\ \A i \in 1..(Len(queue) - 1) : queue'[i] = queue[i + 1]
        /\ at' = at
    BY <1>0, <1>4 DEF RangeTakes, MediaTypes
  <2>2. ranging' \in Tracks
    BY <1>0, <2>1
  <2>3. ASSUME NEW t \in Tracks, at'[t] = "queued"
        PROVE  t = ranging' \/ \E i \in DOMAIN queue' : queue'[i] = t
    <3>1. PICK i \in DOMAIN queue : queue[i] = t
      BY <2>1, <2>3 DEF ForgetInv
    <3>2. CASE i = 1
      BY <2>1, <3>1, <3>2
    <3>3. CASE i # 1
      <4>1. i - 1 \in DOMAIN queue' /\ (i - 1) + 1 = i
        BY <1>0, <2>1, <3>3
      <4>2. queue'[i - 1] = queue[(i - 1) + 1]
        BY <2>1, <4>1
      <4> QED BY <3>1, <4>1, <4>2
    <3> QED BY <3>2, <3>3
  <2> QED BY <2>2, <2>3 DEF ForgetInv
<1>5. CASE RangeEnds
  <2>1. queue = <<>> /\ queue' = <<>> /\ ranging = NoTrack /\ at' = at /\ ChannelClosed'
    BY <1>5 DEF RangeEnds, ChannelClosed
  <2>2. \A t \in Tracks : at'[t] # "queued"
    BY <1>0, <2>1 DEF ForgetInv
  <2> QED BY <2>1, <2>2 DEF ForgetInv
<1>6. ASSUME NEW t \in Tracks, Attach(t) PROVE ForgetInv'
  <2>1. /\ ranging = t /\ ranging' = NoTrack /\ queue' = queue
        /\ at'[t] # "queued"
        /\ \A u \in Tracks : u # t => at'[u] = at[u]
    BY <1>6, AttachFacts DEF MediaTypes
  <2> QED BY <2>1 DEF ForgetInv
<1>7. ASSUME NEW t \in Tracks, Announce(t) PROVE ForgetInv'
  <2>1. ~ChannelClosed /\ stage' = stage /\ ranging' = ranging /\ ranging # Finished
    BY <1>7 DEF Announce, ForgetInv
  <2>2. CASE at' = [at EXCEPT ![t] = "dropped"] /\ queue' = queue
    BY <2>1, <2>2 DEF ForgetInv, MediaTypes
  <2>3. CASE at' = [at EXCEPT ![t] = "queued"] /\ queue' = Append(queue, t)
    <3>1. /\ DOMAIN queue' = 1..(Len(queue) + 1)
          /\ \A i \in 1..Len(queue) : queue'[i] = queue[i]
          /\ queue'[Len(queue) + 1] = t
      BY <2>3 DEF MediaTypes
    <3>2. \A u \in Tracks : u # t => at'[u] = at[u]
      BY <2>3 DEF MediaTypes
    <3> QED BY <1>0, <2>1, <3>1, <3>2 DEF ForgetInv
  <2> QED BY <1>7, <2>2, <2>3 DEF Announce
<1>8. ASSUME NEW t \in Tracks, TrackArrives(t) PROVE ForgetInv'
  BY <1>8 DEF TrackArrives, ForgetInv, MediaTypes, ChannelClosed
<1>9. ASSUME NEW t \in Tracks,
             AnnouncePanics(t) \/ DrainRTCP(t) \/ ForwardReads(t) \/ Forward(t)
      PROVE  ForgetInv'
  BY <1>1, <1>9
  DEF AnnouncePanics, DrainRTCP, DrainStops, DrainFails, ForwardReads, Forward,
      ForwardChecks, ForwardWrites, ReadRTPFails, WriteRTPFails
<1>10. CASE UNCHANGED vars
  BY <1>1, <1>10 DEF vars
<1> QED
  BY <1>2, <1>3, <1>4, <1>5, <1>6, <1>7, <1>8, <1>9, <1>10 DEF Next, Range, OnTrack

\* However the session's close falls between pion's callbacks and the loop
\* over the channel, a track that was accepted is attached or given up before
\* the loop rests or returns (session.go:209-215, kit_peer.go:42-45).
THEOREM NoneForgotten == Spec => []NoTrackForgotten
<1>1. Init => ForgetInv
  BY MediaAssumption DEF Init, ForgetInv
<1>2. PlayInv /\ ForgetInv /\ [Next]_vars => ForgetInv'
  BY ForgetStep DEF PlayInv
<1>3. PlayInv /\ ForgetInv => NoTrackForgotten
  BY MediaAssumption DEF ForgetInv, NoTrackForgotten
<1> QED BY <1>1, <1>2, <1>3, InitPlays, PlayInvStep, PTL DEF Spec

-----------------------------------------------------------------------------
(* The rest of the type invariant.                                         *)

Counters ==
  /\ offers \in Nat /\ built \in Nat /\ built <= offers
  /\ Len(queue) <= TrackCap
  /\ drain \in [Tracks -> {"none", "run", "done"}]
  /\ count \in [Tracks -> Nat] /\ late \in [Tracks -> Nat]
  /\ panicked \in BOOLEAN

LEMMA CountersStep == MediaTypes /\ Counters /\ [Next]_vars => Counters'
<1> SUFFICES ASSUME MediaTypes, Counters, [Next]_vars PROVE Counters'
  OBVIOUS
<1> USE MediaAssumption
<1>1. CASE KitOffers \/ Cancel \/ OnClose
  BY <1>1
  DEF KitOffers, Cancel, OnClose, CloseBrowserPeer, CloseTracks, CloseKitPC,
      CloseStep, signaling, pumps, Counters
<1>2. CASE BuildOffer
  <2>1. built < offers /\ built' = built + 1
        /\ UNCHANGED <<offers, queue, drain, count, late, panicked>>
    BY <1>2, Zenon DEF BuildOffer, pumps
  <2> QED BY <2>1 DEF Counters
<1>3. CASE BrowserAnswers
  <2>1. UNCHANGED <<offers, built, queue, drain, count, late, panicked>>
    BY <1>3, Zenon DEF BrowserAnswers, signaling, pumps
  <2> QED BY <2>1 DEF Counters
<1>4. CASE RangeTakes \/ RangeEnds
  <2>1. UNCHANGED <<offers, built, drain, count, late, panicked>>
        /\ (queue' = queue \/ (queue # <<>> /\ queue' = Tail(queue)))
    BY <1>4 DEF RangeTakes, RangeEnds, signaling, pumps
  <2>2. queue \in Seq(Tracks)
    BY DEF MediaTypes
  <2>3. queue # <<>> => Len(Tail(queue)) = Len(queue) - 1
    BY <2>2
  <2>4. Len(queue') <= TrackCap
    BY <2>1, <2>2, <2>3 DEF Counters
  <2> QED BY <2>1, <2>4 DEF Counters
<1>5. ASSUME NEW t \in Tracks, Attach(t) PROVE Counters'
  <2>1. UNCHANGED <<offers, built, queue, count, late, panicked>>
        /\ (drain' = drain \/ drain' = [drain EXCEPT ![t] = "run"])
    BY <1>5 DEF Attach, ReplaceTrack, AddTrack, AttachFails, StartGoroutines, signaling
  <2> QED BY <2>1 DEF Counters
<1>6. ASSUME NEW t \in Tracks, TrackArrives(t) PROVE Counters'
  BY <1>6 DEF TrackArrives, signaling, pumps, Counters
<1>7. ASSUME NEW t \in Tracks, OnTrack(t) PROVE Counters'
  <2>1. UNCHANGED <<offers, built, drain, count, late>> /\ panicked' \in BOOLEAN
    BY <1>7 DEF OnTrack, Announce, AnnouncePanics, signaling, pumps, Counters
  <2>2. queue' = queue \/ (Len(queue) < TrackCap /\ queue' = Append(queue, t))
    BY <1>7 DEF OnTrack, Announce, AnnouncePanics
  <2>3. queue \in Seq(Tracks)
    BY DEF MediaTypes
  <2>4. Len(Append(queue, t)) = Len(queue) + 1 /\ Len(queue) \in Nat
    BY <2>3, AppendSeq
  <2>5. Len(queue') <= TrackCap
    BY <2>2, <2>4 DEF Counters
  <2> QED BY <2>1, <2>5 DEF Counters
<1>8. ASSUME NEW t \in Tracks, DrainRTCP(t) PROVE Counters'
  BY <1>8 DEF DrainRTCP, DrainStops, DrainFails, signaling, pumps, Counters
<1>9. ASSUME NEW t \in Tracks,
             ForwardReads(t) \/ ForwardChecks(t) \/ ReadRTPFails(t) \/ WriteRTPFails(t)
      PROVE  Counters'
  BY <1>9 DEF ForwardReads, ForwardChecks, ReadRTPFails, WriteRTPFails, signaling, Counters
<1>10. ASSUME NEW t \in Tracks, ForwardWrites(t) PROVE Counters'
  <2>1. /\ UNCHANGED <<offers, built, queue, drain, panicked>>
        /\ count' = [count EXCEPT ![t] = count[t] + 1]
        /\ late' = late \/ late' = [late EXCEPT ![t] = late[t] + 1]
    BY <1>10, Zenon DEF ForwardWrites, signaling
  <2> QED BY <2>1 DEF Counters
<1>11. CASE UNCHANGED vars
  BY <1>11 DEF vars, Counters
<1> QED
  BY <1>1, <1>2, <1>3, <1>4, <1>5, <1>6, <1>7, <1>8, <1>9, <1>10, <1>11
  DEF Next, Range, Forward

\* Every variable keeps its type, and the channel its capacity: the callback
\* only appends where there is room (kit_peer.go:43-45).
THEOREM TypeCorrect == Spec => []TypeOK
<1>1. Init => MediaTypes /\ Counters
  <2> SUFFICES ASSUME Init PROVE MediaTypes /\ Counters
    OBVIOUS
  <2>1. MediaTypes
    BY InitPlays, Zenon DEF PlayInv
  <2>2. Counters
    <3>1. queue = <<>> /\ offers = 0 /\ built = 0
      BY DEF Init
    <3>2. Len(queue) <= TrackCap
      BY <3>1, MediaAssumption
    <3>3. /\ drain \in [Tracks -> {"none", "run", "done"}]
          /\ count \in [Tracks -> Nat] /\ late \in [Tracks -> Nat]
      BY DEF Init
    <3>4. panicked \in BOOLEAN
      BY Zenon DEF Init
    <3> QED BY <3>1, <3>2, <3>3, <3>4 DEF Counters
  <2> QED BY <2>1, <2>2
<1>2. MediaTypes /\ Counters => TypeOK
  BY DEF MediaTypes, Counters, TypeOK
<1> QED BY <1>1, <1>2, MediaTypesStep, CountersStep, PTL DEF Spec

-----------------------------------------------------------------------------
(* The session implements Playback.  A step that keeps what a line shows,  *)
(* the tracks that are attached and the packets that are counted is a      *)
(* stutter; the others are one step of Playback each.                      *)

Lines == [i \in DOMAIN senders |-> LineOf(senders[i])]
Mapped == <<Lines, Attached, count, BrowserClosed>>

LEMMA LineFields ==
  ASSUME NEW s
  PROVE  /\ LineOf(s).kind = s.kind /\ LineOf(s).track = s.track
         /\ LineOf(s).live = s.live /\ LineOf(s).out = s.out
BY DEF LineOf

\* An update of one field of a sender is that update of its line.
LEMMA LineUpdates ==
  ASSUME NEW s \in SenderRecords
  PROVE  /\ LineOf([s EXCEPT !.offered = TRUE]) = LineOf(s)
         /\ \A t : LineOf([s EXCEPT !.track = t]) = [LineOf(s) EXCEPT !.track = t]
         /\ \A b : LineOf([s EXCEPT !.live = b]) = [LineOf(s) EXCEPT !.live = b]
         /\ \A o : LineOf([s EXCEPT !.out = o]) = [LineOf(s) EXCEPT !.out = o]
BY DEF LineOf, SenderRecords

LEMMA LinesLonger ==
  ASSUME senders \in Seq(SenderRecords), NEW s \in SenderRecords,
         senders' = Append(senders, s)
  PROVE  Lines' = Append(Lines, LineOf(s))
<1> DEFINE n == Len(senders)
<1>1. /\ n \in Nat /\ DOMAIN senders = 1..n /\ DOMAIN senders' = 1..(n + 1)
      /\ \A i \in 1..n : senders'[i] = senders[i]
      /\ senders'[n + 1] = s
  BY AppendSeq, Elements
<1> HIDE DEF n
<1>2. Lines = [i \in 1..n |-> LineOf(senders[i])]
      /\ Lines' = [i \in 1..(n + 1) |-> LineOf(senders'[i])]
  BY <1>1, Zenon DEF Lines
<1>3. Len(Lines) = n
  BY <1>1, <1>2
<1>4. Append(Lines, LineOf(s)) =
        [i \in 1..(n + 1) |-> IF i = n + 1 THEN LineOf(s) ELSE Lines[i]]
  BY <1>1, <1>2, <1>3
<1>5. ASSUME NEW i \in 1..(n + 1)
      PROVE  LineOf(senders'[i]) = IF i = n + 1 THEN LineOf(s) ELSE Lines[i]
  <2>1. CASE i = n + 1
    BY <1>1, <2>1
  <2>2. CASE i # n + 1
    <3>1. i \in 1..n
      BY <1>1, <2>2
    <3> QED BY <1>1, <1>2, <2>2, <3>1, Zenon
  <2> QED BY <2>1, <2>2
<1> QED BY <1>2, <1>4, <1>5, Zenon

LEMMA PlayStutter ==
  ASSUME MediaTypes, UNCHANGED <<at, count, stage>>, UNCHANGED Lines
  PROVE  UNCHANGED Mapped
BY DEF Mapped, Attached, BrowserClosed

\* replaceOrAddTrack finds the first sender of a kind if there is one.
LEMMA Least ==
  ASSUME NEW S \in SUBSET Nat, S # {}
  PROVE  \E n \in S : \A m \in S : n <= m
<1> DEFINE R == OpToRel(<, Nat)
<1>1. PICK n \in S : \A m \in S : <<m, n>> \notin R
  <2>1. IsWellFoundedOn(R, Nat)
    BY NatLessThanWellFounded
  <2> HIDE DEF R
  <2> QED BY <2>1, WFMin
<1>2. ASSUME NEW m \in S PROVE n <= m
  <2>1. m \in Nat /\ n \in Nat /\ ~(m < n)
    BY <1>1 DEF OpToRel
  <2> QED BY <2>1
<1> QED BY <1>2

LEMMA FirstIsOne ==
  ASSUME MediaTypes, NEW kind, SendersOf(kind) # {}
  PROVE  FirstOf(kind) \in SendersOf(kind)
<1>1. SendersOf(kind) \in SUBSET Nat
  BY Elements DEF SendersOf, MediaTypes
<1>2. \E n \in SendersOf(kind) : \A m \in SendersOf(kind) : n <= m
  BY <1>1, Least
<1> QED BY <1>2 DEF FirstOf

LEMMA SignalingPlays ==
  ASSUME PlayInv, KitOffers \/ BuildOffer \/ BrowserAnswers
  PROVE  Player!PlayNext \/ UNCHANGED Mapped
<1> USE DEF PlayInv
<1>1. UNCHANGED <<at, count, stage>>
  BY Zenon DEF KitOffers, BuildOffer, BrowserAnswers, pumps
<1>2. CASE KitOffers
  <2>1. senders' = senders
    BY <1>2 DEF KitOffers
  <2> QED BY <1>1, <2>1, PlayStutter DEF Lines
<1>3. CASE BuildOffer
  <2>1. DOMAIN senders' = DOMAIN senders
        /\ \A i \in DOMAIN senders : senders'[i] = [senders[i] EXCEPT !.offered = TRUE]
    BY <1>3, BuildFacts, Zenon DEF MediaTypes, SendersKept
  <2>2. \A i \in DOMAIN senders : LineOf(senders'[i]) = LineOf(senders[i])
    BY <2>1, Elements, LineUpdates, Zenon DEF MediaTypes
  <2>3. UNCHANGED Lines
    BY <2>1, <2>2, Zenon DEF Lines
  <2> QED BY <1>1, <2>3, PlayStutter
<1>4. CASE BrowserAnswers
  <2> DEFINE S == {i \in DOMAIN senders : senders[i].offered}
  <2>1. DOMAIN senders' = DOMAIN senders
        /\ \A i \in DOMAIN senders :
             senders'[i] = [senders[i] EXCEPT !.live = senders[i].offered]
    BY <1>4, AnswerFacts, Zenon DEF MediaTypes, SendersKept
  <2>2. ASSUME NEW i \in DOMAIN senders
        PROVE  LineOf(senders'[i]) = [Lines[i] EXCEPT !.live = Lines[i].live \/ i \in S]
    <3>1. senders[i] \in SenderRecords /\ Lines[i] = LineOf(senders[i])
      BY Elements, Zenon DEF MediaTypes, Lines
    <3>2. Lines[i].live = senders[i].live /\ senders[i].live \in BOOLEAN
          /\ senders[i].offered \in BOOLEAN
      BY <3>1, LineFields, SenderFields, Zenon
    <3>3. senders[i].live => senders[i].offered
      BY Zenon DEF SenderOK
    <3>4. senders[i].offered = (Lines[i].live \/ i \in S)
      BY <3>2, <3>3
    <3> DEFINE b == senders[i].offered
    <3>5. senders'[i] = [senders[i] EXCEPT !.live = b]
      BY <2>1
    <3>6. b = (Lines[i].live \/ i \in S)
      BY <3>4
    <3> HIDE DEF S, b
    <3>7. LineOf([senders[i] EXCEPT !.live = b]) = [LineOf(senders[i]) EXCEPT !.live = b]
      BY <3>1, LineUpdates
    <3>8. LineOf(senders'[i]) = [Lines[i] EXCEPT !.live = b]
      BY <3>1, <3>5, <3>7, Zenon
    <3> QED BY <3>6, <3>8, Zenon
  <2>3. Lines' = [i \in DOMAIN Lines |-> [Lines[i] EXCEPT !.live = Lines[i].live \/ i \in S]]
    <3> HIDE DEF S
    <3> QED BY <2>1, <2>2, Zenon DEF Lines
  <2>4. S \in SUBSET DOMAIN Lines /\ ~BrowserClosed
    BY <1>4 DEF Lines, BrowserAnswers
  <2>5. UNCHANGED <<Attached, count, BrowserClosed>>
    BY <1>1 DEF Attached, BrowserClosed
  <2>6. Player!Negotiate
    <3> HIDE DEF S
    <3> QED BY <2>3, <2>4, <2>5, Zenon DEF Player!Negotiate, Lines
  <2> QED BY <2>6, Zenon DEF Player!PlayNext
<1> QED BY <1>2, <1>3, <1>4

LEMMA OnClosePlays ==
  ASSUME PlayInv, Cancel \/ OnClose
  PROVE  Player!PlayNext \/ UNCHANGED Mapped
<1>1. UNCHANGED <<senders, at, count>>
  BY DEF Cancel, OnClose, CloseBrowserPeer, CloseTracks, CloseKitPC, CloseStep, pumps
<1>2. UNCHANGED <<Lines, Attached, count>>
  BY <1>1 DEF Lines, Attached
<1>3. BrowserClosed' = BrowserClosed \/ BrowserClosed' = TRUE
  BY DEF Cancel, OnClose, CloseBrowserPeer, CloseTracks, CloseKitPC, CloseStep,
         BrowserClosed
<1>4. CASE BrowserClosed' = BrowserClosed
  BY <1>2, <1>4 DEF Mapped
<1>5. CASE BrowserClosed' = TRUE
  BY <1>2, <1>5, Zenon DEF Player!PlayNext, Player!End, Lines
<1> QED BY <1>3, <1>4, <1>5

\* Attaching a track puts it on a line, or leaves everything as it is.
LEMMA AttachPlays ==
  ASSUME PlayInv, NEW t \in Tracks, Attach(t)
  PROVE  Player!PlayNext \/ UNCHANGED Mapped
<1> USE DEF PlayInv
<1>1. /\ ranging = t /\ at[t] = "queued" /\ fwd[t] = "none"
      /\ count' = count /\ stage' = stage
  BY AttachFacts DEF ChannelInv, MediaTypes, Attach
<1>2. CASE AttachFails(t)
  <2>1. /\ UNCHANGED <<senders, fwd>>
        /\ at' = [at EXCEPT ![t] = "refused"]
    BY <1>2 DEF AttachFails
  <2>2. Attached' = Attached
    BY <1>1, <2>1 DEF Attached, MediaTypes
  <2> QED BY <1>1, <2>1, <2>2 DEF Mapped, Lines, BrowserClosed
<1>3. CASE ReplaceTrack(t) \/ AddTrack(t)
  <2>1. at' = [at EXCEPT ![t] = "attached"] /\ fwd' = [fwd EXCEPT ![t] = "check"]
    BY <1>3 DEF ReplaceTrack, AddTrack, StartGoroutines
  <2>2. t \notin Attached /\ Attached' = Attached \cup {t}
    BY <1>1, <2>1 DEF Attached, MediaTypes
  <2>3. count' = count /\ BrowserClosed' = BrowserClosed
    BY <1>1 DEF BrowserClosed
  <2>4. /\ Player!Kind(t) = KindOf(t)
        /\ Player!LinesOf(KindOf(t)) = SendersOf(KindOf(t))
    BY LineFields, Zenon DEF Player!Kind, KindOf, Player!LinesOf, SendersOf
  <2>5. CASE ReplaceTrack(t)
    <3> DEFINE n == FirstOf(KindOf(t))
    <3>1. n \in SendersOf(KindOf(t))
      BY <2>5, FirstIsOne DEF ReplaceTrack
    <3>2. senders' = [senders EXCEPT ![n] = [senders[n] EXCEPT !.track = t]]
      BY <2>5 DEF ReplaceTrack
    <3> HIDE DEF n
    <3>3. n \in DOMAIN senders
      BY <3>1 DEF SendersOf
    <3>4. LineOf([senders[n] EXCEPT !.track = t]) = [LineOf(senders[n]) EXCEPT !.track = t]
      BY <3>3, Elements, LineUpdates, Zenon DEF MediaTypes
    <3>5. Lines' = [Lines EXCEPT ![n] = [LineOf(senders[n]) EXCEPT !.track = t]]
      BY <3>2, <3>3, <3>4, Zenon DEF Lines
    <3>6. Lines' = [Lines EXCEPT ![n].track = t]
      BY <3>3, <3>5, Zenon DEF Lines
    <3>7. Player!Put(t)
      BY <2>2, <2>3, <2>4, <3>1, <3>6, Zenon DEF Player!Put, Lines
    <3> QED BY <3>7, Zenon DEF Player!PlayNext, Tracks
  <2>6. CASE AddTrack(t)
    <3> DEFINE s == Sender(KindOf(t), t)
    <3>1. senders' = Append(senders, s) /\ ~BrowserClosed /\ SendersOf(KindOf(t)) = {}
      BY <2>6 DEF AddTrack
    <3>2. LineOf(s) = Player!Line(KindOf(t), t)
      BY DEF LineOf, Sender, Player!Line
    <3>3. s \in SenderRecords
      BY KindsOf, NewSender DEF SenderTracks
    <3> HIDE DEF s
    <3>4. Lines' = Append(Lines, LineOf(s))
      BY <3>1, <3>3, LinesLonger DEF MediaTypes
    <3>5. Player!Put(t)
      BY <2>2, <2>3, <2>4, <3>1, <3>2, <3>4, Zenon DEF Player!Put, Lines
    <3> QED BY <3>5, Zenon DEF Player!PlayNext, Tracks
  <2> QED BY <1>3, <2>5, <2>6
<1> QED BY <1>2, <1>3 DEF Attach

\* A forwarder counts a packet when it has written it: what it has counted is
\* what it has read, but for the packet in its hands.
CountInv ==
  /\ count \in [Tracks -> Nat]
  /\ \A t \in Tracks :
       /\ fwd[t] \in {"none", "check", "read"} => count[t] = got[t]
       /\ fwd[t] = "write" => count[t] + 1 = got[t]

LEMMA CountStep == PlayInv /\ CountInv /\ [Next]_vars => CountInv'
<1> SUFFICES ASSUME PlayInv, CountInv, [Next]_vars PROVE CountInv'
  OBVIOUS
<1> USE DEF PlayInv, MediaTypes, CountInv
<1>1. ASSUME NEW t \in Tracks, Forward(t) \/ ForwardReads(t) PROVE CountInv'
  <2>1. CASE ForwardChecks(t) \/ ReadRTPFails(t) \/ WriteRTPFails(t)
    BY <2>1 DEF ForwardChecks, ReadRTPFails, WriteRTPFails
  <2>2. CASE ForwardReads(t)
    BY <2>2 DEF ForwardReads
  <2>3. CASE ForwardWrites(t)
    <3>1. count' = [count EXCEPT ![t] = @ + 1] /\ fwd' = [fwd EXCEPT ![t] = "check"]
          /\ got' = got /\ count[t] + 1 = got[t]
      BY <2>3 DEF ForwardWrites
    <3> QED BY <3>1
  <2> QED BY <1>1, <2>1, <2>2, <2>3 DEF Forward
<1>2. ASSUME NEW t \in Tracks, Attach(t) PROVE CountInv'
  <2>1. UNCHANGED <<got, count>>
    BY <1>2 DEF Attach
  <2>2. fwd[t] = "none"
    BY <1>2, AttachFacts DEF ChannelInv
  <2>3. fwd' = fwd \/ fwd' = [fwd EXCEPT ![t] = "check"]
    BY <1>2 DEF Attach, ReplaceTrack, AddTrack, AttachFails, StartGoroutines
  <2> QED BY <2>1, <2>2, <2>3
<1>3. CASE UNCHANGED <<fwd, got, count>>
  BY <1>3
<1> QED
  BY <1>1, <1>2, <1>3
  DEF Next, Range, RangeTakes, RangeEnds, KitOffers, BuildOffer, BrowserAnswers,
      Cancel, OnClose, CloseBrowserPeer, CloseTracks, CloseKitPC, CloseStep,
      TrackArrives, OnTrack, Announce, AnnouncePanics, DrainRTCP, DrainStops,
      DrainFails, pumps, vars

\* A packet that is written is taken, heard or not; reading one, or ending with
\* one in hand, shows to nobody.
LEMMA ForwardPlays ==
  ASSUME PlayInv, CountInv, NEW t \in Tracks, Forward(t) \/ ForwardReads(t)
  PROVE  Player!PlayNext \/ UNCHANGED Mapped
<1> USE DEF PlayInv
<1>1. at' = at /\ stage' = stage
  BY DEF Forward, ForwardChecks, ForwardReads, ForwardWrites, ReadRTPFails, WriteRTPFails
<1>2. Attached' = Attached /\ BrowserClosed' = BrowserClosed
  BY <1>1 DEF Attached, BrowserClosed
<1>3. CASE ForwardChecks(t) \/ ForwardReads(t) \/ ReadRTPFails(t)
          \/ WriteRTPFails(t)
  <2>1. senders' = senders
    BY <1>3 DEF ForwardChecks, ForwardReads, ReadRTPFails, WriteRTPFails
  <2>2. count' = count
    BY <1>3 DEF ForwardChecks, ForwardReads, ReadRTPFails, WriteRTPFails
  <2> QED BY <1>2, <2>1, <2>2 DEF Mapped, Lines
<1>4. CASE ForwardWrites(t)
  <2>1. fwd[t] = "write" /\ count' = [count EXCEPT ![t] = @ + 1]
    BY <1>4 DEF ForwardWrites
  <2>2. /\ count' = [count EXCEPT ![t] = count[t] + 1]
        /\ count[t] + 1 = got[t]
    BY <2>1 DEF CountInv
  <2>3. t \in Attached
    BY <2>1 DEF Attached, ChannelInv
  <2>4. \A i \in DOMAIN senders :
          Player!Hears(LineOf(senders[i]), t) <=> i \in Bound(t) /\ ~BrowserClosed
    BY LineFields, Zenon DEF Player!Hears, Bound
  <2>5. /\ DOMAIN senders' = DOMAIN senders
        /\ \A i \in DOMAIN senders :
              senders'[i] =
                IF i \in Bound(t) /\ ~BrowserClosed
                  THEN [senders[i] EXCEPT !.out =
                          Append(senders[i].out, [track |-> t, num |-> got[t]])]
                  ELSE senders[i]
    BY <1>4, WriteFacts, Zenon DEF MediaTypes, SendersKept
  <2>6. ASSUME NEW i \in DOMAIN senders
        PROVE  LineOf(senders'[i]) =
                 IF Player!Hears(Lines[i], t)
                   THEN [Lines[i] EXCEPT !.out =
                           Append(Lines[i].out, [track |-> t, num |-> count[t] + 1])]
                   ELSE Lines[i]
    <3>1. senders[i] \in SenderRecords /\ Lines[i] = LineOf(senders[i])
      BY Elements, Zenon DEF MediaTypes, Lines
    <3>2. Lines[i].out = senders[i].out
      BY <3>1, LineFields, Zenon
    <3> DEFINE o == Append(senders[i].out, [track |-> t, num |-> got[t]])
    <3>3. CASE Player!Hears(Lines[i], t)
      <4>1. senders'[i] = [senders[i] EXCEPT !.out = o]
        BY <2>4, <2>5, <3>1, <3>3, Zenon
      <4>2. Append(Lines[i].out, [track |-> t, num |-> count[t] + 1]) = o
        BY <2>2, <3>2, Zenon
      <4> HIDE DEF o
      <4>3. LineOf([senders[i] EXCEPT !.out = o]) = [LineOf(senders[i]) EXCEPT !.out = o]
        BY <3>1, LineUpdates
      <4>4. LineOf(senders'[i]) = [Lines[i] EXCEPT !.out = o]
        BY <3>1, <4>1, <4>3, Zenon
      <4> QED BY <3>3, <4>2, <4>4, Zenon
    <3>4. CASE ~Player!Hears(Lines[i], t)
      <4>1. senders'[i] = senders[i]
        BY <2>4, <2>5, <3>1, <3>4, Zenon
      <4> QED BY <3>1, <3>4, <4>1, Zenon
    <3> QED BY <3>3, <3>4
  <2>7. Lines' = [i \in DOMAIN Lines |->
                    IF Player!Hears(Lines[i], t)
                      THEN [Lines[i] EXCEPT !.out =
                              Append(Lines[i].out, [track |-> t, num |-> count[t] + 1])]
                      ELSE Lines[i]]
    BY <2>5, <2>6, Zenon DEF Lines
  <2>8. Player!Take(t)
    BY <1>2, <2>2, <2>3, <2>7, Zenon DEF Player!Take, Lines
  <2> QED BY <2>8, Zenon DEF Player!PlayNext, Tracks
<1> QED BY <1>3, <1>4 DEF Forward

LEMMA OthersPlay ==
  ASSUME PlayInv,
         \/ RangeTakes \/ RangeEnds
         \/ \E t \in Tracks : TrackArrives(t) \/ OnTrack(t) \/ DrainRTCP(t)
  PROVE  UNCHANGED Mapped
<1>1. UNCHANGED <<senders, count, stage>>
  BY DEF RangeTakes, RangeEnds, TrackArrives, OnTrack, Announce, AnnouncePanics,
         DrainRTCP, DrainStops, DrainFails, pumps
<1>2. Attached' = Attached
  <2>1. \A t \in Tracks : (at'[t] = "attached") <=> (at[t] = "attached")
    BY DEF RangeTakes, RangeEnds, TrackArrives, OnTrack, Announce, AnnouncePanics,
           DrainRTCP, DrainStops, DrainFails, PlayInv, MediaTypes
  <2> QED BY <2>1 DEF Attached
<1> QED BY <1>1, <1>2 DEF Mapped, Lines, BrowserClosed

\* For any tracks, packets, channel and offers, what the goroutines of
\* session.go:539-618 and forwarder.go do shows to the browser as Playback:
\* each track is put on a line of its kind once, its packets are heard in
\* turn or not at all, and nothing is heard after browserPeer.Close.
THEOREM SessionImplementsPlayback == Spec => ImplementsPlayback
<1>1. Init => Player!PlayInit
  <2> SUFFICES ASSUME Init PROVE Player!PlayInit
    OBVIOUS
  <2> DEFINE s == Sender("video", Placeholder)
  <2>1. LineOf(s) = Player!Line("video", Placeholder)
    BY DEF LineOf, Sender, Player!Line
  <2>2. senders = <<s>>
    BY DEF Init
  <2> HIDE DEF s
  <2>3. Lines = <<LineOf(s)>>
    BY <2>2 DEF Lines
  <2>4. /\ Attached = {} /\ ~BrowserClosed
        /\ count = [t \in VideoTracks \cup AudioTracks |-> 0]
    BY DEF Init, Attached, BrowserClosed, Tracks
  <2>5. Lines = <<Player!Line("video", Placeholder)>>
    BY <2>1, <2>3
  <2> QED BY <2>4, <2>5 DEF Player!PlayInit, Lines
<1>2. PlayInv /\ CountInv /\ [Next]_vars => [Player!PlayNext]_(Player!playVars)
  <2> SUFFICES ASSUME PlayInv, CountInv, [Next]_vars
               PROVE  Player!PlayNext \/ UNCHANGED Mapped
    BY Zenon DEF Player!playVars, Mapped, Lines
  <2>1. CASE UNCHANGED vars
    BY <2>1 DEF vars, Mapped, Lines, Attached, BrowserClosed
  <2> QED
    BY <2>1, SignalingPlays, OnClosePlays, AttachPlays, ForwardPlays, OthersPlay
    DEF Next, Range
<1>3. Init => CountInv
  BY DEF Init, CountInv
<1> QED
  BY <1>1, <1>2, <1>3, InitPlays, PlayInvStep, CountStep, PTL
  DEF Spec, ImplementsPlayback, Player!PlaySpec
=============================================================================
