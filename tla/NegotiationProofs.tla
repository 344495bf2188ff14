-------------------------- MODULE NegotiationProofs --------------------------
(***************************************************************************)
(* Proofs about Negotiation, for any number of frames, offers and          *)
(* candidates and any ids.                                                 *)
(***************************************************************************)
EXTENDS Negotiation, TLAPS

-----------------------------------------------------------------------------
(* Types of what the operators build.                                      *)

LEMMA ConstantTypes ==
  /\ Offers \subseteq Nat /\ BrowserOffers \subseteq Nat
  /\ 1..MaxKitFrames \subseteq Nat
  /\ AckBase \in Nat /\ KitId \in Nat /\ BrowserId \in Nat /\ Candidates \in Nat
  /\ Ids \subseteq Nat
  /\ {1, 0, KitId, BrowserId} \subseteq Ids
  /\ \A k \in Offers : Handle(k) \in Threads /\ Build(k) \in Threads
  /\ \A b \in BrowserOffers : Bridge(b) \in Threads
  /\ KitSide \in Gatherers /\ BrowserSide \in Gatherers
  /\ Gatherers \subseteq Threads
BY NegotiationAssumption DEF Offers, BrowserOffers, Ids, Viewers, Threads, Gatherers

LEMMA FrameType ==
  ASSUME NEW type \in {"none", "ack", "passed", "offer", "answer", "candidate"},
         NEW ackid \in Nat, NEW from \in Nat, NEW to \in Nat, NEW of \in Nat
  PROVE  Frame(type, ackid, from, to, of) \in Frames
BY DEF Frame, Frames

LEMMA SentType ==
  ASSUME NEW wire \in Seq(Frames), NEW frame \in Frames
  PROVE  Sent(wire, frame) \in Seq(Frames)
BY DEF Sent

\* What pion's calls return is a peer connection.
LEMMA PeerTypes ==
  ASSUME NEW c \in PeerConnections, NEW k \in Nat
  PROVE  /\ SetRemoteOffer(c) \in PeerConnections
         /\ SetRemoteAnswer(c) \in PeerConnections
         /\ CreateOffer(c, k) \in PeerConnections
         /\ CreateAnswer(c, k) \in PeerConnections
         /\ SetLocalOffer(c) \in PeerConnections
         /\ SetLocalAnswer(c) \in PeerConnections
         /\ Close(c) \in PeerConnections
         /\ GatheringCompletePromise(c, k) \in PeerConnections
         /\ GatheringComplete(c) \in PeerConnections
<1>1. SetRemoteOffer(c) \in PeerConnections /\ SetRemoteAnswer(c) \in PeerConnections
  BY DEF PeerConnections, SetRemoteOffer, SetRemoteAnswer
<1>2. CreateOffer(c, k) \in PeerConnections /\ CreateAnswer(c, k) \in PeerConnections
  BY DEF PeerConnections, CreateOffer, CreateAnswer
<1>3. SetLocalOffer(c) \in PeerConnections
  BY DEF PeerConnections, SetLocalOffer, StartGathering
<1>4. SetLocalAnswer(c) \in PeerConnections
  BY DEF PeerConnections, SetLocalAnswer, StartGathering
<1>5. Close(c) \in PeerConnections
  BY DEF PeerConnections, Close
<1>6. GatheringCompletePromise(c, k) \in PeerConnections
  BY DEF PeerConnections, GatheringCompletePromise
<1>7. GatheringComplete(c) \in PeerConnections
  BY DEF PeerConnections, GatheringComplete
<1> QED BY <1>1, <1>2, <1>3, <1>4, <1>5, <1>6, <1>7

-----------------------------------------------------------------------------
(* Type correctness.                                                       *)

LEMMA InitType == Init => TypeOK
<1> SUFFICES ASSUME Init PROVE TypeOK
  OBVIOUS
<1>1. kp \in PeerConnections /\ bp \in PeerConnections
  BY DEF Init, NewPeerConnection, PeerConnections
<1>2. NoFrame \in Frames
  BY DEF NoFrame, Frame, Frames
<1>3. held \in [Threads -> Frames]
  BY <1>2 DEF Init
<1> QED
  BY <1>1, <1>3, ConstantTypes DEF Init, InitialAckid, TypeOK, Labels

\* A frame from Kit, whatever it is.
LEMMA KitType ==
  ASSUME TypeOK, Kit
  PROVE  TypeOK'
<1> USE ConstantTypes
<1>1. ASSUME NEW n \in 1..MaxKitFrames
      PROVE  /\ Sent(toBrowser, Frame("passed", n, KitId, 0, n)) \in Seq(Frames)
             /\ Sent(toKit, Ack(n)) \in Seq(Frames)
  <2>1. n \in Nat
    OBVIOUS
  <2>2. Frame("passed", n, KitId, 0, n) \in Frames /\ Ack(n) \in Frames
    BY <2>1, FrameType DEF Ack
  <2> QED BY <2>2, SentType DEF TypeOK
<1>2. ASSUME NEW role \in {"server", "viewer", "other"}, KitPeerInfo(role)
      PROVE  TypeOK'
  <2>1. PICK n \in 1..MaxKitFrames, viewer \in Viewers :
           /\ kit' = [kit EXCEPT !.sent = n,
                        !.announced = IF role = "viewer" THEN @ \cup {viewer} ELSE @]
           /\ kitPeerID' = IF role = "server" THEN KitId ELSE kitPeerID
           /\ browserPeerID' = IF role = "viewer" THEN viewer ELSE browserPeerID
           /\ toBrowser' = Sent(toBrowser, Frame("passed", n, KitId, 0, n))
           /\ UNCHANGED <<ackCounter, kp, bp, threads, toKit, browser, refused,
                          closing>>
    BY <1>2 DEF KitPeerInfo, KitFrame, Pass, BrowserIDFrom
  <2>2. viewer \in Ids
    BY DEF Ids
  <2>3. kit' \in [sent : Nat, offers : Nat, answers : Nat, announced : SUBSET Viewers]
    BY <2>1 DEF TypeOK
  <2> QED
    BY <1>1, <2>1, <2>2, <2>3 DEF TypeOK, threads, closing
<1>3. CASE KitUnknown
  <2>1. PICK n \in 1..MaxKitFrames :
           /\ kit' = [kit EXCEPT !.sent = n]
           /\ kitPeerID' = KitId
           /\ toBrowser' = Sent(toBrowser, Frame("passed", n, KitId, 0, n))
           /\ UNCHANGED <<browserPeerID, ackCounter, kp, bp, threads, toKit,
                          browser, refused, closing>>
    BY <1>3 DEF KitUnknown, Pass
  <2> QED
    BY <1>1, <2>1 DEF TypeOK, threads, closing
<1>4. CASE KitOffer
  <2>1. PICK n \in 1..MaxKitFrames, k \in Offers :
           /\ kit' = [kit EXCEPT !.sent = n, !.offers = k]
           /\ kitPeerID' = KitId
           /\ toKit' = Sent(toKit, Ack(n))
           /\ at' = [at EXCEPT ![Handle(k)] = "setRemote"]
           /\ UNCHANGED <<browserPeerID, ackCounter, kp, bp, held, left,
                          toBrowser, browser, refused, closing>>
    BY <1>4 DEF KitOffer, AutoAck, Goto
  <2> QED
    BY <1>1, <2>1 DEF TypeOK, closing, Labels
<1>5. CASE KitAnswer
  <2>1. PICK n \in 1..MaxKitFrames, b \in BrowserOffers :
           /\ kit' = [kit EXCEPT !.sent = n, !.answers = b]
           /\ kitPeerID' = KitId
           /\ toKit' = Sent(toKit, Ack(n))
           /\ kp' = SetRemoteAnswer(kp) \/ kp' = kp
           /\ refused' \subseteq refused \cup {"kitAnswer"}
           /\ UNCHANGED <<browserPeerID, ackCounter, bp, threads, toBrowser,
                          browser, closing>>
    BY <1>5 DEF KitAnswer, AutoAck, Refuse
  <2>2. kp' \in PeerConnections
    BY <2>1, PeerTypes DEF TypeOK
  <2> QED
    BY <1>1, <2>1, <2>2 DEF TypeOK, threads, closing, Payloads
<1>6. CASE KitCandidate
  <2>1. PICK n \in 1..MaxKitFrames :
           /\ kit' = [kit EXCEPT !.sent = n]
           /\ kitPeerID' = KitId
           /\ toKit' = Sent(toKit, Ack(n))
           /\ refused' \subseteq refused \cup {"kitCandidate"}
           /\ UNCHANGED <<browserPeerID, ackCounter, kp, bp, threads, toBrowser,
                          browser, closing>>
    BY <1>6 DEF KitCandidate, AddKitCandidate, AutoAck, Refuse
  <2> QED
    BY <1>1, <2>1 DEF TypeOK, threads, closing, Payloads
<1> QED BY <1>2, <1>3, <1>4, <1>5, <1>6 DEF Kit

BrowserRecords ==
  [seen : Nat, owes : Nat, answers : Nat, offers : Nat, extra : Nat]

LEMMA LearnType == LearnFromBrowser => kitPeerID' \in Ids /\ browserPeerID' \in Ids
BY DEF LearnFromBrowser, Ids, Viewers

LEMMA BrowserFields ==
  ASSUME TypeOK
  PROVE  /\ browser \in BrowserRecords
         /\ browser.seen \in Nat /\ browser.answers \in Nat /\ browser.extra \in Nat
BY DEF TypeOK, BrowserRecords

LEMMA BrowserUpdates ==
  ASSUME NEW r \in BrowserRecords, NEW v \in Nat, NEW w \in Nat
  PROVE  /\ [r EXCEPT !.seen = v, !.owes = w] \in BrowserRecords
         /\ [r EXCEPT !.owes = 0, !.answers = v] \in BrowserRecords
         /\ [r EXCEPT !.offers = v] \in BrowserRecords
         /\ [r EXCEPT !.extra = v] \in BrowserRecords
BY DEF BrowserRecords

LEMMA ExtraType == TypeOK /\ BrowserExtra => browser' \in BrowserRecords
<1> SUFFICES ASSUME TypeOK, BrowserExtra PROVE browser' \in BrowserRecords
  OBVIOUS
<1>1. browser' = [browser EXCEPT !.extra = browser.extra + 1]
  BY DEF BrowserExtra
<1>2. browser.extra + 1 \in Nat /\ browser \in BrowserRecords
  BY BrowserFields
<1> QED BY <1>1, <1>2, BrowserUpdates, Zenon

\* A step of the browser.
LEMMA BrowserType ==
  ASSUME TypeOK, Browser
  PROVE  TypeOK'
<1> USE ConstantTypes
<1>1. CASE BrowserReads
  <2>1. browser.seen \in Nat /\ browser.owes \in Nat /\ browser \in BrowserRecords
    BY DEF TypeOK, BrowserRecords
  <2>2. browser.seen + 1 \in 1..Len(toBrowser) /\ toBrowser \in Seq(Frames)
    <3>1. browser.seen < Len(toBrowser)
      BY <1>1 DEF BrowserReads
    <3>2. toBrowser \in Seq(Frames) /\ Len(toBrowser) \in Nat
      BY DEF TypeOK
    <3> QED BY <2>1, <3>1, <3>2
  <2>3. toBrowser[browser.seen + 1] \in Frames
    BY <2>2
  <2>4. toBrowser[browser.seen + 1].of \in Nat
    BY <2>3 DEF Frames
  <2>5. PICK owed \in Nat :
          browser' = [browser EXCEPT !.seen = browser.seen + 1, !.owes = owed]
    BY <1>1, <2>1, <2>4 DEF BrowserReads
  <2>6. browser' \in BrowserRecords
    <3>1. browser.seen + 1 \in Nat /\ browser \in BrowserRecords
      BY <2>1
    <3> QED BY <2>5, <3>1, BrowserUpdates, Zenon
  <2> QED
    BY <1>1, <2>6 DEF BrowserReads, BrowserRecords, TypeOK, ids, threads, closing
<1>2. CASE BrowserAnswer
  <2>1. bp' \in PeerConnections /\ refused' \subseteq Payloads
    BY <1>2, PeerTypes DEF BrowserAnswer, SetBrowserAnswer, TypeOK, Refuse, Payloads
  <2>2. browser' \in BrowserRecords
    <3>1. browser' = [browser EXCEPT !.owes = 0, !.answers = browser.answers + 1]
      BY <1>2 DEF BrowserAnswer, SetBrowserAnswer
    <3>2. browser.answers + 1 \in Nat /\ browser \in BrowserRecords
      BY BrowserFields
    <3> QED BY <3>1, <3>2, BrowserUpdates, Zenon
  <2> QED
    BY <1>2, <2>1, <2>2, LearnType
    DEF BrowserAnswer, SetBrowserAnswer, BrowserRecords, TypeOK, threads, closing
<1>3. CASE BrowserOffer
  <2>1. PICK b \in BrowserOffers :
           /\ browser' = [browser EXCEPT !.offers = b]
           /\ LearnFromBrowser
           /\ \/ /\ bp' = SetRemoteOffer(bp)
                 /\ at' = [at EXCEPT ![Bridge(b)] = "createOffer"]
                 /\ UNCHANGED refused
              \/ /\ refused' \subseteq refused \cup {"browserOffer"}
                 /\ UNCHANGED <<bp, at>>
           /\ UNCHANGED <<ackCounter, kp, held, left, toKit, toBrowser, kit, closing>>
    BY <1>3 DEF BrowserOffer, Goto, Refuse
  <2>2. bp' \in PeerConnections /\ refused' \subseteq Payloads
    BY <2>1, PeerTypes DEF TypeOK, Payloads
  <2>3. at' \in [Threads -> Labels]
    BY <2>1 DEF TypeOK, Labels
  <2>4. browser' \in BrowserRecords
    <3>1. b \in Nat /\ browser \in BrowserRecords
      BY BrowserFields
    <3> QED BY <2>1, <3>1, BrowserUpdates, Zenon
  <2> QED
    BY <2>1, <2>2, <2>3, <2>4, LearnType DEF BrowserRecords, TypeOK, closing
<1>4. CASE BrowserCandidate
  BY <1>4, ExtraType, LearnType
  DEF BrowserCandidate, AddBrowserCandidate, BrowserRecords, Refuse, TypeOK, threads,
      closing, Payloads
<1>5. CASE BrowserUnknown
  <2>1. toKit' \in Seq(Frames)
    BY <1>5, FrameType, SentType DEF BrowserUnknown, TypeOK
  <2> QED
    BY <1>5, <2>1, ExtraType, LearnType
    DEF BrowserUnknown, BrowserRecords, TypeOK, threads, closing
<1> QED BY <1>1, <1>2, <1>3, <1>4, <1>5 DEF Browser

-----------------------------------------------------------------------------
(* The six shapes a goroutine's step has.                                  *)

LEMMA LoadForKitType ==
  ASSUME TypeOK, NEW t \in Threads, NEW here, NEW next \in Labels,
         NEW type \in {"offer", "answer", "candidate"}, NEW of \in Nat,
         LoadForKit(t, here, next, type, of)
  PROVE  TypeOK'
<1>1. Frame(type, 0, browserPeerID, 0, of) \in Frames
  BY ConstantTypes, FrameType DEF TypeOK
<1>2. [held[t] EXCEPT !.to = kitPeerID] \in Frames
  BY ConstantTypes DEF TypeOK, Frames
<1>3. held' \in [Threads -> Frames]
  BY <1>1, <1>2 DEF LoadForKit, LoadFrom, LoadTo, TypeOK
<1>4. at' \in [Threads -> Labels]
  BY DEF LoadForKit, LoadFrom, LoadTo, Goto, TypeOK, Labels
<1> QED
  BY <1>3, <1>4 DEF LoadForKit, LoadFrom, LoadTo, TypeOK, ids, ends, closing

LEMMA TakeAckidType ==
  ASSUME TypeOK, NEW t \in Threads, NEW here, NEW next \in Labels,
         NEW type \in {"offer", "answer", "candidate"}, NEW of \in Nat,
         TakeAckid(t, here, next, type, of)
  PROVE  TypeOK'
<1>1. ackCounter + 1 \in Nat /\ kitPeerID \in Nat /\ 0 \in Nat
  BY ConstantTypes DEF TypeOK
<1>2. Frame(type, ackCounter + 1, kitPeerID, 0, of) \in Frames
  BY <1>1, FrameType, Zenon
<1> QED
  BY <1>1, <1>2 DEF TakeAckid, Goto, TypeOK, ids, ends, closing

LEMMA OnKitPeerType ==
  ASSUME TypeOK, NEW t \in Threads, NEW here, NEW ok, NEW peer \in PeerConnections,
         NEW next \in Labels, OnKitPeer(t, here, ok, peer, next)
  PROVE  TypeOK'
<1>1. at' \in [Threads -> Labels]
  BY DEF OnKitPeer, Goto, TypeOK, Labels
<1>2. kp' \in PeerConnections
  BY DEF OnKitPeer, TypeOK
<1> QED
  BY <1>1, <1>2, SMTT(30) DEF OnKitPeer, TypeOK, ids, ends, closing

LEMMA OnBrowserPeerType ==
  ASSUME TypeOK, NEW t \in Threads, NEW here, NEW ok, NEW peer \in PeerConnections,
         NEW next \in Labels, OnBrowserPeer(t, here, ok, peer, next)
  PROVE  TypeOK'
<1>1. at' \in [Threads -> Labels]
  BY DEF OnBrowserPeer, Goto, TypeOK, Labels
<1>2. bp' \in PeerConnections
  BY DEF OnBrowserPeer, TypeOK
<1> QED
  BY <1>1, <1>2, SMTT(30) DEF OnBrowserPeer, TypeOK, ids, ends, closing

LEMMA SendToKitType ==
  ASSUME TypeOK, NEW t \in Threads, NEW here, NEW next \in Labels,
         SendToKit(t, here, next)
  PROVE  TypeOK'
<1>1. toKit' \in Seq(Frames)
  BY SentType DEF SendToKit, TypeOK
<1>2. NoFrame \in Frames
  BY FrameType DEF NoFrame
<1> QED
  BY <1>1, <1>2 DEF SendToKit, Goto, TypeOK, ids, ends, closing, Labels

LEMMA SendToBrowserType ==
  ASSUME TypeOK, NEW t \in Threads, NEW here, NEW next \in Labels,
         SendToBrowser(t, here, next)
  PROVE  TypeOK'
<1>1. toBrowser' \in Seq(Frames)
  BY SentType DEF SendToBrowser, TypeOK
<1>2. NoFrame \in Frames
  BY FrameType DEF NoFrame
<1> QED
  BY <1>1, <1>2 DEF SendToBrowser, Goto, TypeOK, ids, ends, closing, Labels

LEMMA HandleType ==
  ASSUME TypeOK, NEW k \in Offers, HandleStep(k)
  PROVE  TypeOK'
<1> USE ConstantTypes
<1>1. {"setRemote", "createAnswer", "setLocal", "load", "loaded", "send", "spawn", "done",
       "check"} \subseteq Labels
  BY DEF Labels
<1>2. CASE HandleSetRemote(k)
  <2>1. /\ \/ kp' = SetRemoteOffer(kp) /\ at' = [at EXCEPT ![Handle(k)] = "createAnswer"]
              /\ UNCHANGED refused
           \/ /\ refused' \subseteq refused \cup {"kitOffer"} /\ UNCHANGED kp
              /\ at' = [at EXCEPT ![Handle(k)] = "done"]
        /\ UNCHANGED <<ids, ackCounter, bp, held, left, toKit, toBrowser, ends,
                       closing>>
    BY <1>2 DEF HandleSetRemote, Goto, Refuse
  <2>2. kp' \in PeerConnections /\ refused' \subseteq Payloads
    BY <2>1, PeerTypes DEF TypeOK, Payloads
  <2>3. at' \in [Threads -> Labels]
    BY <1>1, <2>1 DEF TypeOK
  <2> QED BY <2>1, <2>2, <2>3 DEF TypeOK, ids, ends, closing
<1>3. CASE HandleCreateAnswer(k)
  <2>1. CreateAnswer(kp, k) \in PeerConnections
    BY PeerTypes DEF TypeOK
  <2> QED BY <1>1, <1>3, <2>1, OnKitPeerType DEF HandleCreateAnswer
<1>4. CASE HandleSetLocal(k)
  <2>1. SetLocalAnswer(kp) \in PeerConnections
    BY PeerTypes DEF TypeOK
  <2> QED BY <1>1, <1>4, <2>1, OnKitPeerType DEF HandleSetLocal
<1>5. CASE HandleLoad(k)
  BY <1>1, <1>5, LoadForKitType DEF HandleLoad
<1>6. CASE HandleSend(k)
  BY <1>1, <1>6, SendToKitType DEF HandleSend
<1>7. CASE HandleSpawn(k)
  <2>1. at' \in [Threads -> Labels]
    BY <1>1, <1>7 DEF HandleSpawn, TypeOK
  <2> QED BY <1>7, <2>1 DEF HandleSpawn, TypeOK, ids, ends, closing
<1> QED BY <1>2, <1>3, <1>4, <1>5, <1>6, <1>7 DEF HandleStep

LEMMA BuildType ==
  ASSUME TypeOK, NEW k \in Offers, BuildStep(k)
  PROVE  TypeOK'
<1> USE ConstantTypes
<1>1. {"check", "createOffer", "promise", "setLocal", "gather", "ackid", "send",
       "done"} \subseteq Labels
  BY DEF Labels
<1>2. /\ bp \in PeerConnections
      /\ CreateOffer(bp, k) \in PeerConnections
      /\ GatheringCompletePromise(bp, k) \in PeerConnections
      /\ SetLocalOffer(bp) \in PeerConnections
  BY PeerTypes DEF TypeOK
<1>3. CASE BuildCheck(k)
  BY <1>1, <1>2, <1>3, OnBrowserPeerType DEF BuildCheck
<1>4. CASE BuildCreateOffer(k)
  BY <1>1, <1>2, <1>4, OnBrowserPeerType DEF BuildCreateOffer
<1>5. CASE BuildPromise(k)
  BY <1>1, <1>2, <1>5, OnBrowserPeerType DEF BuildPromise
<1>6. CASE BuildSetLocal(k)
  BY <1>1, <1>2, <1>6, OnBrowserPeerType DEF BuildSetLocal
<1>7. CASE BuildGathered(k)
  BY <1>1, <1>2, <1>7, OnBrowserPeerType DEF BuildGathered
<1>8. CASE BuildAckid(k)
  BY <1>1, <1>8, TakeAckidType DEF BuildAckid
<1>9. CASE BuildSend(k)
  BY <1>1, <1>9, SendToBrowserType DEF BuildSend
<1> QED BY <1>3, <1>4, <1>5, <1>6, <1>7, <1>8, <1>9 DEF BuildStep

LEMMA BridgeType ==
  ASSUME TypeOK, NEW b \in BrowserOffers, BridgeStep(b)
  PROVE  TypeOK'
<1> USE ConstantTypes
<1>1. {"createOffer", "setLocal", "load", "loaded", "send", "wait", "createAnswer",
       "setLocalAnswer", "ackid", "sendAnswer", "done"} \subseteq Labels
  BY DEF Labels
<1>2. /\ bp \in PeerConnections
      /\ CreateOffer(kp, b) \in PeerConnections /\ SetLocalOffer(kp) \in PeerConnections
      /\ CreateAnswer(bp, b) \in PeerConnections /\ SetLocalAnswer(bp) \in PeerConnections
  BY PeerTypes DEF TypeOK
<1>3. CASE BridgeCreateOffer(b)
  BY <1>1, <1>2, <1>3, OnKitPeerType DEF BridgeCreateOffer
<1>4. CASE BridgeSetLocal(b)
  BY <1>1, <1>2, <1>4, OnKitPeerType DEF BridgeSetLocal
<1>5. CASE BridgeLoad(b)
  BY <1>1, <1>5, LoadForKitType DEF BridgeLoad
<1>6. CASE BridgeSend(b)
  BY <1>1, <1>6, SendToKitType DEF BridgeSend
<1>7. CASE BridgeWait(b)
  BY <1>1, <1>2, <1>7, OnBrowserPeerType DEF BridgeWait
<1>8. CASE BridgeCreateAnswer(b)
  BY <1>1, <1>2, <1>8, OnBrowserPeerType DEF BridgeCreateAnswer
<1>9. CASE BridgeSetLocalAnswer(b)
  BY <1>1, <1>2, <1>9, OnBrowserPeerType DEF BridgeSetLocalAnswer
<1>10. CASE BridgeAckid(b)
  BY <1>1, <1>10, TakeAckidType DEF BridgeAckid
<1>11. CASE BridgeSendAnswer(b)
  BY <1>1, <1>11, SendToBrowserType DEF BridgeSendAnswer
<1> QED
  BY <1>3, <1>4, <1>5, <1>6, <1>7, <1>8, <1>9, <1>10, <1>11 DEF BridgeStep

LEMMA SentCandidateType ==
  ASSUME TypeOK, NEW g \in Gatherers, SentCandidate(g),
         toKit' \in Seq(Frames), toBrowser' \in Seq(Frames), left[g] > 0
  PROVE  TypeOK'
<1>1. NoFrame \in Frames
  BY FrameType DEF NoFrame
<1>2. g \in Threads /\ "idle" \in Labels
  BY ConstantTypes DEF Labels
<1>3. left' \in [Gatherers -> Nat]
  BY DEF SentCandidate, TypeOK
<1> QED
  BY <1>1, <1>2, <1>3 DEF SentCandidate, TypeOK, ids, ends, closing

\* A gatherer that is about to send has a candidate left to report.
GathererInv ==
  \A g \in Gatherers :
    at[g] \in {"idle", "loaded", "send"} /\ (at[g] # "idle" => left[g] > 0)

TypeInv == TypeOK /\ GathererInv

LEMMA ThreadsDiffer ==
  /\ \A k \in Offers : Handle(k) \notin Gatherers /\ Build(k) \notin Gatherers
  /\ \A b \in BrowserOffers : Bridge(b) \notin Gatherers
  /\ KitSide # BrowserSide
BY DEF Handle, Build, Bridge, Gatherers, KitSide, BrowserSide

LEMMA GatherersType ==
  ASSUME TypeInv, KitSideStep \/ BrowserSideStep
  PROVE  TypeOK'
<1> USE ConstantTypes
<1>1. TypeOK /\ {"idle", "loaded", "send"} \subseteq Labels
  BY DEF TypeInv, Labels
<1>2. CASE KitSideCandidate
  BY <1>1, <1>2, LoadForKitType DEF KitSideCandidate, LoadForKit
<1>3. CASE BrowserSideCandidate
  BY <1>1, <1>3, TakeAckidType DEF BrowserSideCandidate
<1>4. CASE KitSideSend
  <2>1. toKit' \in Seq(Frames) /\ toBrowser' \in Seq(Frames)
    BY <1>1, <1>4, SentType DEF KitSideSend, TypeOK
  <2>2. left[KitSide] > 0
    BY <1>4 DEF KitSideSend, SentCandidate, TypeInv, GathererInv
  <2> QED BY <1>1, <1>4, <2>1, <2>2, SentCandidateType DEF KitSideSend
<1>5. CASE BrowserSideSend
  <2>1. toKit' \in Seq(Frames) /\ toBrowser' \in Seq(Frames)
    BY <1>1, <1>5, SentType DEF BrowserSideSend, TypeOK
  <2>2. left[BrowserSide] > 0
    BY <1>5 DEF BrowserSideSend, SentCandidate, TypeInv, GathererInv
  <2> QED BY <1>1, <1>5, <2>1, <2>2, SentCandidateType DEF BrowserSideSend
<1>6. CASE KitSideGathered
  BY <1>1, <1>6, PeerTypes DEF KitSideGathered, TypeOK, ids, threads, ends, closing
<1>7. CASE BrowserSideGathered
  BY <1>1, <1>7, PeerTypes
  DEF BrowserSideGathered, TypeOK, ids, threads, ends, closing
<1> QED
  BY <1>2, <1>3, <1>4, <1>5, <1>6, <1>7 DEF KitSideStep, BrowserSideStep

LEMMA ClosingType ==
  ASSUME TypeOK, TearDown \/ \E pump \in {"kit", "client"} : CloseSockets(pump)
  PROVE  TypeOK'
<1>1. Close(bp) \in PeerConnections /\ Close(kp) \in PeerConnections
  BY PeerTypes DEF TypeOK
<1> QED
  BY <1>1 DEF TearDown, CloseSockets, Cancel, CloseBrowserPeer, CloseKitPeer,
     TypeOK, ids, threads, ends

\* Only a gatherer's own steps move it.
LEMMA GatherersStand ==
  ASSUME TypeInv,
         \/ Kit \/ Browser \/ TearDown
         \/ \E k \in Offers : HandleStep(k) \/ BuildStep(k)
         \/ \E b \in BrowserOffers : BridgeStep(b)
         \/ \E pump \in {"kit", "client"} : CloseSockets(pump)
         \/ UNCHANGED vars
  PROVE  left' = left /\ \A g \in Gatherers : at'[g] = at[g]
<1> USE ThreadsDiffer, ConstantTypes
<1>1. at \in [Threads -> Labels]
  BY DEF TypeInv, TypeOK
<1>2. CASE Kit
  <2>1. ASSUME NEW role \in {"server", "viewer", "other"}, KitPeerInfo(role)
        PROVE  left' = left /\ at' = at
    BY <2>1 DEF KitPeerInfo, threads
  <2>2. CASE KitUnknown BY <2>2 DEF KitUnknown, threads
  <2>3. CASE KitOffer BY <1>1, <2>3 DEF KitOffer, Goto
  <2>4. CASE KitAnswer BY <1>1, <2>4 DEF KitAnswer, threads
  <2>5. CASE KitCandidate BY <2>5 DEF KitCandidate, AddKitCandidate, threads
  <2> QED BY <1>2, <2>1, <2>2, <2>3, <2>4, <2>5 DEF Kit
<1>3. CASE Browser
  BY <1>1, <1>3
  DEF Browser, BrowserReads, BrowserAnswer, SetBrowserAnswer, BrowserOffer,
      BrowserCandidate, AddBrowserCandidate,
      BrowserUnknown, Goto, threads
<1>4. CASE TearDown
  BY <1>4 DEF TearDown, Cancel, CloseBrowserPeer, CloseKitPeer, threads
<1>5. ASSUME NEW k \in Offers, HandleStep(k)
      PROVE  left' = left /\ \A g \in Gatherers : at'[g] = at[g]
  BY <1>1, <1>5
  DEF HandleStep, HandleSetRemote, HandleCreateAnswer, HandleSetLocal, HandleLoad,
      HandleSend, HandleSpawn, OnKitPeer, LoadForKit, LoadFrom, LoadTo, SendToKit, Goto
<1>6. ASSUME NEW k \in Offers, BuildStep(k)
      PROVE  left' = left /\ \A g \in Gatherers : at'[g] = at[g]
  BY <1>1, <1>6
  DEF BuildStep, BuildCheck, BuildCreateOffer, BuildPromise, BuildSetLocal,
      BuildGathered, BuildAckid, BuildSend, OnBrowserPeer, TakeAckid,
      SendToBrowser, Goto
<1>7. ASSUME NEW b \in BrowserOffers, BridgeStep(b)
      PROVE  left' = left /\ \A g \in Gatherers : at'[g] = at[g]
  BY <1>1, <1>7
  DEF BridgeStep, BridgeCreateOffer, BridgeSetLocal, BridgeLoad, BridgeSend,
      BridgeWait, BridgeCreateAnswer, BridgeSetLocalAnswer, BridgeAckid,
      BridgeSendAnswer, OnKitPeer, OnBrowserPeer, LoadForKit, LoadFrom, LoadTo,
      TakeAckid, SendToKit, SendToBrowser, Goto
<1>8. CASE \E pump \in {"kit", "client"} : CloseSockets(pump)
  BY <1>8 DEF CloseSockets, threads
<1>9. CASE UNCHANGED vars
  BY <1>9 DEF vars, threads
<1> QED BY <1>2, <1>3, <1>4, <1>5, <1>6, <1>7, <1>8, <1>9

LEMMA GatherersMove ==
  ASSUME TypeInv, KitSideStep \/ BrowserSideStep
  PROVE  GathererInv'
<1> USE ThreadsDiffer, ConstantTypes
<1>1. /\ at \in [Threads -> Labels] /\ left \in [Gatherers -> Nat]
      /\ GathererInv
  BY DEF TypeInv, TypeOK
<1>2. CASE KitSideCandidate \/ BrowserSideCandidate
  BY <1>1, <1>2
  DEF KitSideCandidate, BrowserSideCandidate, Reports, LoadForKit, LoadFrom, LoadTo,
      TakeAckid, Goto, GathererInv
<1>3. CASE KitSideSend \/ BrowserSideSend
  BY <1>1, <1>3 DEF KitSideSend, BrowserSideSend, SentCandidate, GathererInv
<1>4. CASE KitSideGathered \/ BrowserSideGathered
  BY <1>1, <1>4
  DEF KitSideGathered, BrowserSideGathered, GathererInv, threads
<1> QED BY <1>2, <1>3, <1>4 DEF KitSideStep, BrowserSideStep

LEMMA TypeStep == TypeInv /\ [Next]_vars => TypeInv'
<1> SUFFICES ASSUME TypeInv, [Next]_vars PROVE TypeInv'
  OBVIOUS
<1>1. TypeOK
  BY DEF TypeInv
<1>2. TypeOK'
  <2>1. CASE UNCHANGED vars
    BY <1>1, <2>1 DEF TypeOK, vars, ids, threads, ends, closing
  <2>2. CASE Next
    BY <1>1, <2>2, KitType, BrowserType, HandleType, BuildType, BridgeType,
       GatherersType, ClosingType DEF Next
  <2> QED BY <2>1, <2>2
<1>3. GathererInv'
  <2>1. CASE KitSideStep \/ BrowserSideStep
    BY <2>1, GatherersMove
  <2>2. CASE ~(KitSideStep \/ BrowserSideStep)
    <3>1. left' = left /\ \A g \in Gatherers : at'[g] = at[g]
      BY <2>2, GatherersStand DEF Next
    <3> QED BY <3>1 DEF TypeInv, GathererInv
  <2> QED BY <2>1, <2>2
<1> QED BY <1>2, <1>3 DEF TypeInv

LEMMA TypeInvAlways == Spec => []TypeInv
<1>1. Init => TypeInv
  BY InitType, ConstantTypes DEF Init, TypeInv, GathererInv
<1> QED BY <1>1, TypeStep, PTL DEF Spec

\* Type correctness of a session: whatever Kit, the browser and the goroutines
\* interleave, every variable keeps its type (session.go:53-379).
THEOREM TypeCorrect == Spec => []TypeOK
<1>1. TypeInv => TypeOK
  BY DEF TypeInv
<1> QED BY <1>1, TypeInvAlways, PTL

-----------------------------------------------------------------------------
(* Ackids on the browser's socket.                                         *)

\* The goroutines that hold a frame with an ackid of their own.
Stamped ==
  {t \in Threads :
     \/ at[t] = "sendAnswer"
     \/ at[t] = "send" /\ (t = BrowserSide \/ \E k \in Offers : t = Build(k))}

\* An ackid on the wire is one of Kit's or was drawn from the counter; one in
\* the hands of a goroutine was drawn too, and is nowhere else.
AckidInv ==
  /\ AckBase <= ackCounter
  /\ kit.sent <= MaxKitFrames
  /\ \A i \in 1..Len(toBrowser) :
       \/ toBrowser[i].ackid \in 1..kit.sent
       \/ toBrowser[i].ackid \in (AckBase + 1)..ackCounter
  /\ AckidsFresh
  /\ \A t \in Stamped :
       /\ held[t].ackid \in (AckBase + 1)..ackCounter
       /\ \A i \in 1..Len(toBrowser) : toBrowser[i].ackid # held[t].ackid
  /\ \A t, u \in Stamped : t # u => held[t].ackid # held[u].ackid

\* What a step can do to the ackids: nothing, pass a frame of Kit, draw an
\* ackid for t, or send what t holds.
KeepsHeld == \A t \in Stamped' : t \in Stamped /\ held'[t] = held[t]
QuietStep ==
  /\ KeepsHeld
  /\ UNCHANGED <<ackCounter, toBrowser>>
  /\ kit'.sent = kit.sent \/ (kit'.sent = kit.sent + 1 /\ kit'.sent <= MaxKitFrames)
PassStep ==
  /\ KeepsHeld
  /\ UNCHANGED ackCounter
  /\ kit'.sent = kit.sent + 1 /\ kit'.sent <= MaxKitFrames
  /\ toBrowser' = Sent(toBrowser, Frame("passed", kit'.sent, KitId, 0, kit'.sent))
DrawStep(t) ==
  /\ \A u \in Stamped' : u # t => u \in Stamped /\ held'[u] = held[u]
  /\ ackCounter' = ackCounter + 1 /\ held'[t].ackid = ackCounter + 1
  /\ UNCHANGED toBrowser /\ kit'.sent = kit.sent
SendStep(t) ==
  /\ KeepsHeld /\ t \in Stamped /\ t \notin Stamped'
  /\ UNCHANGED ackCounter /\ kit'.sent = kit.sent
  /\ toBrowser' = Sent(toBrowser, held[t])

AckidStep == QuietStep \/ PassStep \/ \E t \in Threads : DrawStep(t) \/ SendStep(t)

LEMMA SendersDiffer ==
  /\ \A k, j \in Offers : Handle(k) # Build(j) /\ Handle(k) # BrowserSide
  /\ \A b \in BrowserOffers, j \in Offers :
       Bridge(b) # Build(j) /\ Bridge(b) # BrowserSide
  /\ \A j \in Offers : KitSide # Build(j) /\ BrowserSide # Build(j)
  /\ KitSide # BrowserSide
BY DEF Handle, Build, Bridge, KitSide, BrowserSide

\* The shapes of a goroutine's step again.  A step that leaves t at a label
\* where it holds no ackid is quiet.
LEMMA QuietMove ==
  ASSUME TypeOK, NEW t \in Threads, NEW label \in Labels,
         at' = [at EXCEPT ![t] = label],
         label \notin {"send", "sendAnswer"},
         \A u \in Threads : u # t => held'[u] = held[u],
         UNCHANGED <<ackCounter, toBrowser, kit>>
  PROVE  QuietStep
BY DEF QuietStep, KeepsHeld, Stamped, TypeOK

LEMMA OnKitPeerAckid ==
  ASSUME TypeOK, NEW t \in Threads, NEW here, NEW ok, NEW peer, NEW next \in Labels,
         next \notin {"send", "sendAnswer"}, OnKitPeer(t, here, ok, peer, next)
  PROVE  QuietStep
<1>1. PICK label \in {next, "done"} : at' = [at EXCEPT ![t] = label]
  BY DEF OnKitPeer, Goto
<1>2. label \in Labels /\ label \notin {"send", "sendAnswer"}
  BY DEF Labels
<1>3. UNCHANGED <<ackCounter, toBrowser, kit, held>>
  BY DEF OnKitPeer, ends
<1> QED BY <1>1, <1>2, <1>3, QuietMove

LEMMA OnBrowserPeerAckid ==
  ASSUME TypeOK, NEW t \in Threads, NEW here, NEW ok, NEW peer, NEW next \in Labels,
         next \notin {"send", "sendAnswer"}, OnBrowserPeer(t, here, ok, peer, next)
  PROVE  QuietStep
<1>1. PICK label \in {next, "done"} : at' = [at EXCEPT ![t] = label]
  BY DEF OnBrowserPeer, Goto
<1>2. label \in Labels /\ label \notin {"send", "sendAnswer"}
  BY DEF Labels
<1>3. UNCHANGED <<ackCounter, toBrowser, kit, held>>
  BY DEF OnBrowserPeer, ends
<1> QED BY <1>1, <1>2, <1>3, QuietMove

LEMMA SendToKitAckid ==
  ASSUME TypeOK, NEW t \in Threads, NEW here, NEW next \in Labels,
         next \notin {"send", "sendAnswer"}, SendToKit(t, here, next)
  PROVE  QuietStep
<1>1. PICK label \in {next, "done"} : at' = [at EXCEPT ![t] = label]
  BY DEF SendToKit, Goto
<1>2. label \in Labels /\ label \notin {"send", "sendAnswer"}
  BY DEF Labels
<1>3. /\ UNCHANGED <<ackCounter, toBrowser, kit>>
      /\ \A u \in Threads : u # t => held'[u] = held[u]
  BY DEF SendToKit, ends, TypeOK
<1> QED BY <1>1, <1>2, <1>3, QuietMove

\* A frame for Kit carries no ackid.
LEMMA LoadForKitAckid ==
  ASSUME TypeOK, NEW t \in Threads, NEW here, NEW type, NEW of,
         t # BrowserSide, \A k \in Offers : t # Build(k),
         LoadForKit(t, here, "send", type, of)
  PROVE  QuietStep
BY DEF QuietStep, KeepsHeld, Stamped, TypeOK, LoadForKit, LoadFrom, LoadTo, Goto, ends

LEMMA TakeAckidAckid ==
  ASSUME TypeOK, NEW t \in Threads, NEW here, NEW next, NEW type, NEW of,
         TakeAckid(t, here, next, type, of)
  PROVE  DrawStep(t)
<1>1. /\ at' = [at EXCEPT ![t] = next]
      /\ held' = [held EXCEPT ![t] = Frame(type, ackCounter + 1, kitPeerID, 0, of)]
      /\ ackCounter' = ackCounter + 1
      /\ UNCHANGED <<toBrowser, kit>>
  BY DEF TakeAckid, Goto, ends
<1>2. held'[t].ackid = ackCounter + 1
  BY <1>1 DEF TypeOK, Frame
<1>3. \A u \in Stamped' : u # t => u \in Stamped /\ held'[u] = held[u]
  BY <1>1 DEF Stamped, TypeOK
<1> QED BY <1>1, <1>2, <1>3 DEF DrawStep

LEMMA SendToBrowserAckid ==
  ASSUME TypeOK, NEW t \in Threads, NEW here, t \in Stamped,
         SendToBrowser(t, here, "done")
  PROVE  SendStep(t)
BY DEF SendStep, KeepsHeld, Stamped, TypeOK, SendToBrowser, Goto, ends

LEMMA KitAckid ==
  ASSUME TypeOK, Kit
  PROVE  AckidStep
<1>0. kit.sent \in Nat /\ MaxKitFrames \in Nat
  BY NegotiationAssumption DEF TypeOK
<1>1. ASSUME NEW role \in {"server", "viewer", "other"}, KitPeerInfo(role)
      PROVE  PassStep
  <2>1. /\ kit'.sent = kit.sent + 1 /\ kit'.sent <= MaxKitFrames
        /\ toBrowser' = Sent(toBrowser, Frame("passed", kit'.sent, KitId, 0, kit'.sent))
    BY <1>1, <1>0 DEF KitPeerInfo, KitFrame, Pass, TypeOK
  <2>2. UNCHANGED <<ackCounter, at, held>>
    BY <1>1 DEF KitPeerInfo, threads
  <2> QED BY <2>1, <2>2 DEF PassStep, KeepsHeld, Stamped
<1>2. CASE KitUnknown
  <2>1. /\ kit'.sent = kit.sent + 1 /\ kit'.sent <= MaxKitFrames
        /\ toBrowser' = Sent(toBrowser, Frame("passed", kit'.sent, KitId, 0, kit'.sent))
    BY <1>2, <1>0 DEF KitUnknown, KitFrame, Pass, TypeOK
  <2>2. UNCHANGED <<ackCounter, at, held>>
    BY <1>2 DEF KitUnknown, threads
  <2> QED BY <2>1, <2>2 DEF AckidStep, PassStep, KeepsHeld, Stamped
<1>3. CASE KitOffer
  <2>1. PICK k \in Offers : at' = [at EXCEPT ![Handle(k)] = "setRemote"]
    BY <1>3 DEF KitOffer, Goto
  <2>2. kit'.sent = kit.sent + 1 /\ kit'.sent <= MaxKitFrames
    BY <1>3, <1>0 DEF KitOffer, KitFrame, TypeOK
  <2>3. UNCHANGED <<ackCounter, held, toBrowser>>
    BY <1>3 DEF KitOffer
  <2> QED
    BY <2>1, <2>2, <2>3, ConstantTypes
    DEF AckidStep, QuietStep, KeepsHeld, Stamped, TypeOK
<1>4. CASE KitAnswer \/ KitCandidate
  <2>1. kit'.sent = kit.sent + 1 /\ kit'.sent <= MaxKitFrames
    <3>1. CASE KitAnswer BY <3>1, <1>0 DEF KitAnswer, KitFrame, TypeOK
    <3>2. CASE KitCandidate BY <3>2, <1>0 DEF KitCandidate, AddKitCandidate, KitFrame,
        TypeOK
    <3> QED BY <1>4, <3>1, <3>2
  <2>2. UNCHANGED <<ackCounter, at, held, toBrowser>>
    BY <1>4 DEF KitAnswer, KitCandidate, AddKitCandidate, threads
  <2> QED BY <2>1, <2>2 DEF AckidStep, QuietStep, KeepsHeld, Stamped
<1> QED BY <1>1, <1>2, <1>3, <1>4 DEF Kit, AckidStep

LEMMA BrowserAckid ==
  ASSUME TypeOK, Browser \/ TearDown \/ UNCHANGED vars
                   \/ \E pump \in {"kit", "client"} : CloseSockets(pump)
  PROVE  QuietStep
<1>1. CASE BrowserOffer
  <2>1. /\ at' = at \/ \E b \in BrowserOffers : at' = [at EXCEPT ![Bridge(b)] = "createOffer"]
        /\ UNCHANGED <<ackCounter, held, toBrowser, kit>>
    BY <1>1 DEF BrowserOffer, Goto
  <2> QED BY <2>1, ConstantTypes DEF QuietStep, KeepsHeld, Stamped, TypeOK
<1>2. CASE BrowserReads \/ BrowserAnswer \/ BrowserCandidate \/ BrowserUnknown
  BY <1>2
  DEF BrowserReads, BrowserAnswer, SetBrowserAnswer, BrowserCandidate,
      AddBrowserCandidate, BrowserUnknown, threads,
      QuietStep, KeepsHeld, Stamped
<1>3. CASE TearDown \/ UNCHANGED vars \/ \E pump \in {"kit", "client"} : CloseSockets(pump)
  BY <1>3
  DEF TearDown, Cancel, CloseBrowserPeer, CloseKitPeer, CloseSockets, vars, threads,
      ends, QuietStep, KeepsHeld, Stamped
<1> QED BY <1>1, <1>2, <1>3 DEF Browser

LEMMA HandleAckid ==
  ASSUME TypeOK, NEW k \in Offers, HandleStep(k)
  PROVE  QuietStep
<1> USE ConstantTypes
<1>1. {"createAnswer", "setLocal", "load", "spawn", "done", "check"} \subseteq Labels
  BY DEF Labels
<1>2. CASE HandleSetRemote(k)
  <2>1. PICK label \in {"createAnswer", "done"} :
           at' = [at EXCEPT ![Handle(k)] = label]
    BY <1>2 DEF HandleSetRemote, Goto
  <2>2. UNCHANGED <<ackCounter, toBrowser, kit, held>>
    BY <1>2 DEF HandleSetRemote, ends
  <2> QED BY <1>1, <2>1, <2>2, QuietMove
<1>3. CASE HandleCreateAnswer(k)
  BY <1>1, <1>3, OnKitPeerAckid DEF HandleCreateAnswer
<1>4. CASE HandleSetLocal(k)
  BY <1>1, <1>4, OnKitPeerAckid DEF HandleSetLocal
<1>5. CASE HandleLoad(k)
  BY <1>5, LoadForKitAckid, SendersDiffer DEF HandleLoad
<1>6. CASE HandleSend(k)
  BY <1>1, <1>6, SendToKitAckid DEF HandleSend
<1>7. CASE HandleSpawn(k)
  BY <1>7 DEF HandleSpawn, ends, QuietStep, KeepsHeld, Stamped, TypeOK
<1> QED BY <1>2, <1>3, <1>4, <1>5, <1>6, <1>7 DEF HandleStep

LEMMA BuildAckidStep ==
  ASSUME TypeOK, NEW k \in Offers, BuildStep(k)
  PROVE  AckidStep
<1> USE ConstantTypes DEF AckidStep
<1>1. {"createOffer", "promise", "setLocal", "gather", "ackid"} \subseteq Labels
  BY DEF Labels
<1>2. CASE BuildCheck(k)
  BY <1>1, <1>2, OnBrowserPeerAckid DEF BuildCheck
<1>3. CASE BuildCreateOffer(k)
  BY <1>1, <1>3, OnBrowserPeerAckid DEF BuildCreateOffer
<1>4. CASE BuildPromise(k)
  BY <1>1, <1>4, OnBrowserPeerAckid DEF BuildPromise
<1>5. CASE BuildSetLocal(k)
  BY <1>1, <1>5, OnBrowserPeerAckid DEF BuildSetLocal
<1>6. CASE BuildGathered(k)
  BY <1>1, <1>6, OnBrowserPeerAckid DEF BuildGathered
<1>7. CASE BuildAckid(k)
  BY <1>7, TakeAckidAckid DEF BuildAckid
<1>8. CASE BuildSend(k)
  <2>1. Build(k) \in Stamped
    BY <1>8 DEF BuildSend, SendToBrowser, Stamped
  <2> QED BY <1>8, <2>1, SendToBrowserAckid DEF BuildSend
<1> QED BY <1>2, <1>3, <1>4, <1>5, <1>6, <1>7, <1>8 DEF BuildStep

LEMMA BridgeAckidStep ==
  ASSUME TypeOK, NEW b \in BrowserOffers, BridgeStep(b)
  PROVE  AckidStep
<1> USE ConstantTypes DEF AckidStep
<1>1. {"setLocal", "load", "wait", "createAnswer", "setLocalAnswer", "ackid",
       "done"} \subseteq Labels
  BY DEF Labels
<1>2. CASE BridgeCreateOffer(b)
  BY <1>1, <1>2, OnKitPeerAckid DEF BridgeCreateOffer
<1>3. CASE BridgeSetLocal(b)
  BY <1>1, <1>3, OnKitPeerAckid DEF BridgeSetLocal
<1>4. CASE BridgeLoad(b)
  <2>1. Bridge(b) # BrowserSide /\ \A k \in Offers : Bridge(b) # Build(k)
    BY DEF Bridge, Build, BrowserSide
  <2>2. LoadForKit(Bridge(b), "load", "send", "offer", b)
    BY <1>4 DEF BridgeLoad
  <2>3. QuietStep
    BY <2>1, <2>2, LoadForKitAckid
  <2> QED BY <2>3
<1>5. CASE BridgeSend(b)
  BY <1>1, <1>5, SendToKitAckid DEF BridgeSend
<1>6. CASE BridgeWait(b)
  BY <1>1, <1>6, OnBrowserPeerAckid DEF BridgeWait
<1>7. CASE BridgeCreateAnswer(b)
  BY <1>1, <1>7, OnBrowserPeerAckid DEF BridgeCreateAnswer
<1>8. CASE BridgeSetLocalAnswer(b)
  BY <1>1, <1>8, OnBrowserPeerAckid DEF BridgeSetLocalAnswer
<1>9. CASE BridgeAckid(b)
  BY <1>9, TakeAckidAckid DEF BridgeAckid
<1>10. CASE BridgeSendAnswer(b)
  <2>1. Bridge(b) \in Stamped
    BY <1>10 DEF BridgeSendAnswer, SendToBrowser, Stamped
  <2> QED BY <1>10, <2>1, SendToBrowserAckid DEF BridgeSendAnswer
<1> QED
  BY <1>2, <1>3, <1>4, <1>5, <1>6, <1>7, <1>8, <1>9, <1>10 DEF BridgeStep

LEMMA GathererAckid ==
  ASSUME TypeInv, KitSideStep \/ BrowserSideStep
  PROVE  AckidStep
<1> USE ConstantTypes, SendersDiffer DEF AckidStep
<1>1. TypeOK /\ GathererInv
  BY DEF TypeInv
<1>2. CASE KitSideCandidate
  BY <1>1, <1>2, LoadForKitAckid DEF KitSideCandidate, LoadForKit
<1>3. CASE BrowserSideCandidate
  BY <1>1, <1>3, TakeAckidAckid DEF BrowserSideCandidate
<1>4. CASE KitSideSend
  <2>1. /\ at' = [at EXCEPT ![KitSide] = "idle"]
        /\ \A u \in Threads : u # KitSide => held'[u] = held[u]
        /\ UNCHANGED <<ackCounter, toBrowser, kit>>
    BY <1>1, <1>4 DEF KitSideSend, SentCandidate, ends, TypeOK
  <2>2. "idle" \in Labels
    BY DEF Labels
  <2> QED BY <1>1, <2>1, <2>2, QuietMove
<1>5. CASE BrowserSideSend
  <2>1. BrowserSide \in Stamped
    BY <1>5 DEF BrowserSideSend, SentCandidate, Stamped
  <2>2. SendStep(BrowserSide)
    BY <1>1, <1>5, <2>1
    DEF BrowserSideSend, SentCandidate, SendStep, KeepsHeld, Stamped, ends, TypeOK
  <2> QED BY <2>2
<1>6. CASE KitSideGathered \/ BrowserSideGathered
  BY <1>6
  DEF KitSideGathered, BrowserSideGathered, threads, ends, QuietStep, KeepsHeld, Stamped
<1> QED
  BY <1>2, <1>3, <1>4, <1>5, <1>6 DEF KitSideStep, BrowserSideStep

LEMMA NextAckid == TypeInv /\ [Next]_vars => AckidStep
BY KitAckid, BrowserAckid, HandleAckid, BuildAckidStep, BridgeAckidStep, GathererAckid
DEF Next, AckidStep, TypeInv

\* Sent appends one frame or, once the sockets are closed, nothing.
LEMMA SentFacts ==
  ASSUME NEW wire \in Seq(Frames), NEW frame \in Frames,
         NEW longer, longer = Sent(wire, frame)
  PROVE  \/ longer = wire
         \/ /\ longer \in Seq(Frames) /\ Len(longer) = Len(wire) + 1
            /\ \A i \in 1..Len(wire) : longer[i] = wire[i]
            /\ longer[Len(wire) + 1] = frame
BY DEF Sent

LEMMA SentElements ==
  ASSUME NEW wire \in Seq(Frames), NEW frame \in Frames,
         NEW longer, longer = Sent(wire, frame), NEW i \in 1..Len(longer)
  PROVE  longer[i] = frame \/ (i \in 1..Len(wire) /\ longer[i] = wire[i])
<1>1. CASE longer = wire
  BY <1>1
<1>2. CASE /\ Len(longer) = Len(wire) + 1
           /\ \A j \in 1..Len(wire) : longer[j] = wire[j]
           /\ longer[Len(wire) + 1] = frame
  <2>1. Len(wire) \in Nat
    OBVIOUS
  <2>2. i \in 1..Len(wire) \/ i = Len(wire) + 1
    BY <1>2, <2>1
  <2> QED BY <1>2, <2>2
<1> QED BY <1>1, <1>2, SentFacts

\* The frames on the browser's wire after an append keep distinct ackids when
\* the new one is new.
LEMMA AppendFresh ==
  ASSUME TypeOK, AckidsFresh, NEW frame \in Frames,
         \A i \in 1..Len(toBrowser) : toBrowser[i].ackid # frame.ackid,
         toBrowser' = Sent(toBrowser, frame)
  PROVE  AckidsFresh'
<1>1. toBrowser \in Seq(Frames) /\ Len(toBrowser) \in Nat
  BY DEF TypeOK
<1>2. CASE toBrowser' = toBrowser
  BY <1>2 DEF AckidsFresh
<1>3. CASE /\ Len(toBrowser') = Len(toBrowser) + 1
           /\ \A i \in 1..Len(toBrowser) : toBrowser'[i] = toBrowser[i]
           /\ toBrowser'[Len(toBrowser) + 1] = frame
  BY <1>1, <1>3 DEF AckidsFresh
<1> QED BY <1>1, <1>2, <1>3, SentFacts

LEMMA AckidInvStep == TypeInv /\ AckidInv /\ [Next]_vars => AckidInv'
<1> SUFFICES ASSUME TypeInv, AckidInv, [Next]_vars PROVE AckidInv'
  OBVIOUS
<1> USE ConstantTypes
<1>1. /\ TypeOK /\ TypeOK'
      /\ toBrowser \in Seq(Frames) /\ Len(toBrowser) \in Nat
      /\ ackCounter \in Nat /\ kit.sent \in Nat
      /\ Stamped \subseteq Threads
      /\ \A t \in Threads : held[t] \in Frames
      /\ MaxKitFrames <= AckBase /\ MaxKitFrames \in Nat
  <2>1. TypeOK /\ TypeOK'
    BY TypeStep DEF TypeInv
  <2>2. /\ toBrowser \in Seq(Frames) /\ ackCounter \in Nat /\ kit.sent \in Nat
        /\ \A t \in Threads : held[t] \in Frames
    BY <2>1 DEF TypeOK
  <2>3. Stamped \subseteq Threads
    BY DEF Stamped
  <2>4. MaxKitFrames <= AckBase /\ MaxKitFrames \in Nat
    BY NegotiationAssumption
  <2> QED BY <2>1, <2>2, <2>3, <2>4
<1>2. CASE QuietStep
  <2>1. AckidsFresh'
    BY <1>2 DEF QuietStep, AckidInv, AckidsFresh
  <2>2. /\ ackCounter' = ackCounter /\ toBrowser' = toBrowser
        /\ kit.sent <= kit'.sent /\ kit'.sent <= MaxKitFrames
        /\ kit'.sent \in Nat /\ KeepsHeld
    BY <1>1, <1>2 DEF QuietStep, AckidInv
  <2>3. \A i \in 1..Len(toBrowser') :
          \/ toBrowser'[i].ackid \in 1..kit'.sent
          \/ toBrowser'[i].ackid \in (AckBase + 1)..ackCounter'
    BY <1>1, <2>2 DEF AckidInv
  <2>4. \A t \in Stamped' :
          /\ held'[t].ackid \in (AckBase + 1)..ackCounter'
          /\ \A i \in 1..Len(toBrowser') : toBrowser'[i].ackid # held'[t].ackid
    BY <2>2 DEF AckidInv, KeepsHeld
  <2>5. \A t, u \in Stamped' : t # u => held'[t].ackid # held'[u].ackid
    BY <2>2 DEF AckidInv, KeepsHeld
  <2> QED BY <2>1, <2>2, <2>3, <2>4, <2>5 DEF AckidInv
<1>3. CASE PassStep
  <2> DEFINE n == kit'.sent
             frame == Frame("passed", n, KitId, 0, n)
  <2>1. /\ n \in Nat /\ n = kit.sent + 1 /\ n <= AckBase
        /\ toBrowser' = Sent(toBrowser, frame) /\ ackCounter' = ackCounter
        /\ KeepsHeld
    BY <1>1, <1>3 DEF PassStep
  <2>2. frame \in Frames /\ frame.ackid = n
    BY <2>1, FrameType DEF Frame
  <2>3. \A i \in 1..Len(toBrowser) : toBrowser[i].ackid # frame.ackid
    BY <1>1, <2>1, <2>2 DEF AckidInv
  <2>4. AckidsFresh'
    BY <1>1, <2>1, <2>2, <2>3, AppendFresh DEF AckidInv
  <2>5. \A i \in 1..Len(toBrowser') :
          \/ toBrowser'[i] = frame
          \/ i \in 1..Len(toBrowser) /\ toBrowser'[i] = toBrowser[i]
    BY <1>1, <2>1, <2>2, SentElements
  <2> HIDE DEF n, frame
  <2>6. \A i \in 1..Len(toBrowser') :
          \/ toBrowser'[i].ackid \in 1..kit'.sent
          \/ toBrowser'[i].ackid \in (AckBase + 1)..ackCounter'
    <3> SUFFICES ASSUME NEW i \in 1..Len(toBrowser')
                 PROVE  \/ toBrowser'[i].ackid \in 1..n
                        \/ toBrowser'[i].ackid \in (AckBase + 1)..ackCounter'
      BY DEF n
    <3>1. CASE toBrowser'[i] = frame
      BY <1>1, <2>1, <2>2, <3>1
    <3>2. CASE i \in 1..Len(toBrowser) /\ toBrowser'[i] = toBrowser[i]
      <4>1. \/ toBrowser[i].ackid \in 1..kit.sent
            \/ toBrowser[i].ackid \in (AckBase + 1)..ackCounter
        BY <3>2 DEF AckidInv
      <4> QED BY <1>1, <2>1, <3>2, <4>1
    <3> QED BY <2>5, <3>1, <3>2
  <2>7. \A t \in Stamped' :
          /\ held'[t].ackid \in (AckBase + 1)..ackCounter'
          /\ \A i \in 1..Len(toBrowser') : toBrowser'[i].ackid # held'[t].ackid
    <3> SUFFICES ASSUME NEW t \in Stamped'
                 PROVE  /\ held'[t].ackid \in (AckBase + 1)..ackCounter'
                        /\ \A i \in 1..Len(toBrowser') :
                             toBrowser'[i].ackid # held'[t].ackid
      OBVIOUS
    <3>1. t \in Stamped /\ held'[t] = held[t]
      BY <2>1 DEF KeepsHeld
    <3>2. /\ held[t].ackid \in (AckBase + 1)..ackCounter
          /\ \A i \in 1..Len(toBrowser) : toBrowser[i].ackid # held[t].ackid
      BY <3>1 DEF AckidInv
    <3>3. frame.ackid # held[t].ackid
      BY <1>1, <2>1, <2>2, <3>2
    <3> QED BY <2>1, <2>5, <3>1, <3>2, <3>3
  <2>8. \A t, u \in Stamped' : t # u => held'[t].ackid # held'[u].ackid
    BY <2>1 DEF AckidInv, KeepsHeld
  <2>9. AckBase <= ackCounter' /\ kit'.sent <= MaxKitFrames
    BY <1>3, <2>1 DEF AckidInv, PassStep
  <2> QED BY <2>4, <2>6, <2>7, <2>8, <2>9 DEF AckidInv
<1>4. ASSUME NEW t \in Threads, DrawStep(t)
      PROVE  AckidInv'
  <2>1. /\ ackCounter' = ackCounter + 1 /\ held'[t].ackid = ackCounter + 1
        /\ toBrowser' = toBrowser /\ kit'.sent = kit.sent
        /\ \A u \in Stamped' : u # t => u \in Stamped /\ held'[u] = held[u]
    BY <1>4 DEF DrawStep
  <2>2. AckidsFresh'
    BY <2>1 DEF AckidInv, AckidsFresh
  <2>3. \A i \in 1..Len(toBrowser) : toBrowser[i].ackid <= ackCounter
    BY <1>1 DEF AckidInv
  <2>4. ASSUME NEW u \in Stamped'
        PROVE  /\ held'[u].ackid \in (AckBase + 1)..ackCounter'
               /\ \A i \in 1..Len(toBrowser') : toBrowser'[i].ackid # held'[u].ackid
    <3>a. ackCounter \in Nat /\ AckBase \in Nat /\ AckBase <= ackCounter
      BY <1>1, NegotiationAssumption DEF AckidInv
    <3>1. CASE u = t
      <4>1. held'[u].ackid = ackCounter + 1 /\ ackCounter' = ackCounter + 1
        BY <2>1, <3>1
      <4>2. held'[u].ackid \in (AckBase + 1)..ackCounter'
        BY <3>a, <4>1
      <4>3. \A i \in 1..Len(toBrowser) : toBrowser[i].ackid # ackCounter + 1
        BY <2>3, <3>a
      <4> QED BY <2>1, <4>1, <4>2, <4>3
    <3>2. CASE u # t
      <4>1. u \in Stamped /\ held'[u] = held[u]
        BY <2>1, <3>2
      <4>2. /\ held[u].ackid \in (AckBase + 1)..ackCounter
            /\ \A i \in 1..Len(toBrowser) : toBrowser[i].ackid # held[u].ackid
        BY <4>1 DEF AckidInv
      <4>3. held'[u].ackid \in (AckBase + 1)..ackCounter'
        BY <2>1, <3>a, <4>1, <4>2
      <4> QED BY <2>1, <4>1, <4>2, <4>3
    <3> QED BY <3>1, <3>2
  <2>5. \A u \in Stamped' : u # t => held'[u].ackid <= ackCounter
    BY <1>1, <2>1 DEF AckidInv
  <2>6. ASSUME NEW u \in Stamped', NEW v \in Stamped', u # v
        PROVE  held'[u].ackid # held'[v].ackid
    <3>1. CASE u = t \/ v = t
      BY <1>1, <2>1, <2>5, <2>6, <3>1
    <3>2. CASE u # t /\ v # t
      BY <2>1, <2>6, <3>2 DEF AckidInv
    <3> QED BY <3>1, <3>2
  <2>7. \A i \in 1..Len(toBrowser') :
          \/ toBrowser'[i].ackid \in 1..kit'.sent
          \/ toBrowser'[i].ackid \in (AckBase + 1)..ackCounter'
    BY <1>1, <2>1 DEF AckidInv
  <2>8. AckBase <= ackCounter' /\ kit'.sent <= MaxKitFrames
    BY <1>1, <2>1 DEF AckidInv
  <2> QED BY <2>2, <2>4, <2>6, <2>7, <2>8 DEF AckidInv
<1>5. ASSUME NEW t \in Threads, SendStep(t)
      PROVE  AckidInv'
  <2>1. /\ t \in Stamped /\ t \notin Stamped' /\ KeepsHeld
        /\ ackCounter' = ackCounter /\ kit'.sent = kit.sent
        /\ toBrowser' = Sent(toBrowser, held[t])
    BY <1>5 DEF SendStep
  <2>2. /\ held[t] \in Frames /\ held[t].ackid \in (AckBase + 1)..ackCounter
        /\ \A i \in 1..Len(toBrowser) : toBrowser[i].ackid # held[t].ackid
    BY <1>1, <2>1 DEF AckidInv
  <2>3. AckidsFresh'
    BY <1>1, <2>1, <2>2, AppendFresh DEF AckidInv
  <2>4. \A i \in 1..Len(toBrowser') :
          \/ toBrowser'[i] = held[t]
          \/ i \in 1..Len(toBrowser) /\ toBrowser'[i] = toBrowser[i]
    BY <1>1, <2>1, <2>2, SentElements
  <2>5. \A i \in 1..Len(toBrowser') :
          \/ toBrowser'[i].ackid \in 1..kit'.sent
          \/ toBrowser'[i].ackid \in (AckBase + 1)..ackCounter'
    BY <1>1, <2>1, <2>2, <2>4 DEF AckidInv
  <2>6. \A u \in Stamped' :
          /\ held'[u].ackid \in (AckBase + 1)..ackCounter'
          /\ \A i \in 1..Len(toBrowser') : toBrowser'[i].ackid # held'[u].ackid
    <3> SUFFICES ASSUME NEW u \in Stamped'
                 PROVE  /\ held'[u].ackid \in (AckBase + 1)..ackCounter'
                        /\ \A i \in 1..Len(toBrowser') :
                             toBrowser'[i].ackid # held'[u].ackid
      OBVIOUS
    <3>1. u \in Stamped /\ u # t /\ held'[u] = held[u]
      BY <2>1 DEF KeepsHeld
    <3>2. /\ held[u].ackid \in (AckBase + 1)..ackCounter
          /\ held[t].ackid # held[u].ackid
          /\ \A i \in 1..Len(toBrowser) : toBrowser[i].ackid # held[u].ackid
      BY <2>1, <3>1 DEF AckidInv
    <3> QED BY <2>1, <2>4, <3>1, <3>2
  <2>7. \A u, v \in Stamped' : u # v => held'[u].ackid # held'[v].ackid
    BY <2>1 DEF AckidInv, KeepsHeld
  <2> QED BY <2>1, <2>3, <2>5, <2>6, <2>7 DEF AckidInv
<1> QED
  BY <1>2, <1>3, <1>4, <1>5, NextAckid DEF AckidStep

LEMMA AckidInvInit == Init => AckidInv
BY NegotiationAssumption DEF Init, InitialAckid, AckidInv, AckidsFresh, Stamped

\* No two frames on the browser's socket carry the same ackid (session.go:61-65):
\* for any number of frames, as long as Kit's own ackids stay below ackBase.
THEOREM FreshAckids == Spec => []AckidsFresh
<1>1. Init => TypeInv /\ AckidInv
  BY InitType, ConstantTypes, AckidInvInit DEF Init, TypeInv, GathererInv
<1>2. TypeInv /\ AckidInv /\ [Next]_vars => (TypeInv /\ AckidInv)'
  BY TypeStep, AckidInvStep
<1>3. AckidInv => AckidsFresh
  BY DEF AckidInv
<1> QED BY <1>1, <1>2, <1>3, PTL DEF Spec
=============================================================================
