----------------------- MODULE NegotiationOfferProofs -----------------------
(***************************************************************************)
(* Proofs about offers and answers, for any number of them: which offer of *)
(* the gateway the browser has still to answer, and that the answers and,  *)
(* when only Kit offers, the offers meet a peer connection that takes them.*)
(***************************************************************************)
EXTENDS NegotiationFrameProofs

-----------------------------------------------------------------------------
(* The one offer the browser has still to answer.                          *)

\* The offer k is set in the downstream peer and on its way to the browser.
Pending(k) == at[Build(k)] \in {"gather", "ackid", "send"}

\* Frame i is an offer the browser has not read.
Waiting(i) == i > browser.seen /\ toBrowser[i].type = "offer"

AwaitsAnswer(k) == Open(bp) => bp.sig = "haveLocalOffer" /\ bp.local = k

\* An offer pending, waiting or owed an answer is the one bp waits on, and
\* there is one such offer only.
OfferInv ==
  /\ browser.seen <= Len(toBrowser)
  /\ \A k \in Offers : Pending(k) =>
       /\ AwaitsAnswer(k) /\ browser.owes = 0
       /\ \A i \in 1..Len(toBrowser) : ~Waiting(i)
       /\ \A j \in Offers : Pending(j) => j = k
  /\ \A i \in 1..Len(toBrowser) : Waiting(i) =>
       /\ AwaitsAnswer(toBrowser[i].of) /\ browser.owes = 0
       /\ \A j \in 1..Len(toBrowser) : Waiting(j) => j = i
  /\ browser.owes # 0 => AwaitsAnswer(browser.owes)

\* A step that neither sets, sends nor shows an offer, nor takes an answer.
CalmPeer == \A k : AwaitsAnswer(k) => AwaitsAnswer(k)'
CalmThreads == \A k \in Offers : Pending(k)' => Pending(k)
CalmWire ==
  \/ toBrowser' = toBrowser
  \/ \E f \in Frames : f.type # "offer" /\ toBrowser' = Sent(toBrowser, f)
CalmBrowser == browser'.seen = browser.seen /\ browser'.owes = browser.owes
CalmStep == CalmPeer /\ CalmThreads /\ CalmWire /\ CalmBrowser

LEMMA SamePeer ==
  \/ bp'.sig = bp.sig /\ bp'.local = bp.local
  \/ bp.sig \in {"stable", "haveRemoteOffer"}
  \/ bp'.sig = "closed"
  => CalmPeer
BY DEF CalmPeer, AwaitsAnswer, Open

LEMMA PeerCalls ==
  ASSUME NEW c \in PeerConnections, NEW k \in Nat
  PROVE  /\ CreateOffer(c, k).sig = c.sig /\ CreateOffer(c, k).local = c.local
         /\ CreateAnswer(c, k).sig = c.sig /\ CreateAnswer(c, k).local = c.local
         /\ GatheringCompletePromise(c, k).sig = c.sig
         /\ GatheringCompletePromise(c, k).local = c.local
         /\ GatheringComplete(c).sig = c.sig /\ GatheringComplete(c).local = c.local
         /\ Close(c).sig = "closed"
         /\ SetRemoteOffer(c).sig = "haveRemoteOffer"
         /\ SetRemoteAnswer(c).sig = "stable"
         /\ SetLocalAnswer(c).sig = "stable"
         /\ SetLocalOffer(c).sig = "haveLocalOffer" /\ SetLocalOffer(c).local = c.offer
<1>1. /\ CreateOffer(c, k).sig = c.sig /\ CreateOffer(c, k).local = c.local
      /\ CreateAnswer(c, k).sig = c.sig /\ CreateAnswer(c, k).local = c.local
      /\ Close(c).sig = "closed"
  BY DEF PeerConnections, CreateOffer, CreateAnswer, Close
<1>2. /\ GatheringCompletePromise(c, k).sig = c.sig
      /\ GatheringCompletePromise(c, k).local = c.local
      /\ GatheringComplete(c).sig = c.sig /\ GatheringComplete(c).local = c.local
  BY DEF PeerConnections, GatheringCompletePromise, GatheringComplete
<1>3. /\ SetRemoteOffer(c).sig = "haveRemoteOffer"
      /\ SetRemoteAnswer(c).sig = "stable"
  BY DEF PeerConnections, SetRemoteOffer, SetRemoteAnswer
<1>4. /\ SetLocalAnswer(c).sig = "stable"
      /\ SetLocalOffer(c).sig = "haveLocalOffer" /\ SetLocalOffer(c).local = c.offer
  BY DEF PeerConnections, SetLocalAnswer, SetLocalOffer, StartGathering
<1> QED BY <1>1, <1>2, <1>3, <1>4

LEMMA CalmMove ==
  ASSUME TypeOK, NEW t \in Threads, NEW label, at' = [at EXCEPT ![t] = label],
         \A k \in Offers :
           t = Build(k) /\ label \in {"gather", "ackid", "send"} => Pending(k)
  PROVE  CalmThreads
BY ConstantTypes DEF CalmThreads, Pending, TypeOK

LEMMA CalmOffers == OfferInv /\ TypeOK /\ TypeOK' /\ CalmStep => OfferInv'
<1> SUFFICES ASSUME OfferInv, TypeOK, TypeOK', CalmStep PROVE OfferInv'
  OBVIOUS
<1> USE WireTypes
<1>1. /\ browser.seen \in Nat /\ Len(toBrowser) \in Nat /\ Len(toBrowser') \in Nat
      /\ browser'.seen = browser.seen /\ browser'.owes = browser.owes
  <2>1. toBrowser' \in Seq(Frames) /\ browser.seen \in Nat
    BY DEF TypeOK
  <2>2. browser'.seen = browser.seen /\ browser'.owes = browser.owes
    BY DEF CalmStep, CalmBrowser
  <2> QED BY <2>1, <2>2
<1>2. /\ Len(toBrowser) <= Len(toBrowser')
      /\ \A i \in 1..Len(toBrowser') : Waiting(i)' =>
           i \in 1..Len(toBrowser) /\ Waiting(i) /\ toBrowser'[i] = toBrowser[i]
  <2>1. CASE toBrowser' = toBrowser
    BY <1>1, <2>1 DEF Waiting
  <2>2. ASSUME NEW f \in Frames, f.type # "offer", toBrowser' = Sent(toBrowser, f)
        PROVE  <1>2!:
    <3>1. Len(toBrowser) <= Len(toBrowser')
      BY <2>2, SentFacts
    <3>2. ASSUME NEW i \in 1..Len(toBrowser'), Waiting(i)'
          PROVE  i \in 1..Len(toBrowser) /\ Waiting(i) /\ toBrowser'[i] = toBrowser[i]
      <4>1. toBrowser'[i].type = "offer" /\ i > browser.seen
        BY <1>1, <3>2 DEF Waiting
      <4>2. toBrowser'[i] = f \/ (i \in 1..Len(toBrowser) /\ toBrowser'[i] = toBrowser[i])
        BY <2>2, NewOnBrowserWire
      <4> QED BY <2>2, <4>1, <4>2 DEF Waiting
    <3> QED BY <3>1, <3>2
  <2> QED BY <2>1, <2>2 DEF CalmStep, CalmWire
<1>3. /\ \A k : AwaitsAnswer(k) => AwaitsAnswer(k)'
      /\ \A k \in Offers : Pending(k)' => Pending(k)
  BY DEF CalmStep, CalmPeer, CalmThreads
<1> QED BY <1>1, <1>2, <1>3 DEF OfferInv

LEMMA HookCalm ==
  TypeOK /\ (Kit \/ BrowserOffer \/ BrowserCandidate \/ BrowserUnknown) => CalmStep
<1> SUFFICES ASSUME TypeOK, Kit \/ BrowserOffer \/ BrowserCandidate \/ BrowserUnknown
             PROVE  CalmStep
  OBVIOUS
<1> USE DEF CalmStep
<1>1. CASE Kit
  <2>1. bp' = bp /\ CalmBrowser
    BY <1>1 DEF Kit, KitPeerInfo, KitUnknown, KitOffer, KitAnswer, KitCandidate,
        AddKitCandidate,
       CalmBrowser
  <2>2. CalmWire
    <3>1. kit.sent + 1 \in Nat /\ \A n \in Nat : Passed(n) \in Frames
      BY WireTypes
    <3>2. \A n \in Nat : Passed(n).type = "passed"
      BY DEF Passed, Frame
    <3> QED BY <1>1, <3>1, <3>2, KitWires DEF KitStep, Writes, CalmWire
  <2>3. CalmThreads
    <3>1. CASE KitOffer
      <4>1. PICK k \in Offers : at' = [at EXCEPT ![Handle(k)] = "setRemote"]
        BY <3>1 DEF KitOffer, Goto
      <4> QED BY <4>1, CalmMove, ConstantTypes, HandlersDiffer
    <3>2. CASE ~KitOffer
      BY <1>1, <3>2
      DEF Kit, KitPeerInfo, KitUnknown, KitAnswer, KitCandidate, AddKitCandidate,
          threads, CalmThreads,
          Pending
    <3> QED BY <3>1, <3>2
  <2> QED BY <2>1, <2>2, <2>3, SamePeer
<1>2. CASE BrowserOffer
  <2>1. PICK b \in BrowserOffers :
           /\ browser' = [browser EXCEPT !.offers = b]
           /\ \/ bp.sig = "stable" /\ at' = [at EXCEPT ![Bridge(b)] = "createOffer"]
              \/ UNCHANGED <<bp, at>>
           /\ toBrowser' = toBrowser
    BY <1>2 DEF BrowserOffer, Goto
  <2>2. CalmBrowser /\ CalmPeer /\ CalmWire
    BY <2>1, SamePeer DEF CalmBrowser, CalmWire, TypeOK
  <2>3. CalmThreads
    <3>1. CASE at' = at
      BY <3>1 DEF CalmThreads, Pending
    <3>2. CASE at' = [at EXCEPT ![Bridge(b)] = "createOffer"]
      BY <3>2, CalmMove, ConstantTypes, HandlersDiffer
    <3> QED BY <2>1, <3>1, <3>2
  <2> QED BY <2>2, <2>3
<1>3. CASE BrowserCandidate \/ BrowserUnknown
  BY <1>3
  DEF BrowserCandidate, AddBrowserCandidate, BrowserUnknown, BrowserExtra, threads,
      CalmPeer, AwaitsAnswer,
      Open, CalmThreads, Pending, CalmWire, CalmBrowser, TypeOK
<1> QED BY <1>1, <1>2, <1>3

LEMMA HandleCalm ==
  ASSUME TypeOK, NEW k \in Offers, HandleStep(k)
  PROVE  CalmStep
<1>1. UNCHANGED <<bp, browser, toBrowser>>
  BY DEF HandleStep, HandleSetRemote, HandleCreateAnswer, HandleSetLocal, HandleLoad,
     HandleSend, HandleSpawn, OnKitPeer, LoadForKit, LoadFrom, LoadTo, SendToKit, ends
<1>2. CalmThreads
  <2>1. CASE HandleSpawn(k)
    BY <2>1, ConstantTypes, HandlersDiffer DEF HandleSpawn, CalmThreads, Pending, TypeOK
  <2>2. CASE HandleSend(k)
    <3>1. PICK label : at' = [at EXCEPT ![Handle(k)] = label]
      BY <2>2 DEF HandleSend, SendToKit, Goto
    <3> QED BY <3>1, CalmMove, ConstantTypes, HandlersDiffer
  <2>3. CASE ~HandleSpawn(k) /\ ~HandleSend(k)
    <3>1. PICK label \in Labels : at' = [at EXCEPT ![Handle(k)] = label]
      BY <2>3, HandleMoves DEF HandleStep, Moves
    <3> QED BY <3>1, CalmMove, ConstantTypes, HandlersDiffer
  <2> QED BY <2>1, <2>2, <2>3
<1> QED BY <1>1, <1>2, SamePeer DEF CalmStep, CalmWire, CalmBrowser

\* The two steps of buildBrowserOffer that are not calm.
OfferSet(k) ==
  /\ bp.sig = "stable" /\ AwaitsAnswer(k)'
  /\ \A j \in Offers : Pending(j)' => Pending(j) \/ j = k
  /\ UNCHANGED <<toBrowser, browser>>

OfferWritten(k) ==
  /\ Pending(k) /\ held[Build(k)].type = "offer" /\ held[Build(k)].of = k
  /\ \A j \in Offers : Pending(j)' => Pending(j) /\ j # k
  /\ toBrowser' = Sent(toBrowser, held[Build(k)])
  /\ UNCHANGED <<bp, browser>>

LEMMA BuildCalm ==
  ASSUME TypeOK, OwnInv, NEW k \in Offers, BuildStep(k)
  PROVE  CalmStep \/ OfferSet(k) \/ OfferWritten(k)
<1> USE ConstantTypes
<1>1. bp \in PeerConnections
  BY DEF TypeOK
<1>2. ASSUME NEW label, at' = [at EXCEPT ![Build(k)] = label],
             label \in {"gather", "ackid", "send"} => Pending(k),
             UNCHANGED <<toBrowser, browser>>, bp'.sig = bp.sig, bp'.local = bp.local
      PROVE  CalmStep
  BY <1>2, CalmMove, HandlersDiffer, SamePeer DEF CalmStep, CalmWire, CalmBrowser
<1>3. CASE BuildCheck(k)
  BY <1>2, <1>3 DEF BuildCheck, OnBrowserPeer, Goto, ends
<1>4. CASE BuildCreateOffer(k)
  BY <1>1, <1>2, <1>4, PeerCalls DEF BuildCreateOffer, OnBrowserPeer, Goto, ends
<1>5. CASE BuildPromise(k)
  BY <1>1, <1>2, <1>5, PeerCalls DEF BuildPromise, OnBrowserPeer, Goto, ends
<1>6. CASE BuildSetLocal(k)
  <2>1. CASE CanSetLocalOffer(bp, k)
    <3>1. /\ bp' = SetLocalOffer(bp) /\ at' = [at EXCEPT ![Build(k)] = "gather"]
          /\ UNCHANGED <<toBrowser, browser>>
      BY <1>6, <2>1 DEF BuildSetLocal, OnBrowserPeer, Goto, ends
    <3>2. AwaitsAnswer(k)'
      BY <1>1, <2>1, <3>1, PeerCalls DEF AwaitsAnswer, CanSetLocalOffer
    <3>3. \A j \in Offers : Pending(j)' => Pending(j) \/ j = k
      BY <3>1, HandlersDiffer DEF Pending, TypeOK
    <3> QED BY <2>1, <3>1, <3>2, <3>3 DEF OfferSet, CanSetLocalOffer
  <2>2. CASE ~CanSetLocalOffer(bp, k)
    BY <1>2, <1>6, <2>2 DEF BuildSetLocal, OnBrowserPeer, Goto, ends
  <2> QED BY <2>1, <2>2
<1>7. CASE BuildGathered(k)
  BY <1>2, <1>7 DEF BuildGathered, OnBrowserPeer, Goto, ends, Pending
<1>8. CASE BuildAckid(k)
  BY <1>2, <1>8 DEF BuildAckid, TakeAckid, Goto, ends, Pending
<1>9. CASE BuildSend(k)
  <2>1. /\ at[Build(k)] = "send" /\ at' = [at EXCEPT ![Build(k)] = "done"]
        /\ toBrowser' = Sent(toBrowser, held[Build(k)]) /\ UNCHANGED <<bp, browser>>
    BY <1>9 DEF BuildSend, SendToBrowser, Goto, ends
  <2>2. Build(k) \in Stamped
    BY <2>1 DEF Stamped
  <2>3. held[Build(k)].type = "offer" /\ held[Build(k)].of = k
    BY <2>2, HandlersDiffer, LoadersDiffer, ThreadsDiffer
    DEF OwnInv, OwnForBrowser, Gatherers
  <2>4. \A j \in Offers : Pending(j)' => Pending(j) /\ j # k
    BY <2>1, HandlersDiffer DEF Pending, TypeOK
  <2> QED BY <2>1, <2>3, <2>4 DEF OfferWritten, Pending
<1> QED BY <1>3, <1>4, <1>5, <1>6, <1>7, <1>8, <1>9 DEF BuildStep

LEMMA BridgeCalm ==
  ASSUME TypeOK, OwnInv, NEW b \in BrowserOffers, BridgeStep(b)
  PROVE  CalmStep
<1> USE ConstantTypes
<1>1. CalmThreads
  BY BridgeMoves, CalmMove, HandlersDiffer DEF Moves
<1>2. browser' = browser
  BY DEF BridgeStep, BridgeCreateOffer, BridgeSetLocal, BridgeLoad, BridgeSend,
     BridgeWait, BridgeCreateAnswer, BridgeSetLocalAnswer, BridgeAckid,
     BridgeSendAnswer, OnKitPeer, OnBrowserPeer, LoadForKit, LoadFrom, LoadTo,
     TakeAckid, SendToKit, SendToBrowser, ends
<1>3. CASE BridgeSendAnswer(b)
  <2>1. /\ at[Bridge(b)] = "sendAnswer"
        /\ toBrowser' = Sent(toBrowser, held[Bridge(b)]) /\ bp' = bp
    BY <1>3 DEF BridgeSendAnswer, SendToBrowser
  <2>2. Bridge(b) \in Stamped
    BY <2>1 DEF Stamped
  <2>3. held[Bridge(b)] \in Frames /\ held[Bridge(b)].type # "offer"
    BY <2>2, WireTypes, HandlersDiffer DEF OwnInv, OwnForBrowser
  <2> QED BY <1>1, <1>2, <2>1, <2>3, SamePeer DEF CalmStep, CalmBrowser, CalmWire
<1>4. CASE ~BridgeSendAnswer(b)
  <2>1. toBrowser' = toBrowser
    BY <1>4 DEF BridgeStep, BridgeCreateOffer, BridgeSetLocal, BridgeLoad, BridgeSend,
       BridgeWait, BridgeCreateAnswer, BridgeSetLocalAnswer, BridgeAckid, OnKitPeer,
       OnBrowserPeer, LoadForKit, LoadFrom, LoadTo, TakeAckid, SendToKit
  <2>2. bp' = bp \/ bp.sig = "haveRemoteOffer"
    BY <1>4 DEF BridgeStep, BridgeCreateOffer, BridgeSetLocal, BridgeLoad, BridgeSend,
       BridgeWait, BridgeCreateAnswer, BridgeSetLocalAnswer, BridgeAckid, OnKitPeer,
       OnBrowserPeer, LoadForKit, LoadFrom, LoadTo, TakeAckid, SendToKit,
       CanSetLocalAnswer
  <2> QED BY <1>1, <1>2, <2>1, <2>2, SamePeer DEF CalmStep, CalmBrowser, CalmWire
<1> QED BY <1>3, <1>4

LEMMA OtherCalm ==
  ASSUME TypeOK, OwnInv,
         \/ KitSideStep \/ BrowserSideStep \/ TearDown \/ UNCHANGED vars
         \/ \E pump \in {"kit", "client"} : CloseSockets(pump)
  PROVE  CalmStep
<1> USE ConstantTypes
<1>1. bp \in PeerConnections
  BY DEF TypeOK
<1>2. browser' = browser
  BY DEF KitSideStep, BrowserSideStep, KitSideCandidate, KitSideSend, KitSideGathered,
     BrowserSideCandidate, BrowserSideSend, BrowserSideGathered, SentCandidate,
     LoadForKit, LoadFrom, LoadTo, TakeAckid, TearDown, Cancel, CloseBrowserPeer,
     CloseKitPeer, CloseSockets, vars, ends
<1>3. \/ bp' = bp \/ bp' = GatheringComplete(bp) \/ bp' = Close(bp)
  BY DEF KitSideStep, BrowserSideStep, KitSideCandidate, KitSideSend, KitSideGathered,
     BrowserSideCandidate, BrowserSideSend, BrowserSideGathered, SentCandidate,
     LoadForKit, LoadFrom, LoadTo, TakeAckid, TearDown, Cancel, CloseBrowserPeer,
     CloseKitPeer, CloseSockets, vars
<1>4. \/ toBrowser' = toBrowser
      \/ BrowserSide \in Stamped /\ toBrowser' = Sent(toBrowser, held[BrowserSide])
  BY DEF KitSideStep, BrowserSideStep, KitSideCandidate, KitSideSend, KitSideGathered,
     BrowserSideCandidate, BrowserSideSend, BrowserSideGathered, SentCandidate,
     LoadForKit, LoadFrom, LoadTo, TakeAckid, TearDown, Cancel, CloseBrowserPeer,
     CloseKitPeer, CloseSockets, vars, Stamped
<1>5. BrowserSide \in Stamped =>
        held[BrowserSide] \in Frames /\ held[BrowserSide].type # "offer"
  BY WireTypes, ThreadsDiffer DEF OwnInv, OwnForBrowser
<1>6. at' = at \/ \E g \in Gatherers, label \in {"idle", "loaded", "send"} :
                    at' = [at EXCEPT ![g] = label]
  BY DEF KitSideStep, BrowserSideStep, KitSideCandidate, KitSideSend, KitSideGathered,
     BrowserSideCandidate, BrowserSideSend, BrowserSideGathered, SentCandidate,
     LoadForKit, LoadFrom, LoadTo, TakeAckid, TearDown, Cancel, CloseBrowserPeer,
     CloseKitPeer, CloseSockets, vars, Goto, threads
<1>7. CalmThreads
  <2>1. CASE at' = at
    BY <2>1 DEF CalmThreads, Pending
  <2>2. ASSUME NEW g \in Gatherers, NEW label, at' = [at EXCEPT ![g] = label]
        PROVE  CalmThreads
    <3>1. g \in Threads /\ \A k \in Offers : g # Build(k)
      BY ThreadsDiffer
    <3> QED BY <2>2, <3>1, CalmMove
  <2> QED BY <1>6, <2>1, <2>2
<1>8. CalmPeer
  BY <1>1, <1>3, PeerCalls, SamePeer
<1> QED BY <1>2, <1>4, <1>5, <1>7, <1>8 DEF CalmStep, CalmBrowser, CalmWire

\* What a step can do to the offers on their way to the browser.
OfferStep ==
  \/ CalmStep
  \/ \E k \in Offers : OfferSet(k) \/ OfferWritten(k)
  \/ BrowserReads \/ BrowserAnswer

LEMMA NextOffers == TypeOK /\ OwnInv /\ [Next]_vars => OfferStep
BY HookCalm, HandleCalm, BuildCalm, BridgeCalm, OtherCalm DEF Next, OfferStep, Browser

LEMMA OfferInvStep ==
  TypeInv /\ OwnInv /\ OfferInv /\ [Next]_vars => OfferInv'
<1> SUFFICES ASSUME TypeOK, TypeOK', OwnInv, OfferInv, OfferStep PROVE OfferInv'
  BY TypeStep, NextOffers DEF TypeInv
<1>0. /\ toBrowser \in Seq(Frames) /\ toBrowser' \in Seq(Frames)
      /\ Len(toBrowser) \in Nat /\ Len(toBrowser') \in Nat
      /\ browser.seen \in Nat /\ browser.owes \in Nat
  <2>1. toBrowser \in Seq(Frames) /\ toBrowser' \in Seq(Frames)
    BY DEF TypeOK
  <2>2. browser.seen \in Nat /\ browser.owes \in Nat
    BY DEF TypeOK
  <2> QED BY <2>1, <2>2
<1>1. CASE CalmStep
  BY <1>1, CalmOffers
<1>2. ASSUME NEW k \in Offers, OfferSet(k)
      PROVE  OfferInv'
  <2>1. \A j : ~AwaitsAnswer(j)
    BY <1>2 DEF OfferSet, AwaitsAnswer, Open
  <2>2. /\ \A j \in Offers : ~Pending(j)
        /\ \A i \in 1..Len(toBrowser) : ~Waiting(i)
        /\ browser.owes = 0
    BY <2>1 DEF OfferInv
  <2>3. /\ \A j \in Offers : Pending(j)' => j = k
        /\ \A i \in 1..Len(toBrowser') : ~Waiting(i)'
        /\ browser'.owes = 0 /\ browser'.seen <= Len(toBrowser')
    BY <1>2, <2>2 DEF OfferSet, Waiting, OfferInv
  <2> QED BY <1>2, <2>3 DEF OfferSet, OfferInv
<1>3. ASSUME NEW k \in Offers, OfferWritten(k)
      PROVE  OfferInv'
  <2>1. /\ AwaitsAnswer(k) /\ browser.owes = 0
        /\ \A i \in 1..Len(toBrowser) : ~Waiting(i)
        /\ \A j \in Offers : Pending(j) => j = k
    BY <1>3 DEF OfferWritten, OfferInv
  <2>2. \A j \in Offers : ~Pending(j)'
    BY <1>3, <2>1 DEF OfferWritten
  <2>3. AwaitsAnswer(k)' /\ browser'.owes = 0 /\ browser'.seen = browser.seen
    BY <1>3, <2>1 DEF OfferWritten, AwaitsAnswer, Open
  <2>4. PICK f \in Frames : f = held[Build(k)]
    BY ConstantTypes DEF TypeOK
  <2>5. f.of = k /\ toBrowser' = Sent(toBrowser, f)
    BY <1>3, <2>4 DEF OfferWritten
  <2>6. \/ toBrowser' = toBrowser
        \/ /\ Len(toBrowser') = Len(toBrowser) + 1
           /\ \A i \in 1..Len(toBrowser) : toBrowser'[i] = toBrowser[i]
           /\ toBrowser'[Len(toBrowser) + 1] = f
    BY <1>0, <2>5, SentFacts
  <2>7. \A i \in 1..Len(toBrowser') :
          Waiting(i)' => i = Len(toBrowser) + 1 /\ toBrowser'[i] = f
    BY <1>0, <2>1, <2>3, <2>6 DEF Waiting
  <2>8. browser'.seen <= Len(toBrowser')
    BY <1>0, <2>3, <2>6 DEF OfferInv
  <2> QED BY <2>2, <2>3, <2>5, <2>7, <2>8 DEF OfferInv
<1>4. CASE BrowserReads
  <2>n. PICK n \in Nat : n = browser.seen + 1
    BY <1>0
  <2>1. n \in 1..Len(toBrowser)
    BY <1>0, <1>4, <2>n DEF BrowserReads
  <2>2. PICK f \in Frames : f = toBrowser[n]
    BY <1>0, <2>1
  <2>3. /\ browser'.seen = n
        /\ browser'.owes = IF f.type = "offer" THEN f.of ELSE browser.owes
        /\ UNCHANGED <<bp, at, toBrowser>>
    BY <1>4, <2>n, <2>2 DEF BrowserReads, TypeOK, threads
  <2>4. /\ \A k : AwaitsAnswer(k)' <=> AwaitsAnswer(k)
        /\ \A k \in Offers : Pending(k)' <=> Pending(k)
        /\ \A i \in 1..Len(toBrowser') : Waiting(i)' => Waiting(i) /\ i # n
    BY <1>0, <2>n, <2>3 DEF AwaitsAnswer, Open, Pending, Waiting
  <2>5. n <= Len(toBrowser')
    BY <2>1, <2>3
  <2>6. CASE f.type = "offer"
    <3>1. Waiting(n) /\ toBrowser[n].of = f.of
      BY <1>0, <2>n, <2>2, <2>6 DEF Waiting
    <3>2. /\ AwaitsAnswer(f.of)
          /\ \A i \in 1..Len(toBrowser) : Waiting(i) => i = n
          /\ \A k \in Offers : ~Pending(k)
      BY <2>1, <3>1 DEF OfferInv
    <3>3. browser'.owes = f.of
      BY <2>3, <2>6
    <3>4. /\ \A i \in 1..Len(toBrowser') : ~Waiting(i)'
          /\ \A k \in Offers : ~Pending(k)'
          /\ AwaitsAnswer(f.of)'
      BY <2>3, <2>4, <3>2
    <3> QED BY <2>3, <2>5, <3>3, <3>4 DEF OfferInv
  <2>7. CASE f.type # "offer"
    <3>1. browser'.owes = browser.owes
      BY <2>3, <2>7
    <3> QED BY <2>3, <2>4, <2>5, <3>1 DEF OfferInv
  <2> QED BY <2>6, <2>7
<1>5. CASE BrowserAnswer
  <2>1. /\ browser.owes # 0 /\ browser'.owes = 0 /\ browser'.seen = browser.seen
        /\ UNCHANGED <<at, toBrowser>>
    BY <1>5 DEF BrowserAnswer, SetBrowserAnswer, TypeOK, threads
  <2>2. /\ \A k \in Offers : ~Pending(k)
        /\ \A i \in 1..Len(toBrowser) : ~Waiting(i)
    BY <2>1 DEF OfferInv
  <2>3. /\ \A k \in Offers : ~Pending(k)'
        /\ \A i \in 1..Len(toBrowser') : ~Waiting(i)'
    BY <2>1, <2>2 DEF Pending, Waiting
  <2> QED BY <2>1, <2>3 DEF OfferInv
<1> QED BY <1>1, <1>2, <1>3, <1>4, <1>5 DEF OfferStep

LEMMA OfferInvInit == Init => OfferInv
BY ConstantTypes DEF Init, OfferInv, Pending

LEMMA OfferInvAlways == Spec => []OfferInv
<1>1. FrameInv /\ OfferInv /\ [Next]_vars => OfferInv'
  BY OfferInvStep DEF FrameInv
<1> QED BY <1>1, OfferInvInit, FrameInvAlways, PTL DEF Spec

\* An offer the browser has still to answer, written or read, is the one the
\* downstream peer connection waits on, for any number of offers of Kit and of
\* the browser (session.go:425-450).
THEOREM OneOutstandingOffer == Spec => []OutstandingOfferIsCurrent
<1>1. TypeOK /\ OfferInv => OutstandingOfferIsCurrent
  <2> SUFFICES ASSUME TypeOK, OfferInv, NEW k \in Outstanding
               PROVE  AwaitsAnswer(k)
    BY DEF OutstandingOfferIsCurrent, AwaitsAnswer
  <2>0. k # 0
    BY DEF Outstanding, Offers
  <2>1. CASE browser.owes = k
    BY <2>0, <2>1 DEF OfferInv
  <2>2. ASSUME NEW i \in (browser.seen + 1)..Len(toBrowser),
               toBrowser[i].type = "offer", toBrowser[i].of = k
        PROVE  AwaitsAnswer(k)
    <3>1. i \in 1..Len(toBrowser) /\ i > browser.seen
      BY DEF TypeOK
    <3>2. Waiting(i)
      BY <2>2, <3>1 DEF Waiting
    <3> QED BY <2>2, <3>1, <3>2 DEF OfferInv
  <2> QED BY <2>1, <2>2 DEF Outstanding
<1> QED BY <1>1, OfferInvAlways, TypeCorrect, PTL

-----------------------------------------------------------------------------
(* The peer connections are closed by OnClose only, and keep a remote      *)
(* description once they have one.                                         *)

Keeps(c, d) == (Open(d) <=> Open(c)) /\ (c.remote => d.remote)

LEMMA CallsKeep ==
  ASSUME NEW c \in PeerConnections, NEW k \in Nat
  PROVE  /\ Keeps(c, c)
         /\ Keeps(c, CreateOffer(c, k)) /\ Keeps(c, CreateAnswer(c, k))
         /\ Keeps(c, GatheringCompletePromise(c, k)) /\ Keeps(c, GatheringComplete(c))
         /\ Open(c) => /\ Keeps(c, SetRemoteOffer(c)) /\ Keeps(c, SetRemoteAnswer(c))
                       /\ Keeps(c, SetLocalOffer(c)) /\ Keeps(c, SetLocalAnswer(c))
         /\ SetRemoteAnswer(c).remote = TRUE
         /\ ~Open(Close(c)) /\ Close(c).remote = c.remote
<1> USE DEF Keeps, Open, PeerConnections
<1>1. /\ Keeps(c, c)
      /\ Keeps(c, CreateOffer(c, k)) /\ Keeps(c, CreateAnswer(c, k))
      /\ ~Open(Close(c)) /\ Close(c).remote = c.remote
  BY DEF CreateOffer, CreateAnswer, Close
<1>2. Keeps(c, GatheringCompletePromise(c, k)) /\ Keeps(c, GatheringComplete(c))
  BY DEF GatheringCompletePromise, GatheringComplete
<1>3. /\ Open(c) => Keeps(c, SetRemoteOffer(c)) /\ Keeps(c, SetRemoteAnswer(c))
      /\ SetRemoteAnswer(c).remote = TRUE
  BY DEF SetRemoteOffer, SetRemoteAnswer
<1>4. Open(c) => Keeps(c, SetLocalOffer(c)) /\ Keeps(c, SetLocalAnswer(c))
  BY DEF SetLocalOffer, SetLocalAnswer, StartGathering
<1> QED BY <1>1, <1>2, <1>3, <1>4

BothKept == Keeps(kp, kp') /\ Keeps(bp, bp') /\ UNCHANGED stage

LEMMA HookKeeps == TypeOK /\ (Kit \/ Browser) => BothKept
<1> SUFFICES ASSUME TypeOK, Kit \/ Browser PROVE BothKept
  OBVIOUS
<1>1. kp \in PeerConnections /\ bp \in PeerConnections
  BY DEF TypeOK
<1>2. UNCHANGED stage
  BY DEF Kit, KitPeerInfo, KitUnknown, KitOffer, KitAnswer, KitCandidate,
      AddKitCandidate, Browser,
     BrowserReads, BrowserAnswer, SetBrowserAnswer, BrowserOffer, BrowserCandidate,
     AddBrowserCandidate, BrowserUnknown, closing
<1>3. kp' = kp \/ (kp' = SetRemoteAnswer(kp) /\ Open(kp))
  BY DEF Kit, KitPeerInfo, KitUnknown, KitOffer, KitAnswer, KitCandidate,
      AddKitCandidate, Browser,
     BrowserReads, BrowserAnswer, SetBrowserAnswer, BrowserOffer, BrowserCandidate,
     AddBrowserCandidate, BrowserUnknown, Open
<1>4. bp' = bp \/ (Open(bp) /\ bp' \in {SetRemoteAnswer(bp), SetRemoteOffer(bp)})
  BY DEF Kit, KitPeerInfo, KitUnknown, KitOffer, KitAnswer, KitCandidate,
      AddKitCandidate, Browser,
     BrowserReads, BrowserAnswer, SetBrowserAnswer, BrowserOffer, BrowserCandidate,
     AddBrowserCandidate, BrowserUnknown, Open
<1> QED BY <1>1, <1>2, <1>3, <1>4, CallsKeep DEF BothKept

LEMMA HandleKeeps ==
  ASSUME TypeOK, NEW k \in Offers, HandleStep(k)
  PROVE  BothKept
<1>1. kp \in PeerConnections /\ bp \in PeerConnections /\ k \in Nat
  BY ConstantTypes DEF TypeOK
<1>2. UNCHANGED <<stage, bp>>
  BY DEF HandleStep, HandleSetRemote, HandleCreateAnswer, HandleSetLocal, HandleLoad,
     HandleSend, HandleSpawn, OnKitPeer, LoadForKit, LoadFrom, LoadTo, SendToKit,
     closing
<1>3. \/ kp' = kp \/ kp' = CreateAnswer(kp, k)
      \/ Open(kp) /\ kp' \in {SetRemoteOffer(kp), SetLocalAnswer(kp)}
  BY DEF HandleStep, HandleSetRemote, HandleCreateAnswer, HandleSetLocal, HandleLoad,
     HandleSend, HandleSpawn, OnKitPeer, LoadForKit, LoadFrom, LoadTo, SendToKit,
     Open, CanSetLocalAnswer
<1> QED BY <1>1, <1>2, <1>3, CallsKeep DEF BothKept

LEMMA BuildKeeps ==
  ASSUME TypeOK, NEW k \in Offers, BuildStep(k)
  PROVE  BothKept
<1>1. kp \in PeerConnections /\ bp \in PeerConnections /\ k \in Nat
  BY ConstantTypes DEF TypeOK
<1>2. UNCHANGED <<stage, kp>>
  BY DEF BuildStep, BuildCheck, BuildCreateOffer, BuildPromise, BuildSetLocal,
     BuildGathered, BuildAckid, BuildSend, OnBrowserPeer, TakeAckid, SendToBrowser,
     closing
<1>3. \/ bp' \in {bp, CreateOffer(bp, k), GatheringCompletePromise(bp, k)}
      \/ Open(bp) /\ bp' = SetLocalOffer(bp)
  BY DEF BuildStep, BuildCheck, BuildCreateOffer, BuildPromise, BuildSetLocal,
     BuildGathered, BuildAckid, BuildSend, OnBrowserPeer, TakeAckid, SendToBrowser,
     Open, CanSetLocalOffer
<1> QED BY <1>1, <1>2, <1>3, CallsKeep DEF BothKept

LEMMA BridgeKeeps ==
  ASSUME TypeOK, NEW b \in BrowserOffers, BridgeStep(b)
  PROVE  BothKept
<1>1. kp \in PeerConnections /\ bp \in PeerConnections /\ b \in Nat
  BY ConstantTypes DEF TypeOK
<1>2. UNCHANGED stage
  BY DEF BridgeStep, BridgeCreateOffer, BridgeSetLocal, BridgeLoad, BridgeSend,
     BridgeWait, BridgeCreateAnswer, BridgeSetLocalAnswer, BridgeAckid,
     BridgeSendAnswer, OnKitPeer, OnBrowserPeer, LoadForKit, LoadFrom, LoadTo,
     TakeAckid, SendToKit, SendToBrowser, closing
<1>3. \/ kp' = kp \/ kp' = CreateOffer(kp, b)
      \/ Open(kp) /\ kp' = SetLocalOffer(kp)
  BY DEF BridgeStep, BridgeCreateOffer, BridgeSetLocal, BridgeLoad, BridgeSend,
     BridgeWait, BridgeCreateAnswer, BridgeSetLocalAnswer, BridgeAckid,
     BridgeSendAnswer, OnKitPeer, OnBrowserPeer, LoadForKit, LoadFrom, LoadTo,
     TakeAckid, SendToKit, SendToBrowser, Open, CanSetLocalOffer
<1>4. \/ bp' = bp \/ bp' = CreateAnswer(bp, b)
      \/ Open(bp) /\ bp' = SetLocalAnswer(bp)
  BY DEF BridgeStep, BridgeCreateOffer, BridgeSetLocal, BridgeLoad, BridgeSend,
     BridgeWait, BridgeCreateAnswer, BridgeSetLocalAnswer, BridgeAckid,
     BridgeSendAnswer, OnKitPeer, OnBrowserPeer, LoadForKit, LoadFrom, LoadTo,
     TakeAckid, SendToKit, SendToBrowser, Open, CanSetLocalAnswer
<1> QED BY <1>1, <1>2, <1>3, <1>4, CallsKeep DEF BothKept

LEMMA GatherersKeep == TypeOK /\ (KitSideStep \/ BrowserSideStep) => BothKept
<1> SUFFICES ASSUME TypeOK, KitSideStep \/ BrowserSideStep PROVE BothKept
  OBVIOUS
<1>1. kp \in PeerConnections /\ bp \in PeerConnections
  BY DEF TypeOK
<1>2. /\ UNCHANGED stage
      /\ kp' = kp \/ kp' = GatheringComplete(kp)
      /\ bp' = bp \/ bp' = GatheringComplete(bp)
  BY DEF KitSideStep, BrowserSideStep, KitSideCandidate, KitSideSend, KitSideGathered,
     BrowserSideCandidate, BrowserSideSend, BrowserSideGathered, SentCandidate,
     LoadForKit, LoadFrom, LoadTo, TakeAckid, closing
<1> QED BY <1>1, <1>2, CallsKeep DEF BothKept

\* OnClose closes bp, then kp, and nothing else does.
ClosedInv ==
  /\ Open(bp) <=> stage \notin {"browserClosed", "closed"}
  /\ Open(kp) <=> stage # "closed"

LEMMA ClosedInvStep == TypeOK /\ ClosedInv /\ [Next]_vars => ClosedInv'
<1> SUFFICES ASSUME TypeOK, ClosedInv, [Next]_vars PROVE ClosedInv'
  OBVIOUS
<1>1. CASE BothKept
  BY <1>1 DEF BothKept, Keeps, ClosedInv, Open
<1>2. CASE TearDown \/ UNCHANGED vars \/ \E pump \in {"kit", "client"} : CloseSockets(pump)
  <2>1. kp \in PeerConnections /\ bp \in PeerConnections /\ 0 \in Nat
    BY DEF TypeOK
  <2>2. ~Open(Close(bp)) /\ ~Open(Close(kp))
    BY <2>1, CallsKeep
  <2> QED
    BY <1>2, <2>2
    DEF TearDown, Cancel, CloseBrowserPeer, CloseKitPeer, CloseSockets, vars, closing,
        ClosedInv, Live
<1> QED
  BY <1>1, <1>2, HookKeeps, HandleKeeps, BuildKeeps, BridgeKeeps, GatherersKeep DEF Next

-----------------------------------------------------------------------------
(* The offer of the browser that Kit has still to answer.                  *)

Sending(b) == at[Bridge(b)] \in {"load", "loaded", "send"}
Asked(b) == OfferSent(b) /\ kit.answers < b
Unsent(b) == at[Bridge(b)] \in {"idle", "createOffer", "setLocal", "load", "loaded", "send"}

\* Kit is asked to answer one offer at a time, and it is the one kp waits on.
AskInv ==
  /\ \A b \in BrowserOffers : Sending(b) \/ Asked(b) =>
       /\ Open(kp) => kp.sig = "haveLocalOffer"
       /\ \A c \in BrowserOffers : Sending(c) \/ Asked(c) => c = b
  /\ \A b \in BrowserOffers :
       /\ OfferSent(b) => ~Unsent(b)
       /\ b > browser.offers => at[Bridge(b)] = "idle"

SamePlaces ==
  \A b \in BrowserOffers :
    /\ Sending(b)' => Sending(b)
    /\ Unsent(b)' => Unsent(b)
    /\ at[Bridge(b)] = "idle" => at'[Bridge(b)] = "idle"
SameAsked ==
  /\ kit'.answers = kit.answers
  /\ browser'.offers = browser.offers
  /\ \A b \in BrowserOffers : OfferSent(b)' => OfferSent(b)
StillWaits ==
  (Open(kp) => kp.sig = "haveLocalOffer") => (Open(kp)' => kp'.sig = "haveLocalOffer")
AskCalm == SamePlaces /\ SameAsked /\ StillWaits

LEMMA AskCalmStep == AskInv /\ AskCalm => AskInv'
<1> SUFFICES ASSUME AskInv, AskCalm PROVE AskInv'
  OBVIOUS
<1>1. \A b \in BrowserOffers :
        /\ (Sending(b) \/ Asked(b))' => Sending(b) \/ Asked(b)
        /\ Unsent(b)' => Unsent(b)
        /\ OfferSent(b)' => OfferSent(b)
        /\ b > browser'.offers => at'[Bridge(b)] = "idle"
  BY DEF AskCalm, SamePlaces, SameAsked, Asked, AskInv
<1> QED BY <1>1 DEF AskInv, AskCalm, StillWaits

\* A step of the gateway that writes no offer to Kit.
LEMMA NoOfferToKit ==
  ASSUME TypeOK, NEW f \in Frames, f.type # "offer", toKit' = Sent(toKit, f)
  PROVE  \A b \in BrowserOffers : OfferSent(b)' => OfferSent(b)
<1> SUFFICES ASSUME NEW b, NEW i \in 1..Len(toKit'),
                    toKit'[i].type = "offer", toKit'[i].of = b
             PROVE  \E j \in 1..Len(toKit) : toKit[j].type = "offer" /\ toKit[j].of = b
  BY DEF OfferSent
<1>1. i \in 1..Len(toKit) /\ toKit'[i] = toKit[i]
  BY NewOnKitWire
<1> QED BY <1>1

LEMMA PlacesKept ==
  /\ at' = at => SamePlaces
  /\ TypeOK /\ (\E k \in Offers, label \in Labels :
       \/ at' = [at EXCEPT ![Handle(k)] = label]
       \/ at' = [at EXCEPT ![Build(k)] = label]) => SamePlaces
  /\ TypeOK /\ (\E g \in Gatherers, label \in Labels : at' = [at EXCEPT ![g] = label])
       => SamePlaces
<1>1. at' = at => SamePlaces
  BY DEF SamePlaces, Sending, Unsent
<1>2. ASSUME TypeOK, NEW t \in Threads, NEW label, at' = [at EXCEPT ![t] = label],
             \A b \in BrowserOffers : t # Bridge(b)
      PROVE  SamePlaces
  BY <1>2, ConstantTypes DEF SamePlaces, Sending, Unsent, TypeOK
<1> QED BY <1>1, <1>2, ConstantTypes, HandlersDiffer, ThreadsDiffer

LEMMA KitAsk ==
  ASSUME TypeOK, AskInv, Kit
  PROVE  AskInv'
<1> USE ConstantTypes
<1>0. /\ \A n \in Nat : Ack(n) \in Frames /\ Ack(n).type = "ack"
      /\ kit \in [sent : Nat, offers : Nat, answers : Nat, announced : SUBSET Viewers]
      /\ kit.sent + 1 \in Nat
  <2>1. \A n \in Nat : Ack(n) \in Frames /\ Ack(n).type = "ack"
    BY WireTypes DEF Ack, Frame
  <2>2. kit \in [sent : Nat, offers : Nat, answers : Nat, announced : SUBSET Viewers]
    BY DEF TypeOK
  <2> QED BY <2>1, <2>2
<1>1. /\ browser' = browser
      /\ \A b \in BrowserOffers : OfferSent(b)' => OfferSent(b)
  <2>1. browser' = browser
    BY DEF Kit, KitPeerInfo, KitUnknown, KitOffer, KitAnswer, KitCandidate,
       AddKitCandidate
  <2>2. toKit' = toKit \/ toKit' = Sent(toKit, Ack(kit.sent + 1))
    BY KitWires DEF KitStep, Writes
  <2>3. toKit' = toKit => \A b \in BrowserOffers : OfferSent(b)' => OfferSent(b)
    BY DEF OfferSent
  <2> QED BY <1>0, <2>1, <2>2, <2>3, NoOfferToKit
<1>2. SamePlaces
  <2>1. CASE KitOffer
    <3>1. PICK k \in Offers : at' = [at EXCEPT ![Handle(k)] = "setRemote"]
      BY <2>1 DEF KitOffer, Goto
    <3>2. "setRemote" \in Labels
      BY DEF Labels
    <3> QED BY <3>1, <3>2, PlacesKept
  <2>2. CASE ~KitOffer
    BY <2>2, PlacesKept
    DEF Kit, KitPeerInfo, KitUnknown, KitAnswer, KitCandidate, AddKitCandidate, threads
  <2> QED BY <2>1, <2>2
<1>3. CASE ~KitAnswer
  <2>1. kp' = kp /\ kit'.answers = kit.answers
    BY <1>0, <1>3 DEF Kit, KitPeerInfo, KitUnknown, KitOffer, KitCandidate,
       AddKitCandidate
  <2> QED BY <1>1, <1>2, <2>1, AskCalmStep DEF AskCalm, SameAsked, StillWaits, Open
<1>4. CASE KitAnswer
  <2>1. PICK b \in BrowserOffers :
           OfferSent(b) /\ kit.answers < b /\ kit'.answers = b
    BY <1>0, <1>4 DEF KitAnswer
  <2>2. Asked(b) /\ ~Sending(b)
    BY <2>1 DEF Asked, AskInv, Sending, Unsent
  <2>3. \A c \in BrowserOffers : ~(Sending(c) \/ Asked(c))'
    <3>1. ASSUME NEW c \in BrowserOffers, Sending(c)' PROVE FALSE
      BY <1>2, <2>2, <3>1 DEF SamePlaces, AskInv
    <3>2. ASSUME NEW c \in BrowserOffers, Asked(c)' PROVE FALSE
      <4>1. OfferSent(c) /\ b < c /\ kit.answers \in Nat
        BY <1>0, <1>1, <2>1, <3>2 DEF Asked
      <4>2. Asked(c)
        BY <2>1, <4>1 DEF Asked
      <4> QED BY <2>2, <4>1, <4>2 DEF AskInv
    <3> QED BY <3>1, <3>2
  <2>4. \A c \in BrowserOffers :
          /\ OfferSent(c)' => ~Unsent(c)'
          /\ c > browser'.offers => at'[Bridge(c)] = "idle"
    BY <1>1, <1>2 DEF SamePlaces, AskInv
  <2> QED BY <2>3, <2>4 DEF AskInv
<1> QED BY <1>3, <1>4

LEMMA BrowserAsk ==
  ASSUME TypeOK, AskInv, Browser
  PROVE  AskInv'
<1> USE ConstantTypes
<1>0. browser \in BrowserRecords /\ browser.offers \in Nat
  BY DEF TypeOK, BrowserRecords
<1>1. /\ kp' = kp /\ kit' = kit
      /\ \A b \in BrowserOffers : OfferSent(b)' => OfferSent(b)
  <2>1. kp' = kp /\ kit' = kit
    BY DEF Browser, BrowserReads, BrowserAnswer, SetBrowserAnswer, BrowserOffer,
        BrowserCandidate, AddBrowserCandidate,
       BrowserUnknown
  <2>2. toKit' = toKit \/ toKit' = Sent(toKit, FromBrowser)
    BY DEF Browser, BrowserReads, BrowserAnswer, SetBrowserAnswer, BrowserOffer,
        BrowserCandidate, AddBrowserCandidate,
       BrowserUnknown, FromBrowser
  <2>3. toKit' = toKit => \A b \in BrowserOffers : OfferSent(b)' => OfferSent(b)
    BY DEF OfferSent
  <2>4. FromBrowser \in Frames /\ FromBrowser.type # "offer"
    BY WireTypes DEF FromBrowser, Frame
  <2> QED BY <2>1, <2>2, <2>3, <2>4, NoOfferToKit
<1>2. CASE ~BrowserOffer
  <2>1. at' = at /\ browser'.offers = browser.offers
    BY <1>0, <1>2 DEF Browser, BrowserReads, BrowserAnswer, SetBrowserAnswer,
        BrowserCandidate, AddBrowserCandidate,
       BrowserUnknown, BrowserExtra, threads, BrowserRecords
  <2> QED
    BY <1>1, <2>1, PlacesKept, AskCalmStep DEF AskCalm, SameAsked, StillWaits, Open
<1>3. CASE BrowserOffer
  <2>1. PICK b \in BrowserOffers :
           /\ b = browser.offers + 1 /\ browser'.offers = b
           /\ at' = at \/ at' = [at EXCEPT ![Bridge(b)] = "createOffer"]
    BY <1>0, <1>3 DEF BrowserOffer, Goto, BrowserRecords
  <2>2. at[Bridge(b)] = "idle" /\ ~OfferSent(b)
    BY <1>0, <2>1 DEF AskInv, Unsent
  <2>3. \A c \in BrowserOffers :
          /\ \/ at'[Bridge(c)] = at[Bridge(c)]
             \/ c = b /\ at'[Bridge(c)] = "createOffer" /\ at[Bridge(c)] = "idle"
          /\ c > browser'.offers => c > browser.offers /\ c # b
    <3>1. \A c \in BrowserOffers : c # b => Bridge(c) # Bridge(b)
      BY DEF Bridge
    <3>2. \A c \in BrowserOffers : c > browser'.offers => c > browser.offers /\ c # b
      BY <1>0, <2>1
    <3> QED BY <2>1, <2>2, <3>1, <3>2 DEF TypeOK
  <2>4. \A c \in BrowserOffers : Sending(c)' => Sending(c)
    BY <2>3 DEF Sending
  <2>5. \A c \in BrowserOffers : Unsent(c)' => Unsent(c)
    BY <2>3 DEF Unsent
  <2>6. \A c \in BrowserOffers : Asked(c)' => Asked(c)
    BY <1>1 DEF Asked
  <2>7. \A c \in BrowserOffers : c > browser'.offers => at'[Bridge(c)] = "idle"
    BY <2>3 DEF AskInv
  <2> QED BY <1>1, <2>4, <2>5, <2>6, <2>7 DEF AskInv, Open
<1> QED BY <1>2, <1>3

LEMMA HandleAsk ==
  ASSUME TypeOK, OwnInv, AskInv, NEW k \in Offers, HandleStep(k)
  PROVE  AskInv'
<1> USE ConstantTypes
<1>1. kit' = kit /\ browser' = browser
  BY DEF HandleStep, HandleSetRemote, HandleCreateAnswer, HandleSetLocal, HandleLoad,
     HandleSend, HandleSpawn, OnKitPeer, LoadForKit, LoadFrom, LoadTo, SendToKit, ends
<1>2. kp' = kp \/ kp.sig \in {"stable", "haveRemoteOffer"}
  BY DEF HandleStep, HandleSetRemote, HandleCreateAnswer, HandleSetLocal, HandleLoad,
     HandleSend, HandleSpawn, OnKitPeer, LoadForKit, LoadFrom, LoadTo, SendToKit,
     CanSetLocalAnswer
<1>3. \A b \in BrowserOffers : OfferSent(b)' => OfferSent(b)
  <2>1. CASE HandleSend(k)
    <3>1. Handle(k) \in Loaded /\ toKit' = Sent(toKit, held[Handle(k)])
      BY <2>1 DEF HandleSend, SendToKit, Loaded
    <3>2. held[Handle(k)] \in Frames /\ held[Handle(k)].type # "offer"
      BY <3>1, WireTypes, HandlersDiffer DEF OwnInv, OwnForKit
    <3> QED BY <3>1, <3>2, NoOfferToKit
  <2>2. CASE ~HandleSend(k)
    BY <2>2 DEF HandleStep, HandleSetRemote, HandleCreateAnswer, HandleSetLocal,
       HandleLoad, HandleSpawn, OnKitPeer, LoadForKit, LoadFrom, LoadTo, OfferSent
  <2> QED BY <2>1, <2>2
<1>4. SamePlaces
  <2>1. CASE HandleSpawn(k)
    BY <2>1, HandlersDiffer DEF HandleSpawn, SamePlaces, Sending, Unsent, TypeOK
  <2>2. CASE ~HandleSpawn(k)
    <3>1. PICK label \in Labels : at' = [at EXCEPT ![Handle(k)] = label]
      BY <2>2, HandleMoves DEF HandleStep, HandleSend, SendToKit, Goto, Labels, Moves
    <3> QED BY <3>1, PlacesKept
  <2> QED BY <2>1, <2>2
<1> QED
  BY <1>1, <1>2, <1>3, <1>4, AskCalmStep DEF AskCalm, SameAsked, StillWaits, Open

LEMMA BridgeAsk ==
  ASSUME TypeOK, OwnInv, AskInv, NEW b \in BrowserOffers, BridgeStep(b)
  PROVE  AskInv'
<1> USE ConstantTypes
<1>0. \A c \in BrowserOffers : c # b => Bridge(c) # Bridge(b)
  BY DEF Bridge
<1>1. kit' = kit /\ browser' = browser
  BY DEF BridgeStep, BridgeCreateOffer, BridgeSetLocal, BridgeLoad, BridgeSend,
     BridgeWait, BridgeCreateAnswer, BridgeSetLocalAnswer, BridgeAckid,
     BridgeSendAnswer, OnKitPeer, OnBrowserPeer, LoadForKit, LoadFrom, LoadTo,
     TakeAckid, SendToKit, SendToBrowser, ends
<1>2. ~BridgeSend(b) => \A c \in BrowserOffers : OfferSent(c)' => OfferSent(c)
  BY DEF BridgeStep, BridgeCreateOffer, BridgeSetLocal, BridgeLoad, BridgeWait,
     BridgeCreateAnswer, BridgeSetLocalAnswer, BridgeAckid, BridgeSendAnswer, OnKitPeer,
     OnBrowserPeer, LoadForKit, LoadFrom, LoadTo, TakeAckid, SendToBrowser, OfferSent
<1>3. ASSUME NEW label, at' = [at EXCEPT ![Bridge(b)] = label], at[Bridge(b)] # "idle",
             label \in {"load", "loaded", "send"} => Sending(b),
             label \in {"idle", "createOffer", "setLocal", "load", "loaded", "send"} => Unsent(b)
      PROVE  SamePlaces
  BY <1>0, <1>3 DEF SamePlaces, Sending, Unsent, TypeOK
<1>4. CASE BridgeCreateOffer(b)
  <2>1. SamePlaces
    BY <1>3, <1>4 DEF BridgeCreateOffer, OnKitPeer, Goto, Unsent
  <2>2. kp' = kp \/ kp' = CreateOffer(kp, b)
    BY <1>4 DEF BridgeCreateOffer, OnKitPeer
  <2>3. kp \in PeerConnections /\ b \in Nat
    BY DEF TypeOK
  <2>4. StillWaits
    BY <2>2, <2>3, PeerCalls DEF StillWaits, Open
  <2> QED BY <1>1, <1>2, <1>4, <2>1, <2>4, AskCalmStep DEF AskCalm, SameAsked,
          BridgeCreateOffer, BridgeSend, OnKitPeer, SendToKit
<1>5. CASE BridgeSetLocal(b)
  <2>1. CASE ~CanSetLocalOffer(kp, b)
    <3>1. SamePlaces /\ kp' = kp
      BY <1>3, <1>5, <2>1 DEF BridgeSetLocal, OnKitPeer, Goto
    <3> QED BY <1>1, <1>2, <1>5, <3>1, AskCalmStep DEF AskCalm, SameAsked, StillWaits,
            Open, BridgeSetLocal, BridgeSend, OnKitPeer, SendToKit
  <2>2. CASE CanSetLocalOffer(kp, b)
    <3>1. /\ at' = [at EXCEPT ![Bridge(b)] = "load"] /\ kp' = SetLocalOffer(kp)
          /\ at[Bridge(b)] = "setLocal" /\ kp.sig = "stable" /\ toKit' = toKit
      BY <1>5, <2>2 DEF BridgeSetLocal, OnKitPeer, Goto, CanSetLocalOffer
    <3>2. \A c \in BrowserOffers : ~Sending(c) /\ ~Asked(c)
      BY <3>1 DEF AskInv, Open
    <3>3. \A c \in BrowserOffers : OfferSent(c)' <=> OfferSent(c)
      BY <3>1 DEF OfferSent
    <3>4. \A c \in BrowserOffers : ~Asked(c)' /\ (c # b => ~Sending(c)')
      <4>1. \A c \in BrowserOffers : c # b => ~Sending(c)'
        BY <1>0, <3>1, <3>2 DEF Sending, TypeOK
      <4>2. \A c \in BrowserOffers : ~Asked(c)'
        BY <1>1, <3>2, <3>3 DEF Asked
      <4> QED BY <4>1, <4>2
    <3>5. kp'.sig = "haveLocalOffer"
      BY <3>1, PeerCalls DEF TypeOK
    <3>6. \A c \in BrowserOffers :
            /\ Unsent(c)' => Unsent(c)
            /\ at[Bridge(c)] = "idle" => at'[Bridge(c)] = "idle"
      BY <1>0, <3>1 DEF Unsent, TypeOK
    <3> QED BY <1>1, <3>3, <3>4, <3>5, <3>6 DEF AskInv
  <2> QED BY <2>1, <2>2
<1>6. CASE BridgeLoad(b)
  <2>1. SamePlaces /\ kp' = kp
    BY <1>3, <1>6 DEF BridgeLoad, LoadForKit, LoadFrom, LoadTo, Goto, Sending, Unsent
  <2> QED BY <1>1, <1>2, <1>6, <2>1, AskCalmStep DEF AskCalm, SameAsked, StillWaits,
          Open, BridgeLoad, BridgeSend, LoadForKit, LoadFrom, LoadTo, SendToKit
<1>7. CASE BridgeSend(b)
  <2>1. /\ at[Bridge(b)] = "send" /\ toKit' = Sent(toKit, held[Bridge(b)]) /\ kp' = kp
        /\ \/ at' = [at EXCEPT ![Bridge(b)] = "wait"]
           \/ at' = [at EXCEPT ![Bridge(b)] = "done"]
    BY <1>7 DEF BridgeSend, SendToKit, Goto
  <2>2. PICK f \in Frames : f = held[Bridge(b)]
    BY DEF TypeOK
  <2>3. Bridge(b) \in Loaded
    BY <2>1 DEF Loaded
  <2>4. f.of = b
    <3>1. \A c \in BrowserOffers : Bridge(b) = Bridge(c) => c = b
      BY <1>0
    <3> QED BY <2>2, <2>3, <3>1, HandlersDiffer, ThreadsDiffer DEF OwnInv, OwnForKit
  <2>5. \A c \in BrowserOffers : c # b /\ OfferSent(c)' => OfferSent(c)
    <3> SUFFICES ASSUME NEW c \in BrowserOffers, c # b, NEW i \in 1..Len(toKit'),
                        toKit'[i].type = "offer", toKit'[i].of = c
                 PROVE  \E j \in 1..Len(toKit) :
                          toKit[j].type = "offer" /\ toKit[j].of = c
      BY DEF OfferSent
    <3>1. i \in 1..Len(toKit) /\ toKit'[i] = toKit[i]
      BY <2>1, <2>2, <2>4, NewOnKitWire
    <3> QED BY <3>1
  <2>6. /\ Sending(b) /\ Unsent(b) /\ ~OfferSent(b)
        /\ Open(kp) => kp.sig = "haveLocalOffer"
        /\ \A c \in BrowserOffers : Sending(c) \/ Asked(c) => c = b
    BY <2>1 DEF Sending, Unsent, AskInv
  <2>7. \A c \in BrowserOffers :
          /\ Sending(c)' => FALSE
          /\ Unsent(c)' => Unsent(c) /\ c # b
          /\ at[Bridge(c)] = "idle" => at'[Bridge(c)] = "idle"
    <3>1. ASSUME NEW label \in {"wait", "done"}, at' = [at EXCEPT ![Bridge(b)] = label]
          PROVE  <2>7!:
      <4>1. at'[Bridge(b)] = label
            /\ \A c \in BrowserOffers : c # b => at'[Bridge(c)] = at[Bridge(c)]
        BY <1>0, <3>1 DEF TypeOK
      <4>2. \A c \in BrowserOffers : c # b => ~Sending(c)
        BY <2>6
      <4> QED BY <2>1, <4>1, <4>2 DEF Sending, Unsent
    <3> QED BY <2>1, <3>1
  <2>8. \A c \in BrowserOffers : Asked(c)' => c = b
    BY <1>1, <2>5, <2>6 DEF Asked
  <2> QED BY <1>1, <2>1, <2>5, <2>6, <2>7, <2>8 DEF AskInv, Open
<1>8. CASE \/ BridgeWait(b) \/ BridgeCreateAnswer(b) \/ BridgeSetLocalAnswer(b)
           \/ BridgeAckid(b) \/ BridgeSendAnswer(b)
  <2>1. kp' = kp /\ toKit' = toKit
    BY <1>8 DEF BridgeWait, BridgeCreateAnswer, BridgeSetLocalAnswer, BridgeAckid,
       BridgeSendAnswer, OnBrowserPeer, TakeAckid, SendToBrowser
  <2>2. /\ at[Bridge(b)] # "idle"
        /\ \E label \in {"createAnswer", "done", "setLocalAnswer", "ackid",
                         "sendAnswer"} : at' = [at EXCEPT ![Bridge(b)] = label]
    BY <1>8 DEF BridgeWait, BridgeCreateAnswer, BridgeSetLocalAnswer, BridgeAckid,
       BridgeSendAnswer, OnBrowserPeer, TakeAckid, SendToBrowser, Goto
  <2>3. SamePlaces
    BY <1>3, <2>2
  <2>4. \A c \in BrowserOffers : OfferSent(c)' => OfferSent(c)
    BY <2>1 DEF OfferSent
  <2> QED BY <1>1, <2>1, <2>3, <2>4, AskCalmStep DEF AskCalm, SameAsked, StillWaits,
     Open
<1> QED BY <1>4, <1>5, <1>6, <1>7, <1>8 DEF BridgeStep

LEMMA RestAsk ==
  ASSUME TypeOK, OwnInv, AskInv,
         \/ \E k \in Offers : BuildStep(k)
         \/ KitSideStep \/ BrowserSideStep \/ TearDown \/ UNCHANGED vars
         \/ \E pump \in {"kit", "client"} : CloseSockets(pump)
  PROVE  AskInv'
<1> USE ConstantTypes
<1>1. kit' = kit /\ browser' = browser
  BY DEF BuildStep, BuildCheck, BuildCreateOffer, BuildPromise, BuildSetLocal,
     BuildGathered, BuildAckid, BuildSend, OnBrowserPeer, SendToBrowser, KitSideStep,
     BrowserSideStep, KitSideCandidate, KitSideSend, KitSideGathered,
     BrowserSideCandidate, BrowserSideSend, BrowserSideGathered, SentCandidate,
     LoadForKit, LoadFrom, LoadTo, TakeAckid, TearDown, Cancel, CloseBrowserPeer,
     CloseKitPeer, CloseSockets, vars, ends
<1>2. kp' = kp \/ kp' = GatheringComplete(kp) \/ kp' = Close(kp)
  BY DEF BuildStep, BuildCheck, BuildCreateOffer, BuildPromise, BuildSetLocal,
     BuildGathered, BuildAckid, BuildSend, OnBrowserPeer, SendToBrowser, KitSideStep,
     BrowserSideStep, KitSideCandidate, KitSideSend, KitSideGathered,
     BrowserSideCandidate, BrowserSideSend, BrowserSideGathered, SentCandidate,
     LoadForKit, LoadFrom, LoadTo, TakeAckid, TearDown, Cancel, CloseBrowserPeer,
     CloseKitPeer, CloseSockets, vars
<1>3. StillWaits
  <2>1. kp \in PeerConnections /\ 0 \in Nat
    BY DEF TypeOK
  <2> QED BY <1>2, <2>1, PeerCalls DEF StillWaits, Open
<1>4. \/ toKit' = toKit
      \/ KitSide \in Loaded /\ toKit' = Sent(toKit, held[KitSide])
  BY DEF BuildStep, BuildCheck, BuildCreateOffer, BuildPromise, BuildSetLocal,
     BuildGathered, BuildAckid, BuildSend, OnBrowserPeer, SendToBrowser, KitSideStep,
     BrowserSideStep, KitSideCandidate, KitSideSend, KitSideGathered,
     BrowserSideCandidate, BrowserSideSend, BrowserSideGathered, SentCandidate,
     LoadForKit, LoadFrom, LoadTo, TakeAckid, TearDown, Cancel, CloseBrowserPeer,
     CloseKitPeer, CloseSockets, vars, Loaded
<1>5. \A b \in BrowserOffers : OfferSent(b)' => OfferSent(b)
  <2>1. CASE toKit' = toKit
    BY <2>1 DEF OfferSent
  <2>2. CASE KitSide \in Loaded /\ toKit' = Sent(toKit, held[KitSide])
    <3>1. held[KitSide] \in Frames /\ held[KitSide].type # "offer"
      BY <2>2, WireTypes, ThreadsDiffer DEF OwnInv, OwnForKit
    <3> QED BY <2>2, <3>1, NoOfferToKit
  <2> QED BY <1>4, <2>1, <2>2
<1>6. SamePlaces
  <2>1. CASE \E k \in Offers : BuildStep(k)
    BY <2>1, BuildMoves, PlacesKept DEF Moves
  <2>2. CASE KitSideStep \/ BrowserSideStep
    <3>1. at' = at \/ \E g \in Gatherers, label \in {"idle", "loaded", "send"} :
                        at' = [at EXCEPT ![g] = label]
      BY <2>2 DEF KitSideStep, BrowserSideStep, KitSideCandidate, KitSideSend,
         KitSideGathered, BrowserSideCandidate, BrowserSideSend, BrowserSideGathered,
         SentCandidate, LoadForKit, LoadFrom, LoadTo, TakeAckid, Goto, threads
    <3>2. {"idle", "loaded", "send"} \subseteq Labels
      BY DEF Labels
    <3> QED BY <3>1, <3>2, PlacesKept
  <2>3. CASE TearDown \/ UNCHANGED vars \/ \E pump \in {"kit", "client"} : CloseSockets(pump)
    <3>1. at' = at
      BY <2>3 DEF TearDown, Cancel, CloseBrowserPeer, CloseKitPeer, CloseSockets, vars,
         threads
    <3> QED BY <3>1, PlacesKept
  <2> QED BY <2>1, <2>2, <2>3
<1> QED BY <1>1, <1>3, <1>5, <1>6, AskCalmStep DEF AskCalm, SameAsked

LEMMA AskInvStep == TypeInv /\ OwnInv /\ AskInv /\ [Next]_vars => AskInv'
BY KitAsk, BrowserAsk, HandleAsk, BridgeAsk, RestAsk DEF Next, TypeInv

-----------------------------------------------------------------------------
(* When only Kit offers: the offer of Kit that is being handled.           *)

Busy(k) == at[Handle(k)] \in {"setRemote", "createAnswer", "setLocal", "load", "loaded", "send"}
Steady(k) == at[Handle(k)] \in {"setRemote", "load", "loaded", "send"}
Settled == kp.sig \in {"stable", "closed"}

\* Kit's last offer alone is handled, and kp is settled before HandleOffer and
\* after it.
HandleInv ==
  MaxBrowserOffers = 0 =>
    /\ \A k \in Offers :
         /\ AnswerSent(k) => k <= kit.offers
         /\ Busy(k) => k = kit.offers /\ ~AnswerSent(k)
         /\ Steady(k) => Settled
    /\ kit.offers = 0 \/ AnswerSent(kit.offers) => Settled

HandleCalmStep ==
  /\ \A k \in Offers : /\ Busy(k)' => Busy(k)
                       /\ Steady(k)' => Steady(k)
                       /\ AnswerSent(k)' => AnswerSent(k)
  /\ kit'.offers = kit.offers
  /\ Settled => Settled'

LEMMA HandleInvCalm ==
  TypeOK /\ HandleInv /\ HandleCalmStep /\ kit.offers \in Offers \cup {0} => HandleInv'
BY DEF HandleInv, HandleCalmStep

LEMMA NoBridges == MaxBrowserOffers = 0 => BrowserOffers = {}
BY DEF BrowserOffers

LEMMA NoAnswerToKit ==
  ASSUME TypeOK, NEW f \in Frames, NEW k, f.type = "answer" => f.of # k,
         toKit' = Sent(toKit, f), AnswerSent(k)'
  PROVE  AnswerSent(k)
<1> SUFFICES ASSUME NEW i \in 1..Len(toKit'), toKit'[i].type = "answer", toKit'[i].of = k
             PROVE  \E j \in 1..Len(toKit) : toKit[j].type = "answer" /\ toKit[j].of = k
  BY DEF AnswerSent
<1>1. i \in 1..Len(toKit) /\ toKit'[i] = toKit[i]
  BY NewOnKitWire
<1> QED BY <1>1

HandlersKept == \A k \in Offers : at'[Handle(k)] = at[Handle(k)]

LEMMA HandlersKeptBy ==
  ASSUME TypeOK, NEW t \in Threads, NEW label, at' = [at EXCEPT ![t] = label],
         \A k \in Offers : t # Handle(k)
  PROVE  HandlersKept
BY ConstantTypes DEF HandlersKept, TypeOK

LEMMA KitHandles ==
  ASSUME TypeOK, HandleInv, kit.offers \in Offers \cup {0}, MaxBrowserOffers = 0, Kit
  PROVE  HandleInv'
<1> USE ConstantTypes
<1>0. /\ kit \in [sent : Nat, offers : Nat, answers : Nat, announced : SUBSET Viewers]
      /\ \A n \in Nat : Ack(n) \in Frames /\ Ack(n).type = "ack"
  <2>1. kit \in [sent : Nat, offers : Nat, answers : Nat, announced : SUBSET Viewers]
    BY DEF TypeOK
  <2>2. \A n \in Nat : Ack(n) \in Frames /\ Ack(n).type = "ack"
    BY WireTypes DEF Ack, Frame
  <2> QED BY <2>1, <2>2
<1>1. \A k \in Offers : AnswerSent(k)' => AnswerSent(k)
  <2>1. toKit' = toKit \/ toKit' = Sent(toKit, Ack(kit.sent + 1))
    BY KitWires DEF KitStep, Writes
  <2>2. toKit' = toKit => \A k \in Offers : AnswerSent(k)' => AnswerSent(k)
    BY DEF AnswerSent
  <2>3. kit.sent + 1 \in Nat
    BY <1>0
  <2> QED BY <1>0, <2>1, <2>2, <2>3, NoAnswerToKit
<1>2. kp' = kp
  BY NoBridges DEF Kit, KitPeerInfo, KitUnknown, KitOffer, KitAnswer, KitCandidate,
      AddKitCandidate
<1>3. CASE ~KitOffer
  <2>1. at' = at /\ kit'.offers = kit.offers
    BY <1>0, <1>3, NoBridges
    DEF Kit, KitPeerInfo, KitUnknown, KitAnswer, KitCandidate, AddKitCandidate, threads
  <2>2. HandleCalmStep
    BY <1>1, <1>2, <2>1 DEF HandleCalmStep, Busy, Steady, Settled
  <2> QED BY <2>2, HandleInvCalm
<1>4. CASE KitOffer
  <2>1. PICK k \in Offers :
           /\ k = kit.offers + 1 /\ kit'.offers = k
           /\ kit.offers = 0 \/ AnswerSent(kit.offers)
           /\ at' = [at EXCEPT ![Handle(k)] = "setRemote"]
    BY <1>0, <1>4 DEF KitOffer, Goto
  <2>2. kit.offers \in Nat
    BY <1>0
  <2>3. Settled /\ Settled'
    BY <1>2, <2>1 DEF HandleInv, Settled
  <2>4. \A j \in Offers : ~Busy(j)
    <3>1. \A j \in Offers : j # 0
      BY DEF Offers
    <3> QED BY <2>1, <3>1 DEF HandleInv
  <2>5. \A j \in Offers : AnswerSent(j)' => j <= kit.offers
    BY <1>1 DEF HandleInv
  <2>6. \A j \in Offers : Busy(j)' => j = k
    BY <2>1, <2>4, HandlersDiffer DEF Busy, TypeOK
  <2> QED BY <2>1, <2>2, <2>3, <2>5, <2>6 DEF HandleInv
<1> QED BY <1>3, <1>4

LEMMA GoroutineHandles ==
  ASSUME TypeOK, OwnInv, HandleInv, kit.offers \in Offers \cup {0},
         MaxBrowserOffers = 0, NEW k \in Offers, HandleStep(k)
  PROVE  HandleInv'
<1> USE ConstantTypes
<1>0. /\ \A j \in Offers : j # k => Handle(j) # Handle(k)
      /\ k # 0 /\ kp \in PeerConnections
  BY DEF Handle, Offers, TypeOK
<1>1. kit' = kit
  BY DEF HandleStep, HandleSetRemote, HandleCreateAnswer, HandleSetLocal, HandleLoad,
     HandleSend, HandleSpawn, OnKitPeer, LoadForKit, LoadFrom, LoadTo, SendToKit, ends
<1>2. ~HandleSend(k) => \A j \in Offers : AnswerSent(j)' <=> AnswerSent(j)
  BY DEF HandleStep, HandleSetRemote, HandleCreateAnswer, HandleSetLocal, HandleLoad,
     HandleSpawn, OnKitPeer, LoadForKit, LoadFrom, LoadTo, AnswerSent
<1>3. ASSUME NEW label, at' = [at EXCEPT ![Handle(k)] = label]
      PROVE  /\ at'[Handle(k)] = label
             /\ \A j \in Offers : j # k => at'[Handle(j)] = at[Handle(j)]
  BY <1>0, <1>3 DEF TypeOK
<1>4. ASSUME NEW label, at' = [at EXCEPT ![Handle(k)] = label], ~HandleSend(k),
             label \in {"setRemote", "createAnswer", "setLocal", "load", "loaded", "send"} => Busy(k),
             label \in {"setRemote", "load", "loaded", "send"} => Steady(k),
             Settled => Settled'
      PROVE  HandleInv'
  <2>1. HandleCalmStep
    BY <1>1, <1>2, <1>3, <1>4 DEF HandleCalmStep, Busy, Steady
  <2> QED BY <2>1, HandleInvCalm
<1>5. CASE HandleSetRemote(k)
  <2>1. Busy(k) /\ Steady(k)
    BY <1>5 DEF HandleSetRemote, Busy, Steady
  <2>2. PICK label \in {"createAnswer", "done"} : at' = [at EXCEPT ![Handle(k)] = label]
    BY <1>5 DEF HandleSetRemote, Goto
  <2>3. \A j \in Offers : (Busy(j)' => Busy(j)) /\ ~Steady(j)'
    <3>1. \A j \in Offers : j # k => ~Steady(j)
      BY <2>1 DEF HandleInv, Busy, Steady
    <3> QED BY <1>3, <2>1, <2>2, <3>1 DEF Busy, Steady
  <2>4. k = kit.offers /\ ~AnswerSent(k)
    BY <2>1 DEF HandleInv
  <2>5. \A j \in Offers : AnswerSent(j)' <=> AnswerSent(j)
    BY <1>5 DEF HandleSetRemote, AnswerSent
  <2>6. ~(kit'.offers = 0 \/ AnswerSent(kit.offers)')
    BY <1>0, <1>1, <2>4, <2>5
  <2>7. ~(kit.offers = 0 \/ AnswerSent(kit.offers))'
    BY <1>1, <2>6 DEF AnswerSent
  <2> QED BY <1>1, <2>3, <2>5, <2>7 DEF HandleInv
<1>6. CASE HandleCreateAnswer(k)
  <2>1. PICK label \in {"setLocal", "done"} : at' = [at EXCEPT ![Handle(k)] = label]
    BY <1>6 DEF HandleCreateAnswer, OnKitPeer, Goto
  <2>2. kp' = kp \/ kp' = CreateAnswer(kp, k)
    BY <1>6 DEF HandleCreateAnswer, OnKitPeer
  <2>3. Settled => Settled'
    BY <1>0, <2>2, PeerCalls DEF Settled
  <2>4. Busy(k) /\ ~HandleSend(k)
    BY <1>6 DEF HandleCreateAnswer, HandleSend, OnKitPeer, SendToKit, Busy
  <2> QED BY <1>4, <2>1, <2>3, <2>4
<1>7. CASE HandleSetLocal(k)
  <2>1. Busy(k) /\ ~HandleSend(k)
    BY <1>7 DEF HandleSetLocal, HandleSend, OnKitPeer, SendToKit, Busy
  <2>2. CASE CanSetLocalAnswer(kp, k)
    <3>1. at' = [at EXCEPT ![Handle(k)] = "load"] /\ kp' = SetLocalAnswer(kp)
      BY <1>7, <2>2 DEF HandleSetLocal, OnKitPeer, Goto
    <3>2. Settled'
      BY <1>0, <3>1, PeerCalls DEF Settled
    <3>3. \A j \in Offers : Busy(j)' => Busy(j)
      BY <1>3, <2>1, <3>1 DEF Busy
    <3> QED BY <1>1, <1>2, <2>1, <3>2, <3>3 DEF HandleInv
  <2>3. CASE ~CanSetLocalAnswer(kp, k)
    <3>1. at' = [at EXCEPT ![Handle(k)] = "done"] /\ kp' = kp
      BY <1>7, <2>3 DEF HandleSetLocal, OnKitPeer, Goto
    <3>2. Settled => Settled'
      BY <3>1 DEF Settled
    <3> QED BY <1>4, <2>1, <3>1, <3>2
  <2> QED BY <2>2, <2>3
<1>8. CASE HandleLoad(k)
  <2>1. /\ \E label \in {"loaded", "send"} : at' = [at EXCEPT ![Handle(k)] = label]
        /\ kp' = kp
    BY <1>8 DEF HandleLoad, LoadForKit, LoadFrom, LoadTo, Goto
  <2>2. Busy(k) /\ Steady(k) /\ ~HandleSend(k)
    BY <1>8 DEF HandleLoad, HandleSend, LoadForKit, LoadFrom, LoadTo, SendToKit, Busy,
       Steady
  <2>3. Settled => Settled'
    BY <2>1 DEF Settled
  <2> QED BY <1>4, <2>1, <2>2, <2>3
<1>9. CASE HandleSend(k)
  <2>1. /\ at[Handle(k)] = "send" /\ toKit' = Sent(toKit, held[Handle(k)]) /\ kp' = kp
        /\ \E label \in {"spawn", "done"} : at' = [at EXCEPT ![Handle(k)] = label]
    BY <1>9 DEF HandleSend, SendToKit, Goto
  <2>2. Handle(k) \in Loaded
    BY <2>1 DEF Loaded
  <2>3. held[Handle(k)] \in Frames /\ held[Handle(k)].of = k
    BY <1>0, <2>2, WireTypes, HandlersDiffer, ThreadsDiffer DEF OwnInv, OwnForKit
  <2>4. Busy(k) /\ Steady(k)
    BY <2>1 DEF Busy, Steady
  <2>5. k = kit.offers /\ Settled'
    BY <2>1, <2>4 DEF HandleInv, Settled
  <2>6. \A j \in Offers : j # k /\ AnswerSent(j)' => AnswerSent(j)
    BY <2>1, <2>3, NoAnswerToKit
  <2>7. \A j \in Offers : Busy(j)' => Busy(j) /\ j # k
    BY <1>3, <2>1 DEF Busy
  <2> QED BY <1>1, <2>4, <2>5, <2>6, <2>7 DEF HandleInv
<1>10. CASE HandleSpawn(k)
  <2>1. /\ \A j \in Offers : (Busy(j)' => Busy(j)) /\ (Steady(j)' => Steady(j))
        /\ kp' = kp /\ ~HandleSend(k)
    BY <1>0, <1>10, HandlersDiffer
    DEF HandleSpawn, HandleSend, SendToKit, Busy, Steady, TypeOK
  <2>2. HandleCalmStep
    BY <1>1, <1>2, <2>1 DEF HandleCalmStep, Settled
  <2> QED BY <2>2, HandleInvCalm
<1> QED BY <1>5, <1>6, <1>7, <1>8, <1>9, <1>10 DEF HandleStep

LEMMA RestHandles ==
  ASSUME TypeOK, OwnInv, HandleInv, kit.offers \in Offers \cup {0}, MaxBrowserOffers = 0,
         \/ Browser \/ \E k \in Offers : BuildStep(k)
         \/ KitSideStep \/ BrowserSideStep \/ TearDown \/ UNCHANGED vars
         \/ \E pump \in {"kit", "client"} : CloseSockets(pump)
  PROVE  HandleInv'
<1> USE ConstantTypes, NoBridges
<1>1. kit' = kit
  BY DEF Browser, BrowserReads, BrowserAnswer, SetBrowserAnswer, BrowserOffer,
      BrowserCandidate, AddBrowserCandidate,
     BrowserUnknown, BuildStep, BuildCheck, BuildCreateOffer, BuildPromise,
     BuildSetLocal, BuildGathered, BuildAckid, BuildSend, OnBrowserPeer, SendToBrowser,
     KitSideStep, BrowserSideStep, KitSideCandidate, KitSideSend, KitSideGathered,
     BrowserSideCandidate, BrowserSideSend, BrowserSideGathered, SentCandidate,
     LoadForKit, LoadFrom, LoadTo, TakeAckid, TearDown, Cancel, CloseBrowserPeer,
     CloseKitPeer, CloseSockets, vars, ends
<1>2. kp' = kp \/ kp' = GatheringComplete(kp) \/ kp' = Close(kp)
  BY DEF Browser, BrowserReads, BrowserAnswer, SetBrowserAnswer, BrowserOffer,
      BrowserCandidate, AddBrowserCandidate,
     BrowserUnknown, BuildStep, BuildCheck, BuildCreateOffer, BuildPromise,
     BuildSetLocal, BuildGathered, BuildAckid, BuildSend, OnBrowserPeer, SendToBrowser,
     KitSideStep, BrowserSideStep, KitSideCandidate, KitSideSend, KitSideGathered,
     BrowserSideCandidate, BrowserSideSend, BrowserSideGathered, SentCandidate,
     LoadForKit, LoadFrom, LoadTo, TakeAckid, TearDown, Cancel, CloseBrowserPeer,
     CloseKitPeer, CloseSockets, vars
<1>3. Settled => Settled'
  <2>1. kp \in PeerConnections /\ 0 \in Nat
    BY DEF TypeOK
  <2> QED BY <1>2, <2>1, PeerCalls DEF Settled
<1>4. \/ toKit' = toKit
      \/ toKit' = Sent(toKit, FromBrowser)
      \/ KitSide \in Loaded /\ toKit' = Sent(toKit, held[KitSide])
  BY DEF Browser, BrowserReads, BrowserAnswer, SetBrowserAnswer, BrowserOffer,
      BrowserCandidate, AddBrowserCandidate,
     BrowserUnknown, FromBrowser, BuildStep, BuildCheck, BuildCreateOffer, BuildPromise,
     BuildSetLocal, BuildGathered, BuildAckid, BuildSend, OnBrowserPeer, SendToBrowser,
     KitSideStep, BrowserSideStep, KitSideCandidate, KitSideSend, KitSideGathered,
     BrowserSideCandidate, BrowserSideSend, BrowserSideGathered, SentCandidate,
     LoadForKit, LoadFrom, LoadTo, TakeAckid, TearDown, Cancel, CloseBrowserPeer,
     CloseKitPeer, CloseSockets, vars, Loaded
<1>5. \A k \in Offers : AnswerSent(k)' => AnswerSent(k)
  <2>1. CASE toKit' = toKit
    BY <2>1 DEF AnswerSent
  <2>2. FromBrowser \in Frames /\ FromBrowser.type # "answer"
    BY WireTypes DEF FromBrowser, Frame
  <2>3. KitSide \in Loaded => held[KitSide] \in Frames /\ held[KitSide].type # "answer"
    BY WireTypes, ThreadsDiffer DEF OwnInv, OwnForKit
  <2> QED BY <1>4, <2>1, <2>2, <2>3, NoAnswerToKit
<1>6. HandlersKept
  <2>1. CASE at' = at
    BY <2>1 DEF HandlersKept
  <2>2. CASE \E k \in Offers : BuildStep(k)
    BY <2>2, BuildMoves, HandlersDiffer, HandlersKeptBy DEF Moves
  <2>3. CASE KitSideStep \/ BrowserSideStep
    <3>1. at' = at \/ \E g \in Gatherers, label \in {"idle", "loaded", "send"} :
                        at' = [at EXCEPT ![g] = label]
      BY <2>3 DEF KitSideStep, BrowserSideStep, KitSideCandidate, KitSideSend,
         KitSideGathered, BrowserSideCandidate, BrowserSideSend, BrowserSideGathered,
         SentCandidate, LoadForKit, LoadFrom, LoadTo, TakeAckid, Goto, threads
    <3> QED BY <2>1, <3>1, ThreadsDiffer, HandlersKeptBy
  <2>4. CASE \/ Browser \/ TearDown \/ UNCHANGED vars
             \/ \E pump \in {"kit", "client"} : CloseSockets(pump)
    BY <2>1, <2>4 DEF Browser, BrowserReads, BrowserAnswer, SetBrowserAnswer,
       BrowserOffer, BrowserCandidate, AddBrowserCandidate, BrowserUnknown, TearDown,
       Cancel, CloseBrowserPeer, CloseKitPeer, CloseSockets, vars, threads
  <2> QED BY <2>2, <2>3, <2>4
<1>7. HandleCalmStep
  BY <1>1, <1>3, <1>5, <1>6 DEF HandleCalmStep, HandlersKept, Busy, Steady
<1> QED BY <1>7, HandleInvCalm

-----------------------------------------------------------------------------
(* What pion refuses.                                                      *)

\* An answer of the browser gives bp a remote description for good.
RemoteInv ==
  /\ kit.offers \in Offers \cup {0}
  /\ MaxBrowserOffers = 0 => /\ browser.offers = 0
                             /\ browser.answers > 0 /\ Live => bp.remote

\* Why a live session's peer connection refuses a description or a candidate.
Refusal(what) ==
  /\ Live
  /\ \/ what = "kitCandidate"
     \/ what = "kitAnswer" /\ kp.sig # "haveLocalOffer"
          /\ \E b \in BrowserOffers : Asked(b)
     \/ what = "browserAnswer" /\ bp.sig # "haveLocalOffer" /\ browser.owes # 0
     \/ what = "browserOffer" /\ BrowserOffers # {}
     \/ what = "browserCandidate" /\ ~CanAddCandidate(bp)
          /\ (browser.answers > 0 \/ browser.offers > 0)
     \/ what = "kitOffer" /\ kp.sig # "stable" /\ \E k \in Offers : Steady(k)

RefusalStep == \A what \in refused' : what \in refused \/ Refusal(what)

LEMMA NextRefuses == [Next]_vars => RefusalStep
<1> SUFFICES ASSUME [Next]_vars PROVE RefusalStep
  OBVIOUS
<1>1. CASE Kit
  BY <1>1 DEF Kit, KitPeerInfo, KitUnknown, KitOffer, KitAnswer, KitCandidate,
      AddKitCandidate, Refuse,
     RefusalStep, Refusal, Asked
<1>2. CASE Browser
  BY <1>2 DEF Browser, BrowserReads, BrowserAnswer, SetBrowserAnswer, BrowserOffer,
      BrowserCandidate, AddBrowserCandidate,
     BrowserUnknown, Refuse, RefusalStep, Refusal
<1>3. ASSUME NEW k \in Offers, HandleSetRemote(k)
      PROVE  RefusalStep
  BY <1>3 DEF HandleSetRemote, Refuse, RefusalStep, Refusal, Steady
<1>4. CASE refused' = refused
  BY <1>4 DEF RefusalStep
<1>5. ASSUME NEW k \in Offers, (HandleStep(k) /\ ~HandleSetRemote(k)) \/ BuildStep(k)
      PROVE  refused' = refused
  BY <1>5 DEF HandleStep, HandleCreateAnswer, HandleSetLocal, HandleLoad, HandleSend,
     HandleSpawn, OnKitPeer, LoadForKit, LoadFrom, LoadTo, SendToKit, BuildStep,
     BuildCheck, BuildCreateOffer, BuildPromise, BuildSetLocal, BuildGathered,
     BuildAckid, BuildSend, OnBrowserPeer, TakeAckid, SendToBrowser
<1>6. ASSUME NEW b \in BrowserOffers, BridgeStep(b)
      PROVE  refused' = refused
  BY <1>6 DEF BridgeStep, BridgeCreateOffer, BridgeSetLocal, BridgeLoad, BridgeSend,
     BridgeWait, BridgeCreateAnswer, BridgeSetLocalAnswer, BridgeAckid,
     BridgeSendAnswer, OnKitPeer, OnBrowserPeer, LoadForKit, LoadFrom, LoadTo,
     TakeAckid, SendToKit, SendToBrowser
<1>7. CASE \/ KitSideStep \/ BrowserSideStep \/ TearDown \/ UNCHANGED vars
           \/ \E pump \in {"kit", "client"} : CloseSockets(pump)
  BY <1>4, <1>7 DEF KitSideStep, BrowserSideStep, KitSideCandidate, KitSideSend,
     KitSideGathered, BrowserSideCandidate, BrowserSideSend, BrowserSideGathered,
     SentCandidate, LoadForKit, LoadFrom, LoadTo, TakeAckid, TearDown, Cancel,
     CloseBrowserPeer, CloseKitPeer, CloseSockets, vars
<1> QED BY <1>1, <1>2, <1>3, <1>4, <1>5, <1>6, <1>7 DEF Next

LEMMA NoRefusal ==
  ASSUME OfferInv, ClosedInv, AskInv, HandleInv, RemoteInv, NEW what, Refusal(what)
  PROVE  /\ what \notin {"kitAnswer", "browserAnswer"}
         /\ MaxBrowserOffers = 0 => what = "kitCandidate"
<1> USE NoBridges
<1>1. Open(kp) /\ Open(bp)
  BY DEF Refusal, ClosedInv, Live
<1>2. what # "kitAnswer"
  BY <1>1 DEF Refusal, AskInv
<1>3. what # "browserAnswer"
  BY <1>1 DEF Refusal, OfferInv, AwaitsAnswer
<1>4. MaxBrowserOffers = 0 => what # "browserCandidate"
  BY <1>1 DEF Refusal, RemoteInv, CanAddCandidate
<1>5. MaxBrowserOffers = 0 => what # "kitOffer"
  BY <1>1 DEF Refusal, HandleInv, Settled, Open
<1> QED BY <1>2, <1>3, <1>4, <1>5 DEF Refusal

AcceptInv ==
  OfferInv /\ ClosedInv /\ AskInv /\ HandleInv /\ RemoteInv /\ DescriptionsAccepted

LEMMA HandleInvStep ==
  TypeOK /\ OwnInv /\ HandleInv /\ RemoteInv /\ [Next]_vars => HandleInv'
<1> SUFFICES ASSUME TypeOK, OwnInv, HandleInv, RemoteInv, [Next]_vars PROVE HandleInv'
  OBVIOUS
<1>1. CASE MaxBrowserOffers # 0
  BY <1>1 DEF HandleInv
<1>2. CASE MaxBrowserOffers = 0
  BY <1>2, NoBridges, KitHandles, GoroutineHandles, RestHandles DEF Next, RemoteInv
<1> QED BY <1>1, <1>2

LEMMA EndsMove ==
  TypeOK /\ [Next]_vars =>
    /\ kit'.offers = kit.offers \/ kit'.offers \in Offers
    /\ browser'.offers = browser.offers \/ browser'.offers \in BrowserOffers
    /\ browser'.answers = browser.answers \/ BrowserAnswer
<1> SUFFICES ASSUME TypeOK, [Next]_vars
             PROVE  /\ kit'.offers = kit.offers \/ kit'.offers \in Offers
                    /\ browser'.offers = browser.offers \/ browser'.offers \in BrowserOffers
                    /\ browser'.answers = browser.answers \/ BrowserAnswer
  OBVIOUS
<1>0. /\ kit \in [sent : Nat, offers : Nat, answers : Nat, announced : SUBSET Viewers]
      /\ browser \in BrowserRecords
  BY DEF TypeOK, BrowserRecords
<1>1. CASE Kit
  BY <1>0, <1>1 DEF Kit, KitPeerInfo, KitUnknown, KitOffer, KitAnswer, KitCandidate,
      AddKitCandidate
<1>2. CASE Browser
  BY <1>0, <1>2 DEF Browser, BrowserReads, BrowserAnswer, SetBrowserAnswer,
      BrowserOffer, BrowserCandidate, AddBrowserCandidate, BrowserUnknown,
      BrowserExtra, BrowserRecords
<1>3. ASSUME NEW k \in Offers, HandleStep(k) \/ BuildStep(k)
      PROVE  UNCHANGED ends
  BY <1>3 DEF HandleStep, HandleSetRemote, HandleCreateAnswer, HandleSetLocal,
     HandleLoad, HandleSend, HandleSpawn, OnKitPeer, LoadForKit, LoadFrom, LoadTo,
     SendToKit, BuildStep, BuildCheck, BuildCreateOffer, BuildPromise, BuildSetLocal,
     BuildGathered, BuildAckid, BuildSend, OnBrowserPeer, TakeAckid, SendToBrowser
<1>4. ASSUME NEW b \in BrowserOffers, BridgeStep(b)
      PROVE  UNCHANGED ends
  BY <1>4 DEF BridgeStep, BridgeCreateOffer, BridgeSetLocal, BridgeLoad, BridgeSend,
     BridgeWait, BridgeCreateAnswer, BridgeSetLocalAnswer, BridgeAckid,
     BridgeSendAnswer, OnKitPeer, OnBrowserPeer, LoadForKit, LoadFrom, LoadTo,
     TakeAckid, SendToKit, SendToBrowser
<1>5. CASE \/ KitSideStep \/ BrowserSideStep \/ TearDown \/ UNCHANGED vars
           \/ \E pump \in {"kit", "client"} : CloseSockets(pump)
  BY <1>5 DEF KitSideStep, BrowserSideStep, KitSideCandidate, KitSideSend,
     KitSideGathered, BrowserSideCandidate, BrowserSideSend, BrowserSideGathered,
     SentCandidate, LoadForKit, LoadFrom, LoadTo, TakeAckid, TearDown, Cancel,
     CloseBrowserPeer, CloseKitPeer, CloseSockets, vars, ends
<1> QED BY <1>1, <1>2, <1>3, <1>4, <1>5 DEF Next, ends

LEMMA RemoteInvStep ==
  TypeOK /\ OfferInv /\ ClosedInv /\ RemoteInv /\ [Next]_vars => RemoteInv'
<1> SUFFICES ASSUME TypeOK, OfferInv, ClosedInv, RemoteInv, [Next]_vars
             PROVE  RemoteInv'
  OBVIOUS
<1>1. /\ kit'.offers \in Offers \cup {0}
      /\ MaxBrowserOffers = 0 => browser'.offers = 0
  BY EndsMove, NoBridges DEF RemoteInv
<1>2. Live' => Live /\ (bp.remote => bp'.remote)
  <2>1. BothKept => (bp.remote => bp'.remote)
    BY DEF BothKept, Keeps
  <2>2. CASE TearDown \/ UNCHANGED vars \/ \E pump \in {"kit", "client"} : CloseSockets(pump)
    BY <2>2 DEF TearDown, Cancel, CloseBrowserPeer, CloseKitPeer, CloseSockets, vars,
       closing, Live
  <2>3. Live' => Live
    BY StaysDown
  <2> QED
    BY <2>1, <2>2, <2>3, HookKeeps, HandleKeeps, BuildKeeps, BridgeKeeps, GatherersKeep
    DEF Next
<1>3. CASE BrowserAnswer
  <2>1. Live => bp'.remote
    <3>1. ASSUME Live PROVE bp.sig = "haveLocalOffer"
      BY <1>3, <3>1 DEF BrowserAnswer, SetBrowserAnswer, OfferInv, AwaitsAnswer,
          ClosedInv, Live
    <3>2. bp \in PeerConnections /\ 0 \in Nat
      BY DEF TypeOK
    <3> QED BY <1>3, <3>1, <3>2, CallsKeep DEF BrowserAnswer, SetBrowserAnswer
  <2> QED BY <1>1, <1>2, <2>1 DEF RemoteInv
<1>4. CASE browser'.answers = browser.answers
  BY <1>1, <1>2, <1>4 DEF RemoteInv
<1> QED BY <1>3, <1>4, EndsMove

LEMMA AcceptInvInit == Init => AcceptInv
<1> SUFFICES ASSUME Init PROVE AcceptInv
  OBVIOUS
<1> USE ConstantTypes
<1>1. OfferInv
  BY OfferInvInit
<1>2. ClosedInv
  BY DEF Init, ClosedInv, Open, NewPeerConnection
<1>3. AskInv
  BY DEF Init, AskInv, Sending, Asked, OfferSent, Unsent
<1>4. HandleInv
  BY DEF Init, HandleInv, AnswerSent, Busy, Steady, Settled, NewPeerConnection
<1>5. RemoteInv /\ DescriptionsAccepted
  BY DEF Init, RemoteInv, DescriptionsAccepted
<1> QED BY <1>1, <1>2, <1>3, <1>4, <1>5 DEF AcceptInv

LEMMA AcceptInvStep ==
  TypeInv /\ OwnInv /\ AcceptInv /\ [Next]_vars => AcceptInv'
<1> SUFFICES ASSUME TypeInv, OwnInv, AcceptInv, [Next]_vars PROVE AcceptInv'
  OBVIOUS
<1>1. OfferInv' /\ ClosedInv' /\ AskInv' /\ HandleInv' /\ RemoteInv'
  BY OfferInvStep, ClosedInvStep, AskInvStep, HandleInvStep, RemoteInvStep
  DEF AcceptInv, TypeInv
<1>2. DescriptionsAccepted'
  <2>1. \A what \in refused' :
          \/ what \in refused
          \/ /\ what \notin {"kitAnswer", "browserAnswer"}
             /\ MaxBrowserOffers = 0 => what = "kitCandidate"
    BY NextRefuses, NoRefusal DEF AcceptInv, RefusalStep
  <2> QED BY <2>1 DEF AcceptInv, DescriptionsAccepted
<1> QED BY <1>1, <1>2 DEF AcceptInv

\* In a live session an answer always meets a peer connection that waits for
\* it, from either side; when only Kit offers, so do Kit's offers and the
\* browser's candidates (session.go:276-303, 329-356).
THEOREM AnswersAccepted == Spec => []DescriptionsAccepted
<1>1. FrameInv /\ AcceptInv /\ [Next]_vars => AcceptInv'
  BY AcceptInvStep DEF FrameInv
<1>2. AcceptInv => DescriptionsAccepted
  BY DEF AcceptInv
<1> QED BY <1>1, <1>2, AcceptInvInit, FrameInvAlways, PTL DEF Spec
=============================================================================
