----------------------- MODULE NegotiationOrderProofs -----------------------
(***************************************************************************)
(* Proofs about what a session says to its two ends, for any number of     *)
(* frames, offers and candidates: when only Kit offers, the ackids of the  *)
(* gateway's frames grow along the browser's wire; a lone offer is passed  *)
(* on; and the goroutines together implement OfferExchange.                *)
(***************************************************************************)
EXTENDS NegotiationOfferProofs, SequenceTheorems

Built(k) == at[Build(k)] \in {"ackid", "send"}

\* The offer is stamped when gathering is complete, candidates while it runs.
GatherInv ==
  /\ bp.fired # {} => bp.gather = "complete"
  /\ at[BrowserSide] = "send" => bp.gather = "running"
  /\ \A k \in Offers : /\ Built(k) => bp.gather = "complete"
                       /\ at[Build(k)] # "sendAnswer"

\* What a step can do to the gathering of bp.
GatherMoves(c, d) ==
  /\ c.gather = "running" => d.gather = "running"
  /\ c.gather = "complete" => d.gather = "complete"
  /\ d.fired # {} => c.fired # {} \/ d.gather = "complete"

LEMMA CallsGather ==
  ASSUME NEW c \in PeerConnections, NEW k \in Nat
  PROVE  /\ GatherMoves(c, c)
         /\ GatherMoves(c, CreateOffer(c, k)) /\ GatherMoves(c, CreateAnswer(c, k))
         /\ GatherMoves(c, GatheringCompletePromise(c, k))
         /\ GatherMoves(c, SetRemoteOffer(c)) /\ GatherMoves(c, SetRemoteAnswer(c))
         /\ GatherMoves(c, SetLocalOffer(c)) /\ GatherMoves(c, SetLocalAnswer(c))
         /\ GatherMoves(c, Close(c))
         /\ GatheringComplete(c).gather = "complete"
<1> USE DEF GatherMoves, PeerConnections
<1>1. /\ GatherMoves(c, c)
      /\ GatherMoves(c, CreateOffer(c, k)) /\ GatherMoves(c, CreateAnswer(c, k))
      /\ GatherMoves(c, Close(c))
  BY DEF CreateOffer, CreateAnswer, Close
<1>2. /\ GatherMoves(c, GatheringCompletePromise(c, k))
      /\ GatheringComplete(c).gather = "complete"
  BY DEF GatheringCompletePromise, GatheringComplete
<1>3. GatherMoves(c, SetRemoteOffer(c)) /\ GatherMoves(c, SetRemoteAnswer(c))
  BY DEF SetRemoteOffer, SetRemoteAnswer
<1>4. GatherMoves(c, SetLocalOffer(c)) /\ GatherMoves(c, SetLocalAnswer(c))
  BY DEF SetLocalOffer, SetLocalAnswer, StartGathering
<1> QED BY <1>1, <1>2, <1>3, <1>4

GatherCalm ==
  /\ GatherMoves(bp, bp')
  /\ at'[BrowserSide] = "send" => at[BrowserSide] = "send" \/ bp'.gather = "running"
  /\ \A k \in Offers : /\ Built(k)' => Built(k) \/ bp.fired # {}
                       /\ at'[Build(k)] = "sendAnswer" => at[Build(k)] = "sendAnswer"

LEMMA GatherInvCalm == TypeOK /\ GatherInv /\ GatherCalm => GatherInv'
BY DEF GatherInv, GatherCalm, GatherMoves

LEMMA GatherStays ==
  ASSUME TypeOK, NEW t \in Threads, NEW label, at' = [at EXCEPT ![t] = label],
         t # BrowserSide, \A k \in Offers : t # Build(k), GatherMoves(bp, bp')
  PROVE  GatherCalm
BY ConstantTypes DEF GatherCalm, Built, TypeOK

LEMMA HookGathers == TypeOK /\ (Kit \/ Browser) => GatherCalm
<1> SUFFICES ASSUME TypeOK, Kit \/ Browser PROVE GatherCalm
  OBVIOUS
<1> USE ConstantTypes
<1>1. GatherMoves(bp, bp')
  <2>1. bp' = bp \/ bp' \in {SetRemoteAnswer(bp), SetRemoteOffer(bp)}
    BY DEF Kit, KitPeerInfo, KitUnknown, KitOffer, KitAnswer, KitCandidate,
        AddKitCandidate, Browser,
       BrowserReads, BrowserAnswer, SetBrowserAnswer, BrowserOffer, BrowserCandidate,
       AddBrowserCandidate, BrowserUnknown
  <2>2. bp \in PeerConnections /\ 0 \in Nat
    BY DEF TypeOK
  <2> QED BY <2>1, <2>2, CallsGather
<1>2. CASE at' = at
  BY <1>1, <1>2 DEF GatherCalm, Built
<1>3. \/ at' = at
      \/ \E k \in Offers : at' = [at EXCEPT ![Handle(k)] = "setRemote"]
      \/ \E b \in BrowserOffers : at' = [at EXCEPT ![Bridge(b)] = "createOffer"]
  BY DEF Kit, KitPeerInfo, KitUnknown, KitOffer, KitAnswer, KitCandidate,
      AddKitCandidate, Browser,
     BrowserReads, BrowserAnswer, SetBrowserAnswer, BrowserOffer, BrowserCandidate,
     AddBrowserCandidate, BrowserUnknown, Goto,
     threads
<1> QED BY <1>1, <1>2, <1>3, GatherStays, HandlersDiffer, LoadersDiffer

LEMMA HandleGathers ==
  ASSUME TypeOK, NEW k \in Offers, HandleStep(k)
  PROVE  GatherCalm
<1> USE ConstantTypes
<1>1. bp' = bp /\ GatherMoves(bp, bp)
  <2>1. bp' = bp
    BY DEF HandleStep, HandleSetRemote, HandleCreateAnswer, HandleSetLocal, HandleLoad,
       HandleSend, HandleSpawn, OnKitPeer, LoadForKit, LoadFrom, LoadTo, SendToKit
  <2>2. bp \in PeerConnections /\ 0 \in Nat
    BY DEF TypeOK
  <2> QED BY <2>1, <2>2, CallsGather
<1>2. CASE HandleSpawn(k)
  BY <1>1, <1>2, HandlersDiffer, LoadersDiffer, ThreadsDiffer
  DEF HandleSpawn, GatherCalm, Built, TypeOK, Gatherers
<1>3. CASE ~HandleSpawn(k)
  <2>1. PICK label : at' = [at EXCEPT ![Handle(k)] = label]
    BY <1>3, HandleMoves DEF HandleStep, HandleSend, SendToKit, Goto, Moves
  <2> QED BY <1>1, <2>1, GatherStays, HandlersDiffer, LoadersDiffer
<1> QED BY <1>2, <1>3

LEMMA BuildGathers ==
  ASSUME TypeOK, NEW k \in Offers, BuildStep(k)
  PROVE  GatherCalm
<1> USE ConstantTypes
<1>0. /\ \A j \in Offers : j # k => Build(j) # Build(k)
      /\ Build(k) # BrowserSide
  BY ThreadsDiffer DEF Build
<1>1. GatherMoves(bp, bp')
  <2>1. bp' \in {bp, CreateOffer(bp, k), GatheringCompletePromise(bp, k),
                 SetLocalOffer(bp)}
    BY DEF BuildStep, BuildCheck, BuildCreateOffer, BuildPromise, BuildSetLocal,
       BuildGathered, BuildAckid, BuildSend, OnBrowserPeer, TakeAckid, SendToBrowser
  <2>2. bp \in PeerConnections /\ k \in Nat
    BY DEF TypeOK
  <2> QED BY <2>1, <2>2, CallsGather
<1>2. ASSUME NEW label, at' = [at EXCEPT ![Build(k)] = label], label # "sendAnswer",
             label \in {"ackid", "send"} => Built(k) \/ bp.fired # {}
      PROVE  GatherCalm
  BY <1>0, <1>1, <1>2 DEF GatherCalm, Built, TypeOK
<1>3. CASE BuildCheck(k) \/ BuildCreateOffer(k) \/ BuildPromise(k) \/ BuildSetLocal(k)
  <2>1. \E label \in {"createOffer", "promise", "setLocal", "gather", "done"} :
          at' = [at EXCEPT ![Build(k)] = label]
    BY <1>3 DEF BuildCheck, BuildCreateOffer, BuildPromise, BuildSetLocal,
       OnBrowserPeer, Goto
  <2> QED BY <1>2, <2>1
<1>4. CASE BuildGathered(k)
  BY <1>2, <1>4 DEF BuildGathered, OnBrowserPeer, Goto
<1>5. CASE BuildAckid(k)
  BY <1>2, <1>5 DEF BuildAckid, TakeAckid, Goto, Built
<1>6. CASE BuildSend(k)
  BY <1>2, <1>6 DEF BuildSend, SendToBrowser, Goto
<1> QED BY <1>3, <1>4, <1>5, <1>6 DEF BuildStep

LEMMA BridgeGathers ==
  ASSUME TypeOK, NEW b \in BrowserOffers, BridgeStep(b)
  PROVE  GatherCalm
<1> USE ConstantTypes
<1>1. bp' \in {bp, CreateAnswer(bp, b), SetLocalAnswer(bp)}
  BY DEF BridgeStep, BridgeCreateOffer, BridgeSetLocal, BridgeLoad, BridgeSend,
     BridgeWait, BridgeCreateAnswer, BridgeSetLocalAnswer, BridgeAckid,
     BridgeSendAnswer, OnKitPeer, OnBrowserPeer, LoadForKit, LoadFrom, LoadTo,
     TakeAckid, SendToKit, SendToBrowser
<1>2. bp \in PeerConnections /\ b \in Nat
  BY DEF TypeOK
<1>3. GatherMoves(bp, bp')
  BY <1>1, <1>2, CallsGather
<1> QED BY <1>3, BridgeMoves, GatherStays, HandlersDiffer, LoadersDiffer DEF Moves

LEMMA RestGathers ==
  ASSUME TypeInv, GatherInv,
         \/ KitSideStep \/ BrowserSideStep \/ TearDown \/ UNCHANGED vars
         \/ \E pump \in {"kit", "client"} : CloseSockets(pump)
  PROVE  GatherInv'
<1> USE ConstantTypes, ThreadsDiffer
<1>0. TypeOK /\ bp \in PeerConnections /\ 0 \in Nat
  BY DEF TypeInv, TypeOK
<1>1. CASE BrowserSideGathered
  <2>1. at[BrowserSide] = "idle" /\ at' = at /\ bp' = GatheringComplete(bp)
    BY <1>1 DEF BrowserSideGathered, Gathered, threads
  <2>2. bp'.gather = "complete"
    BY <1>0, <2>1, CallsGather
  <2> QED BY <2>1, <2>2 DEF GatherInv, Built
<1>2. CASE ~BrowserSideGathered
  <2>1. bp' = bp \/ bp' = Close(bp)
    BY <1>2 DEF KitSideStep, BrowserSideStep, KitSideCandidate, KitSideSend,
       KitSideGathered, BrowserSideCandidate, BrowserSideSend, SentCandidate,
       LoadForKit, LoadFrom, LoadTo, TakeAckid, TearDown, Cancel, CloseBrowserPeer,
       CloseKitPeer, CloseSockets, vars
  <2>2. GatherMoves(bp, bp')
    BY <1>0, <2>1, CallsGather
  <2>3. \/ at' = at \/ \E label \in {"loaded", "send"} : at' = [at EXCEPT ![KitSide] = label]
        \/ at' = [at EXCEPT ![KitSide] = "idle"] \/ at' = [at EXCEPT ![BrowserSide] = "idle"]
        \/ at' = [at EXCEPT ![BrowserSide] = "send"] /\ bp.gather = "running"
    BY <1>2 DEF KitSideStep, BrowserSideStep, KitSideCandidate, KitSideSend,
       KitSideGathered, BrowserSideCandidate, BrowserSideSend, SentCandidate, Reports,
       LoadForKit, LoadFrom, LoadTo, TakeAckid, TearDown, Cancel, CloseBrowserPeer,
       CloseKitPeer, CloseSockets, vars, Goto, threads
  <2>4. \A k \in Offers : at'[Build(k)] = at[Build(k)]
    BY <1>0, <2>3 DEF TypeOK
  <2>5. at'[BrowserSide] = "send" => at[BrowserSide] = "send" \/ bp'.gather = "running"
    BY <1>0, <2>2, <2>3 DEF TypeOK, GatherMoves
  <2> QED BY <1>0, <2>2, <2>4, <2>5, GatherInvCalm DEF GatherCalm, Built
<1> QED BY <1>1, <1>2

LEMMA GatherInvStep == TypeInv /\ GatherInv /\ [Next]_vars => GatherInv'
BY HookGathers, HandleGathers, BuildGathers, BridgeGathers, RestGathers, GatherInvCalm
DEF Next, TypeInv

\* One goroutine at most holds an ackid, so ackids are sent as they are drawn.
LEMMA OneStamped ==
  ASSUME TypeInv, OwnInv, OfferInv, GatherInv, MaxBrowserOffers = 0,
         NEW t \in Stamped, NEW u \in Stamped
  PROVE  t = u
<1>1. ASSUME NEW v \in Stamped
      PROVE  (v = BrowserSide /\ at[v] = "send")
               \/ \E k \in Offers : v = Build(k) /\ at[v] = "send"
  <2>1. v = BrowserSide \/ \E k \in Offers : v = Build(k)
    BY NoBridges DEF OwnInv, OwnForBrowser
  <2>2. at[v] # "sendAnswer"
    BY <2>1, ConstantTypes DEF TypeInv, GathererInv, GatherInv
  <2> QED BY <2>1, <2>2 DEF Stamped
<1>2. ASSUME NEW k \in Offers, at[Build(k)] = "send"
      PROVE  at[BrowserSide] # "send"
  BY <1>2 DEF GatherInv, Built
<1>3. \A k, j \in Offers : at[Build(k)] = "send" /\ at[Build(j)] = "send" => j = k
  BY DEF OfferInv, Pending
<1> QED BY <1>1, <1>2, <1>3

OrderInv ==
  /\ ackCounter \in Nat
  /\ \A i \in 1..Len(toBrowser) :
       toBrowser[i].type # "passed" => toBrowser[i].ackid <= ackCounter
  /\ \A t \in Stamped :
       /\ held[t].ackid \in Nat /\ held[t].ackid <= ackCounter
       /\ \A i \in 1..Len(toBrowser) :
            toBrowser[i].type # "passed" => toBrowser[i].ackid < held[t].ackid
  /\ AckidsInOrder

\* The two ways a frame gets on the browser's wire.
LEMMA OrderSent ==
  ASSUME TypeOK, OrderInv, NEW f \in Frames, toBrowser' = Sent(toBrowser, f),
         f.type # "passed" =>
           \A i \in 1..Len(toBrowser) :
             toBrowser[i].type # "passed" => toBrowser[i].ackid < f.ackid
  PROVE  AckidsInOrder'
<1> USE WireTypes
<1>1. \/ toBrowser' = toBrowser
      \/ /\ Len(toBrowser') = Len(toBrowser) + 1
         /\ \A i \in 1..Len(toBrowser) : toBrowser'[i] = toBrowser[i]
         /\ toBrowser'[Len(toBrowser) + 1] = f
  BY SentFacts
<1>2. CASE toBrowser' = toBrowser
  BY <1>2 DEF OrderInv, AckidsInOrder
<1>3. CASE /\ Len(toBrowser') = Len(toBrowser) + 1
           /\ \A i \in 1..Len(toBrowser) : toBrowser'[i] = toBrowser[i]
           /\ toBrowser'[Len(toBrowser) + 1] = f
  <2> SUFFICES ASSUME NEW i \in 1..Len(toBrowser'), NEW j \in 1..Len(toBrowser'), i < j,
                      toBrowser'[i].type # "passed", toBrowser'[j].type # "passed"
               PROVE  toBrowser'[i].ackid < toBrowser'[j].ackid
    BY DEF AckidsInOrder
  <2>1. i \in 1..Len(toBrowser) /\ toBrowser'[i] = toBrowser[i]
    BY <1>3
  <2>2. \/ j \in 1..Len(toBrowser) /\ toBrowser'[j] = toBrowser[j]
        \/ toBrowser'[j] = f
    BY NewOnBrowserWire
  <2> QED BY <2>1, <2>2 DEF OrderInv, AckidsInOrder
<1> QED BY <1>1, <1>2, <1>3

LEMMA OrderInvStep ==
  ASSUME TypeInv, TypeOK', OwnInv, OfferInv, GatherInv, OrderInv, MaxBrowserOffers = 0,
         AckidStep
  PROVE  OrderInv'
<1> USE WireTypes
<1>0. /\ TypeOK /\ toBrowser \in Seq(Frames) /\ ackCounter \in Nat /\ ackCounter' \in Nat
      /\ \A i \in 1..Len(toBrowser) : toBrowser[i].ackid \in Nat
      /\ \A t \in Threads : held'[t].ackid \in Nat
  <2>1. TypeOK
    BY DEF TypeInv
  <2>2. toBrowser \in Seq(Frames) /\ ackCounter \in Nat /\ ackCounter' \in Nat
    BY <2>1 DEF TypeOK
  <2>3. \A i \in 1..Len(toBrowser) : toBrowser[i].ackid \in Nat
    <3>1. \A i \in 1..Len(toBrowser) : toBrowser[i] \in Frames
      BY <2>2
    <3> QED BY <3>1 DEF Frames
  <2>4. \A t \in Threads : held'[t].ackid \in Nat
    BY DEF TypeOK, Frames
  <2> QED BY <2>1, <2>2, <2>3, <2>4
<1>1. CASE QuietStep
  BY <1>0, <1>1 DEF QuietStep, KeepsHeld, OrderInv, AckidsInOrder
<1>2. CASE PassStep
  <2>n. PICK n \in Nat : n = kit'.sent
    BY <1>0, <1>2 DEF PassStep
  <2>1. /\ KeepsHeld /\ ackCounter' = ackCounter
        /\ toBrowser' = Sent(toBrowser, Passed(n))
    BY <1>2, <2>n DEF PassStep, Passed
  <2>2. Passed(n) \in Frames /\ Passed(n).type = "passed"
    BY <1>0 DEF Passed, Frame
  <2>3. \A i \in 1..Len(toBrowser') : toBrowser'[i].type # "passed" =>
          i \in 1..Len(toBrowser) /\ toBrowser'[i] = toBrowser[i]
    BY <1>0, <2>1, <2>2, NewOnBrowserWire
  <2>4. AckidsInOrder'
    BY <1>0, <2>1, <2>2, OrderSent
  <2> QED BY <1>0, <2>1, <2>3, <2>4 DEF KeepsHeld, OrderInv
<1>3. ASSUME NEW t \in Threads, DrawStep(t)
      PROVE  OrderInv'
  <2>1. /\ \A u \in Stamped' : u # t => u \in Stamped /\ held'[u] = held[u]
        /\ ackCounter' = ackCounter + 1 /\ held'[t].ackid = ackCounter + 1
        /\ toBrowser' = toBrowser
    BY <1>3 DEF DrawStep
  <2>2. \A i \in 1..Len(toBrowser) :
          toBrowser[i].type # "passed" => toBrowser[i].ackid < ackCounter + 1
    BY <1>0 DEF OrderInv
  <2>3. ASSUME NEW u \in Stamped'
        PROVE  /\ held'[u].ackid \in Nat /\ held'[u].ackid <= ackCounter'
               /\ \A i \in 1..Len(toBrowser') :
                    toBrowser'[i].type # "passed" => toBrowser'[i].ackid < held'[u].ackid
    BY <1>0, <2>1, <2>2 DEF OrderInv
  <2>4. AckidsInOrder'
    BY <2>1 DEF OrderInv, AckidsInOrder
  <2>5. \A i \in 1..Len(toBrowser') :
          toBrowser'[i].type # "passed" => toBrowser'[i].ackid <= ackCounter'
    BY <1>0, <2>1 DEF OrderInv
  <2> QED BY <1>0, <2>3, <2>4, <2>5 DEF OrderInv
<1>4. ASSUME NEW t \in Threads, SendStep(t)
      PROVE  OrderInv'
  <2>1. /\ KeepsHeld /\ t \in Stamped /\ t \notin Stamped' /\ ackCounter' = ackCounter
        /\ toBrowser' = Sent(toBrowser, held[t])
    BY <1>4 DEF SendStep
  <2>2. Stamped' = {}
    BY <2>1, OneStamped DEF KeepsHeld
  <2>3. PICK f \in Frames : f = held[t]
    BY <1>0, <2>1
  <2>4. \A i \in 1..Len(toBrowser) :
          toBrowser[i].type # "passed" => toBrowser[i].ackid < f.ackid
    BY <2>1, <2>3 DEF OrderInv
  <2>5. AckidsInOrder'
    BY <1>0, <2>1, <2>3, <2>4, OrderSent
  <2>6. \A i \in 1..Len(toBrowser') :
          toBrowser'[i].type # "passed" => toBrowser'[i].ackid <= ackCounter'
    BY <1>0, <2>1, <2>3, NewOnBrowserWire DEF OrderInv
  <2> QED BY <1>0, <2>2, <2>5, <2>6 DEF OrderInv
<1> QED BY <1>1, <1>2, <1>3, <1>4 DEF AckidStep

\* When only Kit offers, the gateway's own ackids grow along the browser's
\* wire although each is drawn before, and apart from, its send
\* (session.go:58, 61-65, 179, 441).
THEOREM OrderedAckids ==
  ASSUME MaxBrowserOffers = 0
  PROVE  Spec => []AckidsInOrder
<1>1. Init => GatherInv /\ OrderInv
  <2> SUFFICES ASSUME Init PROVE GatherInv /\ OrderInv
    OBVIOUS
  <2>1. GatherInv
    BY ConstantTypes DEF Init, GatherInv, Built, NewPeerConnection
  <2>2. OrderInv
    BY ConstantTypes
    DEF Init, OrderInv, Stamped, AckidsInOrder, InitialAckid
  <2> QED BY <2>1, <2>2
<1>2. FrameInv /\ OfferInv /\ GatherInv /\ OrderInv /\ [Next]_vars
        => GatherInv' /\ OrderInv'
  BY GatherInvStep, OrderInvStep, NextAckid, TypeStep DEF FrameInv, TypeInv
<1>3. OrderInv => AckidsInOrder
  BY DEF OrderInv
<1> QED BY <1>1, <1>2, <1>3, FrameInvAlways, OfferInvAlways, PTL DEF Spec
-----------------------------------------------------------------------------
(* A lone offer is passed on.                                              *)

\* Before any offer, and after the first one of a side, everything but the
\* goroutines that serve it is idle.
OthersIdle(serving) == \A t \in Threads \ (serving \cup Gatherers) : at[t] = "idle"
Unused(c) == c.sig = "stable" /\ c.gather = "new"

\* Every step of the goroutines meets the peer connection it needs.
HandlePath ==
  /\ at[Handle(1)] \in {"setRemote", "createAnswer", "setLocal", "load", "loaded", "send",
                        "spawn", "done"}
  /\ at[Handle(1)] = "setRemote" => kp.sig = "stable"
  /\ at[Handle(1)] \in {"createAnswer", "setLocal"} => kp.sig = "haveRemoteOffer"
  /\ at[Handle(1)] = "setLocal" => kp.answer = 1

BuildPath ==
  /\ IF at[Handle(1)] = "done"
       THEN at[Build(1)] \in {"check", "createOffer", "promise", "setLocal", "gather",
                              "ackid", "send", "done"}
       ELSE at[Build(1)] = "idle"
  /\ at[Build(1)] \in {"idle", "check", "createOffer", "promise", "setLocal"} => Unused(bp)
  /\ at[Build(1)] \in {"promise", "setLocal"} => bp.offer = 1
  /\ at[Build(1)] = "setLocal" => bp.handler = 1
  /\ at[Build(1)] = "gather" =>
       /\ bp.handler = 1 /\ bp.gather # "new"
       /\ bp.gather = "complete" => 1 \in bp.fired
  /\ at[Build(1)] = "done" => OfferedToBrowser(1)

BridgePath ==
  /\ at[Bridge(1)] \in {"createOffer", "setLocal", "load", "loaded", "send", "wait",
                        "createAnswer", "setLocalAnswer", "ackid", "sendAnswer", "done"}
  /\ at[Bridge(1)] \in {"createOffer", "setLocal"} => kp.sig = "stable"
  /\ at[Bridge(1)] = "setLocal" => kp.offer = 1
  /\ at[Bridge(1)] \in {"createOffer", "setLocal", "load", "loaded", "send", "wait",
                        "createAnswer", "setLocalAnswer"} => bp.sig = "haveRemoteOffer"
  /\ at[Bridge(1)] = "setLocalAnswer" => bp.answer = 1
  /\ at[Bridge(1)] = "done" => AnsweredToBrowser(1)

KitPath ==
  1 \in Offers /\ OthersIdle({Handle(1), Build(1)}) /\ HandlePath /\ BuildPath
BrowserPath == 1 \in BrowserOffers /\ OthersIdle({Bridge(1)}) /\ BridgePath

PathInv ==
  Live =>
    /\ kit.offers = 0 /\ browser.offers = 0 => OthersIdle({}) /\ Unused(kp) /\ Unused(bp)
    /\ kit.offers = 1 /\ browser.offers = 0 => KitPath
    /\ kit.offers = 0 /\ browser.offers = 1 => BrowserPath

\* What a frame or a callback between them leaves alone.
Undisturbed(c, d) ==
  /\ c.sig \in {"stable", "haveRemoteOffer"} => d.sig = c.sig
  /\ c.gather = "new" <=> d.gather = "new"
  /\ d.offer = c.offer /\ d.answer = c.answer /\ d.handler = c.handler
  /\ c.fired \subseteq d.fired
  /\ d.gather = "complete" => c.gather = "complete" \/ c.handler \in d.fired \cup {0}

PathCalm ==
  /\ \A t \in Threads \ Gatherers : at'[t] = at[t]
  /\ kit'.offers = kit.offers /\ browser'.offers = browser.offers
  /\ Undisturbed(kp, kp') /\ Undisturbed(bp, bp')

\* What is on the browser's wire stays there.
Kept ==
  /\ OfferedToBrowser(1) => OfferedToBrowser(1)'
  /\ AnsweredToBrowser(1) => AnsweredToBrowser(1)'

LEMMA OfferKept == TypeOK /\ [Next]_vars => Kept
<1> SUFFICES ASSUME TypeOK, [Next]_vars PROVE Kept
  OBVIOUS
<1>1. \A i \in 1..Len(toBrowser) : i \in 1..Len(toBrowser') /\ toBrowser'[i] = toBrowser[i]
  BY NextWires, Grows
<1> QED BY <1>1 DEF Kept, OfferedToBrowser, AnsweredToBrowser

LEMMA PathCalmStep ==
  ASSUME TypeOK, PathInv, PathCalm, Kept, Live' => Live
  PROVE  PathInv'
<1> USE ConstantTypes, ThreadsDiffer
<1>1. /\ \A S : OthersIdle(S) => OthersIdle(S)'
      /\ Unused(kp) => Unused(kp)'
      /\ Unused(bp) => Unused(bp)'
  BY DEF PathCalm, OthersIdle, Unused, Undisturbed
<1>2. 1 \in Offers => at'[Handle(1)] = at[Handle(1)] /\ at'[Build(1)] = at[Build(1)]
  BY DEF PathCalm
<1>3. 1 \in BrowserOffers => at'[Bridge(1)] = at[Bridge(1)]
  BY DEF PathCalm
<1>4. KitPath => KitPath'
  <2> SUFFICES ASSUME KitPath PROVE KitPath'
    OBVIOUS
  <2>1. HandlePath'
    BY <1>2 DEF KitPath, HandlePath, PathCalm, Undisturbed
  <2>2. BuildPath'
    BY <1>1, <1>2 DEF KitPath, BuildPath, PathCalm, Undisturbed, Kept
  <2> QED BY <1>1, <2>1, <2>2 DEF KitPath
<1>5. BrowserPath => BrowserPath'
  BY <1>1, <1>3 DEF BrowserPath, BridgePath, PathCalm, Undisturbed, Kept
<1> QED BY <1>1, <1>4, <1>5 DEF PathInv, PathCalm

LEMMA CallsUndisturb ==
  ASSUME NEW c \in PeerConnections
  PROVE  /\ Undisturbed(c, c)
         /\ c.sig = "haveLocalOffer" => Undisturbed(c, SetRemoteAnswer(c))
         /\ c.gather = "running" => Undisturbed(c, GatheringComplete(c))
<1> USE DEF Undisturbed, PeerConnections
<1>1. Undisturbed(c, c)
  OBVIOUS
<1>2. c.sig = "haveLocalOffer" => Undisturbed(c, SetRemoteAnswer(c))
  BY DEF SetRemoteAnswer
<1>3. c.gather = "running" => Undisturbed(c, GatheringComplete(c))
  BY DEF GatheringComplete
<1> QED BY <1>1, <1>2, <1>3

\* A frame of either side other than an offer.
LEMMA HookUndisturbs ==
  TypeOK /\ (Kit \/ Browser) => PathCalm \/ KitOffer \/ BrowserOffer
<1> SUFFICES ASSUME TypeOK, (Kit /\ ~KitOffer) \/ (Browser /\ ~BrowserOffer)
             PROVE  PathCalm
  OBVIOUS
<1>1. at' = at /\ kit'.offers = kit.offers /\ browser'.offers = browser.offers
  <2>1. /\ kit \in [sent : Nat, offers : Nat, answers : Nat, announced : SUBSET Viewers]
        /\ browser \in BrowserRecords
    BY DEF TypeOK, BrowserRecords
  <2> QED
    BY <2>1 DEF Kit, KitPeerInfo, KitUnknown, KitAnswer, KitCandidate, AddKitCandidate,
       Browser, BrowserReads, BrowserAnswer, SetBrowserAnswer, BrowserCandidate,
       AddBrowserCandidate, BrowserUnknown, BrowserExtra, BrowserRecords, threads
<1>2. /\ kp' = kp \/ (kp.sig = "haveLocalOffer" /\ kp' = SetRemoteAnswer(kp))
      /\ bp' = bp \/ (bp.sig = "haveLocalOffer" /\ bp' = SetRemoteAnswer(bp))
  BY DEF Kit, KitPeerInfo, KitUnknown, KitAnswer, KitCandidate, AddKitCandidate,
     Browser, BrowserReads, BrowserAnswer, SetBrowserAnswer, BrowserCandidate,
     AddBrowserCandidate, BrowserUnknown
<1>3. kp \in PeerConnections /\ bp \in PeerConnections
  BY DEF TypeOK
<1> QED BY <1>1, <1>2, <1>3, CallsUndisturb DEF PathCalm

LEMMA GatherersUndisturb ==
  TypeOK /\ (KitSideStep \/ BrowserSideStep \/ UNCHANGED vars) => PathCalm
<1> SUFFICES ASSUME TypeOK, KitSideStep \/ BrowserSideStep \/ UNCHANGED vars
             PROVE  PathCalm
  OBVIOUS
<1> USE ConstantTypes
<1>1. \/ at' = at
      \/ \E g \in Gatherers, label \in {"idle", "loaded", "send"} : at' = [at EXCEPT ![g] = label]
  BY DEF KitSideStep, BrowserSideStep, KitSideCandidate, KitSideSend, KitSideGathered,
     BrowserSideCandidate, BrowserSideSend, BrowserSideGathered, SentCandidate,
     LoadForKit, LoadFrom, LoadTo, TakeAckid, Goto, threads, vars
<1>2. \A t \in Threads \ Gatherers : at'[t] = at[t]
  BY <1>1 DEF TypeOK
<1>3. /\ UNCHANGED ends
      /\ kp' = kp \/ (kp.gather = "running" /\ kp' = GatheringComplete(kp))
      /\ bp' = bp \/ (bp.gather = "running" /\ bp' = GatheringComplete(bp))
  BY DEF KitSideStep, BrowserSideStep, KitSideCandidate, KitSideSend, KitSideGathered,
     BrowserSideCandidate, BrowserSideSend, BrowserSideGathered, SentCandidate,
     LoadForKit, LoadFrom, LoadTo, TakeAckid, Gathered, vars
<1>4. kp \in PeerConnections /\ bp \in PeerConnections
  BY DEF TypeOK
<1> QED BY <1>2, <1>3, <1>4, CallsUndisturb DEF PathCalm, ends

LEMMA KitOfferOnPath ==
  ASSUME TypeOK, PathInv, KitOffer, Live' => Live
  PROVE  PathInv'
<1> USE ConstantTypes, ThreadsDiffer, HandlersDiffer
<1>1. PICK k \in Offers :
        /\ k = kit.offers + 1 /\ kit'.offers = k
        /\ at' = [at EXCEPT ![Handle(k)] = "setRemote"]
        /\ UNCHANGED <<kp, bp, browser>>
  <2>1. kit \in [sent : Nat, offers : Nat, answers : Nat, announced : SUBSET Viewers]
    BY DEF TypeOK
  <2> QED BY <2>1 DEF KitOffer, Goto
<1>2. CASE Live' /\ kit'.offers = 1 /\ browser'.offers = 0
  <2>1. k = 1 /\ kit.offers = 0 /\ browser.offers = 0 /\ Live
    BY <1>1, <1>2 DEF TypeOK
  <2>2. OthersIdle({}) /\ Unused(kp) /\ Unused(bp)
    BY <2>1 DEF PathInv
  <2>3. \A t \in Threads : t # Handle(1) => at'[t] = at[t]
    BY <1>1, <2>1 DEF TypeOK
  <2>4. at'[Handle(1)] = "setRemote" /\ at'[Build(1)] = "idle"
    BY <1>1, <2>1, <2>2, <2>3 DEF TypeOK, OthersIdle
  <2>5. OthersIdle({Handle(1), Build(1)})'
    BY <2>2, <2>3 DEF OthersIdle
  <2>6. KitPath'
    BY <1>1, <2>1, <2>2, <2>4, <2>5 DEF KitPath, HandlePath, BuildPath, Unused
  <2> QED BY <1>2, <2>6 DEF PathInv
<1>3. kit'.offers # 0
  BY <1>1, NegotiationAssumption DEF Offers
<1> QED BY <1>2, <1>3 DEF PathInv

LEMMA BrowserOfferOnPath ==
  ASSUME TypeOK, PathInv, BrowserOffer, Live' => Live
  PROVE  PathInv'
<1> USE ConstantTypes, ThreadsDiffer, HandlersDiffer
<1>1. PICK b \in BrowserOffers :
        /\ b = browser.offers + 1 /\ browser'.offers = b
        /\ bp.sig = "stable" => bp' = SetRemoteOffer(bp)
                               /\ at' = [at EXCEPT ![Bridge(b)] = "createOffer"]
        /\ UNCHANGED <<kp, kit>>
  <2>1. browser \in BrowserRecords
    BY DEF TypeOK, BrowserRecords
  <2> QED BY <2>1 DEF BrowserOffer, Goto, BrowserRecords
<1>2. CASE Live' /\ kit'.offers = 0 /\ browser'.offers = 1
  <2>1. b = 1 /\ kit.offers = 0 /\ browser.offers = 0 /\ Live
    BY <1>1, <1>2 DEF TypeOK
  <2>2. OthersIdle({}) /\ Unused(kp) /\ Unused(bp)
    BY <2>1 DEF PathInv
  <2>3. bp' = SetRemoteOffer(bp) /\ at' = [at EXCEPT ![Bridge(1)] = "createOffer"]
    BY <1>1, <2>1, <2>2 DEF Unused
  <2>4. bp'.sig = "haveRemoteOffer"
    BY <2>3, PeerCalls, 0 \in Nat DEF TypeOK
  <2>5. /\ at'[Bridge(1)] = "createOffer"
        /\ \A t \in Threads : t # Bridge(1) => at'[t] = at[t]
    BY <2>1, <2>3 DEF TypeOK
  <2>6. OthersIdle({Bridge(1)})'
    BY <2>2, <2>5 DEF OthersIdle
  <2>7. BrowserPath'
    BY <1>1, <2>1, <2>2, <2>4, <2>5, <2>6 DEF BrowserPath, BridgePath, Unused
  <2> QED BY <1>2, <2>7 DEF PathInv
<1>3. browser'.offers # 0
  BY <1>1, NegotiationAssumption DEF BrowserOffers
<1> QED BY <1>2, <1>3 DEF PathInv

\* A goroutine sends what it holds while the session lives.
LEMMA SentToBrowser ==
  ASSUME TypeOK, Live, NEW t \in Stamped, toBrowser' = Sent(toBrowser, held[t])
  PROVE  \E i \in 1..Len(toBrowser') : toBrowser'[i] = held[t]
<1>1. toBrowser' = Append(toBrowser, held[t]) /\ held[t] \in Frames
  BY WireTypes DEF Sent
<1>2. /\ Len(toBrowser) + 1 \in 1..Len(toBrowser')
      /\ toBrowser'[Len(toBrowser) + 1] = held[t]
  BY <1>1, WireTypes
<1> QED BY <1>2

\* What the calls on the way of an offer set.
LEMMA CallsSet ==
  ASSUME NEW c \in PeerConnections, NEW k \in Nat
  PROVE  /\ CreateOffer(c, k).offer = k /\ CreateOffer(c, k).sig = c.sig
         /\ CreateOffer(c, k).gather = c.gather
         /\ CreateAnswer(c, k).answer = k /\ CreateAnswer(c, k).sig = c.sig
         /\ GatheringCompletePromise(c, k).handler = k
         /\ GatheringCompletePromise(c, k).sig = c.sig
         /\ GatheringCompletePromise(c, k).gather = c.gather
         /\ GatheringCompletePromise(c, k).offer = c.offer
         /\ SetLocalOffer(c).handler = c.handler
         /\ c.gather = "new" => SetLocalOffer(c).gather = "running"
         /\ SetRemoteOffer(c).sig = "haveRemoteOffer"
<1>1. /\ CreateOffer(c, k).offer = k /\ CreateOffer(c, k).sig = c.sig
      /\ CreateOffer(c, k).gather = c.gather
      /\ CreateAnswer(c, k).answer = k /\ CreateAnswer(c, k).sig = c.sig
  BY DEF PeerConnections, CreateOffer, CreateAnswer
<1>2. /\ GatheringCompletePromise(c, k).handler = k
      /\ GatheringCompletePromise(c, k).sig = c.sig
      /\ GatheringCompletePromise(c, k).gather = c.gather
      /\ GatheringCompletePromise(c, k).offer = c.offer
  BY DEF PeerConnections, GatheringCompletePromise
<1>3. /\ SetLocalOffer(c).handler = c.handler
      /\ c.gather = "new" => SetLocalOffer(c).gather = "running"
      /\ SetRemoteOffer(c).sig = "haveRemoteOffer"
  BY DEF PeerConnections, SetLocalOffer, StartGathering, SetRemoteOffer
<1> QED BY <1>1, <1>2, <1>3

\* A goroutine that goes on serves the offer, and the rest stays idle.
LEMMA OthersStay ==
  ASSUME TypeOK, NEW t \in Threads, NEW label, at' = [at EXCEPT ![t] = label],
         NEW S, t \in S, OthersIdle(S)
  PROVE  OthersIdle(S)'
BY DEF OthersIdle, TypeOK

LEMMA HandleOnPath ==
  ASSUME TypeOK, NEW k \in Offers, HandleStep(k), Live, KitPath
  PROVE  KitPath'
<1> USE ConstantTypes, ThreadsDiffer, HandlersDiffer
<1>1. at[Handle(k)] \notin {"idle", "done"} /\ bp' = bp
  BY DEF HandleStep, HandleSetRemote, HandleCreateAnswer, HandleSetLocal, HandleLoad,
     HandleSend, HandleSpawn, OnKitPeer, LoadForKit, LoadFrom, LoadTo, SendToKit
<1>2. k = 1
  BY <1>1 DEF KitPath, OthersIdle
<1>3. /\ kp \in PeerConnections /\ k \in Nat /\ at \in [Threads -> Labels]
      /\ HandlePath /\ at[Build(1)] = "idle" /\ Unused(bp)
  BY <1>1, <1>2 DEF TypeOK, KitPath, BuildPath
<1>4. CASE HandleSpawn(k)
  <2>1. at' = [at EXCEPT ![Handle(1)] = "done", ![Build(1)] = "check"]
    BY <1>2, <1>4 DEF HandleSpawn
  <2>2. at'[Handle(1)] = "done" /\ at'[Build(1)] = "check"
    BY <1>2, <1>3, <2>1
  <2>3. OthersIdle({Handle(1), Build(1)})'
    BY <1>2, <1>3, <2>1 DEF KitPath, OthersIdle
  <2>4. HandlePath' /\ BuildPath'
    BY <1>1, <1>3, <2>2 DEF HandlePath, BuildPath, Unused
  <2> QED BY <2>3, <2>4 DEF KitPath
<1>5. ASSUME NEW label, at' = [at EXCEPT ![Handle(1)] = label], label # "done", HandlePath'
      PROVE  KitPath'
  <2>1. OthersIdle({Handle(1), Build(1)})'
    BY <1>2, <1>5, OthersStay DEF KitPath
  <2>2. at'[Handle(1)] # "done" /\ at'[Build(1)] = "idle"
    BY <1>2, <1>3, <1>5
  <2>3. BuildPath'
    BY <1>1, <1>3, <2>2 DEF BuildPath, Unused
  <2> QED BY <1>5, <2>1, <2>3 DEF KitPath
<1>6. CASE HandleSetRemote(k)
  <2>1. kp' = SetRemoteOffer(kp) /\ at' = [at EXCEPT ![Handle(1)] = "createAnswer"]
    BY <1>2, <1>3, <1>6 DEF HandleSetRemote, Goto, HandlePath
  <2>2. kp'.sig = "haveRemoteOffer" /\ at'[Handle(1)] = "createAnswer"
    BY <1>2, <1>3, <2>1, CallsSet
  <2> QED BY <1>5, <2>1, <2>2 DEF HandlePath
<1>7. CASE HandleCreateAnswer(k)
  <2>1. /\ kp' = CreateAnswer(kp, 1) /\ kp.sig = "haveRemoteOffer"
        /\ at' = [at EXCEPT ![Handle(1)] = "setLocal"]
    BY <1>2, <1>3, <1>7 DEF HandleCreateAnswer, OnKitPeer, Goto, HandlePath
  <2>2. kp'.sig = "haveRemoteOffer" /\ kp'.answer = 1 /\ at'[Handle(1)] = "setLocal"
    BY <1>2, <1>3, <2>1, CallsSet
  <2> QED BY <1>5, <2>1, <2>2 DEF HandlePath
<1>8. CASE HandleSetLocal(k)
  <2>1. at' = [at EXCEPT ![Handle(1)] = "load"]
    BY <1>2, <1>3, <1>8
    DEF HandleSetLocal, OnKitPeer, Goto, HandlePath, CanSetLocalAnswer
  <2>2. at'[Handle(1)] = "load"
    BY <1>2, <1>3, <2>1
  <2> QED BY <1>5, <2>1, <2>2 DEF HandlePath
<1>9. CASE HandleLoad(k) \/ HandleSend(k)
  <2>1. PICK label \in {"loaded", "send", "spawn"} : at' = [at EXCEPT ![Handle(1)] = label]
    BY <1>2, <1>9 DEF HandleLoad, LoadForKit, LoadFrom, LoadTo, HandleSend, SendToKit,
       Goto
  <2>2. at'[Handle(1)] = label
    BY <1>2, <1>3, <2>1
  <2> QED BY <1>5, <2>1, <2>2 DEF HandlePath
<1> QED BY <1>4, <1>6, <1>7, <1>8, <1>9 DEF HandleStep

LEMMA BuildOnPath ==
  ASSUME TypeOK, OwnInv, ClosedInv, NEW k \in Offers, BuildStep(k), Live, KitPath
  PROVE  KitPath'
<1> USE ConstantTypes, ThreadsDiffer, HandlersDiffer
<1>1. at[Build(k)] # "idle" /\ kp' = kp
  BY DEF BuildStep, BuildCheck, BuildCreateOffer, BuildPromise, BuildSetLocal,
     BuildGathered, BuildAckid, BuildSend, OnBrowserPeer, TakeAckid, SendToBrowser
<1>2. k = 1
  BY <1>1 DEF KitPath, OthersIdle
<1>3. /\ bp \in PeerConnections /\ k \in Nat /\ at \in [Threads -> Labels]
      /\ Open(bp) /\ ~CtxDone
      /\ at[Handle(1)] = "done" /\ HandlePath /\ BuildPath
  BY <1>1, <1>2 DEF TypeOK, ClosedInv, Live, CtxDone, KitPath, BuildPath
<1>4. PICK label : at' = [at EXCEPT ![Build(1)] = label]
  BY <1>2, BuildMoves DEF Moves
<1>5. /\ OthersIdle({Handle(1), Build(1)})'
      /\ at'[Handle(1)] = "done" /\ at'[Build(1)] = label /\ HandlePath'
  <2>1. OthersIdle({Handle(1), Build(1)})'
    BY <1>2, <1>4, OthersStay DEF KitPath
  <2>2. at'[Handle(1)] = "done" /\ at'[Build(1)] = label
    BY <1>2, <1>3, <1>4
  <2> QED BY <1>1, <1>3, <2>1, <2>2 DEF HandlePath
<1>6. SUFFICES BuildPath'
  BY <1>5 DEF KitPath
<1>7. CASE BuildCheck(k)
  <2>1. at'[Build(1)] = "createOffer" /\ bp' = bp /\ Unused(bp)
    BY <1>2, <1>3, <1>7 DEF BuildCheck, OnBrowserPeer, Goto, BuildPath
  <2> QED BY <1>5, <2>1 DEF BuildPath, Unused
<1>8. CASE BuildCreateOffer(k)
  <2>1. at'[Build(1)] = "promise" /\ bp' = CreateOffer(bp, 1) /\ Unused(bp)
    BY <1>2, <1>3, <1>8 DEF BuildCreateOffer, OnBrowserPeer, Goto, BuildPath
  <2>2. Unused(bp)' /\ bp'.offer = 1
    BY <1>2, <1>3, <2>1, CallsSet DEF Unused
  <2> QED BY <1>5, <2>1, <2>2 DEF BuildPath
<1>9. CASE BuildPromise(k)
  <2>1. /\ at'[Build(1)] = "setLocal" /\ bp' = GatheringCompletePromise(bp, 1)
        /\ Unused(bp) /\ bp.offer = 1
    BY <1>2, <1>3, <1>9 DEF BuildPromise, OnBrowserPeer, Goto, BuildPath
  <2>2. Unused(bp)' /\ bp'.offer = 1 /\ bp'.handler = 1
    BY <1>2, <1>3, <2>1, CallsSet DEF Unused
  <2> QED BY <1>5, <2>1, <2>2 DEF BuildPath
<1>10. CASE BuildSetLocal(k)
  <2>1. Unused(bp) /\ bp.offer = 1 /\ bp.handler = 1
    BY <1>2, <1>3, <1>10 DEF BuildSetLocal, OnBrowserPeer, BuildPath
  <2>2. at'[Build(1)] = "gather" /\ bp' = SetLocalOffer(bp)
    BY <1>2, <1>3, <1>10, <2>1
    DEF BuildSetLocal, OnBrowserPeer, Goto, CanSetLocalOffer, Unused
  <2>3. bp'.handler = 1 /\ bp'.gather = "running"
    BY <1>3, <2>1, <2>2, CallsSet DEF Unused
  <2> QED BY <1>5, <2>2, <2>3 DEF BuildPath
<1>11. CASE BuildGathered(k) \/ BuildAckid(k)
  <2>1. at'[Build(1)] \in {"ackid", "send"}
    BY <1>2, <1>3, <1>11 DEF BuildGathered, OnBrowserPeer, BuildAckid, TakeAckid, Goto
  <2> QED BY <1>5, <2>1 DEF BuildPath
<1>12. CASE BuildSend(k)
  <2>1. /\ at[Build(k)] = "send" /\ toBrowser' = Sent(toBrowser, held[Build(k)])
        /\ at'[Build(1)] = "done"
    BY <1>2, <1>3, <1>12 DEF BuildSend, SendToBrowser, Goto
  <2>2. Build(k) \in Stamped
    BY <2>1 DEF Stamped
  <2>3. held[Build(k)].type = "offer" /\ held[Build(k)].of = k
    BY <2>2 DEF OwnInv, OwnForBrowser, Gatherers
  <2>4. OfferedToBrowser(1)'
    BY <1>2, <2>1, <2>2, <2>3, SentToBrowser DEF OfferedToBrowser
  <2> QED BY <1>5, <2>1, <2>4 DEF BuildPath
<1> QED BY <1>7, <1>8, <1>9, <1>10, <1>11, <1>12 DEF BuildStep

LEMMA BridgeOnPath ==
  ASSUME TypeOK, OwnInv, ClosedInv, NEW b \in BrowserOffers, BridgeStep(b), Live,
         BrowserPath
  PROVE  BrowserPath'
<1> USE ConstantTypes, ThreadsDiffer, HandlersDiffer
<1>1. at[Bridge(b)] # "idle"
  BY DEF BridgeStep, BridgeCreateOffer, BridgeSetLocal, BridgeLoad, BridgeSend,
     BridgeWait, BridgeCreateAnswer, BridgeSetLocalAnswer, BridgeAckid,
     BridgeSendAnswer, OnKitPeer, OnBrowserPeer, LoadForKit, LoadFrom, LoadTo,
     TakeAckid, SendToKit, SendToBrowser
<1>2. b = 1
  BY <1>1 DEF BrowserPath, OthersIdle, Bridge
<1>3. /\ kp \in PeerConnections /\ bp \in PeerConnections /\ b \in Nat
      /\ at \in [Threads -> Labels]
      /\ Open(kp) /\ ~CtxDone /\ BridgePath
  BY DEF TypeOK, ClosedInv, Live, CtxDone, BrowserPath
<1>4. PICK label : at' = [at EXCEPT ![Bridge(1)] = label]
  BY <1>2, BridgeMoves DEF Moves
<1>5. OthersIdle({Bridge(1)})' /\ at'[Bridge(1)] = label
  BY <1>2, <1>3, <1>4, OthersStay DEF BrowserPath
<1>6. SUFFICES BridgePath'
  BY <1>5 DEF BrowserPath
<1>7. CASE BridgeCreateOffer(b)
  <2>1. /\ at'[Bridge(1)] = "setLocal" /\ kp' = CreateOffer(kp, 1) /\ bp' = bp
        /\ kp.sig = "stable" /\ bp.sig = "haveRemoteOffer"
    BY <1>2, <1>3, <1>7 DEF BridgeCreateOffer, OnKitPeer, Goto, BridgePath
  <2>2. kp'.sig = "stable" /\ kp'.offer = 1
    BY <1>2, <1>3, <2>1, CallsSet
  <2> QED BY <2>1, <2>2 DEF BridgePath
<1>8. CASE BridgeSetLocal(b)
  <2>1. at'[Bridge(1)] = "load" /\ bp' = bp /\ bp.sig = "haveRemoteOffer"
    BY <1>2, <1>3, <1>8 DEF BridgeSetLocal, OnKitPeer, Goto, BridgePath,
       CanSetLocalOffer
  <2> QED BY <2>1 DEF BridgePath
<1>9. CASE BridgeLoad(b) \/ BridgeSend(b)
  <2>1. at'[Bridge(1)] \in {"loaded", "send", "wait"} /\ bp' = bp /\ bp.sig = "haveRemoteOffer"
    <3>1. bp.sig = "haveRemoteOffer"
      BY <1>2, <1>3, <1>9 DEF BridgeLoad, LoadForKit, LoadFrom, LoadTo, BridgeSend,
         SendToKit, BridgePath
    <3> QED BY <1>2, <1>3, <1>9, <3>1 DEF BridgeLoad, LoadForKit, LoadFrom, LoadTo,
       BridgeSend, SendToKit, Goto
  <2> QED BY <2>1 DEF BridgePath
<1>10. CASE BridgeWait(b)
  <2>1. at'[Bridge(1)] = "createAnswer" /\ bp' = bp /\ bp.sig = "haveRemoteOffer"
    BY <1>2, <1>3, <1>10 DEF BridgeWait, OnBrowserPeer, Goto, BridgePath
  <2> QED BY <2>1 DEF BridgePath
<1>11. CASE BridgeCreateAnswer(b)
  <2>1. /\ at'[Bridge(1)] = "setLocalAnswer" /\ bp' = CreateAnswer(bp, 1)
        /\ bp.sig = "haveRemoteOffer"
    BY <1>2, <1>3, <1>11 DEF BridgeCreateAnswer, OnBrowserPeer, Goto, BridgePath
  <2>2. bp'.sig = "haveRemoteOffer" /\ bp'.answer = 1
    BY <1>2, <1>3, <2>1, CallsSet
  <2> QED BY <2>1, <2>2 DEF BridgePath
<1>12. CASE BridgeSetLocalAnswer(b) \/ BridgeAckid(b)
  <2>1. at'[Bridge(1)] \in {"ackid", "sendAnswer"}
    <3>1. CASE BridgeSetLocalAnswer(b)
      BY <1>2, <1>3, <3>1
      DEF BridgeSetLocalAnswer, OnBrowserPeer, Goto, BridgePath, CanSetLocalAnswer
    <3>2. CASE BridgeAckid(b)
      BY <1>2, <1>3, <3>2 DEF BridgeAckid, TakeAckid, Goto
    <3> QED BY <1>12, <3>1, <3>2
  <2> QED BY <2>1 DEF BridgePath
<1>13. CASE BridgeSendAnswer(b)
  <2>1. /\ at[Bridge(b)] = "sendAnswer" /\ toBrowser' = Sent(toBrowser, held[Bridge(b)])
        /\ at'[Bridge(1)] = "done"
    BY <1>2, <1>3, <1>13 DEF BridgeSendAnswer, SendToBrowser, Goto
  <2>2. Bridge(b) \in Stamped
    BY <2>1 DEF Stamped
  <2>3. held[Bridge(b)].type = "answer" /\ held[Bridge(b)].of = b
    BY <2>2, LoadersDiffer DEF OwnInv, OwnForBrowser, Bridge
  <2>4. AnsweredToBrowser(1)'
    BY <1>2, <2>1, <2>2, <2>3, SentToBrowser DEF AnsweredToBrowser
  <2> QED BY <2>1, <2>4 DEF BridgePath
<1> QED
  BY <1>7, <1>8, <1>9, <1>10, <1>11, <1>12, <1>13 DEF BridgeStep

\* A goroutine under way serves the one offer there is, if there is only one.
LEMMA GoroutinesOnPath ==
  ASSUME TypeOK, OwnInv, ClosedInv, PathInv, Kept, Live' => Live,
         \/ \E k \in Offers : HandleStep(k) \/ BuildStep(k)
         \/ \E b \in BrowserOffers : BridgeStep(b)
  PROVE  PathInv'
<1> USE ConstantTypes, ThreadsDiffer, HandlersDiffer
<1>1. PICK t \in Threads \ Gatherers : /\ at[t] # "idle"
                                       /\ \/ \E k \in Offers : t \in {Handle(k), Build(k)}
                                          \/ \E b \in BrowserOffers : t = Bridge(b)
  <2>1. ASSUME NEW k \in Offers, HandleStep(k)
        PROVE  at[Handle(k)] # "idle"
    BY <2>1 DEF HandleStep, HandleSetRemote, HandleCreateAnswer, HandleSetLocal,
       HandleLoad, HandleSend, HandleSpawn, OnKitPeer, LoadForKit, LoadFrom, LoadTo,
       SendToKit
  <2> QED BY <2>1, BuildMoves, BridgeMoves DEF Moves
<1>2. kit'.offers = kit.offers /\ browser'.offers = browser.offers
  BY DEF HandleStep, HandleSetRemote, HandleCreateAnswer, HandleSetLocal,
     HandleLoad, HandleSend, HandleSpawn, OnKitPeer, LoadForKit, LoadFrom, LoadTo,
     SendToKit, BuildStep, BuildCheck, BuildCreateOffer, BuildPromise, BuildSetLocal,
     BuildGathered, BuildAckid, BuildSend, OnBrowserPeer, TakeAckid, SendToBrowser,
     BridgeStep, BridgeCreateOffer, BridgeSetLocal, BridgeLoad, BridgeSend,
     BridgeWait, BridgeCreateAnswer, BridgeSetLocalAnswer, BridgeAckid,
     BridgeSendAnswer, ends
<1>3. Live => ~(kit.offers = 0 /\ browser.offers = 0)
  BY <1>1 DEF PathInv, OthersIdle
<1>4. CASE Live /\ kit.offers = 1 /\ browser.offers = 0
  <2>1. KitPath
    BY <1>4 DEF PathInv
  <2>2. \A b \in BrowserOffers : ~BridgeStep(b)
    BY <2>1, BridgeMoves DEF KitPath, OthersIdle, Moves
  <2>3. KitPath'
    BY <1>4, <2>1, <2>2, HandleOnPath, BuildOnPath
  <2> QED BY <1>2, <1>4, <2>3 DEF PathInv
<1>5. CASE Live /\ kit.offers = 0 /\ browser.offers = 1
  <2>1. BrowserPath
    BY <1>5 DEF PathInv
  <2>2. \A k \in Offers : at[Handle(k)] = "idle" /\ at[Build(k)] = "idle"
    BY <2>1 DEF BrowserPath, OthersIdle
  <2>3. \A k \in Offers : ~HandleStep(k) /\ ~BuildStep(k)
    BY <2>2, BuildMoves DEF Moves, HandleStep, HandleSetRemote, HandleCreateAnswer,
       HandleSetLocal, HandleLoad, HandleSend, HandleSpawn, OnKitPeer, LoadForKit,
       LoadFrom, LoadTo, SendToKit
  <2>4. BrowserPath'
    BY <1>5, <2>1, <2>3, BridgeOnPath
  <2> QED BY <1>2, <1>5, <2>4 DEF PathInv
<1> QED BY <1>2, <1>3, <1>4, <1>5 DEF PathInv

LEMMA PathInvStep ==
  TypeOK /\ OwnInv /\ ClosedInv /\ PathInv /\ [Next]_vars => PathInv'
<1> SUFFICES ASSUME TypeOK, OwnInv, ClosedInv, PathInv, [Next]_vars PROVE PathInv'
  OBVIOUS
<1>1. Kept /\ (Live' => Live)
  BY OfferKept, StaysDown
<1>2. CASE TearDown \/ \E pump \in {"kit", "client"} : CloseSockets(pump)
  <2>1. ~Live'
    BY <1>2 DEF TearDown, Cancel, CloseBrowserPeer, CloseKitPeer, CloseSockets, Live
  <2> QED BY <2>1 DEF PathInv
<1>3. CASE Kit \/ Browser
  BY <1>1, <1>3, HookUndisturbs, PathCalmStep, KitOfferOnPath, BrowserOfferOnPath
<1>4. CASE KitSideStep \/ BrowserSideStep \/ UNCHANGED vars
  BY <1>1, <1>4, GatherersUndisturb, PathCalmStep
<1> QED BY <1>1, <1>2, <1>3, <1>4, GoroutinesOnPath DEF Next

\* A goroutine of a lone offer that has ended has delivered it.
LEMMA PathDelivers == TypeInv /\ PathInv => LoneOfferDelivered
<1> SUFFICES ASSUME TypeInv, PathInv, Live, AtRest
             PROVE  /\ kit.offers = 1 /\ browser.offers = 0 => OfferedToBrowser(1)
                    /\ browser.offers = 1 /\ kit.offers = 0 => AnsweredToBrowser(1)
  BY DEF LoneOfferDelivered
<1>1. ASSUME kit.offers = 1, browser.offers = 0
      PROVE  OfferedToBrowser(1)
  <2>1. 1 \in Offers /\ HandlePath /\ BuildPath
    BY <1>1 DEF PathInv, KitPath
  <2>2. bp.gather \in {"new", "complete"}
    BY DEF AtRest, TypeInv, TypeOK, PeerConnections
  <2>3. at[Handle(1)] = "done"
    BY <2>1 DEF AtRest, HandlePath
  <2> QED BY <2>1, <2>2, <2>3 DEF AtRest, BuildPath, Waits
<1>2. ASSUME browser.offers = 1, kit.offers = 0
      PROVE  AnsweredToBrowser(1)
  BY <1>2 DEF PathInv, BrowserPath, BridgePath, AtRest
<1> QED BY <1>1, <1>2

\* A live session at rest has passed on the only offer it was made: Kit's has
\* reached the browser, the browser's is answered, whatever other frames,
\* candidates and callbacks come between (session.go:276-303, 381-443, 458-536).
THEOREM LoneOfferPassedOn == Spec => []LoneOfferDelivered
<1>1. Init => ClosedInv /\ PathInv
  <2> SUFFICES ASSUME Init PROVE ClosedInv /\ PathInv
    OBVIOUS
  <2>1. ClosedInv
    BY AcceptInvInit DEF AcceptInv
  <2>2. PathInv
    BY DEF Init, PathInv, OthersIdle, Unused, NewPeerConnection
  <2> QED BY <2>1, <2>2
<1>2. FrameInv /\ ClosedInv /\ PathInv /\ [Next]_vars => ClosedInv' /\ PathInv'
  BY PathInvStep, ClosedInvStep DEF FrameInv, TypeInv
<1>3. FrameInv /\ PathInv => LoneOfferDelivered
  BY PathDelivers DEF FrameInv
<1> QED BY <1>1, <1>2, <1>3, FrameInvAlways, PTL DEF Spec
-----------------------------------------------------------------------------
(* Refinement of OfferExchange.                                            *)

Offered == kit.offers + browser.offers > 0
Asking(b) ==
  at[Bridge(b)] \in {"wait", "createAnswer", "setLocalAnswer", "ackid", "sendAnswer"}

\* The place of a goroutine tells what it has said: nothing before its send,
\* nothing more after it.
KitOnce ==
  \A k \in Offers :
    /\ AnswerSent(k) => at[Handle(k)] \in {"spawn", "done"}
    /\ at[Build(k)] # "idle" => at[Handle(k)] = "done"
    /\ OfferedToBrowser(k) => at[Build(k)] = "done"
    /\ k > kit.offers => at[Handle(k)] = "idle"

BrowserOnce ==
  \A b \in BrowserOffers :
    /\ AnsweredToBrowser(b) => at[Bridge(b)] = "done"
    /\ Live /\ Asking(b) => OfferSent(b)

\* Nobody gathers before an offer.
CandidateInv ==
  /\ \A g \in Gatherers : at[g] # "idle" => Offered
  /\ Active => Offered

OnceInv == KitOnce /\ BrowserOnce /\ CandidateInv

\* What was said stays said, and what a step writes is all it adds.
Mute ==
  /\ \A k \in Offers : /\ AnswerSent(k)' => AnswerSent(k)
                       /\ OfferedToBrowser(k)' => OfferedToBrowser(k)
  /\ \A b \in BrowserOffers : AnsweredToBrowser(b)' => AnsweredToBrowser(b)

LEMMA SaidToKit ==
  ASSUME TypeOK, NEW f \in Frames, toKit' = Sent(toKit, f), NEW k, AnswerSent(k)'
  PROVE  AnswerSent(k) \/ (f.type = "answer" /\ f.of = k)
<1>1. PICK i \in 1..Len(toKit') : toKit'[i].type = "answer" /\ toKit'[i].of = k
  BY DEF AnswerSent
<1> QED BY <1>1, NewOnKitWire DEF AnswerSent

LEMMA SaidToBrowser ==
  ASSUME TypeOK, NEW f \in Frames, toBrowser' = Sent(toBrowser, f), NEW n
  PROVE  /\ OfferedToBrowser(n)' =>
              OfferedToBrowser(n) \/ (f.type = "offer" /\ f.of = n)
         /\ AnsweredToBrowser(n)' =>
              AnsweredToBrowser(n) \/ (f.type = "answer" /\ f.of = n)
BY NewOnBrowserWire DEF OfferedToBrowser, AnsweredToBrowser

LEMMA Muted ==
  ASSUME TypeOK,
         \/ toKit' = toKit
         \/ \E f \in Frames : f.type # "answer" /\ toKit' = Sent(toKit, f),
         \/ toBrowser' = toBrowser
         \/ \E f \in Frames : /\ f.type \notin {"offer", "answer"}
                              /\ toBrowser' = Sent(toBrowser, f)
  PROVE  Mute
<1>1. \A k : AnswerSent(k)' => AnswerSent(k)
  <2>1. CASE toKit' = toKit
    BY <2>1 DEF AnswerSent
  <2> QED BY <2>1, SaidToKit
<1>2. \A n : /\ OfferedToBrowser(n)' => OfferedToBrowser(n)
             /\ AnsweredToBrowser(n)' => AnsweredToBrowser(n)
  <2>1. CASE toBrowser' = toBrowser
    BY <2>1 DEF OfferedToBrowser, AnsweredToBrowser
  <2> QED BY <2>1, SaidToBrowser
<1> QED BY <1>1, <1>2 DEF Mute

LEMMA OfferStays == TypeOK /\ [Next]_vars => \A b : OfferSent(b) => OfferSent(b)'
BY NextWires, Grows DEF OfferSent

\* A step of the hooks, the gatherers or the teardown that is no offer.
LEMMA CalmIsMute ==
  ASSUME TypeOK, OwnInv,
         \/ Kit \/ Browser \/ KitSideStep \/ BrowserSideStep \/ TearDown \/ UNCHANGED vars
         \/ \E pump \in {"kit", "client"} : CloseSockets(pump)
  PROVE  Mute
<1> USE ConstantTypes, WireTypes, ThreadsDiffer
<1>1. CASE Kit
  <2>1. kit.sent + 1 \in Nat
    OBVIOUS
  <2>2. \A n \in Nat : Ack(n).type = "ack" /\ Passed(n).type = "passed"
    BY DEF Ack, Passed, Frame
  <2> QED BY <1>1, <2>1, <2>2, KitWires, Muted DEF KitStep, Writes
<1>2. CASE Browser
  <2>1. toBrowser' = toBrowser /\ (toKit' = toKit \/ toKit' = Sent(toKit, FromBrowser))
    BY <1>2 DEF Browser, BrowserReads, BrowserAnswer, SetBrowserAnswer, BrowserOffer,
       BrowserCandidate, AddBrowserCandidate, BrowserUnknown, FromBrowser
  <2>2. FromBrowser.type # "answer"
    BY DEF FromBrowser, Frame
  <2> QED BY <2>1, <2>2, Muted
<1>3. CASE KitSideStep \/ BrowserSideStep
  <2>1. \/ toKit' = toKit
        \/ KitSide \in Loaded /\ toKit' = Sent(toKit, held[KitSide])
    BY <1>3 DEF KitSideStep, BrowserSideStep, KitSideCandidate, KitSideSend,
       KitSideGathered, BrowserSideCandidate, BrowserSideSend, BrowserSideGathered,
       SentCandidate, LoadForKit, LoadFrom, LoadTo, TakeAckid, Loaded
  <2>2. \/ toBrowser' = toBrowser
        \/ BrowserSide \in Stamped /\ toBrowser' = Sent(toBrowser, held[BrowserSide])
    BY <1>3 DEF KitSideStep, BrowserSideStep, KitSideCandidate, KitSideSend,
       KitSideGathered, BrowserSideCandidate, BrowserSideSend, BrowserSideGathered,
       SentCandidate, LoadForKit, LoadFrom, LoadTo, TakeAckid, Stamped
  <2>3. KitSide \in Loaded => held[KitSide] \in Frames /\ held[KitSide].type # "answer"
    BY DEF OwnInv, OwnForKit
  <2>4. BrowserSide \in Stamped =>
          /\ held[BrowserSide] \in Frames
          /\ held[BrowserSide].type \notin {"offer", "answer"}
    BY DEF OwnInv, OwnForBrowser
  <2> QED BY <2>1, <2>2, <2>3, <2>4, Muted
<1>4. CASE TearDown \/ UNCHANGED vars \/ \E pump \in {"kit", "client"} : CloseSockets(pump)
  <2>1. toKit' = toKit /\ toBrowser' = toBrowser
    BY <1>4 DEF TearDown, Cancel, CloseBrowserPeer, CloseKitPeer, CloseSockets, vars
  <2> QED BY <2>1, Muted
<1> QED BY <1>1, <1>2, <1>3, <1>4

\* Kept along any step: the promises to the browser's offers while no bridge
\* moves, and those to Kit's while no handler does.
LEMMA BrowserOnceCalm ==
  ASSUME BrowserOnce, Live' => Live, \A b : OfferSent(b) => OfferSent(b)',
         \A b \in BrowserOffers : /\ at'[Bridge(b)] = at[Bridge(b)]
                                  /\ AnsweredToBrowser(b)' => AnsweredToBrowser(b)
  PROVE  BrowserOnce'
BY DEF BrowserOnce, Asking

LEMMA KitOnceCalm ==
  ASSUME TypeOK, KitOnce, kit'.offers = kit.offers \/ kit'.offers = kit.offers + 1,
         \A k \in Offers : /\ at'[Handle(k)] = at[Handle(k)] /\ at'[Build(k)] = at[Build(k)]
                           /\ AnswerSent(k)' => AnswerSent(k)
                           /\ OfferedToBrowser(k)' => OfferedToBrowser(k)
  PROVE  KitOnce'
<1>1. kit.offers \in Nat
  BY DEF TypeOK
<1>2. \A k \in Nat : k > kit'.offers => k > kit.offers
  BY <1>1
<1> QED BY <1>2, ConstantTypes DEF KitOnce

LEMMA KitOfferOnce ==
  ASSUME TypeOK, OwnInv, KitOnce, KitOffer
  PROVE  KitOnce'
<1> USE ConstantTypes, HandlersDiffer
<1>1. PICK j \in Offers : /\ j = kit.offers + 1 /\ kit'.offers = j
                          /\ at' = [at EXCEPT ![Handle(j)] = "setRemote"]
  BY DEF KitOffer, Goto, TypeOK
<1>2. Mute
  BY CalmIsMute DEF Kit
<1>3. kit.offers \in Nat /\ at \in [Threads -> Labels]
  BY DEF TypeOK
<1>4. at[Handle(j)] = "idle"
  BY <1>1, <1>3 DEF KitOnce
<1>5. \A k \in Offers : k # j => at'[Handle(k)] = at[Handle(k)]
  BY <1>1, <1>3
<1>6. \A k \in Offers : at'[Build(k)] = at[Build(k)]
  BY <1>1, <1>3
<1>7. at'[Handle(j)] = "setRemote" /\ ~(j > kit'.offers)
  BY <1>1, <1>3
<1>8. \A k \in Offers : k > kit'.offers => k > kit.offers
  BY <1>1, <1>3
<1> QED BY <1>2, <1>4, <1>5, <1>6, <1>7, <1>8 DEF KitOnce, Mute

LEMMA BrowserOfferOnce ==
  ASSUME TypeOK, OwnInv, AskInv, BrowserOnce, BrowserOffer, Live' => Live,
         \A b : OfferSent(b) => OfferSent(b)'
  PROVE  BrowserOnce'
<1> USE ConstantTypes, HandlersDiffer
<1>1. PICK j \in BrowserOffers :
        /\ j = browser.offers + 1
        /\ at' = at \/ at' = [at EXCEPT ![Bridge(j)] = "createOffer"]
  BY DEF BrowserOffer, Goto
<1>2. Mute
  BY CalmIsMute DEF Browser
<1>3. browser.offers \in Nat /\ at \in [Threads -> Labels]
  BY DEF TypeOK
<1>4. at[Bridge(j)] = "idle"
  BY <1>1, <1>3 DEF AskInv
<1>5. \A b \in BrowserOffers :
        at'[Bridge(b)] = at[Bridge(b)] \/ (b = j /\ at'[Bridge(b)] = "createOffer")
  <2>1. \A b \in BrowserOffers : b # j => Bridge(b) # Bridge(j)
    BY DEF Bridge
  <2> QED BY <1>1, <1>3, <2>1
<1> QED BY <1>2, <1>4, <1>5 DEF BrowserOnce, Mute, Asking

\* A goroutine under way has not said its last word, and only its send says
\* anything.
LEMMA HandleOnce ==
  ASSUME TypeOK, OwnInv, KitOnce, NEW j \in Offers, HandleStep(j)
  PROVE  KitOnce' /\ \A b \in BrowserOffers : /\ at'[Bridge(b)] = at[Bridge(b)]
                                              /\ AnsweredToBrowser(b)' => AnsweredToBrowser(b)
<1> USE ConstantTypes, HandlersDiffer, WireTypes
<1>1. at[Handle(j)] \notin {"idle", "done"} /\ toBrowser' = toBrowser /\ kit' = kit
  BY DEF HandleStep, HandleSetRemote, HandleCreateAnswer, HandleSetLocal, HandleLoad,
     HandleSend, HandleSpawn, OnKitPeer, LoadForKit, LoadFrom, LoadTo, SendToKit, ends
<1>2. /\ at[Build(j)] = "idle" /\ ~(j > kit.offers) /\ ~OfferedToBrowser(j)
      /\ at \in [Threads -> Labels]
  BY <1>1 DEF KitOnce, TypeOK
<1>3. \A n : /\ OfferedToBrowser(n)' => OfferedToBrowser(n)
             /\ AnsweredToBrowser(n)' => AnsweredToBrowser(n)
  BY <1>1 DEF OfferedToBrowser, AnsweredToBrowser
<1>4. \A k \in Offers : /\ AnswerSent(k)' =>
                             AnswerSent(k) \/ (k = j /\ at'[Handle(j)] \in {"spawn", "done"})
                        /\ AnswerSent(k) => AnswerSent(k)'
  <2>1. CASE HandleSend(j)
    <3>1. /\ Handle(j) \in Loaded /\ toKit' = Sent(toKit, held[Handle(j)])
          /\ at'[Handle(j)] \in {"spawn", "done"}
      BY <1>2, <2>1 DEF HandleSend, SendToKit, Goto, Loaded
    <3>2. held[Handle(j)] \in Frames /\ held[Handle(j)].of = j
      BY <3>1, ThreadsDiffer DEF OwnInv, OwnForKit, Handle, Bridge, Gatherers
    <3>3. \A k \in Offers : AnswerSent(k)' => AnswerSent(k) \/ k = j
      BY <3>1, <3>2, SaidToKit
    <3>4. \A k \in Offers : AnswerSent(k) => AnswerSent(k)'
      BY HandleWires, Grows DEF AnswerSent, WireStep
    <3> QED BY <3>1, <3>3, <3>4
  <2>2. CASE ~HandleSend(j)
    <3>1. toKit' = toKit
      BY <2>2 DEF HandleStep, HandleSetRemote, HandleCreateAnswer, HandleSetLocal,
         HandleLoad, HandleSpawn, OnKitPeer, LoadForKit, LoadFrom, LoadTo
    <3> QED BY <3>1 DEF AnswerSent
  <2> QED BY <2>1, <2>2
<1>5. CASE HandleSpawn(j)
  <2>1. at' = [at EXCEPT ![Handle(j)] = "done", ![Build(j)] = "check"]
    BY <1>5 DEF HandleSpawn
  <2>2. at'[Handle(j)] = "done" /\ at'[Build(j)] = "check"
    BY <1>2, <2>1
  <2>3. /\ \A k \in Offers : k # j => /\ at'[Handle(k)] = at[Handle(k)]
                                      /\ at'[Build(k)] = at[Build(k)]
        /\ \A b \in BrowserOffers : at'[Bridge(b)] = at[Bridge(b)]
    BY <1>2, <2>1
  <2> QED BY <1>1, <1>2, <1>3, <1>4, <2>2, <2>3 DEF KitOnce
<1>6. CASE ~HandleSpawn(j)
  <2>1. PICK label : at' = [at EXCEPT ![Handle(j)] = label]
    BY <1>6, HandleMoves DEF HandleStep, HandleSend, SendToKit, Goto, Moves
  <2>2. /\ \A k \in Offers : /\ k # j => at'[Handle(k)] = at[Handle(k)]
                             /\ at'[Build(k)] = at[Build(k)]
        /\ \A b \in BrowserOffers : at'[Bridge(b)] = at[Bridge(b)]
    BY <1>2, <2>1
  <2>3. AnswerSent(j) => at[Handle(j)] = "spawn"
    BY <1>1 DEF KitOnce
  <2>4. at[Handle(j)] # "spawn"
    BY <1>6 DEF HandleStep, HandleSetRemote, HandleCreateAnswer, HandleSetLocal,
       HandleLoad, HandleSend, OnKitPeer, LoadForKit, LoadFrom, LoadTo, SendToKit
  <2>5. \A k \in Offers :
          k # j => /\ AnswerSent(k)' => at'[Handle(k)] \in {"spawn", "done"}
                   /\ at'[Build(k)] # "idle" => at'[Handle(k)] = "done"
                   /\ k > kit'.offers => at'[Handle(k)] = "idle"
    BY <1>1, <1>4, <2>2 DEF KitOnce
  <2>6. AnswerSent(j)' => at'[Handle(j)] \in {"spawn", "done"}
    BY <1>4, <2>3, <2>4
  <2>7. \A k \in Offers : OfferedToBrowser(k)' => at'[Build(k)] = "done"
    BY <1>3, <2>2 DEF KitOnce
  <2> QED BY <1>1, <1>2, <1>3, <2>2, <2>5, <2>6, <2>7 DEF KitOnce
<1> QED BY <1>5, <1>6

LEMMA BuildOnce ==
  ASSUME TypeOK, OwnInv, KitOnce, NEW j \in Offers, BuildStep(j)
  PROVE  KitOnce' /\ \A b \in BrowserOffers : /\ at'[Bridge(b)] = at[Bridge(b)]
                                              /\ AnsweredToBrowser(b)' => AnsweredToBrowser(b)
<1> USE ConstantTypes, HandlersDiffer, WireTypes
<1>1. /\ at[Build(j)] \notin {"idle", "done"} /\ toKit' = toKit /\ kit' = kit
      /\ at \in [Threads -> Labels]
  BY DEF BuildStep, BuildCheck, BuildCreateOffer, BuildPromise, BuildSetLocal,
     BuildGathered, BuildAckid, BuildSend, OnBrowserPeer, TakeAckid, SendToBrowser,
     ends, TypeOK
<1>2. at[Handle(j)] = "done" /\ ~OfferedToBrowser(j)
  BY <1>1 DEF KitOnce
<1>3. PICK label : at' = [at EXCEPT ![Build(j)] = label]
  BY BuildMoves DEF Moves
<1>4. /\ \A k \in Offers : /\ k # j => at'[Build(k)] = at[Build(k)]
                           /\ at'[Handle(k)] = at[Handle(k)]
                           /\ AnswerSent(k)' => AnswerSent(k)
      /\ \A b \in BrowserOffers : at'[Bridge(b)] = at[Bridge(b)]
  BY <1>1, <1>3 DEF AnswerSent
<1>5. /\ \A k \in Offers :
           OfferedToBrowser(k)' => OfferedToBrowser(k) \/ (k = j /\ at'[Build(j)] = "done")
      /\ \A b \in BrowserOffers : AnsweredToBrowser(b)' => AnsweredToBrowser(b)
  <2>1. CASE BuildSend(j)
    <3>1. /\ Build(j) \in Stamped /\ toBrowser' = Sent(toBrowser, held[Build(j)])
          /\ at'[Build(j)] = "done"
      BY <1>1, <2>1 DEF BuildSend, SendToBrowser, Goto, Stamped
    <3>2. held[Build(j)] \in Frames /\ held[Build(j)].of = j /\ held[Build(j)].type = "offer"
      BY <3>1, ThreadsDiffer DEF OwnInv, OwnForBrowser, Build, Bridge, Gatherers
    <3> QED BY <3>1, <3>2, SaidToBrowser
  <2>2. CASE ~BuildSend(j)
    <3>1. toBrowser' = toBrowser
      BY <2>2 DEF BuildStep, BuildCheck, BuildCreateOffer, BuildPromise, BuildSetLocal,
         BuildGathered, BuildAckid, OnBrowserPeer, TakeAckid
    <3> QED BY <3>1 DEF OfferedToBrowser, AnsweredToBrowser
  <2> QED BY <2>1, <2>2
<1> QED BY <1>1, <1>2, <1>4, <1>5 DEF KitOnce

LEMMA BridgeOnce ==
  ASSUME TypeOK, OwnInv, BrowserOnce, NEW j \in BrowserOffers, BridgeStep(j),
         \A b : OfferSent(b) => OfferSent(b)'
  PROVE  /\ BrowserOnce'
         /\ \A k \in Offers : /\ at'[Handle(k)] = at[Handle(k)] /\ at'[Build(k)] = at[Build(k)]
                              /\ AnswerSent(k)' => AnswerSent(k)
                              /\ OfferedToBrowser(k)' => OfferedToBrowser(k)
<1> USE ConstantTypes, HandlersDiffer, WireTypes
<1>1. at[Bridge(j)] # "done" /\ stage' = stage /\ at \in [Threads -> Labels]
  BY DEF BridgeStep, BridgeCreateOffer, BridgeSetLocal, BridgeLoad, BridgeSend,
     BridgeWait, BridgeCreateAnswer, BridgeSetLocalAnswer, BridgeAckid,
     BridgeSendAnswer, OnKitPeer, OnBrowserPeer, LoadForKit, LoadFrom, LoadTo,
     TakeAckid, SendToKit, SendToBrowser, closing, TypeOK
<1>2. PICK label : at' = [at EXCEPT ![Bridge(j)] = label]
  BY BridgeMoves DEF Moves
<1>3. /\ \A b \in BrowserOffers : b # j => at'[Bridge(b)] = at[Bridge(b)]
      /\ \A k \in Offers : at'[Handle(k)] = at[Handle(k)] /\ at'[Build(k)] = at[Build(k)]
  <2>1. \A b \in BrowserOffers : b # j => Bridge(b) # Bridge(j)
    BY DEF Bridge
  <2> QED BY <1>1, <1>2, <2>1
<1>4. \A k : AnswerSent(k)' => AnswerSent(k)
  <2>1. CASE BridgeSend(j)
    <3>1. Bridge(j) \in Loaded /\ toKit' = Sent(toKit, held[Bridge(j)])
      BY <2>1 DEF BridgeSend, SendToKit, Loaded
    <3>2. held[Bridge(j)] \in Frames /\ held[Bridge(j)].type = "offer"
      BY <3>1, ThreadsDiffer DEF OwnInv, OwnForKit, Handle, Bridge, Gatherers
    <3> QED BY <3>1, <3>2, SaidToKit
  <2>2. CASE ~BridgeSend(j)
    <3>1. toKit' = toKit
      BY <2>2 DEF BridgeStep, BridgeCreateOffer, BridgeSetLocal, BridgeLoad, BridgeWait,
         BridgeCreateAnswer, BridgeSetLocalAnswer, BridgeAckid, BridgeSendAnswer,
         OnKitPeer, OnBrowserPeer, LoadForKit, LoadFrom, LoadTo, TakeAckid,
         SendToBrowser
    <3> QED BY <3>1 DEF AnswerSent
  <2> QED BY <2>1, <2>2
<1>5. /\ \A k \in Offers : OfferedToBrowser(k)' => OfferedToBrowser(k)
      /\ \A b \in BrowserOffers :
           AnsweredToBrowser(b)' => AnsweredToBrowser(b) \/ (b = j /\ at'[Bridge(j)] = "done")
  <2>1. CASE BridgeSendAnswer(j)
    <3>1. /\ Bridge(j) \in Stamped /\ toBrowser' = Sent(toBrowser, held[Bridge(j)])
          /\ at'[Bridge(j)] = "done"
      BY <1>1, <2>1 DEF BridgeSendAnswer, SendToBrowser, Goto, Stamped
    <3>2. /\ held[Bridge(j)] \in Frames
          /\ held[Bridge(j)].of = j /\ held[Bridge(j)].type = "answer"
      BY <3>1, ThreadsDiffer DEF OwnInv, OwnForBrowser, Build, Bridge, Gatherers
    <3> QED BY <3>1, <3>2, SaidToBrowser
  <2>2. CASE ~BridgeSendAnswer(j)
    <3>1. toBrowser' = toBrowser
      BY <2>2 DEF BridgeStep, BridgeCreateOffer, BridgeSetLocal, BridgeLoad, BridgeSend,
         BridgeWait, BridgeCreateAnswer, BridgeSetLocalAnswer, BridgeAckid, OnKitPeer,
         OnBrowserPeer, LoadForKit, LoadFrom, LoadTo, TakeAckid, SendToKit
    <3> QED BY <3>1 DEF OfferedToBrowser, AnsweredToBrowser
  <2> QED BY <2>1, <2>2
<1>6. Live /\ Asking(j)' => OfferSent(j)'
  <2>1. CASE BridgeSend(j)
    <3>1. Bridge(j) \in Loaded /\ toKit' = Sent(toKit, held[Bridge(j)])
      BY <2>1 DEF BridgeSend, SendToKit, Loaded
    <3>2. held[Bridge(j)] \in Frames /\ held[Bridge(j)].type = "offer" /\ held[Bridge(j)].of = j
      BY <3>1, ThreadsDiffer DEF OwnInv, OwnForKit, Handle, Bridge, Gatherers
    <3>3. Live => /\ Len(toKit) + 1 \in 1..Len(toKit')
                  /\ toKit'[Len(toKit) + 1] = held[Bridge(j)]
      BY <3>1, <3>2 DEF Sent
    <3> QED BY <3>2, <3>3 DEF OfferSent
  <2>2. CASE ~BridgeSend(j)
    <3>1. at'[Bridge(j)] \in {"wait", "createAnswer", "setLocalAnswer", "ackid", "sendAnswer"}
            => Asking(j)
      BY <1>1, <2>2
      DEF BridgeStep, BridgeCreateOffer, BridgeSetLocal, BridgeLoad, BridgeWait,
         BridgeCreateAnswer, BridgeSetLocalAnswer, BridgeAckid, BridgeSendAnswer,
         OnKitPeer, OnBrowserPeer, LoadForKit, LoadFrom, LoadTo, TakeAckid,
         SendToBrowser, Goto, Asking
    <3> QED BY <3>1 DEF BrowserOnce, Asking
  <2> QED BY <2>1, <2>2
<1>7. Live' => Live
  BY <1>1 DEF Live
<1>8. \A b \in BrowserOffers : AnsweredToBrowser(b)' => at'[Bridge(b)] = "done"
  BY <1>1, <1>3, <1>5 DEF BrowserOnce
<1>9. \A b \in BrowserOffers : b # j /\ Live /\ Asking(b)' => OfferSent(b)'
  BY <1>3 DEF BrowserOnce, Asking
<1> QED BY <1>3, <1>4, <1>5, <1>6, <1>7, <1>8, <1>9 DEF BrowserOnce

LEMMA OfferedStep ==
  ASSUME TypeOK, [Next]_vars
  PROVE  /\ kit'.offers = kit.offers \/ kit'.offers = kit.offers + 1
         /\ browser'.offers = browser.offers \/ browser'.offers = browser.offers + 1
         /\ Offered => Offered'
<1>0. kit.offers \in Nat /\ browser.offers \in Nat
  BY DEF TypeOK
<1>1. ASSUME kit' = kit, browser' = browser
      PROVE  kit'.offers = kit.offers /\ browser'.offers = browser.offers
  BY <1>1
<1>2. CASE \/ \E k \in Offers : HandleStep(k) \/ BuildStep(k)
           \/ \E b \in BrowserOffers : BridgeStep(b)
  <2>1. kit' = kit /\ browser' = browser
    BY <1>2 DEF HandleStep, HandleSetRemote, HandleCreateAnswer, HandleSetLocal,
       HandleLoad, HandleSend, HandleSpawn, OnKitPeer, LoadForKit, LoadFrom, LoadTo,
       SendToKit, BuildStep, BuildCheck, BuildCreateOffer, BuildPromise,
       BuildSetLocal, BuildGathered, BuildAckid, BuildSend, OnBrowserPeer, TakeAckid,
       SendToBrowser, BridgeStep, BridgeCreateOffer, BridgeSetLocal, BridgeLoad,
       BridgeSend, BridgeWait, BridgeCreateAnswer, BridgeSetLocalAnswer, BridgeAckid,
       BridgeSendAnswer, ends
  <2> QED BY <1>1, <2>1 DEF Offered
<1>3. CASE KitOffer
  <2>1. kit'.offers = kit.offers + 1 /\ browser' = browser
    BY <1>3 DEF KitOffer, TypeOK
  <2> QED BY <1>0, <2>1 DEF Offered
<1>4. CASE BrowserOffer
  <2>1. browser'.offers = browser.offers + 1 /\ kit' = kit
    BY <1>4 DEF BrowserOffer, TypeOK
  <2> QED BY <1>0, <2>1 DEF Offered
<1>5. CASE PathCalm
  BY <1>5 DEF PathCalm, Offered
<1>6. CASE TearDown \/ \E pump \in {"kit", "client"} : CloseSockets(pump)
  <2>1. kit' = kit /\ browser' = browser
    BY <1>6 DEF TearDown, Cancel, CloseBrowserPeer, CloseKitPeer, CloseSockets, ends
  <2> QED BY <1>1, <2>1 DEF Offered
<1> QED
  BY <1>2, <1>3, <1>4, <1>5, <1>6, HookUndisturbs, GatherersUndisturb DEF Next

LEMMA CandidateInvStep ==
  TypeOK /\ CandidateInv /\ [Next]_vars => CandidateInv'
<1> SUFFICES ASSUME TypeOK, CandidateInv, [Next]_vars PROVE CandidateInv'
  OBVIOUS
<1> USE ConstantTypes, ThreadsDiffer
<1>0. /\ Offered => Offered'
      /\ kit.offers \in Nat /\ browser.offers \in Nat
  BY OfferedStep DEF TypeOK
<1>1. CASE KitOffer \/ BrowserOffer
  <2>1. kit'.offers = kit.offers + 1 \/ browser'.offers = browser.offers + 1
    BY <1>1 DEF KitOffer, BrowserOffer, TypeOK
  <2>2. /\ kit'.offers = kit.offers \/ kit'.offers = kit.offers + 1
        /\ browser'.offers = browser.offers \/ browser'.offers = browser.offers + 1
    BY OfferedStep
  <2>3. Offered'
    BY <1>0, <2>1, <2>2 DEF Offered
  <2> QED BY <2>3 DEF CandidateInv
<1>2. CASE \/ \E k \in Offers : HandleStep(k) \/ BuildStep(k)
           \/ \E b \in BrowserOffers : BridgeStep(b)
  <2>1. \A k \in Offers : HandleStep(k) => at[Handle(k)] # "idle"
    BY DEF HandleStep, HandleSetRemote, HandleCreateAnswer, HandleSetLocal,
       HandleLoad, HandleSend, HandleSpawn, OnKitPeer, LoadForKit, LoadFrom, LoadTo,
       SendToKit
  <2>2. Active
    BY <1>2, <2>1, BuildMoves, BridgeMoves, Awake DEF Moves
  <2> QED BY <1>0, <2>2 DEF CandidateInv
<1>3. CASE PathCalm /\ (Kit \/ Browser)
  <2>1. at' = at \/ KitOffer \/ BrowserOffer
    BY <1>3 DEF Kit, KitPeerInfo, KitUnknown, KitAnswer, KitCandidate, AddKitCandidate,
       Browser, BrowserReads, BrowserAnswer, SetBrowserAnswer, BrowserCandidate,
       AddBrowserCandidate, BrowserUnknown, threads
  <2>2. Active' => Active \/ KitOffer \/ BrowserOffer
    BY <1>3, <2>1 DEF Active, PathCalm, Undisturbed
  <2> QED BY <1>0, <1>1, <2>1, <2>2 DEF CandidateInv
<1>4. CASE KitSideStep \/ BrowserSideStep \/ UNCHANGED vars
  <2>1. PathCalm
    BY <1>4, GatherersUndisturb
  <2>2. Active' => Active
    BY <2>1 DEF Active, PathCalm, Undisturbed
  <2>3. \A g \in Gatherers : at'[g] # "idle" => at[g] # "idle" \/ Active
    BY <1>4 DEF KitSideStep, BrowserSideStep, KitSideCandidate, KitSideSend,
       KitSideGathered, BrowserSideCandidate, BrowserSideSend, BrowserSideGathered,
       SentCandidate, Reports, LoadForKit, LoadFrom, LoadTo, TakeAckid, Goto, threads,
       vars, Active, TypeOK
  <2> QED BY <1>0, <2>2, <2>3 DEF CandidateInv
<1>5. CASE TearDown \/ \E pump \in {"kit", "client"} : CloseSockets(pump)
  <2>1. at' = at /\ kp'.gather = kp.gather /\ bp'.gather = bp.gather
    BY <1>5, GatherKept
    DEF TearDown, Cancel, CloseBrowserPeer, CloseKitPeer, CloseSockets, threads
  <2>2. Active' => Active
    BY <2>1 DEF Active
  <2> QED BY <1>0, <2>1, <2>2 DEF CandidateInv
<1> QED BY <1>1, <1>2, <1>3, <1>4, <1>5, HookUndisturbs DEF Next

LEMMA OnceInvStep ==
  TypeOK /\ OwnInv /\ AskInv /\ OnceInv /\ [Next]_vars => OnceInv'
<1> SUFFICES ASSUME TypeOK, OwnInv, AskInv, OnceInv, [Next]_vars
             PROVE  KitOnce' /\ BrowserOnce'
  BY CandidateInvStep DEF OnceInv
<1> USE ConstantTypes, ThreadsDiffer
<1>0. /\ KitOnce /\ BrowserOnce /\ (Live' => Live)
      /\ \A b : OfferSent(b) => OfferSent(b)'
      /\ kit'.offers = kit.offers \/ kit'.offers = kit.offers + 1
  BY StaysDown, OfferStays, OfferedStep DEF OnceInv
<1>1. ASSUME Mute, \A t \in Threads \ Gatherers : at'[t] = at[t]
      PROVE  KitOnce' /\ BrowserOnce'
  <2>1. /\ \A k \in Offers : at'[Handle(k)] = at[Handle(k)] /\ at'[Build(k)] = at[Build(k)]
        /\ \A b \in BrowserOffers : at'[Bridge(b)] = at[Bridge(b)]
    BY <1>1
  <2> QED BY <1>0, <1>1, <2>1, KitOnceCalm, BrowserOnceCalm DEF Mute
<1>2. CASE \/ KitSideStep \/ BrowserSideStep \/ UNCHANGED vars
           \/ (Kit \/ Browser) /\ ~KitOffer /\ ~BrowserOffer
  BY <1>1, <1>2, CalmIsMute, HookUndisturbs, GatherersUndisturb DEF PathCalm
<1>3. CASE TearDown \/ \E pump \in {"kit", "client"} : CloseSockets(pump)
  <2>1. at' = at
    BY <1>3 DEF TearDown, Cancel, CloseBrowserPeer, CloseKitPeer, CloseSockets, threads
  <2> QED BY <1>1, <1>3, <2>1, CalmIsMute
<1>4. CASE KitOffer
  <2>1. Mute
    BY <1>4, CalmIsMute DEF Kit
  <2>2. \A b \in BrowserOffers : at'[Bridge(b)] = at[Bridge(b)]
    <3>1. PICK k \in Offers : at' = [at EXCEPT ![Handle(k)] = "setRemote"]
      BY <1>4 DEF KitOffer, Goto
    <3> QED BY <3>1, HandlersDiffer DEF TypeOK
  <2> QED BY <1>0, <1>4, <2>1, <2>2, KitOfferOnce, BrowserOnceCalm DEF Mute
<1>5. CASE BrowserOffer
  <2>1. Mute
    BY <1>5, CalmIsMute DEF Browser
  <2>2. \A k \in Offers : at'[Handle(k)] = at[Handle(k)] /\ at'[Build(k)] = at[Build(k)]
    <3>1. PICK b \in BrowserOffers :
            at' = at \/ at' = [at EXCEPT ![Bridge(b)] = "createOffer"]
      BY <1>5 DEF BrowserOffer, Goto
    <3> QED BY <3>1, HandlersDiffer DEF TypeOK
  <2> QED BY <1>0, <1>5, <2>1, <2>2, BrowserOfferOnce, KitOnceCalm DEF Mute
<1>6. ASSUME NEW k \in Offers, HandleStep(k) \/ BuildStep(k)
      PROVE  KitOnce' /\ BrowserOnce'
  BY <1>0, <1>6, HandleOnce, BuildOnce, BrowserOnceCalm
<1>7. ASSUME NEW b \in BrowserOffers, BridgeStep(b)
      PROVE  KitOnce' /\ BrowserOnce'
  BY <1>0, <1>7, BridgeOnce, KitOnceCalm
<1> QED BY <1>2, <1>3, <1>4, <1>5, <1>6, <1>7 DEF Next

\* What an end makes of a wire that a frame is added to.
LEMMA ConversationOf ==
  ASSUME NEW wire \in Seq(Frames)
  PROVE  /\ Conversation(wire) \in Seq({About(f) : f \in Frames})
         /\ Len(Conversation(wire)) = Len(wire)
         /\ \A i \in 1..Len(wire) : Conversation(wire)[i] = About(wire[i])
<1> DEFINE Items == {About(f) : f \in Frames}
<1>1. Len(wire) \in Nat /\ \A i \in 1..Len(wire) : About(wire[i]) \in Items
  OBVIOUS
<1>2. Conversation(wire) \in [1..Len(wire) -> Items]
  BY <1>1 DEF Conversation
<1>3. Conversation(wire) \in Seq(Items)
  BY <1>1, <1>2, SeqDef
<1>4. /\ Len(Conversation(wire)) \in Nat
      /\ 1..Len(Conversation(wire)) = 1..Len(wire)
  BY <1>2, <1>3, LenProperties
<1>5. Len(Conversation(wire)) = Len(wire)
  BY <1>1, <1>4
<1> QED BY <1>3, <1>5 DEF Conversation

LEMMA ConversationSent ==
  ASSUME NEW wire \in Seq(Frames), NEW f \in Frames
  PROVE  Conversation(Sent(wire, f)) =
           IF Live THEN Append(Conversation(wire), About(f)) ELSE Conversation(wire)
<1>1. CASE ~Live
  BY <1>1 DEF Sent
<1>2. CASE Live
  <2> DEFINE Items == {About(g) : g \in Frames}
             longer == Append(wire, f)
             said == Append(Conversation(wire), About(f))
  <2>1. longer \in Seq(Frames) /\ Len(longer) = Len(wire) + 1 /\ Len(wire) \in Nat
    OBVIOUS
  <2>2. /\ Conversation(longer) \in Seq(Items) /\ Len(Conversation(longer)) = Len(wire) + 1
        /\ \A i \in 1..Len(longer) : Conversation(longer)[i] = About(longer[i])
    BY <2>1, ConversationOf
  <2>3. /\ Conversation(wire) \in Seq(Items) /\ Len(Conversation(wire)) = Len(wire)
        /\ \A i \in 1..Len(wire) : Conversation(wire)[i] = About(wire[i])
    BY ConversationOf
  <2>4. /\ said \in Seq(Items) /\ Len(said) = Len(wire) + 1
        /\ \A i \in 1..Len(wire) : said[i] = About(wire[i])
        /\ said[Len(wire) + 1] = About(f)
    BY <2>3, AppendProperties
  <2>5. ASSUME NEW i \in 1..(Len(wire) + 1)
        PROVE  Conversation(longer)[i] = said[i]
    <3> HIDE DEF longer, said, Items
    <3>0. i = Len(wire) + 1 \/ i \in 1..Len(wire)
      BY <2>1, <2>5
    <3>1. CASE i = Len(wire) + 1
      <4>1. longer[i] = f
        BY <3>1 DEF longer
      <4> QED BY <2>1, <2>2, <2>4, <3>1, <4>1
    <3>2. CASE i \in 1..Len(wire)
      <4>1. longer[i] = wire[i]
        BY <3>2 DEF longer
      <4> QED BY <2>1, <2>2, <2>4, <3>2, <4>1
    <3> QED BY <3>0, <3>1, <3>2
  <2>6. Conversation(longer) = said
    BY <2>2, <2>4, <2>5, SeqEqual
  <2> QED BY <1>2, <2>6 DEF Sent
<1> QED BY <1>1, <1>2

\* An end was told of an offer when the gateway wrote the frame.
LEMMA Saying ==
  ASSUME TypeOK, NEW n
  PROVE  /\ Exchange!On(Conversation(toKit), Exchange!Item("answer", n)) <=> AnswerSent(n)
         /\ Exchange!On(Conversation(toKit), Exchange!Item("offer", n)) <=> OfferSent(n)
         /\ Exchange!On(Conversation(toBrowser), Exchange!Item("offer", n))
              <=> OfferedToBrowser(n)
         /\ Exchange!On(Conversation(toBrowser), Exchange!Item("answer", n))
              <=> AnsweredToBrowser(n)
<1>1. ASSUME NEW wire \in Seq(Frames), NEW type \in {"answer", "offer"}
      PROVE  Exchange!On(Conversation(wire), Exchange!Item(type, n))
               <=> \E i \in 1..Len(wire) : wire[i].type = type /\ wire[i].of = n
  <2>1. /\ Len(Conversation(wire)) = Len(wire)
        /\ \A i \in 1..Len(wire) : Conversation(wire)[i] = About(wire[i])
    BY ConversationOf
  <2>2. \A f \in Frames : About(f) = Exchange!Item(type, n) <=> f.type = type /\ f.of = n
    BY <1>1 DEF About, Exchange!Item
  <2>3. \A i \in 1..Len(wire) : wire[i] \in Frames
    OBVIOUS
  <2> QED BY <2>1, <2>2, <2>3 DEF Exchange!On
<1> QED
  BY <1>1, WireTypes DEF AnswerSent, OfferSent, OfferedToBrowser, AnsweredToBrowser

\* What a goroutine sends while the session lives.
LEMMA TellsKit ==
  ASSUME TypeOK, OwnInv, AskInv, OnceInv, Live, Live', NEW t \in Loaded,
         Writes(kit.sent, Sent(toKit, held[t]), toBrowser),
         kit'.offers = kit.offers, browser'.offers = browser.offers
  PROVE  Exchange!ExchangeNext
<1> USE ConstantTypes, WireTypes
<1>1. held[t] \in Frames /\ at[t] = "send" /\ t \in Threads
  BY DEF Loaded
<1>2. /\ Conversation(toKit)' = Append(Conversation(toKit), About(held[t]))
      /\ Conversation(toBrowser)' = Conversation(toBrowser)
      /\ kit'.sent = kit.sent
  BY <1>1, ConversationSent DEF Writes
<1>3. Exchange!TellKit(About(held[t]))
  BY <1>2 DEF Exchange!TellKit
<1>4. KitOnce /\ CandidateInv /\ kit.offers \in Nat /\ browser.offers \in Nat
  BY DEF OnceInv, TypeOK
<1>5. CASE \E k \in Offers : t = Handle(k) /\ held[t].type = "answer" /\ held[t].of = k
  <2>1. PICK k \in Offers : t = Handle(k) /\ held[t].type = "answer" /\ held[t].of = k
    BY <1>5
  <2>2. ~AnswerSent(k) /\ k \in 1..kit.offers
    BY <1>1, <1>4, <2>1 DEF KitOnce, Offers
  <2>3. About(held[t]) = Exchange!Item("answer", k)
    BY <2>1 DEF About, Exchange!Item
  <2>4. Exchange!AnswerKit(k)
    BY <1>3, <2>2, <2>3, Saying DEF Exchange!AnswerKit
  <2> QED BY <2>2, <2>4 DEF Exchange!ExchangeNext
<1>6. CASE \E b \in BrowserOffers : t = Bridge(b) /\ held[t].type = "offer" /\ held[t].of = b
  <2>1. PICK b \in BrowserOffers : t = Bridge(b) /\ held[t].type = "offer" /\ held[t].of = b
    BY <1>6
  <2>2. ~OfferSent(b) /\ b \in 1..browser.offers
    BY <1>1, <1>4, <2>1 DEF AskInv, Unsent, BrowserOffers
  <2>3. About(held[t]) = Exchange!Item("offer", b)
    BY <2>1 DEF About, Exchange!Item
  <2>4. Exchange!OfferKit(b)
    BY <1>3, <2>2, <2>3, Saying DEF Exchange!OfferKit
  <2> QED BY <2>2, <2>4 DEF Exchange!ExchangeNext
<1>7. CASE t = KitSide /\ held[t].type = "candidate" /\ held[t].of = 0
  <2>1. Offered
    BY <1>1, <1>4, <1>7 DEF CandidateInv
  <2>2. About(held[t]) = Exchange!Item("candidate", 0)
    BY <1>7 DEF About, Exchange!Item
  <2> QED BY <1>3, <2>1, <2>2 DEF Exchange!ExchangeNext, Exchange!Candidate, Offered
<1> QED BY <1>5, <1>6, <1>7 DEF OwnInv, OwnForKit

LEMMA TellsBrowser ==
  ASSUME TypeInv, TypeOK, OwnInv, AskInv, AnsweredInv, OnceInv, Live, Live', NEW t \in Stamped,
         Writes(kit.sent, toKit, Sent(toBrowser, held[t])),
         kit'.offers = kit.offers, browser'.offers = browser.offers
  PROVE  Exchange!ExchangeNext
<1> USE ConstantTypes, WireTypes
<1>1. held[t] \in Frames /\ at[t] \in {"send", "sendAnswer"} /\ t \in Threads
  BY DEF Stamped
<1>2. /\ Conversation(toBrowser)' = Append(Conversation(toBrowser), About(held[t]))
      /\ Conversation(toKit)' = Conversation(toKit)
      /\ kit'.sent = kit.sent
  BY <1>1, ConversationSent DEF Writes
<1>3. Exchange!TellBrowser(About(held[t]))
  BY <1>2 DEF Exchange!TellBrowser
<1>4. /\ KitOnce /\ BrowserOnce /\ CandidateInv
      /\ kit.offers \in Nat /\ browser.offers \in Nat
  BY DEF OnceInv, TypeOK
<1>5. CASE \E k \in Offers : t = Build(k) /\ held[t].type = "offer" /\ held[t].of = k
  <2>1. PICK k \in Offers : t = Build(k) /\ held[t].type = "offer" /\ held[t].of = k
    BY <1>5
  <2>2. AnswerSent(k) /\ ~OfferedToBrowser(k) /\ k \in 1..kit.offers
    BY <1>1, <1>4, <2>1 DEF KitOnce, AnsweredInv, Offers
  <2>3. About(held[t]) = Exchange!Item("offer", k)
    BY <2>1 DEF About, Exchange!Item
  <2>4. Exchange!OfferBrowser(k)
    BY <1>3, <2>2, <2>3, Saying DEF Exchange!OfferBrowser
  <2> QED BY <2>2, <2>4 DEF Exchange!ExchangeNext
<1>6. CASE \E b \in BrowserOffers : t = Bridge(b) /\ held[t].type = "answer" /\ held[t].of = b
  <2>1. PICK b \in BrowserOffers : t = Bridge(b) /\ held[t].type = "answer" /\ held[t].of = b
    BY <1>6
  <2>2. at[t] = "sendAnswer"
    BY <2>1, HandlersDiffer, LoadersDiffer DEF Stamped
  <2>3. OfferSent(b) /\ ~AnsweredToBrowser(b) /\ b \in 1..browser.offers
    BY <1>4, <2>1, <2>2 DEF BrowserOnce, Asking, AskInv, BrowserOffers
  <2>4. About(held[t]) = Exchange!Item("answer", b)
    BY <2>1 DEF About, Exchange!Item
  <2>5. Exchange!AnswerBrowser(b)
    BY <1>3, <2>3, <2>4, Saying DEF Exchange!AnswerBrowser
  <2> QED BY <2>3, <2>5 DEF Exchange!ExchangeNext
<1>7. CASE t = BrowserSide /\ held[t].type = "candidate" /\ held[t].of = 0
  <2>1. at[t] = "send"
    BY <1>1, <1>7 DEF TypeInv, GathererInv
  <2>2. Offered
    BY <1>4, <1>7, <2>1 DEF CandidateInv
  <2>3. About(held[t]) = Exchange!Item("candidate", 0)
    BY <1>7 DEF About, Exchange!Item
  <2> QED BY <1>3, <2>2, <2>3 DEF Exchange!ExchangeNext, Exchange!Candidate, Offered
<1> QED BY <1>5, <1>6, <1>7 DEF OwnInv, OwnForBrowser

\* A step of one of the gateway's goroutines or of pion's.
LEMMA GatewayExchanges ==
  ASSUME TypeInv, TypeOK, OwnInv, AskInv, AnsweredInv, OnceInv,
         \/ \E k \in Offers : HandleStep(k) \/ BuildStep(k)
         \/ \E b \in BrowserOffers : BridgeStep(b)
         \/ KitSideStep \/ BrowserSideStep
  PROVE  [Exchange!ExchangeNext]_(Exchange!exchangeVars)
<1>1. kit' = kit /\ browser' = browser /\ stage' = stage
  BY DEF HandleStep, HandleSetRemote, HandleCreateAnswer, HandleSetLocal,
     HandleLoad, HandleSend, HandleSpawn, OnKitPeer, LoadForKit, LoadFrom, LoadTo,
     SendToKit, BuildStep, BuildCheck, BuildCreateOffer, BuildPromise, BuildSetLocal,
     BuildGathered, BuildAckid, BuildSend, OnBrowserPeer, TakeAckid, SendToBrowser,
     BridgeStep, BridgeCreateOffer, BridgeSetLocal, BridgeLoad, BridgeSend,
     BridgeWait, BridgeCreateAnswer, BridgeSetLocalAnswer, BridgeAckid,
     BridgeSendAnswer, KitSideStep, BrowserSideStep, KitSideCandidate, KitSideSend,
     KitSideGathered, BrowserSideCandidate, BrowserSideSend, BrowserSideGathered,
     SentCandidate, ends, closing
<1>2. OwnStep
  BY HandleWires, BuildWires, BridgeWires, GathererWires
<1>3. Live' = Live
  BY <1>1 DEF Live
<1>4. CASE toKit' = toKit /\ toBrowser' = toBrowser
  BY <1>1, <1>3, <1>4 DEF Exchange!exchangeVars, Conversation
<1>5. CASE ~Live
  BY <1>2, <1>4, <1>5 DEF OwnStep, Writes, Sent
<1>6. CASE Live
  BY <1>1, <1>2, <1>3, <1>4, <1>6, TellsKit, TellsBrowser DEF OwnStep, Writes
<1> QED BY <1>5, <1>6

\* A frame of Kit is acked or shown.
LEMMA KitExchanges ==
  ASSUME TypeOK, Kit
  PROVE  Exchange!ExchangeNext
<1> USE WireTypes
<1>0. kit.sent + 1 \in Nat
  OBVIOUS
<1>1. stage' = stage /\ browser' = browser
  BY DEF Kit, KitPeerInfo, KitUnknown, KitOffer, KitAnswer, KitCandidate,
     AddKitCandidate, closing
<1>2. Live' = Live
  BY <1>1 DEF Live
<1>3. kit'.offers = kit.offers \/ (kit'.offers = kit.offers + 1 /\ KitOffer)
  <2>1. CASE KitOffer
    BY <2>1 DEF KitOffer, TypeOK
  <2>2. CASE BrowserOffer
    BY <1>1, <2>2, ConstantTypes DEF BrowserOffer, TypeOK
  <2> QED BY <2>1, <2>2, HookUndisturbs DEF PathCalm
<1>4. CASE Writes(kit.sent + 1, Sent(toKit, Ack(kit.sent + 1)), toBrowser)
  <2>1. About(Ack(kit.sent + 1)) = Exchange!Item("ack", kit.sent + 1)
    BY DEF About, Ack, Frame, Exchange!Item
  <2>2. /\ Conversation(toKit)' =
             Exchange!Told(Conversation(toKit), Exchange!Item("ack", kit.sent + 1))
        /\ Conversation(toBrowser)' = Conversation(toBrowser)
    BY <1>0, <1>4, <2>1, ConversationSent DEF Writes, Exchange!Told
  <2>3. Exchange!Ack(kit'.offers)
    BY <1>1, <1>2, <1>4, <2>2 DEF Writes, Exchange!Ack
  <2> QED BY <1>3, <2>3 DEF Exchange!ExchangeNext
<1>5. CASE Writes(kit.sent + 1, toKit, Sent(toBrowser, Passed(kit.sent + 1)))
  <2>1. About(Passed(kit.sent + 1)) = Exchange!Item("passed", kit.sent + 1)
    BY DEF About, Passed, Frame, Exchange!Item
  <2>2. /\ Conversation(toBrowser)' =
             Exchange!Told(Conversation(toBrowser), Exchange!Item("passed", kit.sent + 1))
        /\ Conversation(toKit)' = Conversation(toKit)
    BY <1>0, <1>5, <2>1, ConversationSent DEF Writes, Exchange!Told
  <2>3. CASE kit'.offers = kit.offers
    <3>1. Exchange!Show
      BY <1>1, <1>2, <1>5, <2>2, <2>3 DEF Writes, Exchange!Show
    <3> QED BY <3>1 DEF Exchange!ExchangeNext
  <2>4. CASE KitOffer
    <3>1. Writes(kit.sent + 1, Sent(toKit, Ack(kit.sent + 1)), toBrowser)
      BY <2>4, <1>5 DEF KitOffer, KitFrame, AutoAck, Writes, TypeOK
    <3> QED BY <1>4, <3>1
  <2> QED BY <1>3, <2>3, <2>4
<1> QED BY <1>4, <1>5, KitWires DEF KitStep

\* A frame of the browser is an offer, is relayed, or is kept.
LEMMA BrowserExchanges ==
  ASSUME TypeOK, Browser
  PROVE  [Exchange!ExchangeNext]_(Exchange!exchangeVars)
<1> USE WireTypes
<1>1. stage' = stage /\ kit' = kit /\ toBrowser' = toBrowser
  BY DEF Browser, BrowserReads, BrowserAnswer, SetBrowserAnswer, BrowserOffer,
     BrowserCandidate, AddBrowserCandidate, BrowserUnknown, closing
<1>2. Live' = Live /\ Conversation(toBrowser)' = Conversation(toBrowser)
  BY <1>1 DEF Live
<1>3. CASE BrowserOffer
  <2>1. browser'.offers = browser.offers + 1 /\ toKit' = toKit
    BY <1>3 DEF BrowserOffer, TypeOK
  <2>2. Exchange!BrowserOffers
    BY <1>1, <1>2, <2>1 DEF Exchange!BrowserOffers
  <2> QED BY <2>2 DEF Exchange!ExchangeNext
<1>4. CASE ~BrowserOffer
  <2>1. browser'.offers = browser.offers
    BY <1>4
    DEF Browser, BrowserReads, BrowserAnswer, SetBrowserAnswer, BrowserCandidate,
        BrowserUnknown, BrowserExtra, TypeOK
  <2>2. toKit' = toKit \/ (Live /\ toKit' = Sent(toKit, FromBrowser))
    BY <1>4
    DEF Browser, BrowserReads, BrowserAnswer, SetBrowserAnswer, BrowserCandidate,
        AddBrowserCandidate, BrowserUnknown, FromBrowser, Sent
  <2>3. CASE toKit' = toKit
    BY <1>1, <1>2, <2>1, <2>3 DEF Exchange!exchangeVars
  <2>4. CASE Live /\ toKit' = Sent(toKit, FromBrowser)
    <3>1. About(FromBrowser) = Exchange!Item("passed", 0)
      BY DEF About, FromBrowser, Frame, Exchange!Item
    <3>2. Conversation(toKit)' = Append(Conversation(toKit), Exchange!Item("passed", 0))
      BY <2>4, <3>1, ConversationSent
    <3>3. Exchange!Relay
      BY <1>1, <1>2, <2>1, <2>4, <3>2 DEF Exchange!Relay, Exchange!TellKit
    <3> QED BY <3>3 DEF Exchange!ExchangeNext
  <2> QED BY <2>2, <2>3, <2>4
<1> QED BY <1>3, <1>4

LEMMA CloseExchanges ==
  ASSUME \/ TearDown \/ UNCHANGED vars
         \/ \E pump \in {"kit", "client"} : CloseSockets(pump)
  PROVE  [Exchange!ExchangeNext]_(Exchange!exchangeVars)
<1>1. UNCHANGED <<toKit, toBrowser, kit, browser>>
  BY DEF TearDown, Cancel, CloseBrowserPeer, CloseKitPeer, CloseSockets, vars, ends
<1>2. Live' = Live \/ (Live /\ Live' = FALSE)
  BY DEF TearDown, Cancel, CloseBrowserPeer, CloseKitPeer, CloseSockets, vars, closing,
     Live
<1>3. CASE Live' = Live
  BY <1>1, <1>3 DEF Exchange!exchangeVars
<1>4. CASE Live' = FALSE
  <2>1. Exchange!Close
    BY <1>1, <1>4 DEF Exchange!Close
  <2> QED BY <2>1 DEF Exchange!ExchangeNext
<1> QED BY <1>2, <1>3, <1>4

\* The hooks, the goroutines of all offers and the candidate callbacks together
\* hold the conversation OfferExchange describes: every step of them is one turn
\* of it or invisible to both ends (session.go:241-357, 384-416, 428-537).
THEOREM SessionImplementsExchange == Spec => ImplementsExchange
<1>1. Init => Exchange!ExchangeInit /\ AnsweredInv /\ OnceInv /\ AskInv
  <2> SUFFICES ASSUME Init
               PROVE  Exchange!ExchangeInit /\ AnsweredInv /\ OnceInv /\ AskInv
    OBVIOUS
  <2>1. Conversation(<< >>) = << >>
    BY DEF Conversation
  <2>2. Exchange!ExchangeInit
    BY <2>1 DEF Init, Exchange!ExchangeInit, Live
  <2>3. AnsweredInv /\ AskInv
    BY AcceptInvInit, ConstantTypes
    DEF AcceptInv, Init, AnsweredInv, KitAnsweredFirst
  <2>4. ~Active
    BY DEF Init, Active, NewPeerConnection
  <2>5. KitOnce /\ BrowserOnce
    BY ConstantTypes
    DEF Init, KitOnce, BrowserOnce, AnswerSent, OfferedToBrowser, AnsweredToBrowser,
       Asking
  <2>6. CandidateInv
    BY <2>4, ConstantTypes DEF Init, CandidateInv
  <2> QED BY <2>2, <2>3, <2>5, <2>6 DEF OnceInv
<1>2. FrameInv /\ AnsweredInv /\ OnceInv /\ AskInv /\ [Next]_vars
        => AnsweredInv' /\ OnceInv' /\ AskInv'
  BY NextSpawns, NextWires, AnsweredStep, AskInvStep, OnceInvStep DEF FrameInv, TypeInv
<1>3. FrameInv /\ AnsweredInv /\ OnceInv /\ AskInv /\ [Next]_vars
        => [Exchange!ExchangeNext]_(Exchange!exchangeVars)
  BY GatewayExchanges, KitExchanges, BrowserExchanges, CloseExchanges
  DEF FrameInv, TypeInv, Next
<1> QED
  BY <1>1, <1>2, <1>3, FrameInvAlways, PTL
  DEF Spec, ImplementsExchange, Exchange!ExchangeSpec
=============================================================================
