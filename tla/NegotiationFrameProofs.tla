----------------------- MODULE NegotiationFrameProofs -----------------------
(***************************************************************************)
(* Proofs about the frames a session writes, for any number of them: which *)
(* frames of Kit are acked and which are shown, what an offer to the       *)
(* browser comes after, and how the frames of the gateway are addressed.   *)
(***************************************************************************)
EXTENDS NegotiationProofs

-----------------------------------------------------------------------------
(* What a step can do to the two wires.                                    *)

\* The goroutines that hold a frame for Kit, and those that have loaded one of
\* its two ids; Stamped holds one for the browser.
Half == {t \in Threads : at[t] = "loaded"}
Loaded ==
  {t \in Threads :
     at[t] = "send" /\ (\/ t = KitSide
                        \/ \E k \in Offers : t = Handle(k)
                        \/ \E b \in BrowserOffers : t = Bridge(b))}

Passed(n) == Frame("passed", n, KitId, 0, n)
FromBrowser == Frame("passed", 0, BrowserId, KitId, 0)

Writes(kitFrames, toKit1, toBrowser1) ==
  kit'.sent = kitFrames /\ toKit' = toKit1 /\ toBrowser' = toBrowser1

KitStep ==
  LET n == kit.sent + 1 IN
  \/ Writes(n, Sent(toKit, Ack(n)), toBrowser)
  \/ Writes(n, toKit, Sent(toBrowser, Passed(n)))

OwnStep ==
  \/ Writes(kit.sent, toKit, toBrowser)
  \/ \E t \in Loaded : Writes(kit.sent, Sent(toKit, held[t]), toBrowser)
  \/ \E t \in Stamped : Writes(kit.sent, toKit, Sent(toBrowser, held[t]))

WireStep ==
  \/ KitStep \/ OwnStep
  \/ Writes(kit.sent, Sent(toKit, FromBrowser), toBrowser)

LEMMA KitWires == TypeOK /\ Kit => KitStep
<1> SUFFICES ASSUME TypeOK, Kit PROVE KitStep
  OBVIOUS
<1> USE DEF KitStep, Writes, Passed, KitFrame, Pass, AutoAck
<1>0. kit \in [sent : Nat, offers : Nat, answers : Nat, announced : SUBSET Viewers]
  BY DEF TypeOK
<1>1. ASSUME NEW role \in {"server", "viewer", "other"}, KitPeerInfo(role)
      PROVE  KitStep
  BY <1>0, <1>1 DEF KitPeerInfo
<1>2. CASE KitUnknown
  BY <1>0, <1>2 DEF KitUnknown
<1>3. CASE KitOffer
  BY <1>0, <1>3 DEF KitOffer
<1>4. CASE KitAnswer
  BY <1>0, <1>4 DEF KitAnswer
<1>5. CASE KitCandidate
  BY <1>0, <1>5 DEF KitCandidate, AddKitCandidate
<1> QED BY <1>1, <1>2, <1>3, <1>4, <1>5 DEF Kit

LEMMA BrowserWires == Browser => WireStep
<1> SUFFICES ASSUME Browser PROVE WireStep
  OBVIOUS
<1> USE DEF WireStep, OwnStep, Writes
<1>1. CASE BrowserReads
  BY <1>1 DEF BrowserReads
<1>2. CASE BrowserAnswer
  BY <1>2 DEF BrowserAnswer, SetBrowserAnswer
<1>3. CASE BrowserOffer
  BY <1>3 DEF BrowserOffer
<1>4. CASE BrowserCandidate
  BY <1>4 DEF BrowserCandidate, AddBrowserCandidate
<1>5. CASE BrowserUnknown
  BY <1>5 DEF BrowserUnknown, FromBrowser
<1> QED BY <1>1, <1>2, <1>3, <1>4, <1>5 DEF Browser

LEMMA HandleWires ==
  ASSUME NEW k \in Offers, HandleStep(k)
  PROVE  OwnStep
<1> USE DEF OwnStep, Writes
<1>1. CASE HandleSetRemote(k)
  BY <1>1 DEF HandleSetRemote, ends
<1>2. CASE HandleCreateAnswer(k)
  BY <1>2 DEF HandleCreateAnswer, OnKitPeer, ends
<1>3. CASE HandleSetLocal(k)
  BY <1>3 DEF HandleSetLocal, OnKitPeer, ends
<1>4. CASE HandleLoad(k)
  BY <1>4 DEF HandleLoad, LoadForKit, LoadFrom, LoadTo, ends
<1>5. CASE HandleSend(k)
  BY <1>5, ConstantTypes DEF HandleSend, SendToKit, Loaded, ends
<1>6. CASE HandleSpawn(k)
  BY <1>6 DEF HandleSpawn, ends
<1> QED BY <1>1, <1>2, <1>3, <1>4, <1>5, <1>6 DEF HandleStep

LEMMA BuildWires ==
  ASSUME NEW k \in Offers, BuildStep(k)
  PROVE  OwnStep
<1> USE DEF OwnStep, Writes
<1>1. CASE BuildCheck(k)
  BY <1>1 DEF BuildCheck, OnBrowserPeer, ends
<1>2. CASE BuildCreateOffer(k)
  BY <1>2 DEF BuildCreateOffer, OnBrowserPeer, ends
<1>3. CASE BuildPromise(k)
  BY <1>3 DEF BuildPromise, OnBrowserPeer, ends
<1>4. CASE BuildSetLocal(k)
  BY <1>4 DEF BuildSetLocal, OnBrowserPeer, ends
<1>5. CASE BuildGathered(k)
  BY <1>5 DEF BuildGathered, OnBrowserPeer, ends
<1>6. CASE BuildAckid(k)
  BY <1>6 DEF BuildAckid, TakeAckid, ends
<1>7. CASE BuildSend(k)
  BY <1>7, ConstantTypes DEF BuildSend, SendToBrowser, Stamped, ends
<1> QED BY <1>1, <1>2, <1>3, <1>4, <1>5, <1>6, <1>7 DEF BuildStep

LEMMA BridgeWires ==
  ASSUME NEW b \in BrowserOffers, BridgeStep(b)
  PROVE  OwnStep
<1> USE DEF OwnStep, Writes
<1>1. CASE BridgeCreateOffer(b)
  BY <1>1 DEF BridgeCreateOffer, OnKitPeer, ends
<1>2. CASE BridgeSetLocal(b)
  BY <1>2 DEF BridgeSetLocal, OnKitPeer, ends
<1>3. CASE BridgeLoad(b)
  BY <1>3 DEF BridgeLoad, LoadForKit, LoadFrom, LoadTo, ends
<1>4. CASE BridgeSend(b)
  BY <1>4, ConstantTypes DEF BridgeSend, SendToKit, Loaded, ends
<1>5. CASE BridgeWait(b)
  BY <1>5 DEF BridgeWait, OnBrowserPeer, ends
<1>6. CASE BridgeCreateAnswer(b)
  BY <1>6 DEF BridgeCreateAnswer, OnBrowserPeer, ends
<1>7. CASE BridgeSetLocalAnswer(b)
  BY <1>7 DEF BridgeSetLocalAnswer, OnBrowserPeer, ends
<1>8. CASE BridgeAckid(b)
  BY <1>8 DEF BridgeAckid, TakeAckid, ends
<1>9. CASE BridgeSendAnswer(b)
  BY <1>9, ConstantTypes DEF BridgeSendAnswer, SendToBrowser, Stamped, ends
<1> QED
  BY <1>1, <1>2, <1>3, <1>4, <1>5, <1>6, <1>7, <1>8, <1>9 DEF BridgeStep

LEMMA GathererWires == KitSideStep \/ BrowserSideStep => OwnStep
<1> SUFFICES ASSUME KitSideStep \/ BrowserSideStep PROVE OwnStep
  OBVIOUS
<1> USE DEF OwnStep, Writes
<1>1. CASE KitSideCandidate
  BY <1>1 DEF KitSideCandidate, LoadForKit, LoadFrom, LoadTo, ends
<1>2. CASE KitSideSend
  BY <1>2, ConstantTypes DEF KitSideSend, SentCandidate, Loaded, ends
<1>3. CASE KitSideGathered
  BY <1>3 DEF KitSideGathered, ends
<1>4. CASE BrowserSideCandidate
  BY <1>4 DEF BrowserSideCandidate, TakeAckid, ends
<1>5. CASE BrowserSideSend
  BY <1>5, ConstantTypes DEF BrowserSideSend, SentCandidate, Stamped, ends
<1>6. CASE BrowserSideGathered
  BY <1>6 DEF BrowserSideGathered, ends
<1> QED
  BY <1>1, <1>2, <1>3, <1>4, <1>5, <1>6 DEF KitSideStep, BrowserSideStep

LEMMA NextWires == TypeOK /\ [Next]_vars => WireStep
<1> SUFFICES ASSUME TypeOK, [Next]_vars PROVE WireStep
  OBVIOUS
<1>1. CASE TearDown \/ UNCHANGED vars \/ \E pump \in {"kit", "client"} : CloseSockets(pump)
  BY <1>1 DEF TearDown, Cancel, CloseBrowserPeer, CloseKitPeer, CloseSockets, vars,
              ends, WireStep, OwnStep, Writes
<1> QED
  BY <1>1, KitWires, BrowserWires, HandleWires, BuildWires, BridgeWires, GathererWires
  DEF Next, WireStep

-----------------------------------------------------------------------------
(* What the goroutines hold.                                               *)

\* Some offer has been seen: the first step of any goroutine needs one.
Active ==
  \/ \E t \in Threads : t \notin Gatherers /\ at[t] # "idle"
  \/ kp.gather # "new" \/ bp.gather # "new"

\* What t writes to Kit and to the browser, as its place in the code determines.
OwnForKit(t, f) ==
  \/ f.type = "answer" /\ \E k \in Offers : t = Handle(k) /\ f.of = k
  \/ f.type = "offer" /\ \E b \in BrowserOffers : t = Bridge(b) /\ f.of = b
  \/ f.type = "candidate" /\ f.of = 0 /\ t = KitSide

OwnForBrowser(t, f) ==
  \/ f.type = "offer" /\ \E k \in Offers : t = Build(k) /\ f.of = k
  \/ f.type = "answer" /\ \E b \in BrowserOffers : t = Bridge(b) /\ f.of = b
  \/ f.type = "candidate" /\ f.of = 0 /\ t = BrowserSide

Begins(t) == Active /\ OwnForKit(t, held'[t]) /\ held'[t].from = browserPeerID

Loads(t) ==
  /\ t \in Half /\ held'[t].to = kitPeerID
  /\ held'[t].type = held[t].type /\ held'[t].of = held[t].of
  /\ held'[t].from = held[t].from

Stamps(t) == Active /\ OwnForBrowser(t, held'[t]) /\ held'[t].from = kitPeerID

HoldStep ==
  /\ \A t \in Half' : (t \in Half /\ held'[t] = held[t]) \/ Begins(t)
  /\ \A t \in Loaded' : (t \in Loaded /\ held'[t] = held[t]) \/ Loads(t)
  /\ \A t \in Stamped' : (t \in Stamped /\ held'[t] = held[t]) \/ Stamps(t)

LEMMA Awake ==
  ASSUME NEW t \in Threads, t \notin Gatherers, at[t] # "idle"
  PROVE  Active
BY DEF Active

LEMMA LoadersDiffer ==
  /\ \A k, j \in Offers : Handle(k) # Build(j) /\ Build(k) # KitSide
  /\ \A k \in Offers, b \in BrowserOffers : Handle(k) # Bridge(b) /\ Build(k) # Bridge(b)
  /\ BrowserSide # KitSide
  /\ \A k \in Offers : BrowserSide # Handle(k)
  /\ \A b \in BrowserOffers : BrowserSide # Bridge(b)
BY DEF Handle, Build, Bridge, KitSide, BrowserSide

LEMMA StandHolds == UNCHANGED <<at, held>> => HoldStep
BY DEF HoldStep, Half, Loaded, Stamped

LEMMA MoveHolds ==
  ASSUME TypeOK, NEW t \in Threads, NEW label,
         label \notin {"loaded", "send", "sendAnswer"},
         at' = [at EXCEPT ![t] = label],
         \A u \in Threads : u # t => held'[u] = held[u]
  PROVE  HoldStep
BY DEF HoldStep, Half, Loaded, Stamped, TypeOK

LEMMA OnKitPeerHolds ==
  ASSUME TypeOK, NEW t \in Threads, NEW here, NEW ok, NEW peer, NEW next,
         next \notin {"loaded", "send", "sendAnswer"}, OnKitPeer(t, here, ok, peer, next)
  PROVE  HoldStep
<1>1. PICK label \in {next, "done"} : at' = [at EXCEPT ![t] = label]
  BY DEF OnKitPeer, Goto
<1>2. held' = held
  BY DEF OnKitPeer
<1> QED BY <1>1, <1>2, MoveHolds

LEMMA OnBrowserPeerHolds ==
  ASSUME TypeOK, NEW t \in Threads, NEW here, NEW ok, NEW peer, NEW next,
         next \notin {"loaded", "send", "sendAnswer"}, OnBrowserPeer(t, here, ok, peer, next)
  PROVE  HoldStep
<1>1. PICK label \in {next, "done"} : at' = [at EXCEPT ![t] = label]
  BY DEF OnBrowserPeer, Goto
<1>2. held' = held
  BY DEF OnBrowserPeer
<1> QED BY <1>1, <1>2, MoveHolds

LEMMA SendToKitHolds ==
  ASSUME TypeOK, NEW t \in Threads, NEW here, NEW next,
         next \notin {"loaded", "send", "sendAnswer"}, SendToKit(t, here, next)
  PROVE  HoldStep
<1>1. PICK label \in {next, "done"} : at' = [at EXCEPT ![t] = label]
  BY DEF SendToKit, Goto
<1>2. \A u \in Threads : u # t => held'[u] = held[u]
  BY DEF SendToKit, TypeOK
<1> QED BY <1>1, <1>2, MoveHolds

LEMMA SendToBrowserHolds ==
  ASSUME TypeOK, NEW t \in Threads, NEW here, SendToBrowser(t, here, "done")
  PROVE  HoldStep
<1>1. at' = [at EXCEPT ![t] = "done"]
  BY DEF SendToBrowser, Goto
<1>2. \A u \in Threads : u # t => held'[u] = held[u]
  BY DEF SendToBrowser, TypeOK
<1> QED BY <1>1, <1>2, MoveHolds

LEMMA LoadFromHolds ==
  ASSUME TypeOK, Active, NEW t \in Threads, NEW here, NEW type, NEW of,
         \A f : f.type = type /\ f.of = of => OwnForKit(t, f),
         LoadFrom(t, here, type, of)
  PROVE  HoldStep
<1>1. /\ at' = [at EXCEPT ![t] = "loaded"]
      /\ held' = [held EXCEPT ![t] = Frame(type, 0, browserPeerID, 0, of)]
  BY DEF LoadFrom, Goto
<1>2. /\ \A u \in Threads : u # t => at'[u] = at[u] /\ held'[u] = held[u]
      /\ held'[t] = Frame(type, 0, browserPeerID, 0, of)
      /\ at'[t] = "loaded"
  BY <1>1 DEF TypeOK
<1>3. Begins(t)
  BY <1>2 DEF Begins, Frame
<1> QED BY <1>2, <1>3 DEF HoldStep, Half, Loaded, Stamped

LEMMA LoadToHolds ==
  ASSUME TypeOK, NEW t \in Threads, t # BrowserSide, \A k \in Offers : t # Build(k),
         LoadTo(t, "send")
  PROVE  HoldStep
<1>1. /\ at[t] = "loaded" /\ at' = [at EXCEPT ![t] = "send"]
      /\ held' = [held EXCEPT ![t].to = kitPeerID]
  BY DEF LoadTo, Goto
<1>2. /\ \A u \in Threads : u # t => at'[u] = at[u] /\ held'[u] = held[u]
      /\ held'[t] = [held[t] EXCEPT !.to = kitPeerID]
      /\ at'[t] = "send"
  BY <1>1 DEF TypeOK
<1>3. held[t] \in Frames
  BY DEF TypeOK
<1>4. Loads(t)
  BY <1>1, <1>2, <1>3 DEF Loads, Half, Frames
<1>5. t \notin Stamped'
  BY <1>2 DEF Stamped
<1> QED BY <1>2, <1>4, <1>5 DEF HoldStep, Half, Loaded, Stamped

LEMMA LoadForKitHolds ==
  ASSUME TypeOK, Active, NEW t \in Threads, NEW here, NEW type, NEW of,
         t # BrowserSide, \A k \in Offers : t # Build(k),
         \A f : f.type = type /\ f.of = of => OwnForKit(t, f),
         LoadForKit(t, here, "send", type, of)
  PROVE  HoldStep
BY LoadFromHolds, LoadToHolds DEF LoadForKit

LEMMA TakeAckidHolds ==
  ASSUME TypeOK, Active, NEW t \in Threads, NEW here,
         NEW next \in {"send", "sendAnswer"}, NEW type, NEW of,
         next = "send" => /\ t # KitSide
                          /\ \A k \in Offers : t # Handle(k)
                          /\ \A b \in BrowserOffers : t # Bridge(b),
         \A f : f.type = type /\ f.of = of => OwnForBrowser(t, f),
         TakeAckid(t, here, next, type, of)
  PROVE  HoldStep
<1>1. /\ at' = [at EXCEPT ![t] = next]
      /\ held' = [held EXCEPT ![t] = Frame(type, ackCounter + 1, kitPeerID, 0, of)]
  BY DEF TakeAckid, Goto
<1>2. /\ \A u \in Threads : u # t => at'[u] = at[u] /\ held'[u] = held[u]
      /\ held'[t] = Frame(type, ackCounter + 1, kitPeerID, 0, of)
      /\ at'[t] = next
  BY <1>1 DEF TypeOK
<1>3. Stamps(t)
  BY <1>2 DEF Stamps, Frame
<1>4. t \notin Loaded'
  BY <1>2 DEF Loaded
<1> QED BY <1>2, <1>3, <1>4 DEF HoldStep, Half, Loaded, Stamped

LEMMA HandleHolds ==
  ASSUME TypeOK, NEW k \in Offers, HandleStep(k)
  PROVE  HoldStep
<1> USE ConstantTypes, ThreadsDiffer, LoadersDiffer
<1>0. at[Handle(k)] # "idle" => Active
  BY Awake
<1>1. CASE HandleSetRemote(k)
  <2>1. PICK label \in {"createAnswer", "done"} : at' = [at EXCEPT ![Handle(k)] = label]
    BY <1>1 DEF HandleSetRemote, Goto
  <2>2. held' = held
    BY <1>1 DEF HandleSetRemote
  <2> QED BY <2>1, <2>2, MoveHolds
<1>2. CASE HandleCreateAnswer(k)
  BY <1>2, OnKitPeerHolds DEF HandleCreateAnswer
<1>3. CASE HandleSetLocal(k)
  BY <1>3, OnKitPeerHolds DEF HandleSetLocal
<1>4. CASE HandleLoad(k)
  <2>1. \A f : f.type = "answer" /\ f.of = k => OwnForKit(Handle(k), f)
    BY DEF OwnForKit
  <2>2. LoadForKit(Handle(k), "load", "send", "answer", k) /\ Active
    BY <1>0, <1>4 DEF HandleLoad, LoadForKit, LoadFrom, LoadTo
  <2> QED BY <2>1, <2>2, LoadForKitHolds
<1>5. CASE HandleSend(k)
  BY <1>5, SendToKitHolds DEF HandleSend
<1>6. CASE HandleSpawn(k)
  BY <1>6 DEF HandleSpawn, HoldStep, Half, Loaded, Stamped, TypeOK
<1> QED BY <1>1, <1>2, <1>3, <1>4, <1>5, <1>6 DEF HandleStep

LEMMA BuildHolds ==
  ASSUME TypeOK, NEW k \in Offers, BuildStep(k)
  PROVE  HoldStep
<1> USE ConstantTypes
<1>1. CASE BuildCheck(k)
  BY <1>1, OnBrowserPeerHolds DEF BuildCheck
<1>2. CASE BuildCreateOffer(k)
  BY <1>2, OnBrowserPeerHolds DEF BuildCreateOffer
<1>3. CASE BuildPromise(k)
  <2>1. at' = [at EXCEPT ![Build(k)] = "setLocal"] /\ held' = held
    BY <1>3 DEF BuildPromise, OnBrowserPeer, Goto
  <2> QED BY <2>1, MoveHolds
<1>4. CASE BuildSetLocal(k)
  BY <1>4, OnBrowserPeerHolds DEF BuildSetLocal
<1>5. CASE BuildGathered(k)
  <2>1. at' = [at EXCEPT ![Build(k)] = "ackid"] /\ held' = held
    BY <1>5 DEF BuildGathered, OnBrowserPeer, Goto
  <2> QED BY <2>1, MoveHolds
<1>6. CASE BuildAckid(k)
  <2>1. \A f : f.type = "offer" /\ f.of = k => OwnForBrowser(Build(k), f)
    BY DEF OwnForBrowser
  <2>2. TakeAckid(Build(k), "ackid", "send", "offer", k) /\ Active
    BY <1>6, Awake, ThreadsDiffer DEF BuildAckid, TakeAckid
  <2> QED BY <2>1, <2>2, TakeAckidHolds, LoadersDiffer
<1>7. CASE BuildSend(k)
  BY <1>7, SendToBrowserHolds DEF BuildSend
<1> QED BY <1>1, <1>2, <1>3, <1>4, <1>5, <1>6, <1>7 DEF BuildStep

LEMMA BridgeHolds ==
  ASSUME TypeOK, NEW b \in BrowserOffers, BridgeStep(b)
  PROVE  HoldStep
<1> USE ConstantTypes
<1>1. CASE BridgeCreateOffer(b)
  BY <1>1, OnKitPeerHolds DEF BridgeCreateOffer
<1>2. CASE BridgeSetLocal(b)
  BY <1>2, OnKitPeerHolds DEF BridgeSetLocal
<1>3. CASE BridgeLoad(b)
  <2>1. LoadForKit(Bridge(b), "load", "send", "offer", b) /\ Active
    BY <1>3, Awake, ThreadsDiffer DEF BridgeLoad, LoadForKit, LoadFrom, LoadTo
  <2>2. \A f : f.type = "offer" /\ f.of = b => OwnForKit(Bridge(b), f)
    BY DEF OwnForKit
  <2>3. Bridge(b) # BrowserSide /\ \A k \in Offers : Bridge(b) # Build(k)
    BY LoadersDiffer
  <2> QED BY <2>1, <2>2, <2>3, LoadForKitHolds
<1>4. CASE BridgeSend(b)
  BY <1>4, SendToKitHolds DEF BridgeSend
<1>5. CASE BridgeWait(b)
  <2>1. PICK label \in {"createAnswer", "done"} : at' = [at EXCEPT ![Bridge(b)] = label]
    BY <1>5 DEF BridgeWait, OnBrowserPeer, Goto
  <2>2. held' = held
    BY <1>5 DEF BridgeWait, OnBrowserPeer
  <2> QED BY <2>1, <2>2, MoveHolds
<1>6. CASE BridgeCreateAnswer(b)
  BY <1>6, OnBrowserPeerHolds DEF BridgeCreateAnswer
<1>7. CASE BridgeSetLocalAnswer(b)
  BY <1>7, OnBrowserPeerHolds DEF BridgeSetLocalAnswer
<1>8. CASE BridgeAckid(b)
  <2>1. TakeAckid(Bridge(b), "ackid", "sendAnswer", "answer", b) /\ Active
    BY <1>8, Awake, ThreadsDiffer DEF BridgeAckid, TakeAckid
  <2>2. \A f : f.type = "answer" /\ f.of = b => OwnForBrowser(Bridge(b), f)
    BY DEF OwnForBrowser
  <2> QED BY <2>1, <2>2, TakeAckidHolds
<1>9. CASE BridgeSendAnswer(b)
  BY <1>9, SendToBrowserHolds DEF BridgeSendAnswer
<1> QED
  BY <1>1, <1>2, <1>3, <1>4, <1>5, <1>6, <1>7, <1>8, <1>9 DEF BridgeStep

LEMMA GathererHolds ==
  ASSUME TypeOK, KitSideStep \/ BrowserSideStep
  PROVE  HoldStep
<1> USE ConstantTypes, ThreadsDiffer, LoadersDiffer
<1>1. CASE KitSideCandidate
  <2>1. \/ LoadFrom(KitSide, "idle", "candidate", 0) /\ Active
        \/ LoadTo(KitSide, "send")
    BY <1>1 DEF KitSideCandidate, Reports, Active
  <2>2. \A f : f.type = "candidate" /\ f.of = 0 => OwnForKit(KitSide, f)
    BY DEF OwnForKit
  <2> QED BY <2>1, <2>2, LoadFromHolds, LoadToHolds
<1>2. CASE BrowserSideCandidate
  <2>1. TakeAckid(BrowserSide, "idle", "send", "candidate", 0) /\ Active
    BY <1>2 DEF BrowserSideCandidate, Reports, Active
  <2>2. \A f : f.type = "candidate" /\ f.of = 0 => OwnForBrowser(BrowserSide, f)
    BY DEF OwnForBrowser
  <2> QED BY <2>1, <2>2, TakeAckidHolds
<1>3. ASSUME NEW g \in Gatherers, SentCandidate(g)
      PROVE  HoldStep
  <2>1. at' = [at EXCEPT ![g] = "idle"] /\ \A u \in Threads : u # g => held'[u] = held[u]
    BY <1>3 DEF SentCandidate, TypeOK
  <2> QED BY <2>1, MoveHolds
<1>4. CASE KitSideGathered \/ BrowserSideGathered
  BY <1>4, StandHolds DEF KitSideGathered, BrowserSideGathered, threads
<1> QED
  BY <1>1, <1>2, <1>3, <1>4
  DEF KitSideStep, BrowserSideStep, KitSideSend, BrowserSideSend

LEMMA HookHolds == TypeOK /\ (Kit \/ Browser) => HoldStep
<1> SUFFICES ASSUME TypeOK, Kit \/ Browser PROVE HoldStep
  OBVIOUS
<1>1. CASE KitOffer
  <2>1. PICK k \in Offers : at' = [at EXCEPT ![Handle(k)] = "setRemote"]
    BY <1>1 DEF KitOffer, Goto
  <2>2. held' = held
    BY <1>1 DEF KitOffer
  <2> QED BY <2>1, <2>2, MoveHolds, ConstantTypes
<1>2. CASE BrowserOffer
  <2>1. \/ at' = at
        \/ \E b \in BrowserOffers : at' = [at EXCEPT ![Bridge(b)] = "createOffer"]
    BY <1>2 DEF BrowserOffer, Goto
  <2>2. held' = held
    BY <1>2 DEF BrowserOffer
  <2> QED BY <2>1, <2>2, MoveHolds, StandHolds, ConstantTypes
<1>3. CASE ~KitOffer /\ ~BrowserOffer
  BY <1>3, StandHolds
  DEF Kit, KitPeerInfo, KitUnknown, KitAnswer, KitCandidate, AddKitCandidate, Browser,
      BrowserReads, BrowserAnswer, SetBrowserAnswer, BrowserCandidate,
      AddBrowserCandidate, BrowserUnknown, threads
<1> QED BY <1>1, <1>2, <1>3

LEMMA NextHolds == TypeOK /\ [Next]_vars => HoldStep
<1> SUFFICES ASSUME TypeOK, [Next]_vars PROVE HoldStep
  OBVIOUS
<1>1. CASE TearDown \/ UNCHANGED vars \/ \E pump \in {"kit", "client"} : CloseSockets(pump)
  BY <1>1, StandHolds
  DEF TearDown, Cancel, CloseBrowserPeer, CloseKitPeer, CloseSockets, vars, threads
<1> QED
  BY <1>1, HookHolds, HandleHolds, BuildHolds, BridgeHolds, GathererHolds DEF Next

\* Every goroutine holds what its place in the code says.
OwnInv ==
  /\ \A t \in Half \cup Loaded : OwnForKit(t, held[t])
  /\ \A t \in Stamped : OwnForBrowser(t, held[t])

LEMMA OwnInvStep == TypeInv /\ OwnInv /\ [Next]_vars => OwnInv'
<1> SUFFICES ASSUME TypeOK, OwnInv, [Next]_vars PROVE OwnInv'
  BY DEF TypeInv
<1> USE DEF OwnInv
<1>1. \A t \in Half' : OwnForKit(t, held'[t])
  BY NextHolds DEF HoldStep, Begins
<1>2. \A t \in Half : OwnForKit(t, held'[t]) \/ ~Loads(t)
  BY DEF OwnForKit, Loads
<1>3. \A t \in Loaded' : OwnForKit(t, held'[t])
  BY <1>2, NextHolds DEF HoldStep, Loads
<1>4. \A t \in Stamped' : OwnForBrowser(t, held'[t])
  BY NextHolds DEF HoldStep, Stamps
<1> QED BY <1>1, <1>3, <1>4 DEF OwnForKit, OwnForBrowser

\* The gateway's frames are told apart from those it passes and its acks.
LEMMA OwnTypes ==
  ASSUME OwnInv, NEW t \in Loaded \cup Stamped
  PROVE  held[t].type \in {"offer", "answer", "candidate"}
BY DEF OwnInv, OwnForKit, OwnForBrowser

LEMMA WireTypes ==
  ASSUME TypeOK
  PROVE  /\ toKit \in Seq(Frames) /\ toBrowser \in Seq(Frames)
         /\ Len(toKit) \in Nat /\ Len(toBrowser) \in Nat
         /\ kit.sent \in Nat
         /\ \A t \in Loaded \cup Stamped : held[t] \in Frames
         /\ FromBrowser \in Frames
         /\ \A n \in Nat : Ack(n) \in Frames /\ Passed(n) \in Frames
<1>1. FromBrowser \in Frames
  BY ConstantTypes, FrameType DEF FromBrowser
<1>2. \A n \in Nat : Ack(n) \in Frames /\ Passed(n) \in Frames
  BY ConstantTypes, FrameType DEF Ack, Passed
<1>3. /\ toKit \in Seq(Frames) /\ toBrowser \in Seq(Frames)
      /\ Len(toKit) \in Nat /\ Len(toBrowser) \in Nat
      /\ kit.sent \in Nat
  BY DEF TypeOK
<1>4. \A t \in Loaded \cup Stamped : held[t] \in Frames
  BY DEF TypeOK, Loaded, Stamped
<1> QED BY <1>1, <1>2, <1>3, <1>4

-----------------------------------------------------------------------------
(* Every frame of Kit is acked or shown.                                   *)

\* Acks and passed frames are those of frames Kit has sent, and no frame is
\* answered twice.
AckInv ==
  /\ \A i \in 1..Len(toKit) :
       toKit[i].type = "ack" => toKit[i].ackid \in 1..kit.sent
  /\ \A i \in 1..Len(toBrowser) :
       toBrowser[i].type = "passed" => toBrowser[i].of \in 1..kit.sent
  /\ AckedOrShown

\* Frames are only added to a wire.
LEMMA Grows ==
  ASSUME TypeOK, WireStep
  PROVE  /\ \A i \in 1..Len(toKit) : i \in 1..Len(toKit') /\ toKit'[i] = toKit[i]
         /\ \A i \in 1..Len(toBrowser) :
              i \in 1..Len(toBrowser') /\ toBrowser'[i] = toBrowser[i]
<1> USE WireTypes
<1>1. ASSUME NEW wire \in Seq(Frames), NEW f \in Frames, NEW longer, longer = Sent(wire, f)
      PROVE  \A i \in 1..Len(wire) : i \in 1..Len(longer) /\ longer[i] = wire[i]
  <2>1. Len(wire) \in Nat
    OBVIOUS
  <2>2. \/ longer = wire
        \/ /\ Len(longer) = Len(wire) + 1
           /\ \A i \in 1..Len(wire) : longer[i] = wire[i]
    BY <1>1, SentFacts
  <2> QED BY <2>1, <2>2
<1>2. kit.sent + 1 \in Nat
  OBVIOUS
<1>3. \/ toKit' = toKit
      \/ \E f \in Frames : toKit' = Sent(toKit, f)
  BY <1>2 DEF WireStep, KitStep, OwnStep, Writes
<1>4. \/ toBrowser' = toBrowser
      \/ \E f \in Frames : toBrowser' = Sent(toBrowser, f)
  BY <1>2 DEF WireStep, KitStep, OwnStep, Writes
<1>5. \A i \in 1..Len(toKit) : i \in 1..Len(toKit') /\ toKit'[i] = toKit[i]
  BY <1>1, <1>3
<1>6. \A i \in 1..Len(toBrowser) :
         i \in 1..Len(toBrowser') /\ toBrowser'[i] = toBrowser[i]
  BY <1>1, <1>4
<1> QED BY <1>5, <1>6

\* What is on a wire after a step was there before or is what the step wrote.
LEMMA NewOnKitWire ==
  ASSUME TypeOK, NEW f \in Frames, toKit' = Sent(toKit, f), NEW i \in 1..Len(toKit')
  PROVE  toKit'[i] = f \/ (i \in 1..Len(toKit) /\ toKit'[i] = toKit[i])
BY WireTypes, SentElements

LEMMA NewOnBrowserWire ==
  ASSUME TypeOK, NEW f \in Frames, toBrowser' = Sent(toBrowser, f),
         NEW i \in 1..Len(toBrowser')
  PROVE  toBrowser'[i] = f \/ (i \in 1..Len(toBrowser) /\ toBrowser'[i] = toBrowser[i])
BY WireTypes, SentElements

LEMMA StaysDown == [Next]_vars => (Live' => Live)
<1> SUFFICES ASSUME [Next]_vars, Live' PROVE Live
  OBVIOUS
<1> USE DEF Live, closing, vars
<1>1. CASE Kit
  BY <1>1 DEF Kit, KitPeerInfo, KitUnknown, KitOffer, KitAnswer, KitCandidate,
      AddKitCandidate
<1>2. CASE Browser
  BY <1>2 DEF Browser, BrowserReads, BrowserAnswer, SetBrowserAnswer, BrowserOffer,
      BrowserCandidate, AddBrowserCandidate,
              BrowserUnknown
<1>3. ASSUME NEW k \in Offers, HandleStep(k)
      PROVE  Live
  BY <1>3 DEF HandleStep, HandleSetRemote, HandleCreateAnswer, HandleSetLocal,
     HandleLoad, HandleSend, HandleSpawn, OnKitPeer, LoadForKit, LoadFrom, LoadTo,
     SendToKit
<1>4. ASSUME NEW k \in Offers, BuildStep(k)
      PROVE  Live
  BY <1>4 DEF BuildStep, BuildCheck, BuildCreateOffer, BuildPromise, BuildSetLocal,
     BuildGathered, BuildAckid, BuildSend, OnBrowserPeer, TakeAckid, SendToBrowser
<1>5. ASSUME NEW b \in BrowserOffers, BridgeStep(b)
      PROVE  Live
  BY <1>5 DEF BridgeStep, BridgeCreateOffer, BridgeSetLocal, BridgeLoad, BridgeSend,
     BridgeWait, BridgeCreateAnswer, BridgeSetLocalAnswer, BridgeAckid,
     BridgeSendAnswer, OnKitPeer, OnBrowserPeer, LoadForKit, LoadFrom, LoadTo,
     TakeAckid, SendToKit, SendToBrowser
<1>6. CASE KitSideStep \/ BrowserSideStep
  BY <1>6 DEF KitSideStep, BrowserSideStep, KitSideCandidate, KitSideSend,
     KitSideGathered, BrowserSideCandidate, BrowserSideSend, BrowserSideGathered,
     SentCandidate, LoadForKit, LoadFrom, LoadTo, TakeAckid
<1>7. CASE TearDown \/ UNCHANGED vars \/ \E pump \in {"kit", "client"} : CloseSockets(pump)
  BY <1>7 DEF TearDown, Cancel, CloseBrowserPeer, CloseKitPeer, CloseSockets
<1> QED BY <1>1, <1>2, <1>3, <1>4, <1>5, <1>6, <1>7 DEF Next

LEMMA AckInvStep == TypeInv /\ OwnInv /\ AckInv /\ [Next]_vars => AckInv'
<1> SUFFICES ASSUME TypeOK, TypeOK', OwnInv, AckInv, [Next]_vars PROVE AckInv'
  BY TypeStep DEF TypeInv
<1> USE WireTypes
<1>0. WireStep /\ (Live' => Live)
  BY NextWires, StaysDown
<1>1. ASSUME kit'.sent = kit.sent,
             \A i \in 1..Len(toKit') :
               \/ toKit'[i].type # "ack"
               \/ i \in 1..Len(toKit) /\ toKit'[i] = toKit[i],
             \A i \in 1..Len(toBrowser') :
               \/ toBrowser'[i].type # "passed"
               \/ i \in 1..Len(toBrowser) /\ toBrowser'[i] = toBrowser[i]
      PROVE  AckInv'
  <2>1. \A n \in 1..kit.sent : Shown(n)' <=> Shown(n)
    BY <1>0, <1>1, Grows DEF Shown
  <2>2. \A n \in 1..kit.sent : Acked(n)' <=> Acked(n)
    <3>1. \A n \in 1..kit.sent : Ack(n).type = "ack"
      BY DEF Ack, Frame
    <3>2. \A n \in 1..kit.sent : Ack(n)' = Ack(n)
      BY DEF Ack, Frame
    <3> QED BY <1>0, <1>1, <3>1, <3>2, Grows DEF Acked
  <2>3. \A i, j \in 1..Len(toKit') :
          i < j /\ toKit'[i].type = "ack" => toKit'[i] # toKit'[j]
    BY <1>1 DEF AckInv, AckedOrShown
  <2> QED BY <1>0, <1>1, <2>1, <2>2, <2>3 DEF AckInv, AckedOrShown
<1>2. CASE Writes(kit.sent, toKit, toBrowser)
  BY <1>1, <1>2 DEF Writes
<1>3. ASSUME NEW f \in Frames, f.type \notin {"ack"},
             Writes(kit.sent, Sent(toKit, f), toBrowser)
      PROVE  AckInv'
  BY <1>1, <1>3, NewOnKitWire DEF Writes
<1>4. ASSUME NEW f \in Frames, f.type \notin {"passed"},
             Writes(kit.sent, toKit, Sent(toBrowser, f))
      PROVE  AckInv'
  BY <1>1, <1>4, NewOnBrowserWire DEF Writes
<1>n. PICK n \in Nat : n = kit.sent + 1
  OBVIOUS
<1>5. /\ n > kit.sent /\ kit.sent \in Nat
      /\ Ack(n) \in Frames /\ Ack(n).type = "ack" /\ Ack(n).ackid = n
      /\ Passed(n) \in Frames /\ Passed(n).type = "passed" /\ Passed(n).of = n
      /\ \A m \in 1..n : m \in 1..kit.sent \/ m = n
      /\ \A m \in 1..kit.sent : m \in 1..n /\ m # n
      /\ \A m \in 1..n : Ack(m).type = "ack" /\ Ack(m).ackid = m
  BY <1>n DEF Ack, Passed, Frame
<1>6. ~Shown(n) /\ ~Acked(n)
  BY <1>5 DEF AckInv, Shown, Acked
<1>7. CASE Writes(n, Sent(toKit, Ack(n)), toBrowser)
  <2>1. /\ kit'.sent = n /\ toKit' = Sent(toKit, Ack(n)) /\ toBrowser' = toBrowser
    BY <1>7 DEF Writes
  <2>2. \A i \in 1..Len(toKit') :
          toKit'[i] = Ack(n) \/ (i \in 1..Len(toKit) /\ toKit'[i] = toKit[i])
    BY <1>5, <2>1, NewOnKitWire
  <2>3. \A i \in 1..Len(toKit') : toKit'[i].type = "ack" => toKit'[i].ackid \in 1..n
    BY <1>5, <2>2 DEF AckInv
  <2>4. \A i \in 1..Len(toBrowser') :
          toBrowser'[i].type = "passed" => toBrowser'[i].of \in 1..n
    BY <1>5, <2>1 DEF AckInv
  <2>5. \A m \in 1..n : (Shown(m)' <=> Shown(m)) /\ Ack(m)' = Ack(m)
    BY <2>1 DEF Shown, Ack, Frame
  <2>6. ASSUME NEW m \in 1..kit.sent
        PROVE  Acked(m)' <=> Acked(m)
    <3>1. Ack(n) # Ack(m) /\ Ack(m)' = Ack(m)
      BY <1>5, <2>5
    <3>2. Acked(m) => Acked(m)'
      BY <1>0, <3>1, Grows DEF Acked
    <3>3. Acked(m)' => Acked(m)
      BY <2>2, <3>1, Zenon DEF Acked
    <3> QED BY <3>2, <3>3
  <2>7. Live' => Acked(n)'
    <3>1. ASSUME Live' PROVE Acked(n)'
      <4>1. toKit' = Append(toKit, Ack(n))
        BY <1>0, <2>1, <3>1 DEF Sent
      <4>2. Len(toKit) + 1 \in 1..Len(toKit') /\ toKit'[Len(toKit) + 1] = Ack(n)
        BY <1>5, <4>1
      <4> QED BY <4>2 DEF Acked, Ack, Frame
    <3> QED BY <3>1
  <2>8. \A m \in 1..n : /\ ~(Shown(m)' /\ Acked(m)')
                        /\ Live' => Shown(m)' \/ Acked(m)'
    BY <1>0, <1>5, <1>6, <2>5, <2>6, <2>7 DEF AckInv, AckedOrShown
  <2>9. \A i, j \in 1..Len(toKit') :
          i < j /\ toKit'[i].type = "ack" => toKit'[i] # toKit'[j]
    <3>1. \A i \in 1..Len(toKit) : toKit[i] # Ack(n)
      BY <1>6 DEF Acked
    <3>2. \A i, j \in 1..Len(toKit') :
            i < j => i \in 1..Len(toKit) /\ toKit'[i] = toKit[i]
      <4>1. Len(toKit') = Len(toKit) \/ Len(toKit') = Len(toKit) + 1
        BY <1>5, <2>1, SentFacts
      <4> QED BY <1>0, <4>1, Grows
    <3>3. SUFFICES ASSUME NEW i \in 1..Len(toKit'), NEW j \in 1..Len(toKit'),
                          i < j, toKit'[i].type = "ack"
                   PROVE  toKit'[i] # toKit'[j]
      OBVIOUS
    <3>4. i \in 1..Len(toKit) /\ toKit'[i] = toKit[i]
      BY <3>2, <3>3
    <3>5. CASE toKit'[j] = Ack(n)
      BY <3>1, <3>4, <3>5
    <3>6. CASE j \in 1..Len(toKit) /\ toKit'[j] = toKit[j]
      BY <3>3, <3>4, <3>6 DEF AckInv, AckedOrShown
    <3> QED BY <2>2, <3>5, <3>6
  <2> QED BY <2>1, <2>3, <2>4, <2>8, <2>9 DEF AckInv, AckedOrShown
<1>8. CASE Writes(n, toKit, Sent(toBrowser, Passed(n)))
  <2>1. /\ kit'.sent = n /\ toBrowser' = Sent(toBrowser, Passed(n)) /\ toKit' = toKit
    BY <1>8 DEF Writes
  <2>2. \A i \in 1..Len(toBrowser') :
          toBrowser'[i] = Passed(n) \/ (i \in 1..Len(toBrowser) /\ toBrowser'[i] = toBrowser[i])
    BY <1>5, <2>1, NewOnBrowserWire
  <2>3. \A i \in 1..Len(toBrowser') :
          toBrowser'[i].type = "passed" => toBrowser'[i].of \in 1..n
    BY <1>5, <2>2 DEF AckInv
  <2>4. \A i \in 1..Len(toKit') : toKit'[i].type = "ack" => toKit'[i].ackid \in 1..n
    BY <1>5, <2>1 DEF AckInv
  <2>5. \A m \in 1..n : Acked(m)' <=> Acked(m)
    BY <2>1 DEF Acked, Ack, Frame
  <2>6. ASSUME NEW m \in 1..kit.sent
        PROVE  Shown(m)' <=> Shown(m)
    <3>1. Passed(n).of # m
      BY <1>5
    <3>2. Shown(m) => Shown(m)'
      BY <1>0, Grows DEF Shown
    <3>3. Shown(m)' => Shown(m)
      BY <2>2, <3>1, Zenon DEF Shown
    <3> QED BY <3>2, <3>3
  <2>7. Live' => Shown(n)'
    <3>1. ASSUME Live' PROVE Shown(n)'
      <4>1. toBrowser' = Append(toBrowser, Passed(n))
        BY <1>0, <2>1, <3>1 DEF Sent
      <4>2. /\ Len(toBrowser) + 1 \in 1..Len(toBrowser')
            /\ toBrowser'[Len(toBrowser) + 1] = Passed(n)
        BY <1>5, <4>1
      <4> QED BY <1>5, <4>2 DEF Shown
    <3> QED BY <3>1
  <2>8. \A m \in 1..n : /\ ~(Shown(m)' /\ Acked(m)')
                        /\ Live' => Shown(m)' \/ Acked(m)'
    BY <1>0, <1>5, <1>6, <2>5, <2>6, <2>7 DEF AckInv, AckedOrShown
  <2>9. \A i, j \in 1..Len(toKit') :
          i < j /\ toKit'[i].type = "ack" => toKit'[i] # toKit'[j]
    BY <2>1 DEF AckInv, AckedOrShown
  <2> QED BY <2>1, <2>3, <2>4, <2>8, <2>9 DEF AckInv, AckedOrShown
<1>9. FromBrowser.type = "passed"
  BY DEF FromBrowser, Frame
<1> QED
  BY <1>n, <1>0, <1>2, <1>3, <1>4, <1>7, <1>8, <1>9, OwnTypes
  DEF WireStep, KitStep, OwnStep

FrameInv == TypeInv /\ OwnInv /\ AckInv

LEMMA FrameInvAlways == Spec => []FrameInv
<1>1. Init => FrameInv
  BY InitType, ConstantTypes
  DEF Init, FrameInv, TypeInv, GathererInv, OwnInv, Half, Loaded, Stamped, AckInv,
      AckedOrShown
<1>2. FrameInv /\ [Next]_vars => FrameInv'
  BY TypeStep, OwnInvStep, AckInvStep DEF FrameInv
<1> QED BY <1>1, <1>2, PTL DEF Spec

\* Kit hears of each of its frames once: what the gateway keeps it acks, the
\* rest it shows to the browser, and never both (session.go:244-273).
THEOREM EveryFrameAckedOrShown == Spec => []AckedOrShown
<1>1. FrameInv => AckedOrShown
  BY DEF FrameInv, AckInv
<1> QED BY <1>1, FrameInvAlways, PTL

-----------------------------------------------------------------------------
(* The ids frames are addressed with.                                      *)

\* The viewers the gateway may speak for.
Known == {BrowserId} \cup kit.announced

\* What a step can do to the two ids, and to what allows their use.
LearnStep ==
  /\ kitPeerID' \in {kitPeerID, KitId}
  /\ browserPeerID' \in {browserPeerID} \cup Known'
  /\ Known \subseteq Known'
  /\ kit'.announced # {} => kit.announced # {} \/ browserPeerID' \in Known'
  /\ Active' =>
       \/ Active
       \/ kitPeerID' = KitId /\ (kit.announced # {} \/ browserPeerID' \in Known')

\* Kit announces a viewer before it offers, the browser names both ids.
LearnInv ==
  /\ kit.announced # {} => browserPeerID \in Known
  /\ Active => kitPeerID = KitId /\ browserPeerID \in Known

\* What the goroutines hold is addressed with learned ids.
AddressInv ==
  /\ \A t \in Half : held[t].from \in Known /\ kitPeerID = KitId
  /\ \A t \in Loaded : held[t].from \in Known /\ held[t].to = KitId
  /\ \A t \in Stamped : held[t].from = KitId

\* Calls of pion that are made before any offer leave the gatherers alone.
LEMMA GatherKept ==
  ASSUME TypeOK
  PROVE  /\ SetRemoteAnswer(kp).gather = kp.gather
         /\ SetRemoteAnswer(bp).gather = bp.gather
         /\ Close(kp).gather = kp.gather /\ Close(bp).gather = bp.gather
BY DEF TypeOK, PeerConnections, SetRemoteAnswer, Close

LEMMA KitLearns == TypeOK /\ Kit => LearnStep
<1> SUFFICES ASSUME TypeOK, Kit PROVE LearnStep
  OBVIOUS
<1> USE DEF LearnStep, Known
<1>0. kit \in [sent : Nat, offers : Nat, answers : Nat, announced : SUBSET Viewers]
  BY DEF TypeOK
<1>1. ASSUME NEW role \in {"server", "viewer", "other"}, KitPeerInfo(role)
      PROVE  LearnStep
  <2>1. Active' = Active
    BY <1>1 DEF KitPeerInfo, Active, threads
  <2>2. /\ kitPeerID' \in {kitPeerID, KitId}
        /\ browserPeerID' \in {browserPeerID} \cup Known'
        /\ Known \subseteq Known'
        /\ kit'.announced # {} => kit.announced # {} \/ browserPeerID' \in Known'
    BY <1>0, <1>1 DEF KitPeerInfo, BrowserIDFrom
  <2> QED BY <2>1, <2>2
<1>2. CASE KitUnknown
  BY <1>0, <1>2 DEF KitUnknown, Active, threads
<1>3. CASE KitOffer
  BY <1>0, <1>3 DEF KitOffer
<1>4. CASE KitAnswer
  <2>1. kp'.gather = kp.gather /\ bp' = bp /\ at' = at
    BY <1>4, GatherKept DEF KitAnswer, threads
  <2>2. Active' = Active
    BY <2>1 DEF Active
  <2> QED BY <1>0, <1>4, <2>2 DEF KitAnswer
<1>5. CASE KitCandidate
  BY <1>0, <1>5 DEF KitCandidate, AddKitCandidate, Active, threads
<1> QED BY <1>1, <1>2, <1>3, <1>4, <1>5 DEF Kit

LEMMA BrowserLearns == TypeOK /\ Browser => LearnStep
<1> SUFFICES ASSUME TypeOK, Browser PROVE LearnStep
  OBVIOUS
<1> USE DEF LearnStep, LearnFromBrowser, Known
<1>1. CASE BrowserReads
  BY <1>1 DEF BrowserReads, Active, ids, threads
<1>2. CASE BrowserAnswer
  BY <1>2 DEF BrowserAnswer, SetBrowserAnswer
<1>3. CASE BrowserOffer
  BY <1>3 DEF BrowserOffer
<1>4. CASE BrowserCandidate
  BY <1>4 DEF BrowserCandidate, AddBrowserCandidate
<1>5. CASE BrowserUnknown
  BY <1>5 DEF BrowserUnknown
<1> QED BY <1>1, <1>2, <1>3, <1>4, <1>5 DEF Browser

\* A goroutine is under way when it takes a step, and learns nothing.
LEMMA OwnLearns ==
  ASSUME TypeOK,
         \/ \E k \in Offers : HandleStep(k) \/ BuildStep(k)
         \/ \E b \in BrowserOffers : BridgeStep(b)
         \/ KitSideStep \/ BrowserSideStep
  PROVE  LearnStep
<1> USE ConstantTypes
<1>0. UNCHANGED <<ids, kit>> /\ Active => LearnStep
  BY DEF LearnStep, Known, ids
<1>1. ASSUME NEW k \in Offers, HandleStep(k)
      PROVE  UNCHANGED <<ids, kit>> /\ at[Handle(k)] # "idle"
  BY <1>1 DEF HandleStep, HandleSetRemote, HandleCreateAnswer, HandleSetLocal,
     HandleLoad, HandleSend, HandleSpawn, OnKitPeer, LoadForKit, LoadFrom, LoadTo,
     SendToKit, ends
<1>2. ASSUME NEW k \in Offers, BuildStep(k)
      PROVE  UNCHANGED <<ids, kit>> /\ at[Build(k)] # "idle"
  BY <1>2 DEF BuildStep, BuildCheck, BuildCreateOffer, BuildPromise, BuildSetLocal,
     BuildGathered, BuildAckid, BuildSend, OnBrowserPeer, TakeAckid, SendToBrowser,
     ends
<1>3. ASSUME NEW b \in BrowserOffers, BridgeStep(b)
      PROVE  UNCHANGED <<ids, kit>> /\ at[Bridge(b)] # "idle"
  BY <1>3 DEF BridgeStep, BridgeCreateOffer, BridgeSetLocal, BridgeLoad, BridgeSend,
     BridgeWait, BridgeCreateAnswer, BridgeSetLocalAnswer, BridgeAckid,
     BridgeSendAnswer, OnKitPeer, OnBrowserPeer, LoadForKit, LoadFrom, LoadTo,
     TakeAckid, SendToKit, SendToBrowser, ends
<1>4. ASSUME NEW t \in Threads, t \notin Gatherers, at[t] # "idle"
      PROVE  Active
  BY <1>4, Awake
<1>5. CASE KitSideGathered \/ BrowserSideGathered
  BY <1>0, <1>5 DEF KitSideGathered, BrowserSideGathered, Gathered, Active, ends
<1>6. CASE \/ KitSideCandidate \/ BrowserSideCandidate
           \/ KitSideSend \/ BrowserSideSend
  <2>1. PICK g \in Gatherers, label \in {"idle", "loaded", "send"} :
           at' = [at EXCEPT ![g] = label]
    BY <1>6 DEF KitSideCandidate, BrowserSideCandidate, KitSideSend, BrowserSideSend,
       SentCandidate, LoadFrom, LoadTo, TakeAckid, Goto
  <2>2. UNCHANGED <<ids, kit, kp, bp>>
    BY <1>6 DEF KitSideCandidate, BrowserSideCandidate, KitSideSend, BrowserSideSend,
       SentCandidate, LoadFrom, LoadTo, TakeAckid, ends
  <2>3. Active' => Active
    BY <2>1, <2>2 DEF Active, TypeOK
  <2> QED BY <2>2, <2>3 DEF LearnStep, Known, ids
<1>7. ASSUME NEW k \in Offers, HandleStep(k) \/ BuildStep(k) PROVE LearnStep
  BY <1>0, <1>1, <1>2, <1>4, <1>7, ThreadsDiffer
<1>8. ASSUME NEW b \in BrowserOffers, BridgeStep(b) PROVE LearnStep
  BY <1>0, <1>3, <1>4, <1>8, ThreadsDiffer
<1> QED BY <1>5, <1>6, <1>7, <1>8 DEF KitSideStep, BrowserSideStep

LEMMA NextLearns == TypeOK /\ [Next]_vars => LearnStep
<1> SUFFICES ASSUME TypeOK, [Next]_vars PROVE LearnStep
  OBVIOUS
<1>1. CASE TearDown \/ UNCHANGED vars \/ \E pump \in {"kit", "client"} : CloseSockets(pump)
  <2>1. UNCHANGED <<ids, kit, at>> /\ kp'.gather = kp.gather /\ bp'.gather = bp.gather
    BY <1>1, GatherKept
    DEF TearDown, Cancel, CloseBrowserPeer, CloseKitPeer, CloseSockets, vars, threads,
        ends
  <2> QED BY <2>1 DEF LearnStep, Known, Active, ids
<1> QED BY <1>1, KitLearns, BrowserLearns, OwnLearns DEF Next

RouteInv == LearnInv /\ AddressInv /\ RoutedByLearnedIds

LEMMA LearnInvStep == LearnInv /\ LearnStep => LearnInv'
BY DEF LearnInv, LearnStep

LEMMA AddressInvStep ==
  LearnInv /\ AddressInv /\ LearnStep /\ HoldStep => AddressInv'
<1> SUFFICES ASSUME LearnInv, AddressInv, LearnStep, HoldStep PROVE AddressInv'
  OBVIOUS
<1>1. /\ Active => kitPeerID = KitId /\ browserPeerID \in Known
      /\ Known \subseteq Known' /\ (kitPeerID = KitId => kitPeerID' = KitId)
  BY DEF LearnInv, LearnStep
<1>2. \A t \in Half' : held'[t].from \in Known' /\ kitPeerID' = KitId
  BY <1>1 DEF AddressInv, HoldStep, Begins
<1>3. \A t \in Loaded' : held'[t].from \in Known' /\ held'[t].to = KitId
  BY <1>1 DEF AddressInv, HoldStep, Loads
<1>4. \A t \in Stamped' : held'[t].from = KitId
  BY <1>1 DEF AddressInv, HoldStep, Stamps
<1> QED BY <1>2, <1>3, <1>4 DEF AddressInv

LEMMA RoutedStep ==
  TypeOK /\ AddressInv /\ RoutedByLearnedIds /\ LearnStep /\ WireStep
    => RoutedByLearnedIds'
<1> SUFFICES ASSUME TypeOK, AddressInv, RoutedByLearnedIds, LearnStep, WireStep
             PROVE  RoutedByLearnedIds'
  OBVIOUS
<1> USE WireTypes
<1> DEFINE ToKit(f) == f.type # "ack" => f.from \in Known /\ f.to = KitId
<1>1. \/ toKit' = toKit
      \/ \E f \in Frames : ToKit(f) /\ toKit' = Sent(toKit, f)
  <2>1. \A n \in Nat : ToKit(Ack(n))
    BY DEF Ack, Frame
  <2>2. ToKit(FromBrowser)
    BY DEF FromBrowser, Frame, Known
  <2>3. \A t \in Loaded : ToKit(held[t])
    BY DEF AddressInv
  <2>4. kit.sent + 1 \in Nat
    OBVIOUS
  <2> HIDE DEF ToKit
  <2> QED BY <2>1, <2>2, <2>3, <2>4 DEF WireStep, KitStep, OwnStep, Writes
<1>2. \/ toBrowser' = toBrowser
      \/ \E f \in Frames : f.from = KitId /\ toBrowser' = Sent(toBrowser, f)
  <2>1. \A n \in Nat : Passed(n).from = KitId
    BY DEF Passed, Frame
  <2>2. \A t \in Stamped : held[t].from = KitId
    BY DEF AddressInv
  <2>3. kit.sent + 1 \in Nat
    OBVIOUS
  <2> QED BY <2>1, <2>2, <2>3 DEF WireStep, KitStep, OwnStep, Writes
<1>3. \A i \in 1..Len(toKit') : ToKit(toKit'[i])
  <2>1. \A i \in 1..Len(toKit) : ToKit(toKit[i])
    BY DEF RoutedByLearnedIds, Known
  <2> HIDE DEF ToKit
  <2> QED BY <1>1, <2>1, NewOnKitWire
<1>4. \A i \in 1..Len(toBrowser') : toBrowser'[i].from = KitId
  BY <1>2, NewOnBrowserWire DEF RoutedByLearnedIds
<1>5. Known \subseteq Known'
  BY DEF LearnStep
<1> QED BY <1>3, <1>4, <1>5 DEF RoutedByLearnedIds, Known

\* Everything the gateway originates is addressed to Kit's id and speaks for a
\* viewer Kit has announced, for any interleaving of the hooks that learn the
\* ids with the goroutines that load them, one after the other (session.go:
\* 224-243, 399-408).  When Kit announces nobody else, that is this browser.
THEOREM LearnedIds == Spec => []RoutedByLearnedIds
<1>1. Init => TypeInv /\ RouteInv
  <2> SUFFICES ASSUME Init PROVE TypeInv /\ RouteInv
    OBVIOUS
  <2>1. TypeInv
    BY InitType, ConstantTypes DEF Init, TypeInv, GathererInv
  <2>2. ~Active
    BY DEF Init, Active, NewPeerConnection
  <2> QED
    BY <2>1, <2>2
    DEF Init, RouteInv, LearnInv, AddressInv, RoutedByLearnedIds, Half, Loaded, Stamped
<1>2. TypeInv /\ RouteInv /\ [Next]_vars => (TypeInv /\ RouteInv)'
  <2> SUFFICES ASSUME TypeInv, RouteInv, [Next]_vars PROVE (TypeInv /\ RouteInv)'
    OBVIOUS
  <2>1. TypeOK
    BY DEF TypeInv
  <2>2. LearnStep /\ HoldStep /\ WireStep
    BY <2>1, NextLearns, NextHolds, NextWires
  <2> QED
    BY <2>1, <2>2, TypeStep, LearnInvStep, AddressInvStep, RoutedStep DEF RouteInv
<1>3. RouteInv => RoutedByLearnedIds
  BY DEF RouteInv
<1> QED BY <1>1, <1>2, <1>3, PTL DEF Spec

-----------------------------------------------------------------------------
(* Kit is answered before the browser is offered.                          *)


\* The browser is not offered what Kit has not been answered: what the proofs of
\* acceptance and of the exchange take from the order of the goroutines' steps.
KitAnsweredFirst ==
  \A i \in 1..Len(toBrowser) :
    toBrowser[i].type = "offer" => AnswerSent(toBrowser[i].of)

\* Moves(t): t goes on, or ends, without announcing a second goroutine.
Moves(t) ==
  /\ at[t] # "idle"
  /\ \E label \in Labels \ {"spawn"} : at' = [at EXCEPT ![t] = label]

LEMMA BuildMoves ==
  ASSUME NEW k \in Offers, BuildStep(k)
  PROVE  Moves(Build(k))
<1> USE DEF Moves, Labels, Goto
<1>1. CASE BuildCheck(k)
  BY <1>1 DEF BuildCheck, OnBrowserPeer
<1>2. CASE BuildCreateOffer(k)
  BY <1>2 DEF BuildCreateOffer, OnBrowserPeer
<1>3. CASE BuildPromise(k)
  BY <1>3 DEF BuildPromise, OnBrowserPeer
<1>4. CASE BuildSetLocal(k)
  BY <1>4 DEF BuildSetLocal, OnBrowserPeer
<1>5. CASE BuildGathered(k)
  BY <1>5 DEF BuildGathered, OnBrowserPeer
<1>6. CASE BuildAckid(k)
  BY <1>6 DEF BuildAckid, TakeAckid
<1>7. CASE BuildSend(k)
  BY <1>7 DEF BuildSend, SendToBrowser
<1> QED
  BY <1>1, <1>2, <1>3, <1>4, <1>5, <1>6, <1>7 DEF BuildStep

LEMMA BridgeMoves ==
  ASSUME NEW b \in BrowserOffers, BridgeStep(b)
  PROVE  Moves(Bridge(b))
<1> USE DEF Moves, Labels, Goto
<1>1. CASE BridgeCreateOffer(b)
  BY <1>1 DEF BridgeCreateOffer, OnKitPeer
<1>2. CASE BridgeSetLocal(b)
  BY <1>2 DEF BridgeSetLocal, OnKitPeer
<1>3. CASE BridgeLoad(b)
  BY <1>3 DEF BridgeLoad, LoadForKit, LoadFrom, LoadTo
<1>4. CASE BridgeSend(b)
  BY <1>4 DEF BridgeSend, SendToKit
<1>5. CASE BridgeWait(b)
  BY <1>5 DEF BridgeWait, OnBrowserPeer
<1>6. CASE BridgeCreateAnswer(b)
  BY <1>6 DEF BridgeCreateAnswer, OnBrowserPeer
<1>7. CASE BridgeSetLocalAnswer(b)
  BY <1>7 DEF BridgeSetLocalAnswer, OnBrowserPeer
<1>8. CASE BridgeAckid(b)
  BY <1>8 DEF BridgeAckid, TakeAckid
<1>9. CASE BridgeSendAnswer(b)
  BY <1>9 DEF BridgeSendAnswer, SendToBrowser
<1> QED
  BY <1>1, <1>2, <1>3, <1>4, <1>5, <1>6, <1>7, <1>8, <1>9 DEF BridgeStep

LEMMA HandleMoves ==
  ASSUME NEW k \in Offers,
         HandleSetRemote(k) \/ HandleCreateAnswer(k) \/ HandleSetLocal(k) \/ HandleLoad(k)
  PROVE  Moves(Handle(k))
<1> USE DEF Moves, Labels, Goto
<1>1. CASE HandleSetRemote(k)
  BY <1>1 DEF HandleSetRemote
<1>2. CASE HandleCreateAnswer(k)
  BY <1>2 DEF HandleCreateAnswer, OnKitPeer
<1>3. CASE HandleSetLocal(k)
  BY <1>3 DEF HandleSetLocal, OnKitPeer
<1>4. CASE HandleLoad(k)
  BY <1>4 DEF HandleLoad, LoadForKit, LoadFrom, LoadTo
<1> QED BY <1>1, <1>2, <1>3, <1>4

\* buildBrowserOffer starts where handleKitOffer ends, after the answer.
SpawnStep ==
  \A k \in Offers :
    /\ at'[Handle(k)] = "spawn" => at[Handle(k)] = "spawn" \/ AnswerSent(k)'
    /\ at'[Build(k)] # "idle" => at[Build(k)] # "idle" \/ at[Handle(k)] = "spawn"

AnsweredInv ==
  /\ \A k \in Offers :
       at[Handle(k)] = "spawn" \/ at[Build(k)] # "idle" => AnswerSent(k)
  /\ KitAnsweredFirst

LEMMA HandlersDiffer ==
  /\ \A k, j \in Offers : k # j => Handle(k) # Handle(j) /\ Build(k) # Build(j)
  /\ \A k, j \in Offers : Handle(k) # Build(j)
  /\ \A k \in Offers, b \in BrowserOffers : Bridge(b) # Handle(k) /\ Bridge(b) # Build(k)
BY DEF Handle, Build, Bridge

LEMMA MoveSpawns ==
  ASSUME TypeOK, NEW t \in Threads, Moves(t)
  PROVE  SpawnStep
BY ConstantTypes DEF Moves, SpawnStep, TypeOK

LEMMA HandleSendSpawns ==
  ASSUME TypeOK, OwnInv, NEW k \in Offers, HandleSend(k)
  PROVE  SpawnStep
<1> USE ConstantTypes
<1>1. /\ at[Handle(k)] = "send" /\ toKit' = Sent(toKit, held[Handle(k)])
      /\ at' = [at EXCEPT ![Handle(k)] = IF Live THEN "spawn" ELSE "done"]
  BY DEF HandleSend, SendToKit, Goto
<1>2. Handle(k) \in Loaded
  BY <1>1 DEF Loaded
<1>3. held[Handle(k)].type = "answer" /\ held[Handle(k)].of = k
  BY <1>2, HandlersDiffer, ThreadsDiffer DEF OwnInv, OwnForKit, Gatherers
<1>4. ASSUME Live PROVE AnswerSent(k)'
  <2>1. toKit' = Append(toKit, held[Handle(k)]) /\ held[Handle(k)] \in Frames
    BY <1>1, <1>2, <1>4, WireTypes DEF Sent
  <2>2. /\ Len(toKit) + 1 \in 1..Len(toKit')
        /\ toKit'[Len(toKit) + 1] = held[Handle(k)]
    BY <2>1, WireTypes
  <2> QED BY <1>3, <2>2 DEF AnswerSent
<1> QED BY <1>1, <1>4, HandlersDiffer DEF SpawnStep, TypeOK

LEMMA NextSpawns == TypeOK /\ OwnInv /\ [Next]_vars => SpawnStep
<1> SUFFICES ASSUME TypeOK, OwnInv, [Next]_vars PROVE SpawnStep
  OBVIOUS
<1> USE ConstantTypes
<1>0. at' = at => SpawnStep
  BY DEF SpawnStep
<1>1. CASE KitOffer
  <2>1. PICK j \in Offers : at' = [at EXCEPT ![Handle(j)] = "setRemote"]
    BY <1>1 DEF KitOffer, Goto
  <2> QED BY <2>1, HandlersDiffer DEF SpawnStep, TypeOK
<1>2. CASE BrowserOffer
  <2>1. \/ at' = at
        \/ \E b \in BrowserOffers : at' = [at EXCEPT ![Bridge(b)] = "createOffer"]
    BY <1>2 DEF BrowserOffer, Goto
  <2> QED BY <1>0, <2>1, HandlersDiffer DEF SpawnStep, TypeOK
<1>3. CASE (Kit \/ Browser) /\ ~KitOffer /\ ~BrowserOffer
  BY <1>0, <1>3
  DEF Kit, KitPeerInfo, KitUnknown, KitAnswer, KitCandidate, AddKitCandidate, Browser,
      BrowserReads, BrowserAnswer, SetBrowserAnswer, BrowserCandidate,
      AddBrowserCandidate, BrowserUnknown, threads
<1>4. ASSUME NEW k \in Offers, HandleStep(k) PROVE SpawnStep
  <2>1. CASE HandleSend(k)
    BY <2>1, HandleSendSpawns
  <2>2. CASE HandleSpawn(k)
    BY <2>2, HandlersDiffer DEF HandleSpawn, SpawnStep, TypeOK
  <2>3. CASE ~HandleSend(k) /\ ~HandleSpawn(k)
    BY <1>4, <2>3, HandleMoves, MoveSpawns DEF HandleStep
  <2> QED BY <2>1, <2>2, <2>3
<1>5. ASSUME NEW k \in Offers, BuildStep(k) PROVE SpawnStep
  BY <1>5, BuildMoves, MoveSpawns
<1>6. ASSUME NEW b \in BrowserOffers, BridgeStep(b) PROVE SpawnStep
  BY <1>6, BridgeMoves, MoveSpawns
<1>7. CASE KitSideStep \/ BrowserSideStep
  <2>1. at' = at \/ \E g \in Gatherers, label \in {"idle", "loaded", "send"} :
                      at' = [at EXCEPT ![g] = label]
    BY <1>7 DEF KitSideStep, BrowserSideStep, KitSideCandidate, KitSideSend,
       KitSideGathered, BrowserSideCandidate, BrowserSideSend, BrowserSideGathered,
       SentCandidate, LoadForKit, LoadFrom, LoadTo, TakeAckid, Goto, threads
  <2> QED BY <1>0, <2>1, ThreadsDiffer DEF SpawnStep, TypeOK
<1>8. CASE TearDown \/ UNCHANGED vars \/ \E pump \in {"kit", "client"} : CloseSockets(pump)
  BY <1>0, <1>8
  DEF TearDown, Cancel, CloseBrowserPeer, CloseKitPeer, CloseSockets, vars, threads
<1> QED BY <1>1, <1>2, <1>3, <1>4, <1>5, <1>6, <1>7, <1>8 DEF Next

LEMMA AnsweredStep ==
  TypeOK /\ OwnInv /\ AnsweredInv /\ SpawnStep /\ WireStep => AnsweredInv'
<1> SUFFICES ASSUME TypeOK, OwnInv, AnsweredInv, SpawnStep, WireStep
             PROVE  AnsweredInv'
  OBVIOUS
<1> USE WireTypes
<1>1. \A k : AnswerSent(k) => AnswerSent(k)'
  BY Grows DEF AnswerSent
<1>2. \A k \in Offers :
        at'[Handle(k)] = "spawn" \/ at'[Build(k)] # "idle" => AnswerSent(k)'
  BY <1>1 DEF AnsweredInv, SpawnStep
<1>3. \/ toBrowser' = toBrowser
      \/ \E f \in Frames : /\ f.type = "offer" => AnswerSent(f.of)
                           /\ toBrowser' = Sent(toBrowser, f)
  <2>1. \A n \in Nat : Passed(n).type = "passed"
    BY DEF Passed, Frame
  <2>2. ASSUME NEW t \in Stamped, held[t].type = "offer"
        PROVE  AnswerSent(held[t].of)
    <3>1. PICK k \in Offers : t = Build(k) /\ held[t].of = k
      BY <2>2 DEF OwnInv, OwnForBrowser
    <3>2. at[t] # "idle"
      BY DEF Stamped
    <3> QED BY <3>1, <3>2 DEF AnsweredInv
  <2>3. kit.sent + 1 \in Nat
    OBVIOUS
  <2>4. \/ toBrowser' = toBrowser
        \/ toBrowser' = Sent(toBrowser, Passed(kit.sent + 1))
        \/ \E t \in Stamped : toBrowser' = Sent(toBrowser, held[t])
    BY DEF WireStep, KitStep, OwnStep, Writes
  <2> QED BY <2>1, <2>2, <2>3, <2>4
<1>4. KitAnsweredFirst'
  <2> SUFFICES ASSUME NEW i \in 1..Len(toBrowser'), toBrowser'[i].type = "offer"
               PROVE  \E j \in 1..Len(toKit') :
                        toKit'[j].type = "answer" /\ toKit'[j].of = toBrowser'[i].of
    BY DEF KitAnsweredFirst, AnswerSent
  <2>1. AnswerSent(toBrowser'[i].of)
    BY <1>3, NewOnBrowserWire DEF AnsweredInv, KitAnsweredFirst
  <2> QED BY <2>1, Grows DEF AnswerSent
<1> QED BY <1>2, <1>4 DEF AnsweredInv
=============================================================================
