----------------------------- MODULE Negotiation -----------------------------
(***************************************************************************)
(* gateway-go/internal/session/session.go with upstream/kit_peer.go and    *)
(* downstream/browser_peer.go: the gateway terminates the negotiation of   *)
(* Kit in the peer connection kp and that of the browser in bp.  The two   *)
(* hooks run in the pumps of SignalingProxy; offers are handled in         *)
(* goroutines of their own, and pion's gatherers call back while they run. *)
(*                                                                         *)
(* A frame from Kit or from the browser is sent and handled in one step:   *)
(* both ends are free to send late, and a pump handles frames in order.    *)
(* What the gateway writes is kept in order in toKit and toBrowser, which  *)
(* FrameRelay shows the proxy delivers.                                    *)
(***************************************************************************)
EXTENDS PeerConnection, Sequences

CONSTANTS
  KitId, BrowserId,    \* the ids Kit assigns to itself and to this browser
  OtherViewers,        \* ids of other browsers whose peer_info Kit broadcasts
  AckBase,             \* ackBase, session.go:65
  Candidates,          \* candidates each peer connection gathers
  MaxKitFrames,        \* bound: frames Kit sends
  MaxOffers,           \* bound: offers of Kit
  MaxBrowserOffers,    \* bound: offers of the browser
  MaxBrowserFrames     \* bound: candidates and other frames of the browser

Offers == 1..MaxOffers
BrowserOffers == 1..MaxBrowserOffers
Viewers == {BrowserId} \cup OtherViewers
Ids == {0, 1, KitId} \cup Viewers

\* Kit numbers its frames from 1 with low numbers, ackBase is above them.
ASSUME NegotiationAssumption ==
  /\ {KitId, BrowserId, AckBase, Candidates, MaxKitFrames, MaxOffers,
      MaxBrowserOffers, MaxBrowserFrames} \subseteq Nat
  /\ OtherViewers \subseteq Nat
  /\ MaxKitFrames <= AckBase

Handle(k) == <<"handle", k>>      \* go func at session.go:284
Build(k) == <<"build", k>>        \* go buildBrowserOffer
Bridge(b) == <<"bridge", b>>      \* go bridgeBrowserOffer
KitSide == <<"gatherer", 1>>      \* kp's candidate callback
BrowserSide == <<"gatherer", 2>>  \* bp's candidate callback
Gatherers == {KitSide, BrowserSide}
Threads ==
  {Handle(k) : k \in Offers} \cup {Build(k) : k \in Offers}
    \cup {Bridge(b) : b \in BrowserOffers} \cup Gatherers

\* A frame the gateway writes: ackid 0 stands for a frame without one, of
\* names the offer an offer or an answer belongs to, or the passed frame.
Frame(type, ackid, from, to, of) ==
  [type |-> type, ackid |-> ackid, from |-> from, to |-> to, of |-> of]
NoFrame == Frame("none", 0, 0, 0, 0)
Ack(n) == Frame("ack", n, 0, 0, 0)

VARIABLES
  kitPeerID, browserPeerID, ackCounter,   \* state, session.go:55-59
  kp, bp,      \* the peer connections towards Kit and the browser
  at, held,    \* where each goroutine stands and the frame it built
  left,        \* candidates a gatherer has still to report
  toKit, toBrowser,
  kit,         \* what Kit has done: frames, offers, answers sent, announced
  browser,     \* what the browser has done, and the offer it has to answer
  refused,     \* descriptions and candidates pion rejected in a live session
  stage,       \* of tearDown and OnClose
  closer       \* the pump that runs tearDown

ids == <<kitPeerID, browserPeerID>>
ends == <<kit, browser>>
threads == <<at, held, left>>
closing == <<stage, closer>>
vars == <<ids, ackCounter, kp, bp, threads, toKit, toBrowser, ends, refused,
          closing>>

Live == stage = "live"
CtxDone == stage \in {"cancelled", "browserClosed", "closed"}

LowInitialAckid == 0   \* mutant: Kit's own range
InitialAckid == AckBase

Init ==
  /\ kitPeerID = 1 /\ browserPeerID = 0 /\ ackCounter = InitialAckid
  /\ kp = NewPeerConnection /\ bp = NewPeerConnection
  /\ at = [t \in Threads |-> "idle"]
  /\ held = [t \in Threads |-> NoFrame]
  /\ left = [g \in Gatherers |-> Candidates]
  /\ toKit = << >> /\ toBrowser = << >>
  /\ kit = [sent |-> 0, offers |-> 0, answers |-> 0, announced |-> {}]
  /\ browser = [seen |-> 0, owes |-> 0, answers |-> 0, offers |-> 0, extra |-> 0]
  /\ refused = {}
  /\ stage = "live" /\ closer = "none"

\* Send and SendToKit: an error, ignored by the caller, once the sockets are
\* closed.
Sent(wire, frame) == IF Live THEN Append(wire, frame) ELSE wire

Goto(t, label) == at' = [at EXCEPT ![t] = label]
Refuse(what) == refused' = IF Live THEN refused \cup {what} ELSE refused

-----------------------------------------------------------------------------
(* Kit and the hook OnKitMessage.                                          *)

KitFrame(n) ==
  /\ closer # "kit"
  /\ kit.sent < MaxKitFrames
  /\ n = kit.sent + 1

Pass(n) == toBrowser' = Sent(toBrowser, Frame("passed", n, KitId, 0, n))

\* Mutant: the id of any peer_info is taken for the browser's.
BrowserIDFromAny(role, viewer) == IF role = "viewer" THEN viewer ELSE KitId

BrowserIDFrom(role, viewer) == IF role = "viewer" THEN viewer ELSE browserPeerID

\* The name decides whose id it is: "server" begins with OneSdkServer,
\* "viewer" with peer-.  With any other name the frame is only passed, like
\* a heartbeat, an ack or a peer_msg without inner payload.
KitPeerInfo(role) ==
  \E n \in 1..MaxKitFrames, viewer \in Viewers :
    /\ KitFrame(n)
    /\ role # "viewer" => viewer = BrowserId
    /\ kit' = [kit EXCEPT !.sent = n,
                          !.announced = IF role = "viewer" THEN @ \cup {viewer} ELSE @]
    /\ kitPeerID' = IF role = "server" THEN KitId ELSE kitPeerID
    /\ browserPeerID' = BrowserIDFrom(role, viewer)
    /\ Pass(n)
    /\ UNCHANGED <<ackCounter, kp, bp, threads, toKit, browser, refused, closing>>

\* A peer_msg with an inner type the gateway does not know.
KitUnknown ==
  \E n \in 1..MaxKitFrames :
    /\ KitFrame(n)
    /\ kit' = [kit EXCEPT !.sent = n]
    /\ kitPeerID' = KitId
    /\ Pass(n)
    /\ UNCHANGED <<browserPeerID, ackCounter, kp, bp, threads, toKit, browser,
                   refused, closing>>

NoAutoAck(n) == UNCHANGED toKit   \* mutant
\* Every frame of Kit carries an ackid here; one without is not acked.
AutoAck(n) == toKit' = Sent(toKit, Ack(n))

AnswerSent(k) ==
  \E i \in 1..Len(toKit) : toKit[i].type = "answer" /\ toKit[i].of = k

\* Kit announces the browser first and repeats an offer only when the one
\* before is answered.
KitOffer ==
  \E n \in 1..MaxKitFrames, k \in Offers :
    /\ KitFrame(n)
    /\ BrowserId \in kit.announced
    /\ k = kit.offers + 1
    /\ kit.offers = 0 \/ AnswerSent(kit.offers)
    /\ kit' = [kit EXCEPT !.sent = n, !.offers = k]
    /\ kitPeerID' = KitId
    /\ AutoAck(n)
    /\ Goto(Handle(k), "setRemote")
    /\ UNCHANGED <<browserPeerID, ackCounter, kp, bp, held, left, toBrowser,
                   browser, refused, closing>>

OfferSent(b) ==
  \E i \in 1..Len(toKit) : toKit[i].type = "offer" /\ toKit[i].of = b

KitAnswer ==
  \E n \in 1..MaxKitFrames, b \in BrowserOffers :
    /\ KitFrame(n)
    /\ OfferSent(b)
    /\ kit.answers < b
    /\ kit' = [kit EXCEPT !.sent = n, !.answers = b]
    /\ kitPeerID' = KitId
    /\ AutoAck(n)
    /\ IF kp.sig = "haveLocalOffer"
         THEN kp' = SetRemoteAnswer(kp) /\ UNCHANGED refused
         ELSE Refuse("kitAnswer") /\ UNCHANGED kp
    /\ UNCHANGED <<browserPeerID, ackCounter, bp, threads, toBrowser, browser,
                   closing>>

\* pion takes a candidate once a remote description is set; an empty one,
\* which ends the trickle, is acked and not added.
AddKitCandidate ==
  \/ UNCHANGED refused
  \/ ~CanAddCandidate(kp) /\ Refuse("kitCandidate")

\* Kit trickles after its offer or its answer.
KitCandidate ==
  \E n \in 1..MaxKitFrames :
    /\ KitFrame(n)
    /\ kit.offers > 0 \/ kit.answers > 0
    /\ kit' = [kit EXCEPT !.sent = n]
    /\ kitPeerID' = KitId
    /\ AutoAck(n)
    /\ AddKitCandidate
    /\ UNCHANGED <<browserPeerID, ackCounter, kp, bp, threads, toBrowser,
                   browser, closing>>

-----------------------------------------------------------------------------
(* The browser and the hook OnClientMessage.                               *)

\* The browser takes its next frame.  It answers a frame with an ackid by an
\* ack, which the hook consumes.
BrowserReads ==
  /\ Live
  /\ browser.seen < Len(toBrowser)
  /\ LET f == toBrowser[browser.seen + 1]
     IN  browser' = [browser EXCEPT !.seen = @ + 1,
                                    !.owes = IF f.type = "offer" THEN f.of ELSE @]
  /\ UNCHANGED <<ids, ackCounter, kp, bp, threads, toKit, toBrowser, kit,
                 refused, closing>>

\* Every peer_msg of the browser carries its id and Kit's.
LearnFromBrowser == browserPeerID' = BrowserId /\ kitPeerID' = KitId

SetBrowserAnswer ==
  IF bp.sig = "haveLocalOffer"
    THEN bp' = SetRemoteAnswer(bp) /\ UNCHANGED refused
    ELSE Refuse("browserAnswer") /\ UNCHANGED bp

BrowserAnswer ==
  /\ closer # "client"
  /\ browser.owes # 0
  /\ browser' = [browser EXCEPT !.owes = 0, !.answers = @ + 1]
  /\ LearnFromBrowser
  /\ SetBrowserAnswer
  /\ UNCHANGED <<ackCounter, kp, threads, toKit, toBrowser, kit, closing>>

BrowserOffer ==
  \E b \in BrowserOffers :
    /\ closer # "client"
    /\ b = browser.offers + 1
    /\ browser' = [browser EXCEPT !.offers = b]
    /\ LearnFromBrowser
    /\ IF bp.sig = "stable"
         THEN /\ bp' = SetRemoteOffer(bp)
              /\ Goto(Bridge(b), "createOffer")
              /\ UNCHANGED refused
         ELSE Refuse("browserOffer") /\ UNCHANGED <<bp, at>>
    /\ UNCHANGED <<ackCounter, kp, held, left, toKit, toBrowser, kit, closing>>

BrowserExtra ==
  /\ closer # "client"
  /\ browser.extra < MaxBrowserFrames
  /\ browser' = [browser EXCEPT !.extra = @ + 1]

\* An empty candidate is not added here either.
AddBrowserCandidate ==
  \/ UNCHANGED refused
  \/ ~CanAddCandidate(bp) /\ Refuse("browserCandidate")

BrowserCandidate ==
  /\ BrowserExtra
  /\ browser.answers > 0 \/ browser.offers > 0
  /\ LearnFromBrowser
  /\ AddBrowserCandidate
  /\ UNCHANGED <<ackCounter, kp, bp, threads, toKit, toBrowser, kit, closing>>

BrowserUnknown ==
  /\ BrowserExtra
  /\ LearnFromBrowser
  /\ toKit' = Sent(toKit, Frame("passed", 0, BrowserId, KitId, 0))
  /\ UNCHANGED <<ackCounter, kp, bp, threads, toBrowser, kit, refused, closing>>

-----------------------------------------------------------------------------
(* Steps of the goroutines.                                                *)

\* The two ids are loaded one after the other: a hook may run in between.
LoadFrom(t, here, type, of) ==
  /\ at[t] = here
  /\ held' = [held EXCEPT ![t] = Frame(type, 0, browserPeerID, 0, of)]
  /\ Goto(t, "loaded")
  /\ UNCHANGED <<ids, ackCounter, kp, bp, left, toKit, toBrowser, ends, refused,
                 closing>>

LoadTo(t, next) ==
  /\ at[t] = "loaded"
  /\ held' = [held EXCEPT ![t].to = kitPeerID]
  /\ Goto(t, next)
  /\ UNCHANGED <<ids, ackCounter, kp, bp, left, toKit, toBrowser, ends, refused,
                 closing>>

LoadForKit(t, here, next, type, of) ==
  LoadFrom(t, here, type, of) \/ LoadTo(t, next)

\* atomic.AddInt32, separate from the Send that follows.  kitPeerID, which
\* is read next, is KitId by then and stays so: the two are one step.
TakeAckid(t, here, next, type, of) ==
  /\ at[t] = here
  /\ ackCounter' = ackCounter + 1
  /\ held' = [held EXCEPT ![t] = Frame(type, ackCounter + 1, kitPeerID, 0, of)]
  /\ Goto(t, next)
  /\ UNCHANGED <<ids, kp, bp, left, toKit, toBrowser, ends, refused, closing>>

\* A step on kp alone: it succeeds and goes on, or fails and ends the job.
OnKitPeer(t, here, ok, peer, next) ==
  /\ at[t] = here
  /\ IF ok THEN kp' = peer /\ Goto(t, next) ELSE UNCHANGED kp /\ Goto(t, "done")
  /\ UNCHANGED <<ids, ackCounter, bp, held, left, toKit, toBrowser, ends, refused,
                 closing>>

OnBrowserPeer(t, here, ok, peer, next) ==
  /\ at[t] = here
  /\ IF ok THEN bp' = peer /\ Goto(t, next) ELSE UNCHANGED bp /\ Goto(t, "done")
  /\ UNCHANGED <<ids, ackCounter, kp, held, left, toKit, toBrowser, ends, refused,
                 closing>>

SendToKit(t, here, next) ==
  /\ at[t] = here
  /\ toKit' = Sent(toKit, held[t])
  /\ held' = [held EXCEPT ![t] = NoFrame]
  /\ Goto(t, IF Live THEN next ELSE "done")
  /\ UNCHANGED <<ids, ackCounter, kp, bp, left, toBrowser, ends, refused, closing>>

SendToBrowser(t, here, next) ==
  /\ at[t] = here
  /\ toBrowser' = Sent(toBrowser, held[t])
  /\ held' = [held EXCEPT ![t] = NoFrame]
  /\ Goto(t, next)
  /\ UNCHANGED <<ids, ackCounter, kp, bp, left, toKit, ends, refused, closing>>

\* handleKitOffer: HandleOffer's three calls, the answer, then the second
\* goroutine.
HandleSetRemote(k) ==
  /\ at[Handle(k)] = "setRemote"
  /\ IF kp.sig = "stable"
       THEN kp' = SetRemoteOffer(kp) /\ Goto(Handle(k), "createAnswer")
            /\ UNCHANGED refused
       ELSE Refuse("kitOffer") /\ Goto(Handle(k), "done") /\ UNCHANGED kp
  /\ UNCHANGED <<ids, ackCounter, bp, held, left, toKit, toBrowser, ends, closing>>

\* Mutant: the local description is never set.
HandleCreateAnswerOnly(k) ==
  OnKitPeer(Handle(k), "createAnswer", kp.sig = "haveRemoteOffer",
            CreateAnswer(kp, k), "load")

HandleCreateAnswer(k) ==
  OnKitPeer(Handle(k), "createAnswer", kp.sig = "haveRemoteOffer",
            CreateAnswer(kp, k), "setLocal")

HandleSetLocal(k) ==
  OnKitPeer(Handle(k), "setLocal", CanSetLocalAnswer(kp, k),
            SetLocalAnswer(kp), "load")

\* Mutants: the browser is offered at once; the second goroutine is forgotten.
HandleLoadUnsent(k) == LoadForKit(Handle(k), "load", "spawn", "answer", k)
HandleSendOnly(k) == SendToKit(Handle(k), "send", "done")

HandleLoad(k) == LoadForKit(Handle(k), "load", "send", "answer", k)
HandleSend(k) == SendToKit(Handle(k), "send", "spawn")

HandleSpawn(k) ==
  /\ at[Handle(k)] = "spawn"
  /\ at' = [at EXCEPT ![Handle(k)] = "done", ![Build(k)] = "check"]
  /\ UNCHANGED <<ids, ackCounter, kp, bp, held, left, toKit, toBrowser, ends,
                 refused, closing>>

\* buildBrowserOffer, with CreateOffer of browser_peer.go inside it.
BuildCheck(k) ==
  OnBrowserPeer(Build(k), "check", ~CtxDone, bp, "createOffer")
BuildCreateOffer(k) ==
  OnBrowserPeer(Build(k), "createOffer", Open(bp), CreateOffer(bp, k), "promise")
BuildPromise(k) ==
  OnBrowserPeer(Build(k), "promise", TRUE, GatheringCompletePromise(bp, k),
                "setLocal")
\* Mutants: the error of SetLocalDescription is ignored; the promise is not
\* awaited.
BuildSetLocalUnchecked(k) ==
  OnBrowserPeer(Build(k), "setLocal", TRUE,
                IF CanSetLocalOffer(bp, k) THEN SetLocalOffer(bp) ELSE bp, "gather")
BuildTrickled(k) == OnBrowserPeer(Build(k), "gather", TRUE, bp, "ackid")

BuildSetLocal(k) ==
  OnBrowserPeer(Build(k), "setLocal", CanSetLocalOffer(bp, k),
                SetLocalOffer(bp), "gather")
BuildGathered(k) ==
  k \in bp.fired /\ OnBrowserPeer(Build(k), "gather", TRUE, bp, "ackid")
BuildAckid(k) == TakeAckid(Build(k), "ackid", "send", "offer", k)
BuildSend(k) == SendToBrowser(Build(k), "send", "done")

\* bridgeBrowserOffer.  The wait ends when upstream ICE connects, after 20
\* seconds, or with the context.
BridgeCreateOffer(b) ==
  OnKitPeer(Bridge(b), "createOffer", Open(kp), CreateOffer(kp, b), "setLocal")
\* Mutant: the wait has neither timer nor context and ends only when Kit's
\* answer lets ICE connect.
BridgeWaitForever(b) ==
  /\ kp.sig = "stable" /\ kp.remote
  /\ OnBrowserPeer(Bridge(b), "wait", TRUE, bp, "createAnswer")

BridgeSetLocal(b) ==
  OnKitPeer(Bridge(b), "setLocal", CanSetLocalOffer(kp, b), SetLocalOffer(kp),
            "load")
\* Mutant: the browser is answered although Kit is not asked.
BridgeLoadUnsent(b) == LoadForKit(Bridge(b), "load", "wait", "offer", b)
BridgeLoad(b) == LoadForKit(Bridge(b), "load", "send", "offer", b)
BridgeSend(b) == SendToKit(Bridge(b), "send", "wait")
BridgeWait(b) ==
  \/ OnBrowserPeer(Bridge(b), "wait", TRUE, bp, "createAnswer")
  \/ CtxDone /\ OnBrowserPeer(Bridge(b), "wait", FALSE, bp, "done")
BridgeCreateAnswer(b) ==
  OnBrowserPeer(Bridge(b), "createAnswer", bp.sig = "haveRemoteOffer",
                CreateAnswer(bp, b), "setLocalAnswer")
BridgeSetLocalAnswer(b) ==
  OnBrowserPeer(Bridge(b), "setLocalAnswer", CanSetLocalAnswer(bp, b),
                SetLocalAnswer(bp), "ackid")
BridgeAckid(b) == TakeAckid(Bridge(b), "ackid", "sendAnswer", "answer", b)
BridgeSendAnswer(b) == SendToBrowser(Bridge(b), "sendAnswer", "done")

-----------------------------------------------------------------------------
(* The candidate callbacks: a gatherer reports one candidate at a time and *)
(* then, with nil, that it is complete.                                    *)

Reports(g, peer) ==
  at[g] = "idle" /\ Open(peer) /\ peer.gather = "running" /\ left[g] > 0

\* Mutant: the callback does not look for the nil that ends gathering.
KitSideCandidateOrNil ==
  \/ /\ Open(kp) /\ kp.gather = "running"
     /\ LoadFrom(KitSide, "idle", "candidate", 0)
  \/ LoadTo(KitSide, "send")

KitSideCandidate ==
  \/ Reports(KitSide, kp) /\ LoadFrom(KitSide, "idle", "candidate", 0)
  \/ LoadTo(KitSide, "send")

BrowserSideCandidate ==
  /\ Reports(BrowserSide, bp)
  /\ TakeAckid(BrowserSide, "idle", "send", "candidate", 0)

SentCandidate(g) ==
  /\ at[g] = "send"
  /\ at' = [at EXCEPT ![g] = "idle"]
  /\ held' = [held EXCEPT ![g] = NoFrame]
  /\ left' = [left EXCEPT ![g] = @ - 1]
  /\ UNCHANGED <<ids, ackCounter, kp, bp, ends, refused, closing>>

KitSideSend ==
  SentCandidate(KitSide) /\ toKit' = Sent(toKit, held[KitSide])
    /\ UNCHANGED toBrowser

BrowserSideSend ==
  SentCandidate(BrowserSide) /\ toBrowser' = Sent(toBrowser, held[BrowserSide])
    /\ UNCHANGED toKit

Gathered(g, peer) ==
  at[g] = "idle" /\ Open(peer) /\ peer.gather = "running" /\ left[g] = 0

KitSideGathered ==
  /\ Gathered(KitSide, kp)
  /\ kp' = GatheringComplete(kp)
  /\ UNCHANGED <<ids, ackCounter, bp, threads, toKit, toBrowser, ends, refused,
                 closing>>

BrowserSideGathered ==
  /\ Gathered(BrowserSide, bp)
  /\ bp' = GatheringComplete(bp)
  /\ UNCHANGED <<ids, ackCounter, kp, threads, toKit, toBrowser, ends, refused,
                 closing>>

-----------------------------------------------------------------------------
(* tearDown of the proxy, then OnClose.                                    *)

\* Either end is lost, or a write fails: the pump of one side closes both
\* sockets.
CloseSockets(pump) ==
  /\ Live
  /\ stage' = "sockets" /\ closer' = pump
  /\ UNCHANGED <<ids, ackCounter, kp, bp, threads, toKit, toBrowser, ends, refused>>

Cancel ==
  /\ stage = "sockets"
  /\ stage' = "cancelled"
  /\ UNCHANGED <<ids, ackCounter, kp, bp, threads, toKit, toBrowser, ends, refused,
                 closer>>

CloseBrowserPeer ==
  /\ stage = "cancelled"
  /\ stage' = "browserClosed"
  /\ bp' = Close(bp)
  /\ UNCHANGED <<ids, ackCounter, kp, threads, toKit, toBrowser, ends, refused,
                 closer>>

CloseKitPeer ==
  /\ stage = "browserClosed"
  /\ stage' = "closed"
  /\ kp' = Close(kp)
  /\ UNCHANGED <<ids, ackCounter, bp, threads, toKit, toBrowser, ends, refused,
                 closer>>

-----------------------------------------------------------------------------
Kit ==
  \/ \E role \in {"server", "viewer", "other"} : KitPeerInfo(role)
  \/ KitUnknown \/ KitOffer \/ KitAnswer \/ KitCandidate

Browser ==
  BrowserReads \/ BrowserAnswer \/ BrowserOffer \/ BrowserCandidate \/ BrowserUnknown

HandleStep(k) ==
  \/ HandleSetRemote(k) \/ HandleCreateAnswer(k) \/ HandleSetLocal(k)
  \/ HandleLoad(k) \/ HandleSend(k) \/ HandleSpawn(k)

BuildStep(k) ==
  \/ BuildCheck(k) \/ BuildCreateOffer(k) \/ BuildPromise(k) \/ BuildSetLocal(k)
  \/ BuildGathered(k) \/ BuildAckid(k) \/ BuildSend(k)

BridgeStep(b) ==
  \/ BridgeCreateOffer(b) \/ BridgeSetLocal(b) \/ BridgeLoad(b) \/ BridgeSend(b)
  \/ BridgeWait(b) \/ BridgeCreateAnswer(b) \/ BridgeSetLocalAnswer(b)
  \/ BridgeAckid(b) \/ BridgeSendAnswer(b)

KitSideStep == KitSideCandidate \/ KitSideSend \/ KitSideGathered
BrowserSideStep == BrowserSideCandidate \/ BrowserSideSend \/ BrowserSideGathered

TearDown == Cancel \/ CloseBrowserPeer \/ CloseKitPeer

Next ==
  \/ Kit \/ Browser
  \/ \E k \in Offers : HandleStep(k) \/ BuildStep(k)
  \/ \E b \in BrowserOffers : BridgeStep(b)
  \/ KitSideStep \/ BrowserSideStep
  \/ \E pump \in {"kit", "client"} : CloseSockets(pump)
  \/ TearDown

Spec == Init /\ [][Next]_vars

\* Every goroutine of the gateway and of pion that can run does so.  Kit and
\* the browser need not send or read anything.
Fairness ==
  /\ \A k \in Offers : WF_vars(HandleStep(k)) /\ WF_vars(BuildStep(k))
  /\ \A b \in BrowserOffers : WF_vars(BridgeStep(b))
  /\ WF_vars(KitSideStep) /\ WF_vars(BrowserSideStep)
  /\ WF_vars(TearDown)

FairSpec == Spec /\ Fairness

\* A browser that reads what it is sent and answers what it is offered.
ResponsiveSpec == FairSpec /\ WF_vars(BrowserReads) /\ WF_vars(BrowserAnswer)

-----------------------------------------------------------------------------
Labels == {"idle", "setRemote", "createAnswer", "setLocal", "load", "loaded", "send",
           "spawn", "check", "createOffer", "promise", "gather", "ackid",
           "wait", "setLocalAnswer", "sendAnswer", "done"}

Frames == [type : {"none", "ack", "passed", "offer", "answer", "candidate"},
           ackid : Nat, from : Nat, to : Nat, of : Nat]

Payloads == {"kitOffer", "kitAnswer", "kitCandidate",
             "browserOffer", "browserAnswer", "browserCandidate"}

TypeOK ==
  /\ kitPeerID \in Ids /\ browserPeerID \in Ids
  /\ ackCounter \in Nat
  /\ kp \in PeerConnections /\ bp \in PeerConnections
  /\ at \in [Threads -> Labels]
  /\ held \in [Threads -> Frames]
  /\ left \in [Gatherers -> Nat]
  /\ toKit \in Seq(Frames) /\ toBrowser \in Seq(Frames)
  /\ kit \in [sent : Nat, offers : Nat, answers : Nat, announced : SUBSET Viewers]
  /\ browser \in [seen : Nat, owes : Nat, answers : Nat, offers : Nat, extra : Nat]
  /\ refused \subseteq Payloads
  /\ stage \in {"live", "sockets", "cancelled", "browserClosed", "closed"}
  /\ closer \in {"none", "kit", "client"}

Shown(n) ==
  \E i \in 1..Len(toBrowser) : toBrowser[i].type = "passed" /\ toBrowser[i].of = n
Acked(n) == \E i \in 1..Len(toKit) : toKit[i] = Ack(n)

\* session.go:257-259.  Kit hears of each of its frames once: the gateway
\* acks what it keeps, the browser is shown the rest, and no frame is both
\* or, while the session lives, neither.
AckedOrShown ==
  /\ \A n \in 1..kit.sent : ~(Shown(n) /\ Acked(n)) /\ (Live => Shown(n) \/ Acked(n))
  /\ \A i, j \in 1..Len(toKit) :
       i < j /\ toKit[i].type = "ack" => toKit[i] # toKit[j]

\* session.go:61-65.  No two frames on the browser's socket carry the same
\* ackid, Kit's own frames included, so none is taken for a duplicate.
AckidsFresh ==
  \A i, j \in 1..Len(toBrowser) : i < j => toBrowser[i].ackid # toBrowser[j].ackid

\* session.go:58.  When only Kit offers, the gateway's ackids grow along the
\* wire although each is taken before, and apart from, its Send.
AckidsInOrder ==
  \A i, j \in 1..Len(toBrowser) :
    /\ i < j
    /\ toBrowser[i].type # "passed"
    /\ toBrowser[j].type # "passed"
    => toBrowser[i].ackid < toBrowser[j].ackid

\* session.go:57 and 224-227.  Whatever peer_info and peer_msg frames come
\* between the two loads and the Send, everything the gateway originates is
\* addressed to Kit by Kit's own id, never by a default, and speaks for this
\* session's browser: for nobody else, until Kit announces another viewer here.
RoutedByLearnedIds ==
  /\ \A i \in 1..Len(toKit) :
       toKit[i].type # "ack" =>
         toKit[i].from \in {BrowserId} \cup kit.announced /\ toKit[i].to = KitId
  /\ \A i \in 1..Len(toBrowser) : toBrowser[i].from = KitId

\* Offers on the browser's socket that it has not answered yet.
Outstanding ==
  {k \in Offers :
     \/ browser.owes = k
     \/ \E i \in (browser.seen + 1)..Len(toBrowser) :
          toBrowser[i].type = "offer" /\ toBrowser[i].of = k}

\* session.go:352-356.  An offer the browser has still to answer is the one
\* the downstream peer waits on, and there is at most one: no answer can be
\* applied to another offer.
OutstandingOfferIsCurrent ==
  \A k \in Outstanding : Open(bp) => bp.sig = "haveLocalOffer" /\ bp.local = k

\* session.go:290-298 and 352-356.  An answer never meets a peer connection
\* that cannot take it; when only Kit offers, neither does an offer, nor a
\* candidate of the browser.
DescriptionsAccepted ==
  /\ refused \cap {"kitAnswer", "browserAnswer"} = {}
  /\ MaxBrowserOffers = 0 => refused \subseteq {"kitCandidate"}

\* session.go:257-259 and 322-324.  Kit drops the socket over a frame nobody
\* acks; the browser acks what it is shown, and the hook consumes that ack.
\* Violated: the ack of a frame that was passed through never reaches Kit.
AcksOfPassedFramesReachKit ==
  \A i \in 1..browser.seen :
    toBrowser[i].type = "passed" => Acked(toBrowser[i].of)

\* session.go:279-282.  The pump goes on reading "Kit's subsequent trickle
\* candidates" while the offer is handled.  Violated: such a candidate is
\* acked and lost when the goroutine has not set the offer yet.
KitCandidatesAccepted == "kitCandidate" \notin refused

OfferedToBrowser(k) ==
  \E i \in 1..Len(toBrowser) : toBrowser[i].type = "offer" /\ toBrowser[i].of = k

AnsweredToBrowser(b) ==
  \E i \in 1..Len(toBrowser) : toBrowser[i].type = "answer" /\ toBrowser[i].of = b

\* session.go:381-383.  An offer of Kit leads to an offer to the browser,
\* unless the session ends or the browser offers first.
OfferReachesBrowser ==
  \A k \in Offers :
    (kit.offers = k) ~> (OfferedToBrowser(k) \/ ~Live \/ browser.offers > 0)

\* session.go:458-536.  An accepted offer of the browser is answered, also
\* when upstream never connects, unless the session ends or Kit offers too.
BrowserOfferAnswered ==
  \A b \in BrowserOffers :
    (at[Bridge(b)] = "createOffer")
      ~> (AnsweredToBrowser(b) \/ ~Live \/ kit.offers > 0)

\* What an end makes of a frame and of a wire: an ack is about the frame it acks.
About(f) == [type |-> f.type, of |-> IF f.type = "ack" THEN f.ackid ELSE f.of]
Conversation(wire) == [i \in 1..Len(wire) |-> About(wire[i])]

Exchange == INSTANCE OfferExchange WITH
  open <- Live, heard <- kit.sent, kitOffers <- kit.offers,
  browserOffers <- browser.offers,
  toKit <- Conversation(toKit), toBrowser <- Conversation(toBrowser)

\* session.go:241-357, 384-416 and 428-537.  The goroutines, callbacks and
\* hooks together hold one orderly conversation with each end: every offer is
\* answered and offered on at most once, the browser hears of an offer last,
\* and nothing is said that nobody asked for.
ImplementsExchange == Exchange!ExchangeSpec

\* Nothing the gateway or pion has begun can go on: what follows needs a frame.
Waits(k) == at[Build(k)] = "gather" /\ k \notin bp.fired
AtRest ==
  /\ \A k \in Offers : /\ at[Handle(k)] \in {"idle", "done"}
                       /\ at[Build(k)] \in {"idle", "done"} \/ Waits(k)
  /\ \A b \in BrowserOffers : at[Bridge(b)] \in {"idle", "done"}
  /\ \A g \in Gatherers : at[g] = "idle"
  /\ kp.gather # "running" /\ bp.gather # "running"

\* session.go:381-383 and 458-536.  A live session that has come to rest has
\* passed on the only offer it was made: no error path, promise or guard on the
\* way of a first offer drops it, whatever other frames come between.
LoneOfferDelivered ==
  Live /\ AtRest =>
    /\ kit.offers = 1 /\ browser.offers = 0 => OfferedToBrowser(1)
    /\ browser.offers = 1 /\ kit.offers = 0 => AnsweredToBrowser(1)

Ended(t) ==
  \/ at[t] \in {"idle", "done"}
  \/ at[t] = "gather"    \* waits for a promise pion may never fulfil

\* session.go:372-376.  After OnClose no goroutine keeps running, except one
\* that waits for candidates, browser_peer.go:69.
GoroutinesEnd == (stage = "closed") ~> (\A t \in Threads : Ended(t))
=============================================================================
