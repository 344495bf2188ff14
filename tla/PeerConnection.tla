--------------------------- MODULE PeerConnection ---------------------------
(***************************************************************************)
(* pion/webrtc's PeerConnection as far as the session relies on it: the    *)
(* signaling state machine of JSEP, the check that a description about to  *)
(* be set is the last one created, candidate gathering, and the promise of *)
(* GatheringCompletePromise.  External code: every operator is what the    *)
(* calls in gateway-go/internal depend on.                                 *)
(*                                                                         *)
(* A peer connection is a record.  Descriptions are named by positive      *)
(* numbers their creator chooses, 0 stands for none.                       *)
(***************************************************************************)
EXTENDS Naturals

PeerConnections ==
  [sig : {"stable", "haveLocalOffer", "haveRemoteOffer", "closed"},
   remote : BOOLEAN,      \* a remote description is set
   offer : Nat,           \* last offer created
   answer : Nat,          \* last answer created
   local : Nat,           \* last local offer set
   gather : {"new", "running", "complete"},
   handler : Nat,         \* owner of the gather-complete handler
   fired : SUBSET Nat]    \* owners whose promise is fulfilled

NewPeerConnection ==
  [sig |-> "stable", remote |-> FALSE, offer |-> 0, answer |-> 0, local |-> 0,
   gather |-> "new", handler |-> 0, fired |-> {}]

Open(c) == c.sig # "closed"
Close(c) == [c EXCEPT !.sig = "closed"]

SetRemoteOffer(c) == [c EXCEPT !.sig = "haveRemoteOffer", !.remote = TRUE]
SetRemoteAnswer(c) == [c EXCEPT !.sig = "stable", !.remote = TRUE]

CreateOffer(c, k) == [c EXCEPT !.offer = k]
CreateAnswer(c, k) == [c EXCEPT !.answer = k]

\* The first local description starts the gathering of candidates.
StartGathering(c) ==
  [c EXCEPT !.gather = IF @ = "new" THEN "running" ELSE @]

CanSetLocalOffer(c, k) == c.sig = "stable" /\ c.offer = k
SetLocalOffer(c) ==
  StartGathering([c EXCEPT !.sig = "haveLocalOffer", !.local = c.offer])

CanSetLocalAnswer(c, k) == c.sig = "haveRemoteOffer" /\ c.answer = k
SetLocalAnswer(c) == StartGathering([c EXCEPT !.sig = "stable"])

CanAddCandidate(c) == Open(c) /\ c.remote

\* One handler per connection: a second promise takes the place of a first
\* that is still open.
GatheringCompletePromise(c, k) ==
  [c EXCEPT !.handler = k,
            !.fired = IF c.gather = "complete" THEN @ \cup {k} ELSE @]

GatheringComplete(c) ==
  [c EXCEPT !.gather = "complete",
            !.fired = IF c.handler = 0 THEN @ ELSE @ \cup {c.handler}]
=============================================================================
