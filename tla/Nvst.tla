--------------------------------- MODULE Nvst ---------------------------------
(***************************************************************************)
(* Signaling messages of gateway-go/internal/nvst.  A message is read from *)
(* the wire or built, edited, encoded, and read again by the next program. *)
(*                                                                         *)
(* A JSON value is a record with its kind.  A number is a float64 when it  *)
(* was decoded and an int when Go code put it there.  A string is a plain  *)
(* text or the encoding of an object, since peer_msg.msg is JSON in JSON.  *)
(* What may be missing is a set with at most one element.                  *)
(***************************************************************************)
EXTENDS Naturals

CONSTANTS
  Frames,       \* JSON objects that a remote end may send
  Payloads,     \* inner payloads the session builds
  Texts,        \* texts of SDPs, candidates and media ids
  PeerIds,
  Ackids,
  Indexes       \* media line indexes

InnerKeys == {"type", "sdp", "candidate", "sdpMid", "sdpMLineIndex"}

PeerMsgInner ==
  [type : {"", "offer", "answer", "candidate"},
   sdp : Texts, candidate : Texts, sdpMid : Texts, sdpMLineIndex : Indexes]

ASSUME NvstAssumption ==
  /\ "" \in Texts /\ 0 \in Indexes /\ Indexes \subseteq Nat
  /\ PeerIds \subseteq Nat /\ Ackids \subseteq Nat
  /\ Payloads \subseteq {p \in PeerMsgInner : p.type # ""}

Float(n) == [kind |-> "float64", num |-> n]
Int(n) == [kind |-> "int", num |-> n]
Text(s) == [kind |-> "text", text |-> s]
Json(f) == [kind |-> "json", of |-> f]
Object(f) == [kind |-> "object", of |-> f]

With(f, k, v) == [j \in DOMAIN f \cup {k} |-> IF j = k THEN v ELSE f[j]]
Is(f, k, kind) == k \in DOMAIN f /\ f[k].kind = kind

VARIABLES
  raw,       \* the message's map
  encoded,   \* the encoding cached by a builder, if any
  edited,    \* a setter ran since the message was built or read
  want       \* what its accessors should return

vars == <<raw, encoded, edited, want>>

-----------------------------------------------------------------------------
(* encoding/json on what the gateway gives it.                             *)

\* An int is written like any number.
Written(v) == IF v.kind = "int" THEN Float(v.num) ELSE v
MarshalMap(f) ==
  [k \in DOMAIN f |->
     IF f[k].kind = "object"
       THEN Object([j \in DOMAIN f[k].of |-> Written(f[k].of[j])])
       ELSE Written(f[k])]

Zero(k) == IF k = "sdpMLineIndex" THEN 0 ELSE ""
FieldKind(k) == IF k = "sdpMLineIndex" THEN "float64" ELSE "text"
FieldJson(k, v) == IF k = "sdpMLineIndex" THEN Float(v) ELSE Text(v)
FieldValue(k, v) == IF k = "sdpMLineIndex" THEN v.num ELSE v.text

\* omitempty: a zero field is left out; the type is always there.
MarshalInner(p) ==
  [k \in {"type"} \cup {j \in InnerKeys : p[j] # Zero(j)} |-> FieldJson(k, p[k])]

\* A field of another kind fails the whole decoding; one that is missing is zero.
UnmarshalInner(f) ==
  IF \A k \in DOMAIN f \cap InnerKeys : f[k].kind = FieldKind(k)
    THEN {[k \in InnerKeys |-> IF k \in DOMAIN f THEN FieldValue(k, f[k]) ELSE Zero(k)]}
    ELSE {}

-----------------------------------------------------------------------------
(* Accessors.                                                              *)

TextOf(f, k) == IF Is(f, k, "text") THEN f[k].text ELSE ""

\* Mutant: numbers are taken to come from the wire.
AsFloat(v) == IF v.kind = "float64" THEN v.num ELSE 0
AsInt(v) == IF v.kind \in {"float64", "int"} THEN v.num ELSE 0

IntOf(f, k) == IF k \in DOMAIN f THEN AsInt(f[k]) ELSE 0
Kind(f) ==
  IF TextOf(f, "type") \in {"offer", "answer", "candidate"} THEN TextOf(f, "type") ELSE "other"
IntsOf(f, k) == IF k \in DOMAIN f THEN {AsInt(f[k])} ELSE {}

\* IsAck, IsHeartbeat and PeerInfo.
Flags(f) ==
  (DOMAIN f \cap {"ack", "hb"})
    \cup {k \in {"peer_info"} : Is(f, k, "object")}

InnerOf(pm) ==
  IF Is(pm, "msg", "json")
    THEN {p \in UnmarshalInner(pm["msg"].of) : p["type"] # ""}
    ELSE {}

AsPeerMsg(f) ==
  IF Is(f, "peer_msg", "object")
    THEN LET pm == f["peer_msg"].of IN
         {[from |-> IntOf(pm, "from"), to |-> IntsOf(pm, "to"), inner |-> InnerOf(pm)]}
    ELSE {}

View(f) ==
  [kind |-> Kind(f), sdp |-> TextOf(f, "sdp"), candidate |-> TextOf(f, "candidate"),
   sdpMid |-> TextOf(f, "sdpMid"), sdpMLineIndex |-> IntOf(f, "sdpMLineIndex"),
   ackid |-> IntsOf(f, "ackid"), flags |-> Flags(f), peerMsg |-> AsPeerMsg(f)]

\* A message of the protocol, as nvst/*.go describes it: known keys, and a
\* payload that is encoded twice and has the fields of PeerMsgInner.
WellFormed(f) ==
  /\ DOMAIN f \subseteq {"type", "sdp", "candidate", "sdpMid", "sdpMLineIndex",
                         "ackid", "ack", "hb", "peer_info", "peer_msg"}
  /\ Is(f, "peer_msg", "object") /\ "msg" \in DOMAIN f["peer_msg"].of
       => f["peer_msg"].of["msg"].kind \in {"text", "json"}
  /\ \A pm \in AsPeerMsg(f) : pm.inner \subseteq PeerMsgInner

ASSUME FramesAssumption == \A f \in Frames : WellFormed(f)

\* The cached encoding wins.
Encode == IF encoded # {} THEN CHOOSE b \in encoded : TRUE ELSE MarshalMap(raw)

-----------------------------------------------------------------------------
(* Constructors.  Each says what the message is meant to read as.          *)

\* A typed frame, and one without a type, as the accessors return them.
Typed(kind, sdp, candidate, mid, index) ==
  [kind |-> kind, sdp |-> sdp, candidate |-> candidate, sdpMid |-> mid,
   sdpMLineIndex |-> index, ackid |-> {}, flags |-> {}, peerMsg |-> {}]
Untyped(ackid, flags, peerMsg) ==
  [kind |-> "other", sdp |-> "", candidate |-> "", sdpMid |-> "", sdpMLineIndex |-> 0,
   ackid |-> ackid, flags |-> flags, peerMsg |-> peerMsg]

Become(map, bytes, view) ==
  raw' = map /\ encoded' = bytes /\ edited' = FALSE /\ want' = view

Parse(f) == Become(f, {}, View(f))

NewOffer(sdp) ==
  Become([type |-> Text("offer"), sdp |-> Text(sdp)], {},
         Typed("offer", sdp, "", "", 0))

NewAnswer(sdp) ==
  Become([type |-> Text("answer"), sdp |-> Text(sdp)], {},
         Typed("answer", sdp, "", "", 0))

NewCandidate(c, mid, index) ==
  Become([type |-> Text("candidate"), candidate |-> Text(c), sdpMid |-> Text(mid),
          sdpMLineIndex |-> Int(index)], {},
         Typed("candidate", "", c, mid, index))

NewAck(ackid) == Become([ack |-> Int(ackid)], {}, Untyped({}, {"ack"}, {}))

Envelope(from, msg) == [from |-> Float(from), msg |-> Json(MarshalInner(msg))]

\* A number under omitempty: zero leaves the key out, and reads as missing.
WithNumber(f, k, n) == IF n = 0 THEN f ELSE With(f, k, Float(n))
ReadBack(n) == {n} \ {0}

\* Mutant: the cached encoding has no addressee.
NewPeerMsgWithoutTo(from, to, p) ==
  LET envelope == Envelope(from, p) IN
  Become([peer_msg |-> Object(WithNumber(envelope, "to", to))],
         {[peer_msg |-> Object(envelope)]},
         Untyped({}, {}, {[from |-> from, to |-> ReadBack(to), inner |-> {p}]}))

NewPeerMsgToKit(from, to, p) ==
  LET frame == [peer_msg |-> Object(WithNumber(Envelope(from, p), "to", to))] IN
  Become(frame, {frame},
         Untyped({}, {}, {[from |-> from, to |-> ReadBack(to), inner |-> {p}]}))

NewPeerMsgToBrowser(ackid, from, p) ==
  LET frame == WithNumber([peer_msg |-> Object(Envelope(from, p))], "ackid", ackid) IN
  Become(frame, {frame},
         Untyped(ReadBack(ackid), {}, {[from |-> from, to |-> {}, inner |-> {p}]}))

-----------------------------------------------------------------------------
(* Setters: none of them touches the cached encoding.                      *)

SetSDP(sdp) ==
  /\ raw' = With(raw, "sdp", Text(sdp))
  /\ want' = [want EXCEPT !.sdp = sdp]
  /\ edited' = TRUE /\ UNCHANGED encoded

SetCandidate(c) ==
  /\ raw' = With(raw, "candidate", Text(c))
  /\ want' = [want EXCEPT !.candidate = c]
  /\ edited' = TRUE /\ UNCHANGED encoded

\* Mutant: the payload is encoded once.
SetPeerMsgObject(p) ==
  /\ Is(raw, "peer_msg", "object")
  /\ raw' = With(raw, "peer_msg",
                 Object(With(raw["peer_msg"].of, "msg", Object(MarshalInner(p)))))
  /\ want' = [want EXCEPT !.peerMsg = {[pm EXCEPT !.inner = {p}] : pm \in @}]
  /\ edited' = TRUE /\ UNCHANGED encoded

\* It fails, without a change, on a message that carries no peer_msg.
SetPeerMsgInner(p) ==
  /\ Is(raw, "peer_msg", "object")
  /\ raw' = With(raw, "peer_msg",
                 Object(With(raw["peer_msg"].of, "msg", Json(MarshalInner(p)))))
  /\ want' = [want EXCEPT !.peerMsg = {[pm EXCEPT !.inner = {p}] : pm \in @}]
  /\ edited' = TRUE /\ UNCHANGED encoded

\* The encoding is older than the message.
Stale == encoded # {} /\ edited

\* The message is encoded, sent, and read by the next program.
Hop ==
  /\ raw' = Encode /\ encoded' = {} /\ edited' = FALSE
  /\ want' = IF Stale THEN View(raw') ELSE want

Receive == \E f \in Frames : Parse(f)
Build ==
  \/ \E s \in Texts : NewOffer(s) \/ NewAnswer(s)
  \/ \E c, mid \in Texts, i \in Indexes : NewCandidate(c, mid, i)
  \/ \E n \in Ackids : NewAck(n)
  \/ \E p \in Payloads, from, to \in PeerIds : NewPeerMsgToKit(from, to, p)
  \/ \E p \in Payloads, n \in Ackids, from \in PeerIds : NewPeerMsgToBrowser(n, from, p)
Set ==
  \/ \E s \in Texts : SetSDP(s) \/ SetCandidate(s)
  \/ \E p \in Payloads : SetPeerMsgInner(p)

Init ==
  \E f \in Frames : raw = f /\ encoded = {} /\ edited = FALSE /\ want = View(f)

Next == Receive \/ Build \/ Set \/ Hop

Spec == Init /\ [][Next]_vars

-----------------------------------------------------------------------------
(* Properties.                                                             *)

\* The type invariant, with the double encoding: peer_msg.msg is a string in
\* the message and in its cached encoding.
TypeOK ==
  /\ \A f \in {raw} \cup encoded : WellFormed(f)
  /\ \A pm \in want.peerMsg : pm.inner \subseteq PeerMsgInner
  /\ edited \in BOOLEAN

\* envelope.go:62-119, peer_msg.go:52-138.  Every accessor returns what the
\* constructor or the last setter was given, whether the message was decoded
\* or built in memory.  What omitempty leaves out comes back as zero from the
\* payload, and as missing, not as zero, where it was an addressee or an ackid
\* (peer_msg.go:200 and 205): the zero a session starts with reads as no one.
ReadsAsSet == View(raw) = want

\* envelope.go:121-129.  The next program reads what this one reads, unless a
\* setter ran on a message with a cached encoding, which no caller does.
SentAsRead == Stale \/ View(Encode) = want
=============================================================================
