------------------------------ MODULE NvstProofs ------------------------------
(***************************************************************************)
(* Proofs about Nvst, for any texts, ids and indexes, and any well-formed  *)
(* frames: what a payload, a message and its encoding read as.             *)
(***************************************************************************)
EXTENDS Nvst, TLAPS

-----------------------------------------------------------------------------
(* Payloads.                                                               *)

\* peer_msg.go:33-39.  What omitempty leaves out of a payload comes back when
\* it is decoded: encoding and decoding a payload gives that payload.
THEOREM InnerRoundTrip ==
  ASSUME NEW p \in PeerMsgInner
  PROVE  UnmarshalInner(MarshalInner(p)) = {p}
<1> DEFINE f == MarshalInner(p)
           q == [k \in InnerKeys |->
                   IF k \in DOMAIN f THEN FieldValue(k, f[k]) ELSE Zero(k)]
<1>1. DOMAIN f = {"type"} \cup {j \in InnerKeys : p[j] # Zero(j)}
  BY DEF MarshalInner
<1>2. \A k \in DOMAIN f : f[k] = FieldJson(k, p[k])
  BY DEF MarshalInner
<1>3. \A k \in DOMAIN f \cap InnerKeys : f[k].kind = FieldKind(k)
  BY <1>2 DEF FieldJson, FieldKind, Float, Text
<1>4. \A k \in InnerKeys : k \in DOMAIN f => FieldValue(k, f[k]) = p[k]
  BY <1>2 DEF FieldJson, FieldValue, Float, Text
<1>5. \A k \in InnerKeys : k \notin DOMAIN f => p[k] = Zero(k)
  BY <1>1
<1>6. p = [k \in InnerKeys |-> p[k]]
  BY DEF PeerMsgInner, InnerKeys
<1>7. q = [k \in InnerKeys |-> p[k]]
  BY <1>4, <1>5
<1>8. UnmarshalInner(f) = {q}
  BY <1>3 DEF UnmarshalInner
<1> QED
  BY <1>6, <1>7, <1>8

LEMMA OwnPayload ==
  ASSUME NEW p \in Payloads
  PROVE  /\ p \in PeerMsgInner
         /\ {q \in UnmarshalInner(MarshalInner(p)) : q["type"] # ""} = {p}
<1>1. p \in PeerMsgInner /\ p.type # ""
  BY NvstAssumption
<1>2. UnmarshalInner(MarshalInner(p)) = {p}
  BY <1>1, InnerRoundTrip
<1> QED BY <1>1, <1>2

-----------------------------------------------------------------------------
(* Encoding a map: the accessors read the same afterwards.                 *)

LEMMA WrittenReads ==
  ASSUME NEW v
  PROVE  /\ AsInt(Written(v)) = AsInt(v)
         /\ Written(v).kind = "text" <=> v.kind = "text"
         /\ Written(v).kind = "json" <=> v.kind = "json"
         /\ Written(v).kind = "object" <=> v.kind = "object"
         /\ v.kind \in {"text", "json", "object"} => Written(v) = v
BY DEF AsInt, Written, Float

LEMMA MarshalledPlain ==
  ASSUME NEW f, NEW k, k \in DOMAIN f, f[k].kind # "object"
  PROVE  k \in DOMAIN MarshalMap(f) /\ MarshalMap(f)[k] = Written(f[k])
BY DEF MarshalMap

LEMMA MarshalledObject ==
  ASSUME NEW f, NEW k, k \in DOMAIN f, f[k].kind = "object"
  PROVE  /\ k \in DOMAIN MarshalMap(f)
         /\ MarshalMap(f)[k].kind = "object"
BY DEF MarshalMap, Object

LEMMA MarshalledReads ==
  ASSUME NEW f, NEW k
  PROVE  /\ TextOf(MarshalMap(f), k) = TextOf(f, k)
         /\ IntOf(MarshalMap(f), k) = IntOf(f, k)
         /\ IntsOf(MarshalMap(f), k) = IntsOf(f, k)
         /\ Is(MarshalMap(f), k, "object") <=> Is(f, k, "object")
<1> DEFINE g == MarshalMap(f)
<1>1. CASE k \notin DOMAIN f
  <2>1. k \notin DOMAIN g
    BY <1>1 DEF MarshalMap
  <2> QED BY <1>1, <2>1 DEF TextOf, IntOf, IntsOf, Is
<1>2. CASE k \in DOMAIN f /\ f[k].kind = "object"
  <2>1. k \in DOMAIN g /\ g[k].kind = "object"
    BY <1>2, MarshalledObject
  <2> HIDE DEF g
  <2>2. /\ TextOf(g, k) = TextOf(f, k) /\ IntOf(g, k) = IntOf(f, k)
        /\ IntsOf(g, k) = IntsOf(f, k)
        /\ Is(g, k, "object") <=> Is(f, k, "object")
    BY <1>2, <2>1 DEF TextOf, IntOf, IntsOf, Is, AsInt
  <2> QED BY <2>2 DEF g
<1>3. CASE k \in DOMAIN f /\ f[k].kind # "object"
  <2> DEFINE w == Written(f[k])
  <2>1. k \in DOMAIN g /\ g[k] = w
    BY <1>3, MarshalledPlain
  <2>2. /\ AsInt(w) = AsInt(f[k])
        /\ w.kind = "text" <=> f[k].kind = "text"
        /\ f[k].kind = "text" => w = f[k]
        /\ w.kind # "object"
    BY <1>3, WrittenReads
  <2> HIDE DEF g, w
  <2>3. /\ TextOf(g, k) = TextOf(f, k) /\ IntOf(g, k) = IntOf(f, k)
        /\ IntsOf(g, k) = IntsOf(f, k)
        /\ Is(g, k, "object") <=> Is(f, k, "object")
    BY <1>3, <2>1, <2>2 DEF TextOf, IntOf, IntsOf, Is
  <2> QED BY <2>3 DEF g
<1> QED BY <1>1, <1>2, <1>3

LEMMA MarshalledPeerMsg ==
  ASSUME NEW f
  PROVE  AsPeerMsg(MarshalMap(f)) = AsPeerMsg(f)
<1>1. CASE ~Is(f, "peer_msg", "object")
  BY <1>1, MarshalledReads DEF AsPeerMsg
<1>2. CASE Is(f, "peer_msg", "object")
  <2> DEFINE pm == f["peer_msg"].of
             qm == [j \in DOMAIN pm |-> Written(pm[j])]
  <2>1. Is(MarshalMap(f), "peer_msg", "object") /\ MarshalMap(f)["peer_msg"].of = qm
    BY <1>2 DEF MarshalMap, Object, Is
  <2>2. DOMAIN qm = DOMAIN pm /\ \A j \in DOMAIN pm : qm[j] = Written(pm[j])
    OBVIOUS
  <2> HIDE DEF qm
  <2>3. IntOf(qm, "from") = IntOf(pm, "from") /\ IntsOf(qm, "to") = IntsOf(pm, "to")
    BY <2>2, WrittenReads DEF IntOf, IntsOf
  <2>4. Is(qm, "msg", "json") <=> Is(pm, "msg", "json")
    BY <2>2, WrittenReads DEF Is
  <2>5. Is(pm, "msg", "json") => qm["msg"] = pm["msg"]
    BY <2>2, WrittenReads DEF Is
  <2>6. InnerOf(qm) = InnerOf(pm)
    BY <2>4, <2>5 DEF InnerOf
  <2> QED BY <1>2, <2>1, <2>2, <2>3, <2>6 DEF AsPeerMsg
<1> QED BY <1>1, <1>2

LEMMA MarshalledView ==
  ASSUME NEW f
  PROVE  View(MarshalMap(f)) = View(f)
<1> DEFINE g == MarshalMap(f)
<1>1. /\ TextOf(g, "type") = TextOf(f, "type")
      /\ TextOf(g, "sdp") = TextOf(f, "sdp")
      /\ TextOf(g, "candidate") = TextOf(f, "candidate")
      /\ TextOf(g, "sdpMid") = TextOf(f, "sdpMid")
      /\ IntOf(g, "sdpMLineIndex") = IntOf(f, "sdpMLineIndex")
      /\ IntsOf(g, "ackid") = IntsOf(f, "ackid")
      /\ Is(g, "peer_info", "object") <=> Is(f, "peer_info", "object")
  BY MarshalledReads
<1>2. DOMAIN g = DOMAIN f
  BY DEF MarshalMap
<1>3. AsPeerMsg(g) = AsPeerMsg(f)
  BY MarshalledPeerMsg
<1> HIDE DEF g
<1>4. Kind(g) = Kind(f) /\ Flags(g) = Flags(f)
  BY <1>1, <1>2 DEF Kind, Flags
<1>5. View(g) = View(f)
  BY <1>1, <1>3, <1>4 DEF View
<1> QED BY <1>5 DEF g

LEMMA MarshalledWellFormed ==
  ASSUME NEW f, WellFormed(f)
  PROVE  WellFormed(MarshalMap(f))
<1>1. DOMAIN MarshalMap(f) = DOMAIN f
  BY DEF MarshalMap
<1>2. AsPeerMsg(MarshalMap(f)) = AsPeerMsg(f)
  BY MarshalledPeerMsg
<1>3. ASSUME Is(f, "peer_msg", "object"), "msg" \in DOMAIN MarshalMap(f)["peer_msg"].of
      PROVE  MarshalMap(f)["peer_msg"].of["msg"].kind \in {"text", "json"}
  <2> DEFINE pm == f["peer_msg"].of
  <2>1. MarshalMap(f)["peer_msg"].of = [j \in DOMAIN pm |-> Written(pm[j])]
    BY <1>3 DEF MarshalMap, Object, Is
  <2>2. "msg" \in DOMAIN pm /\ pm["msg"].kind \in {"text", "json"}
    BY <1>3, <2>1 DEF WellFormed
  <2> QED BY <2>1, <2>2, WrittenReads
<1> QED BY <1>1, <1>2, <1>3, MarshalledReads DEF WellFormed

-----------------------------------------------------------------------------
(* Setters: they change what one accessor returns.                         *)

LEMMA WithReads ==
  ASSUME NEW f, NEW k, NEW v, NEW j, j # k
  PROVE  /\ TextOf(With(f, k, v), j) = TextOf(f, j)
         /\ IntOf(With(f, k, v), j) = IntOf(f, j)
         /\ IntsOf(With(f, k, v), j) = IntsOf(f, j)
         /\ Is(With(f, k, v), j, "object") <=> Is(f, j, "object")
         /\ j \in DOMAIN With(f, k, v) <=> j \in DOMAIN f
         /\ j \in DOMAIN f => With(f, k, v)[j] = f[j]
<1> DEFINE g == With(f, k, v)
<1>1. /\ j \in DOMAIN g <=> j \in DOMAIN f
      /\ j \in DOMAIN f => g[j] = f[j]
  BY DEF With
<1> HIDE DEF g
<1>2. /\ TextOf(g, j) = TextOf(f, j)
      /\ IntOf(g, j) = IntOf(f, j)
      /\ IntsOf(g, j) = IntsOf(f, j)
      /\ Is(g, j, "object") <=> Is(f, j, "object")
  BY <1>1 DEF TextOf, IntOf, IntsOf, Is
<1> QED BY <1>1, <1>2 DEF g

LEMMA WithFlags ==
  ASSUME NEW f, NEW k, NEW v, k \notin {"ack", "hb", "peer_info"}
  PROVE  Flags(With(f, k, v)) = Flags(f)
<1> DEFINE g == With(f, k, v)
<1>1. /\ "ack" \in DOMAIN g <=> "ack" \in DOMAIN f
      /\ "hb" \in DOMAIN g <=> "hb" \in DOMAIN f
      /\ Is(g, "peer_info", "object") <=> Is(f, "peer_info", "object")
  BY WithReads
<1> HIDE DEF g
<1>2. Flags(g) = Flags(f)
  BY <1>1 DEF Flags
<1> QED BY <1>2 DEF g

LEMMA WithPeerMsg ==
  ASSUME NEW f, NEW k, NEW v, k # "peer_msg"
  PROVE  AsPeerMsg(With(f, k, v)) = AsPeerMsg(f)
<1> DEFINE g == With(f, k, v)
<1>1. /\ Is(g, "peer_msg", "object") <=> Is(f, "peer_msg", "object")
      /\ "peer_msg" \in DOMAIN f => g["peer_msg"] = f["peer_msg"]
  BY WithReads
<1> HIDE DEF g
<1>2. Is(f, "peer_msg", "object") => "peer_msg" \in DOMAIN f
  BY DEF Is
<1>3. AsPeerMsg(g) = AsPeerMsg(f)
  BY <1>1, <1>2 DEF AsPeerMsg
<1> QED BY <1>3 DEF g

LEMMA WithText ==
  ASSUME NEW f, NEW k, NEW s
  PROVE  TextOf(With(f, k, Text(s)), k) = s
<1> DEFINE v == Text(s)
           g == With(f, k, v)
<1>1. v.kind = "text" /\ v.text = s
  BY DEF Text
<1> HIDE DEF v
<1>2. k \in DOMAIN g /\ g[k] = v
  BY DEF With
<1> HIDE DEF g
<1>3. TextOf(g, k) = s
  BY <1>1, <1>2 DEF TextOf, Is
<1> QED BY <1>3 DEF g, v

LEMMA ViewWithSDP ==
  ASSUME NEW f, NEW s
  PROVE  View(With(f, "sdp", Text(s))) = [View(f) EXCEPT !.sdp = s]
<1> DEFINE v == Text(s)
           g == With(f, "sdp", v)
<1>1. /\ TextOf(g, "type") = TextOf(f, "type")
      /\ TextOf(g, "candidate") = TextOf(f, "candidate")
      /\ TextOf(g, "sdpMid") = TextOf(f, "sdpMid")
      /\ IntOf(g, "sdpMLineIndex") = IntOf(f, "sdpMLineIndex")
      /\ IntsOf(g, "ackid") = IntsOf(f, "ackid")
  BY WithReads
<1>2. AsPeerMsg(g) = AsPeerMsg(f)
  BY WithPeerMsg
<1>3. TextOf(g, "sdp") = s
  BY WithText
<1>4. Flags(g) = Flags(f)
  BY WithFlags
<1> HIDE DEF g
<1>5. Kind(g) = Kind(f)
  BY <1>1 DEF Kind
<1>6. View(g) = [View(f) EXCEPT !.sdp = s]
  BY <1>1, <1>2, <1>3, <1>4, <1>5 DEF View
<1> QED BY <1>6 DEF g

LEMMA ViewWithCandidate ==
  ASSUME NEW f, NEW s
  PROVE  View(With(f, "candidate", Text(s))) = [View(f) EXCEPT !.candidate = s]
<1> DEFINE v == Text(s)
           g == With(f, "candidate", v)
<1>1. /\ TextOf(g, "type") = TextOf(f, "type")
      /\ TextOf(g, "sdp") = TextOf(f, "sdp")
      /\ TextOf(g, "sdpMid") = TextOf(f, "sdpMid")
      /\ IntOf(g, "sdpMLineIndex") = IntOf(f, "sdpMLineIndex")
      /\ IntsOf(g, "ackid") = IntsOf(f, "ackid")
  BY WithReads
<1>2. AsPeerMsg(g) = AsPeerMsg(f)
  BY WithPeerMsg
<1>3. TextOf(g, "candidate") = s
  BY WithText
<1>4. Flags(g) = Flags(f)
  BY WithFlags
<1> HIDE DEF g
<1>5. Kind(g) = Kind(f)
  BY <1>1 DEF Kind
<1>6. View(g) = [View(f) EXCEPT !.candidate = s]
  BY <1>1, <1>2, <1>3, <1>4, <1>5 DEF View
<1> QED BY <1>6 DEF g

\* The payload a message carries is the one that was set last.
LEMMA InnerOfEncoded ==
  ASSUME NEW pm, NEW p \in Payloads,
         "msg" \in DOMAIN pm, pm["msg"] = Json(MarshalInner(p))
  PROVE  InnerOf(pm) = {p}
<1> DEFINE f == MarshalInner(p)
<1>1. {q \in UnmarshalInner(f) : q["type"] # ""} = {p}
  BY OwnPayload
<1> HIDE DEF f
<1>2. Is(pm, "msg", "json") /\ pm["msg"].of = f
  BY DEF Is, Json, f
<1> QED BY <1>1, <1>2 DEF InnerOf

LEMMA SetInner ==
  ASSUME NEW f, Is(f, "peer_msg", "object"), NEW p \in Payloads
  PROVE  AsPeerMsg(With(f, "peer_msg",
                        Object(With(f["peer_msg"].of, "msg", Json(MarshalInner(p))))))
           = {[pm EXCEPT !.inner = {p}] : pm \in AsPeerMsg(f)}
<1> DEFINE pm == f["peer_msg"].of
           v == Json(MarshalInner(p))
           qm == With(pm, "msg", v)
           g == With(f, "peer_msg", Object(qm))
           r == [from |-> IntOf(pm, "from"), to |-> IntsOf(pm, "to"),
                 inner |-> InnerOf(pm)]
<1>1. AsPeerMsg(f) = {r}
  BY DEF AsPeerMsg
<1>2. "msg" \in DOMAIN qm /\ qm["msg"] = v
  <2> HIDE DEF v
  <2> QED BY DEF With
<1>3. InnerOf(qm) = {p}
  BY <1>2, InnerOfEncoded
<1>4. IntOf(qm, "from") = IntOf(pm, "from") /\ IntsOf(qm, "to") = IntsOf(pm, "to")
  BY WithReads
<1> HIDE DEF qm
<1>6. Is(g, "peer_msg", "object") /\ g["peer_msg"].of = qm
  BY DEF With, Is, Object
<1> HIDE DEF g
<1>7. AsPeerMsg(g) = {[from |-> IntOf(qm, "from"), to |-> IntsOf(qm, "to"),
                       inner |-> InnerOf(qm)]}
  BY <1>6 DEF AsPeerMsg
<1>8. [from |-> IntOf(qm, "from"), to |-> IntsOf(qm, "to"),
       inner |-> InnerOf(qm)] = [r EXCEPT !.inner = {p}]
  BY <1>3, <1>4
<1> HIDE DEF r
<1>9. AsPeerMsg(g) = {[x EXCEPT !.inner = {p}] : x \in AsPeerMsg(f)}
  BY <1>1, <1>7, <1>8
<1> QED BY <1>9 DEF g, qm

LEMMA ViewWithInner ==
  ASSUME NEW f, Is(f, "peer_msg", "object"), NEW p \in Payloads
  PROVE  View(With(f, "peer_msg",
                   Object(With(f["peer_msg"].of, "msg", Json(MarshalInner(p))))))
           = [View(f) EXCEPT !.peerMsg = {[pm EXCEPT !.inner = {p}] : pm \in @}]
<1> DEFINE v == Object(With(f["peer_msg"].of, "msg", Json(MarshalInner(p))))
           g == With(f, "peer_msg", v)
           new == {[pm EXCEPT !.inner = {p}] : pm \in AsPeerMsg(f)}
<1>1. AsPeerMsg(g) = new
  BY SetInner
<1> HIDE DEF v, new
<1>2. /\ TextOf(g, "type") = TextOf(f, "type")
      /\ TextOf(g, "sdp") = TextOf(f, "sdp")
      /\ TextOf(g, "candidate") = TextOf(f, "candidate")
      /\ TextOf(g, "sdpMid") = TextOf(f, "sdpMid")
      /\ IntOf(g, "sdpMLineIndex") = IntOf(f, "sdpMLineIndex")
      /\ IntsOf(g, "ackid") = IntsOf(f, "ackid")
  BY WithReads
<1>3. Flags(g) = Flags(f)
  BY WithFlags
<1> HIDE DEF g
<1>4. Kind(g) = Kind(f)
  BY <1>2 DEF Kind
<1>5. View(g) = [View(f) EXCEPT !.peerMsg = new]
  BY <1>1, <1>2, <1>3, <1>4 DEF View
<1>6. View(f).peerMsg = AsPeerMsg(f)
  BY DEF View
<1> QED BY <1>5, <1>6 DEF g, v, new

-----------------------------------------------------------------------------
(* Constructors: a new message reads as its arguments.                     *)

LEMMA ViewOfText ==
  ASSUME NEW s, NEW kind \in {"offer", "answer"}
  PROVE  View([type |-> Text(kind), sdp |-> Text(s)])
           = Typed(kind, s, "", "", 0)
<1> DEFINE f == [type |-> Text(kind), sdp |-> Text(s)]
<1>1. /\ TextOf(f, "type") = kind /\ TextOf(f, "sdp") = s
      /\ TextOf(f, "candidate") = "" /\ TextOf(f, "sdpMid") = ""
      /\ IntOf(f, "sdpMLineIndex") = 0 /\ IntsOf(f, "ackid") = {}
  BY DEF TextOf, IntOf, IntsOf, Is, Text
<1>2. Flags(f) = {} /\ AsPeerMsg(f) = {}
  BY DEF Flags, AsPeerMsg, Is
<1> HIDE DEF f
<1>3. Kind(f) = kind
  BY <1>1 DEF Kind
<1>4. View(f) = Typed(kind, s, "", "", 0)
  BY <1>1, <1>2, <1>3 DEF View, Typed
<1> QED BY <1>4 DEF f

LEMMA ViewOfCandidate ==
  ASSUME NEW c, NEW mid, NEW i
  PROVE  View([type |-> Text("candidate"), candidate |-> Text(c), sdpMid |-> Text(mid),
               sdpMLineIndex |-> Int(i)])
           = Typed("candidate", "", c, mid, i)
<1> DEFINE f == [type |-> Text("candidate"), candidate |-> Text(c), sdpMid |-> Text(mid),
                 sdpMLineIndex |-> Int(i)]
<1>1. /\ TextOf(f, "type") = "candidate" /\ TextOf(f, "candidate") = c
      /\ TextOf(f, "sdpMid") = mid /\ TextOf(f, "sdp") = ""
  BY DEF TextOf, Is, Text
<1>2. IntOf(f, "sdpMLineIndex") = i /\ IntsOf(f, "ackid") = {}
  BY DEF IntOf, IntsOf, AsInt, Int
<1>3. Flags(f) = {} /\ AsPeerMsg(f) = {}
  BY DEF Flags, AsPeerMsg, Is
<1> HIDE DEF f
<1>4. Kind(f) = "candidate"
  BY <1>1 DEF Kind
<1>5. View(f) = Typed("candidate", "", c, mid, i)
  BY <1>1, <1>2, <1>3, <1>4 DEF View, Typed
<1> QED BY <1>5 DEF f

LEMMA ViewOfAck ==
  ASSUME NEW n
  PROVE  View([ack |-> Int(n)]) = Untyped({}, {"ack"}, {})
<1> DEFINE f == [ack |-> Int(n)]
<1>1. /\ TextOf(f, "type") = "" /\ TextOf(f, "sdp") = "" /\ TextOf(f, "candidate") = ""
      /\ TextOf(f, "sdpMid") = "" /\ IntOf(f, "sdpMLineIndex") = 0
      /\ IntsOf(f, "ackid") = {}
  BY DEF TextOf, IntOf, IntsOf, Is
<1>2. Flags(f) = {"ack"} /\ AsPeerMsg(f) = {}
  BY DEF Flags, AsPeerMsg, Is
<1> HIDE DEF f
<1>3. Kind(f) = "other"
  BY <1>1 DEF Kind
<1>4. View(f) = Untyped({}, {"ack"}, {})
  BY <1>1, <1>2, <1>3 DEF View, Untyped
<1> QED BY <1>4 DEF f

\* What a builder puts into peer_msg.
LEMMA EnvelopeReads ==
  ASSUME NEW from, NEW p \in Payloads
  PROVE  /\ IntOf(Envelope(from, p), "from") = from
         /\ IntsOf(Envelope(from, p), "to") = {}
         /\ InnerOf(Envelope(from, p)) = {p}
<1> DEFINE m == Json(MarshalInner(p))
           e == [from |-> Float(from), msg |-> m]
<1>1. IntOf(e, "from") = from /\ IntsOf(e, "to") = {}
  BY DEF IntOf, IntsOf, AsInt, Float
<1>2. "msg" \in DOMAIN e /\ e["msg"] = m
  OBVIOUS
<1> HIDE DEF e
<1>3. InnerOf(e) = {p}
  BY <1>2, InnerOfEncoded
<1> QED BY <1>1, <1>3 DEF e, Envelope

\* A number under omitempty is there unless it is zero, and nothing else moves.
LEMMA NumberReads ==
  ASSUME NEW f, NEW k, k \notin DOMAIN f, NEW n
  PROVE  /\ IntsOf(WithNumber(f, k, n), k) = ReadBack(n)
         /\ DOMAIN f \subseteq DOMAIN WithNumber(f, k, n)
         /\ DOMAIN WithNumber(f, k, n) \subseteq DOMAIN f \cup {k}
         /\ \A j \in DOMAIN f : WithNumber(f, k, n)[j] = f[j]
<1>1. CASE n = 0
  BY <1>1 DEF WithNumber, IntsOf, ReadBack
<1>2. CASE n # 0
  <2> DEFINE g == With(f, k, Float(n))
  <2>1. WithNumber(f, k, n) = g
    BY <1>2 DEF WithNumber
  <2>2. /\ DOMAIN g = DOMAIN f \cup {k} /\ g[k] = Float(n)
        /\ \A j \in DOMAIN f : g[j] = f[j]
    BY DEF With
  <2> HIDE DEF g
  <2>3. IntsOf(g, k) = {n}
    BY <2>2 DEF IntsOf, AsInt, Float
  <2> QED BY <1>2, <2>1, <2>2, <2>3 DEF ReadBack
<1> QED BY <1>1, <1>2

\* The envelope with its addressee, if it has one.
LEMMA AddressedReads ==
  ASSUME NEW from, NEW to, NEW p \in Payloads
  PROVE  LET pm == WithNumber(Envelope(from, p), "to", to) IN
         /\ IntOf(pm, "from") = from /\ IntsOf(pm, "to") = ReadBack(to)
         /\ "msg" \in DOMAIN pm /\ pm["msg"] = Json(MarshalInner(p))
<1> DEFINE e == Envelope(from, p)
           pm == WithNumber(e, "to", to)
<1>1. /\ DOMAIN e = {"from", "msg"} /\ e["from"] = Float(from)
      /\ e["msg"] = Json(MarshalInner(p))
  BY DEF Envelope
<1> HIDE DEF e
<1>2. /\ IntsOf(pm, "to") = ReadBack(to) /\ DOMAIN e \subseteq DOMAIN pm
      /\ \A j \in DOMAIN e : pm[j] = e[j]
  BY <1>1, NumberReads
<1> HIDE DEF pm
<1>3. IntOf(pm, "from") = from
  BY <1>1, <1>2 DEF IntOf, AsInt, Float
<1> QED BY <1>1, <1>2, <1>3 DEF pm, e

LEMMA ViewToKit ==
  ASSUME NEW from, NEW to, NEW p \in Payloads
  PROVE  View([peer_msg |-> Object(WithNumber(Envelope(from, p), "to", to))])
           = Untyped({}, {}, {[from |-> from, to |-> ReadBack(to), inner |-> {p}]})
<1> DEFINE pm == WithNumber(Envelope(from, p), "to", to)
           f == [peer_msg |-> Object(pm)]
<1>1. /\ IntOf(pm, "from") = from /\ IntsOf(pm, "to") = ReadBack(to)
      /\ "msg" \in DOMAIN pm /\ pm["msg"] = Json(MarshalInner(p))
  BY AddressedReads
<1> HIDE DEF pm
<1>2. InnerOf(pm) = {p}
  BY <1>1, InnerOfEncoded
<1>3. AsPeerMsg(f) = {[from |-> from, to |-> ReadBack(to), inner |-> {p}]}
  <2>1. Is(f, "peer_msg", "object") /\ f["peer_msg"].of = pm
    BY DEF Is, Object
  <2> HIDE DEF f
  <2> QED BY <1>1, <1>2, <2>1 DEF AsPeerMsg
<1>4. /\ TextOf(f, "type") = "" /\ TextOf(f, "sdp") = "" /\ TextOf(f, "candidate") = ""
      /\ TextOf(f, "sdpMid") = "" /\ IntOf(f, "sdpMLineIndex") = 0
      /\ IntsOf(f, "ackid") = {} /\ Flags(f) = {}
  BY DEF TextOf, IntOf, IntsOf, Is, Flags
<1> HIDE DEF f
<1>5. Kind(f) = "other"
  BY <1>4 DEF Kind
<1>6. View(f) = Untyped({}, {}, {[from |-> from, to |-> ReadBack(to), inner |-> {p}]})
  BY <1>3, <1>4, <1>5 DEF View, Untyped
<1> QED BY <1>6 DEF f, pm

\* The frame for the browser has no key besides its ackid and its peer_msg.
LEMMA NumberedFrame ==
  ASSUME NEW n, NEW pm
  PROVE  LET f == WithNumber([peer_msg |-> Object(pm)], "ackid", n) IN
         /\ DOMAIN f \subseteq {"ackid", "peer_msg"} /\ "peer_msg" \in DOMAIN f
         /\ f["peer_msg"] = Object(pm) /\ IntsOf(f, "ackid") = ReadBack(n)
<1> DEFINE g == [peer_msg |-> Object(pm)]
<1>1. DOMAIN g = {"peer_msg"} /\ g["peer_msg"] = Object(pm)
  OBVIOUS
<1> HIDE DEF g
<1> QED BY <1>1, NumberReads DEF g

LEMMA ViewToBrowser ==
  ASSUME NEW n, NEW from, NEW p \in Payloads
  PROVE  View(WithNumber([peer_msg |-> Object(Envelope(from, p))], "ackid", n))
           = Untyped(ReadBack(n), {}, {[from |-> from, to |-> {}, inner |-> {p}]})
<1> DEFINE pm == Envelope(from, p)
           f == WithNumber([peer_msg |-> Object(pm)], "ackid", n)
<1>1. IntOf(pm, "from") = from /\ IntsOf(pm, "to") = {} /\ InnerOf(pm) = {p}
  BY EnvelopeReads
<1> HIDE DEF pm
<1>2. /\ DOMAIN f \subseteq {"ackid", "peer_msg"} /\ "peer_msg" \in DOMAIN f
      /\ f["peer_msg"] = Object(pm) /\ IntsOf(f, "ackid") = ReadBack(n)
  BY NumberedFrame
<1> HIDE DEF f
<1>3. AsPeerMsg(f) = {[from |-> from, to |-> {}, inner |-> {p}]}
  <2>1. Is(f, "peer_msg", "object") /\ f["peer_msg"].of = pm
    BY <1>2 DEF Is, Object
  <2> QED BY <1>1, <2>1 DEF AsPeerMsg
<1>4. /\ TextOf(f, "type") = "" /\ TextOf(f, "sdp") = "" /\ TextOf(f, "candidate") = ""
      /\ TextOf(f, "sdpMid") = "" /\ IntOf(f, "sdpMLineIndex") = 0
      /\ Flags(f) = {}
  BY <1>2 DEF TextOf, IntOf, Is, Flags
<1>5. Kind(f) = "other"
  BY <1>4 DEF Kind
<1>6. View(f) = Untyped(ReadBack(n), {}, {[from |-> from, to |-> {}, inner |-> {p}]})
  BY <1>2, <1>3, <1>4, <1>5 DEF View, Untyped
<1> QED BY <1>6 DEF f, pm

-----------------------------------------------------------------------------
(* Well-formed messages.                                                   *)

LEMMA WithTextWellFormed ==
  ASSUME NEW f, WellFormed(f), NEW k \in {"sdp", "candidate"}, NEW v
  PROVE  WellFormed(With(f, k, v))
<1> DEFINE g == With(f, k, v)
<1>1. AsPeerMsg(g) = AsPeerMsg(f)
  BY WithPeerMsg
<1>2. /\ Is(g, "peer_msg", "object") <=> Is(f, "peer_msg", "object")
      /\ "peer_msg" \in DOMAIN f => g["peer_msg"] = f["peer_msg"]
  BY WithReads
<1>3. DOMAIN g = DOMAIN f \cup {k}
  BY DEF With
<1> HIDE DEF g
<1>4. Is(f, "peer_msg", "object") => "peer_msg" \in DOMAIN f
  BY DEF Is
<1>5. WellFormed(g)
  BY <1>1, <1>2, <1>3, <1>4 DEF WellFormed
<1> QED BY <1>5 DEF g

LEMMA WithInnerWellFormed ==
  ASSUME NEW f, WellFormed(f), Is(f, "peer_msg", "object"), NEW p \in Payloads
  PROVE  WellFormed(With(f, "peer_msg",
                         Object(With(f["peer_msg"].of, "msg", Json(MarshalInner(p))))))
<1> DEFINE m == Json(MarshalInner(p))
           qm == With(f["peer_msg"].of, "msg", m)
           g == With(f, "peer_msg", Object(qm))
<1>1. AsPeerMsg(g) = {[pm EXCEPT !.inner = {p}] : pm \in AsPeerMsg(f)}
  BY SetInner
<1>2. m.kind = "json"
  BY DEF Json
<1> HIDE DEF m
<1>3. "msg" \in DOMAIN qm /\ qm["msg"] = m
  BY DEF With
<1> HIDE DEF qm
<1>4. DOMAIN g = DOMAIN f \cup {"peer_msg"} /\ g["peer_msg"].of = qm
  BY DEF With, Object
<1> HIDE DEF g
<1>5. \A pm \in AsPeerMsg(g) : pm.inner = {p}
  <2>1. \A pm \in AsPeerMsg(f) : [pm EXCEPT !.inner = {p}].inner = {p}
    BY DEF AsPeerMsg
  <2> QED BY <1>1, <2>1
<1>6. p \in PeerMsgInner
  BY OwnPayload
<1>7. WellFormed(g)
  BY <1>2, <1>3, <1>4, <1>5, <1>6 DEF WellFormed
<1> QED BY <1>7 DEF g, qm, m

LEMMA NewWellFormed ==
  /\ \A v, w : WellFormed([type |-> v, sdp |-> w])
  /\ \A v, c, mid, i :
       WellFormed([type |-> v, candidate |-> c, sdpMid |-> mid, sdpMLineIndex |-> i])
  /\ \A v : WellFormed([ack |-> v])
BY DEF WellFormed, Is, AsPeerMsg

LEMMA UntypedPeerMsg ==
  ASSUME NEW ackid, NEW flags, NEW peerMsg
  PROVE  Untyped(ackid, flags, peerMsg).peerMsg = peerMsg
BY DEF Untyped

LEMMA ToKitWellFormed ==
  ASSUME NEW from, NEW to, NEW p \in Payloads
  PROVE  WellFormed([peer_msg |-> Object(WithNumber(Envelope(from, p), "to", to))])
<1> DEFINE pm == WithNumber(Envelope(from, p), "to", to)
           f == [peer_msg |-> Object(pm)]
<1>1. AsPeerMsg(f) = {[from |-> from, to |-> ReadBack(to), inner |-> {p}]}
  <2> DEFINE pms == {[from |-> from, to |-> ReadBack(to), inner |-> {p}]}
  <2>1. View(f) = Untyped({}, {}, pms)
    BY ViewToKit
  <2> HIDE DEF f, pms
  <2>2. View(f).peerMsg = pms
    BY <2>1, UntypedPeerMsg
  <2>3. AsPeerMsg(f) = pms
    BY <2>2 DEF View
  <2> QED BY <2>3 DEF pms
<1>2. "msg" \in DOMAIN pm /\ pm["msg"].kind = "json"
  <2>1. "msg" \in DOMAIN pm /\ pm["msg"] = Json(MarshalInner(p))
    BY AddressedReads
  <2> HIDE DEF pm
  <2> QED BY <2>1 DEF Json
<1> HIDE DEF pm
<1>3. DOMAIN f = {"peer_msg"} /\ f["peer_msg"].of = pm
  BY DEF Object
<1> HIDE DEF f
<1>4. p \in PeerMsgInner
  BY OwnPayload
<1>5. WellFormed(f)
  BY <1>1, <1>2, <1>3, <1>4 DEF WellFormed
<1> QED BY <1>5 DEF f, pm

LEMMA ToBrowserWellFormed ==
  ASSUME NEW n, NEW from, NEW p \in Payloads
  PROVE  WellFormed(WithNumber([peer_msg |-> Object(Envelope(from, p))], "ackid", n))
<1> DEFINE pm == Envelope(from, p)
           f == WithNumber([peer_msg |-> Object(pm)], "ackid", n)
<1>1. AsPeerMsg(f) = {[from |-> from, to |-> {}, inner |-> {p}]}
  <2> DEFINE pms == {[from |-> from, to |-> {}, inner |-> {p}]}
  <2>1. View(f) = Untyped(ReadBack(n), {}, pms)
    BY ViewToBrowser
  <2> HIDE DEF f, pms
  <2>2. View(f).peerMsg = pms
    BY <2>1, UntypedPeerMsg
  <2>3. AsPeerMsg(f) = pms
    BY <2>2 DEF View
  <2> QED BY <2>3 DEF pms
<1>2. "msg" \in DOMAIN pm /\ pm["msg"].kind = "json"
  BY DEF Envelope, Json
<1> HIDE DEF pm
<1>3. DOMAIN f \subseteq {"ackid", "peer_msg"} /\ f["peer_msg"].of = pm
  BY NumberedFrame DEF Object
<1> HIDE DEF f
<1>4. p \in PeerMsgInner
  BY OwnPayload
<1>5. WellFormed(f)
  BY <1>1, <1>2, <1>3, <1>4 DEF WellFormed
<1> QED BY <1>5 DEF f, pm

-----------------------------------------------------------------------------
(* The invariant: the map reads as it should, and so does a cached         *)
(* encoding until a setter runs.  The second part is why a hop may forget  *)
(* the map.                                                                *)

Consistent ==
  /\ \A f \in {raw} \cup encoded : WellFormed(f)
  /\ View(raw) = want
  /\ edited \in BOOLEAN
  /\ ~edited => \A b \in encoded : View(b) = want

LEMMA ConsistentImplies ==
  ASSUME Consistent
  PROVE  TypeOK /\ ReadsAsSet /\ SentAsRead
<1>1. \A pm \in want.peerMsg : pm.inner \subseteq PeerMsgInner
  BY DEF Consistent, View, WellFormed
<1>2. SentAsRead
  <2>1. CASE encoded # {}
    <3>1. (CHOOSE b \in encoded : TRUE) \in encoded
      BY <2>1
    <3> QED BY <2>1, <3>1 DEF Consistent, SentAsRead, Stale, Encode
  <2>2. CASE encoded = {}
    BY <2>2, MarshalledView DEF Consistent, SentAsRead, Encode
  <2> QED BY <2>1, <2>2
<1> QED BY <1>1, <1>2 DEF Consistent, TypeOK, ReadsAsSet

LEMMA EncodeWellFormed ==
  ASSUME Consistent
  PROVE  WellFormed(Encode)
<1>1. CASE encoded # {}
  <2>1. (CHOOSE b \in encoded : TRUE) \in encoded
    BY <1>1
  <2> QED BY <1>1, <2>1 DEF Consistent, Encode
<1>2. CASE encoded = {}
  BY <1>2, MarshalledWellFormed DEF Consistent, Encode
<1> QED BY <1>1, <1>2

\* A message that was just read or built is consistent.
LEMMA BecomeConsistent ==
  ASSUME NEW map, NEW bytes, NEW view, Become(map, bytes, view), WellFormed(map),
         View(map) = view, bytes \subseteq {map}
  PROVE  Consistent'
<1>1. raw' = map /\ encoded' = bytes /\ edited' = FALSE /\ want' = view
  BY DEF Become
<1> QED BY <1>1 DEF Consistent

LEMMA ConsistentInit == Init => Consistent
BY FramesAssumption DEF Init, Consistent

LEMMA ConsistentStep == Consistent /\ [Next]_vars => Consistent'
<1> SUFFICES ASSUME Consistent, [Next]_vars
             PROVE  Consistent'
  OBVIOUS
<1>1. ASSUME NEW f \in Frames, Parse(f)
      PROVE  Consistent'
  BY <1>1, BecomeConsistent, FramesAssumption DEF Parse
<1>2. ASSUME NEW s \in Texts, NewOffer(s) \/ NewAnswer(s)
      PROVE  Consistent'
  <2> DEFINE offer == [type |-> Text("offer"), sdp |-> Text(s)]
             answer == [type |-> Text("answer"), sdp |-> Text(s)]
             reads(kind) == Typed(kind, s, "", "", 0)
  <2>1. View(offer) = reads("offer") /\ View(answer) = reads("answer")
    BY ViewOfText
  <2>2. WellFormed(offer) /\ WellFormed(answer)
    BY NewWellFormed
  <2>3. Become(offer, {}, reads("offer")) \/ Become(answer, {}, reads("answer"))
    BY <1>2 DEF NewOffer, NewAnswer
  <2> HIDE DEF offer, answer, reads
  <2>4. CASE Become(offer, {}, reads("offer"))
    BY <2>1, <2>2, <2>4, BecomeConsistent
  <2>5. CASE Become(answer, {}, reads("answer"))
    BY <2>1, <2>2, <2>5, BecomeConsistent
  <2> QED BY <2>3, <2>4, <2>5
<1>3. ASSUME NEW c \in Texts, NEW mid \in Texts, NEW i \in Indexes, NewCandidate(c, mid, i)
      PROVE  Consistent'
  <2> DEFINE f == [type |-> Text("candidate"), candidate |-> Text(c), sdpMid |-> Text(mid),
                   sdpMLineIndex |-> Int(i)]
             view == Typed("candidate", "", c, mid, i)
  <2>1. View(f) = view /\ WellFormed(f) /\ Become(f, {}, view)
    BY <1>3, ViewOfCandidate, NewWellFormed DEF NewCandidate
  <2> HIDE DEF f, view
  <2> QED BY <2>1, BecomeConsistent
<1>4. ASSUME NEW n \in Ackids, NewAck(n)
      PROVE  Consistent'
  <2> DEFINE f == [ack |-> Int(n)]
             view == Untyped({}, {"ack"}, {})
  <2>1. View(f) = view /\ WellFormed(f) /\ Become(f, {}, view)
    BY <1>4, ViewOfAck, NewWellFormed DEF NewAck
  <2> HIDE DEF f, view
  <2> QED BY <2>1, BecomeConsistent
<1>5. ASSUME NEW p \in Payloads, NEW from \in PeerIds, NEW to \in PeerIds,
             NewPeerMsgToKit(from, to, p)
      PROVE  Consistent'
  <2> DEFINE f == [peer_msg |-> Object(WithNumber(Envelope(from, p), "to", to))]
             view == Untyped({}, {}, {[from |-> from, to |-> ReadBack(to), inner |-> {p}]})
  <2>1. View(f) = view /\ WellFormed(f)
    BY ViewToKit, ToKitWellFormed
  <2>2. Become(f, {f}, view)
    BY <1>5 DEF NewPeerMsgToKit
  <2> HIDE DEF f, view
  <2> QED BY <2>1, <2>2, BecomeConsistent
<1>6. ASSUME NEW p \in Payloads, NEW n \in Ackids, NEW from \in PeerIds,
             NewPeerMsgToBrowser(n, from, p)
      PROVE  Consistent'
  <2> DEFINE f == WithNumber([peer_msg |-> Object(Envelope(from, p))], "ackid", n)
             view == Untyped(ReadBack(n), {}, {[from |-> from, to |-> {}, inner |-> {p}]})
  <2>1. View(f) = view /\ WellFormed(f)
    BY ViewToBrowser, ToBrowserWellFormed
  <2>2. Become(f, {f}, view)
    BY <1>6 DEF NewPeerMsgToBrowser
  <2> HIDE DEF f, view
  <2> QED BY <2>1, <2>2, BecomeConsistent
<1>7. ASSUME NEW s \in Texts, SetSDP(s)
      PROVE  Consistent'
  <2>1. WellFormed(raw') /\ View(raw') = want'
    BY <1>7, WithTextWellFormed, ViewWithSDP DEF SetSDP, Consistent
  <2> QED BY <1>7, <2>1 DEF SetSDP, Consistent
<1>8. ASSUME NEW s \in Texts, SetCandidate(s)
      PROVE  Consistent'
  <2>1. WellFormed(raw') /\ View(raw') = want'
    BY <1>8, WithTextWellFormed, ViewWithCandidate DEF SetCandidate, Consistent
  <2> QED BY <1>8, <2>1 DEF SetCandidate, Consistent
<1>9. ASSUME NEW p \in Payloads, SetPeerMsgInner(p)
      PROVE  Consistent'
  <2>1. WellFormed(raw') /\ View(raw') = want'
    BY <1>9, WithInnerWellFormed, ViewWithInner DEF SetPeerMsgInner, Consistent
  <2> QED BY <1>9, <2>1 DEF SetPeerMsgInner, Consistent
<1>10. ASSUME Hop
       PROVE  Consistent'
  <2>1. WellFormed(raw')
    BY <1>10, EncodeWellFormed DEF Hop
  <2>2. View(raw') = want'
    BY <1>10, ConsistentImplies DEF Hop, SentAsRead
  <2> QED BY <1>10, <2>1, <2>2 DEF Hop, Consistent
<1>11. CASE UNCHANGED vars
  BY <1>11 DEF vars, Consistent
<1> QED
  BY <1>1, <1>2, <1>3, <1>4, <1>5, <1>6, <1>7, <1>8, <1>9, <1>10, <1>11
  DEF Next, Receive, Build, Set

LEMMA AlwaysConsistent == Spec => []Consistent
BY ConsistentInit, ConsistentStep, PTL DEF Spec

\* Every message and every cached encoding is well formed, with the payload
\* encoded twice.
THEOREM TypeCorrect == Spec => []TypeOK
BY AlwaysConsistent, ConsistentImplies, PTL

\* envelope.go:62-119, peer_msg.go:52-138.  An accessor returns what the
\* constructor or the last setter was given, before and after any hop.
THEOREM AccessorsReadWhatWasSet == Spec => []ReadsAsSet
BY AlwaysConsistent, ConsistentImplies, PTL

\* envelope.go:121-129.  What is sent reads as what is kept, unless a setter
\* ran on a message with a cached encoding.
THEOREM ReceiverReadsTheSame == Spec => []SentAsRead
BY AlwaysConsistent, ConsistentImplies, PTL
=============================================================================
