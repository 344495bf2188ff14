-------------------------------- MODULE MCNvst --------------------------------
(* Nvst for TLC: two texts besides the empty one, and the frames that the   *)
(* comments of peer_msg.go and the tests show, with the ones that are       *)
(* almost a peer_msg or almost a payload.                                   *)
EXTENDS Nvst

P(type, sdp, candidate, mid, index) ==
  [type |-> type, sdp |-> sdp, candidate |-> candidate, sdpMid |-> mid,
   sdpMLineIndex |-> index]

MCPayloads ==
  {P("offer", "a", "", "", 0), P("answer", "b", "", "", 0), P("answer", "", "", "", 0),
   P("candidate", "", "a", "", 0), P("candidate", "", "b", "a", 1)}

Peer(f) == [peer_msg |-> Object(f)]

MCFrames ==
  {[type |-> Text("offer"), sdp |-> Text("a")],
   [type |-> Text("config")],
   [ack |-> Float(3)], [hb |-> Float(1)],
   [ackid |-> Float(1), peer_info |-> Object([id |-> Float(2)])],
   [peer_msg |-> Text("a")],
   Peer([from |-> Float(1)]),
   Peer([from |-> Text("a"), msg |-> Text("b")]),
   Peer([from |-> Float(1), msg |-> Json([sdp |-> Text("a")])]),
   Peer([from |-> Float(1), to |-> Float(2),
         msg |-> Json([type |-> Text("answer"), sdp |-> Float(1)])]),
   [ackid |-> Float(0), peer_msg |-> Object([from |-> Float(0), to |-> Float(0)])],
   [ackid |-> Float(7),
    peer_msg |-> Object([from |-> Float(1),
                         msg |-> Json([type |-> Text("offer"), sdp |-> Text("a")])])]}
=============================================================================
