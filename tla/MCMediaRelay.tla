----------------------------- MODULE MCMediaRelay -----------------------------
(* MediaRelay for TLC: two video tracks, the first with two packets so that  *)
(* it can be heard before and after the second, and a silent audio track.    *)
EXTENDS MediaRelay

CONSTANTS v1, v2, a1

MCVideoTracks == {v1, v2}
MCAudioTracks == {a1}
MCMaxPackets == [t \in {v1, v2, a1} |-> IF t = v1 THEN 2 ELSE IF t = v2 THEN 1 ELSE 0]
=============================================================================
