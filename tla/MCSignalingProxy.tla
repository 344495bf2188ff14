-------------------------- MODULE MCSignalingProxy --------------------------
(* Small instances of SignalingProxy for TLC.                              *)
EXTENDS SignalingProxy
=============================================================================
