---------------------------- MODULE MCNegotiation ----------------------------
(* Small instances of Negotiation for TLC.  The ids differ from the         *)
(* defaults of state, so that an id used before it is learned shows.        *)
EXTENDS Negotiation
=============================================================================
