----------------------------- MODULE FrameRelay -----------------------------
(***************************************************************************)
(* What the signaling proxy promises to the two ends of a session, without *)
(* sockets, mutexes or goroutines.  Frames of a side are numbered in the   *)
(* order in which that side sent them.  The relay accepts them one by one: *)
(* a frame is forwarded to the other side or consumed by the hook, frames  *)
(* of the gateway's own may appear between them, and a direction may drop  *)
(* the last frame it accepts as it stops.  Which frames a hook consumes is *)
(* left open here: NothingLostMidStream of SignalingProxy keeps track.     *)
(***************************************************************************)
EXTENDS Naturals, Sequences

VARIABLES
  accepted,  \* accepted[s]: how many frames of side s are disposed of
  stopped,   \* sides whose direction, the one that starts there, has ended
  out        \* out[s]: everything written to side s, oldest first

relayVars == <<accepted, stopped, out>>

Sides == {"client", "kit"}
Other(s) == IF s = "client" THEN "kit" ELSE "client"
Frame(s, n) == [src |-> s, num |-> n]
GatewayFrame == Frame("gateway", 0)

RelayInit ==
  /\ accepted = [s \in Sides |-> 0]
  /\ stopped = {}
  /\ out = [s \in Sides |-> << >>]

Accept(s) ==
  /\ s \notin stopped
  /\ accepted' = [accepted EXCEPT ![s] = @ + 1]

Forward(s) ==
  /\ Accept(s)
  /\ out' = [out EXCEPT ![Other(s)] = Append(@, Frame(s, accepted[s] + 1))]
  /\ UNCHANGED stopped

Consume(s) ==
  /\ Accept(s)
  /\ UNCHANGED <<stopped, out>>

\* The frame in hand when the direction fails is lost with it.
Drop(s) ==
  /\ Accept(s)
  /\ stopped' = stopped \cup {s}
  /\ UNCHANGED out

Stop(s) ==
  /\ s \notin stopped
  /\ stopped' = stopped \cup {s}
  /\ UNCHANGED <<accepted, out>>

Originate(s) ==
  /\ out' = [out EXCEPT ![s] = Append(@, GatewayFrame)]
  /\ UNCHANGED <<accepted, stopped>>

RelayNext ==
  \E s \in Sides :
    Forward(s) \/ Consume(s) \/ Drop(s) \/ Stop(s) \/ Originate(s)

RelaySpec == RelayInit /\ [][RelayNext]_relayVars
=============================================================================
