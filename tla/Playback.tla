------------------------------ MODULE Playback ------------------------------
(***************************************************************************)
(* What a session promises a viewer of Kit's media, without channel,       *)
(* goroutines, offers or contexts.  The browser has media lines, each of a *)
(* kind, and each line carries one track at a time.  A track of Kit is     *)
(* put on a line of its kind once, for good; the packets of a track that   *)
(* is carried are taken one by one, and each is heard now or never: by     *)
(* the lines that carry the track and are negotiated.  Once the browser's  *)
(* side is over nothing is heard any more.                                 *)
(***************************************************************************)
EXTENDS Naturals, Sequences

CONSTANTS VideoTracks, AudioTracks, Placeholder

VARIABLES
  lines,    \* the browser's media lines, in order
  placed,   \* tracks that were put on a line
  taken,    \* packets taken of each track
  over      \* the browser's side is closed

playVars == <<lines, placed, taken, over>>

Kind(t) == IF t \in VideoTracks THEN "video" ELSE "audio"
Line(kind, track) == [kind |-> kind, track |-> track, live |-> FALSE, out |-> << >>]
LinesOf(kind) == {i \in DOMAIN lines : lines[i].kind = kind}

PlayInit ==
  /\ lines = <<Line("video", Placeholder)>>
  /\ placed = {}
  /\ taken = [t \in VideoTracks \cup AudioTracks |-> 0]
  /\ over = FALSE

Put(t) ==
  /\ t \notin placed
  /\ placed' = placed \cup {t}
  /\ \/ \E i \in LinesOf(Kind(t)) : lines' = [lines EXCEPT ![i].track = t]
     \/ /\ LinesOf(Kind(t)) = {} /\ ~over
        /\ lines' = Append(lines, Line(Kind(t), t))
  /\ UNCHANGED <<taken, over>>

\* An answer: a line that is negotiated stays so.
Negotiate ==
  /\ ~over
  /\ \E S \in SUBSET DOMAIN lines :
       lines' = [i \in DOMAIN lines |-> [lines[i] EXCEPT !.live = @ \/ i \in S]]
  /\ UNCHANGED <<placed, taken, over>>

Hears(line, t) == line.track = t /\ line.live /\ ~over

Take(t) ==
  /\ t \in placed
  /\ taken' = [taken EXCEPT ![t] = @ + 1]
  /\ lines' = [i \in DOMAIN lines |->
                 IF Hears(lines[i], t)
                   THEN [lines[i] EXCEPT !.out =
                           Append(@, [track |-> t, num |-> taken[t] + 1])]
                   ELSE lines[i]]
  /\ UNCHANGED <<placed, over>>

End ==
  /\ over' = TRUE
  /\ UNCHANGED <<lines, placed, taken>>

PlayNext ==
  \/ Negotiate \/ End
  \/ \E t \in VideoTracks \cup AudioTracks : Put(t) \/ Take(t)

PlaySpec == PlayInit /\ [][PlayNext]_playVars
=============================================================================
