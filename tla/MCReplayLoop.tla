---------------------------- MODULE MCReplayLoop ----------------------------
(* The two adapters of the repository, with a shorter recycle period; the    *)
(* grid of origins for up to 40 robots.                                      *)
EXTENDS ReplayLoop, TLC

MCAdapters == {Ant, AnymalD}
RobotsAlike == Permutations(Robots)
MCIterations == {-1, 9, 10}

ASSUME GridsFit ==
  \A n \in 1..40 :
    /\ Rows(n) * Cols(n) >= n
    /\ \A i, j \in 0..(n - 1) : i # j => Origin(n, i) # Origin(n, j)
=============================================================================
