------------------------- MODULE MCDesiredStateSync -------------------------
(* Panel sessions one after the other, or two that overlap.                *)
EXTENDS DesiredStateSync, TLC

CONSTANTS w1, w2
OneWorker == {w1}
TwoWorkers == {w1, w2}

\* Two sessions do the same things.
SessionSymmetry == Permutations(TwoWorkers)
=============================================================================
