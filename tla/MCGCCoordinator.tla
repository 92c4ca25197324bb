------------------------- MODULE MCGCCoordinator ------------------------------
(* Small instances of the garbage-collection election for TLC.             *)
EXTENDS GCCoordinator, TLC

CONSTANTS w1, w2, w3

MCWorkers == {w1, w2, w3}

MCSymmetry == Permutations(MCWorkers)
=============================================================================
