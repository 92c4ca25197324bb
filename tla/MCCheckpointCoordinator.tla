----------------------- MODULE MCCheckpointCoordinator ------------------------
(* Small instances of the checkpoint election for TLC.                     *)
EXTENDS CheckpointCoordinator, TLC

CONSTANTS w1, w2, w3

MCWorkers == {w1, w2, w3}

MCSymmetry == Permutations(MCWorkers)
=============================================================================
