\* Line 309 sets j = i when a worker breaks out.  Same instance as
\* MCCheckpointCoordinator.cfg: a follower breaks out at i = 2 before the
\* winner's Checkpoint(), finds the checkpoint in progress after the loop,
\* and re-enters it with j = 2, which no further sighting brings back to 2.
CONSTANTS
  w1 = w1
  w2 = w2
  w3 = w3
  Workers <- MCWorkers
  LoopEnd = 6
  CheckpointInterval = 2
  RefreshInterval = 1
  CompletePendingInterval = 4
  ObserveQuota = 2
SYMMETRY MCSymmetry
SPECIFICATION Spec
INVARIANT
  RetryCanBreak
