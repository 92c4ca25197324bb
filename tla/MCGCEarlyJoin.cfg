\* The instance of MCGCCoordinator.cfg: the winner's loop ends before the
\* engine finishes the collection, so GC() joins with it still running.
CONSTANTS
  w1 = w1
  w2 = w2
  w3 = w3
  Workers <- MCWorkers
  TotalCount = 3
  CheckpointInterval = 2
  RefreshInterval = 1
  CompletePendingInterval = 4
SYMMETRY MCSymmetry
SPECIFICATION Spec
INVARIANT JoinAfterGc
