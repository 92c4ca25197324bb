\* Three workers, keys 3..5, an election point at i = 4, CompletePending at
\* i = 4 and Refresh2 at i = 3 and 5.
CONSTANTS
  w1 = w1
  w2 = w2
  w3 = w3
  Workers <- MCWorkers
  TotalCount = 3
  CheckpointInterval = 2
  RefreshInterval = 1
  CompletePendingInterval = 4
SYMMETRY MCSymmetry
SPECIFICATION Spec
INVARIANT GcElectionExclusive
