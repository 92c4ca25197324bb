\* Three workers, a loop of 6 upserts with election points at i = 2 and 4,
\* CompletePending at i = 0 and 4, Refresh2 elsewhere, and a quota of 2
\* sightings so that both the break at line 310 and the loop end happen.
CONSTANTS
  w1 = w1
  w2 = w2
  w3 = w3
  Workers <- MCWorkers
  LoopEnd = 6
  CheckpointInterval = 2
  RefreshInterval = 1
  CompletePendingInterval = 4
  ObserveQuota = 2
SYMMETRY MCSymmetry
SPECIFICATION Spec
INVARIANTS
  TypeOK
  ElectionExclusive
  JoinAfterCheckpoint
PROPERTY
  ElectionRefinement
