\* Termination of every checkWorker thread under weak fairness of the
\* threads and of the engine's checkpoint completion.  No symmetry: TLC's
\* liveness checking is not sound under symmetry reduction.  Two workers keep
\* the behaviour graph small; the retry loop needs only one of them to end
\* its loop while the other's checkpoint is in progress.
CONSTANTS
  w1 = w1
  w2 = w2
  w3 = w3
  Workers = {w1, w2}
  LoopEnd = 6
  CheckpointInterval = 2
  RefreshInterval = 1
  CompletePendingInterval = 4
  ObserveQuota = 2
SPECIFICATION FairSpec
PROPERTY Termination
