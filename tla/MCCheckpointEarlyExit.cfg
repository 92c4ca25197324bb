\* Spec 4.3 says re-traversal keeps a fast worker from exiting while the
\* checkpoint is in flight.  Same instance as MCCheckpointCoordinator.cfg;
\* TLC finds a worker that counts two sightings of the flag set and the
\* engine at rest before the winner has called Checkpoint(), and exits.
CONSTANTS
  w1 = w1
  w2 = w2
  w3 = w3
  Workers <- MCWorkers
  LoopEnd = 6
  CheckpointInterval = 2
  RefreshInterval = 1
  CompletePendingInterval = 4
  ObserveQuota = 2
SYMMETRY MCSymmetry
SPECIFICATION Spec
INVARIANT
  NoExitWhileInFlight
