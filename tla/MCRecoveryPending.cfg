\* The same keys, with an engine that may answer a read of a recovered key
\* Pending, as it does for a record read back from the recovered log on
\* disk: RecoverAndTest never calls CompletePending, so the key is counted
\* as a failure.
CONSTANTS
  TotalCount = 3
  PresentReadResults = {"Ok", "Pending"}
SPECIFICATION RecoverySpec
INVARIANT RecoveryRoundTrip
