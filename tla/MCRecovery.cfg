\* Keys 0..5 (total_count = 3), every subset of them held by the checkpoint,
\* and an engine that answers reads of recovered keys at once.
CONSTANTS
  TotalCount = 3
  PresentReadResults = {"Ok"}
SPECIFICATION RecoverySpec
INVARIANT RecoveryRoundTrip
