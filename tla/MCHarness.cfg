\* Two workers over an index of 4 shards, 3 keys, every hash into 0..7 (up
\* to twice the index size, so that the reduction modulo init_size matters),
\* one further round that reads, and an engine whose upserts and reads of
\* stored keys may also go pending.
CONSTANTS
  InitSize = 4
  ThreadNumber = 2
  TotalCount = 3
  HashValues = {0, 1, 2, 3, 4, 5, 6, 7}
  Rounds = 1
  Reading = TRUE
  UpsertResults = {"Ok", "Pending"}
  PresentReadResults = {"Ok", "Pending"}
SPECIFICATION Spec
INVARIANTS
  Conservation
  StoreComplete
  PartitionComplete
