\* Three workers over a power-of-two index: init_size / 3 rounds down, so
\* the top shards get lid = 3 and their keys are pushed past localloads.
CONSTANTS
  InitSize = 4
  ThreadNumber = 3
  TotalCount = 3
  HashValues = {0, 1, 2, 3, 4, 5, 6, 7}
SPECIFICATION PartitionSpec
INVARIANT PartitionComplete
