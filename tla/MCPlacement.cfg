\* Every machine with 1 to 3 sockets and 2, 3, 4 or 6 CPUs, and 1 to 6 threads.
CONSTANTS
  ThreadCounts = {1, 2, 3, 4, 5, 6}
  SocketCounts = {1, 2, 3}
  CpuCounts = {2, 3, 4, 6}
SPECIFICATION Spec
INVARIANT EvenPlacementWhenBalanced
