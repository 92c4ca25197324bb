\* The same machines without the balance condition: a single thread on two
\* sockets divides by zero, three threads on two sockets pin a thread to a
\* core that does not exist, and four threads on a two-CPU socket share cores.
CONSTANTS
  ThreadCounts = {1, 2, 3, 4, 5, 6}
  SocketCounts = {1, 2, 3}
  CpuCounts = {2, 3, 4, 6}
SPECIFICATION Spec
INVARIANT EvenPlacement
