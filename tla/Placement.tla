------------------------------ MODULE Placement -------------------------------
(***************************************************************************)
(* NUMA placement in multiWorkers() (FH_MicroTest.cpp lines 542-573).      *)
(* With num_cpus = numa_num_task_cpus() and num_sock = numa_max_node()+1,  *)
(* thread i is pinned to core                                              *)
(*   i / group_threads * group_cores + i % group_threads                   *)
(* where group_threads = thread_number / num_sock and group_cores =        *)
(* num_cpus / num_sock.  A zero group_threads makes the division trap      *)
(* (SIGFPE) and the process dies; a core outside the task's CPUs makes     *)
(* pthread_setaffinity_np fail, and its result is ignored, so the thread   *)
(* runs unpinned.                                                          *)
(*                                                                         *)
(* The machine and the thread count are chosen in the initial state from   *)
(* the small sets the constants give, so one run covers all of them.       *)
(***************************************************************************)
EXTENDS Naturals, FiniteSets, TLC

CONSTANTS
  ThreadCounts,  \* the values of thread_number to try
  SocketCounts,  \* the values of num_sock to try
  CpuCounts      \* the values of num_cpus to try

ASSUME CountsAssumption ==
  /\ ThreadCounts \subseteq Nat \ {0}
  /\ SocketCounts \subseteq Nat \ {0}
  /\ CpuCounts \subseteq Nat \ {0}

VARIABLES
  machine,   \* [threads |-> thread_number, socks |-> num_sock, cpus |-> num_cpus]
  k,         \* the loop index i of line 561
  affinity,  \* the core each pinned thread is pinned to
  unpinned,  \* the threads whose pthread_setaffinity_np call failed
  crashed    \* the process died of the division at line 571

vars == <<machine, k, affinity, unpinned, crashed>>

GroupThreads == machine.threads \div machine.socks

GroupCores == machine.cpus \div machine.socks

(* Mutant: the core without the offset of the thread's socket.            *)
CoreOfNoBase(i) == i % GroupThreads

(* Line 571: the core thread i is pinned to.                               *)
CoreOf(i) == (i \div GroupThreads) * GroupCores + (i % GroupThreads)

Init ==
  /\ machine \in [threads : ThreadCounts, socks : SocketCounts, cpus : CpuCounts]
  /\ machine.socks <= machine.cpus
  /\ k = 0
  /\ affinity = <<>>
  /\ unpinned = {}
  /\ crashed = FALSE

(* Lines 561-573, one iteration whose core is one of the task's CPUs.      *)
PinThread ==
  /\ ~crashed
  /\ k < machine.threads
  /\ GroupThreads # 0
  /\ CoreOf(k) < machine.cpus
  /\ affinity' = [i \in DOMAIN affinity \cup {k} |->
                    IF i = k THEN CoreOf(k) ELSE affinity[i]]
  /\ k' = k + 1
  /\ UNCHANGED <<machine, unpinned, crashed>>

(* Lines 561-573, one iteration whose core does not exist: the affinity    *)
(* call fails and the thread keeps running wherever it was started.        *)
LeaveUnpinned ==
  /\ ~crashed
  /\ k < machine.threads
  /\ GroupThreads # 0
  /\ CoreOf(k) >= machine.cpus
  /\ unpinned' = unpinned \cup {k}
  /\ k' = k + 1
  /\ UNCHANGED <<machine, affinity, crashed>>

(* Line 571 with group_threads = 0: the integer division traps.            *)
DivideByZero ==
  /\ ~crashed
  /\ k < machine.threads
  /\ GroupThreads = 0
  /\ crashed' = TRUE
  /\ UNCHANGED <<machine, k, affinity, unpinned>>

(* Every thread of the round has been started and pinned.                  *)
Placed == ~crashed /\ k = machine.threads

Next ==
  \/ PinThread
  \/ LeaveUnpinned
  \/ DivideByZero
  \/ (Placed \/ crashed) /\ UNCHANGED vars

Spec == Init /\ [][Next]_vars

-----------------------------------------------------------------------------
(* Spec 4.2: every thread is pinned to its own core of the task, and the   *)
(* threads are split evenly across the sockets (cores numbered socket by   *)
(* socket, GroupCores to a socket): no socket has two threads more than    *)
(* another, and the process does not die on the way.                       *)
EvenPlacement ==
  /\ ~crashed
  /\ Placed =>
       /\ unpinned = {}
       /\ \A i, i2 \in DOMAIN affinity : i # i2 => affinity[i] # affinity[i2]
       /\ \A s, s2 \in 0..machine.socks - 1 :
            Cardinality({i \in DOMAIN affinity : affinity[i] \div GroupCores = s})
              <= Cardinality({i \in DOMAIN affinity : affinity[i] \div GroupCores = s2}) + 1

(* The machines the arithmetic of line 571 is right for: the thread count  *)
(* a multiple of the socket count, and no more threads per socket than     *)
(* cores per socket.                                                       *)
Balanced ==
  /\ machine.threads % machine.socks = 0
  /\ GroupThreads <= GroupCores

(* On a balanced machine the placement is the one spec 4.2 describes.      *)
EvenPlacementWhenBalanced == Balanced => EvenPlacement


PlacementTypeOK ==
  /\ machine \in [threads : Nat \ {0}, socks : Nat \ {0}, cpus : Nat \ {0}]
  /\ machine.socks <= machine.cpus
  /\ k \in 0..machine.threads
  /\ crashed \in BOOLEAN

(* The inductive invariant behind EvenPlacementWhenBalanced: on a balanced *)
(* machine the loop has pinned each of the threads started so far to the   *)
(* core line 571 computes for it, and to no other.                         *)
PlacementIInv ==
  /\ PlacementTypeOK
  /\ Balanced =>
       /\ ~crashed
       /\ unpinned = {}
       /\ DOMAIN affinity = 0..k - 1
       /\ \A i \in DOMAIN affinity : affinity[i] = CoreOf(i)

=============================================================================
