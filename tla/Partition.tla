------------------------------ MODULE Partition -------------------------------
(***************************************************************************)
(* The workload partitioner of main() (FH_MicroTest.cpp lines 598-606).    *)
(* loads[i] = i for every i below total_count; then, key by key, main      *)
(* hashes the key with the engine's Utility::GetHashCode, reduces it       *)
(* modulo the index size init_size, divides by init_size / thread_number   *)
(* and appends the key to localloads[lid], the partition of worker lid.    *)
(*                                                                         *)
(* GetHashCode belongs to the engine, which is not in this repository: the *)
(* hash is any function from the keys to HashValues, fixed in the initial  *)
(* state.  localloads is an array of thread_number vectors; the model      *)
(* gives it an entry for every lid the computation can yield, and the      *)
(* entries from thread_number on stand for the memory past its end.        *)
(***************************************************************************)
EXTENDS Naturals, Sequences, FiniteSets

CONSTANTS
  InitSize,      \* init_size = next_power_of_two(DEFAULT_STORE_BASE / 2)
  ThreadNumber,  \* thread_number
  TotalCount,    \* total_count
  HashValues     \* the values GetHashCode may return

ASSUME InitSizeAssumption == InitSize \in Nat \ {0}
ASSUME ThreadNumberAssumption == ThreadNumber \in 1..InitSize
ASSUME TotalCountAssumption == TotalCount \in Nat
ASSUME HashValuesAssumption == HashValues \subseteq Nat /\ HashValues # {}

VARIABLES
  hash,        \* GetHashCode on the keys
  n,           \* the loop index of line 601
  localloads   \* localloads[t], the partition of worker t

partitionVars == <<hash, n, localloads>>

Keys == 0..TotalCount - 1

Tids == 0..ThreadNumber - 1

(* Mutant: the lid of line 604 computed from the hash not reduced modulo   *)
(* init_size.                                                              *)
LidUnreduced(h) == h \div (InitSize \div ThreadNumber)

(* Lines 602-604: the worker a key with hash h is assigned to.             *)
Lid(h) == (h % InitSize) \div (InitSize \div ThreadNumber)

(* Every index of localloads that line 605 can reach: the workers' and    *)
(* the ones past the end of the array.                                     *)
Lids == Tids \cup {Lid(h) : h \in HashValues}

(* thread_number divides init_size, as it does when both are powers of    *)
(* two: then every lid of line 604 is the index of a worker.               *)
ThreadsDivideIndex == InitSize % ThreadNumber = 0

PartitionInit ==
  /\ hash \in [Keys -> HashValues]
  /\ n = 0
  /\ localloads = [t \in Lids |-> <<>>]

(* Lines 601-606, one iteration: push key n onto localloads[lid].          *)
PushLoad ==
  /\ n < TotalCount
  /\ localloads' = [localloads EXCEPT ![Lid(hash[n])] = Append(@, n)]
  /\ n' = n + 1
  /\ UNCHANGED hash

(* The loop of line 601 has finished.                                      *)
Partitioned == n = TotalCount

PartitionNext ==
  \/ PushLoad
  \/ Partitioned /\ UNCHANGED partitionVars

PartitionSpec == PartitionInit /\ [][PartitionNext]_partitionVars

-----------------------------------------------------------------------------
PartitionTypeOK ==
  /\ hash \in [Keys -> HashValues]
  /\ n \in 0..TotalCount
  /\ localloads \in [Lids -> Seq(Keys)]

(* The positions of key k in the partitions.                               *)
Slots(k) ==
  UNION {{<<t, p>> : p \in {q \in DOMAIN localloads[t] : localloads[t][q] = k}} : t \in Lids}

(* Spec 3 and 8, partition completeness: once the loop has run, every key  *)
(* of the domain is in exactly one worker's partition, exactly once, and   *)
(* none was written past the array, whatever the hash.                     *)
PartitionComplete ==
  Partitioned =>
    \A k \in Keys : Cardinality(Slots(k)) = 1 /\ \A s \in Slots(k) : s[1] \in Tids


(* The keys partition t holds, and the keys below n the hash sends to t.   *)
KeysOf(t) == {localloads[t][p] : p \in DOMAIN localloads[t]}

AssignedTo(t) == {k \in 0..n - 1 : Lid(hash[k]) = t}

(* The inductive invariant of the partition loop: every partition holds    *)
(* each of its keys once, and exactly the keys pushed so far that the hash *)
(* sends to it.                                                            *)
PartitionIInv ==
  /\ PartitionTypeOK
  /\ \A t \in Lids :
       /\ \A p, q \in DOMAIN localloads[t] :
            localloads[t][p] = localloads[t][q] => p = q
       /\ KeysOf(t) = AssignedTo(t)

=============================================================================
