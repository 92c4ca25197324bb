--------------------------- MODULE PartitionProofs ---------------------------
(***************************************************************************)
(* Proofs about the partition loop of main() (lines 598-606): when         *)
(* thread_number divides init_size every key ends up in exactly one        *)
(* worker's partition, exactly once.                                       *)
(***************************************************************************)
EXTENDS Partition, FiniteSetTheorems, TLAPS

(* Lines 602-604 compute the index of a worker for every hash when         *)
(* thread_number divides init_size.                                        *)
LEMMA LidInTids ==
  ASSUME ThreadsDivideIndex, NEW h \in Nat
  PROVE  Lid(h) \in Tids
<1> DEFINE q == InitSize \div ThreadNumber
           x == h % InitSize
<1>1. ThreadNumber \in Nat \ {0} /\ InitSize \in Nat \ {0}
  BY InitSizeAssumption, ThreadNumberAssumption
<1>2. InitSize = ThreadNumber * q /\ q \in Nat \ {0}
  BY <1>1, SMT DEF ThreadsDivideIndex
<1>3. x \in 0..InitSize - 1
  BY <1>1
<1>4. x \div q \in Nat /\ (x \div q) * q <= x
  BY <1>2, <1>3
<1>5. x \div q < ThreadNumber
  BY <1>1, <1>2, <1>3, <1>4, SMT
<1>6. QED
  BY <1>1, <1>4, <1>5 DEF Lid, Tids, q, x

(* A sequence of distinct keys, like a partition pushed by line 605 or    *)
(* shuffled by line 630, holds as many keys as it is long.                 *)
LEMMA InjectiveSeqCard ==
  ASSUME NEW S, NEW s \in Seq(S),
         \A p, q \in DOMAIN s : s[p] = s[q] => p = q
  PROVE  /\ IsFiniteSet({s[p] : p \in DOMAIN s})
         /\ Cardinality({s[p] : p \in DOMAIN s}) = Len(s)
<1> DEFINE R == {s[p] : p \in DOMAIN s}
<1>1. Len(s) \in Nat /\ DOMAIN s = 1..Len(s)
  OBVIOUS
<1>2. s \in Bijection(1..Len(s), R)
  BY <1>1 DEF Bijection, Injection, Surjection, IsInjective
<1>3. IsFiniteSet(1..Len(s)) /\ Cardinality(1..Len(s)) = Len(s)
  BY <1>1, FS_Interval
<1>4. QED
  BY <1>2, <1>3, FS_Bijection DEF ExistsBijection

(* A sequence of distinct elements of a finite set S, as long as S is      *)
(* large, holds every element of S: what std::random_shuffle leaves.       *)
LEMMA PermutationKeys ==
  ASSUME NEW S, IsFiniteSet(S),
         NEW f \in [1..Cardinality(S) -> S],
         \A p, q \in 1..Cardinality(S) : p # q => f[p] # f[q]
  PROVE  /\ f \in Seq(S)
         /\ Len(f) = Cardinality(S)
         /\ \A p, q \in DOMAIN f : f[p] = f[q] => p = q
         /\ {f[p] : p \in DOMAIN f} = S
<1>1. Cardinality(S) \in Nat
  BY FS_CardinalityType
<1>2. f \in Seq(S) /\ Len(f) = Cardinality(S) /\ DOMAIN f = 1..Cardinality(S)
  BY <1>1
<1>3. f \in Injection(1..Cardinality(S), S)
  BY DEF Injection, IsInjective
<1>4. Cardinality(1..Cardinality(S)) = Cardinality(S)
  BY <1>1, FS_Interval
<1>5. f \in Surjection(1..Cardinality(S), S)
  BY <1>3, <1>4, FS_Injection
<1>6. QED
  BY <1>2, <1>5 DEF Surjection

-----------------------------------------------------------------------------
(* Before the loop of line 601 every partition is empty and so is the set  *)
(* of keys pushed.                                                         *)
LEMMA PartitionInitIInv == PartitionInit => PartitionIInv
<1> SUFFICES ASSUME PartitionInit PROVE PartitionIInv
  OBVIOUS
<1>1. 0..n - 1 = {}
  BY DEF PartitionInit
<1>2. PartitionTypeOK
  BY TotalCountAssumption DEF PartitionInit, PartitionTypeOK, Keys
<1>3. ASSUME NEW t \in Lids
      PROVE  DOMAIN localloads[t] = {} /\ KeysOf(t) = {} /\ AssignedTo(t) = {}
  BY <1>1 DEF PartitionInit, KeysOf, AssignedTo
<1>4. QED
  BY <1>2, <1>3 DEF PartitionIInv, PartitionInit

(* One iteration of the loop of line 601 appends key n to the partition    *)
(* its hash selects and to no other; n is new to that partition.           *)
LEMMA PushLoadPreserves == PartitionIInv /\ PushLoad => PartitionIInv'
<1> SUFFICES ASSUME PartitionIInv, PushLoad PROVE PartitionIInv'
  OBVIOUS
<1> DEFINE L == Lid(hash[n])
<1>1. /\ n \in Keys /\ n \in Nat
      /\ hash[n] \in HashValues /\ hash[n] \in Nat
      /\ L \in Lids
  BY TotalCountAssumption, HashValuesAssumption
     DEF PartitionIInv, PartitionTypeOK, PushLoad, Keys, Lids
<1>2. localloads[L] \in Seq(Keys)
  BY <1>1 DEF PartitionIInv, PartitionTypeOK
<1>3. PartitionTypeOK'
  BY <1>1, <1>2, TotalCountAssumption DEF PartitionIInv, PartitionTypeOK, PushLoad, Keys
<1>4. ASSUME NEW t \in Lids, t # L
      PROVE  /\ \A p, q \in DOMAIN localloads'[t] :
                  localloads'[t][p] = localloads'[t][q] => p = q
             /\ KeysOf(t)' = AssignedTo(t)'
  <2>1. localloads'[t] = localloads[t] /\ hash' = hash /\ n' = n + 1
    BY <1>4 DEF PushLoad
  <2>2. AssignedTo(t)' = AssignedTo(t)
    BY <2>1, <1>1, <1>4 DEF AssignedTo
  <2>3. QED
    BY <2>1, <2>2, <1>4 DEF PartitionIInv, KeysOf
<1>5. ASSUME NEW t \in Lids, t = L
      PROVE  /\ \A p, q \in DOMAIN localloads'[t] :
                  localloads'[t][p] = localloads'[t][q] => p = q
             /\ KeysOf(t)' = AssignedTo(t)'
  <2>1. localloads'[t] = Append(localloads[t], n) /\ hash' = hash /\ n' = n + 1
    BY <1>1, <1>5 DEF PushLoad, PartitionIInv, PartitionTypeOK
  <2>2. localloads[t] \in Seq(Keys)
    BY <1>2, <1>5
  <2>3. \A p \in DOMAIN localloads[t] : localloads[t][p] \in 0..n - 1
    <3>1. KeysOf(t) = AssignedTo(t)
      BY DEF PartitionIInv
    <3>2. TAKE p \in DOMAIN localloads[t]
    <3>3. localloads[t][p] \in KeysOf(t)
      BY DEF KeysOf
    <3>4. QED
      BY <3>1, <3>3 DEF AssignedTo
  <2>4. KeysOf(t)' = KeysOf(t) \cup {n}
    BY <2>1, <2>2 DEF KeysOf
  <2>5. AssignedTo(t)' = AssignedTo(t) \cup {n}
    BY <2>1, <1>1, <1>5 DEF AssignedTo
  <2>6. \A p, q \in DOMAIN localloads'[t] :
           localloads'[t][p] = localloads'[t][q] => p = q
    BY <2>1, <2>2, <2>3, <1>1 DEF PartitionIInv
  <2>7. QED
    BY <2>4, <2>5, <2>6 DEF PartitionIInv
<1>6. QED
  BY <1>3, <1>4, <1>5 DEF PartitionIInv

(* When the loop is over and thread_number divides init_size, key k sits   *)
(* at one position of one worker's partition: the one its hash selects.    *)
LEMMA CompleteFromIInv ==
  ASSUME ThreadsDivideIndex, PartitionIInv, Partitioned
  PROVE  PartitionComplete
<1> SUFFICES ASSUME NEW k \in Keys
             PROVE  Cardinality(Slots(k)) = 1 /\ \A s \in Slots(k) : s[1] \in Tids
  BY DEF PartitionComplete
<1> DEFINE t0 == Lid(hash[k])
<1>1. hash[k] \in Nat
  BY HashValuesAssumption DEF PartitionIInv, PartitionTypeOK
<1>2. t0 \in Tids /\ t0 \in Lids
  BY <1>1, LidInTids DEF Lids
<1>3. k \in AssignedTo(t0)
  BY DEF AssignedTo, Partitioned, Keys
<1>4. PICK p0 \in DOMAIN localloads[t0] : localloads[t0][p0] = k
  BY <1>2, <1>3 DEF PartitionIInv, KeysOf
<1>5. ASSUME NEW t \in Lids, NEW p \in DOMAIN localloads[t], localloads[t][p] = k
      PROVE  t = t0 /\ p = p0
  <2>1. k \in AssignedTo(t)
    BY <1>5 DEF PartitionIInv, KeysOf
  <2>2. t = t0
    BY <2>1 DEF AssignedTo
  <2>3. QED
    BY <2>2, <1>4, <1>5 DEF PartitionIInv
<1>6. Slots(k) = {<<t0, p0>>}
  BY <1>2, <1>4, <1>5 DEF Slots
<1>7. Cardinality(Slots(k)) = 1
  BY <1>6, FS_Singleton
<1>8. \A s \in Slots(k) : s[1] \in Tids
  BY <1>2, <1>6
<1>9. QED
  BY <1>7, <1>8

(* A step of the loop, or the stutter once it is over, keeps the           *)
(* invariant.                                                              *)
LEMMA PartitionIInvInductive ==
  PartitionIInv /\ [PartitionNext]_partitionVars => PartitionIInv'
<1> SUFFICES ASSUME PartitionIInv, [PartitionNext]_partitionVars
             PROVE  PartitionIInv'
  OBVIOUS
<1>1. CASE PushLoad
  BY <1>1, PushLoadPreserves
<1>2. CASE UNCHANGED partitionVars
  BY <1>2 DEF partitionVars, PartitionIInv, PartitionTypeOK, KeysOf, AssignedTo
<1>3. QED
  BY <1>1, <1>2 DEF PartitionNext

(* Partition completeness of lines 598-606 for every total_count, every    *)
(* hash and every thread_number that divides init_size.                    *)
THEOREM PartitionCompleteHolds ==
  ASSUME ThreadsDivideIndex
  PROVE  PartitionSpec => []PartitionComplete
<1>1. PartitionIInv => PartitionComplete
  BY CompleteFromIInv DEF PartitionComplete
<1>2. QED
  BY <1>1, PartitionInitIInv, PartitionIInvInductive, PTL DEF PartitionSpec

====
