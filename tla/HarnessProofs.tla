---------------------------- MODULE HarnessProofs ----------------------------
(***************************************************************************)
(* Proofs about main() and its measureWorker rounds (FH_MicroTest.cpp      *)
(* lines 419-500 and 540-667): for every total_count, every number of      *)
(* rounds, every hash and every result the engine returns, provided        *)
(* thread_number divides init_size, every count main prints for a round is *)
(* total_count, and after the first round the engine holds every key.      *)
(***************************************************************************)
EXTENDS Harness, PartitionProofs, TLAPS

(* Every worker index is an index of localloads, and when thread_number    *)
(* divides init_size there are no others.                                  *)
LEMMA LidsAreWorkers ==
  /\ Workers \subseteq Lids
  /\ ThreadsDivideIndex => Lids = Workers
<1>1. Workers \subseteq Lids
  BY DEF Workers, Lids
<1>2. ASSUME ThreadsDivideIndex, NEW h \in HashValues PROVE Lid(h) \in Workers
  BY <1>2, HashValuesAssumption, LidInTids DEF Workers
<1>3. QED
  BY <1>1, <1>2 DEF Lids, Workers

(* Two disjoint finite sets: the keys reported so far and the partition    *)
(* of the thread that reports next.                                        *)
LEMMA DisjointUnionCard ==
  ASSUME NEW A, NEW B, IsFiniteSet(A), IsFiniteSet(B), A \cap B = {}
  PROVE  /\ IsFiniteSet(A \cup B)
         /\ Cardinality(A \cup B) = Cardinality(A) + Cardinality(B)
<1>1. Cardinality(A \cap B) = 0
  BY FS_EmptySet
<1>2. Cardinality(A) \in Nat /\ Cardinality(B) \in Nat
  BY FS_CardinalityType
<1>3. /\ IsFiniteSet(A \cup B)
      /\ Cardinality(A \cup B) = Cardinality(A) + Cardinality(B) - Cardinality(A \cap B)
  BY FS_Union
<1>4. QED
  BY <1>1, <1>2, <1>3

(* Once the partition loop is over the workers' partitions together hold   *)
(* every key, when thread_number divides init_size.                        *)
LEMMA AllKeys ==
  ASSUME ThreadsDivideIndex, PartitionIInv, Partitioned
  PROVE  UNION {KeysOf(w) : w \in Workers} = Keys
<1>1. ASSUME NEW w \in Workers PROVE KeysOf(w) \subseteq Keys
  BY LidsAreWorkers DEF PartitionIInv, AssignedTo, Partitioned, Keys
<1>2. ASSUME NEW k \in Keys PROVE k \in KeysOf(Lid(hash[k])) /\ Lid(hash[k]) \in Workers
  <2>1. hash[k] \in HashValues /\ hash[k] \in Nat
    BY HashValuesAssumption DEF PartitionIInv, PartitionTypeOK
  <2>2. Lid(hash[k]) \in Workers /\ Lid(hash[k]) \in Lids
    BY <2>1, LidInTids, LidsAreWorkers DEF Workers
  <2>3. QED
    BY <2>2 DEF PartitionIInv, AssignedTo, Partitioned, Keys
<1>3. QED
  BY <1>1, <1>2

(* The keys are finite, and so is every set of them.                       *)
LEMMA KeysFinite ==
  /\ IsFiniteSet(Keys)
  /\ Cardinality(Keys) = TotalCount
  /\ \A S \in SUBSET Keys : IsFiniteSet(S)
<1>1. IsFiniteSet(Keys) /\ Cardinality(Keys) = TotalCount
  BY TotalCountAssumption, FS_Interval DEF Keys
<1>2. QED
  BY <1>1, FS_Subset

(* Each partition holds keys only, and two partitions share none.         *)
LEMMA PartitionsDisjoint ==
  ASSUME PartitionIInv
  PROVE  /\ \A t \in Lids : KeysOf(t) \subseteq Keys
         /\ \A v, w \in Lids : v # w => KeysOf(v) \cap KeysOf(w) = {}
<1>1. ASSUME NEW t \in Lids PROVE KeysOf(t) \subseteq Keys
  BY DEF PartitionIInv, PartitionTypeOK, KeysOf
<1>2. ASSUME NEW v \in Lids, NEW w \in Lids, v # w
      PROVE  KeysOf(v) \cap KeysOf(w) = {}
  BY <1>2 DEF PartitionIInv, AssignedTo
<1>3. QED
  BY <1>1, <1>2

-----------------------------------------------------------------------------
(* main() starts with empty partitions, no thread running and zero         *)
(* counters (lines 586-600).                                               *)
LEMMA HarnessInitIInv == HarnessInit => HarnessIInv
<1> SUFFICES ASSUME HarnessInit PROVE HarnessIInv
  OBVIOUS
<1>1. PartitionIInv
  BY PartitionInitIInv DEF HarnessInit
<1>2. PartitionTypeOK
  BY <1>1 DEF PartitionIInv
<1>3. HarnessTypeOK
  <2>1. mainPc \in MainPCs /\ round \in 0..Rounds
    BY RoundsAssumption DEF HarnessInit, MainPCs
  <2>2. firstround \in BOOLEAN /\ readFlag \in BOOLEAN
    BY DEF HarnessInit
  <2>3. wpc \in [Workers -> {"run", "done"}]
    BY DEF HarnessInit
  <2>4. idx \in [Workers -> Nat] /\ hit \in [Workers -> Nat] /\ fail \in [Workers -> Nat]
    BY DEF HarnessInit
  <2>5. success \in Nat /\ failure \in Nat /\ store \in SUBSET Keys
    BY DEF HarnessInit
  <2>6. QED
    BY <1>2, <2>1, <2>2, <2>3, <2>4, <2>5 DEF HarnessTypeOK
<1>4. QED
  BY <1>1, <1>3 DEF HarnessInit, HarnessIInv, InRound, Joined

(* The partition loop changes no counter and runs no thread.              *)
LEMMA PartitioningPreserves ==
  ASSUME HarnessIInv, Partitioning PROVE HarnessIInv'
<1>1. PartitionIInv'
  BY PushLoadPreserves DEF HarnessIInv, Partitioning
<1>2. HarnessTypeOK'
  BY <1>1 DEF HarnessIInv, HarnessTypeOK, PartitionIInv, Partitioning, harnessVars
<1>3. QED
  BY <1>1, <1>2 DEF HarnessIInv, Partitioning, harnessVars, InRound, Joined

(* multiWorkers(false, false, true) starts the insert-only first round     *)
(* with every thread at the start of its partition and nothing reported;   *)
(* success and failure are still zero from their initialisation.          *)
LEMMA StartFirstRoundPreserves ==
  ASSUME HarnessIInv, StartFirstRound PROVE HarnessIInv'
<1>1. Reported' = {}
  BY DEF StartFirstRound, MultiWorkers, Reported
<1>2. Cardinality(Reported') = 0
  BY <1>1, FS_EmptySet
<1>3. HarnessTypeOK'
  BY DEF HarnessIInv, HarnessTypeOK, PartitionTypeOK, StartFirstRound, MultiWorkers,
         partitionVars, MainPCs
<1>4. PartitionIInv'
  BY DEF HarnessIInv, PartitionIInv, PartitionTypeOK, KeysOf, AssignedTo,
         StartFirstRound, partitionVars
<1>5. \A w \in Workers : /\ idx'[w] <= Len(localloads'[w])
                         /\ hit'[w] + fail'[w] = idx'[w]
                         /\ wpc'[w] # "done"
  BY LidsAreWorkers DEF HarnessIInv, HarnessTypeOK, PartitionTypeOK, StartFirstRound,
                        MultiWorkers, partitionVars
<1>6. \A w \in Workers : 1..idx'[w] = {}
  BY DEF StartFirstRound, MultiWorkers
<1>7. QED
  BY <1>2, <1>3, <1>4, <1>5, <1>6
     DEF HarnessIInv, StartFirstRound, MultiWorkers, partitionVars, InRound, Partitioned

(* random_shuffle leaves every partition a sequence of the same distinct   *)
(* keys; the first round has been joined, every thread has upserted its    *)
(* whole partition, so the engine holds every key.                        *)
LEMMA ShufflePartitionsPreserves ==
  ASSUME ThreadsDivideIndex, HarnessIInv, ShufflePartitions PROVE HarnessIInv'
<1>1. PICK perm \in [Lids -> UNION {Shuffles(t) : t \in Lids}] :
             /\ \A t \in Lids : perm[t] \in Shuffles(t)
             /\ localloads' = perm
  BY DEF ShufflePartitions
<1>2. PartitionIInv
  BY DEF HarnessIInv
<1>3. ASSUME NEW t \in Lids
      PROVE  /\ localloads'[t] \in Seq(Keys)
             /\ \A p, q \in DOMAIN localloads'[t] :
                  localloads'[t][p] = localloads'[t][q] => p = q
             /\ KeysOf(t)' = AssignedTo(t)'
  <2> DEFINE S == KeysOf(t)
  <2>1. S \subseteq Keys /\ IsFiniteSet(S)
    BY <1>2, PartitionsDisjoint, KeysFinite
  <2>2. localloads'[t] \in [1..Cardinality(S) -> S]
        /\ \A p, q \in 1..Cardinality(S) : p # q => localloads'[t][p] # localloads'[t][q]
    BY <1>1 DEF Shuffles, SetToSeqs, ToSet, KeysOf
  <2>3. /\ localloads'[t] \in Seq(S)
        /\ \A p, q \in DOMAIN localloads'[t] :
             localloads'[t][p] = localloads'[t][q] => p = q
        /\ {localloads'[t][p] : p \in DOMAIN localloads'[t]} = S
    BY <2>1, <2>2, PermutationKeys
  <2>4. localloads'[t] \in Seq(Keys)
    BY <2>1, <2>3
  <2>5. AssignedTo(t)' = AssignedTo(t)
    BY DEF ShufflePartitions, AssignedTo
  <2>6. QED
    BY <1>2, <2>3, <2>4, <2>5 DEF KeysOf, PartitionIInv
<1>4. PartitionIInv'
  BY <1>1, <1>3 DEF PartitionIInv, PartitionTypeOK, HarnessIInv, HarnessTypeOK,
                    ShufflePartitions
<1>5. HarnessTypeOK'
  BY <1>4 DEF PartitionIInv, HarnessIInv, HarnessTypeOK, ShufflePartitions, MainPCs
<1>6. store = Keys
  <2>1. ASSUME NEW w \in Workers PROVE KeysOf(w) \subseteq store
    <3>1. idx[w] = Len(localloads[w]) /\ \A p \in 1..idx[w] : localloads[w][p] \in store
      BY DEF HarnessIInv, ShufflePartitions, Joined, InRound
    <3>2. localloads[w] \in Seq(Keys)
      BY LidsAreWorkers DEF HarnessIInv, HarnessTypeOK, PartitionTypeOK
    <3>3. QED
      BY <3>1, <3>2 DEF KeysOf
  <2>2. UNION {KeysOf(w) : w \in Workers} = Keys
    BY <1>2, AllKeys DEF HarnessIInv, ShufflePartitions
  <2>3. QED
    BY <2>1, <2>2 DEF HarnessIInv, HarnessTypeOK
<1>7. QED
  BY <1>4, <1>5, <1>6 DEF HarnessIInv, ShufflePartitions, InRound, Joined, Partitioned

(* Lines 634-651: a later round zeroes success and failure and starts     *)
(* every thread at the start of its partition, so nothing is reported yet; *)
(* the engine keeps every key.                                             *)
LEMMA StartLaterRoundPreserves ==
  ASSUME HarnessIInv, StartInsertRound \/ StartReadRound PROVE HarnessIInv'
<1>1. /\ UNCHANGED <<partitionVars, store>>
      /\ success' = 0 /\ failure' = 0
      /\ mainPc' \in {"insert", "read"} /\ round' = round /\ round < Rounds
      /\ \E rd \in BOOLEAN : MultiWorkers(rd, FALSE)
  BY ReadingAssumption DEF HarnessIInv, StartInsertRound, StartReadRound
<1>2. Reported' = {}
  BY <1>1 DEF MultiWorkers, Reported
<1>3. Cardinality(Reported') = 0
  BY <1>2, FS_EmptySet
<1>4. HarnessTypeOK'
  <2>1. PICK rd \in BOOLEAN : MultiWorkers(rd, FALSE)
    BY <1>1
  <2>2. /\ firstround' \in BOOLEAN /\ readFlag' \in BOOLEAN
        /\ wpc' \in [Workers -> {"run", "done"}]
        /\ idx' \in [Workers -> Nat] /\ hit' \in [Workers -> Nat] /\ fail' \in [Workers -> Nat]
    BY <2>1 DEF MultiWorkers
  <2>3. PartitionTypeOK'
    BY <1>1 DEF HarnessIInv, HarnessTypeOK, PartitionTypeOK, partitionVars
  <2>4. QED
    BY <1>1, <2>2, <2>3 DEF HarnessIInv, HarnessTypeOK, MainPCs
<1>5. PartitionIInv'
  BY <1>1 DEF HarnessIInv, PartitionIInv, PartitionTypeOK, KeysOf, AssignedTo,
              partitionVars
<1>6. \A w \in Workers : /\ idx'[w] <= Len(localloads'[w])
                         /\ hit'[w] + fail'[w] = idx'[w]
                         /\ wpc'[w] # "done"
  BY <1>1, LidsAreWorkers DEF HarnessIInv, HarnessTypeOK, PartitionTypeOK,
                              MultiWorkers, partitionVars
<1>7. mainPc # "partition" /\ mainPc # "first"
  BY DEF StartInsertRound, StartReadRound
<1>8. QED
  BY <1>1, <1>3, <1>4, <1>5, <1>6, <1>7
     DEF HarnessIInv, partitionVars, InRound, Partitioned

(* Lines 652-667: main leaves a joined read round for the next iteration,  *)
(* or leaves the loop; no thread runs and nothing is counted.              *)
LEMMA EndRoundPreserves ==
  ASSUME HarnessIInv, EndRound \/ Finish PROVE HarnessIInv'
<1>1. /\ UNCHANGED <<partitionVars, firstround, readFlag, wpc, idx, hit, fail,
                     success, failure, store>>
      /\ mainPc' \in {"loop", "end"}
      /\ mainPc \in {"read", "loop"}
      /\ round' \in 0..Rounds
      /\ Joined
  BY RoundsAssumption DEF HarnessIInv, HarnessTypeOK, EndRound, Finish, InRound
<1>2. HarnessTypeOK'
  BY <1>1 DEF HarnessIInv, HarnessTypeOK, PartitionTypeOK, partitionVars, MainPCs
<1>3. PartitionIInv'
  BY <1>1 DEF HarnessIInv, PartitionIInv, PartitionTypeOK, KeysOf, AssignedTo,
              partitionVars
<1>4. QED
  BY <1>1, <1>2, <1>3 DEF HarnessIInv, partitionVars, InRound, Joined, Partitioned

(* main() has returned: nothing changes.                                   *)
LEMMA StutterPreserves ==
  ASSUME HarnessIInv, UNCHANGED vars PROVE HarnessIInv'
<1>1. UNCHANGED <<hash, n, localloads, mainPc, round, firstround, readFlag, wpc,
                  idx, hit, fail, success, failure, store>>
  BY DEF vars, partitionVars, harnessVars
<1>2. PartitionIInv'
  BY <1>1 DEF HarnessIInv, PartitionIInv, PartitionTypeOK, KeysOf, AssignedTo
<1>3. HarnessTypeOK'
  BY <1>1, <1>2 DEF HarnessIInv, HarnessTypeOK, PartitionIInv
<1>4. Reported' = Reported
  BY <1>1 DEF Reported, KeysOf
<1>5. QED
  BY <1>1, <1>2, <1>3, <1>4 DEF HarnessIInv, InRound, Joined, Partitioned

(* Lines 439-442 and 473-476 with the i++ of the loop: a thread counts     *)
(* one more operation, as a hit or as a failure, and no other's count      *)
(* changes.                                                                *)
LEMMA TallyStep ==
  ASSUME HarnessTypeOK, NEW w \in Workers, NEW ok \in BOOLEAN, Tally(w, ok),
         idx' = [idx EXCEPT ![w] = @ + 1]
  PROVE  /\ idx' \in [Workers -> Nat] /\ hit' \in [Workers -> Nat]
         /\ fail' \in [Workers -> Nat]
         /\ \A v \in Workers :
              /\ hit'[v] + fail'[v] = hit[v] + fail[v] + (IF v = w THEN 1 ELSE 0)
              /\ idx'[v] = idx[v] + (IF v = w THEN 1 ELSE 0)
<1>1. CASE ok
  BY <1>1 DEF HarnessTypeOK, Tally
<1>2. CASE ~ok
  BY <1>2 DEF HarnessTypeOK, Tally
<1>3. QED
  BY <1>1, <1>2

(* A thread runs only inside a round, and its next key is a key.           *)
LEMMA RunningThread ==
  ASSUME HarnessIInv, NEW w \in Workers, wpc[w] = "run",
         idx[w] < Len(localloads[w])
  PROVE  /\ InRound
         /\ w \in Lids
         /\ localloads[w] \in Seq(Keys)
         /\ idx[w] + 1 \in DOMAIN localloads[w]
         /\ Load(w) \in Keys
<1>1. InRound
  BY DEF HarnessIInv, Joined
<1>2. w \in Lids /\ localloads[w] \in Seq(Keys)
  BY LidsAreWorkers DEF HarnessIInv, HarnessTypeOK, PartitionTypeOK
<1>3. idx[w] \in Nat
  BY DEF HarnessIInv, HarnessTypeOK
<1>4. QED
  BY <1>1, <1>2, <1>3 DEF Load

(* UpsertT of line 461: the engine now also holds the thread's key, which  *)
(* in the first round is the next key of its partition.                    *)
LEMMA UpsertOpPreserves ==
  ASSUME HarnessIInv, NEW w \in Workers, UpsertOp(w) PROVE HarnessIInv'
<1>0. /\ UNCHANGED <<partitionVars, mainPc, round, firstround, readFlag, wpc,
                     success, failure>>
      /\ store' = store \cup {Load(w)}
      /\ wpc[w] = "run" /\ idx[w] < Len(localloads[w])
      /\ HarnessTypeOK
  BY DEF UpsertOp, HarnessIInv
<1>1. /\ InRound /\ w \in Lids /\ localloads[w] \in Seq(Keys)
      /\ idx[w] + 1 \in DOMAIN localloads[w] /\ Load(w) \in Keys
  BY <1>0, RunningThread
<1>2. PICK st \in UpsertResults : Tally(w, st # "NotFound")
  BY DEF UpsertOp
<1>3. /\ idx' \in [Workers -> Nat] /\ hit' \in [Workers -> Nat]
      /\ fail' \in [Workers -> Nat]
      /\ \A v \in Workers :
           /\ hit'[v] + fail'[v] = hit[v] + fail[v] + (IF v = w THEN 1 ELSE 0)
           /\ idx'[v] = idx[v] + (IF v = w THEN 1 ELSE 0)
  BY <1>0, <1>2, TallyStep DEF UpsertOp
<1>4. PartitionIInv' /\ Reported' = Reported
  BY <1>0 DEF HarnessIInv, PartitionIInv, PartitionTypeOK, KeysOf, AssignedTo,
              Reported, partitionVars
<1>5. HarnessTypeOK'
  BY <1>0, <1>1, <1>3, <1>4 DEF HarnessTypeOK, PartitionIInv
<1>6. \A v \in Workers :
        /\ idx'[v] <= Len(localloads'[v])
        /\ hit'[v] + fail'[v] = idx'[v]
        /\ wpc'[v] = "done" => idx'[v] = Len(localloads'[v])
  <2>1. \A v \in Workers :
          /\ idx[v] <= Len(localloads[v])
          /\ hit[v] + fail[v] = idx[v]
          /\ wpc[v] = "done" => idx[v] = Len(localloads[v])
    BY <1>1 DEF HarnessIInv
  <2>2. TAKE v \in Workers
  <2>3. idx[v] \in Nat /\ hit[v] \in Nat /\ fail[v] \in Nat
    BY <1>0 DEF HarnessTypeOK
  <2>4. CASE v = w
    BY <2>1, <2>3, <2>4, <1>0, <1>3 DEF partitionVars
  <2>5. CASE v # w
    BY <2>1, <2>3, <2>5, <1>0, <1>3 DEF partitionVars
  <2>6. QED
    BY <2>4, <2>5
<1>7. mainPc = "first" =>
        \A v \in Workers : \A p \in 1..idx'[v] : localloads'[v][p] \in store'
  <2> SUFFICES ASSUME mainPc = "first", NEW v \in Workers, NEW p \in 1..idx'[v]
               PROVE  localloads'[v][p] \in store'
    OBVIOUS
  <2>1. \A u \in Workers : \A r \in 1..idx[u] : localloads[u][r] \in store
    BY DEF HarnessIInv
  <2>2. localloads' = localloads
    BY <1>0 DEF partitionVars
  <2>3. idx[v] \in Nat
    BY <1>0 DEF HarnessTypeOK
  <2>4. CASE v = w /\ p = idx[w] + 1
    BY <1>0, <2>2, <2>4 DEF Load
  <2>5. CASE ~(v = w /\ p = idx[w] + 1)
    <3>1. p \in 1..idx[v]
      BY <2>3, <2>5, <1>3
    <3>2. QED
      BY <3>1, <2>1, <2>2, <1>0
  <2>6. QED
    BY <2>4, <2>5
<1>8. store = Keys => store' = Keys
  BY <1>0, <1>1
<1>9. QED
  BY <1>0, <1>1, <1>4, <1>5, <1>6, <1>7, <1>8
     DEF HarnessIInv, InRound, Partitioned, Joined, partitionVars

(* Read of line 433: a read never happens in the first round (its          *)
(* firstround flag is set), and it leaves the engine's keys alone.         *)
LEMMA ReadOpPreserves ==
  ASSUME HarnessIInv, NEW w \in Workers, ReadOp(w) PROVE HarnessIInv'
<1>0. /\ UNCHANGED <<partitionVars, mainPc, round, firstround, readFlag, wpc,
                     success, failure, store>>
      /\ wpc[w] = "run" /\ idx[w] < Len(localloads[w])
      /\ ~firstround
      /\ HarnessTypeOK
  BY DEF ReadOp, HarnessIInv
<1>1. InRound /\ mainPc # "first"
  BY <1>0, RunningThread DEF HarnessIInv
<1>2. PICK st \in ReadResults(Load(w)) : Tally(w, st = "Ok")
  BY DEF ReadOp
<1>3. /\ idx' \in [Workers -> Nat] /\ hit' \in [Workers -> Nat]
      /\ fail' \in [Workers -> Nat]
      /\ \A v \in Workers :
           /\ hit'[v] + fail'[v] = hit[v] + fail[v] + (IF v = w THEN 1 ELSE 0)
           /\ idx'[v] = idx[v] + (IF v = w THEN 1 ELSE 0)
  BY <1>0, <1>2, TallyStep DEF ReadOp
<1>4. PartitionIInv' /\ Reported' = Reported
  BY <1>0 DEF HarnessIInv, PartitionIInv, PartitionTypeOK, KeysOf, AssignedTo,
              Reported, partitionVars
<1>5. HarnessTypeOK'
  BY <1>0, <1>3, <1>4 DEF HarnessTypeOK, PartitionIInv
<1>6. \A v \in Workers :
        /\ idx'[v] <= Len(localloads'[v])
        /\ hit'[v] + fail'[v] = idx'[v]
        /\ wpc'[v] = "done" => idx'[v] = Len(localloads'[v])
  <2>1. \A v \in Workers :
          /\ idx[v] <= Len(localloads[v])
          /\ hit[v] + fail[v] = idx[v]
          /\ wpc[v] = "done" => idx[v] = Len(localloads[v])
    BY <1>1 DEF HarnessIInv
  <2>2. TAKE v \in Workers
  <2>3. idx[v] \in Nat /\ hit[v] \in Nat /\ fail[v] \in Nat
    BY <1>0 DEF HarnessTypeOK
  <2>4. CASE v = w
    BY <2>1, <2>3, <2>4, <1>0, <1>3 DEF partitionVars
  <2>5. CASE v # w
    BY <2>1, <2>3, <2>5, <1>0, <1>3 DEF partitionVars
  <2>6. QED
    BY <2>4, <2>5
<1>7. QED
  BY <1>0, <1>1, <1>4, <1>5, <1>6
     DEF HarnessIInv, InRound, Partitioned, Joined, partitionVars

(* Lines 491-499: the thread has walked its whole partition; its atomic    *)
(* adds bring the globals to the count of the keys of every finished       *)
(* thread, its own included, since no other partition holds its keys.      *)
LEMMA FinishWorkerPreserves ==
  ASSUME HarnessIInv, NEW w \in Workers, FinishWorker(w) PROVE HarnessIInv'
<1>0. /\ UNCHANGED <<partitionVars, mainPc, round, firstround, readFlag, idx, hit,
                     fail, store>>
      /\ wpc[w] = "run" /\ idx[w] = Len(localloads[w])
      /\ success' = success + hit[w] /\ failure' = failure + fail[w]
      /\ wpc' = [wpc EXCEPT ![w] = "done"]
      /\ HarnessTypeOK /\ PartitionIInv
  BY DEF FinishWorker, HarnessIInv
<1>1. InRound
  BY <1>0 DEF HarnessIInv, Joined
<1>2. /\ \A v \in Workers :
           /\ idx[v] <= Len(localloads[v])
           /\ hit[v] + fail[v] = idx[v]
           /\ wpc[v] = "done" => idx[v] = Len(localloads[v])
      /\ success + failure = Cardinality(Reported)
  BY <1>1 DEF HarnessIInv
<1> DEFINE Done == {v \in Workers : wpc[v] = "done"}
<1>3. Reported' = Reported \cup KeysOf(w)
  <2>1. {v \in Workers : wpc'[v] = "done"} = Done \cup {w}
    BY <1>0 DEF HarnessTypeOK
  <2>2. \A v \in Workers : KeysOf(v)' = KeysOf(v)
    BY <1>0 DEF KeysOf, partitionVars
  <2>3. QED
    BY <2>1, <2>2 DEF Reported
<1>4. Reported \cap KeysOf(w) = {}
  <2>1. w \notin Done /\ Done \subseteq Lids /\ w \in Lids
    BY <1>0, LidsAreWorkers
  <2>2. QED
    BY <1>0, <2>1, PartitionsDisjoint DEF Reported
<1>5. /\ IsFiniteSet(Reported) /\ IsFiniteSet(KeysOf(w))
      /\ Cardinality(KeysOf(w)) = idx[w]
  <2>1. Reported \subseteq Keys /\ KeysOf(w) \subseteq Keys
    BY <1>0, LidsAreWorkers, PartitionsDisjoint DEF Reported
  <2>2. localloads[w] \in Seq(Keys)
    BY <1>0, LidsAreWorkers DEF HarnessTypeOK, PartitionTypeOK
  <2>3. \A p, q \in DOMAIN localloads[w] : localloads[w][p] = localloads[w][q] => p = q
    BY <1>0, LidsAreWorkers DEF PartitionIInv
  <2>4. Cardinality(KeysOf(w)) = Len(localloads[w])
    BY <2>2, <2>3, InjectiveSeqCard DEF KeysOf
  <2>5. QED
    BY <1>0, <2>1, <2>4, KeysFinite
<1>6. success' + failure' = Cardinality(Reported')
  <2>1. Cardinality(Reported') = Cardinality(Reported) + idx[w]
    BY <1>3, <1>4, <1>5, DisjointUnionCard
  <2>2. hit[w] \in Nat /\ fail[w] \in Nat /\ success \in Nat /\ failure \in Nat
    BY <1>0 DEF HarnessTypeOK
  <2>3. hit[w] + fail[w] = idx[w] /\ success + failure = Cardinality(Reported)
    BY <1>2
  <2>4. success' = success + hit[w] /\ failure' = failure + fail[w]
    BY <1>0
  <2>5. QED
    BY <2>1, <2>2, <2>3, <2>4
<1>7. PartitionIInv'
  BY <1>0 DEF PartitionIInv, PartitionTypeOK, KeysOf, AssignedTo, partitionVars
<1>8. HarnessTypeOK'
  BY <1>0, <1>7 DEF HarnessTypeOK, PartitionIInv
<1>9. \A v \in Workers :
        /\ idx'[v] <= Len(localloads'[v])
        /\ hit'[v] + fail'[v] = idx'[v]
        /\ wpc'[v] = "done" => idx'[v] = Len(localloads'[v])
  BY <1>0, <1>2 DEF partitionVars
<1>10. QED
  BY <1>0, <1>1, <1>6, <1>7, <1>8, <1>9
     DEF HarnessIInv, InRound, Partitioned, Joined, partitionVars

-----------------------------------------------------------------------------
(* Every step of main() and of its threads keeps HarnessIInv.              *)
LEMMA HarnessIInvInductive ==
  ASSUME ThreadsDivideIndex
  PROVE  HarnessIInv /\ [Next]_vars => HarnessIInv'
<1> SUFFICES ASSUME HarnessIInv, [Next]_vars PROVE HarnessIInv'
  OBVIOUS
<1>1. CASE Partitioning
  BY <1>1, PartitioningPreserves
<1>2. CASE StartFirstRound
  BY <1>2, StartFirstRoundPreserves
<1>3. CASE ShufflePartitions
  BY <1>3, ShufflePartitionsPreserves
<1>4. CASE StartInsertRound \/ StartReadRound
  BY <1>4, StartLaterRoundPreserves
<1>5. CASE EndRound \/ Finish
  BY <1>5, EndRoundPreserves
<1>6. ASSUME NEW w \in Workers, MeasureWorker(w) PROVE HarnessIInv'
  BY <1>6, UpsertOpPreserves, ReadOpPreserves, FinishWorkerPreserves DEF MeasureWorker
<1>7. CASE UNCHANGED vars
  BY <1>7, StutterPreserves
<1>8. QED
  BY <1>1, <1>2, <1>3, <1>4, <1>5, <1>6, <1>7 DEF Next

(* The invariant holds in every state main() reaches.                      *)
THEOREM HarnessIInvHolds ==
  ASSUME ThreadsDivideIndex
  PROVE  Spec => []HarnessIInv
BY HarnessInitIInv, HarnessIInvInductive, PTL DEF Spec

(* Spec 8, conservation: every count main prints after joining a round's   *)
(* threads (lines 619, 644, 652) has success + failure = total_count, for  *)
(* every interleaving of the threads' atomic adds, every engine result and *)
(* every shuffle, when thread_number divides init_size.                    *)
THEOREM ConservationHolds ==
  ASSUME ThreadsDivideIndex
  PROVE  Spec => []Conservation
<1>1. ASSUME HarnessIInv, Reporting PROVE success + failure = TotalCount
  <2>1. {v \in Workers : wpc[v] = "done"} = Workers
    BY <1>1 DEF Reporting, Joined
  <2>2. Reported = Keys
    BY <1>1, <2>1, AllKeys DEF Reported, HarnessIInv, Reporting, InRound
  <2>3. QED
    BY <1>1, <2>2, KeysFinite DEF HarnessIInv, Reporting, InRound
<1>2. QED
  BY <1>1, HarnessIInvHolds, PTL DEF Conservation

(* Once the first round is joined the engine holds every key of the domain *)
(* (what the read rounds count as hits), when thread_number divides        *)
(* init_size.                                                              *)
THEOREM StoreCompleteHolds ==
  ASSUME ThreadsDivideIndex
  PROVE  Spec => []StoreComplete
<1>1. HarnessIInv => StoreComplete
  BY DEF HarnessIInv, StoreComplete
<1>2. QED
  BY <1>1, HarnessIInvHolds, PTL

(* Partition completeness in every state of main(), the shuffles of line   *)
(* 630 included, when thread_number divides init_size.                     *)
THEOREM HarnessPartitionCompleteHolds ==
  ASSUME ThreadsDivideIndex
  PROVE  Spec => []PartitionComplete
<1>1. HarnessIInv => PartitionComplete
  BY CompleteFromIInv DEF HarnessIInv, PartitionComplete
<1>2. QED
  BY <1>1, HarnessIInvHolds, PTL

====
