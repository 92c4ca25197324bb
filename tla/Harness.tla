------------------------------- MODULE Harness --------------------------------
(***************************************************************************)
(* main() of FH_MicroTest.cpp after the partition loop, with the rounds it *)
(* runs through multiWorkers() and the measureWorker threads.  main runs   *)
(* a first insert-only round, shuffles every partition, and then Rounds    *)
(* times an insert round and a round that reads when Reading is set.       *)
(* Before every round but the first it zeroes the global counters success  *)
(* and failure; each round spawns one thread per partition, which walks    *)
(* its partition issuing Upsert or Read, tallies hits and failures         *)
(* locally, and at its end adds them to the globals with                   *)
(* __sync_fetch_and_add.  main prints the globals after joining.           *)
(*                                                                         *)
(* The engine's key-value content is the set store of keys it holds.  Its  *)
(* results are the ones spec 6 lists: UpsertT returns one of               *)
(* UpsertResults, a Read of a stored key one of PresentReadResults, and a  *)
(* Read of a missing key NotFound.  Elapsed times, the throughput line and *)
(* NUMA pinning are left out (see Placement).                              *)
(***************************************************************************)
EXTENDS Partition, SequencesExt

CONSTANTS
  Rounds,              \* rounds, argv[4]
  Reading,             \* reading, argv[5] == 1
  UpsertResults,       \* the statuses UpsertT may return
  PresentReadResults   \* the statuses Read may return for a stored key

Statuses == {"Ok", "Pending", "NotFound"}

ASSUME RoundsAssumption == Rounds \in Nat
ASSUME ReadingAssumption == Reading \in BOOLEAN
ASSUME ResultsAssumption ==
  UpsertResults \subseteq Statuses /\ PresentReadResults \subseteq Statuses

VARIABLES
  mainPc,      \* where main() is
  round,       \* the loop index of line 634
  firstround,  \* parms[i].firstround of the running round
  readFlag,    \* parms[i].read of the running round
  wpc,         \* "run" or "done" for each measureWorker thread
  idx,         \* each thread's loop index i of line 422
  hit,         \* each thread's local hit count
  fail,        \* each thread's local fail count
  success,     \* the global success counter
  failure,     \* the global failure counter
  store        \* the keys the engine holds

harnessVars ==
  <<mainPc, round, firstround, readFlag, wpc, idx, hit, fail, success, failure, store>>

vars == <<partitionVars, harnessVars>>

MainPCs == {"partition", "first", "loop", "insert", "read", "end"}

Workers == Tids

-----------------------------------------------------------------------------
(* Lines 540-574, multiWorkers(random, read, firstround): set the flags of *)
(* every parms[i] and start measureWorker i with zeroed local counters.    *)
MultiWorkers(read, first) ==
  /\ firstround' = first
  /\ readFlag' = read
  /\ wpc' = [w \in Workers |-> "run"]
  /\ idx' = [w \in Workers |-> 0]
  /\ hit' = [w \in Workers |-> 0]
  /\ fail' = [w \in Workers |-> 0]

(* pthread_join has returned for every thread of the round.                *)
Joined == \A w \in Workers : wpc[w] = "done"

HarnessInit ==
  /\ PartitionInit
  /\ mainPc = "partition"
  /\ round = 0
  /\ firstround = FALSE
  /\ readFlag = FALSE
  /\ wpc = [w \in Workers |-> "done"]
  /\ idx = [w \in Workers |-> 0]
  /\ hit = [w \in Workers |-> 0]
  /\ fail = [w \in Workers |-> 0]
  /\ success = 0
  /\ failure = 0
  /\ store = {}

(* Lines 601-606: the partition loop.                                      *)
Partitioning ==
  /\ mainPc = "partition"
  /\ PushLoad
  /\ UNCHANGED harnessVars

(* Mutant: the first call with its read and firstround arguments swapped. *)
StartFirstRoundSwapped ==
  /\ mainPc = "partition"
  /\ Partitioned
  /\ MultiWorkers(TRUE, FALSE)
  /\ mainPc' = "first"
  /\ UNCHANGED <<partitionVars, round, success, failure, store>>

(* Lines 607-618: Permutate() (whose result loads no worker reads with     *)
(* LOCAL_TYPE 1), prepare(), and multiWorkers(false, false, true).         *)
StartFirstRound ==
  /\ mainPc = "partition"
  /\ Partitioned
  /\ MultiWorkers(FALSE, TRUE)
  /\ mainPc' = "first"
  /\ UNCHANGED <<partitionVars, round, success, failure, store>>

(* The orders std::random_shuffle can leave partition t in; its keys are  *)
(* distinct.                                                               *)
Shuffles(t) == SetToSeqs(ToSet(localloads[t]))

(* Lines 619-633: print, then random_shuffle every partition.              *)
ShufflePartitions ==
  /\ mainPc = "first"
  /\ Joined
  /\ \E perm \in [Lids -> UNION {Shuffles(t) : t \in Lids}] :
       /\ \A t \in Lids : perm[t] \in Shuffles(t)
       /\ localloads' = perm
  /\ mainPc' = "loop"
  /\ UNCHANGED <<hash, n, round, firstround, readFlag, wpc, idx, hit, fail,
                 success, failure, store>>

(* Lines 634-643: another round: zero the counters, multiWorkers(false, false). *)
StartInsertRound ==
  /\ mainPc = "loop"
  /\ round < Rounds
  /\ success' = 0
  /\ failure' = 0
  /\ MultiWorkers(FALSE, FALSE)
  /\ mainPc' = "insert"
  /\ UNCHANGED <<partitionVars, round, store>>

(* Mutant: the counters are not zeroed before the second round.            *)
StartReadRoundNoReset ==
  /\ mainPc = "insert"
  /\ Joined
  /\ MultiWorkers(Reading, FALSE)
  /\ mainPc' = "read"
  /\ UNCHANGED <<partitionVars, round, success, failure, store>>

(* Lines 644-651: print, zero the counters, multiWorkers(true, reading).   *)
StartReadRound ==
  /\ mainPc = "insert"
  /\ Joined
  /\ success' = 0
  /\ failure' = 0
  /\ MultiWorkers(Reading, FALSE)
  /\ mainPc' = "read"
  /\ UNCHANGED <<partitionVars, round, store>>

(* Lines 652-659: print, stopMeasure.store(0), next iteration.             *)
EndRound ==
  /\ mainPc = "read"
  /\ Joined
  /\ round' = round + 1
  /\ mainPc' = "loop"
  /\ UNCHANGED <<partitionVars, firstround, readFlag, wpc, idx, hit, fail,
                 success, failure, store>>

(* Lines 664-667: free(loads), finish(), return.                           *)
Finish ==
  /\ mainPc = "loop"
  /\ round = Rounds
  /\ mainPc' = "end"
  /\ UNCHANGED <<partitionVars, round, firstround, readFlag, wpc, idx, hit, fail,
                 success, failure, store>>

-----------------------------------------------------------------------------
(* The key measureWorker w handles in this iteration (line 433/461).       *)
Load(w) == localloads[w][idx[w] + 1]

(* Lines 439-442 and 473-476: count the operation as a hit or a failure.   *)
Tally(w, ok) ==
  /\ hit' = IF ok THEN [hit EXCEPT ![w] = @ + 1] ELSE hit
  /\ fail' = IF ok THEN fail ELSE [fail EXCEPT ![w] = @ + 1]

(* Lines 453-476: UpsertT of <load, load>; a failure only when NotFound.    *)
UpsertOp(w) ==
  /\ wpc[w] = "run"
  /\ idx[w] < Len(localloads[w])
  /\ ~(~firstround /\ readFlag)
  /\ \E st \in UpsertResults : Tally(w, st # "NotFound")
  /\ store' = store \cup {Load(w)}
  /\ idx' = [idx EXCEPT ![w] = @ + 1]
  /\ UNCHANGED <<partitionVars, mainPc, round, firstround, readFlag, wpc,
                 success, failure>>

(* The statuses Read may return for key k.                                 *)
ReadResults(k) == IF k \in store THEN PresentReadResults ELSE {"NotFound"}

(* Lines 424-442: Read of load; a hit only when Ok.                        *)
ReadOp(w) ==
  /\ wpc[w] = "run"
  /\ idx[w] < Len(localloads[w])
  /\ ~firstround /\ readFlag
  /\ \E st \in ReadResults(Load(w)) : Tally(w, st = "Ok")
  /\ idx' = [idx EXCEPT ![w] = @ + 1]
  /\ UNCHANGED <<partitionVars, mainPc, round, firstround, readFlag, wpc,
                 success, failure, store>>

(* Lines 491-499: StopSession and the atomic adds to the globals.          *)
FinishWorker(w) ==
  /\ wpc[w] = "run"
  /\ idx[w] = Len(localloads[w])
  /\ success' = success + hit[w]
  /\ failure' = failure + fail[w]
  /\ wpc' = [wpc EXCEPT ![w] = "done"]
  /\ UNCHANGED <<partitionVars, mainPc, round, firstround, readFlag, idx, hit,
                 fail, store>>

MeasureWorker(w) == UpsertOp(w) \/ ReadOp(w) \/ FinishWorker(w)

Next ==
  \/ Partitioning
  \/ StartFirstRound
  \/ ShufflePartitions
  \/ StartInsertRound
  \/ StartReadRound
  \/ EndRound
  \/ Finish
  \/ \E w \in Workers : MeasureWorker(w)
  \/ mainPc = "end" /\ UNCHANGED vars

Spec == HarnessInit /\ [][Next]_vars

-----------------------------------------------------------------------------
HarnessTypeOK ==
  /\ PartitionTypeOK
  /\ mainPc \in MainPCs
  /\ round \in 0..Rounds
  /\ firstround \in BOOLEAN
  /\ readFlag \in BOOLEAN
  /\ wpc \in [Workers -> {"run", "done"}]
  /\ idx \in [Workers -> Nat]
  /\ hit \in [Workers -> Nat]
  /\ fail \in [Workers -> Nat]
  /\ success \in Nat
  /\ failure \in Nat
  /\ store \in SUBSET Keys

(* main prints the counters of a round after joining its threads.          *)
Reporting == mainPc \in {"first", "insert", "read"} /\ Joined

(* Spec 8, conservation: every line main prints for a round counts each    *)
(* key of the domain once, success + failure = total_count, across the     *)
(* threads' atomic adds, the resets between rounds and the reshuffles.     *)
Conservation == Reporting => success + failure = TotalCount

(* Once the first, insert-only round has been joined, the engine holds     *)
(* every key of the domain: what the later read rounds count as hits.      *)
StoreComplete ==
  mainPc \notin {"partition", "first"} => store = Keys


-----------------------------------------------------------------------------
(* The keys of the partitions whose threads have added their counts to the *)
(* globals in the running round.                                           *)
Reported == UNION {KeysOf(w) : w \in {v \in Workers : wpc[v] = "done"}}

(* A round is running or has just been joined.                             *)
InRound == mainPc \in {"first", "insert", "read"}

(* The inductive invariant behind Conservation, StoreComplete and          *)
(* PartitionComplete.  Within a round every thread has counted each key    *)
(* it handled once and stopped at the end of its partition, and the        *)
(* globals count the keys of the threads that have finished; during the    *)
(* first round the engine holds every key upserted so far, and after it    *)
(* every key.                                                              *)
HarnessIInv ==
  /\ HarnessTypeOK
  /\ PartitionIInv
  /\ mainPc # "partition" => Partitioned
  /\ mainPc = "partition" => success = 0 /\ failure = 0
  /\ ~InRound => Joined
  /\ mainPc \in {"insert", "read"} => round < Rounds
  /\ InRound =>
       /\ \A w \in Workers :
            /\ idx[w] <= Len(localloads[w])
            /\ hit[w] + fail[w] = idx[w]
            /\ wpc[w] = "done" => idx[w] = Len(localloads[w])
       /\ success + failure = Cardinality(Reported)
  /\ mainPc = "first" =>
       /\ firstround /\ ~readFlag
       /\ \A w \in Workers : \A p \in 1..idx[w] : localloads[w][p] \in store
  /\ mainPc \notin {"partition", "first"} => store = Keys

=============================================================================
