--------------------------- MODULE GCCoordinator ------------------------------
(***************************************************************************)
(* The garbage-collection election of FH_MicroTest.cpp: GC() starts one    *)
(* gcWorker thread per worker and joins them.  Each upserts keys           *)
(* total_count .. 2*total_count-1; at every CheckpointInterval-th key it   *)
(* tries compare_exchange_strong(0, 1) on stopMeasure, and the winner asks *)
(* the engine to collect garbage.  At refresh points a worker that sees    *)
(* the flag set and the engine's Gcflag raised breaks out; a worker whose  *)
(* loop ends stops its session whatever the engine is doing: unlike        *)
(* checkWorker there is no goto back into the loop.                        *)
(*                                                                         *)
(* The engine is not in this repository: GrabageCollecton() starts a       *)
(* collection when none is running and returns false otherwise; the       *)
(* engine finishes it on its own and then raises Gcflag.                   *)
(***************************************************************************)
EXTENDS Naturals

CONSTANTS
  Workers,                  \* the gcWorker threads
  TotalCount,               \* total_count: the loop runs from it to twice it
  CheckpointInterval,       \* kCheckpointInterval
  RefreshInterval,          \* kRefreshInterval
  CompletePendingInterval   \* kCompletePendingInterval

ASSUME GcWorkersAssumption == Workers # {}
ASSUME GcTotalCountAssumption == TotalCount \in Nat
ASSUME GcIntervalAssumption ==
  {CheckpointInterval, RefreshInterval, CompletePendingInterval} \subseteq Nat \ {0}

VARIABLES
  pc,           \* where each worker is in gcWorker
  i,            \* each worker's loop index
  stopMeasure,  \* the shared election flag
  gcPhase,      \* engine: "idle", "running" or "finished"
  gcsIssued,    \* engine: collections it accepted
  winners       \* history: the workers whose compare-exchange succeeded

vars == <<pc, i, stopMeasure, gcPhase, gcsIssued, winners>>

(* store.Gcflag: the engine's collection has finished.                     *)
Gcflag == gcPhase = "finished"

TriggerPoint(m) == m % CheckpointInterval = 0 /\ m # 0

RefreshPoint(m) == m % CompletePendingInterval # 0 /\ m % RefreshInterval = 0

(* Line 332: the loop test, from i = total_count on.                       *)
InLoop(m) == m < 2 * TotalCount

Init ==
  /\ pc = [w \in Workers |-> IF InLoop(TotalCount) THEN "op" ELSE "done"]
  /\ i = [w \in Workers |-> TotalCount]
  /\ stopMeasure = 0
  /\ gcPhase = "idle"
  /\ gcsIssued = 0
  /\ winners = {}

(* Lines 343-348: Refresh1, UpsertT, and no election won this time.        *)
Upsert(w) ==
  /\ pc[w] = "op"
  /\ ~(TriggerPoint(i[w]) /\ stopMeasure = 0)
  /\ pc' = [pc EXCEPT ![w] = "maint"]
  /\ UNCHANGED <<i, stopMeasure, gcPhase, gcsIssued, winners>>

(* Mutant: a plain store instead of compare_exchange_strong.               *)
WinElectionNoCAS(w) ==
  /\ pc[w] = "op"
  /\ TriggerPoint(i[w])
  /\ stopMeasure' = 1
  /\ winners' = winners \cup {w}
  /\ pc' = [pc EXCEPT ![w] = "gc"]
  /\ UNCHANGED <<i, gcPhase, gcsIssued>>

(* Lines 343-348: Refresh1, UpsertT, and the compare-exchange succeeds.    *)
WinElection(w) ==
  /\ pc[w] = "op"
  /\ TriggerPoint(i[w])
  /\ stopMeasure = 0
  /\ stopMeasure' = 1
  /\ winners' = winners \cup {w}
  /\ pc' = [pc EXCEPT ![w] = "gc"]
  /\ UNCHANGED <<i, gcPhase, gcsIssued>>

(* Lines 349-353: GrabageCollecton(a, nullptr, nullptr).                   *)
GarbageCollect(w) ==
  /\ pc[w] = "gc"
  /\ gcPhase' = IF gcPhase = "idle" THEN "running" ELSE gcPhase
  /\ gcsIssued' = IF gcPhase = "idle" THEN gcsIssued + 1 ELSE gcsIssued
  /\ pc' = [pc EXCEPT ![w] = "maint"]
  /\ UNCHANGED <<i, stopMeasure, winners>>

(* Lines 357-360: Refresh2 sees the flag and Gcflag: break, StopSession.   *)
BreakOut(w) ==
  /\ pc[w] = "maint"
  /\ RefreshPoint(i[w]) /\ stopMeasure = 1 /\ Gcflag
  /\ pc' = [pc EXCEPT ![w] = "done"]
  /\ UNCHANGED <<i, stopMeasure, gcPhase, gcsIssued, winners>>

(* Lines 355-362: CompletePending or Refresh2 without a break, i++, the    *)
(* loop test, and StopSession (line 364) when the loop is over.            *)
NextIteration(w) ==
  /\ pc[w] = "maint"
  /\ ~(RefreshPoint(i[w]) /\ stopMeasure = 1 /\ Gcflag)
  /\ i' = [i EXCEPT ![w] = @ + 1]
  /\ pc' = [pc EXCEPT ![w] = IF InLoop(i[w] + 1) THEN "op" ELSE "done"]
  /\ UNCHANGED <<stopMeasure, gcPhase, gcsIssued, winners>>

(* The engine finishes the collection and raises Gcflag.                   *)
FinishGc ==
  /\ gcPhase = "running"
  /\ gcPhase' = "finished"
  /\ UNCHANGED <<pc, i, stopMeasure, gcsIssued, winners>>

GcWorker(w) ==
  \/ Upsert(w) \/ WinElection(w) \/ GarbageCollect(w)
  \/ BreakOut(w) \/ NextIteration(w)

(* GC() has joined every thread and prints "garbage collection done".      *)
Joined == \A w \in Workers : pc[w] = "done"

Next ==
  \/ \E w \in Workers : GcWorker(w)
  \/ FinishGc
  \/ Joined /\ UNCHANGED vars

Spec == Init /\ [][Next]_vars

-----------------------------------------------------------------------------
(* At most one worker wins the compare-exchange at line 348, the flag is   *)
(* set exactly when one has, and the engine is asked for one collection.   *)
GcElectionExclusive ==
  /\ \A a, b \in winners : a = b
  /\ (stopMeasure = 1) <=> (winners # {})
  /\ gcsIssued <= 1

(* Spec 4.4 gives GC "the same election pattern" as the checkpoint: when   *)
(* GC() has joined every thread after an election, the collection it      *)
(* started has finished.                                                   *)
JoinAfterGc == Joined /\ stopMeasure = 1 => gcsIssued = 1 /\ Gcflag

GcTypeOK ==
  /\ pc \in [Workers -> {"op", "gc", "maint", "done"}]
  /\ i \in [Workers -> Nat]
  /\ stopMeasure \in {0, 1}
  /\ gcPhase \in {"idle", "running", "finished"}
  /\ gcsIssued \in Nat
  /\ winners \in SUBSET Workers

(* The winner's progress: the engine is idle until the winner calls        *)
(* GrabageCollecton(), which it does once, and leaves the engine busy or   *)
(* finished with the one collection.                                       *)
GcWinnerProgress ==
  /\ \A w \in Workers :
       /\ pc[w] = "gc" => w \in winners /\ gcsIssued = 0
       /\ w \in winners /\ pc[w] # "gc" => gcsIssued = 1
  /\ gcsIssued = 1 => winners # {}
  /\ (gcPhase = "idle") <=> (gcsIssued = 0)

(* The inductive invariant behind GcElectionExclusive.                    *)
GcIInv == GcTypeOK /\ GcElectionExclusive /\ GcWinnerProgress

=============================================================================
