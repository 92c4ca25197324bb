------------------------- MODULE CheckpointCoordinator -------------------------
(***************************************************************************)
(* The checkpoint election of FH_MicroTest.cpp: multiPoints() starts one   *)
(* checkWorker thread per worker and joins them.  Every worker upserts in  *)
(* a loop of LoopEnd iterations; at every CheckpointInterval-th iteration  *)
(* (but not the 0th) it tries compare_exchange_strong(0, 1) on the shared  *)
(* flag stopMeasure, and the single winner asks the engine for a           *)
(* checkpoint.  At refresh points every worker counts how often it sees    *)
(* the flag set and the checkpoint finished, and breaks out after          *)
(* ObserveQuota such sightings.  When the loop ends and the engine still   *)
(* has a checkpoint in progress the worker starts the loop again           *)
(* (goto s); otherwise it stops its session and the thread ends.           *)
(*                                                                         *)
(* The storage engine is not part of this repository.  Its checkpoint      *)
(* state is the phase ckptPhase: Checkpoint() moves it from "rest" to      *)
(* "in_progress" (and returns false when it is not at rest), the engine    *)
(* finishes the checkpoint on its own, and CheckpointCheck() reports that  *)
(* no checkpoint is in progress.  The upserted data is abstracted away:    *)
(* nothing in the election reads it.                                       *)
(***************************************************************************)
EXTENDS Naturals, FiniteSets

CONSTANTS
  Workers,                  \* the checkWorker threads (thread_number of them)
  LoopEnd,                  \* total_count * 2, the bound of the loop at line 275
  CheckpointInterval,       \* kCheckpointInterval
  RefreshInterval,          \* kRefreshInterval
  CompletePendingInterval,  \* kCompletePendingInterval
  ObserveQuota              \* the literal 10 of line 308

ASSUME WorkersAssumption == Workers # {} /\ IsFiniteSet(Workers)
ASSUME LoopEndAssumption == LoopEnd \in Nat \ {0}
ASSUME IntervalAssumption ==
  {CheckpointInterval, RefreshInterval, CompletePendingInterval} \subseteq Nat \ {0}
ASSUME QuotaAssumption == ObserveQuota \in Nat \ {0}

VARIABLES
  pc,           \* where each worker is in checkWorker
  i,            \* each worker's loop index
  j,            \* each worker's count of completed-checkpoint sightings
  stopMeasure,  \* the shared atomic<int> election flag
  ckptPhase,    \* engine: "rest" or "in_progress"
  ckptsIssued,  \* engine: checkpoints it accepted
  ckptsDone,    \* engine: checkpoints it finished
  winners       \* history: the workers whose compare-exchange succeeded

vars == <<pc, i, j, stopMeasure, ckptPhase, ckptsIssued, ckptsDone, winners>>

(* "op": about to upsert i; "ckpt": won the election, about to call         *)
(* Checkpoint(); "maint": at the CompletePending/Refresh2 point; "after":   *)
(* past the loop, at the check of line 316; "done": session stopped.       *)
PCs == {"op", "ckpt", "maint", "after", "done"}

-----------------------------------------------------------------------------
(* store.CheckpointCheck(): no checkpoint is in progress in the engine.    *)
CheckpointCheck == ckptPhase = "rest"

(* The guard of the election at line 290 before the compare-exchange.      *)
TriggerPoint(n) == n % CheckpointInterval = 0 /\ n # 0

(* Iteration n reaches the Refresh2 branch (line 303), not CompletePending. *)
RefreshPoint(n) == n % CompletePendingInterval # 0 /\ n % RefreshInterval = 0

(* The test of line 305 succeeds for worker w in this iteration.           *)
Observes(w) == RefreshPoint(i[w]) /\ stopMeasure = 1 /\ CheckpointCheck

Init ==
  /\ pc = [w \in Workers |-> "op"]
  /\ i = [w \in Workers |-> 0]
  /\ j = [w \in Workers |-> 0]
  /\ stopMeasure = 0
  /\ ckptPhase = "rest"
  /\ ckptsIssued = 0
  /\ ckptsDone = 0
  /\ winners = {}

(* Lines 285-290: Refresh1 and UpsertT, and no election won this time.     *)
Upsert(w) ==
  /\ pc[w] = "op"
  /\ ~(TriggerPoint(i[w]) /\ stopMeasure = 0)
  /\ pc' = [pc EXCEPT ![w] = "maint"]
  /\ UNCHANGED <<i, j, stopMeasure, ckptPhase, ckptsIssued, ckptsDone, winners>>

(* Mutant: a plain load and store instead of compare_exchange_strong.     *)
WinElectionNoCAS(w) ==
  /\ pc[w] = "op"
  /\ TriggerPoint(i[w])
  /\ stopMeasure' = 1
  /\ winners' = winners \cup {w}
  /\ pc' = [pc EXCEPT ![w] = "ckpt"]
  /\ UNCHANGED <<i, j, ckptPhase, ckptsIssued, ckptsDone>>

(* Lines 285-290: Refresh1, UpsertT, and the compare-exchange succeeds.    *)
WinElection(w) ==
  /\ pc[w] = "op"
  /\ TriggerPoint(i[w])
  /\ stopMeasure = 0
  /\ stopMeasure' = 1
  /\ winners' = winners \cup {w}
  /\ pc' = [pc EXCEPT ![w] = "ckpt"]
  /\ UNCHANGED <<i, j, ckptPhase, ckptsIssued, ckptsDone>>

(* Lines 291-299: store.Checkpoint(); the engine accepts it only at rest.  *)
Checkpoint(w) ==
  /\ pc[w] = "ckpt"
  /\ ckptPhase' = "in_progress"
  /\ ckptsIssued' = IF ckptPhase = "rest" THEN ckptsIssued + 1 ELSE ckptsIssued
  /\ pc' = [pc EXCEPT ![w] = "maint"]
  /\ UNCHANGED <<i, j, stopMeasure, ckptsDone, winners>>

(* Lines 305-310: the ObserveQuota-th sighting; j := i and break.          *)
BreakOut(w) ==
  /\ pc[w] = "maint"
  /\ Observes(w)
  /\ j[w] + 1 = ObserveQuota
  /\ j' = [j EXCEPT ![w] = i[w]]
  /\ pc' = [pc EXCEPT ![w] = "after"]
  /\ UNCHANGED <<i, stopMeasure, ckptPhase, ckptsIssued, ckptsDone, winners>>

(* Mutant: the loop test of line 275 as i <= LoopEnd.                    *)
NextIterationPastEnd(w) ==
  /\ pc[w] = "maint"
  /\ ~(Observes(w) /\ j[w] + 1 = ObserveQuota)
  /\ j' = [j EXCEPT ![w] = IF Observes(w) THEN @ + 1 ELSE @]
  /\ i' = [i EXCEPT ![w] = @ + 1]
  /\ pc' = [pc EXCEPT ![w] = IF i[w] + 1 <= LoopEnd THEN "op" ELSE "after"]
  /\ UNCHANGED <<stopMeasure, ckptPhase, ckptsIssued, ckptsDone, winners>>

(* Lines 301-315: CompletePending or Refresh2 (counting a sighting), then  *)
(* i++ and the loop test of line 275.                                      *)
NextIteration(w) ==
  /\ pc[w] = "maint"
  /\ ~(Observes(w) /\ j[w] + 1 = ObserveQuota)
  /\ j' = [j EXCEPT ![w] = IF Observes(w) THEN @ + 1 ELSE @]
  /\ i' = [i EXCEPT ![w] = @ + 1]
  /\ pc' = [pc EXCEPT ![w] = IF i[w] + 1 < LoopEnd THEN "op" ELSE "after"]
  /\ UNCHANGED <<stopMeasure, ckptPhase, ckptsIssued, ckptsDone, winners>>

(* Mutant: goto s taken whatever CheckpointCheck() says.                  *)
RetryPassUnguarded(w) ==
  /\ pc[w] = "after"
  /\ i' = [i EXCEPT ![w] = 0]
  /\ pc' = [pc EXCEPT ![w] = "op"]
  /\ UNCHANGED <<j, stopMeasure, ckptPhase, ckptsIssued, ckptsDone, winners>>

(* Lines 316-318: a checkpoint is still in progress: goto s, i restarts.   *)
RetryPass(w) ==
  /\ pc[w] = "after"
  /\ ~CheckpointCheck
  /\ i' = [i EXCEPT ![w] = 0]
  /\ pc' = [pc EXCEPT ![w] = "op"]
  /\ UNCHANGED <<j, stopMeasure, ckptPhase, ckptsIssued, ckptsDone, winners>>

(* Mutant: the thread ends without the check of line 316.                 *)
LeaveUnchecked(w) ==
  /\ pc[w] = "after"
  /\ pc' = [pc EXCEPT ![w] = "done"]
  /\ UNCHANGED <<i, j, stopMeasure, ckptPhase, ckptsIssued, ckptsDone, winners>>

(* Lines 316-321: nothing in progress: StopSession and the thread ends.    *)
Leave(w) ==
  /\ pc[w] = "after"
  /\ CheckpointCheck
  /\ pc' = [pc EXCEPT ![w] = "done"]
  /\ UNCHANGED <<i, j, stopMeasure, ckptPhase, ckptsIssued, ckptsDone, winners>>

(* The engine finishes the checkpoint it accepted.                         *)
CompleteCheckpoint ==
  /\ ckptPhase = "in_progress"
  /\ ckptPhase' = "rest"
  /\ ckptsDone' = ckptsDone + 1
  /\ UNCHANGED <<pc, i, j, stopMeasure, ckptsIssued, winners>>

Worker(w) ==
  \/ Upsert(w) \/ WinElection(w) \/ Checkpoint(w)
  \/ BreakOut(w) \/ NextIteration(w) \/ RetryPass(w) \/ Leave(w)

(* multiPoints() has joined every thread.                                  *)
Joined == \A w \in Workers : pc[w] = "done"

Next ==
  \/ \E w \in Workers : Worker(w)
  \/ CompleteCheckpoint
  \/ Joined /\ UNCHANGED vars

Spec == Init /\ [][Next]_vars

(* Threads are OS threads that keep running, and the engine finishes a     *)
(* checkpoint while its sessions keep refreshing (Refresh1 every           *)
(* iteration), so every worker and the engine's completion are weakly fair.*)
FairSpec ==
  /\ Spec
  /\ \A w \in Workers : WF_vars(Worker(w))
  /\ WF_vars(CompleteCheckpoint)

-----------------------------------------------------------------------------
TypeOK ==
  /\ pc \in [Workers -> PCs]
  /\ i \in [Workers -> 0..LoopEnd]
  /\ j \in [Workers -> Nat]
  /\ stopMeasure \in {0, 1}
  /\ ckptPhase \in {"rest", "in_progress"}
  /\ ckptsIssued \in Nat
  /\ ckptsDone \in Nat
  /\ winners \in SUBSET Workers

(* Election exclusivity (spec 4.3): however the workers' compare-exchanges *)
(* at line 290 interleave, at most one of them ever succeeds, the flag is  *)
(* set exactly when someone has won, and the engine receives at most the   *)
(* one checkpoint request of that winner.                                  *)
ElectionExclusive ==
  /\ \A a, b \in winners : a = b
  /\ (stopMeasure = 1) <=> (winners # {})
  /\ ckptsIssued <= 1
  /\ ckptsIssued = 1 => stopMeasure = 1

(* multiPoints() prints "checkpoint done" once it has joined every         *)
(* checkWorker: when all threads have ended and a worker won the election, *)
(* the checkpoint it requested was accepted and has finished.              *)
JoinAfterCheckpoint ==
  Joined /\ stopMeasure = 1 => ckptsIssued = 1 /\ ckptsDone = 1

(* The election winner's progress, which ties the engine's counters to it: *)
(* the engine is at rest until the winner calls Checkpoint(), the request  *)
(* is accepted then, and the winner leaves only after it has finished.    *)
WinnerProgress ==
  \A w \in Workers :
    /\ pc[w] = "ckpt" => w \in winners /\ ckptPhase = "rest" /\ ckptsIssued = 0
    /\ w \in winners /\ pc[w] # "ckpt" => ckptsIssued = 1
    /\ w \in winners /\ pc[w] = "done" => ckptsDone = 1

(* The engine runs at most the one accepted checkpoint.                   *)
EngineProgress ==
  /\ ckptsDone <= ckptsIssued
  /\ (ckptPhase = "in_progress") <=> (ckptsIssued = 1 /\ ckptsDone = 0)

(* A worker inside the loop body has an index below LoopEnd.              *)
LoopBound ==
  \A w \in Workers : pc[w] \in {"op", "ckpt", "maint"} => i[w] < LoopEnd

(* The inductive invariant behind ElectionExclusive and                   *)
(* JoinAfterCheckpoint.                                                   *)
IInv ==
  /\ TypeOK
  /\ LoopBound
  /\ ElectionExclusive
  /\ WinnerProgress
  /\ EngineProgress

(* Spec 4.3: re-traversing the partition "prevents a fast worker from      *)
(* exiting while the checkpoint it depends on is still in flight": no      *)
(* worker has stopped its session while the engine's checkpoint is in      *)
(* progress.                                                               *)
NoExitWhileInFlight ==
  ckptPhase = "in_progress" => \A w \in Workers : pc[w] # "done"

(* Spec 4.3: a worker in its loop, the first pass or a re-traversal after *)
(* goto s, can still stop at its ObserveQuota-th sighting: its count is    *)
(* below the quota.  Line 309 overwrites the count with i at the break.   *)
RetryCanBreak ==
  \A w \in Workers : pc[w] \in {"op", "ckpt", "maint"} => j[w] < ObserveQuota

(* Every checkWorker thread ends, so multiPoints() returns: the goto s     *)
(* loop of line 318 is left once the engine finishes the checkpoint.       *)
Termination == <>Joined

-----------------------------------------------------------------------------
(* The refinement mapping to CheckpointElection: the elected workers are   *)
(* the winners of the compare-exchange, the checkpoint is requested once   *)
(* the engine has accepted the winner's Checkpoint() and done once it has  *)
(* finished it, and a worker has exited when its session is stopped.       *)
CkptState ==
  IF ckptsDone >= 1 THEN "done"
  ELSE IF ckptsIssued >= 1 THEN "requested" ELSE "none"

Exited == {w \in Workers : pc[w] = "done"}

ElectionAbs == INSTANCE CheckpointElection
                 WITH elected <- winners, ckpt <- CkptState, exited <- Exited

(* checkWorker and multiPoints implement the election of spec 4.3 as       *)
(* CheckpointElection states it: every step of the threads and the engine  *)
(* is a step of the abstract election or leaves its state unchanged.       *)
ElectionRefinement == ElectionAbs!AbsSpec

=============================================================================
