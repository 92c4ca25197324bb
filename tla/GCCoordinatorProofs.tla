------------------------ MODULE GCCoordinatorProofs ---------------------------
(***************************************************************************)
(* The garbage-collection election keeps GcElectionExclusive for every set *)
(* of workers, every total_count and every interval.  GcElectionExclusive  *)
(* is not inductive alone: a second GrabageCollecton() would be excluded   *)
(* only by knowing that the winner calls it once, from "gc", with nothing  *)
(* issued yet; GcWinnerProgress says so.                                   *)
(***************************************************************************)
EXTENDS GCCoordinator, TLAPS

(* Every step of the gcWorker threads and the engine preserves GcIInv.    *)
LEMMA GcIInvInductive == GcIInv /\ [Next]_vars => GcIInv'
<1> SUFFICES ASSUME GcIInv, [Next]_vars PROVE GcIInv'
  OBVIOUS
<1> USE DEF GcIInv, GcTypeOK, GcElectionExclusive, GcWinnerProgress
<1>1. ASSUME NEW w \in Workers, Upsert(w) PROVE GcIInv'
  BY <1>1 DEF Upsert
<1>2. ASSUME NEW w \in Workers, WinElection(w) PROVE GcIInv'
  BY <1>2 DEF WinElection
<1>3. ASSUME NEW w \in Workers, GarbageCollect(w) PROVE GcIInv'
  BY <1>3 DEF GarbageCollect
<1>4. ASSUME NEW w \in Workers, BreakOut(w) PROVE GcIInv'
  BY <1>4 DEF BreakOut
<1>5. ASSUME NEW w \in Workers, NextIteration(w) PROVE GcIInv'
  BY <1>5 DEF NextIteration
<1>6. CASE FinishGc
  BY <1>6 DEF FinishGc
<1>7. CASE UNCHANGED vars
  BY <1>7 DEF vars
<1>8. QED
  BY <1>1, <1>2, <1>3, <1>4, <1>5, <1>6, <1>7 DEF Next, GcWorker

(* However the gcWorker threads' compare-exchanges at line 348 interleave, *)
(* at most one succeeds and the engine is asked for at most one            *)
(* collection.                                                             *)
THEOREM GcElectionExclusiveHolds == Spec => []GcElectionExclusive
<1>1. Init => GcIInv
  BY GcTotalCountAssumption
  DEF Init, GcIInv, GcTypeOK, GcElectionExclusive, GcWinnerProgress
<1>2. GcIInv => GcElectionExclusive
  BY DEF GcIInv
<1>3. QED
  BY <1>1, <1>2, GcIInvInductive, PTL DEF Spec

=============================================================================
