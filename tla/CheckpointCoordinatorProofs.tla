--------------------- MODULE CheckpointCoordinatorProofs ----------------------
(***************************************************************************)
(* Proofs about the checkpoint election, for every set of workers, every   *)
(* loop length and every interval.  TypeOK needs LoopBound to be           *)
(* inductive (the loop increment keeps i within 0..LoopEnd only because a  *)
(* worker in the loop body is below LoopEnd); ElectionExclusive and        *)
(* JoinAfterCheckpoint follow from IInv, which adds what the winner's      *)
(* position says about the engine.                                         *)
(***************************************************************************)
EXTENDS CheckpointCoordinator, TLAPS

TypeInv == TypeOK /\ LoopBound

-----------------------------------------------------------------------------
(* Every step keeps the workers' pc, i and j in their types.               *)
LEMMA TypeInvInductive == TypeInv /\ [Next]_vars => TypeInv'
<1> SUFFICES ASSUME TypeInv, [Next]_vars PROVE TypeInv'
  OBVIOUS
<1> USE DEF TypeInv, TypeOK, LoopBound, PCs
<1>1. ASSUME NEW w \in Workers, Upsert(w) PROVE TypeInv'
  BY <1>1 DEF Upsert
<1>2. ASSUME NEW w \in Workers, WinElection(w) PROVE TypeInv'
  BY <1>2 DEF WinElection
<1>3. ASSUME NEW w \in Workers, Checkpoint(w) PROVE TypeInv'
  BY <1>3 DEF Checkpoint
<1>4. ASSUME NEW w \in Workers, BreakOut(w) PROVE TypeInv'
  BY <1>4 DEF BreakOut
<1>5. ASSUME NEW w \in Workers, NextIteration(w) PROVE TypeInv'
  BY <1>5, LoopEndAssumption DEF NextIteration
<1>6. ASSUME NEW w \in Workers, RetryPass(w) PROVE TypeInv'
  BY <1>6, LoopEndAssumption DEF RetryPass
<1>7. ASSUME NEW w \in Workers, Leave(w) PROVE TypeInv'
  BY <1>7 DEF Leave
<1>8. CASE CompleteCheckpoint
  BY <1>8 DEF CompleteCheckpoint
<1>9. CASE UNCHANGED vars
  BY <1>9 DEF vars
<1>10. QED
  BY <1>1, <1>2, <1>3, <1>4, <1>5, <1>6, <1>7, <1>8, <1>9 DEF Next, Worker

(* TypeOK holds in every reachable state.                                  *)
THEOREM TypeCorrect == Spec => []TypeOK
<1>1. Init => TypeInv
  BY LoopEndAssumption DEF Init, TypeInv, TypeOK, LoopBound, PCs
<1>2. TypeInv => TypeOK
  BY DEF TypeInv
<1>3. QED
  BY <1>1, <1>2, TypeInvInductive, PTL DEF Spec

-----------------------------------------------------------------------------
(* The election part of IInv, which every step preserves.                 *)
Election == ElectionExclusive /\ WinnerProgress /\ EngineProgress

LEMMA ElectionInductive == TypeInv /\ Election /\ [Next]_vars => Election'
<1> SUFFICES ASSUME TypeInv, Election, [Next]_vars PROVE Election'
  OBVIOUS
<1> USE DEF TypeInv, TypeOK, PCs, Election, ElectionExclusive, WinnerProgress,
            EngineProgress
<1>1. ASSUME NEW w \in Workers, Upsert(w) PROVE Election'
  BY <1>1 DEF Upsert
<1>2. ASSUME NEW w \in Workers, WinElection(w) PROVE Election'
  BY <1>2 DEF WinElection
<1>3. ASSUME NEW w \in Workers, Checkpoint(w) PROVE Election'
  BY <1>3 DEF Checkpoint
<1>4. ASSUME NEW w \in Workers, BreakOut(w) PROVE Election'
  BY <1>4 DEF BreakOut
<1>5. ASSUME NEW w \in Workers, NextIteration(w) PROVE Election'
  BY <1>5 DEF NextIteration
<1>6. ASSUME NEW w \in Workers, RetryPass(w) PROVE Election'
  BY <1>6 DEF RetryPass
<1>7. ASSUME NEW w \in Workers, Leave(w) PROVE Election'
  BY <1>7 DEF Leave, CheckpointCheck
<1>8. CASE CompleteCheckpoint
  BY <1>8 DEF CompleteCheckpoint
<1>9. CASE UNCHANGED vars
  BY <1>9 DEF vars
<1>10. QED
  BY <1>1, <1>2, <1>3, <1>4, <1>5, <1>6, <1>7, <1>8, <1>9 DEF Next, Worker

(* IInv holds in every reachable state.                                    *)
LEMMA IInvHolds == Spec => []IInv
<1>1. Init => TypeInv /\ Election
  BY LoopEndAssumption
  DEF Init, TypeInv, TypeOK, LoopBound, PCs, Election, ElectionExclusive,
      WinnerProgress, EngineProgress
<1>2. TypeInv /\ Election /\ [Next]_vars => TypeInv' /\ Election'
  BY TypeInvInductive, ElectionInductive
<1>3. TypeInv /\ Election => IInv
  BY DEF TypeInv, Election, IInv
<1>4. QED
  BY <1>1, <1>2, <1>3, PTL DEF Spec

(* However the workers' compare-exchanges at line 290 interleave, at most  *)
(* one succeeds and the engine receives at most its checkpoint request.    *)
THEOREM ElectionExclusiveHolds == Spec => []ElectionExclusive
<1>1. IInv => ElectionExclusive
  BY DEF IInv
<1>2. QED
  BY <1>1, IInvHolds, PTL

(* When multiPoints() has joined every checkWorker after an election, the  *)
(* winner's checkpoint was accepted and has finished.                      *)
THEOREM JoinAfterCheckpointHolds == Spec => []JoinAfterCheckpoint
<1>1. IInv => JoinAfterCheckpoint
  <2> SUFFICES ASSUME IInv, Joined, stopMeasure = 1
               PROVE ckptsIssued = 1 /\ ckptsDone = 1
    BY DEF JoinAfterCheckpoint
  <2>1. PICK w \in winners : TRUE
    BY DEF IInv, ElectionExclusive
  <2>2. w \in Workers /\ pc[w] = "done"
    BY <2>1 DEF IInv, TypeOK, Joined
  <2>3. QED
    BY <2>1, <2>2 DEF IInv, WinnerProgress
<1>2. QED
  BY <1>1, IInvHolds, PTL

-----------------------------------------------------------------------------
(* Every step of the threads and the engine, taken in a state of IInv, is  *)
(* a step of the abstract election under the mapping or a stutter of it.  *)
LEMMA StepRefines ==
  IInv /\ [Next]_vars => [ElectionAbs!AbsNext]_ElectionAbs!absVars
<1> SUFFICES ASSUME IInv, [Next]_vars
             PROVE  [ElectionAbs!AbsNext]_ElectionAbs!absVars
  OBVIOUS
<1> USE DEF IInv, TypeOK, PCs, ElectionExclusive, WinnerProgress, EngineProgress
<1> DEFINE Stutter == UNCHANGED <<winners, CkptState, Exited>>
<1>0. Stutter => UNCHANGED ElectionAbs!absVars
  BY DEF ElectionAbs!absVars
<1>1. ASSUME NEW w \in Workers, Upsert(w) PROVE Stutter
  BY <1>1 DEF Upsert, CkptState, Exited
<1>2. ASSUME NEW w \in Workers, WinElection(w) PROVE ElectionAbs!Elect(w)
  BY <1>2 DEF WinElection, ElectionAbs!Elect, CkptState, Exited
<1>3. ASSUME NEW w \in Workers, Checkpoint(w)
      PROVE  ElectionAbs!Request
  <2>1. winners = {w} /\ ckptsIssued = 0 /\ ckptsDone = 0 /\ ckptPhase = "rest"
    BY <1>3 DEF Checkpoint
  <2>2. CkptState = "none" /\ CkptState' = "requested"
    BY <1>3, <2>1 DEF Checkpoint, CkptState
  <2>3. Exited' = Exited /\ w \notin Exited
    BY <1>3 DEF Checkpoint, Exited
  <2>4. QED
    BY <1>3, <2>1, <2>2, <2>3 DEF Checkpoint, ElectionAbs!Request
<1>4. ASSUME NEW w \in Workers, BreakOut(w) PROVE Stutter
  BY <1>4 DEF BreakOut, CkptState, Exited
<1>5. ASSUME NEW w \in Workers, NextIteration(w) PROVE Stutter
  BY <1>5 DEF NextIteration, CkptState, Exited
<1>6. ASSUME NEW w \in Workers, RetryPass(w) PROVE Stutter
  BY <1>6 DEF RetryPass, CkptState, Exited
<1>7. ASSUME NEW w \in Workers, Leave(w) PROVE ElectionAbs!Exit(w)
  <2>1. CkptState # "requested"
    BY <1>7 DEF Leave, CheckpointCheck, CkptState
  <2>2. w \in winners => CkptState = "done"
    BY <1>7 DEF Leave, CheckpointCheck, CkptState
  <2>3. w \notin Exited /\ Exited' = Exited \cup {w}
    BY <1>7 DEF Leave, Exited
  <2>4. QED
    BY <1>7, <2>1, <2>2, <2>3 DEF Leave, ElectionAbs!Exit, CkptState
<1>8. ASSUME CompleteCheckpoint PROVE ElectionAbs!Complete
  BY <1>8 DEF CompleteCheckpoint, ElectionAbs!Complete, CkptState, Exited
<1>9. ASSUME UNCHANGED vars PROVE Stutter
  BY <1>9 DEF vars, CkptState, Exited
<1>10. QED
  BY <1>0, <1>1, <1>2, <1>3, <1>4, <1>5, <1>6, <1>7, <1>8, <1>9
  DEF Next, Worker, ElectionAbs!AbsNext

(* checkWorker and multiPoints implement CheckpointElection: the initial   *)
(* state maps to the abstract initial state, and every step to a step or   *)
(* a stutter of the abstract election.                                     *)
THEOREM RefinementHolds == Spec => ElectionRefinement
<1>1. Init => ElectionAbs!AbsInit
  BY DEF Init, ElectionAbs!AbsInit, CkptState, Exited
<1>2. QED
  BY <1>1, StepRefines, IInvHolds, PTL
  DEF Spec, ElectionRefinement, ElectionAbs!AbsSpec

=============================================================================
