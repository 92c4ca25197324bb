------------------------------- MODULE Recovery -------------------------------
(***************************************************************************)
(* The recovery pass of FH_MicroTest.cpp: with a token on the command line *)
(* main() calls RecoverAndTest(token, token) (lines 610-615) and then      *)
(* skips to the end.  RecoverAndTest recovers the store from the           *)
(* checkpoint, then reads every key of 0 .. 2*total_count-1 once, in       *)
(* order, counting a read that returns Ok as a hit and any other status    *)
(* as a failure, and prints the two counts.  It calls neither StartSession *)
(* nor CompletePending.                                                    *)
(*                                                                         *)
(* The checkpoint was written by an earlier run of the harness, whose      *)
(* threads upsert their keys in partition or loop order concurrently: the  *)
(* keys it holds are any subset of the domain, chosen by Recover.  The     *)
(* engine answers a read of a recovered key with one of                    *)
(* PresentReadResults and of any other key with NotFound (spec 6).         *)
(***************************************************************************)
EXTENDS Naturals, FiniteSets

CONSTANTS
  TotalCount,          \* total_count
  PresentReadResults   \* the statuses Read may return for a recovered key

ASSUME RecoveryCountAssumption == TotalCount \in Nat
ASSUME RecoveryResultsAssumption ==
  PresentReadResults \subseteq {"Ok", "Pending", "NotFound"}

VARIABLES
  rpc,        \* "recover", "read" or "done"
  recovered,  \* the keys the recovered store holds
  ri,         \* the loop index i of line 235
  hit,        \* hit
  fail        \* fail

recoveryVars == <<rpc, recovered, ri, hit, fail>>

(* The keys RecoverAndTest reads: 0 .. total_count * 2 - 1.                *)
Domain == 0..2 * TotalCount - 1

(* Lines 610-615 and 228-232: main takes the recovery branch; nothing is   *)
(* recovered or counted yet.                                               *)
RecoveryInit ==
  /\ rpc = "recover"
  /\ recovered = {}
  /\ ri = 0
  /\ hit = 0
  /\ fail = 0

(* Line 233: store.Recover(index_token, hybrid_log_token, ...).            *)
Recover ==
  /\ rpc = "recover"
  /\ \E keys \in SUBSET Domain : recovered' = keys
  /\ rpc' = IF Domain = {} THEN "done" ELSE "read"
  /\ UNCHANGED <<ri, hit, fail>>

(* The statuses Read may return for key k after recovery.                  *)
ReadResults(k) == IF k \in recovered THEN PresentReadResults ELSE {"NotFound"}

(* Mutant: the loop test of line 235 as i <= total_count * 2.             *)
ReadKeyPastEnd ==
  /\ rpc = "read"
  /\ \E st \in ReadResults(ri) :
       /\ hit' = IF st = "Ok" THEN hit + 1 ELSE hit
       /\ fail' = IF st = "Ok" THEN fail ELSE fail + 1
  /\ ri' = ri + 1
  /\ rpc' = IF ri + 1 <= 2 * TotalCount THEN "read" ELSE "done"
  /\ UNCHANGED recovered

(* Lines 235-245, one iteration: Read of key i, a hit only when Ok, i++    *)
(* and the loop test; line 256 prints the counts when the loop is over.    *)
ReadKey ==
  /\ rpc = "read"
  /\ \E st \in ReadResults(ri) :
       /\ hit' = IF st = "Ok" THEN hit + 1 ELSE hit
       /\ fail' = IF st = "Ok" THEN fail ELSE fail + 1
  /\ ri' = ri + 1
  /\ rpc' = IF ri + 1 < 2 * TotalCount THEN "read" ELSE "done"
  /\ UNCHANGED recovered

RecoveryNext ==
  \/ Recover
  \/ ReadKey
  \/ rpc = "done" /\ UNCHANGED recoveryVars

RecoverySpec == RecoveryInit /\ [][RecoveryNext]_recoveryVars

-----------------------------------------------------------------------------
(* Spec 8, recovery round-trip: the counts RecoverAndTest prints tell the  *)
(* keys the checkpoint holds from the others: every recovered key is a     *)
(* hit and every other key of the domain a failure.                        *)
RecoveryRoundTrip ==
  rpc = "done" =>
    /\ hit = Cardinality(recovered)
    /\ fail = Cardinality(Domain \ recovered)

RecoveryTypeOK ==
  /\ rpc \in {"recover", "read", "done"}
  /\ recovered \in SUBSET Domain
  /\ ri \in 0..2 * TotalCount
  /\ hit \in Nat
  /\ fail \in Nat

(* The keys read so far.                                                   *)
Seen == 0..ri - 1

(* The inductive invariant behind RecoveryRoundTrip when reads of          *)
(* recovered keys return Ok: the counts so far split the keys read so far  *)
(* into the recovered ones and the others.                                 *)
RecoveryIInv ==
  /\ RecoveryTypeOK
  /\ rpc = "recover" => ri = 0
  /\ rpc = "read" => ri < 2 * TotalCount
  /\ rpc = "done" => ri = 2 * TotalCount
  /\ hit = Cardinality(recovered \cap Seen)
  /\ fail = Cardinality(Seen \ recovered)

=============================================================================
