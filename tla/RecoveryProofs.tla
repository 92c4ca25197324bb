---------------------------- MODULE RecoveryProofs ----------------------------
(***************************************************************************)
(* RecoverAndTest's counts are exact whenever the engine answers reads of  *)
(* recovered keys with Ok, for every total_count and every checkpoint      *)
(* content.  RecoveryRoundTrip speaks only of the final state; the         *)
(* invariant RecoveryIInv carries the split of the keys read so far, and   *)
(* each read adds its key to exactly one side of it.                       *)
(***************************************************************************)
EXTENDS Recovery, FiniteSetTheorems, TLAPS

(* Adding a key that is not yet there raises a finite set's size by one.  *)
LEMMA AddNew ==
  ASSUME NEW S, NEW x, IsFiniteSet(S), x \notin S
  PROVE  IsFiniteSet(S \cup {x}) /\ Cardinality(S \cup {x}) = Cardinality(S) + 1
  BY FS_AddElement

(* The keys read so far, and both sides of their split, are finite.       *)
LEMMA SeenFinite ==
  ASSUME NEW r \in Nat, NEW R
  PROVE  /\ IsFiniteSet(0..r - 1)
         /\ IsFiniteSet(R \cap (0..r - 1))
         /\ IsFiniteSet((0..r - 1) \ R)
  <1>1. IsFiniteSet(0..r - 1)
    BY FS_Interval
  <1>2. QED
    BY <1>1, FS_Subset

-----------------------------------------------------------------------------
(* One read of key ri moves it into the side of the split it belongs to.   *)
LEMMA ReadKeyPreserves ==
  ASSUME PresentReadResults = {"Ok"}, RecoveryIInv, ReadKey
  PROVE  RecoveryIInv'
  <1>1. ri \in Nat /\ ri < 2 * TotalCount /\ ri' = ri + 1 /\ UNCHANGED recovered
    BY DEF ReadKey, RecoveryIInv, RecoveryTypeOK
  <1>2. 0..ri = (0..ri - 1) \cup {ri} /\ ri \notin 0..ri - 1
    BY <1>1
  <1>3. IsFiniteSet(recovered \cap (0..ri - 1)) /\ IsFiniteSet((0..ri - 1) \ recovered)
    BY <1>1, SeenFinite
  <1>4. hit = Cardinality(recovered \cap (0..ri - 1))
        /\ fail = Cardinality((0..ri - 1) \ recovered)
    BY DEF RecoveryIInv, Seen
  <1>5. Seen' = 0..ri
    BY <1>1 DEF Seen
  <1>6. RecoveryTypeOK'
        /\ (rpc' = "recover" => ri' = 0)
        /\ (rpc' = "read" => ri' < 2 * TotalCount)
        /\ (rpc' = "done" => ri' = 2 * TotalCount)
    BY <1>1, RecoveryCountAssumption
    DEF ReadKey, ReadResults, RecoveryIInv, RecoveryTypeOK, Domain
  <1>7. CASE ri \in recovered
    <2>1. hit' = hit + 1 /\ fail' = fail
      BY <1>7 DEF ReadKey, ReadResults
    <2>2. recovered \cap (0..ri) = (recovered \cap (0..ri - 1)) \cup {ri}
      BY <1>2, <1>7
    <2>3. (0..ri) \ recovered = (0..ri - 1) \ recovered
      BY <1>2, <1>7
    <2>4. Cardinality(recovered \cap (0..ri)) = Cardinality(recovered \cap (0..ri - 1)) + 1
      BY <1>2, <1>3, <2>2, AddNew
    <2>5. hit' = Cardinality(recovered' \cap Seen') /\ fail' = Cardinality(Seen' \ recovered')
      BY <1>1, <1>4, <1>5, <2>1, <2>3, <2>4
    <2>6. QED
      BY <1>6, <2>5 DEF RecoveryIInv
  <1>8. CASE ri \notin recovered
    <2>1. hit' = hit /\ fail' = fail + 1
      BY <1>8 DEF ReadKey, ReadResults
    <2>2. (0..ri) \ recovered = ((0..ri - 1) \ recovered) \cup {ri}
      BY <1>2, <1>8
    <2>3. recovered \cap (0..ri) = recovered \cap (0..ri - 1)
      BY <1>2, <1>8
    <2>4. Cardinality((0..ri) \ recovered) = Cardinality((0..ri - 1) \ recovered) + 1
      BY <1>2, <1>3, <2>2, AddNew
    <2>5. hit' = Cardinality(recovered' \cap Seen') /\ fail' = Cardinality(Seen' \ recovered')
      BY <1>1, <1>4, <1>5, <2>1, <2>3, <2>4
    <2>6. QED
      BY <1>6, <2>5 DEF RecoveryIInv
  <1>9. QED
    BY <1>7, <1>8

(* Every step of the recovery pass preserves RecoveryIInv.                *)
LEMMA RecoveryIInvInductive ==
  ASSUME PresentReadResults = {"Ok"}
  PROVE  RecoveryIInv /\ [RecoveryNext]_recoveryVars => RecoveryIInv'
  <1> SUFFICES ASSUME RecoveryIInv, [RecoveryNext]_recoveryVars PROVE RecoveryIInv'
    OBVIOUS
  <1>1. CASE Recover
    <2>1. ri = 0 /\ ri' = 0 /\ UNCHANGED <<hit, fail>> /\ recovered' \in SUBSET Domain
      BY <1>1 DEF Recover, RecoveryIInv, RecoveryTypeOK
    <2>2. 0..ri' - 1 = {} /\ 0..ri - 1 = {}
      BY <2>1
    <2>3. hit = 0 /\ fail = 0
      BY <2>2, FS_EmptySet DEF RecoveryIInv, Seen
    <2>4. QED
      BY <1>1, <2>1, <2>2, <2>3, FS_EmptySet, RecoveryCountAssumption
      DEF Recover, RecoveryIInv, RecoveryTypeOK, Seen, Domain
  <1>2. CASE ReadKey
    BY <1>2, ReadKeyPreserves
  <1>3. CASE rpc = "done" /\ UNCHANGED recoveryVars
    BY <1>3 DEF recoveryVars, RecoveryIInv, RecoveryTypeOK, Seen
  <1>4. CASE UNCHANGED recoveryVars
    BY <1>4 DEF recoveryVars, RecoveryIInv, RecoveryTypeOK, Seen
  <1>5. QED
    BY <1>1, <1>2, <1>3, <1>4 DEF RecoveryNext

(* When the engine answers every read of a recovered key with Ok, the      *)
(* hits RecoverAndTest prints are the keys the checkpoint holds and its    *)
(* failures the rest of the domain, for every total_count.                 *)
THEOREM RoundTripHolds ==
  ASSUME PresentReadResults = {"Ok"}
  PROVE  RecoverySpec => []RecoveryRoundTrip
  <1>1. RecoveryInit => RecoveryIInv
    <2> SUFFICES ASSUME RecoveryInit PROVE RecoveryIInv
      OBVIOUS
    <2>1. 0..0 - 1 = {}
      OBVIOUS
    <2>2. QED
      BY <2>1, FS_EmptySet, RecoveryCountAssumption
      DEF RecoveryInit, RecoveryIInv, RecoveryTypeOK, Seen
  <1>2. RecoveryIInv => RecoveryRoundTrip
    <2> SUFFICES ASSUME RecoveryIInv, rpc = "done"
                 PROVE  hit = Cardinality(recovered) /\ fail = Cardinality(Domain \ recovered)
      BY DEF RecoveryRoundTrip
    <2>1. Seen = Domain /\ recovered \subseteq Domain
      BY DEF RecoveryIInv, RecoveryTypeOK, Seen, Domain
    <2>2. recovered \cap Seen = recovered
      BY <2>1
    <2>3. QED
      BY <2>1, <2>2 DEF RecoveryIInv
  <1>3. QED
    BY <1>1, <1>2, RecoveryIInvInductive, PTL DEF RecoverySpec

=============================================================================
