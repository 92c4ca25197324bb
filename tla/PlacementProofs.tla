--------------------------- MODULE PlacementProofs ---------------------------
(***************************************************************************)
(* Proofs about the NUMA placement of multiWorkers() (FH_MicroTest.cpp     *)
(* lines 561-573): on every machine where thread_number is a multiple of   *)
(* num_sock and a socket has at least as many cores as threads, the core   *)
(* i / group_threads * group_cores + i % group_threads is a distinct core  *)
(* of the task for every thread, and every socket gets group_threads       *)
(* threads.                                                                *)
(***************************************************************************)
EXTENDS Placement, FiniteSetTheorems, TLAPS

(* Division with remainder as the provers see it: the quotient is a       *)
(* natural, the remainder is below the divisor and is what the quotient    *)
(* leaves over.                                                            *)
LEMMA DivModFacts ==
  ASSUME NEW x \in Nat, NEW d \in Nat \ {0}
  PROVE  /\ x \div d \in Nat
         /\ x % d \in 0..d - 1
         /\ x % d = x - d * (x \div d)
<1>1. x \div d \in Nat
  BY SMT
<1>2. x % d \in 0..d - 1
  BY SMT
<1>3. x % d = x - d * (x \div d)
  BY SMT
<1>4. QED
  BY <1>1, <1>2, <1>3

(* The quotient and remainder are the only ones: q and r are those of      *)
(* q * d + r by d whenever r is below d.                                   *)
LEMMA DivMod ==
  ASSUME NEW d \in Nat \ {0}, NEW q \in Nat, NEW r \in 0..d - 1
  PROVE  (q * d + r) \div d = q /\ (q * d + r) % d = r
BY SMT

(* Lines 569-570 on a machine whose thread count is a multiple of its     *)
(* socket count: group_threads is positive, the threads fill the sockets   *)
(* exactly, and the sockets' cores fit in the task's CPUs.                 *)
LEMMA GroupSizes ==
  ASSUME NEW T \in Nat \ {0}, NEW S \in Nat \ {0}, NEW C \in Nat,
         T % S = 0
  PROVE  /\ T \div S \in Nat \ {0}
         /\ T = S * (T \div S)
         /\ C \div S \in Nat
         /\ S * (C \div S) <= C
<1>1. T \div S \in Nat /\ T % S = T - S * (T \div S)
  BY DivModFacts
<1>2. C \div S \in Nat /\ C % S \in 0..S - 1 /\ C % S = C - S * (C \div S)
  BY DivModFacts
<1>3. T = S * (T \div S)
  BY <1>1
<1>4. T \div S # 0
  BY <1>3
<1>5. QED
  BY <1>1, <1>2, <1>3, <1>4

(* The core of line 571 for thread i of S sockets of G threads, with GC    *)
(* cores to a socket and G <= GC: its socket is i / G, its offset in the   *)
(* socket i % G, and the core is one of the S * GC cores.                  *)
LEMMA CoreArith ==
  ASSUME NEW S \in Nat \ {0}, NEW G \in Nat \ {0}, NEW GC \in Nat, G <= GC,
         NEW i \in 0..S * G - 1
  PROVE  /\ i \div G \in 0..S - 1
         /\ i % G \in 0..G - 1
         /\ i = (i \div G) * G + (i % G)
         /\ (i \div G) * GC + (i % G) \in 0..S * GC - 1
         /\ ((i \div G) * GC + (i % G)) \div GC = i \div G
         /\ ((i \div G) * GC + (i % G)) % GC = i % G
<1>1. i \in Nat /\ i \div G \in Nat /\ i % G \in 0..G - 1
      /\ i % G = i - G * (i \div G)
  <2>1. i \in Nat
    OBVIOUS
  <2>2. QED
    BY <2>1, DivModFacts
<1>2. PICK q \in Nat, r \in 0..G - 1 : q = i \div G /\ r = i % G
  BY <1>1
<1>3. i = q * G + r
  BY <1>1, <1>2
<1>4. q \in 0..S - 1
  BY <1>2, <1>3, SMT
<1>5. q * GC + r \in 0..S * GC - 1
  <2>1. q * GC <= (S - 1) * GC
    BY <1>4, SMT
  <2>2. QED
    BY <1>2, <2>1, SMT
<1>6. (q * GC + r) \div GC = q /\ (q * GC + r) % GC = r
  <2>1. GC \in Nat \ {0} /\ r \in 0..GC - 1
    BY <1>2
  <2>2. QED
    BY <1>2, <2>1, DivMod
<1>7. QED
  BY <1>2, <1>3, <1>4, <1>5, <1>6

(* The threads with i / G = s are the s-th block of G consecutive ones.    *)
LEMMA SocketSlice ==
  ASSUME NEW S \in Nat \ {0}, NEW G \in Nat \ {0}, NEW s \in 0..S - 1
  PROVE  {i \in 0..S * G - 1 : i \div G = s} = s * G..s * G + G - 1
<1>1. ASSUME NEW i \in 0..S * G - 1, i \div G = s PROVE i \in s * G..s * G + G - 1
  <2>1. i \in Nat /\ i % G \in 0..G - 1 /\ i % G = i - G * (i \div G)
    BY DivModFacts
  <2>2. QED
    BY <1>1, <2>1
<1>2. ASSUME NEW i \in s * G..s * G + G - 1 PROVE i \in 0..S * G - 1 /\ i \div G = s
  <2>1. i - s * G \in 0..G - 1 /\ i = s * G + (i - s * G)
    OBVIOUS
  <2>2. s * G + G - 1 <= S * G - 1
    BY SMT
  <2>3. (s * G + (i - s * G)) \div G = s
    BY <2>1, DivMod
  <2>4. QED
    BY <2>1, <2>2, <2>3
<1>3. QED
  BY <1>1, <1>2

-----------------------------------------------------------------------------
(* On a balanced machine group_threads is positive, the threads fill the   *)
(* sockets exactly and every socket has room for its threads.             *)
LEMMA BalancedMachine ==
  ASSUME PlacementTypeOK, Balanced
  PROVE  /\ GroupThreads \in Nat \ {0}
         /\ machine.threads = machine.socks * GroupThreads
         /\ GroupCores \in Nat
         /\ GroupThreads <= GroupCores
         /\ machine.socks * GroupCores <= machine.cpus
<1>1. /\ machine.threads \in Nat \ {0} /\ machine.socks \in Nat \ {0}
      /\ machine.cpus \in Nat \ {0}
      /\ machine.threads % machine.socks = 0
  BY DEF PlacementTypeOK, Balanced
<1>2. QED
  BY <1>1, GroupSizes DEF Balanced, GroupThreads, GroupCores

(* Line 571 on a balanced machine: thread i goes to a core of the task, in *)
(* socket i / group_threads, at offset i % group_threads.                  *)
LEMMA CoreOfFacts ==
  ASSUME PlacementTypeOK, Balanced, NEW i \in 0..machine.threads - 1
  PROVE  /\ CoreOf(i) \in 0..machine.cpus - 1
         /\ CoreOf(i) \div GroupCores = i \div GroupThreads
         /\ CoreOf(i) % GroupCores = i % GroupThreads
         /\ i = (i \div GroupThreads) * GroupThreads + (i % GroupThreads)
<1>1. /\ GroupThreads \in Nat \ {0}
      /\ machine.threads = machine.socks * GroupThreads
      /\ GroupCores \in Nat
      /\ GroupThreads <= GroupCores
      /\ machine.socks * GroupCores <= machine.cpus
      /\ machine.socks \in Nat \ {0}
  BY BalancedMachine DEF PlacementTypeOK
<1>2. i \in 0..machine.socks * GroupThreads - 1
  BY <1>1
<1>3. PICK S0 \in Nat \ {0}, G0 \in Nat \ {0}, GC0 \in Nat :
        S0 = machine.socks /\ G0 = GroupThreads /\ GC0 = GroupCores
  BY <1>1
<1>4. G0 <= GC0 /\ i \in 0..S0 * G0 - 1
  BY <1>1, <1>2, <1>3
<1>5. (i \div G0) * GC0 + (i % G0) \in 0..S0 * GC0 - 1
  BY <1>4, CoreArith
<1>6. ((i \div G0) * GC0 + (i % G0)) \div GC0 = i \div G0
  BY <1>4, CoreArith
<1>7. ((i \div G0) * GC0 + (i % G0)) % GC0 = i % G0
  BY <1>4, CoreArith
<1>8. i = (i \div G0) * G0 + (i % G0)
  BY <1>4, CoreArith
<1>9. CoreOf(i) = (i \div G0) * GC0 + (i % G0)
  BY <1>3 DEF CoreOf
<1>10. S0 * GC0 <= machine.cpus /\ machine.cpus \in Nat
  BY <1>1, <1>3 DEF PlacementTypeOK
<1>11. CoreOf(i) \in 0..machine.cpus - 1
  BY <1>5, <1>9, <1>10
<1>12. QED
  BY <1>3, <1>6, <1>7, <1>8, <1>9, <1>11

-----------------------------------------------------------------------------
(* Before the loop of line 561 no thread is pinned and none has failed.    *)
LEMMA PlacementInitIInv == Init => PlacementIInv
<1> SUFFICES ASSUME Init PROVE PlacementIInv
  OBVIOUS
<1>1. PlacementTypeOK
  <2>1. machine \in [threads : Nat \ {0}, socks : Nat \ {0}, cpus : Nat \ {0}]
    <3>1. machine \in [threads : ThreadCounts, socks : SocketCounts, cpus : CpuCounts]
      BY DEF Init
    <3>2. QED
      BY <3>1, CountsAssumption
  <2>2. k \in 0..machine.threads
    BY <2>1 DEF Init
  <2>3. QED
    BY <2>1, <2>2 DEF Init, PlacementTypeOK
<1>2. DOMAIN affinity = 0..k - 1
  BY DEF Init
<1>3. QED
  BY <1>1, <1>2 DEF Init, PlacementIInv

(* The machine is fixed: whether it is balanced, and the core line 571     *)
(* computes for a thread, do not change.                                   *)
LEMMA MachineFixed ==
  ASSUME machine' = machine
  PROVE  /\ Balanced' = Balanced
         /\ \A i : CoreOf(i)' = CoreOf(i)
BY DEF Balanced, GroupThreads, GroupCores, CoreOf

(* An iteration of the loop of line 561 on a balanced machine pins thread  *)
(* k to its core; the other iterations cannot happen there: the core       *)
(* exists and group_threads is not zero.                                   *)
LEMMA PlacementIInvInductive == PlacementIInv /\ [Next]_vars => PlacementIInv'
<1> SUFFICES ASSUME PlacementIInv, [Next]_vars PROVE PlacementIInv'
  OBVIOUS
<1>1. PlacementTypeOK
  BY DEF PlacementIInv
<1>2. CASE PinThread
  <2>1. machine' = machine /\ k' = k + 1 /\ k < machine.threads
    BY <1>2 DEF PinThread
  <2>2. PlacementTypeOK'
    BY <1>1, <1>2, <2>1 DEF PlacementTypeOK, PinThread
  <2>3. ASSUME Balanced
        PROVE  /\ ~crashed' /\ unpinned' = {}
               /\ DOMAIN affinity' = 0..k' - 1
               /\ \A i \in DOMAIN affinity' : affinity'[i] = CoreOf(i)'
    <3>1. ~crashed /\ unpinned = {} /\ DOMAIN affinity = 0..k - 1
          /\ \A i \in DOMAIN affinity : affinity[i] = CoreOf(i)
      BY <2>3 DEF PlacementIInv
    <3>2. affinity' = [i \in DOMAIN affinity \cup {k} |->
                         IF i = k THEN CoreOf(k) ELSE affinity[i]]
      BY <1>2 DEF PinThread
    <3>3. DOMAIN affinity' = (0..k - 1) \cup {k}
      BY <3>1, <3>2
    <3>4. \A i \in DOMAIN affinity' : affinity'[i] = CoreOf(i)
      <4>1. \A i \in 0..k - 1 : affinity'[i] = affinity[i]
        BY <3>1, <3>2
      <4>2. k \notin 0..k - 1
        BY <1>1 DEF PlacementTypeOK
      <4>3. affinity'[k] = CoreOf(k)
        BY <3>1, <3>2, <4>2
      <4>4. QED
        BY <3>1, <3>3, <4>1, <4>3
    <3>5. (0..k - 1) \cup {k} = 0..k' - 1
      BY <1>1, <2>1 DEF PlacementTypeOK
    <3>6. \A i : CoreOf(i)' = CoreOf(i)
      BY <2>1, MachineFixed
    <3>7. ~crashed' /\ unpinned' = {}
      BY <1>2, <3>1 DEF PinThread
    <3>8. QED
      BY <3>3, <3>4, <3>5, <3>6, <3>7
  <2>4. QED
    BY <2>1, <2>2, <2>3, MachineFixed DEF PlacementIInv
<1>3. CASE LeaveUnpinned
  <2>1. machine' = machine /\ k' = k + 1 /\ k < machine.threads
    BY <1>3 DEF LeaveUnpinned
  <2>2. PlacementTypeOK'
    BY <1>1, <1>3, <2>1 DEF PlacementTypeOK, LeaveUnpinned
  <2>3. ~Balanced
    <3>1. SUFFICES ASSUME Balanced PROVE FALSE
      OBVIOUS
    <3>2. k \in 0..machine.threads - 1
      BY <1>1, <2>1 DEF PlacementTypeOK
    <3>3. CoreOf(k) \in 0..machine.cpus - 1
      BY <1>1, <3>1, <3>2, CoreOfFacts
    <3>5. CoreOf(k) >= machine.cpus
      BY <1>3 DEF LeaveUnpinned
    <3>6. machine.cpus \in Nat
      BY <1>1 DEF PlacementTypeOK
    <3>4. QED
      BY <3>3, <3>5, <3>6
  <2>4. QED
    BY <2>1, <2>2, <2>3, MachineFixed DEF PlacementIInv
<1>4. CASE DivideByZero
  <2>1. machine' = machine /\ k' = k
    BY <1>4 DEF DivideByZero
  <2>2. PlacementTypeOK'
    BY <1>1, <1>4 DEF PlacementTypeOK, DivideByZero
  <2>3. ~Balanced
    BY <1>1, <1>4, BalancedMachine DEF DivideByZero
  <2>4. QED
    BY <2>1, <2>2, <2>3, MachineFixed DEF PlacementIInv
<1>5. CASE UNCHANGED vars
  <2>1. machine' = machine
    BY <1>5 DEF vars
  <2>2. QED
    BY <1>5, <2>1, MachineFixed DEF vars, PlacementIInv, PlacementTypeOK
<1>6. QED
  BY <1>2, <1>3, <1>4, <1>5 DEF Next

-----------------------------------------------------------------------------
(* Once every thread is pinned as line 571 says on a balanced machine,     *)
(* socket s holds exactly group_threads of them: those whose index divided *)
(* by group_threads is s.                                                  *)
LEMMA SocketCount ==
  ASSUME PlacementTypeOK, Balanced,
         DOMAIN affinity = 0..machine.threads - 1,
         \A i \in DOMAIN affinity : affinity[i] = CoreOf(i),
         NEW s \in 0..machine.socks - 1
  PROVE  Cardinality({i \in DOMAIN affinity : affinity[i] \div GroupCores = s})
           = GroupThreads
<1> DEFINE G == GroupThreads
           S == machine.socks
<1>1. /\ G \in Nat \ {0}
      /\ machine.threads = S * G
      /\ S \in Nat \ {0}
  BY BalancedMachine DEF PlacementTypeOK
<1>2. {i \in DOMAIN affinity : affinity[i] \div GroupCores = s}
        = {i \in 0..S * G - 1 : i \div G = s}
  <2>1. ASSUME NEW i \in 0..machine.threads - 1
        PROVE  affinity[i] \div GroupCores = i \div G
    BY <2>1, CoreOfFacts
  <2>2. QED
    BY <1>1, <2>1
<1>3. {i \in 0..S * G - 1 : i \div G = s} = s * G..s * G + G - 1
  BY <1>1, SocketSlice
<1>4. Cardinality(s * G..s * G + G - 1) = G
  <2>1. s * G \in Int /\ s * G + G - 1 \in Int
    BY <1>1
  <2>2. ~(s * G > s * G + G - 1)
    BY <1>1
  <2>3. Cardinality(s * G..s * G + G - 1) = (s * G + G - 1) - s * G + 1
    BY <2>1, <2>2, FS_Interval
  <2>4. QED
    BY <2>3, <1>1
<1>5. QED
  BY <1>2, <1>3, <1>4

(* The invariant gives spec 4.2's placement on a balanced machine.         *)
LEMMA EvenFromIInv ==
  ASSUME PlacementIInv, Balanced
  PROVE  EvenPlacement
<1>1. PlacementTypeOK /\ ~crashed /\ unpinned = {}
      /\ DOMAIN affinity = 0..k - 1
      /\ \A i \in DOMAIN affinity : affinity[i] = CoreOf(i)
  BY DEF PlacementIInv
<1>2. SUFFICES ASSUME Placed
               PROVE  /\ \A i, i2 \in DOMAIN affinity : i # i2 => affinity[i] # affinity[i2]
                      /\ \A s, s2 \in 0..machine.socks - 1 :
                           Cardinality({i \in DOMAIN affinity : affinity[i] \div GroupCores = s})
                             <= Cardinality({i \in DOMAIN affinity : affinity[i] \div GroupCores = s2}) + 1
  BY <1>1 DEF EvenPlacement
<1>3. DOMAIN affinity = 0..machine.threads - 1
  BY <1>1, <1>2 DEF Placed
<1>4. ASSUME NEW i \in DOMAIN affinity, NEW i2 \in DOMAIN affinity,
             affinity[i] = affinity[i2]
      PROVE  i = i2
  <2>1. /\ CoreOf(i) \div GroupCores = i \div GroupThreads
        /\ CoreOf(i) % GroupCores = i % GroupThreads
        /\ i = (i \div GroupThreads) * GroupThreads + (i % GroupThreads)
    BY <1>1, <1>3, CoreOfFacts
  <2>2. /\ CoreOf(i2) \div GroupCores = i2 \div GroupThreads
        /\ CoreOf(i2) % GroupCores = i2 % GroupThreads
        /\ i2 = (i2 \div GroupThreads) * GroupThreads + (i2 % GroupThreads)
    BY <1>1, <1>3, CoreOfFacts
  <2>3. CoreOf(i) = CoreOf(i2)
    BY <1>1, <1>4
  <2>4. i \div GroupThreads = i2 \div GroupThreads /\ i % GroupThreads = i2 % GroupThreads
    BY <2>1, <2>2, <2>3
  <2>5. QED
    BY <2>1, <2>2, <2>4
<1>5. ASSUME NEW s \in 0..machine.socks - 1
      PROVE  Cardinality({i \in DOMAIN affinity : affinity[i] \div GroupCores = s})
               = GroupThreads
  BY <1>1, <1>3, SocketCount
<1>6. GroupThreads \in Nat
  BY <1>1, BalancedMachine
<1>7. QED
  BY <1>4, <1>5, <1>6

(* Spec 4.2 holds of the placement loop of lines 561-573 on every          *)
(* balanced machine: no thread count, socket count or CPU count with       *)
(* thread_number a multiple of num_sock and group_threads <= group_cores  *)
(* ever crashes it, leaves a thread unpinned, pins two threads to one     *)
(* core or loads one socket more than another.                             *)
THEOREM EvenPlacementHolds == Spec => []EvenPlacementWhenBalanced
<1>1. Init => PlacementIInv
  BY PlacementInitIInv
<1>2. PlacementIInv /\ [Next]_vars => PlacementIInv'
  BY PlacementIInvInductive
<1>3. PlacementIInv => EvenPlacementWhenBalanced
  BY EvenFromIInv DEF EvenPlacementWhenBalanced
<1>4. QED
  BY <1>1, <1>2, <1>3, PTL DEF Spec

====
