# TLA+ models of the FASTER micro-benchmark harness

The repository's only source is `src/cc/playground/sum_store-dir/FH_MicroTest.cpp`, a
driver for the FASTER key-value store. The store itself (`FasterKv`) is not in the
repository. The modules below model the driver from its source. They model the store
only through the operation contract that spec.md section 6 gives it: its checkpoint
and garbage-collection state, and the statuses its calls may return.

## 1. Inventory

| Component | Code | State | Operations |
|---|---|---|---|
| Workload partitioner | `main` 598-606 | `loads`, `localloads[thread_number]` | hash every key, reduce it modulo `init_size`, divide by `init_size/thread_number`, then `push_back` |
| Permutation shuffler | `Permutate` 394-398, `main` 629-633 | `loads`, `localloads` | a random shuffle of the keys (dead with LOCAL_TYPE 1), and a random shuffle of every partition |
| Worker pool | `multiWorkers` 540-585 | `workers`, `parms` | spawn one thread per partition, pin it to a NUMA core, join them all |
| Round executor | `measureWorker` 400-500 | per thread: `i`, `hit`, `fail` | `StartSession`, then per key an Upsert or a Read with Refresh/CompletePending, then `StopSession` and the atomic adds |
| Metrics aggregator | globals 67-73 | `success`, `failure`, `total_time` | zeroed by `main` before every round but the first; `__sync_fetch_and_add` at each thread's end |
| Main round sequence | `main` 607-667 | `firstround`, `reading`, `rounds` | one first insert round, the shuffle, then `rounds` times an insert round and a read (or insert) round; `stopMeasure.store(0)` after each |
| Checkpoint coordinator | `checkWorker` 259-323, `multiPoints` 368-379 | `stopMeasure` (an atomic), per thread `i`, `j` | CAS election, `Checkpoint()`, sightings of `stopMeasure==1 && CheckpointCheck()`, break after 10, `goto s` while the checkpoint runs |
| GC coordinator | `gcWorker` 325-366, `GC` 381-392 | `stopMeasure`, `Gcflag` (engine) | CAS election, `GrabageCollecton()`, break on `Gcflag`, no re-traversal |
| Recovery verifier | `RecoverAndTest` 228-257 | `hit`, `fail` | `Recover` from the tokens, then read `0..2*total_count-1` with no session and no `CompletePending` |
| Single-threaded drivers | `simpleInsert*`, `simpleRead` 108-226 | | never called |
| Allocation glue | `prepare`, `finish` 502-538 | | allocation only |

How the parts interact:
- `main` builds the partitions. Each round, `multiWorkers` starts threads, and each
  thread owns one partition and a session on the shared store.
- The only shared mutable state in the harness is the global counters and the
  atomic `stopMeasure`. `stopMeasure` is used as an election flag by both
  `checkWorker` and `gcWorker`.
- The engine's checkpoint and collection state machines run on their own. The
  workers only observe them through `CheckpointCheck()` and `Gcflag`.

The hard behaviours:
- Workers interleave on the CAS.
- There is a window between the CAS and the `Checkpoint()` call.
- The `goto s` retry loop is unbounded.
- `j` is overwritten at the break.
- Serial numbers restart after `goto s`.
- The partition and NUMA arithmetic is only right on some inputs.
- The counter resets between rounds.

`stopMeasure` is shared by the two elections, but `main` calls neither
`multiPoints()` nor `GC()` in this build, so that sharing is not a hazard of
this code. `Checkpoint()` cannot return false here either: its only caller is
the one election winner, and the engine is at rest when it calls.

`PROJECT.json` lists these hazards line by line.

## 2. Plan

Sitting 1 (done):
1. `Partition`: the partitioner.
2. `Harness`: it EXTENDS `Partition` and adds the rounds, the workers and the
   counters.
3. `Placement`: NUMA placement.
4. `CheckpointCoordinator` with `MCCheckpointCoordinator`, and the proofs module
   `CheckpointCoordinatorProofs`.
5. `GCCoordinator` with `MCGCCoordinator`.

Sitting 2 (done):
6. `CheckpointElection`: the abstract election. `CheckpointCoordinator`
   instantiates it through `INSTANCE ... WITH` under a refinement mapping. TLC
   checks the refinement, and TLAPS proves it (`RefinementHolds`).
7. `GCCoordinatorProofs`: proves `GcElectionExclusive`.
8. `Recovery` (`RecoverAndTest`), with `RecoveryProofs`.
9. `RetryCanBreak`: a property for the count overwrite at line 309.

Sitting 3 (proofs, done):
10. `PartitionProofs`: proves `PartitionComplete`.
11. `HarnessProofs`: proves `Conservation`, `StoreComplete` and
    `PartitionComplete` for the whole harness.
12. `PlacementProofs`: proves `EvenPlacementWhenBalanced`.

Left:
- A composition of `multiPoints` followed by `GC()` that shares `stopMeasure`.
  Both calls are commented out of `main` in this build, so such a composition
  would model code that never runs. It is left until a build calls them.
- A proof of the liveness property `Termination`, which is out of the prover's
  reach (see section 5).
- The CPR serial numbers of `goto s` (line 287). These need a model of how the
  engine persists session prefixes.

## 3. Modules and how they correspond to the code

**`CheckpointCoordinator`**: `checkWorker` and `multiPoints`.
- Each worker has a `pc`:
  - `op`: the top of the loop body;
  - `ckpt`: the CAS has been won;
  - `maint`: the refresh and complete-pending block;
  - `after`: the code after the loop;
  - `done`: `StopSession`.
- The worker's loop index is `i`, and `j` counts its sightings.
- Actions:
  - `Upsert`: line 287, with no election won;
  - `WinElection`: the CAS at line 290 succeeds;
  - `Checkpoint`: lines 291-300, accepted only when the engine is at rest;
  - `BreakOut`: lines 305-312;
  - `NextIteration`: lines 301-315;
  - `RetryPass`: `goto s`;
  - `Leave`: line 320.
- The engine's checkpoint is `ckptPhase`, which is either `rest` or `in_progress`.
  `CompleteCheckpoint` finishes it, and `CheckpointCheck()` is true at `rest`.
- `winners`, `ckptsIssued` and `ckptsDone` are history variables.
- The constants are the loop length and the three intervals, so the instance can be
  small while still reaching the trigger and refresh points. `ObserveQuota` stands
  for the literal 10 of line 310.

Note on `main`: it calls neither `multiPoints` nor `GC()` in this build. The calls at
lines 636, 657 and 661 are commented out. The two coordinators are modelled as the
components that spec 4.3 and 4.4 describe, and as the code that those functions run
when they are called.

**`CheckpointElection`**: the abstract election that spec 4.3 promises.
- Variables: `elected`, `ckpt` (`none`, `requested` or `done`) and `exited`.
- Actions: `Elect`, `Request`, `Complete` and `Exit`.
- `Exit` is forbidden while the checkpoint is requested. The elected worker may exit
  only after its checkpoint is done.
- It does not promise that followers wait for the request. `checkWorker` does not
  make them wait, as the early-exit run shows.
- The mapping from `CheckpointCoordinator`:
  - `elected <- winners`;
  - `ckpt <- CkptState` (built from the engine's issued and done counters);
  - `exited <- Exited` (the workers at `done`).
- `ElectionRefinement == ElectionAbs!AbsSpec` is checked as a PROPERTY.

**`Recovery`**: `RecoverAndTest` and the `argc > 7` branch of `main`.
- `Recover` chooses the keys the checkpoint holds. This can be any subset of the
  domain: the checkpoint comes from an earlier run, whose threads upsert
  concurrently in partition or loop order.
- `ReadKey` is one loop iteration, at the loop index `ri`. A status of `Ok`
  increments `hit`, and any other status increments `fail`.
- The engine's answer for a recovered key is drawn from `PresentReadResults`.

**`GCCoordinator`**: `gcWorker` and `GC`, with the same structure.
- The engine phase is `gcPhase`: `idle`, `running` or `finished`. `Gcflag` is true
  at `finished`.
- There is no `goto`, so `NextIteration` at the loop end and `BreakOut` both lead
  straight to `done`.

**`Partition`**: the partition loop.
- `hash` is an arbitrary function from keys to `HashValues`, fixed in the initial
  state. `GetHashCode` is the engine's, and every hash function is tried.
- `localloads` has an entry for every lid the formula can produce. The entries from
  `ThreadNumber` on stand for the memory past the C++ array.

**`Harness`**: it EXTENDS `Partition` and adds `main`'s round sequence (`mainPc`,
`round`) and one measureWorker per partition (`wpc`, `idx`, `hit`, `fail`).
- `success`, `failure` and `store` are the global state.
- `ShufflePartitions` chooses any order of every partition.
- `FinishWorker` makes the two `__sync_fetch_and_add` calls of lines 498-499 one
  step. Each add is atomic and additions commute, so no interleaving of the
  workers' adds changes the totals that `main` reads after the join. A lost
  update (a plain `+=`) cannot be expressed in this model.
- An Upsert counts as a failure only on `NotFound`, and a Read as a hit only on
  `Ok`, exactly as in lines 439-442 and 473-476.
- The engine's answers are nondeterministic choices from the sets that spec 6 gives.

**`Placement`**: the core formula of line 571, evaluated for thread count, socket
count and CPU count drawn from small sets.
- It has three outcomes: the thread is pinned, the thread is left unpinned (the
  failure of `setaffinity` is ignored), or the process crashes on a division by zero.

## 4. Runs

| Run | Checks | Result |
|---|---|---|
| checkpoint_safety | TypeOK, ElectionExclusive, JoinAfterCheckpoint, ElectionRefinement (CheckpointElection under the mapping) | pass |
| checkpoint_termination | Termination under WF | pass |
| checkpoint_early_exit | NoExitWhileInFlight | violation |
| checkpoint_retry_break | RetryCanBreak | violation |
| partition_three | PartitionComplete (3 workers) | violation |
| harness_rounds | PartitionComplete (2 workers, init_size 4), Conservation, StoreComplete | pass |
| placement_balanced | EvenPlacementWhenBalanced | pass |
| placement_any | EvenPlacement | violation |
| gc_election | GcElectionExclusive | pass |
| gc_early_join | JoinAfterGc | violation |
| recovery_roundtrip | RecoveryRoundTrip, reads answered Ok | pass |
| recovery_pending | RecoveryRoundTrip, reads may go Pending | violation |

Bounds:
- **Checkpoint runs:** three workers, loop length 6, checkpoint interval 2, refresh
  interval 1, complete-pending interval 4 and a sighting quota of 2. This is enough
  for every worker to reach a trigger point, to lose or win the race, to count up to
  the quota, to break out, to finish the loop while the checkpoint runs and to retry.
  The run uses symmetry over the workers. The liveness run uses two workers and no
  symmetry.
- **Partition and harness runs:** every hash function of 3 keys into 0..7, with
  init_size 4. This covers hashes both below and above init_size. The harness run
  uses 2 workers and one further insert-and-read round.
- **Recovery runs:** 6 keys (`total_count = 3`), and all 64 checkpoint contents.
- **Placement runs:** every machine with 1-6 threads, 1-3 sockets and 2, 3, 4 or 6
  CPUs.

The violation runs are the findings in `PROJECT.json`:
- **checkpoint_early_exit:** a follower counts its sightings in the window between
  the winner's CAS and its `Checkpoint()` call, while the engine is still at rest.
  It then stops its session, and the checkpoint starts without it.
- **partition_three:** a thread count that does not divide the power-of-two
  `init_size` writes past `localloads`.
- **placement_any:** one thread on two sockets divides by zero. Other thread counts
  produce cores that do not exist.
- **checkpoint_retry_break:** a follower breaks out before the checkpoint is
  requested. It then finds the checkpoint in progress and re-enters the loop with
  `j = i`, because line 309 overwrote its count. `j == 10` can never hold again, so
  it runs a whole extra pass.
- **recovery_pending:** a recovered key whose read goes Pending is counted as a
  failure. `RecoverAndTest` never calls `CompletePending`.
- **gc_early_join:** `GC()` reports that the collection is done while it is still
  running.

Fairness. `Termination` assumes weak fairness of each worker and of the engine's
checkpoint completion.
- Each worker is a separate pthread that always has a step to take, so weak
  fairness of each worker is justified.
- The engine completes a checkpoint it has accepted. This is the spec's contract,
  and without it the `goto s` loop never ends.

## 5. Proofs

All theorems hold for every value of the constants that the named ASSUMEs allow.

**`CheckpointCoordinatorProofs`** proves four theorems:
- `TypeCorrect`: `Spec => []TypeOK`;
- `ElectionExclusiveHolds`: `Spec => []ElectionExclusive`;
- `JoinAfterCheckpointHolds`: `Spec => []JoinAfterCheckpoint`;
- `RefinementHolds`: `Spec => ElectionRefinement`.

`TypeOK` alone is not inductive. The increment `i+1` stays inside `0..LoopEnd` only
because a worker inside the loop body has `i < LoopEnd` (`LoopBound`).

The election facts need `IInv`, which adds two conjuncts:
- `WinnerProgress`: a winner at `ckpt` has issued nothing, a winner past `ckpt` has
  issued exactly one checkpoint, and a winner that is done has seen it finish;
- `EngineProgress`: the checkpoint is in progress exactly when it was issued and has
  not completed.

The refinement proof has two parts:
- the initial state maps to `AbsInit`;
- lemma `StepRefines` shows that in a state of `IInv` every step maps to an abstract
  step or a stutter:
  - `WinElection` maps to `Elect`;
  - an accepted `Checkpoint` maps to `Request` (`IInv` says the winner is at rest
    with nothing issued);
  - `CompleteCheckpoint` maps to `Complete`;
  - `Leave` maps to `Exit`. `CheckpointCheck` and `EngineProgress` exclude
    "requested", and `WinnerProgress` gives "done" for the winner;
  - every other step is a stutter.

**`GCCoordinatorProofs`** proves `GcElectionExclusiveHolds`:
`Spec => []GcElectionExclusive`.
- The inductive invariant `GcIInv` adds `GcWinnerProgress`: only the winner can be
  at `gc`, it is there with nothing issued, it has issued exactly one collection
  once it is past `gc`, and the engine is idle exactly when nothing is issued.

**`RecoveryProofs`** proves `RoundTripHolds`: under
`PresentReadResults = {"Ok"}`, `RecoverySpec => []RecoveryRoundTrip`.
- The invariant `RecoveryIInv` splits the keys read so far, `0..ri-1`: `hit` counts
  the recovered ones and `fail` the others.
- Each read adds its key to exactly one side, using `FS_AddElement` from
  `FiniteSetTheorems`.
- The hypothesis that reads of recovered keys are answered Ok is necessary: the
  recovery_pending run shows the property fails without it.

Each inductive invariant (`IInv`, `GcIInv`, `RecoveryIInv`) was checked with TLC, as
an invariant of its run's instance, before it was proved. It passed every time.

**`PartitionProofs`** proves `PartitionCompleteHolds`:
`ThreadsDivideIndex => (PartitionSpec => []PartitionComplete)`.
- `ThreadsDivideIndex` says `init_size % thread_number = 0`. `init_size` is a
  power of two and the benchmark runs with power-of-two thread counts, so the
  hypothesis holds for the runs the code is made for. Under it, every lid of
  line 604 is the index of a worker (lemma `LidInTids`). It is a hypothesis of
  the theorem, not an ASSUME of the module: the partition_three run shows the
  property fails with three threads.
- The inductive invariant `PartitionIInv` says that each load list has no
  repeated key, and that the keys of list `t` are exactly the keys below `n`
  whose lid is `t` (`KeysOf(t) = AssignedTo(t)`). Each push of line 605 adds key
  `n` to its own list and to no other.

**`HarnessProofs`** proves, under the same hypothesis:
- `HarnessIInvHolds`: `Spec => []HarnessIInv`;
- `ConservationHolds`: `Spec => []Conservation`;
- `StoreCompleteHolds`: `Spec => []StoreComplete`;
- `HarnessPartitionCompleteHolds`: `Spec => []PartitionComplete`.

`HarnessIInv` is needed because `Conservation` speaks only of joined workers. It
adds what is true in the middle of a round:
- each worker has processed `idx[w]` keys of its list;
- `hit[w] + fail[w] = idx[w]`, and a finished worker has processed its whole list;
- `success + failure` is the number of keys of the finished workers (`Reported`).
  The load lists are disjoint (`PartitionsDisjoint`), so this is a sum of list
  lengths;
- during the first round, every key processed so far is in the store.

The shuffles of lines 537-541 keep `PartitionIInv`, because a permutation of a
list has the same set of keys and no repeats (lemma `PermutationKeys`, from
`SetToSeqs` and `FS_Injection`).

**`PlacementProofs`** proves `EvenPlacementHolds`: `Spec => []EvenPlacementWhenBalanced`.
- The inductive invariant `PlacementIInv` says that, on a balanced machine,
  nothing has crashed, nothing is unpinned, and threads `0..k-1` are pinned to
  `CoreOf(i)`.
- On a balanced machine, `CoreOf(i) div group_cores = i div group_threads` and
  `CoreOf(i) % group_cores = i % group_threads` (lemma `CoreArith`, which needs
  `group_threads <= group_cores`). So two threads on one core are one thread, and
  the threads on socket `s` are the interval `s*G .. s*G+G-1` of `G` threads
  (`SocketSlice`, `SocketCount`).
- A core the task lacks, or a division by zero, cannot happen there: `CoreOf(i)`
  stays below `num_cpus`, and `group_threads` is at least 1.
- `PinThread` writes the new affinity as an explicit function on
  `DOMAIN affinity \cup {k}`, not with TLC's `@@`/`:>`. The prover cannot expand
  those operators, and the two forms denote the same function.

Each inductive invariant (`PartitionIInv`, `HarnessIInv`, `PlacementIInv`) was
also checked with TLC as an invariant of its run's instance before it was proved.
`HarnessIInv` was also checked with `Rounds = 2`. With three threads it fails (at
`store = Keys`), which is why the harness theorems carry `ThreadsDivideIndex`.

TLC only, and not proved:
- `Termination`. The prover cannot reason about liveness or ENABLED.

## 6. Not modelled

- **Not modelled:**
  - elapsed times and throughput (including the division by a zero `total_time`);
  - the leaked `output` arrays;
  - CLI parsing;
  - the single-threaded drivers, which are never called;
  - `prepare` and `finish`;
  - the engine's internals: sessions, epochs, and the CPR serial numbers that
    `UpsertT` receives;
  - the composition of the two elections that share `stopMeasure`, because `main`
    calls neither.
