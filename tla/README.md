# roboflow: TLA+ specifications

roboflow converts robot recordings (bag, MCAP) into training datasets. A set of
pods shares nothing but a TiKV store: a scanner turns each submitted batch into
work units, workers claim and process them, a reaper takes units away from dead
workers, a controller moves batches from phase to phase, and a finalizer merges the
results. The modules in this directory model that control plane, TLC checks them on
small instances, and TLAPS proves the most important properties for every value of
the constants. `PROJECT.json` lists the components, the runs, the lines of code
behind every definition, the hazards, the findings and the theorems.

Paths below are relative to `src/crates/roboflow-distributed/src/` unless they name
another crate.

## 1. The system

| Part | State | Operations |
|---|---|---|
| Work units (`batch/work_unit.rs`, `batch/controller.rs`) | a record per unit and a key per unit in the pending queue | claim, complete, fail |
| Worker (`worker/coordinator.rs`) | main loop, `active_jobs`, shutdown flag, heartbeat task | poll, claim, process, report, beat, shut down |
| Reaper (`reaper.rs`) | none between iterations | find stale heartbeats, find their units, reclaim |
| Controller (`batch/controller.rs`, `batch/status.rs`, `batch/mod.rs`) | a status per batch, a phase index | submit, cancel, reconcile |
| Scanner (`scanner.rs`) | the leader's position in a batch | become leader, find open batches, list sources, create units, change phase |
| Finalizer and merge (`finalizer/mod.rs`, `merge/`) | a merge state per batch, merge permits | find finished batches, claim, merge, close |
| Episode allocator (`episode/allocator.rs`) | a counter with a version | initialise, read, compare and swap |
| Locks (`tikv/locks.rs`, `tikv/client.rs`) | a record with an owner and an expiry, guards, renewal tasks | acquire, renew, release, drop, steal |
| Circuit breaker (`tikv/circuit.rs`) | state, counters and times in separate atomics | permit, count a success, count a failure |
| Metadata and statistics (`metadata/`, `stats/`) | tasks, features, episode metadata, counters | register, submit, assemble |
| Storage (`roboflow-storage`) | cache entries, an upload queue, multipart uploads | read, write, upload, evict, flush |
| Executor (`roboflow-executor`) | slots and permits, stages and tasks | acquire, release, run a stage |
| Dataset (`roboflow-dataset`) | frames being aligned, writer counters, a ring buffer | add a message, complete frames, write |
| Media (`roboflow-media`) | one encoder thread per camera | add a frame, finalise, abort |
| Command line (`src/src/bin`) | the pod id | submit, cancel, start a role |

How they interact: everything in the control plane goes through TiKV. `get` reads a
fresh snapshot; `put`, `delete` and `batch_put` write without looking; only
`transactional_claim`, `cas`, `acquire_lock`, `release_lock` and the submission of a
batch are transactions. Most operations are therefore a read, a computation and a
blind write, with any number of steps of other pods in between.

What makes it hard: stale reads written back; two writes that belong together and a
crash between them; heartbeats that are late although their worker lives; leases
measured on clocks that differ; answers lost after the write took effect; loops that
must find, by an index, work that other loops move about in that index.

What correctness means here: a unit is executed by one worker at a time, its attempts
are counted and its outcome is final; no file and no batch is lost; a batch is merged
once, and completed only if it was merged; no two episodes share an index; there is
one leader; and everything submitted comes to an end.

## 2. The modules

In all modules one TiKV call is one step, and a transaction is one step.

| Module | Models | Abstract or composed with |
|---|---|---|
| `WorkUnits` | units, pending queue, worker loop, heartbeats, reaper | |
| `BatchLifecycle` | one batch: controller, scanner, finalizer, merge, command line | units advance as in `WorkUnits` |
| `Discovery` | one batch with several sources: the scanner's cycle in detail, beside the controller | leadership as in `LockManager`, claims as in `WorkUnits` |
| `EpisodeAllocator` | the counter and the workers' requests | implements `EpisodeDispenser` |
| `EpisodeDispenser` | what the allocator promises: every index once, in blocks below the limit | |
| `LockManager` | the lock record, guards, renewal, clocks that differ | |
| `MC*` | instances for TLC: sets, symmetry, values of functions | |
| `*_proofs` | theorems with TLAPS proofs | |

Definitions keep the names of the functions they model. A definition named
`X_Something` placed before `X` is a faulty variant of `X`: with it in the place of
`X`, TLC finds the property it is listed with violated.

### WorkUnits

`unit` holds the stored records and `pending` the units that have a queue key. `wk`
is the program counter and the locals of a worker's main loop, `rp` those of a
reaper. `heartbeat` abstracts the age of a heartbeat record to none, fresh or stale.
`claim_work_unit` is `ScanPending` (a scan with limit 1) and `Claim` (the
transaction); `complete_work_unit` is `ReadForComplete` and `Complete`, which writes
back the record it read; `fail_work_unit` is `ReadForFail`, `Fail` and, for a unit
that can be retried, `Requeue`. A reaper's iteration is `find_stale_workers`,
`find_orphaned_work_units`, then for each unit `VerifyStale` and the transaction
`Reclaim`. The search for orphans is a scan with the limit `max_work_unit_scan`
(`MaxScan`): it sees the same first units in key order every time (`Scanned`), since
finished units are never removed. A unit behind the limit is never reclaimed, and
`OrphansReclaimed` speaks of the others. The scan of the heartbeats has a fixed limit of
1000, which is above the instances. A worker whose main loop ends with an error is `wedged`: `run` then waits
for the heartbeat task, which ends only with a shutdown, so the pod keeps beating and
claims nothing. A restarted pod has the same pod id. `runs` and `reapedLive` are
history variables; `runs` saturates one above `MaxAttempts`.

### BatchLifecycle

`status`, `index`, `unit` and `merge` are the stored state of one batch. Every actor
reads the status, prepares the next one and goes through the same three writes:
`Put`, `IndexPut`, `IndexDelete`. `lost` records that a put overwrote a status its
author had not seen. The merge's own index key (`MergingPath`) is kept apart, because
`transition_to_merging` builds it from a path and not from the batch id. A scan cycle
first collects a copy of the status from the Pending prefix and one from the
Discovering prefix, and then processes the copies: a batch under both keys is
processed twice, the second time from a copy that the first has made stale. Reduced:
one source per batch (several are in `Discovery`), one scanner (the leader), one
controller and one finalizer, although pods in the default unified role each run
both (what a second finalizer does is in section 5), `max_batches_per_cycle` above one batch,
a merge permit always available, a validated specification, and one expected worker
in the merge state. `Suspending` and `Suspended` exist in the code, but nothing enters
them.

### Discovery

The locals of a scanner are functions of the scanner: where it is, the statuses it
read, the status it works on, its source, and the files still to get a unit.
`finalize_batch_phase` counts the files and units of this cycle only, as the code
does. A scanner may take over from a leader that still works (fault `lease`), which
`LockManager` allows when a lease runs out under its holder.

The controller's reconcile loop runs beside the scanners (`ctl`). It reads the status,
scans the units of a batch that is past discovery, and puts the status back even if it
decided nothing, whatever is stored by then; `reopened` records that this, or a save of a
scanner working from an old copy, put an unfinished phase over a finished one. The
key of the batch may have left the prefixes the scanners read by then, so `Findable`
holds up to that moment, and `DiscoverySettles` says how the batch still ends. A write that
reports an error may or may not have taken effect (`Write`, `CtlWrite`). A unit here is
missing, Pending or Claimed; its outcome is left to `WorkUnits`, so the controller may
see claimed units as failed or not.

### EpisodeAllocator

A request reads the counter, creates it if missing, and swaps it if the version is
the one it read; it gives up after `MaxAttempts`. An answer of a swap may be lost. The
width of the chunk index is the constant `U32`, so that TLC reaches the wrap with a
small one and the proof covers 2^32.

### LockManager

Time passes in ticks, and `Skew` says how far each clock is ahead of the slowest. The
model keeps, for the record and for each guard, what is left of the lease. The lease
is the scanner's: three times its scan interval, and at least `MinTTL` (`TTL`), with an
interval of its own for each pod. The renewal task runs every `RenewEvery` whatever
the lease is. Nothing in the code relates the two, and nothing in the model does:
`InTime(p)` is the condition under which p's renewal comes before its lease ends, and
`LeaderKeepsLock` has it as a hypothesis. `renew`,
`steal` and an acquisition whose answer is lost write a record that no guard knows
of (`AcquireOnly`). `Drop` spawns a release which may run after the pod acquired the
lock again (`late`, `undercut`).

### Assumptions about TiKV

TiKV is not part of the repository and is modelled from how the code uses it.
Pessimistic transactions (`transactional_claim`, `cas`, `acquire_lock`,
`release_lock`) and `batch_put` take effect atomically or not at all, and a `get`
sees every committed write. The atomicity of the transactions is an assumption: they
read with `txn.get` and not with `get_for_update`, so no lock is taken before the write,
and that TiKV rejects one of two that read the same value is not shown here. A write may take effect although its answer is an
error. The reaper's transaction also deletes an empty key, which has no effect on
what is modelled.

## 3. The runs

| Run | Instance | Shows |
|---|---|---|
| `units_faults` | 1 unit, 2 workers, 1 reaper, 2 attempts, every fault | `TypeOK`, `RecordConsistent`, `ClaimExclusive`, `AttemptsCountRuns`, `TerminalStays` |
| `units_progress` | 3 units, 2 workers, 1 reaper, a scan limit of 2; either failing jobs or a worker that dies; fair | `FailedIsQueued`; `FinishedOrBlocked`: all units finish, unless a finished unit heads the queue; `OrphansReclaimed` |
| `batch_faults` | 1 unit, one of each actor, 1 disturbance of any kind | `TypeOK`, `CountsFit`, `CompleteWasMerged`, `MergedOnce`, `PhaseSteps` |
| `batch_retry` | 2 units that fail and are retried | `CountsFit`, `MergedOnce`, `IndexLeads`, `PhaseSteps` |
| `batch_settles` | 1 unit, discovery timeouts, fair | `IndexLeads`; `BatchSettles`: a batch is merged or fails |
| `episodes` | 3 workers, requests for 1 and 2, limit of 4 indices | `NoIndexTwice`, `ChunksFit`, `ImplementsDispenser`, the invariant `IInv` of the proof |
| `lock` | 2 pods with scan intervals of 60 s and 30 s, skew of 30 s, fair | `LeaseBacked`, `MutualExclusion`, `LeaderKeepsLock`, `LeaderReturns` |
| `discovery` | 2 sources sharing a file; either a scanner and the controller with 1 fault, fair, or 2 scanners with 2 | `ScannedIsCovered`, `Findable`, `ProgressKept`; `SettlesWithController`: `DiscoverySettles` in the first deployment |
| `units_reap_retry` | violation | the documentation says a reclaimed unit is retried; it is not |
| `batch_early_merge` | violation | the documentation says a merge waits for all units; it does not |
| `lock_short_interval` | violation | the comment says the lock is held for the whole cycle; with a scan interval of 30 s it is not |
| `discovery_skipped` | violation | the comment says sources not processed yet are processed; one is skipped |

### Bounds, and why they are enough

- `units_faults` has one unit: units interact only through the head of the queue,
  which `units_progress` checks with three. Two workers and a reaper
  give every race on a record; two attempts give a retry and a death.
- `units_progress` has one unit behind the scan limit and two within it, so that the
  reaper passes over a unit and has to choose between two. Failing jobs and dying
  workers are separate behaviours of one run (`trouble`).
- `batch_faults` allows one disturbance, at any point of any actor; `batch_retry`
  trades disturbances for a second unit, so that counts differ from 0 and all, and
  `batch_settles` the second unit for discovery timeouts.
- `episodes` has more requests than indices, so both exhaustion and a block that
  straddles the limit happen; three workers let two race while a third goes on.
- `lock`: a tick of 30 s gives the default lease of 180 s to one pod and 90 s to the
  other, the least lease of 60 s and the renewal interval of 120 s: the first pod is
  in time and the second is not. `MaxLate` bounds the releases under way.
- `discovery`: two sources that share a file give a file that has a unit already, a
  source after a failed one and a partly written source (`batch_size` 1). Two faults
  give a crash during the recovery from another fault. Two leaders and a controller at
  once are too many interleavings for TLC: `deployment` takes them two at a time, and
  the theorems hold for all of them together.
- Symmetry is used for workers, and for units where no order matters, and not
  in runs that check liveness.
- The deadlock check is off in `units_reap_retry` only, which is about a system that
  has stopped: every unit is finished or out of the queue.

### Fairness

- `WorkUnits`: each worker's loop, its heartbeat task and each reaper is a task of
  its own that the runtime keeps polling; a heartbeat nobody renews becomes stale.
  Nothing forces a job to succeed, a process to die or to come back.
- `BatchLifecycle`: the loops of controller, scanner and finalizer run for ever with
  a fixed interval (weak fairness). The discovery timeout has strong fairness: it
  compares the time of the last change, which saves of an unchanged status do not
  refresh, so a batch that keeps being found in Discovering is at some time found
  too old.
- `LockManager`: clocks run, and a pod in `Steady` tries again for ever.
- `Discovery`: some scanner keeps becoming leader (this is `LeaderReturns`), and a
  cycle goes on, as does the reconcile loop. The first half of `DiscoverySettles` needs
  no more. The second half, about a batch that a stale save has hidden, assumes strong
  fairness of the discovery timeout, for the reason given above. Faults are bounded in number, as for every liveness property of a
  system that retries.

## 4. The proofs

All theorems hold for every value of the constants that satisfies the `ASSUME`s of
the module: any number of units, workers, reapers, pods, scanners, sources and files.

- **`WorkUnits_proofs`**: `TypeCorrect`, `RecordsConsistent`, `ClaimsExclusive`,
  `AttemptsCounted`, `TerminalUnitsStay`. The inductive invariant `IInv` adds
  `WorkerInv` to these: a worker past its scan holds a unit and counts a job, and the
  record it read before reporting an outcome is still the stored one, unless a
  reaper took the unit from a live worker. Without the last part a blind write could
  overwrite anything, which is why each of the properties has that exception.
- **`EpisodeAllocator_proofs`**: `IndicesUnique`, `ChunksNeverTruncated`, and
  `Refinement`, that the protocol implements `EpisodeDispenser`. The invariant says
  that the version identifies the value: a worker that read the current version read
  the current counter, and everything handed out lies below it.
- **`LockManager_proofs`**: `LeasesBacked`, `LockExclusive`, `LeaderStays`. The
  invariant is the correspondence of guards and record: a guard whose lease is over
  on no clock is backed by a record of its own that lasts as long. `RenewalAhead` adds
  that a task that was never late has renewed recently enough. Leases, renewal
  interval and skew are arbitrary. `LeaderStays` is about each leader with
  `InTime`: the default intervals satisfy it for clocks that differ by at most a
  minute, a scan interval below 40 s does not with any clocks.
- **`Discovery_proofs`**: `SkippedSourcesCovered`, `ClaimsSafe` and
  `UnfinishedIsFound`, for any number of scanners and controllers. The invariant `IInv`
  says of every status that may still be stored (in TiKV, in a scanner's list, in its
  hands, in a controller's) that the sources it counts have their units, that the position in the list
  agrees with the count, and that with one leader a file still to get a unit has none.
  `UnfinishedIsFound` has two invariants of its own: `PhasesRead`, which phases an actor
  can be about to store given the phase it read, and `KeysKept`, that while discovery is not
  over and was not reopened, nobody is about to delete the last key.

Only model-checked: everything about `BatchLifecycle`, `FailedIsQueued`, and all
liveness (TLAPS has no rules for fairness in the version used).

## 5. Where code and documentation disagree

Shown by a run:

1. A reclaimed unit is Failed and not in the pending queue, so nobody retries it
   (`reaper.rs:391`, against `reaper.rs:15`).
2. The controller leaves pending units out of the total, so a batch is merged with
   units outstanding (`batch/controller.rs:415`, against `finalizer/mod.rs:7`).
3. A source that fails is passed over for good when a later one succeeds
   (`scanner.rs:711`, against `scanner.rs:710`).
4. The scanner's lease is three scan intervals and its first renewal comes after 120 s: with
   an interval below 40 s a second scanner becomes leader during a long cycle of the first
   (`scanner.rs:312`, against `scanner.rs:979`).

Read in the code while modelling. The models contain this behaviour, mostly as the
exceptions in the properties, but no run is devoted to it:

- A worker that dies before its first heartbeat is never found (`reaper.rs:378`); a
  shutdown right after a claim leaves the unit Processing (`shutdown.rs:24`).
- A late `fail_work_unit` writes an old attempts count (`batch/work_unit.rs:43`), and a
  late outcome overwrites a final one (`state/mod.rs:76`).
- The reaper's scan returns the first `max_work_unit_scan` units of all batches, finished
  ones included, so an orphan behind them is never reclaimed (`reaper.rs:311`).
- A save of the controller, or a second pass of the scanner over a batch that is under
  both keys, may put Discovering over Running when the key is gone; only the discovery
  timeout ends such a batch (`batch/controller.rs:243`, `scanner.rs:481`).
- With two finalizers both may claim the merge (`merge/coordinator.rs:367`); a stale
  save of the controller may bring back a cancelled batch (`batch/status.rs:115`).
- A crash between a status and its index key loses the key (`batch/mod.rs:96`).
- The fencing token restarts at 1 after a takeover (`tikv/locks.rs:597`); `renew`
  acquires a lock that was lost (`tikv/locks.rs:402`).
- A leader that dies before the phase change makes the batch fail with "no files
  discovered" although its units exist (`scanner.rs:650`).

## 6. Not modelled, and the plan

Not modelled because there is no state that changes over several steps, or because it
is pure computation or I/O: codecs, pixel conversion and SIMD kernels, decoders of
recordings, Parquet and video layout, configuration, URL parsing, logging, the local
and the distributed catalog, argument parsing.

Planned, in this order:

1. `CachedStorage` (`roboflow-storage`, `cached/`): writers, upload workers,
   eviction, flush and drop. Properties: what was written and flushed is uploaded or
   still in the cache; `flush` returns only when nothing is pending; the size
   accounts for the entries, also when one is replaced; a download that fails leaves
   nothing that counts as cached.
2. `TaskRegistry` (`metadata/registry.rs`, `stats/tikv_collector.rs`): an index per
   task, one task per index, and the episode count.
3. `CircuitBreaker` (`tikv/circuit.rs`): concurrent callers over separate atomics,
   with an abstract breaker in which each operation is one step.
4. `MergePermits` (`merge/coordinator.rs` 62-224) and `ExecutorSlots`
   (`roboflow-executor`, `resource.rs`): permits and slots agree.
5. `StageExecutor`, `ConcurrentEncoder`, `RingBuffer`, `FrameAlignment`: the order of
   stages, the fate of failed tasks and threads, one producer and one consumer, and
   which frames are completed when. Known hazards: tasks that go on after another one
   failed their stage (`executor.rs:187`), an encoder thread whose failure is a result
   with no frames (`video/concurrent.rs:429`), a second producer
   (`ring_buffer.rs:238`).
6. Multipart upload: parts, completion and abort.
7. Compositions: `Discovery` with `LockManager` in place of the fault `lease`;
   `BatchLifecycle` with several finalizers.
8. Proofs: `CompleteWasMerged`, `CountsFit` and `MergedOnce` of `BatchLifecycle`, and the theorems of the new modules.
