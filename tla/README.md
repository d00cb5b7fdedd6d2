# A verification of rustgrad's stateful core in TLA+

rustgrad is a tensor library and deep-learning compiler in Rust. Most of its
code transforms numeric programs. This project is about the part that keeps
state between calls or shares it between threads, processes and devices:
buffers that are reused, persistent tensors with versions, transactions over
them, replay cursors, training programs that count, checkpoint and resume,
parameters with versions and locks, memory planning, the caches of compiled
code, the CUDA memory pool and collectives, files that are replaced, and the
scheduler that serves transformer requests. The modules here are translated from
the source under `src/src/`; `PROJECT.json` maps every definition to its lines.

Contents: 1 inventory, 2 plan, 3 modules and the code they model, 4 runs,
5 bounds, fairness and deadlock, 6 proofs, 7 findings, 8 what is not modelled.

## 1. Inventory

### How the parts fit together

    user code
      |-- eager sessions, optimizers, checkpoints   versioned parameters and their locks
      |-- compiled AdamW / momentum training        ledger, checkpoints, resume
      |     |-- module sessions                     seal a module, publish into it
      |     `-- recurrent replay (mixed_capture)    cursors over versioned buffers
      |           |-- EffectRuntime                 versions, plans, batches
      |           |     `-- HostSlotPool            leases, views, two banks per slot
      |           `-- native CPU replay (cpu_jit)   stages into inactive banks
      |-- realization of schedules                  memory plan over HostSlotPool
      |-- transformer serving                       requests, prefix cache
      |-- CPU JIT                                   compile gates, library cache on disk
      |-- CUDA runtime                              memory pool, linked caches,
      |     `-- collectives                         plans, rollback, peer mappings
      `-- exports, checkpoints, bundles             file replacement

Calls go downwards. State is shared at these places: the mutex of a
`HostSlotPool`; the persistent buffers of an `EffectRuntime` (written by plans,
batches and any number of cursors); the read-write locks of parameters; the
mutex of a CUDA pool, which is dropped around every driver call; the
process-wide caches of compiled code, whose directory other processes share;
and the peer mappings of a driver context. Handles (leases, views, cursors,
parameter snapshots, checkpoint bytes) are owned by callers and outlive what
they were made from; most of the hard behaviour comes from that.

### Components

**Host buffer pool** (`host_buffer.rs`). State: physical slots with a
generation, a capacity, a descriptor, two value banks, an active-bank index, a
lease flag, a view count and a mutable-window flag; a countdown of sentinel ids
for zero-byte values. Operations: lease, release, drop, view, mutable window,
write, staged write and commit, two-bank transactions, reads under the lock.
Hard: stale handles, drops in any order, transactions refused or failing half
way, panics that poison the lock. Correct when: a live lease owns its slot, the
counters equal the borrows that exist, only published values are visible, and
nothing is reused or flipped under a borrow.

**Effect plans and graphs** (`effects/mod.rs`, `effects/batch.rs`). State: the
initial values, the current version of each buffer, the list of assignments.
Operations: insert, assign (whole, view, index), plan, execute, rebasing of
batches. Hard: overlapping and repeated targets, sources that are older states.
Correct when: executing on versioned snapshots is the same as updating in place
in order.

**Persistent effect runtime and recurrent replay** (`effects/runtime.rs`,
`effects/recurrent_transaction.rs`, `engine/mixed_capture`). State: version,
banks and active index of each registered buffer; cursors held by callers.
Operations: register, execute, execute_batch, resume and clone a cursor,
interpreted replay, native replay and its failures. Hard: several writers of
one buffer, stale cursors, two implementations of one transition, failure
between staging and flipping. Correct when: readers see a versioned store, a
stale cursor is never admitted, a batch is its entries in sequence, and the
native path does what the interpreter does.

**Compiled AdamW training** (`session/compiled_training`). State: the same
progress four times - host ledger, device scalars, buffer versions, cursor -
and checkpoint bytes. Operations: step, zero_grad, flush_partial_window,
checkpoint, restore, recompilation. Hard: host and device decide separately
when a window closes; versions are recomputed, not stored; old formats drop
counters; checked u64 arithmetic at its limit. Correct when: the four records
agree after every sequence of operations and a restore is exact.

**Eager training and parameters** (`nn/parameter.rs`, `nn/state.rs`,
`nn/norm.rs`, `optim.rs`, `session/train.rs`, `training_checkpoint`,
`compiled_training/module_state.rs`). State: value and version of each parameter
under its own lock; the optimizer's entry versions, step count and scheduler
epoch; sealed sessions; checkpoints. Operations: training steps of two kinds,
load, replace, seal, finish, abandon, capture, resume. Hard: a call reads
parameter by parameter and writes them together much later. Correct when: a
version names one value, gradients are applied to the values they were computed
from, a publication goes into the module that was sealed, a failed step changes
nothing, and multi-lock transactions do not wait in a circle.

**Memory planning and realization** (`memory_plan`, `engine/mod.rs`). A pure
algorithm and the loop that leases what it planned. Hard: an operation that
reads one buffer while it writes another; buffers nobody reads. Correct when:
slots are shared only by strictly disjoint lifetimes, every read finds the value
that was produced, the pool never refuses, and every lease is returned.

**CUDA primary pool** (`cuda.rs`). State: free lists, deferred blocks with
fences, quarantine, byte counters, a lifecycle; leases; the device's work.
Operations: allocate, launch, drop, collect, wait, trim, close. Hard: the lock
is dropped around driver calls, fences may fail, close may fail half way.
Correct when: every block is in one place, counters are exact, nothing in flight
is reused, quarantine is for ever, and close settles.

**Linked-module and kernel caches** (`cuda.rs`). Leaders load, followers sleep
on a condition variable, failures are removed. Correct when: one leader per key,
no failure stays, no wakeup is lost, every call returns.

**CPU JIT compile cache** (`cpu_jit.rs`, `cpu_jit/schedule_module.rs`). Per-key
gates, two compiler permits, libraries on disk that other processes write too.
Correct when: one builder per key and process, permits exact, no half-written
library is ever an entry, damaged ones heal, every load returns.

**File replacement** (`file_io.rs`). Staging file, sync, rename;
bounded reads. Hard: crashes, power loss, leftovers, reused process ids,
concurrent savers. Correct when: the destination is an old or new file as a
whole, results tell the truth, nothing is left behind.

**Collectives and peer access** (`collective.rs`, `cuda.rs`). Plans, dense
execution, execution on streams with rollback; ownership of peer mappings.
Correct when: the plans compute the reference result for every length and rank
count, device execution agrees, and a failed one restores its inputs.

**Transformer serving** (`models/transformer/serving`). State: requests in
arrival order, a prefix cache with references and limits, the bound model.
Operations: submit, remove, step, invalidate, rebind. Correct when: what a
request generates is independent of its neighbours and of the cache, the cache
is true and bounded, nobody is overtaken or starved.

**Not modelled**: momentum training, resume bundles' containers, mixed batches,
effect schedules and their autograd, Metal/OpenCL/WebGPU runtimes, static
schedules and CUDA graphs, sharded graphs (section 8).

**Out of reach or without state of their own**: graph rewriting, autograd and
tensor kernels, the compiler from schedules to PTX/C/MSL/WGSL, neural-network
modules and losses, importers and datasets, fuzzing and benchmarking.

`PROJECT.json` lists all of them under "components" with sources and reasons,
and under "hazards" what is hard to test, each at its line with the properties
that would catch it going wrong.

## 2. Plan

Done, in this order:
1. `WindowProgress`, `CompiledAdamW`, `CompiledAdamW_proofs` - the ledger and
   the training program, the largest user-visible promise of the library.
2. `HostBuffer`, `HostBuffer_proofs` - the pool under everything.
3. `EffectPlan`, `EffectGraph`, `EffectRuntime`, `VersionedStore` - the
   transactions between the two.
4. `CudaAllocator`, `LinkedCache`, `Collective`, `PeerAccess` - the CUDA runtime.
5. `CompileCache`, `FileReplace` - what is shared on disk.
6. `MemoryPlan`, `MemoryPlan_proofs` - planning and realization.
7. `Serving` - the scheduler and its prefix cache.
8. `ModuleState` - parameters under concurrent trainers, loaders and sessions.
9. `MCProgress` - liveness of the components that wait.
10. `Disk_proofs`, `ModuleState_proofs`, `Cuda_proofs`, `Effects_proofs`,
   `Serving_proofs` - the safety properties of what is on disk, of parameters, of
   the CUDA pool, peer mappings, linked caches and collectives, of effect graphs,
   the effect runtime and its batches, and of the scheduler, for any number of
   threads, blocks, ranks, plans, cursors and requests.

Left for modelling: momentum training and its checkpoint (over
`WindowProgress`), mixed batches (over `BatchOutcome`), resume bundles over
`FileReplace`, the command and buffer lifecycles of Metal, OpenCL and WebGPU,
static schedules and CUDA graphs.

Left for proving: nothing that the prover reaches. Every invariant and action
property of a passing run is a theorem, or the conjunction of theorems, for every
value of the constants under the hypotheses section 6 names; liveness stays with TLC.

Composition: `EffectRuntime` extends `EffectPlan` (so does `EffectGraph`) and
instantiates `VersionedStore` as its abstract specification; `CompiledAdamW`
extends `WindowProgress`. `CompiledAdamW` uses `Replay`, a whole-bank native replay of
one cursor, which is the action that `EffectRuntime` models in detail;
`EffectRuntime` in turn keeps only banks and lock of the pool that `HostBuffer`
models in detail. `MemoryPlan` composes planning with the leases of the pool.
`LinkedCache` composes the kernel cache with the module cache it calls.

Components that share no state are checked in one TLC run: `MCCuda`, `MCDisk`,
`MCEffects` and `MCProgress` have a variable that says which of them is in use
in a behaviour, and the others stay at their initial state. A step of one
commutes with any step of another and no property speaks of two of them, so a
run over their sum shows what a run over their product would. `MCHostBuffer` and
`MCMemoryPlan` put two instances of one module with different constants side by
side in the same way.

## 3. Modules and the code they model

### WindowProgress

`CompiledTrainingWindowProgress` is a value with seven u64 counters. Each
operation `Op` of `window_progress.rs` is a pair: `Op(p)`, the successor, and
`OpOk(p)`, true when the code returns `Ok` - every `checked_add` and
`checked_mul` stays in u64 and the validator accepts the successor.
`ValidProgress` is the validator, one conjunct per error, in its order.

### CompiledAdamW

| variable | code |
|---|---|
| `progress` | the ledger of `CpuCompiledAdamW` |
| `step` | the replay counter of `CpuCompiledTrainingProgram` |
| `value` | active bank of every persistent buffer, by role |
| `version` | version of every buffer in the effect runtime |
| `cursor` | frontier of the replay cursor |
| `checkpoint` | the last bytes written |
| `taken` | history: the live program at that moment |

| action | code |
|---|---|
| `StepWithLearningRate(weight)` | admission, choice of capture by the ledger, replay, publication |
| `ZeroGrad` | cancel, reset transition, zero-grad capture |
| `FlushPartialWindow` | flush capture over the optimizer's buffers |
| `TakeCheckpoint` | consistency checks, choice of format, encoding |
| `RestoreCheckpointInPlace` | decoding, frontier validation, replacement |
| `CrashAndRecompile` | the process ends; a fresh plan is prepared |

A tensor is what it holds of the training history: a parameter or moment is the
number of microbatch gradients folded into it, the accumulator and the loss
numerator are the number of microbatches summed in them. The device scalars
(step, index, tokens, dropout) keep their numbers. The captured graphs are
their successor functions (`MainSuccessor` and its siblings), which decide from
the device's own index, as the lowered graph does, and not from the ledger.
Formats are modelled by what they keep: `StoredProgress` is encode followed by
decode. An operation that returns an error changes nothing, so it is a
disabled action; `ZeroGrad` and `FlushPartialWindow` of an empty window are
no-ops in the code and stutters here.

### HostBuffer

`slots` is the pool's side (`PoolState.slots`); `leases`, `views`, `windows` and
`staged` are the handles that callers hold. `nextSentinel` is the countdown,
`poisoned` the state of the mutex. Every method takes the mutex once, so every
method is one action; a panic inside a closure under the mutex poisons it
(`TransactFails(.., panics)`, `ActiveReadPanics`), after which methods return
errors and drops are ignored.

Tensors are abstracted to the generation that stored them and to how they came
there (published, zero, dirty); descriptors to a layout with a byte count. Byte
ranges within a slot and raw pointers are left out.

`TransactRefused` stands for the error returns after some banks were prepared:
requests are prepared in the caller's order, so any subset of the acceptable
ones may have been reached.

### EffectPlan, EffectGraph

`EffectPlan` holds pure operators: `Validate` (`EffectPlan::validate`), `Stage`
(candidate by candidate into a map of snapshots), `Committed` (last state of
each buffer), `PlanOutcome` (`execute_with_sources`), `RebaseOk` and
`BatchOutcome` (`EffectBatch::rebased_steps` and `execute_batch`). All buffers
share one descriptor, so descriptor comparisons always succeed and are left
out. A tensor is a function on `Cells`, and a view or an index plan is the set
of cells it writes.

`EffectGraph` has the builder's actions `Insert` and `Assign` and the operator
`Execute`. Callers keep every handle they were given, so `Assign` is tried with
every state of every buffer. Initial contents differ in every element, which is
enough because assignments only copy.

### EffectRuntime, VersionedStore

| variable | code |
|---|---|
| `version` | `PersistentStateSlot.state.version`, its domain the registered buffers |
| `bank`, `active` | the two banks of the buffer's leased slot and the visible one |
| `poisoned` | the lock of the runtime's pool |
| `cursor` | the `MixedReplayCursor`s that callers hold, each with a history field `left` |

`RegisterInitialSnapshots` and `Register`, `ExecutePlan`, `ExecuteBatch`,
`ResumeCursor` (also `new`), `CloneCursor`, `ReplayRecurrent` (interpreter),
`NativeReplay` and `NativeReplayFails` are the operations. A program is a
recurrent capture: its plan, the ids of STOREs whose source a pure prefix
computes (`pure`), the buffers the prefix reads (`inputs`) and the frontier
buffers whose bank is kept because they are copied from themselves
(`retained`). What the prefix computes is any element of `Inputs`. Since the
runtime never releases a lease and no view outlives a call, the pool is reduced
to its banks and its lock.

`VersionedStore` is what callers rely on: a buffer is registered once, and its
contents change only together with its version, which only grows.
`ImplementsStore` maps the visible banks and versions to it.

### CudaAllocator

`PrimaryCudaAllocator` has one mutex, which it drops around every driver call. An
action is therefore one critical section or one driver call, and `pc` says where
a thread is between them.

| variables | code |
|---|---|
| `lifecycle`, `cached`, `classes`, `deferred`, `quarantined`, the byte counters, `pending` | the state behind the mutex |
| `live`, `cap`, `gen`, `marked` | the `PrimaryBlock`s, by heap address |
| `lease`, `retained` | leases of callers; `PRIMARY_QUARANTINE` |
| `fence`, `busy`, `unknown` | completion events and the device's work (external) |
| `pc`, `collecting`, `ready`, `got`, `want` | locals of the calls in progress |

Allocation is `AllocBegin`, `AllocFresh`, `AllocOutOfMemory` with its trim and
retry, `AllocFails`, `AllocFinish`; a lease is launched on (`Launch`,
`LaunchUncertain`) and returned (`ReturnBlock`); collection and waiting are
`TakeSnapshot`, `QueryEntry` or `WaitEntry` entry by entry, `FenceFails`,
`PromoteDeferred`; `close` is `CloseBegin` to `CloseTrim`. A block is named by
its address because `collect_deferred` does so with `Arc::as_ptr`; a freed
address may be given to a new block, whose generation starts again.

### LinkedCache

`PrimaryLinkedModuleCache` and the kernel cache above it: `entries` are the two
maps, `flight` the entry objects, `call` each thread's frame in each cache.
`Lead` and `Follow` are the two outcomes of the lookup, `LoadModule` and
`LoadKernel` run without a lock, `PublishEntry` stores the outcome and notifies,
`RemoveEntry` is the later critical section that forgets a failure, `Look` and
`Woken` the wait on the condition variable, `Panic` a load that unwinds.

### Collective, PeerAccess

`Plan` is the planner and `Dense` its executor in memory, as operators. The CUDA
executor of sum all-reduce is a state machine over the callers' buffers:
`SnapshotInputs`, then `Act` for each planned action, `Land` when the device runs
submitted work, and after a failure `SynchronizeBeforeRollback` and `Restore`. A
value is the sequence of contributions added up, in the order of the additions,
so two sums that would round differently are different values.

`PeerAccess` has the handles that a group acquires pair by pair, publishes into
its cache, or gives back when a later acquisition fails. A pair that is still
missing is named by its place in the group's list.

### CompileCache

A load takes the gate of its key (`FindGate` upgrades or replaces a `Weak`),
probes the directory, compiles under permits (`AcquirePermit`, `Exit`,
`Notified`), renames (`PublishLibrary`), opens (`LibraryOpens`,
`LibraryRejected`) and evicts and rebuilds once (`Evict`, `MayRebuild`). `lib` is
the shared directory; gates and permits belong to a process, which may die. A
gate, an `Arc` in the code, is named by the load that created it.
Libraries are missing, partial, good or damaged.

### FileReplace

`Create`, `Exists`, `Write`, `Sync`, `Rename` are the system calls of
`replace_file_bytes_atomically`, each of which may fail into `SaveFails`; `Inspect`, `Open`,
`Read` those of the bounded reader. A process may crash and be followed by one
with the same id. After a `PowerLoss` synced files are whole, others are
anything, and the destination names any file it has named, for the directory is
never synced; a save that returned may be lost then, and no property says
otherwise.

### MemoryPlan

`Build` and `Assign` are the planner: temporaries in the order of `Before`, into
the first slot whose last consumer comes strictly before the new producer.
`Start`, `Execute` and `Finish` are the loop of `realize_with_options`: read,
lease the outputs, store, release what died. `memory` says whose value is in a
slot, so a read of the wrong value is visible.

### Serving

`LlamaServingScheduler` with `SubmitIds`, `RemoveRequest`, `Step`, `StepFails`,
`InvalidatePrefixCache` and `Rebind`. A step works on copies (`Staged`, `Begin`,
`Compute`, `Emit`) and commits at its end. A snapshot of keys and values is the
sequence of positions computed, each with the model that computed it; `Sample` is
any function from a snapshot to a `Token`. The prefix cache is a sequence in the
order of last use, with references, bytes, generation and identity. `Retain` is
`Vec::retain`, which the scheduler's order and the cache's entries both go through.

### ModuleState

`cell` is value and version of each parameter, `lock` its write lock, `call` the
call each thread is in. A call reads parameter by parameter (`Read`), decides
(`After`: the checks of prepare, seal, finish, resume and load), takes the write
locks of its targets in the order of identities (`Lock`), compares and writes
(`Commit`), and for training steps the optimizer and the scheduler follow
(`Assign`) - after the parameters for the plain trainer, on clones before them
for the mode-aware one. A value is the number of the write that stored it.
`optimizer` is entry versions, step count and scheduler epoch, `checkpoint` the
stamps of the last one taken. `Statistics` is the order in which the buffers of
normalisations are prepared.

A publication stores what the session has trained under the next version, and the
rest as it was sealed (`Retained`). A session restored from a module checkpoint
(`"restored"`) retains nothing: it publishes the frozen parameters and buffers of the
checkpoint under their next version too, and is refused when one has no next version.

### MCProgress, Nothing

`MCProgress` instantiates the five components that wait, with fairness (section
5). `Nothing` declares the constant for "no value" that modules checked in one
run share.

## 4. Runs

| run | distinct states | what it shows |
|---|---|---|
| `cuda` | 1,465,740 | Two threads allocate, collect, wait, trim and close over two recycled addresses, with work that ends late or cannot be known to end and fence waits that fail; two callers of two kernels of one module lead, follow, fail and panic; collectives of all kinds over up to four ranks are planned, and all-reduces fail at any driver call; two groups set up, use and lose peer mappings. |
| `cuda_recycled` | violation | A collector promotes a block whose work is in flight, because it remembers address and generation of a freed one (section 7). |
| `effects` | 224,930 | All graphs of up to three assignments over three buffers of two cells; two buffers with two cursors over three captures, an interfering plan, failures and panics; all two-entry batches of four plans that overlap in every way two buffers allow. |
| `effect_accepted` | violation | A graph that was accepted assignment by assignment and is refused as a whole. |
| `adamw_window` | 77,562 | Token-weighted windows of three microbatches with dropout and a loss report, driven until the counters are full, through every order of step, zero_grad, flush, checkpoint, restore and crash. |
| `host_buffer` | 134,114 | One slot through three generations, shared by a caller who names u64::MAX and a zero-byte sentinel, with views, windows, staged writes and transactions that are refused, fail or panic; commits and transactions over two slots. |
| `memory_plan` | 696,679 | Every schedule of three items and three buffers, impossible ones included, with and without reuse; all lifetimes of four buffers of one class. |
| `disk` | 2,378,560 | Three loaders in two processes over every mix of missing, good and damaged libraries, with a failing compiler, rename or library or a crash; three savers in two processes and a reader, or two in one process, one of whom saves twice, with a failing call, a crash or a loss of power. |
| `serving` | 209,252 | Three requests with prompts that are prefixes of each other, batches of two, a cache of two entries, a failing step, an invalidation or a change of model. |
| `params` | 3,996,802 | Three training calls, checkpoints and resumes among them, beside a thread of three calls, or one beside two threads: loads, replacements, sealed and restored sessions, publications. |
| `params_scheduler` | violation | A plain training step that fails with its update committed. |
| `progress` | 133,410 | Liveness of five components under fairness. |

Properties, by the question they ask. Several are conjunctions of parts that
have names of their own in the module; the parts are listed behind a colon.

- *Do separately kept records agree?* `RecordsAgree`: ledger and device scalars,
  versions and cursor. `HandlesAreSound`: a live lease owns its slot, counters are
  the borrows that exist, sentinels stay apart. `PoolIsSound`: every block is in
  one place, the byte counters are exact, leases keep the pool open, a closed pool
  is empty. `CacheIsHeld`: references and bytes of the prefix cache.
  `PeersAreOwned`: no mapping without a handle, none missing under a transfer.
- *Is what was saved what comes back?* `RestoreIsExact`, `NothingIsRefused`,
  `FileIsWhole`, `SavesTellTheTruth`: results, leftovers and exhausted names,
  `PublishedIsImmutable`, `LoadsHeal`.
- *Does a stale handle or copy harm its successor?* `ReuseNeedsQuiescence`,
  `AdmittedCursorSeesItsOwnWrites`, `NoEarlyReuseInPlace` (`NoEarlyReuse` where no
  address is recycled), `VersionNamesValue`, `NoLostUpdate`, `CacheIsTrue`.
- *Does a failed step leave traces?* `VisibleIsPublished`, `ImplementsStore`,
  `AllOrNothing`: the device agrees with the dense executor or the inputs are as
  they were, `FailedModeStepChangesNothing`, `QuarantineIsForever`,
  `FlightsAreSound`: one leader per key, no failure stays cached, kernels share
  their module, no wakeup is lost.
- *Is the result what the text says?* `ExecuteIsInPlace`, `BatchesAreSequential`,
  `NativeIsInterpreted`, `DenseIsReference`, `RealizationIsSound`: disjoint
  lifetimes, right reads, nothing refused, everything released, `PeakIsMinimal`,
  `OutputIsIndependent`.
- *Does a boundary hold?* `BanksFixedUnderBorrow`, `CacheIsSound`: permits, gates
  and complete entries, `ScheduleIsSound`: the next step fits the context and
  nobody is overtaken.
- *Can the system get stuck?* `OpenWindowNeverTrapped`, `ReplayNeverTrapped`, and
  with fairness `CloseSettles`, `EveryLinkReturns`, `EveryLoadReturns`,
  `EveryRequestCompletes`, `EveryCallReturns`.

Every property has a mutant in `PROJECT.json`: a definition of the model changed
the way a plausible bug would change the code, under which TLC finds the property
violated. The mutants stand beside the definitions they replace.

## 5. Bounds, fairness, deadlock

**Bounds.**

- `MaxU64` stands for u64::MAX: 8 in `adamw_window` and 3 in `params`, so that
  counters and versions reach their limit and every checked operation both
  succeeds and fails. Three microbatches to a window are the fewest for which a
  window can be cut short in two ways. `MaxExactCount` is the exact-integer limit
  of f32 scaled the same way.
- `MaxGeneration = 3` lets a handle be stale by one and by two generations;
  `MaxViews = 2` is the fewest for which a view has a sibling; `CallerSlots = {2}
  = {MaxSlot}` makes caller and sentinel meet in one id; two layouts of one size
  tell the size check from the layout check. The second shape of `MCHostBuffer`
  has two slots in their first generation.
- `MaxAssignments = 3` is the fewest for which an intermediate version is written,
  read and overwritten; `MaxVersion = 2` lets a cursor fall behind by one and by
  two; `BatchVersion = 4` leaves room for two entries that write one buffer twice.
- Two blocks, two threads and two generations of a block are the fewest for which
  a collector is overtaken. One fence is enough in the passing run, since each
  entry's fences are asked one after another and nothing relates two fences; the
  violation uses two because the second block needs a fence of its own. Requests 3
  and 5 with smallest class 4 fall into two size classes.
- Two callers, two kernels of one module: a kernel leader follows the other's
  module flight. `MaxFlight = 7` is more than the objects that can be held.
- Collectives with up to three ranks take all lengths from 0 to 3, and with four
  ranks equal lengths up to 7: remainders of every size. Two calls, two faults: a
  call after a failed one, and a fault during the rollback.
- `disk`: two loaders in one process compete for a gate, a third in another
  process for the directory, each with one load; `progress` gives two loaders two
  loads. The writers save once each, with a load and a crash beside them; or the two
  of one process save, one of them twice, without either (`Bounded` of `MCDisk`). Two
  staging names instead of 128: when a failed save cannot remove its file and the same
  thread saves again beside the other, the names have run out. One crash, one fault:
  each failure is met in every state, two in a row are not.
- `serving`: `MaxBytes = 7` holds two small entries or one large one, so bytes and
  entries both limit; `MaxContext = 4` refuses the longest prompt with two new
  tokens.
- `params`: two trained parameters and a buffer, traversed, named and identified
  in three different orders.

The "sum" runs explore one component per behaviour (section 2). Symmetry is used
for interchangeable blocks, threads, writers, loaders of one process and cursors,
in runs that check no liveness.

**Fairness** (`MCProgress!Fairness`). The operating system runs a thread whose
call can go on (weak fairness per thread, over everything a call does between
its beginning and its return); a thread asleep on a condition variable or a lock
cannot go on, so a lost wakeup or a circle of waits is a counterexample. The
device completes the work it was given and compiler processes end. The caller of
the scheduler keeps stepping while requests are pending; only successful steps
are assumed to recur, and the number of failing ones is bounded. Nobody is
assumed to begin a call, finish a sealed session, or submit a request. Locks and
condition variables promise no order, so none is assumed between threads: strong
fairness is not needed because the calls of a behaviour are bounded. Loads do not
panic in this run: when the leader of a linked-module load panics, its followers
do sleep forever, as the code stands (hazard at `cuda.rs:4650`); `cuda` explores
that case for safety.

**Deadlock** is checked for `CompiledAdamW`, where a crash is always possible. The
other configurations say `CHECK_DEADLOCK FALSE` because these systems may really
stop: calls are bounded and have all returned, a poisoned pool whose handles are
dropped accepts nothing any more, a graph is at its version bound, a realization
is done. That nobody is stuck in the middle of a call is what `progress` checks.

## 6. Proofs

TLAPS proves the following for every value of the constants that satisfies the
named assumptions of the modules, which TLC evaluates on every run:

| module | assumptions |
|---|---|
| `WindowProgress`, `CompiledAdamW` | `WidthAssumption`, `StepsAssumption`, `PolicyAssumption`, `TokenAssumption` |
| `HostBuffer` | `HostBufferAssumption` |
| `MemoryPlan` | `ScheduleAssumption` |
| `LinkedCache` | `KeysAssumption`, `PanicAssumption`, `BoundAssumption`, `FrameAssumption` |
| `FileReplace` | `ProcessAssumption`, `SizeAssumption`, `BoundAssumption`, `FaultAssumption`, `FileAssumption` |
| `CompileCache` | `ThreadAssumption`, `PermitAssumption`, `BuildFaultAssumption`, `LoaderAssumption` |
| `ModuleState` | `ModuleStateAssumption`, `SnapshotAssumption` |
| `CudaAllocator` | `RequestAssumption`, `NoneAssumption`, `FiniteAssumption`, `ClassAssumption`, `SizeAssumption`, `LeaseAssumption` |
| `PeerAccess` | `PeerAssumption` |
| `Collective` | `CollectiveAssumption` |
| `Serving` | `ConfigAssumption`, `TokenAssumption`, `BoundAssumption` |
| `EffectGraph`, `EffectRuntime` | `EffectGraphAssumption`, `EffectRuntimeAssumption` |

Each is a fact of types (a bound is a number, an order of traversal lists the
parameters, plans are lists of steps, prompts and samples are tokens of the
vocabulary, "no value" is no block, file, frame, outcome or snapshot) or a check of
a builder (a batch size is positive, a collective has a rank). `SizeAssumption` of
`CudaAllocator` says that every request has a size class, and `FiniteAssumption` that
addresses and threads are finitely many, without which the counters count nothing. Four theorems have a
hypothesis besides, named where they are described below: `PeersStayOwned`,
`ReplaysAreNeverTrapped`, `NativeReplaysAreInterpreted` and `PlansAreBatches`. TLC
evaluates the hypotheses of the last three on the captures and plans of `effects`
(`CaptureAssumption`, `PlanAssumption` of `MCEffects`).

Inductive invariants were checked by TLC as invariants of their component's run
before they were proved, as far as TLC can evaluate them; `CollectiveInv` asks
for a run of the plan's actions, which is no element of a set TLC could enumerate.

**`CompiledAdamW_proofs`** - `TypeOK`, `LedgerMatchesDevice`,
`FrontierMatchesLedger`, `CheckpointNeverRefused`, `RestoreNeverRefused`, their
conjunctions `RecordsAgree` and `NothingIsRefused`, `OpenWindowNeverTrapped` and
the action property `RestoreIsExact`, for every accumulation depth, integer width,
token policy, loss report and dropout plan.

The properties are not inductive alone: that the versions stay equal to what a
restore computes needs the validity of the ledger, which needs the device
scalars to be functions of it, and a restore may bring back any earlier state.
The inductive invariant `IInv` therefore says that the live program is
`Consistent` - the validator accepts the ledger, and step counter, device
scalars, versions, cursor, dropout counter and token count are what the ledger
implies - and that the checkpoint describes a program that is `Consistent` too
and equals `taken`. One lemma per phase shows that it carries `Consistent` over.
The products in the ledger (`ExpectedReplay`, the token and dropout limits) are
handled by three lemmas on multiplication that the phases cite.
`OpenWindowNeverTrapped` follows from the ledger equation: what is open plus what
was discarded never exceeds the replays that happened. The theorems cover programs
without accumulation too, whose checkpoints use the lossy format 1.

**`HostBuffer_proofs`** - `TypeOK`, `LeaseIsLive`, `BorrowAccounting`,
`SentinelNeverPhysical`, their conjunction `HandlesAreSound`, `VisibleIsPublished`
and the action properties `ReuseNeedsQuiescence` and `BanksFixedUnderBorrow`, for
any sets of slots and layouts and any bounds.

`IInv` is the conjunction of the state invariants and `CapacityFits`: the
descriptor of every slot, released ones included, fits its capacity.
`SentinelNeverPhysical` speaks of leased slots only and is not inductive: a
sentinel lease skips the capacity check and relies on the descriptor a released
slot keeps. `TypeOK` in turn needs `BorrowAccounting` (a window is only counted
up from 0, a view only to the pool's own count). The proof has three reusable
parts: steps that change banks only (`BanksPreserve`: write, commit,
transactions), steps that change the borrows of one live generation
(`BorrowPreserves`), and leases and releases, where the argument is that an
unreleased lease is the only one of its slot (`SoleLease`) and that a quiescent
slot has no handles left. The action properties rest on `StepMoves`, what any
step may do to the generation and the active bank of a slot, and on
`PoisonedIsFixed`, that nothing reaches a slot through a poisoned lock.

**`MemoryPlan_proofs`** - `TypeOK`, `SharedSlotsAreDisjoint`,
`ReadsFindTheirValue`, `NeverRefused`, `AllReleased` and their conjunction
`RealizationIsSound`, for every number of items, set of buffers and schedule.

Disjointness of lifetimes is not inductive, since the planner compares a new
buffer with one buffer of the slot only. `SlotsKnowTheirLast` says why that is
enough: the buffer a slot was last given to is the last of all its buffers to die.
The realization rests on an exact description of the leases (`Running`): before
item `at`, a temporary is leased if and only if it was produced before and its
last consumer is `at` or later, and its slot then holds its value. Two leased
buffers have overlapping lifetimes, so they have different slots, so a lease is
never refused and a store never overwrites what somebody will read. That a last
consumer exists at all is a well-foundedness argument (`LargestPosition`).

`PeakIsMinimal` - a size class has as many slots as buffers alive at its busiest
item - is an argument about the planner alone. `PeakInv` keeps, for the last
slot a class has opened, an item at which every slot of the class holds a buffer
that is alive (`CrowdedAt`): the producer of the buffer that found no slot free. So
there are no more slots than buffers alive at that item; there are no fewer, because
buffers alive together are in different slots. Both are maps between finite sets,
and the cardinality theorems of the library do the rest.

**`Disk_proofs`** - for `FileReplace`: `FileIsWhole`, `SavesTellTheTruth` and the
action property `PublishedIsImmutable`, for any number of writers, processes,
staging names, crashes and losses of power; for `CompileCache`: `CacheIsSound` and
the action property `LoadsHeal`, for any number of loaders, processes, keys and
permits.

`FileInv`: a save that owns a staging name holds the file it created itself, which
was never under the destination's name and is whole and synced before it is
renamed (`WriterOK`); whatever the destination has ever named is whole and synced
(`PastOK`), so a power loss can only bring back whole files; a reader has such a
file open. That names run out only when all are held is a counting argument
(`NamesAreHeld`): of the threads that have found the first `a` names of a process
taken, there are fewer than names that are not left over.

`CacheInv`: a load holds the gate that is registered for its key and owns it
beyond the wait (`GateOK`), so there is one builder per key and process; a library
is complete when the load comes to rename it, because only one of its jobs writes
it (`BuildOK`); permits are the compilers that run, and whoever sleeps has enough
others running or about to ask (`PermitsOK`); as long as one process works without
faults, a library that does not open was there before, and the second round finds
it gone (`HealOK`).

**`ModuleState_proofs`** - `VersionNamesValue`, `FailedModeStepChangesNothing` and
the action property `NoLostUpdate`, for any module, any number of threads and calls
and any order of traversal.

`ParamsInv`: every copy that a call, a session or a checkpoint holds is older than
its parameter or equal to it (`Kept`) - the property itself for copies, and what
compare-and-write under the locks preserves; the optimizer's entries are never
ahead of the parameters (`EntriesOK`); and a training step carries through its
phases what it has compared (`TrainingOK`), so that the versions it commits over
are those it read. The optimizer does not move while its owner's call runs
(`OutcomeOK`).

**`Cuda_proofs`** - for `CudaAllocator`: `PoolIsSound`, `NoEarlyReuseInPlace` and
the action property `QuarantineIsForever`, for any numbers of blocks, fences,
threads and sizes; for `PeerAccess`: `EnabledIsOwned`, and `PeersAreOwned` for
groups that share no pair of contexts (`Disjoint`); for `LinkedCache`:
`FlightsAreSound`, for any number of threads, kernels, modules and entry objects,
whichever loads fail or panic; for `Collective`: `AllOrNothing` and
`DenseIsReference`, for any number of ranks, any lengths, empty and uneven ones
included, and whichever action fails. Groups that do share a pair of contexts lose
mappings that they need, as the code stands (section 7); `Disjoint` says so.

`PoolInv` adds to the parts of `PoolIsSound` what the proof needs between two
critical sections: which thread has a block in its hands (`ThreadsOK`), that one
thread closes at a time, with nothing leased, and that after its wait nothing is
deferred or quarantined (`CloseOK`), and where the device may still work
(`WorkOK`). For the last, an address that has held one block only: a generation is
leased once, so what a collector has copied or found complete about it is about an
earlier lease or about the entry that is still deferred (`BlockOK`). Nothing of the
kind holds for a recycled address, which is the finding `cuda_recycled`. The byte
counters are sums over sets of blocks (`SumOf`); the sums are handled by counting
units, since the cardinality theorems of the library can be cited and an induction
over the fold cannot.

`LinkedInv` says what a frame of a call knows about the shared maps, although the
lock was dropped since (`FrameOK`): an entry that has not failed is still under
the call's key; a leader and a sleeper have an entry that is loading; the leader
that is about to remove a failure finds its own entry there. `Nested` is the one
way in which the two caches are entered at once, by a kernel's leader for its own
module, which is why a kernel that is ready lies in the cached module
(`ReadyOK`). A new entry object is one that no map and no frame holds, so
`EntriesDiffer` is kept; `SoleLeader` follows because a leader's entry is under
its key until it is removed by itself.

The planner of a collective is nested loops, so its plan is folds within folds. One
pair of operators (`Fold`, `Further`) stands for all of them: `FoldRuns` shows that a
fold is the last state of a run of its steps, `FoldJoins` that the run over two
lists joined is one run after the other. `CollectiveInv` compares the executor on
devices with the dense executor on the same plan: after `k` actions the staging
buffers, and every buffer that has been copied to, are those of the dense run after
`k` actions (`Agreed`), and the snapshots taken before the first write are still the
buffers before the call. So a call that returns has the dense result on every rank,
and one that fails restores every rank, its streams being empty by then, unless
restoring fails too.

`DenseIsReference` is about what a plan does. `Serves` says of a list of actions
that from every memory it leaves the wanted contents in the cells it is for and
everything else as it was; `ServesJoins` puts two lists in sequence that are for
different cells. A rank's reduction adds the inputs in the `Order` of its chunk; the
chunks, and the inputs of a gather, tile the cells (`Offsets`), so the reductions
join to the whole, and the copies after them deliver it to every rank.

**`Effects_proofs`** - for `EffectGraph`: `ExecuteIsInPlace`, for any number of
buffers, cells and assignments; for `EffectRuntime`: `RuntimeTypeOK`,
`AdmittedCursorSeesItsOwnWrites`, the refinement `ImplementsStore`,
`ReplayNeverTrapped`, `NativeIsInterpreted`, `BatchIsSequential` and
`PlanIsBatchAtZero`, for any buffers, plans, captures, cursors and versions.

A transaction stages its steps by a fold. Induction over data is done by hand here:
`CountUp` is induction with a set in place of a predicate, and `StageRuns`,
`BatchRuns`, `StepsRun` and `InPlaceRuns` show with it that a fold is the last
state of a run of its steps, about which invariants can be stated step by step.
`StepStages` and `CommitFollows` are the main one: every staged state is of a live
buffer, at its live version or above, and what a step writes is above. So a commit
raises the version of every buffer it changes, which is the step of
`VersionedStore`. `RuntimeInv` says that visible banks hold tensors and that a
cursor's frontier is behind the live versions or names exactly what its last replay
left (`RecordOk`); versions only grow, so a frontier that is current has not been
passed. The refinement maps every action to a step of the store or to a stutter,
failing and panicking replays included, because those touch inactive banks only.

`ReplayNeverTrapped` and `NativeIsInterpreted` assume that captures are `CaptureOk`:
a valid plan, not empty, whose placeholder sources are read at version zero and are
no frontier buffers. The code does not refuse other captures; a placeholder that is
a frontier buffer is refused from the second replay on (section 7). TLC evaluates
the hypothesis for the captures of `effects` (`CaptureAssumption`). The argument for
the first: a read of a valid plan, rebased, is the start of its buffer or a write of
an earlier step, so it is staged (`ReadIsStaged`). For the second: a native capture
writes each frontier buffer as a whole, once, one version on, and the value staged
for it is the one the prefix computed for that buffer (`NativeStaged`).

`BatchIsSequential` - a batch of two entries ends like a transaction of the first and
then one of the second - compares two stagings: one that goes on from the first
entry's staged states, one that starts from the store after a commit. They are not
equal, since the second has forgotten the states in between; `EntryAgrees` shows that
an entry computes the same from two stagings that agree on the states it may name,
and is refused from the one where it is refused from the other. `PlanIsBatchAtZero`
says that `execute`, which compares no start versions, does and refuses what
`execute_batch` does and refuses at starts of zero, because the states its steps name
leave it no other start. It
assumes that no plan is empty: `execute` accepts an empty plan (`runtime.rs:522`),
`execute_batch` refuses it (`batch.rs:68`). `BatchesAreSequential` of the run
`effects` is these two and `RuntimeTypeOK`, in the instance of `EffectRuntime` that
is given all batches.

`ExecuteIsInPlace` relates the staging run with the run in place (`Agree`): the
store in place holds, of every buffer, the snapshot of its latest version, and the
snapshots of version zero are still the initial contents. A valid step reads one of
these two. `GraphInv` says that the versions of the handles are those the
assignments reach.

**`Serving_proofs`** - `OutputIsIndependent`, `CacheIsTrue`, `CacheIsHeld` and
`ScheduleIsSound`, for any models, prompts, sampling function, batch size, cache
limits and any number of requests, with removals, failures, rebinds and invalidations
at any point between steps.

`ServingInv`: the tokens of a request are those its own model selects for its prompt
alone, and between steps it rests with the snapshot and token the next step needs
(`Rests`), in whichever way it came by them - prefilled, continued, or adopted from
the cache; a request that is not finished is of the model the scheduler is bound to;
an entry of the cache is a prompt of its identity with the snapshot that model
computes for it, and bytes are the sum over the entries (`CacheOK`); an entry has no
more references than requests hold it (`Held`); requests are in the order of their
ids, and while one waits for its first token no later one has any (`InOrder`,
`NoOvertaking`). A step is three folds over the selected requests, staging copies
until the commit; each fold is the last state of a run of stages (`CountUp` again),
and a stage moves the copy of one request and perhaps the cache. The lemmas on the
cache say what release, touch, insertion and eviction do to entries, bytes and
holders. `Retain` keeps the order of what it retains, which is what the fairness of
the schedule rests on.

**Model-checked only.** Liveness under fairness: `CloseSettles`, `EveryLinkReturns`,
`EveryLoadReturns`, `EveryRequestCompletes` and `EveryCallReturns`, which need
ENABLED and are out of the prover's reach. The properties that the three violated
runs refute (section 7) are of course not proved.

## 7. Findings

Three runs violate a property that a comment or document of the repository
states.

- `cuda_recycled` (code bug, `cuda.rs:2535`). `collect_deferred` remembers a
  deferred block by heap address and generation without keeping it alive, and
  promotes what matches after its queries. Another collector may promote the block
  and a trim free it meanwhile; a new `PrimaryBlock` at the same address starts at
  generation 0, is leased (generation 1), launched on and returned - and matches
  the stale pair, although its own fence is pending. `docs/ARCHITECTURE.md:5016`
  promises event deferral "without weakening the reuse invariant".
  `NoEarlyReuseInPlace` is the same property for addresses that are not recycled,
  and holds.
- `effect_accepted` (code bug, `effects/mod.rs:499`). `EffectGraph::assign` takes a
  source handle of any version up to the current one, and its documentation says
  "Both operands are frozen states: later writes cannot change this source read."
  `EffectPlan::validate` lets a step read only version 0 or the latest version.
  Assign x twice, then assign y from x at version 1: every call succeeds and
  `execute` refuses the graph.
- `params_scheduler` (code bug, `session/train.rs:138`). The plain trainer replaces
  parameters and optimizer and then steps the scheduler; the comment says its
  preflight "ensures `step` is valid", but it only rejects metric schedulers. After
  the last step of a one-cycle schedule the learning rate is refused and
  `train_step` returns an error with the update committed.

Other disagreements met while modelling. The models contain this behaviour;
the properties above are stated so that they hold beside it.

- `host_buffer.rs:741`: `view` does not look at the mutable window, so a sibling
  view can be taken beside a live one; the comment at 843 says that "mutation is
  allowed only when no sibling view exists".
- `engine/mixed_capture/mod.rs:3078`: a capture whose pure-sourced STORE names its
  own target as placeholder source is accepted and given cursors, which are refused
  from their second replay on; line 190 promises of resume that "versions may
  advance". The native path (`from_capture_and_frontier`, line 1460) never looks at
  the placeholder and goes on where the interpreter refuses. The captures of
  `effects` have placeholders that are not frontier buffers, and `ReplayNeverTrapped`
  and `NativeIsInterpreted` are proved for those.
- `cpu_jit.rs:1358`: the `debug_assert!` that a rebuild is no cache hit fails when
  another process publishes the key after the eviction. The model is the release
  build.
- `cpu_jit.rs:5520`: an eviction removes whatever is under the name, also the good
  library another process has just published, whose load may then fail;
  `docs/ARCHITECTURE.md:1446` says that gates serialize damaged-cache recovery.
  `LoadsHeal` is therefore about one process.
- `models/transformer/serving/mod.rs:315`: inserting an entry of an existing key
  resets its references to 0, so it can be evicted while a request holds it;
  `docs/ARCHITECTURE.md:2698` promises "unreferenced-only LRU eviction". Generation
  is not affected, because requests keep their own snapshot.
- `cuda.rs:1162`: two groups over the same contexts share the driver's mapping, and
  either disables it for both; the comment at 2825 says that a token "keeps ... the
  peer mapping live until completion". The groups of `cuda` are over contexts of
  their own.
- `training_checkpoint/mod.rs:68` and `optim.rs:1337`: resume compares stamps and
  then reads the versions again; a replacement in between goes unnoticed
  (`docs/ARCHITECTURE.md:3822`).
- `nn/parameter.rs:197`: several write locks are held at once, although the comment
  at 48 says that writers take one at a time. They are taken in the order of
  identities, and `EveryCallReturns` shows that this is enough.

## 8. What is not modelled, and why

- Numbers: gradients, moments, kernels and rounding are abstracted to which
  contributions they contain and in which order. Equality of numeric programs,
  and with it the compilers from schedules to C, PTX, MSL and WGSL, is not a
  question for a model checker.
- The bytes of checkpoints, captures, bundles and artifacts. Encoding is modelled
  by the fields that survive it; corrupt or foreign bytes are refused by decoders
  and never become a state of these models.
- Effects: descriptor mismatches, mutation permits of `assign_guarded`, replays of
  captures without recurrence, effect schedules and their autograd.
- Compiled training: evaluation, module export, the plan builder, momentum (over
  the same ledger), the containers of resume bundles, batches of mixed captures.
- CUDA: byte peaks and other statistics, the order within a free list, checked_add
  overflow of usize, streams as such, static schedules and CUDA graphs.
  Collectives on devices other than sum all-reduce do not exist in the code;
  dtype checks of plans are left out, and nothing is promised after a rollback
  that fails itself. Sharded graphs are graph rewriting.
- Linked caches: that followers of a panicked leader wake up. They do not.
- Compile cache: gate poisoning (no step of a load panics in a release build),
  timing evidence, symbol tables.
- File replacement: paths without a file name.
- Memory planning: validation of descriptors, alias liveness of views, memory
  spaces, dynamic shapes.
- Serving: tokenizers, templates, statistics, collisions of model fingerprints,
  64-bit limits of identifiers, native decoding.
- Parameters: lock poisoning, shapes and dtypes, `OptimizerGroup`, batch-norm
  tokens committed by hand; the second validation of the seal when a session is
  compiled (`module_plan.rs:17`, `:50`), since finish repeats it before it publishes
  and a change in between is then refused there; a portable checkpoint that was restored is an initial
  state (`Starts`).
- Failure injection arguments that exist for tests only: they return before the
  commit and change nothing.
- Metal, OpenCL and WebGPU runtimes: command and buffer lifecycles, planned.
- Importers, datasets, fuzzing and benchmarks keep no state of interest.
