# Llaminar: TLA+ verification

Llaminar is an LLM inference engine (`src/v2`, C++). Its correctness beyond
arithmetic is about state: which cached blocks may stand in for a computation,
which copy of a tensor is current, and how threads, streams and processes take
part in one forward pass. This directory holds TLA+ modules of that state, model-checked with TLC, and theorems
about it checked with TLAPS.

- [The system](#the-system): inventory of the repository's components
- [Modules](#modules): what models what
- [Runs](#runs): what each TLC run checks, its bounds and its fairness
- [Proofs](#proofs): what is proved for every value of the constants
- [Where the code and its documents disagree](#where-the-code-and-its-documents-disagree)
- [What is left out](#what-is-left-out)
- [Plan](#plan)

`PROJECT.json` has the tables: components, runs, the source lines of every
definition, hazards, mutants and theorems. Source paths below are relative to
`src/v2/` unless they start with `docs/`.

To check a run: `tlc -config MCTPForward_passes.cfg MCTPForward`; a proof:
`tlapm LocalTPBarrier_proofs.tla`.

## The system

A request reaches `OrchestrationRunner`, which owns one `IInferenceRunner`. On a
rank with one device that is a `DeviceGraphOrchestrator`; with several it is a
`RankOrchestrator` whose children are `DeviceGraphOrchestrator`s, one for each
tensor-parallel device or pipeline stage. Each child builds a graph of compute
stages and runs it (`DeviceGraphExecutor`). Stages that span devices call a
collective of the `LocalTPContext`; stages that span ranks, which are MPI
processes, one of the `GlobalTPContext`. On several ranks the server and its
request handler run on rank 0, and the other ranks repeat rank 0's calls, which
arrive as broadcast commands.

| Component | State it keeps | Operations | Interaction | What is hard | Correct when |
|---|---|---|---|---|---|
| Prefix state cache (`execution/prefix_cache/PrefixStateCache.cpp`, storage backends) | RAM residents with reference counts, device-hot and disk indexes, two LRU lists, byte counts in two classes | find, insert, retain, release, erase, reserveRam | called by one `DeviceGraphOrchestrator`, on one thread | eviction, persistence, hydration and promotion nest; every transfer may fail | counts agree, pins hold, a block found is the block stored |
| Prefix-cached prefill (`OrchestrationRunner::prefill`, `PrefixCacheCoordinator`, `RankOrchestrator`, `DeviceGraphOrchestrator`) | matched tokens of each rank, each child's hit, KV and recurrent state, logits | look up, coordinate, import, forward the suffix, restore logits, harvest | one cache per child, one boundary coordinated by reductions over the ranks | children and ranks evict on their own; imports and restores fail half-way; several counts of "how much is cached" | the state after prefill is that of the whole prompt, and ranks forward the same suffix |
| Tensor-parallel worker pool (`execution/local_execution/orchestrators/TPWorkerPool.h`) | generation, results, counters, shutdown flag; atomics, two mutexes, two condition variables | dispatch, collectAll, worker loop, destructor | `RankOrchestrator::forwardTP` dispatches, workers call back on the first failure | notifications, timeouts, results of the step before | a step reported as done is this step, complete |
| Host allreduce barrier (`LocalTPContext::allreduceCpuBarrier`) | slots with raw tensor pointers, generation, stage name, shared result | allreduce of each device thread | worker threads meet in it | timeout against the last arrival, abandoned rounds, stages that meet by mistake | a sum has one contribution of every thread, of one stage |
| Abort and forward pass (`forwardTP`, `DeviceGraphExecutor::runStages`, `LocalTPContext::requestAbort`) | abort flag | test before each stage, set by the first failure | pool, barrier, executor | a worker enters a collective the others will not enter | nobody is left behind, a failed pass is reported as failed |
| Tensor coherence (`tensors/CoherenceState.h`, `TensorBase.cpp`, `transfer/TransferEngine.cpp`) | which of host and device copies are current, the device buffers parked for a return | upload, download, mutable access, migration, copy between devices | every stage, the arena's tracker | a transfer that fails, two devices, GPUs of two vendors | a read sees the last write |
| Pipeline stages of a rank (`RankOrchestrator::forwardPP`, `LocalPPContext`, `HierarchicalPPContext`) | the hidden state's tensor of each stage | run a stage, transfer its output | tensor coherence | what the last pass or its failure left in a tensor | a stage reads what the stage before computed in this pass |
| Shared-memory spin allreduce (`collective/backends/ShmemSpinBackend.cpp`) | epochs and staging buffers in shared memory | allreduce with two epoch steps, abort | ranks of a node, `GlobalTPContext::requestAbort` from another thread | a fast rank overtakes a slow one, an abort overwritten by an epoch | no buffer is overwritten while it is read, no partial sum |
| Decoding over ranks, request handler (`OrchestrationRunner`, `ServerMode`, `ChatCompletionHandler`) | position, last and ready tokens, history, on every rank | clear, prefill, decode step, force a token, shut down | broadcast commands, a fence, collectives of the forward and of sampling | an error on one rank alone; forced tokens; refused prompts | calls match, one row per token, ranks agree, requests end |
| Weight upload (`loaders/WeightManager.cpp`, `loaders/gpu_pipeline/`) | pinned ring, staging slots, pool, events, registered kernels | load, register, release host bytes, finalize | host thread and several device streams | a slot reused while a stream reads it, a call that fails half-way | a kernel computes with its own weight, nothing is freed in use |
| GPU device workers (`backends/GPUDeviceWorker.cpp`) | task queue, running flag | start, submit, stop | one thread per GPU | start and stop against submit | every accepted task runs or fails |
| Speculative decoding (`execution/mtp/`) | speculated positions, checkpoints | draft, verify, publish, roll back | KV cache, recurrent state, sampler | partial acceptance, failed publication | state equals that of the accepted tokens |
| KV caches (`kernels/cpu/CPURingKVCache.cpp`, `HybridCacheManager.cpp`) | ring head and count per layer | append, truncate, export, import | attention stages, prefix cache | wrap-around, truncation | the last n rows are those of the last n tokens |
| Weight streaming (`loaders/LayerWeightStreamer.cpp`) | resident layers, prefetch window | acquire, prefetch, release | executor, behind `LLAMINAR_WEIGHT_STREAMING` | a layer evicted while it is used | a stage computes with its own layer's weights |
| Graph capture and replay (`execution/local_execution/graph/`) | captured graphs by shape | capture, replay, invalidate | executor | replay of a stale capture | a replay does what the graph would do |
| Mixture of experts (`execution/moe/`) | placement, histogram, epoch | observe, propose, transfer, publish | ranks, prefix cache (placement epoch) | two epochs in one step | every rank routes by one placement |
| Global orchestration, pipeline parallelism over ranks (`execution/global*/`, `parallelism_tree/`) | stage topology | hand-over of activations | MPI ranks | one rank fails | every stage sees the same step |
| Other collectives and coordinators (`collective/`) | communicators, worker queues | allreduce, allgather, abort | NCCL, RCCL, MPI | semantics of libraries | as the host barrier |
| Backends, device discovery, planning, configuration, model tables | built once at start | – | – | – | pure functions of their input |
| Kernels, tensor formats, compute stages | – | numeric | – | rounding, layout | out of a model checker's reach |
| Chat templates, command line, debug dumps, test support, vendored code | – | – | – | – | – |

The first ten rows are modelled here, down to "Weight upload". What each leaves
out, and the reason for each of the others, is its note in `PROJECT.json`.

## Modules

```
PrefixStore  <--refines--  PrefixStateCache  <--proofs--  PrefixStateCache_proofs
     ^ Remains (what may be lost)
PrefixRequest  <--proofs--  PrefixRequest_proofs

       TPWorkerPool   LocalTPBarrier <--EXTENDS-- LocalTPBarrierHistory
           \EXTENDS    /INSTANCE    \                |
            TPForward                \proofs         |proofs
                |proofs               LocalTPBarrier_proofs
       TPForward_proofs (the pool, then the composition)

TensorCoherence <--EXTENDS-- PipelineTransfer  <--proofs--  PipelineTransfer_proofs
MPICalls <--INSTANCE-- CoordinatedDecode  <--proofs--  CoordinatedDecode_proofs
ShmemSpin <-- ShmemSpin_proofs      WeightUpload <-- WeightUpload_proofs
```

An `MC` module beside each component declares model values and small sets for its
configurations. An operator marked `(* Mutant: ... *)` is a deliberate mistake
in the definition that follows it; no specification uses it. Each property is
shown to fail when its mutant takes the place of the definition.

### PrefixStateCache, PrefixStore

`PrefixStateCache` is the cache object with its backends as one record. The
fields are the code's members: `entries_` with `ref_count`, `lru_`,
`used_bytes_`, the RAM backend's `allocations_` (`ledger`) and `used_bytes_`
(`ramUsed`), `device_hot_entries_`, `device_hot_lru_`, the device-hot backend's
`allocations_` and `used_bytes_` (`hotLedger`, `hotUsed`), `disk_entries_` and
`stats_.disk_bytes` (`diskUsed`). Each tier admits a block by its own count, as in
the code, never by what it holds; that the two agree is a property. A list in
recency order is the relation "nearer the front". The cache has one user on one
thread, so a public call is one action: `Find`, `Store` (one block of
`harvestPrefix()`: `contains`, `reserveRam`, allocate, export, `insert`),
`Retain`, `Release`, `Erase`. A private method whose outcome depends on a
transfer that may fail maps a record to the set of records it can leave behind.
`evictUntilFits` rescans from the least recent block after every eviction, and a
write that fails makes it go on to a more recent one; `IsEviction` says which
sets of victims that loop can produce, without the loop.

A key stands for a token prefix under one model fingerprint, so the payload of a
block is its kind: KV only (`Plain`), or with the recurrent state and terminal
rows of a prompt that ends there (`Terminal`), which is larger. Bytes are
counted in units.

`PrefixStore` is the promise: a store that may forget and never lies. The cache
implements it with `Visible` (RAM, else hot, else disk) as the refinement
mapping (`ImplementsPrefixStore`).

### PrefixRequest

The prefix branch of `OrchestrationRunner::prefill` on every MPI rank, over the
children of the rank's `RankOrchestrator`. One action for each step between
which another child, another rank or a failure can come: `Submit`,
`LookupPrefix` (per child), `Coordinate` (all ranks), `PopulatePrefix` (per
rank), `ForwardSuffix` (all ranks) or `ForwardFails`, `RestoreTerminal` or
`RecomputeLastBlock` (per rank), `HarvestPrefix` (per child), `Finish`.
`clampedTo()`, `coordinatePrefixLookups()`, `makePrefixLookupResult()` and the
aggregate of a rank are the operators `ClampedTo`, `Coordinated` and `Aggregate`.
After `RecomputeLastBlock` the code repeats the import and the suffix forward in
line; here that is the same action again.

The eleven reductions of the coordination are one step of all ranks: each has
its arguments before the first of them, and no rank gets its result before all
have come. A reduction does not fail: the program leaves MPI's default error
handler in place, which ends the job. The collectives of the forward are the
second place where ranks meet. `ForwardSuffix` needs every rank there with the
same number of rows; a rank that comes with another number, or stays away, is
stuck for good (`StuckApart`). That happens in the code: `MCPrefixRequest_rank_mtp`
and `MCPrefixRequest_rank_fails` show `RanksForwardTheSame` violated. And `RanksPartOnlyForCause` says for what causes alone: a failed import or
restore, noted in `failed`, or MTP's step back over clamped hits.

A block's hidden row has no flag of its own beside its logits. The payload layout
has the hidden row where it has logits and MTP is on
(`DeviceGraphOrchestrator.cpp:15114-15135`), and `harvestPrefix` stores both or rejects
the block (`15692-15770`), so with MTP `has_terminal_hidden` and
`has_terminal_logits` are equal in every stored block and every hit.

The data that the properties need is where a value came from. A KV row is
identified with the tokens it attends to, a recurrent state or a row of logits
with the tokens it was computed from, and the key of a block with the prompt up
to its end. So a wrong row is visible as such, wherever it was copied. `Tokens` is
any set that does not confuse `None` with a sequence of tokens.

Each child's cache is a `PrefixStore` seen from outside: at every step of that
child it may lose any blocks (`Remains`), and a lookup may stop before the last
block that is there. Everything `PrefixStateCache` does is allowed by this, which
is what the refinement above shows.

### TPWorkerPool

The threads of `TPWorkerPool` and the caller (`forwardTP`). What changes and is
tested under `mutex_` needs no program counter between test and wait.
`completed_count_` changes outside `collect_mutex_`, so the collector's test of its
predicate, its blocking and its wake-up are separate steps, and a notification
in between is lost. `results_` is copied without a lock that the workers
take: after a timeout the copy may meet a worker's write, and `MayRead` gives
every mixture of old and new fields. After the copy, `CopyResults` does what
`forwardTP` does with it: an incomplete step ends the process if there is a
collect timeout, and fails and aborts otherwise.

### LocalTPBarrier, LocalTPBarrierHistory

`allreduceCpuBarrier()` works under `barrier_mutex_`, so an arrival is one action
(`ArriveMismatched`, `ArriveAndWait`, `ArriveLast`) and so is a return from the wait
(`WakeUp`, `GiveUp`). A tensor is the set of contributions summed in it, each
named by thread and stage. A staging copy of `ArriveLast` may fail with some
tensors already overwritten. A caller whose call returned false may go on
(`GoOn`): the context remembers nothing. In the composition below the executor
ends the pass instead, and `BeginForward` starts the next one.

`LocalTPBarrierHistory` adds the set of waiters whose round another thread
abandoned. The code does not tell them from the waiters of a completed round;
with that set the promise of the call can be stated exactly
(`CompletedMeansReduced`).

### TPForward

The composition: the pool's workers run the graph's collective stages through
the barrier, test the abort flag before each, and set it when they fail.
`BeginForward`, `StartStage`, `CancelForward`, `Collective`, `FailStage` and
`FinishForward` are the worker's function; the rest are the pool's actions.
Stage names repeat from pass to pass, as the graph's node names do.

### TensorCoherence, PipelineTransfer

`TensorCoherence` is a module of operators: what the operations of a tensor do to
its copies. A tensor is a record of the coherence state, what host and device
buffer hold, which device has the buffer, the buffers parked on other devices
and the authority of a migration. An operation is the set of its outcomes, one
for each fault that `Faults` allows; `Then` chains calls up to the first that
fails. The transition table of `CoherenceState.h` is `Transition`.

`PipelineTransfer` uses them as the program does: passes through the stages of
one rank, where the hidden state is transferred to the next stage's device and
copied to its working buffer (the flat and the hierarchical context), or
transferred in place (the graph over all stages, `shared`). The tensors outlive
the pass and keep whatever the last one, or its failure, left in them; a host
read may come in between (`ReadOutput`). An activation is named by the pass and
the stage that computed it, so a stale one shows.

### ShmemSpin

Every rank's `allreduce()` over the arena: copy to its buffer, raise its epoch,
wait for the peers one after the other, reduce, raise the epoch again, wait
again. The copy is two steps, in between which the buffer holds nothing of use.
`abort()` of another thread sets a flag and writes a marker in the place of the
rank's epoch, which the rank's own next store can overwrite. A rank that fails
ends the job through `GlobalTPContext::requestAbort()` (`KillJob`).

### MPICalls, CoordinatedDecode

`CoordinatedDecode` is what every rank does for a chat request: the handler on
rank 0 (clear, set sampling, prefill, decode steps, a thinking budget with
forced tokens, clean-up), and `runMPIWorkerLoop()` elsewhere. A rank's step leads
from the return of one collective to the next; `MPICalls` (external: MPI as the
code uses it) keeps the calls of each communicator in order, lets the root of a
broadcast run ahead, and remembers for ever if two calls of different kinds
met. The collectives of one forward pass are one call. `Progress` is any rank's
next step; `StageFails` an error of one rank inside the forward.

What a rank has computed is the sequence of tokens it fed (`fed`), so a row that
is computed twice or skipped shows. A sampled token is any token: whether it is
taken from rank 0 or from the reduction is what matters.

### WeightUpload

One load of one device's dense weights. The host's program counter goes through
the calls of `DeviceLoadPipeline` for a job (wait for the slot, copy to pinned
memory, upload, fence, repack, record the event), the drains, the registration
of kernels, the release of host bytes and the end. A device stream is the set of
jobs waiting in it; `DeviceUpload` and `DeviceRepack` are its steps, at any time after
the call. What a kernel or a copy reads is decided when it runs, not when it is
called: a slot that is written too early is read wrong. Every call may fail
(`Fail`), and then everything is freed in the order the code frees it, whatever
the streams have left to do.

`synchronize()` on that path is assumed to succeed (the code warns and frees
anyway), and the constructors of kernels not to throw.

## Runs

`CHECK_DEADLOCK FALSE` is set where the program stops: the pool, the barrier and
their composition (after the last stage, the destructor, or when the process
aborts), the pipeline and the arena (after the last pass or call), the server
(after shutdown) and the upload (after the load). The cache and the request
never stop and are checked for deadlock; ranks that came apart are the exception,
and take the step `StuckApart`.

| Run | States | Question |
|---|---|---|
| `cache_tiers` | 39565 | All three tiers, every failure: `TypeOK`; the two counts of RAM bytes agree and stay in budget (`RamAccounting`); so do the counts of the device-hot backend and of the disk with what these tiers hold (`LowerTierAccounting`); a hot block is a copy of what is below (`HotIsPromotion`); a pin outlives everything (`PinnedStaysResident`); only an erase or a failed read loses a block (`EvictionLosesNothing`); victims are least recent first (`EvictsLeastRecentFirst`); it is a `PrefixStore` |
| `request_supported` | 509143 | Prefill computes the prompt (`PrefillComputesPrompt`), no cache is poisoned (`StoreIsHonest`), ranks that agreed on a hit feed the same suffix unless a failed transfer or MTP's step back sets them apart (`RanksPartOnlyForCause`). Six setups: two shards, logits on the first, with imports, restores and forwards that fail half-way; two shards with MTP's rule that a partial hit without the hidden row steps back, prompts ending inside and on blocks; a hybrid model; two MPI ranks, one of two devices, without faults; two ranks of a device each with failing transfers, and with MTP |
| `request_partial_block` | violation | see below |
| `barrier_rounds` | 84457 | With timeouts, mismatches and failing copies: slots belong to threads that wait (`SlotsAreWaiting`), a sum is of one stage (`SumsOneStage`), who waited in a completed round is told the truth (`CompletedMeansReduced`), waits end (`WaitsEnd`) |
| `pool_lost_wakeup` | violation | see below |
| `forward_passes` | 249654 | Two passes, no collect timeout: success means that all succeeded in this pass (`SuccessMeansAllSucceeded`), a failure aborts before it is reported (`FailureAborts`), a success was reduced on every device (`SuccessMeansReduced`), no success after an abort (`AbortIsFinal`), nobody stays behind (`NobodyLeftInBarrier`) |
| `forward_finishes` | 187046 | With a collect timeout, and threads that abandon the barrier: steps return (`StepsReturn`), the destructor returns (`DestructorReturns`) |
| `pipeline_passes` | 80606 | A stage's kernels find on their device what the stage before computed in this pass (`StageReadsItsInput`); a copy the coherence state calls valid is the last one written (`ValidCopiesAreCurrent`) |
| `shmem_calls` | 193603 | A call that returns true summed what every rank staged for it (`ReturnsWholeSum`), no buffer is written while read (`NoOverwriteWhileRead`), after a failure nobody completes a later call (`FailureStopsAll`), no call spins for ever (`CallsEnd`) |
| `commands` | 42312 | Calls of the ranks match (`MatchedCalls`), one row per token (`RowPerToken`), workers agree with rank 0 (`RanksAgree`), requests end (`RequestsEnd`), workers leave at shutdown (`WorkersLeave`) |
| `commands_deferred` | violation | see below |
| `upload_load` | 2887 | What is queued reads its own weight (`QueuedWorkReadsItsWeight`), a registered kernel finds its weight (`KernelsFindTheirWeight`), nothing is freed in use (`NothingFreedInUse`), temporaries are freed (`TemporariesAreFreed`), host bytes are dropped only for a weight in place (`DroppedOnlyWhenInPlace`), the load ends (`LoadEnds`) |

**Bounds.** *Cache*: three keys, sizes 1 and 2, RAM for 3 units, hot for 3, disk
for 4, one nested pin (`MaxRefs`). A terminal block evicts two plain ones; a plain
one may fail to free enough; a pin can make room impossible; the disk fills.
Everything in the code compares a key with at most one other at a time, and the
theorems below cover the counts for any sizes. *Request*: blocks of two tokens,
two tokens, prompts of up to two blocks that extend one another, branch, end on
and inside a block; two shards, or three on two ranks. Cached blocks of several
prompts accumulate over any number of requests, since the state returns to
idle. *Barrier*: three threads (two that wait, one last), three stages: one to
leave a result, one to misuse it, one to run ahead into. *Forward*: three devices
and three stages per pass for safety, two devices and one stage for liveness;
two passes (`MaxSteps`), the second to meet what the first left. Three workers are
symmetric in `forward_passes`, where no property is temporal and no constant
tells workers apart. `SuccessMeansAllSucceeded` is checked without a collect
timeout only: with one, the copy races a late worker's write, which is undefined
behaviour in C++ and can read anything `MayRead` says, an old success among them,
and the count of a late worker may end the next step's collection
(`MCTPWorkerPool_early_abort`). Nothing is said of an abort releasing the waiters of
the barrier, since it does not (`MCTPForward_abort_ignored`). *Pipeline*: every choice
for three stages among two GPUs of one vendor, one of another and the host, so a
tensor can leave a device, pass through another and come back; three passes, the
second and third to meet parked buffers of the one before. *Arena*: three ranks
(one fast, one slow, one aborted), two calls each, since a call can only meet the
one before and the one after; aborts by another thread of two ranks. *Commands*:
three ranks, prompts that fit, exceed the activation buffers and exceed the
context; up to three tokens, thinking budgets none, 0 and 1 with two forced
tokens; rank 0 at most one request's commands ahead of a worker (`MaxAhead`; MPI
buffers only so much). The requests are any number. *Upload*: seven weights
through three slots (the default of `repack_streams`), so every slot is used
twice and one three times; one raw weight, one shared with the embedding, one
whose host bytes may be gone; the debug synchronization on and off.

**Fairness.** *Barrier*: weak fairness of leaving the wait (`WakeUp` or `GiveUp`),
because a wait with a timeout ends; nothing is assumed of a thread outside the
barrier. *Pool and forward*: weak fairness of every thread's steps, because the
OS schedules it and a stage or kernel returns; the caller's step includes
`Expire` where a collect timeout is configured. Nothing makes a caller dispatch,
or destroy the pool, and `SpuriousWakeup` is not fair: `StepsReturn` may not
depend on it, which is what `pool_lost_wakeup` shows. *Arena*: weak fairness, for
each rank, of the steps inside a call or an abort while the job lives: the spin
loop runs. No rank need call. *Commands*: weak fairness of `Progress` as a whole,
that is, the ranks do not all stop while one can go on; nothing makes anybody
send a request, stop the server or fail. *Upload*: weak fairness of the host's
steps and of the device's; failures are not fair.

Further configurations that are kept but not part of the table:
`MCTPForward_types` (`ForwardTypeOK` and `CollectsAll`: a step's results are complete),
`MCCoordinatedDecode_types` (`TypeOK`), and the violations named below without a run.
`RecencyLists` (the recency lists are exactly the tiers' blocks) and the type
invariants of the barrier, the arena and the upload have no run of their own, since
they are proved.

## Proofs

Every theorem holds for all values of the constants that satisfy the module's
named assumptions (finite sets of keys or threads, more than one thread, sizes
positive with plain at most terminal, at least one rank, job and stream;
`SizesAssumption`, `BudgetsAssumption`, `KindsAssumption`, `KeysAssumption`,
`BarrierAssumption`, `PoolAssumption`, `ForwardAssumption`, `ShmemAssumption`,
`UploadAssumption`, `PipelineAssumption`, `RequestAssumption`, `CoordinatedAssumption`),
which TLC evaluates.

`PrefixStateCache_proofs`

- `TypeCorrect`, `RamAccountingHolds`: from `IInv`, that is `Settled(cache)` and the
  type of `last`. `RamAccounting` alone is not inductive: an unpinned count for a
  block that is not resident would be inherited by the next insertion, and the
  subtraction in `ReleaseAll` needs the types. `Settled` adds them. It is a
  predicate on the record, carried by one lemma through each operator
  (`Unload`, `Persist`, `Promote`, `InsertResident`, the hydrations, ...), in the
  order the code nests them. Bytes are the cardinality of a set of units, so that
  sums are reasoned about with the library's theorems of finite sets instead of
  induction.
- `PinnedStaysResidentHolds`: `KeepsPins` relates the records before and after each
  operator; it is transitive.
- `RecencyListsHold`, `LowerTierAccountingHolds`, `HotIsPromotionHolds`: from
  `Tiered`, which adds to `Settled` that each recency list is a strict total order
  of exactly its tier's blocks, and what the device-hot backend and the disk have
  counted (`HotCounted`, `DiskCounted`). The bytes given back by a removal are the
  smaller of the count and the recorded size, so a count that had drifted would
  stay wrong: both must be exact before every step. The loops that make room take the least recent block as long as there is one; that a
  finite order has one comes from the library's well-foundedness, not from
  induction.
- `EvictionLosesNothingHolds`, `EvictsLeastRecentFirstHolds`: what one call does to
  the three tiers together, again a relation carried through every operator.
- `CacheImplementsStore`: the refinement of `PrefixStore`. The initial states map to
  the empty store, and each call is a harvest, a lookup, an erase or a loss.
- `HotIsPromotionHolds` and `CacheImplementsStore` assume `Covered`, that a device
  tier implies a disk tier, and `EvictionLosesNothingHolds` that there is a disk:
  without one, evicting a block from RAM makes the hot copy the only one, which
  `MCPrefixStateCache_hotonly` shows. Each assumption is on the configuration, and
  the others of these theorems need none.

`PrefixRequest_proofs`

- `PrefillComputesPromptHolds`, `StoreIsHonestHolds`: from `RequestIInv`. Its parts:
  every cached block is what its key says, and where a full hit may end in it and
  going back one block would not do, it has the logits such a hit restores
  (`StoresHold`); a participant's hit covers whole blocks that hold that too, and a
  rank goes on from a boundary that its aggregate and every participant reach
  (`Goes`); rows and recurrent state are those of the tokens up to where the rank
  is (`LiveTo`). The arithmetic of block boundaries (`Ends`, `EndsOrdered`,
  `RowBlock`) is proved for every block size.
- They assume `Safe` of every setup: if the model has recurrent state, or prompts
  may end inside a block, then the terminal state of every full hit can be
  restored on every rank (it is kept, every rank has an owner of it, restores do
  not fail), and a hybrid model has one device. `partial_block`, `hybrid_recompute`
  and `hybrid_shards` show what happens otherwise. Dense models with prompts of
  whole blocks need no assumption, whatever fails.
- `RanksPartOnlyForCauseHolds`, with failing transfers, MTP and recurrent state, and
  assuming besides `Safe` only `Alike`: every rank keeps terminal logits, or none
  does. From `RanksFollow`: a rank for which neither cause holds is at the agreed
  hit until it turns back, and whether it turns back (`GivesBack`) is decided by the
  agreed hit, which is common to all, and not by its own (`AgreesOn`,
  `StandingKeeps`, `PartedRanks`). `rank_fails` and `rank_mtp` show that both
  causes are real.

`LocalTPBarrier_proofs`, of the barrier with and without its history

- `BarrierTypeCorrect`, `SlotsAreWaitingHolds`: from `BarrierIInv`, which adds that
  nobody waits for a generation to come (it would be joined by that round later)
  and that who waits, waits in one of the stages. With and without timeouts,
  mismatches and failing copies.
- `SumsOneStageHolds`, assuming `NamesDiffer` (stages have names of their own):
  from `SumIInv`, which adds `RoundOfOneStage`: the threads of the open round wait in
  the stage it was opened for, each with its own contribution alone. The last
  arrival then completes an injection of slots into threads, which for finite
  sets of equal size is a surjection: every thread is summed.
- `TrueMeansReducedHolds`, assuming no wait times out: from `StepIInv`. Threads
  are in lockstep, the generation counts the stages done, and a thread that has
  not woken up yet from a successful round finds its tensor reduced, because the
  next round cannot be completed without it. Timeouts break exactly this.
- `CompletedMeansReducedHolds`, with timeouts, assuming `NamesDiffer`: from
  `HonestIInv`, which is `SumIInv` and `LateIsHonest`: a waiter of a round that is
  over, and was not abandoned, has its sum, or the result says that the round
  failed. No later round can be completed before that waiter comes back, so the
  result it reads is its own round's.

`TPForward_proofs`, assuming no collect timeout

- `PoolCorrect`: `PoolIInv` is inductive for the pool alone. Its parts: workers
  follow the generation (`Follow`), a worker that is through has its result of
  this step stored (`Stored`), `completed_count_` is the number of those
  (`CountIsRight`), the collector passes only with all of them (`Complete`,
  `Returned`), and a failure has run the callback before it counts (`FirstFails`).
- `ForwardImplementsPool`: every step of the composition is a step of
  `TPWorkerPool` or a stutter of its variables. `PoolIInv` therefore holds in
  `TPForward` without being proved again.
- `SuccessMeansAllSucceededHolds`, `CollectsAllHolds`, `FailureAbortsHolds`,
  `AbortIsFinalHolds`, `NobodyLeftInBarrierHolds`: from `ForwardIInv`, that is
  `PoolIInv`, `Inside` (who is in a stage or in the barrier runs the step) and
  `AbortHasCause`.
- `SuccessMeansReducedHolds`: waits may time out and copies fail. Either something
  has failed, and then the pass cannot succeed any more, since the failure stays
  with its worker until the pass is collected and the flag until the end; or
  nothing has, and then the threads are in lockstep as in the barrier alone.

`PipelineTransfer_proofs`

- `StageReadsItsInputHolds`, `ValidCopiesAreCurrentHolds`, for any number of stages
  and passes, any devices and vendors, in all three variants: of every operation
  of `TensorCoherence` what it leaves current, and of the pass, which tensor holds
  the last stage's output. They assume that downloads do not fail
  (`"download" \notin Faults`), which `MCPipelineTransfer_downloads` shows to be
  necessary: `data()` has no way to report it. Uploads, copies between devices and
  allocations may fail.

`ShmemSpin_proofs`, from `ShmemIInv`

- `ShmemTypeCorrect`, `ReturnsWholeSumHolds`, `NoOverwriteWhileReadHolds`,
  `FailureStopsAllHolds`. `Phases` fixes the epoch a rank publishes at each place of
  its call. `InStep` says what a rank that passed a peer may conclude of that
  peer's progress, and keeps it when the peer's epoch is overwritten by the abort
  marker or the marker by an epoch. `Staged` and `Summed` follow the data.

`CoordinatedDecode_proofs`, from `Inv`

- `MatchedCallsHolds`, `RanksAgreeHolds`, `RowPerTokenHolds`, for any number of ranks,
  requests and tokens, any prompts, budgets and lead of rank 0, and stages that fail.
  Workers run behind rank 0 by any number of commands, so no invariant on the state
  of one rank, or of two, will do. `OnOneWalk` says that all ranks walk one sequence
  of *stations*, one for each call on the world communicator. A station is the kind of
  that call, the command it belongs to, what the ranks share of a runner's state
  (all but the penalties and a token not yet agreed on), and the calls made on the domain
  communicator since the station before. What a call broadcasts decides the next
  station (`Onward`), rank 0 is never behind, and every rank stands at its station or
  is on the way to it (`Stands`, `Heading`). A rank's call therefore meets the call
  that rank 0 made, or would make, at the same station, and the state of the ranks
  at one station is the same. Calls that everybody has left drop off the front of the
  walk (`Retired`), and that is a lemma of its own: the walk is only renumbered.
- `RootServes` is what rank 0 adds: the request's phase, prompt and sampling, the call
  rank 0 is in and the runner's rows fit together, which is where `RowPerToken` comes
  from.
- They assume `Matching` of every setup: where greedy sampling is coordinated no
  greedy request has penalties, and no logits stay on the device that rank 0 would
  have to sample on the host. The run `commands` has only such setups.
  `commands_deferred` and `MCCoordinatedDecode_penalties` show that neither half can
  be dropped.

`WeightUpload_proofs`, from `UploadIInv`

- `UploadTypeCorrect`, `QueuedWorkReadsItsWeightHolds`, `KernelsFindTheirWeightHolds`,
  `NothingFreedInUseHolds`, `TemporariesAreFreedHolds`, `DroppedOnlyWhenInPlaceHolds`,
  for any number of weights and slots and any failure. Nothing bounds what is
  queued but the host's wait for a slot's event, so the invariant says that a
  slot has at most one job in flight (`OnePerSlot`), what the streams may hold
  (`Streams`), and, for every place of the host, how far the job in hand
  (`AtJob`) and the others (`Elsewhere`) are.

**Model-checked only.** Liveness (`WaitsEnd`, `StepsReturn`,
`DestructorReturns`, `CallsEnd`, `RequestsEnd`, `WorkersLeave`, `LoadEnds`): temporal
reasoning under fairness is out of the prover's reach. Every invariant and
every action property of a passing run is a theorem. Not proved are `ForwardTypeOK`
and the `TypeOK` of `CoordinatedDecode` (`Types` in its proofs leaves out the bounds
on lengths), which the configurations named above check.

## Where the code and its documents disagree

Listed under `findings`, each with a run:

- **A full hit that ends in a partial block** (`request_partial_block`). Without
  terminal logits `prefill()` steps back `block_size` tokens, into the block before
  the partial one; `clampedTo()` drops that block too, and the tokens in between
  are never fed.
- **A lost wake-up of the collector** (`pool_lost_wakeup`).
- **A decode step that fails on rank 0 alone** (`commands_deferred`). GPU ranks, a
  temperature and a top_k of 1 to 256: rank 0 leaves `decodeStep()` before the
  fence, and the workers' barrier meets rank 0's next command.

Further violations, with a configuration kept for each:

- `MCPrefixRequest_rank_mtp`: with MTP, ranks whose caches differ step back
  differently (`OrchestrationRunner.cpp:1175`). The step back asks for the hidden
  row of the rank's own clamped hit; a rank whose hit was longer has lost that
  flag in `clampedTo()`, its peer, whose hit ends there, has not, and the agreed
  flag is true. They feed suffixes of different lengths.
  `docs/v2/projects/2026-04/PREFIX_CACHE_PROJECT_PLAN.md:406` says "All ranks restore
  and run the same suffix positions".
- `MCPrefixRequest_rank_fails`: the same after an import or a restore that fails on
  one rank only (`OrchestrationRunner.cpp:1186`, `1209`): that rank starts from an
  earlier token, its peers from the agreed one, or not at all.
- `MCPrefixRequest_hybrid_shards`: with two shards of a hybrid model,
  `RankOrchestrator::populatePrefix()` clamps each child to the common boundary
  (`RankOrchestrator.cpp:5626`); a child whose block there has no recurrent state
  falls back further, to another boundary than its siblings.
- `MCPrefixRequest_hybrid_recompute`: the recompute of a hybrid model steps back to
  a block that carries no recurrent state (`OrchestrationRunner.cpp:1230`); the
  plan, line 676, asks for identical tokens.
- `MCPrefixRequest_terminal_skipped`: `harvestPrefix()` skips a block that is there
  already (`DeviceGraphOrchestrator.cpp:15591`), also when it is the final block of
  this prompt and has no logits; the plan, line 295, has them stored.
- `MCPrefixStateCache_hotonly`: without a disk tier evicting a block from RAM
  leaves its hot copy as the only one (`PrefixStateCache.cpp:374`); the plan,
  line 146, says a hot block is never the only copy.
- `MCLocalTPBarrier_stale`: a thread woken by another's timeout or mismatch returns
  the result of the round before (`LocalTPContext.cpp:1318`, `1286`), while
  `LocalTPContext.h:447` promises "same result for all participants".
  `forward_passes` shows why this does not make a forward pass succeed: the thread
  that timed out fails, and the flag it sets is tested before the next stage.
- `MCTPForward_abort_ignored`: `requestAbort()` notifies `barrier_cv_`
  (`LocalTPContext.cpp:568`, "Wake any threads blocked on the barrier condition
  variable"), but the predicate of the host barrier does not look at the flag, so
  its waiters leave by their own timeout.
- `MCTPWorkerPool_early_abort`: the collect timeout races the last worker of a step,
  whose result is there and whose count is not (`TPWorkerPool.h:237`). The count
  lands in the next step, whose collector then stops waiting with a worker
  missing, before the timeout that line 110 names as the only reason.
- `MCPipelineTransfer_downloads`: `data()` returns the host pointer also when the
  download failed, so a stage on the host, or the copy to one, reads what was
  there before.
- `MCPipelineTransfer_arena`: in the graph over all stages a transfer by way of
  the host leaves the arena's tracker with the device as authority and the tensor
  with the host, which the assertion at the start of `prepareForRead()` excludes.
- `MCShmemSpin_marker_overwritten`: the abort marker sits in the rank's epoch, and
  the rank's own call, if it has passed its last test of the flag, stores its
  next epoch over it and returns true. `FailureStopsAll` shows that it is then
  the flag of the next call that stops it.
- `MCCoordinatedDecode_no_template`: for a model without a chat template rank 0
  calls `shutdownMPIWorkers()` before coordinated mode is set
  (`ServerMode.cpp:103`), which then sends nothing; the workers stay in their loop.
- `MCCoordinatedDecode_penalties`: `SET_SAMPLING` carries temperature, top_p, top_k
  and seed (`OrchestrationRunner.cpp:13320`) but no penalties. A worker takes the
  request for plain greedy and enters the coordinated sampling which rank 0,
  knowing the penalties, does not (`DeviceGraphOrchestrator.cpp:17140`).

`request_supported` keeps each setup to what the code gets right: with unaligned
prompts, MTP and failing restores the partial-block divergence appears, a
failing restore of a hybrid model leads to `hybrid_recompute`. Several ranks have
MTP and failures with prompts of whole blocks.

## What is left out

Statistics, logging, tracing and timing. Payload bytes and the file format of
the disk tier; after a restart nothing is read back from it, so the cache has no
restart. Fingerprints and their refresh (a key stands for one fingerprint),
participants that do not support the cache, and a forward that fails on one of
several ranks. In the barrier: null tensors and too many arrivals, which the
pool's fixed set of threads cannot produce, and exceptions of the allocator. In
the pool: which of several exceptions is rethrown, and threads pinned to cores.
In the forward pass: GPU collectives (whose backends do implement abort),
multi-device graphs and graph capture. In coherence: mapped and GPU-only tensors,
streams and completion events, the prepared state of weights. In the pipeline:
transfers between tensor-parallel domains and between ranks. In the arena: its
set-up and the fallback backend. In decoding: chunked prefill, MTP, batches and
expert rebalancing; streaming and HTTP of the server. In the upload: expert jobs,
adopted handles and the sizes of the VRAM preflight.

Not modelled at all: `GPUDeviceWorkerPool`, which nothing in the program uses;
NCCL, RCCL and their coordinators, whose semantics are the libraries'; kernels,
tensor formats and compute stages, which are numeric and whose correctness is
about rounding and layout; configuration, planning and model tables, which are
pure functions run once. Most of the repository's lines are of these kinds.

## Plan

Modules still worth writing, each small and independent of the others:

1. `MTPTransaction` on top of `CoordinatedDecode`'s ranks: speculated, accepted and
   rolled-back rows. Property: the state is that of the accepted tokens.
2. `RingKVCache`, refining the sequence of rows `PrefixRequest` uses.
3. `WeightStreamer`: resident layers and prefetch window under eviction.
4. `GraphCache`, `MoERebalance`: stale captures, placement epochs.
5. Pipeline stages on several ranks, over `MPICalls`.

Theorems still worth adding: the bounds on lengths in `CoordinatedDecode`'s `TypeOK`
and the members of `ForwardTypeOK` that are not in `ForwardIInv`; the safety
properties of the modules above.
