# MoEInfra in TLA+

A formal model of MoEInfra, a runtime that executes Mixture-of-Experts models
whose experts do not fit on the GPU.  The experts live in pinned CPU memory, a
cache decides which of them are resident on the GPU, and a transfer scheduler
copies them over a CUDA stream.  The modules here model the code under `src/`;
TLC checks them on small instances, and TLAPS checks proofs of the most
important results for instances of any size.

`PROJECT.json` is the machine-readable index of this project: the components,
the runs, for each definition the source lines it models, the hazards, the
findings and the theorems.

## 1. The system

### Components, their state and operations

| component (source) | state | operations |
|---|---|---|
| **Expert cache** (`cache/manager.py`) | the dicts `_gpu_cache` and `_cpu_cache` of entries with `last_access` and `access_count`; two `_ArcState` (T1, T2, B1, B2, p); slot counters in `stats` | `get`, `put`, `evict`, `demote_to_cpu`, and the readers `promote_to_gpu`, `peek_*`, `is_gpu_resident` |
| **Transfer scheduler** (`transfer/scheduler.py`) | `_queue` and `_heap` of requests, `_async_in_flight` (key to handle) | `submit`, `execute_next`, `cancel`, `submit_async`, `poll_async` |
| **Reusable staging pool** (`transfer/reusable_staging.py`, `transfer/nf4_transfer.py`) | `_slots`, each with pinned buffers, `in_use` and `ready_event`; the pinned budget | `acquire`, `stage_expert`, `mark_transfer_complete`, `release`, `destroy` |
| **MoE layer** (`model/moe_layer.py`) | the locals of a forward pass: `unique_expert_ids`, `was_gpu_resident`, `gpu_experts` | `forward`, `_forward_tokens`, `_ensure_expert_on_gpu` |
| **Prefetch engine** (`engine/prefetch.py`) | `_in_flight`: key to request id | `schedule_prefetch`, `on_layer_complete`, `cancel_stale` |
| **Inference engine** (`engine/engine.py`, `engine/decoder_layer.py`) | `_decoder_layers`, `_runtime_initialized`, `_kv_cache`, `_attention_mask` | `generate`, `_initialize_runtime`, `_prefill`, `_decode`, `_forward_layers` |
| **Router** (`engine/router.py`) | none | softmax, top-k, renormalise |
| **Pinned budget and other pools** (`transfer/pinned_memory.py`, `staging*.py`, `expert_staging.py`) | bytes allocated of a budget; buffers | allocate, release, destroy |
| **Metrics** (`metrics/`) | counters and samples behind a lock; a reporter thread and its stop event | record, snapshot, start, stop |
| **Bandwidth monitor** (`transfer/bandwidth.py`) | a window of samples | record, average |
| **Expert store bootstrap** (`benchmarks/expert_store_bootstrap.py`, `benchmarks/bench_real_inference.py`) | the files of the local store; the experts held in RAM | copy, warm, load into RAM, verify, start an engine |
| **Model loader, expert, NF4 reconstruction** (`model/`, `transfer/nf4_reconstruct.py`) | the index of a checkpoint or an expert store, preloaded experts | load one expert |
| **Configuration, logging, benchmarks, experiments** | | |

### How they interact

    InferenceEngine --forward--> MoELayer --get/put/demote--> CacheManager
          |  once per layer         |  |  submit, execute_next    ^
          |        load_expert      |  v                          | put, demote
          |     ModelLoader <-------+ TransferScheduler ----------+
          |          ^                 |  ^   submit_async, cancel
          |          | RAM experts,    |  +------ PrefetchEngine <-- on_layer_complete
          |          | local store     |
          |   expert_store_bootstrap   |  acquire, stage, release
          |                            v
          |             ReusablePinnedStagingPool ---> PinnedMemoryBudget
          |                   copies and events ---> CUDA stream (GPU)

    any thread --record, reset--> MetricsCollector <--snapshot-- MetricsReporter thread

`InferenceEngine` builds its prefetch engine with the policy `none` and reports nothing to the
metrics; other policies, polling and metrics are driven by tests and scripts.

A generation runs on one Python thread; engine, layers, prefetch engine, scheduler and cache
share their objects by reference.  Three actors beside that thread are really concurrent:

* the GPU: copies are enqueued on a stream and read the pinned buffers later, and
  events tell when it is past them;
* the threads of the metrics: whoever records, and the reporter thread, which share the
  collector's lock; `stop` sets an event and gives up waiting after a timeout;
* processes that die: the expert store is prepared on a machine whose runtime may be
  killed at any moment, and prepared again by the next process.

A method may raise at many places, and callers run `finally` blocks or do not.

### What is hard

* **Delayed reads.** A copy reads its slot when the GPU reaches it, while slots
  are released, reused and overwritten on the CPU side.
* **Cancellation.** A transfer that was cancelled still has its DMA in flight; it
  must be collected, must not be published, and must not start again before that.
* **Partial failure.** Staging, copying and reconstruction may raise between
  `acquire` and `release`; a layer may raise between two experts; a generation may raise
  between two layers, or while the stack is being built; a staging after it has reserved.
* **Two views of one transfer.** The prefetch engine remembers request ids while the
  scheduler ends, refuses and merges transfers on its own.
* **Duplicates.** A request is dropped when an equal one is queued or an
  asynchronous transfer of its expert is outstanding.
* **Policies over two tiers.** ARC keeps four lists per tier next to the dicts,
  and `get`, `put`, `evict` and `demote_to_cpu` each update some of them.
* **State that outlives a call.** The mask, the key-value cache and the stack of an engine
  stay when a call raises, and the next call starts from them.
* **Limits.** Slots of two tiers, slots of the pool, `max_concurrent`, one budget for
  several pools.
* **Time.** A transfer ends only when somebody polls it; a `join` may time out before the
  thread has noticed; a process may die between opening a file and having copied it.

### What makes each component correct

* Cache: tiers within their slots, counters equal to the tiers, one change of
  residency per call, the policy's choice of victim, ARC lists disjoint and capped.
* Scheduler and pool: a slot belongs to one transfer; no reuse under a DMA;
  published weights are the expert's own; cancelled transfers are not published;
  no duplicates; the limit is kept; accepted transfers end.
* Layer: runs its own requests, keeps no more experts alive on the GPU than its routing
  accounts for, leaves nothing behind however it ends, and raises only when something failed.
* Prefetch engine: can cancel every transfer it still wants; lets none be published for a
  layer that has passed.
* Inference engine: builds its stack once; mask and key-value cache agree whenever attention
  runs; decoding over the cache gives the tokens that the whole text would; calls end.
* Pools: the budget counts exactly what is held and is never exceeded.
* Metrics: a snapshot shows one moment; no update is lost; one reporter at most, which reports
  again and again until it is stopped and ends after that.
* Expert store: an engine that starts finds every expert whole, whatever died before; what
  is copied is not copied again; the preparation comes to its end.

## 2. The modules

| module | models | composed of |
|---|---|---|
| `ExpertCache` | data and methods of `CacheManager` as operators on a record | |
| `CacheManager` | the cache as a state machine | `ExpertCache` |
| `Residency` | *abstract:* what the cache promises, two bounded sets | |
| `Staging` | slots of the pool and the stream, as operators | |
| `TransferScheduler` | scheduler, pool, stream and cache together | `ExpertCache`, `Staging` |
| `AsyncTransfer` | *abstract:* what the scheduler promises about asynchronous transfers | |
| `MoELayer` | forward passes, and the router's choice, over all of the above | `TransferScheduler` |
| `PrefetchEngine` | layers in order with the prefetch engine, a poller and the GPU | `MoELayer` |
| `InferenceEngine` | `generate`: building the stack, prefill, decoding | |
| `Generation` | *abstract:* greedy generation from the whole text, no caches or masks | |
| `PinnedPools` | four pools over one pinned budget | |
| `MetricsCollector` | the collector at the grain of single reads and writes | |
| `MetricsReporter` | the reporter thread and its controller over the collector | `MetricsCollector` |
| `Counters` | *abstract:* counters changed and read in one piece | |
| `ExpertStore` | the preparation of the expert store by processes that die, and who loads from it | |
| `MC*` | instances for TLC | |
| `ExpertCache_proofs` | lemmas about lists without repetition and about the cache's operators | `ExpertCache` |
| `CacheManager_proofs`, `TransferScheduler_proofs` | theorems about the cache and the scheduler | `ExpertCache_proofs` |
| `PrefetchEngine_proofs` | theorems about layers and prefetching | `TransferScheduler_proofs` |
| `InferenceEngine_proofs`, `Metrics_proofs`, `ExpertStore_proofs` | theorems about these components | |
| `PinnedPools_proofs` | theorems about the budget, and lemmas about the sum of a function | `PinnedPools` |

### Correspondence with the code

**ExpertCache.** A cache is a record.  `order[tier]` is the list of resident keys,
oldest `last_access` first; it stands for the dict and for the time stamps of its
entries, since only their order is compared (`_lru_victim`, `_lfu_victim`).
`time.monotonic()` is read as strictly increasing.  `count` is `access_count`, kept
only under LFU, the only policy that reads it.  `arc` holds the `_ArcState` of both
tiers and `used` the two slot counters.  `CacheGet`, `CachePut`, `CacheEvict` and
`CacheDemote` are the whole methods: a `put` that finds the tier full evicts,
inserts whatever the eviction returned, tells ARC and refreshes the counter.  Two
details of the code are kept on purpose: a miss is reported to the CPU tier's ARC
state only, and the counters test for the prefix `cuda` where the choice of tier
also accepts `gpu`.  Tensors, sizes, and hit and miss counts are left out.

**TransferScheduler.** One action per method, with the exceptions of the method as
outcomes (`fault`): `stage` (`stage_expert` raises half way), `copy` (enqueueing
copies raises after the first one), `reconstruct`.  `_heap` holds the requests of
`_queue`, and the order in which it pops depends on that set only, so `queue` stands
for both; `_in_flight` is empty between calls.  A handle is `in_flight` or
`cancelled`; once `READY` it is removed in the same call.  `GpuStep` is the GPU
taking the next operation of the stream; `synchronize` in `execute_next` empties it.
`Load`, `LookUp` and `GiveUp` are the calls of a layer on the same cache, here in any
order.

**Staging.** A pool is the sequence of slots created so far; `acquire` returns the
first reusable one or creates one while the budget lasts (`PoolSlots` is the number of
slots that fit the budget; all slots of the pool have one size).  The stream is
external: a first-in first-out sequence of copies and events.

**MoELayer.** A pass is a sequence of steps, one for each call `_forward_tokens` and
`_ensure_expert_on_gpu` make, so that each one can raise (`Faults`, `LayerFaults`).
`Selections` are the sets of experts that `route` can return for up to `MaxTokens` tokens
with `TopK` experts each; the weights are left out.  `held` is `gpu_experts`: references that
keep an expert alive on the GPU after its eviction.  The finally block demotes one expert
per step.

**PrefetchEngine.** `remembered` is `_in_flight`, from keys to request ids.
`OnLayerComplete` is the method up to the loop of `schedule_prefetch`, which is one step
per key (`SchedulePrefetch`), so that each submission can fail in its own way while the GPU
moves.  Nothing between `submit_async` and the client catches an exception (`prefetch.py:155`,
`prefetch.py:231`, `prefetch.py:261`): a submission that raises (`SubmitRaises`) drops the keys that
are left and ends the callback as `failed`, which a refused one does not.  `SubmitBeyond` is a submission for a layer the model does not have: it takes a slot,
finds no CPU copy, and gives the slot back.  No module under `src/` calls
`on_layer_complete` or `poll_async`; the loop around them (`NextLayers`, `StartLayer`, `LayerStep`,
`Poll`) is what the docstring describes, and external.  After an exception of a layer the loop begins a
new run; after one of the callback or of a poll it may also go on with the next layer, since the code
says nothing of either.  The layers are the real ones: a demand transfer
empties the stream under the prefetches, shares their pool, and is dropped when a prefetch of
its expert is outstanding.

**InferenceEngine.** One action per stage of a call, and one step per layer of a pass.
A layer's cache is the sequence of (token, position) pairs it has keys for, the mask is
its length, and the model is any function `Predict` of the caches; so what is checked is the
bookkeeping that decides *which* keys at *which* positions a token is predicted from.
A request is its tokens, `max_new_tokens`, its batch size and whether the given mask fits, which
is what `_prefill` and `_decode` look at when they refuse.

**PinnedPools.** What each pool holds, by name, next to the one counter of the budget.
`PinFails` is `stage` raising after its reservation.  `DestroyAlone` is the obligation of the
client to destroy the reusable pool only when no other pool holds anything.

**MetricsCollector, MetricsReporter.** A record is a list of writes (`Writes`), each a read
and a write of one counter; lists of samples are represented by their lengths.  `before` is an
auxiliary variable, the counters when the lock was taken, which the refinement of `Counters` shows to
readers while a method is half done.  The reporter thread waits, reports, handles an
exception of a report, or is over; a report is a snapshot that competes for the lock like any other call.
Logging it may raise (`ReportRaises`), which the loop catches and logs, and that may raise too, which ends
the thread (`HandlerRaises`).

**ExpertStore.** The local store is a map from keys to `absent`, `partial` or `full`; `partial`
is a file whose copying was cut off, of another size than its source.  `Crash` loses
everything else.  `LoadExpert` is the order in which the loader asks its tiers.

## 3. What the runs check

| run | instance | checks |
|---|---|---|
| `CacheLfu` | LFU, 3 experts, 2 + 2 slots | `TypeOK`, `WithinSlots`, `SlotsUsedExact`, that the cache implements `Residency`, and `LfuSparesTheUsed`: who is evicted |
| `Scheduler` | 2 experts, 2 slots of the pool, 1 + 2 of the cache, faults in staging and reconstruction; fair GPU and poller | `TypeOK`, `SlotsOwned`, `NoReuseDuringDma`, `OwnWeights`, `Deduplicated`, that the scheduler implements `AsyncTransfer`, and `TransfersEnd` |
| `Layer` | three layers of two experts, lookahead of two, every fault, copies that fail half way included | `PrefetchTypeOK`, `SlotsOwned`, `OwnWeights`, `NothingLeftBehind`, `GpuCopiesBounded`, `ExecutesOwn`, `CanStillCancel`, `NothingStale` |
| `LayerArc` | passes of three layers in any order under ARC, nothing failing | `FaultFreePass`, `ArcListsDisjoint`, `CpuWithinSlots`, `GhostsBounded` |
| `Engine` | two layers, two tokens, seven requests of which five are refused or generate nothing; loading, attention, experts and head may raise | `EngineTypeOK`, `MaskCoversKeys`, that the engine implements `Generation` (`Recomputes`), and `CallEnds` |
| `Metrics` | a controller and a worker that both record, reset and read, two reporter threads whose reports may raise | `MetricsTypeOK`, that the collector implements `Counters` (`SnapshotsAreWhole`), `OneReporter`, `KeepsReporting`, `StopEnds` |
| `Store` | two experts in RAM, three on disk, three deaths | `StoreTypeOK`, `ServesEveryExpert`, `KeepsCopied`, `Resumes` |
| `Pools` | four pools, two names, three sizes, a budget of six bytes | `PoolsTypeOK`, `Accounted` |

Every property of these runs has a mutant in `PROJECT.json`: a plausible bug (a slot
that is not released, an event that is not consulted, an exception that skips the
finally block, a stale prefetch that is forgotten but not cancelled, a mask that is kept, a
lock that is not waited for, a file that counts as complete because it exists) that makes the
run report it violated.

The remaining runs show where the code does not do what the repository says of it.

| run | property | what happens |
|---|---|---|
| `CacheArcGpu` | `WithinSlots` | Under ARC the GPU tier grows past `gpu_slots`: its ARC state is never told of a miss, `choose_evict` returns `None`, and `put` inserts anyway (`manager.py:130`). |
| `SchedulerCopyFault` | `NoReuseDuringDma` | When enqueueing raises after a first copy, the slot is released without an event and handed out while the DMA is pending (`reusable_staging.py:24`). |
| `LayerPrefetchDemand` | `FaultFreePass` | While the engine's own prefetch of an expert is outstanding, the demand request for it is dropped as a duplicate, and the pass raises although nothing failed (`moe_layer.py:43`). |
| `EngineRetry` | `BuiltOnce` | A call that fails while the stack is built leaves its layers in `_decoder_layers`; the next call appends all of them again (`engine.py:194`). |

More was met while modelling.  The model shows it too, and no run is kept for it:

* The CPU tier evicts the copy of an expert that is on the GPU; demoting it later drops the
  last cached copy (`manager.py:367`, `manager.py:369`).
* `choose_evict` appends to ghost lists that only `on_miss` cuts back, so they outgrow the cap
  (`manager.py:103`, `manager.py:15`): by one entry at most as the layers use the cache
  (`GhostsBounded`), by more if a client evicts again before the next miss.
* `choose_evict` makes a key a ghost before it is known to be evicted (`manager.py:356`), so that
  a resident key may be a ghost.
* `put(..., device="gpu")` changes the GPU tier and refreshes the CPU counter (`manager.py:177`,
  `manager.py:379`).
* A pass keeps every routed expert alive on the GPU, where `README.md:29` of the repository
  speaks of chunks of two (`moe_layer.py:164`).
* The engine builds its scheduler without a staging pool (`engine.py:149`), and such a scheduler
  refuses every transfer to the GPU (`scheduler.py:202`): `PoolSlots = 0` in the model.
* `destroy` clears a budget that others may share (`reusable_staging.py:118`): with
  `DestroyAlone = FALSE`, `Accounted` fails in two steps.
* `InferenceEngine.shutdown` logs and does nothing else, where its docstring speaks of releasing
  resources and stopping threads (`engine.py:629`): what is in flight then stays in flight.
* A `start` after a `stop` that gave up waiting finds the old thread alive and returns; that
  thread then ends, and nothing reports any more (`reporter.py:55`).
* The docstring of `_loop` says that it runs until `_stop_event` is set (`reporter.py:110`); an exception
  of the handler's own logging ends it before (`reporter.py:115`), which `KeepsReporting` excepts.

## 4. Bounds

* Experts, slots and requests are small sets.  The tiers are smaller than the set of
  experts, so that puts find full tiers with a choice of victims; the pool has two
  slots, so that a slot is reused while another one has a DMA pending.  Requests may
  be submitted again and again, so a run has any number of transfers.
* `MaxCount` of `CacheManager` bounds `access_count` under LFU, by a guard: no method is called on a
  key at the bound.  Only comparisons of counts matter, and four values order three keys in
  every way.
* `MaxArcList` bounds the ARC lists in the run of `CacheManager`, where calls in any order
  make them grow for ever.  `LayerArc` needs no such bound: a pass asks for a key
  before it inserts it, and the lists stay finite by themselves.  It has six experts (three layers of
  two) because with two CPU slots only that many let a ghost list exceed its cap by two, if
  misses did not cut it.
* `MaxStream` bounds the length of the stream at which a copy may fail.  Such a failure
  leaves its copies pending and frees the slot, so it alone could fill the stream without
  end; everything else in the stream belongs to a slot.
* `Layer` has three layers, so that with a lookahead of two a layer is prefetched from two
  others, and a target beyond the last layer exists; `TopK` is one and a pass has up to two tokens, so it
  routes to one expert or both.  One GPU slot makes the second expert of a pass evict the first.
  Each expert has two prefetch ids, one more than can be in flight for it.
* `max_concurrent` is two wherever the pool has two slots, so that a transfer refused for the limit would find no
  slot or, in `Scheduler`, repeat a key: the runs reach the limit and do not tell its test from
  these.  More experts and slots take the runs out of reach; that the limit itself holds, for any pool,
  is the theorems `NothingDuplicated` and `SharedLimit`.
* `Engine` generates up to four tokens from prompts of up to two; its `Predict` is a digest of every key of
  every layer and its position, so that a wrong key or position changes the tokens.  An engine
  serves any number of calls, since every call starts a new cache.
* `MaxCount` of `MetricsCollector` bounds what is recorded between two resets: no record is
  called while a counter is at the bound.  Two threads may be called below it at once, which is what it
  takes to lose an update; a snapshot is torn by one record.  `transfer`, which changes three
  counters, stands for the seven methods; the others change one or two in the same way.
* `MaxCrashes` bounds the deaths in `Store`: three, so that a file can be cut off and its copying be cut off again.
  `Resumes` needs some bound, since a process that dies at every step never ends.
* `Pools` has a budget that the sizes 2 and 3 and slots of 2 fill in several ways, and a size of zero.

The next-state relations have no other bounds, and deadlock is checked in every run.

## 5. Fairness

* `Polled` (run `Scheduler`) assumes that the GPU works through its stream (`WF(GpuStep)`: CUDA
  executes what is enqueued) and that a client polls what it submitted
  (`WF(PollAsync(k))`).  The second one is an obligation of the client.  The repository's
  tests poll; no other file under `src/` does, and that
  is why `TransfersEnd` is stated under this assumption only.
* `EngineSpec` assumes that the thread that runs a call takes its next step (`WF(Advance)`).  Nobody has
  to make calls.
* `MetricsSpec` assumes that threads run (`WF` of the steps under the lock), that a wait of the reporter
  ends, by its timeout or by the event (`WF(Wake \/ Ends)`), that logging returns or raises (`WF` of the end
  of a report and of its handler), and that a thread that waits for a lock which becomes free again
  and again gets it (`SF(Locks)`; a `threading.Lock` does not promise it, but who holds it here lets it go after
  a few assignments).  It assumes nothing of the other threads: they may record
  without end or never, the controller may never call `stop`, and its `join` may give up at any time.
* `StoreSpec` assumes that a process goes on until it dies and is started again (`WF(Bootstrap)`): the
  notebook that prepares the store is run again by its user.
* The layer runs check safety only and assume no fairness.

## 6. What is proved

All theorems hold for any sets of experts, requests, layers, threads and so on, any numbers of
slots and limits, and the bounds of the models at any value (so for every finite run), from the
named assumptions of the modules.  A hypothesis in the third column is needed besides.

| theorem | says | hypothesis |
|---|---|---|
| *CacheManager_proofs* | | |
| `TypeCorrect` | `Spec => []TypeOK` | none: every policy |
| `CountersExact` | `Spec => []SlotsUsedExact` | callers do not use the alias `gpu` |
| `TiersBounded` | `Spec => []WithinSlots` | the policy is not ARC |
| `LfuEvictsLeastUsed` | `Spec => LfuSparesTheUsed` | the policy is LFU |
| `ImplementsResidency` | `Spec => KeepsPromise`: refines `Residency` | the policy is not ARC |
| *TransferScheduler_proofs* | | |
| `SchedulerTypes` | `Spec => []TypeOK` | none: every fault, every policy |
| `SlotsAreOwned` | `Spec => []SlotsOwned` | none |
| `PublishesOwnWeights` | `Spec => []OwnWeights` | none |
| `DmaIsSafe` | `Spec => []NoReuseDuringDma` | no copy fails while it is enqueued |
| `NothingDuplicated` | `Spec => []Deduplicated` | none |
| `ImplementsAsyncTransfer` | `Spec => TransferLifecycle`: refines `AsyncTransfer` | none |
| `SchedulerTiersBounded` | both tiers stay within their slots | the policy is not ARC |
| *PrefetchEngine_proofs* | | |
| `PrefetchTypes`, `SharedSlotsOwned`, `SharedOwnWeights` | the above for layers, prefetches and demand transfers over one pool | none |
| `PassesCleanUp`, `PassesRunTheirOwn` | `NothingLeftBehind`, `ExecutesOwn` | none |
| `GpuCopiesStayBounded` | `PrefetchSpec => []GpuCopiesBounded` | the policy is not ARC |
| `StillCancellable`, `StaleIsCancelled` | `CanStillCancel`, `NothingStale` | none: every prefetch policy and depth, submissions and polls that raise included |
| `SharedDmaIsSafe` | `PrefetchSpec => []NoReuseDuringDma` | no copy fails while it is enqueued |
| `SharedLimit` | `PrefetchSpec => []Deduplicated` | none |
| `FaultFreePasses` | `LayerSpec => []FaultFreePass` | nothing fails, and the pool has a slot |
| `CpuTierBounded`, `GhostsStayBounded` | `CpuWithinSlots`, `GhostsBounded`, with and without prefetching | none: every fault, every policy |
| `BothTiersBounded` | both tiers stay within their slots | the policy is not ARC |
| `ArcListsStayDisjoint` | `ArcListsDisjoint`, with and without prefetching | the policy is ARC, loads do not fail |
| *InferenceEngine_proofs* | | |
| `EngineTypes` | `EngineSpec => []EngineTypeOK` | `Predicts` |
| `MaskAlwaysFits` | `EngineSpec => []MaskCoversKeys` | `BuildsOnce`, `Predicts` |
| `StackBuiltOnce` | `EngineSpec => []BuiltOnce` | `BuildsOnce`, `Predicts` |
| `DecodingRecomputes` | `EngineSpec => Recomputes`: refines `Generation` | `BuildsOnce`, `Predicts` |
| *Metrics_proofs* | | |
| `MetricsTypes` | `MetricsSpec => []MetricsTypeOK` | none |
| `SnapshotsWhole` | `MetricsSpec => SnapshotsAreWhole`: refines `Counters` | none |
| `AtMostOneReporter` | `MetricsSpec => []OneReporter` | none |
| *ExpertStore_proofs* | | |
| `StoreTypes`, `EveryExpertServed`, `NothingCopiedTwice` | `StoreTypeOK`, `ServesEveryExpert`, `KeepsCopied` | none |
| *PinnedPools_proofs* | | |
| `BudgetNeverOverrun` | what is counted as used is between zero and the budget | none |
| `PoolsTypeCorrect`, `BudgetAccounted` | `PoolsTypeOK`, `Accounted` | `DestroyAlone` |
| `NoReleaseUnderflows` | no release takes more from the budget than it counts | `DestroyAlone` |

`BuildsOnce` says that building the stack does not raise (`EngineRetry` shows what happens when it
does), `Predicts` that the model predicts a token from any caches, and `DestroyAlone` that the
reusable pool is destroyed only when no other pool holds anything.  The other hypotheses
cannot be dropped either: `CacheArcGpu` shows what ARC does, the alias refreshes the
counter of the wrong tier, `SchedulerCopyFault` shows the copy that fails, `LayerPrefetchDemand`
the pass that raises beside a prefetch though nothing failed (so `FaultFreePasses` is about
passes alone), and an expert that cannot be loaded stays in `t1` (`manager.py:84`), which the next miss of
its key enters again.

### The arguments

*Cache.*  `TypeOK` is inductive: each tier is a sequence without repetition, and each
of `Touch`, `Drop` and `Insert` keeps it so (`TouchFacts`, `DropFacts`, `InsertFacts`, which rest on
the facts about `list.remove` and `list.append` at the head of `ExpertCache_proofs`).  The absence of repetition is what
makes the rest go through: removing one occurrence removes the key, and the length of
the list is the number of resident experts.  `TypeOK /\ SlotsUsedExact` is inductive once the counter an
operation refreshes is that of the tier it changes (`DeviceFacts`).  `TypeOK /\ WithinSlots` is inductive because
under LRU and LFU a full tier has a victim (`LruVictimFacts`, `LfuVictimFacts`), so an insertion into
a full tier follows a removal.  For the refinement, `OneTierChanges` turns facts about one
list into a step of `Residency`, and `PromiseStep` has one case per method.  For
`LfuEvictsLeastUsed`, `LfuStep` shows method by method that a key leaves a tier only as the victim of an
eviction or of a put, or because it is demoted, `LfuVictimFacts` that the victim is the first, in the order
of the list, of the keys with the lowest count, and `OnlyTheVictimLeaves` that this spares the others.

*ARC.*  `ArcOwned` says that the four lists of a tier are apart, that `t1` and `t2` of the CPU hold
resident keys only, and that the lists of the GPU are empty, since no miss is ever reported
to it.  `CacheStep` lists what a step of the scheduler or of a layer may do to the cache: a put into the GPU
tier, a demotion, a get that hits, or a miss followed by the put of the same key.  Each of them keeps `ArcOwned`, since
the key a miss makes live is resident after the put; a load that raises is the one step that is not among
them.  Each of them keeps `GhostsCapped` too: the miss cuts the lists before the put evicts once, and a load
that raises has cut them as well; puts into the GPU tier and demotions make no ghost, since the ARC state of the
GPU has nothing to choose.  `CacheInv` joins these with the bounds of the tiers.

*Scheduler.*  `TypeOK /\ Owned` is inductive: `acquire` hands out a slot that nobody uses, every
path of a transfer releases exactly the one it acquired, and a slot in use holds the expert of its
transfer, so nobody else can overwrite it.  `Supplied` says of every transfer that its GPU state is its expert
already or that a copy for it, and after that copy the event of the handle, are still on the
stream: when the event is done the copy has been made, out of a slot that was its own all the time.
`CopiesOwned`, for the reuse of slots, says that every pending copy belongs to a transfer, reads the slot of
that transfer, and has the event of its handle behind it; this is what a failed copy breaks.  The
refinement compares, action by action, the transfers in flight and cancelled before and after.

*Layers and prefetching.*  The invariants of the scheduler are carried over step by step, since the
layer calls the scheduler's own actions.  `QueueIsOwn` (the queue is empty but for the request
of the running pass) and `PassSoFar` (what the pass has made resident, what it holds and what it has still
to give up) are inductive on top of them.  `CanStillCancel` is inductive itself, together with
`Ids` (the id of a handle belongs to a request for its key) and `PrefetchFrame`; `StaleSoFar` says that a
transfer for a layer up to the last one reported is cancelled, and that none of the
keys still to be visited is for such a layer; a callback that raises visits none of them, and the layer a
client goes on with is the next one (`NextLayerFacts`).  `HeldInv` counts what a pass keeps alive: each visit
of an expert may evict one that the pass holds, which then counts beside the tier, but the first
visit finds nothing held; that is the one less than the routing in `GpuCopiesBounded`.  It needs the GPU tier
to be within its slots, hence not ARC.  `EngineOfScheduler` is what carries `CopiesOwned` and the limit
on transfers over to prefetching: a step of the engine is a step of the scheduler, leaves its handles and the stream
alone, or marks handles as cancelled, which keep their slots.  `FaultFreePasses` rests on `Quiet`: without
prefetches nothing is in flight and the stream is empty whenever a pass submits, so there is a slot to take.

*Inference engine.*  `StackInv` follows the construction; `TextInv` says, at each step of a pass, what
each layer has seen: the layers before `at` the text with the tokens fed, the others without, all at positions from
zero on; the failed calls before need not be remembered, since prefill replaces the cache.  `Shape`, for
`EngineTypes`, follows a stack that may hold layers twice: it says only which steps find a stack, how long it is
at least, and where in it a pass can be.

*Metrics.*  A reporter thread that is alive is the one `_thread` names, which gives `OneReporter` and
shows why a `start` cannot clear an event that a living thread has not seen.  `CollectorInv` says that the counters
are `before` with the writes made so far of the method that holds the lock.

*Store.*  `CopiedSoFar`: while a process copies, what it is past is whole; `LoadedSoFar` the same for RAM.

*Pools.*  `BudgetInv`: what is counted is the sum of what the pools hold.  A reservation adds a member to the domain
of a function and a release takes one out, so the sum must not depend on the order in which the fold visits the
domain.  The library's induction theorems cannot be used for that (they take an operator as a
parameter); instead a smallest set that breaks the claim is taken (`SmallestSet`, from the well-foundedness
of proper inclusion on finite sets) and shown not to break it.

The finite-set, function and sequence facts come from the TLAPS library.

### Only model-checked

* Liveness, which is beyond the installed provers: `TransfersEnd`, `CallEnds`, `KeepsReporting`,
  `StopEnds`, `Resumes`.

Every other property of a passing run is stated by a theorem.  Two things are not stated at all.
`TransferLifecycle` of the layers with prefetching: `OnLayerComplete` cancels several transfers in one step, where a
step of `AsyncTransfer` concerns one.  `FaultFreePass` with prefetching: it is false (`LayerPrefetchDemand`).

## 7. What is not modelled

* The arithmetic of experts, attention and router weights, and NF4 decoding (a step that may raise):
  tensors, with no state of their own.
* The checkpoint index and the reading of tensors in the loader; of the loader, the model has where an
  expert comes from and what happens to a file that was cut off.
* The bandwidth monitor: statistics over a window of clock readings on which nothing in the
  system decides.
* Configuration and logging: read once at start.
* The benchmark and experiment scripts but for the preparation of the store: they drive the components
  modelled here and keep no state of their own.
* A store whose sources change between two preparations: a local file of the same size is kept
  (`expert_store_bootstrap.py:66`), so it would be stale.  The sources are read-only.
* A clock that stands still: two requests with the same priority and time are compared as
  dataclasses, which raises (`scheduler.py:147`); the model takes times to be distinct.

What could follow: the window of the bandwidth monitor as a pure algorithm; an abstract specification of the
transfers that lets several be cancelled at once, which the layers with prefetching would implement; the ARC
lists under faults, once the repository says what they should be then.
