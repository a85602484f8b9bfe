------------------------- MODULE TransferScheduler -------------------------
(***************************************************************************)
(* TransferScheduler of transfer/scheduler.py with the cache, the staging  *)
(* pool and the CUDA stream it drives.                                     *)
(*                                                                         *)
(* The Python side is one thread, so each method is one action; what runs  *)
(* beside it is the GPU, which takes the operations of the stream one at a *)
(* time.  _heap holds the requests of _queue, and the pop order depends    *)
(* only on that set, so the queue stands for both.  _in_flight is empty    *)
(* between calls.  An exception is an outcome of a call: a "fault" names   *)
(* the place it comes from.                                                *)
(***************************************************************************)
EXTENDS ExpertCache, FiniteSets

CONSTANTS
    PoolSlots,      \* staging slots that fit the pinned budget, 0 for no pool
    NoExpert,
    MaxConcurrent,  \* max_concurrent
    Request,        \* the requests clients submit
    Faults,         \* places an exception may come from
    MaxStream       \* bound: length of the stream when a copy may fail

Direction == {"cpu_to_gpu", "gpu_to_cpu"}

\* Sort keys are distinct: issued_at is read from the monotonic clock.
ASSUME SchedulerAssumption ==
    /\ PoolSlots \in Nat
    /\ NoExpert \notin Expert
    /\ MaxConcurrent \in Nat \ {0}
    /\ MaxStream \in Nat
    /\ Faults \subseteq {"stage", "copy", "reconstruct"}
    /\ \A r \in Request :
            /\ r.key \in Expert
            /\ r.direction \in Direction
            /\ r.priority \in 0 .. 2
            /\ r.issued_at \in Nat
    /\ \A r, q \in Request :
            (r.priority = q.priority /\ r.issued_at = q.issued_at) => r = q

INSTANCE Staging

VARIABLES
    cache,      \* the CacheManager
    pool,       \* _staging_pool
    stream,     \* _transfer_stream
    queue,      \* _queue
    handles     \* _async_in_flight: the handle of each key in its domain

vars == <<cache, pool, stream, queue, handles>>

Handle == [id        : {r.id : r \in Request},
           slot      : 1 .. PoolSlots,
           status    : {"in_flight", "cancelled"},
           gpu_state : Expert \cup {NoExpert}]

InFlight == DOMAIN handles

OnGpu == Resident(cache, "gpu")
OnCpu == Resident(cache, "cpu")

-----------------------------------------------------------------------------
Init ==
    /\ cache = EmptyCache
    /\ pool = << >>
    /\ stream = << >>
    /\ queue = << >>
    /\ handles = << >>

(***************************************************************************)
(* The GPU                                                                 *)
(***************************************************************************)

\* The GPU states of the handles once the copies ops of the stream are done.
Copied(ops) ==
    [k \in InFlight |->
        IF \E i \in DOMAIN ops : ops[i].op = "copy" /\ ops[i].handle = k
        THEN [handles[k] EXCEPT !.gpu_state = pool[handles[k].slot].holds]
        ELSE handles[k]]

GpuStep ==
    /\ stream # << >>
    /\ stream' = Tail(stream)
    /\ handles' = Copied(<<Head(stream)>>)
    /\ UNCHANGED <<cache, pool, queue>>

\* A transfer that fails while it enqueues its copies leaves them pending, so
\* only the bound of the model keeps such failures from piling up.
InBounds(fault) == fault = "copy" => Len(stream) < MaxStream

(***************************************************************************)
(* Queued transfers                                                        *)
(***************************************************************************)

\* Mutant: only the request ids are compared.
IsDuplicateById(r) ==
    \/ \E q \in ToSet(queue) : q.id = r.id
    \/ r.key \in InFlight

IsDuplicate(r) ==
    \/ \E q \in ToSet(queue) :
            \/ q.id = r.id
            \/ q.key = r.key /\ q.direction = r.direction
    \/ r.key \in InFlight

Submit(r) ==
    /\ ~ IsDuplicate(r)
    /\ queue' = Append(queue, r)
    /\ UNCHANGED <<cache, pool, stream, handles>>

\* _sort_key: the order of the heap.
Before(r, q) ==
    \/ r.priority < q.priority
    \/ r.priority = q.priority /\ r.issued_at < q.issued_at

NextRequest == CHOOSE r \in ToSet(queue) :
                  \A q \in ToSet(queue) : r = q \/ Before(r, q)

Demotes(r) ==
    /\ cache' = CacheDemote(cache, r.key)
    /\ UNCHANGED <<pool, stream, handles>>

\* The CPU copy is missing or there is no slot: nothing was touched.
TransferRefused(r) ==
    /\ r.key \notin OnCpu \/ Exhausted(pool, stream)
    /\ UNCHANGED <<cache, pool, stream, handles>>

\* The slot is acquired, staged and released whatever happens in between;
\* synchronize completes everything that is pending on the stream.
TransferRuns(r, fault) ==
    /\ r.key \in OnCpu
    /\ ~ Exhausted(pool, stream)
    /\ LET s == AcquiredSlot(pool, stream)
           staged == Stage(Acquire(pool, stream), s,
                           IF fault = "stage" THEN NoExpert ELSE r.key)
       IN /\ pool' = Release(staged, s)
          /\ CASE fault = "stage" -> UNCHANGED <<stream, handles>>
               [] fault = "copy"  -> /\ stream' = Append(stream, Copy(s, NoExpert))
                                     /\ UNCHANGED handles
               [] OTHER           -> /\ stream' = << >>
                                     /\ handles' = Copied(stream)
    /\ cache' = IF fault = "none"
                THEN CachePut(cache, r.key, "cuda")
                ELSE cache

\* result.success of the request that is executed.
Succeeds(r, fault) ==
    IF r.direction = "gpu_to_cpu"
    THEN r.key \in OnGpu
    ELSE r.key \in OnCpu /\ ~ Exhausted(pool, stream) /\ fault = "none"

\* Mutant: a request that failed stays queued.
ExecuteNextRetains(fault) ==
    /\ queue # << >>
    /\ InBounds(fault)
    /\ queue' = IF Succeeds(NextRequest, fault)
                THEN RemoveFirst(queue, NextRequest)
                ELSE queue
    /\ IF NextRequest.direction = "gpu_to_cpu"
       THEN Demotes(NextRequest)
       ELSE TransferRefused(NextRequest) \/ TransferRuns(NextRequest, fault)

ExecuteNext(fault) ==
    /\ queue # << >>
    /\ InBounds(fault)
    /\ queue' = RemoveFirst(queue, NextRequest)
    /\ IF NextRequest.direction = "gpu_to_cpu"
       THEN Demotes(NextRequest)
       ELSE TransferRefused(NextRequest) \/ TransferRuns(NextRequest, fault)

(***************************************************************************)
(* Asynchronous transfers                                                  *)
(***************************************************************************)

\* What submit_async looks at before it acquires a slot; a request that
\* fails one of these gets a handle that is READY, the existing one or
\* REJECTED, and nothing changes.
Accepts(r) ==
    /\ r.direction = "cpu_to_gpu"
    /\ r.key \notin OnGpu
    /\ r.key \notin InFlight
    /\ Cardinality(InFlight) < MaxConcurrent
    /\ ~ Exhausted(pool, stream)

\* The copies are enqueued with an event behind them, or the call fails and
\* releases the slot.
SubmitAsync(r, fault) ==
    /\ Accepts(r)
    /\ InBounds(fault)
    /\ LET s == AcquiredSlot(pool, stream)
           acquired == Acquire(pool, stream)
       IN CASE r.key \notin OnCpu ->
                 /\ pool' = Release(acquired, s)
                 /\ UNCHANGED <<stream, handles>>
            [] r.key \in OnCpu /\ fault = "stage" ->
                 /\ pool' = Release(Stage(acquired, s, NoExpert), s)
                 /\ UNCHANGED <<stream, handles>>
            [] r.key \in OnCpu /\ fault = "copy" ->
                 /\ pool' = Release(Stage(acquired, s, r.key), s)
                 /\ stream' = Append(stream, Copy(s, NoExpert))
                 /\ UNCHANGED handles
            [] OTHER ->
                 /\ pool' = Stage(acquired, s, r.key)
                 /\ stream' = stream \o <<Copy(s, r.key), HandleEvent(r.key)>>
                 /\ handles' = [k \in InFlight \cup {r.key} |->
                                   IF k = r.key
                                   THEN [id |-> r.id, slot |-> s,
                                         status |-> "in_flight",
                                         gpu_state |-> NoExpert]
                                   ELSE handles[k]]
    /\ UNCHANGED <<cache, queue>>

Forget(k) == handles' = [h \in InFlight \ {k} |-> handles[h]]

\* The end of a transfer whose copies are done: an event is left on the slot.
Finishes(k) ==
    /\ pool' = Release(MarkEvent(pool, handles[k].slot), handles[k].slot)
    /\ stream' = Append(stream, SlotEvent(handles[k].slot))
    /\ Forget(k)

\* Mutants: a cancelled transfer is not collected, or is published.
DiscardsNothing(k) ==
    /\ handles[k].status = "cancelled"
    /\ UNCHANGED <<cache, pool, stream, handles>>

PublishesAnyway(k) ==
    /\ cache' = CachePut(cache, k, "cuda")
    /\ Finishes(k)

Discards(k) ==
    /\ handles[k].status = "cancelled"
    /\ Finishes(k)
    /\ UNCHANGED cache

Publishes(k) ==
    /\ handles[k].status # "cancelled"
    /\ cache' = CachePut(cache, k, "cuda")
    /\ Finishes(k)

\* The reconstruction raised: no event is left on the slot.
Loses(k) ==
    /\ handles[k].status # "cancelled"
    /\ pool' = Release(pool, handles[k].slot)
    /\ Forget(k)
    /\ UNCHANGED <<cache, stream>>

\* A poll that finds the handle's event pending changes nothing.
PollAsync(k, fault) ==
    /\ k \in InFlight
    /\ Done(stream, HandleEvent(k))
    /\ \/ Discards(k)
       \/ fault # "reconstruct" /\ Publishes(k)
       \/ fault = "reconstruct" /\ Loses(k)
    /\ UNCHANGED queue

\* A queued request is taken off the queue; failing that, an asynchronous
\* transfer in flight is marked, and finishes as cancelled.
Cancel(id) ==
    LET queued == {r \in ToSet(queue) : r.id = id}
        flying == {k \in InFlight : handles[k].id = id}
    IN IF queued # {}
       THEN /\ queue' = RemoveFirst(queue, CHOOSE r \in queued : TRUE)
            /\ UNCHANGED <<cache, pool, stream, handles>>
       ELSE \E k \in flying :
            /\ handles[k].status = "in_flight"
            /\ handles' = [handles EXCEPT ![k].status = "cancelled"]
            /\ UNCHANGED <<cache, pool, stream, queue>>

(***************************************************************************)
(* The other users of the cache: MoELayer loads a missing expert into the  *)
(* CPU tier, looks experts up, and gives up their GPU residency.           *)
(***************************************************************************)

Uses(next) == cache' = next /\ UNCHANGED <<pool, stream, queue, handles>>

Load(k) ==
    /\ k \notin OnGpu \cup OnCpu
    /\ Uses(CachePut(CacheGet(cache, k), k, "cpu"))

LookUp(k) == k \in OnGpu \cup OnCpu /\ Uses(CacheGet(cache, k))

GiveUp(k) == k \in OnGpu /\ Uses(CacheDemote(cache, k))

Next ==
    \/ GpuStep
    \/ \E r \in Request : Submit(r)
    \/ \E fault \in Faults \cup {"none"} :
          \/ ExecuteNext(fault)
          \/ \E r \in Request : SubmitAsync(r, fault)
          \/ \E k \in Expert : PollAsync(k, fault)
    \/ \E r \in Request : Cancel(r.id)
    \/ \E k \in Expert : Load(k) \/ LookUp(k) \/ GiveUp(k)

Spec == Init /\ [][Next]_vars

\* A client that polls what it submitted, and a GPU that works through its
\* stream.
Polled ==
    /\ Spec
    /\ WF_vars(GpuStep)
    /\ \A k \in Expert :
          WF_vars(\E fault \in Faults \cup {"none"} : PollAsync(k, fault))

-----------------------------------------------------------------------------
(***************************************************************************)
(* Properties                                                              *)
(***************************************************************************)

TypeOK ==
    /\ IsCache(cache)
    /\ pool \in Seq(Slot) /\ Len(pool) <= PoolSlots
    /\ stream \in Seq(StreamOp)
    /\ queue \in Seq(Request)
    /\ InFlight \subseteq Expert /\ handles \in [InFlight -> Handle]

\* Between calls a slot is in use exactly when one handle owns it: no path of
\* a transfer, failed or cancelled ones included, leaks a slot, frees it
\* twice or frees the slot of another transfer.
SlotsOwned ==
    /\ {s \in DOMAIN pool : pool[s].in_use} = {handles[k].slot : k \in InFlight}
    /\ \A j, k \in InFlight : handles[j].slot = handles[k].slot => j = k

\* A slot is not handed out while the DMA of an earlier transfer still has to
\* read it (scheduler.py:7-9, reusable_staging.py:24-25).
NoReuseDuringDma ==
    \A i \in DOMAIN stream :
        stream[i].op = "copy" => stream[i].slot \notin ReusableSlots(pool, stream)

\* The GPU state of a finished transfer has the weights of its own expert,
\* although copies read their slot long after they are enqueued and slots are
\* reused: what poll_async publishes under a key is that expert.
OwnWeights ==
    \A k \in InFlight :
        Done(stream, HandleEvent(k)) => handles[k].gpu_state = k

\* No two queued requests move the same expert the same way, and no more than
\* max_concurrent asynchronous transfers are outstanding, cancelled ones
\* included.
Deduplicated ==
    /\ \A i, j \in DOMAIN queue :
            (/\ queue[i].key = queue[j].key
             /\ queue[i].direction = queue[j].direction) => i = j
    /\ Cardinality(InFlight) <= MaxConcurrent

Status(s) == {k \in InFlight : handles[k].status = s}

Lifecycle == INSTANCE AsyncTransfer WITH
    flying    <- Status("in_flight"),
    cancelled <- Status("cancelled"),
    onGpu     <- OnGpu

\* The scheduler implements AsyncTransfer: a cancelled transfer is collected
\* without being published, and is not restarted before that.
TransferLifecycle == Lifecycle!Spec

\* An accepted transfer is collected in the end, whether it completes, fails
\* or is cancelled, when its client polls it.
TransfersEnd == \A k \in Expert : k \in InFlight ~> k \notin InFlight
=============================================================================
