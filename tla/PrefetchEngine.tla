--------------------------- MODULE PrefetchEngine ---------------------------
(***************************************************************************)
(* PrefetchEngine of engine/prefetch.py as the client of the scheduler     *)
(* beside the layers: when a layer has completed, prefetches for layers    *)
(* that have passed are cancelled, and the experts this layer used are     *)
(* requested for the layers ahead.  The loop that runs the layers in order *)
(* and polls the transfers between them is external: it is the client the  *)
(* docstring of on_layer_complete describes.  An exception of a callback   *)
(* or a poll reaches that client, which may go on all the same.  One       *)
(* thread runs it all, so only the GPU moves between the steps.            *)
(***************************************************************************)
EXTENDS MoELayer

CONSTANTS
    PrefetchPolicy,  \* policy
    Depth            \* depth

\* Request ids are unique (uuid4), and there is one more for every expert.
ASSUME PrefetchAssumption ==
    /\ PrefetchPolicy \in {"none", "next_layer", "lookahead"}
    /\ Depth \in Nat
    /\ IsFiniteSet(Layer) /\ Layer # {} /\ Layer = 0 .. Cardinality(Layer) - 1
    /\ \A r, q \in Request : r.id = q.id => r.key = q.key
    /\ \A k \in Expert : \E r, q \in Request :
            /\ r.key = k /\ r.priority = 2
            /\ q.key = k /\ q.priority = 2
            /\ r.id # q.id

VARIABLES
    remembered,  \* _in_flight: the request id of each key in its domain
    call,        \* where on_layer_complete is; "failed" when the last call of
                 \* the client between the passes raised
    wanted       \* the keys schedule_prefetch has still to visit

prefetchVars == <<remembered, call, wanted>>
engineVars == <<allVars, prefetchVars>>

PrefetchTypeOK ==
    /\ LayerTypeOK
    /\ DOMAIN remembered \subseteq Expert
    /\ \A k \in DOMAIN remembered :
          \E r \in Request : r.key = k /\ r.id = remembered[k]
    /\ call \in {"idle", "due", "submit", "failed"}
    /\ call # "idle" => phase = "idle"
    /\ call \in {"due", "submit"} => ~ raised
    /\ wanted # {} => call = "submit"

-----------------------------------------------------------------------------
PrefetchInit ==
    /\ LayerInit
    /\ layer = Max(Layer)
    /\ remembered = << >>
    /\ call = "idle"
    /\ wanted = {}

\* Layers run in order.  A pass that raised ends the run it belongs to; when a
\* callback or a poll raised, the client goes on or begins a new run.
NextLayers ==
    LET next == (layer + 1) % Cardinality(Layer) IN
    IF raised THEN {0} ELSE IF call = "failed" THEN {0, next} ELSE {next}

StartLayer(experts) ==
    /\ call \in {"idle", "failed"}
    /\ \E l \in NextLayers : Route(l, experts)
    /\ call' = "idle"
    /\ UNCHANGED <<remembered, wanted>>

\* A layer that has completed is reported.
LayerStep ==
    /\ Step
    /\ call' = IF phase = "release" /\ phase' = "idle" /\ ~ raised THEN "due" ELSE call
    /\ UNCHANGED <<remembered, wanted>>

\* Mutant: the layer that has just completed is not stale.
StaleBefore(k) == k[1] < layer

\* The keys cancel_stale(layer + 1) drops.
Stale(k) == k[1] < layer + 1

\* target_layers
Targets ==
    CASE PrefetchPolicy = "none"       -> {}
      [] PrefetchPolicy = "next_layer" -> {layer + 1}
      [] PrefetchPolicy = "lookahead"  -> layer + 1 .. layer + Depth

\* Mutant: the bookkeeping is dropped, the transfers are not cancelled.
OnLayerCompleteForgets ==
    /\ call = "due"
    /\ remembered' = Restrict(remembered, {k \in DOMAIN remembered : ~ Stale(k)})
    /\ wanted' = Targets \X routed
    /\ call' = "submit"
    /\ UNCHANGED allVars

\* on_layer_complete up to the loop of schedule_prefetch: what is remembered
\* for a stale key is forgotten, and cancelled when it is still in flight.
OnLayerComplete ==
    /\ call = "due"
    /\ remembered' = Restrict(remembered, {k \in DOMAIN remembered : ~ Stale(k)})
    /\ handles' = [k \in InFlight |->
            IF k \in DOMAIN remembered /\ Stale(k) /\ handles[k].id = remembered[k]
            THEN [handles[k] EXCEPT !.status = "cancelled"]
            ELSE handles[k]]
    /\ wanted' = Targets \X routed
    /\ call' = "submit"
    /\ UNCHANGED <<cache, pool, stream, queue, layerVars>>

Precedes(j, k) == j[1] < k[1] \/ (j[1] = k[1] /\ j[2] < k[2])

FirstWanted == CHOOSE k \in wanted : \A j \in wanted : k = j \/ Precedes(k, j)

\* A request with an id nobody holds.
Fresh(k) == CHOOSE r \in Request :
    /\ r.key = k /\ r.priority = 2
    /\ r.id \notin {handles[h].id : h \in InFlight}

\* submit_async for a layer that does not exist: it has no CPU copy.
SubmitBeyond ==
    /\ pool' = IF Cardinality(InFlight) < MaxConcurrent /\ ~ Exhausted(pool, stream)
               THEN Release(Acquire(pool, stream), AcquiredSlot(pool, stream))
               ELSE pool
    /\ UNCHANGED <<cache, stream, queue, handles, remembered>>

\* Only a transfer that is in flight now is remembered.
Remembers(k, r) ==
    IF k \in DOMAIN handles' /\ handles'[k].status = "in_flight"
    THEN remembered' = [j \in DOMAIN remembered \cup {k} |->
                           IF j = k THEN r.id ELSE remembered[j]]
    ELSE UNCHANGED remembered

\* _submit_if_needed
SubmitIfNeeded(k, fault) ==
    \/ /\ k \in DOMAIN remembered \cup OnGpu
       /\ UNCHANGED <<vars, remembered>>
    \/ /\ k \in Expert \ (DOMAIN remembered \cup OnGpu)
       /\ \/ SubmitAsync(Fresh(k), fault)
          \/ ~ Accepts(Fresh(k)) /\ UNCHANGED vars
       /\ Remembers(k, Fresh(k))
    \/ k \notin Expert /\ SubmitBeyond

\* submit_async raises for want of a pool, or while it stages or enqueues.
SubmitRaises(k, fault) ==
    /\ k \notin DOMAIN remembered \cup OnGpu \cup InFlight
    /\ Cardinality(InFlight) < MaxConcurrent
    /\ \/ PoolSlots = 0
       \/ fault \in {"stage", "copy"} /\ k \in OnCpu /\ ~ Exhausted(pool, stream)

\* One key of schedule_prefetch.  What submit_async raises nobody catches: the
\* keys that are left are dropped and on_layer_complete raises to its client.
SchedulePrefetch(fault) ==
    /\ call = "submit"
    /\ wanted # {}
    /\ SubmitIfNeeded(FirstWanted, fault)
    /\ IF SubmitRaises(FirstWanted, fault)
       THEN wanted' = {} /\ call' = "failed"
       ELSE wanted' = wanted \ {FirstWanted} /\ UNCHANGED call
    /\ UNCHANGED layerVars

CallbackReturns ==
    /\ call = "submit"
    /\ wanted = {}
    /\ call' = "idle"
    /\ UNCHANGED <<remembered, wanted, allVars>>

Callback ==
    \/ OnLayerComplete
    \/ \E fault \in Faults \cup {"none"} : SchedulePrefetch(fault)
    \/ CallbackReturns

\* poll_async raises when the reconstruction of a transfer that is wanted did.
PollRaises(k, fault) == fault = "reconstruct" /\ handles[k].status # "cancelled"

Poll ==
    /\ phase = "idle" /\ call \in {"idle", "failed"}
    /\ \E k \in Expert, fault \in Faults \cup {"none"} :
          /\ PollAsync(k, fault)
          /\ call' = IF PollRaises(k, fault) THEN "failed" ELSE call
    /\ UNCHANGED <<layerVars, remembered, wanted>>

PrefetchNext ==
    \/ \E experts \in Selections : StartLayer(experts)
    \/ LayerStep
    \/ Callback
    \/ Poll
    \/ GpuStep /\ UNCHANGED <<layerVars, prefetchVars>>

PrefetchSpec == PrefetchInit /\ [][PrefetchNext]_engineVars

-----------------------------------------------------------------------------
(***************************************************************************)
(* Properties                                                              *)
(***************************************************************************)

\* Every transfer that is still wanted can be cancelled by its id: although
\* the engine drops and replaces its ids on its own, and the scheduler ends,
\* refuses and merges transfers on its own, no transfer in flight is one the
\* engine has forgotten or knows by another id (prefetch.py:95-97).
CanStillCancel ==
    \A k \in InFlight : handles[k].status = "in_flight" =>
        k \in DOMAIN remembered /\ remembered[k] = handles[k].id

\* Once a layer has been reported, no transfer for it or an earlier layer
\* will be published (prefetch.py:250-251).
NothingStale ==
    (phase = "idle" /\ call # "due" /\ ~ raised) =>
        \A k \in InFlight : k[1] <= layer => handles[k].status = "cancelled"
=============================================================================
