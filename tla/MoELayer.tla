------------------------------ MODULE MoELayer ------------------------------
(***************************************************************************)
(* The demand path: MoELayer._forward_tokens of model/moe_layer.py over    *)
(* the cache, the scheduler, the staging pool and the stream.              *)
(*                                                                         *)
(* A forward pass routes its tokens to a set of experts, makes each one    *)
(* resident in turn, computes, and gives up the experts that were not      *)
(* resident before, also when something raised.  The layers run in one     *)
(* thread, so a pass is a sequence of steps, one per call it makes;        *)
(* PrefetchEngine adds the GPU moving in between, and what happens between *)
(* the passes.                                                             *)
(***************************************************************************)
EXTENDS TransferScheduler

CONSTANTS
    Layer,       \* layer_id of each MoELayer
    ExpertId,    \* the experts of a layer
    TopK,        \* num_experts_per_tok
    MaxTokens,   \* bound on the tokens of a pass
    LayerFaults  \* what may raise in a layer: "load", "compute"

ASSUME LayerAssumption ==
    /\ Expert = Layer \X ExpertId
    /\ ExpertId \subseteq Nat /\ IsFiniteSet(ExpertId)
    /\ TopK \in 1 .. Cardinality(ExpertId)
    /\ MaxTokens \in Nat \ {0}
    /\ LayerFaults \subseteq {"load", "compute"}
    /\ \A k \in Expert : \E r \in Request :
          r.key = k /\ r.direction = "cpu_to_gpu" /\ r.priority = 0

VARIABLES
    phase,   \* where the pass is: see Phase
    layer,   \* the layer whose pass it is
    routed,  \* unique_expert_ids
    was,     \* the experts with was_gpu_resident
    todo,    \* the experts the loop of the phase still has to visit
    held,    \* gpu_experts: references to GPU experts the pass keeps alive
    raised   \* whether an exception is on its way out of the pass

layerVars == <<phase, layer, routed, was, todo, held, raised>>
allVars == <<vars, layerVars>>

Phase == {"idle", "look", "submit", "execute", "check", "compute", "release"}

Key(e) == <<layer, e>>

\* The expert the loop is at: the loops run over sorted ids.
Current == Min(todo)

\* The request of _ensure_expert_on_gpu.
DemandOf(k) == CHOOSE r \in Request :
    r.key = k /\ r.direction = "cpu_to_gpu" /\ r.priority = 0

LayerTypeOK ==
    /\ TypeOK
    /\ phase \in Phase
    /\ layer \in Layer
    /\ routed \subseteq ExpertId
    /\ was \subseteq routed
    /\ todo \subseteq routed
    /\ held \subseteq Expert
    /\ raised \in BOOLEAN
    /\ phase \in {"look", "submit", "execute", "check"} => todo # {}

-----------------------------------------------------------------------------
LayerInit ==
    /\ Init
    /\ phase = "idle"
    /\ layer \in Layer
    /\ routed = {}
    /\ was = {}
    /\ todo = {}
    /\ held = {}
    /\ raised = FALSE

\* The unique ids among the experts route may give to the tokens of a pass:
\* each token has its own TopK of them, whatever the weights of the gate.
Selections ==
    {experts \in SUBSET ExpertId : Cardinality(experts) \in TopK .. TopK * MaxTokens}

\* _forward_tokens up to the snapshot of residency.
Route(l, experts) ==
    /\ phase = "idle"
    /\ phase' = "look"
    /\ layer' = l
    /\ routed' = experts
    /\ was' = {e \in experts : <<l, e>> \in OnGpu}
    /\ todo' = experts
    /\ held' = {}
    /\ raised' = FALSE
    /\ UNCHANGED vars

\* Mutant: an exception skips the finally block.
RaiseWithoutFinally ==
    /\ phase' = "release"
    /\ todo' = {}
    /\ raised' = TRUE
    /\ UNCHANGED <<layer, routed, was, held>>

\* An exception ends the loop; the finally block visits the experts that
\* were not resident before.
Raise ==
    /\ phase' = "release"
    /\ todo' = routed \ was
    /\ raised' = TRUE
    /\ UNCHANGED <<layer, routed, was, held>>

\* Mutant: the loop goes on past the last expert.
EnsuredGoesOn ==
    /\ held' = held \cup {Key(Current)}
    /\ todo' = todo \ {Current}
    /\ phase' = "look"
    /\ UNCHANGED <<layer, routed, was, raised>>

\* The current expert is resident: the loop goes on, or computes.
Ensured ==
    /\ held' = held \cup {Key(Current)}
    /\ todo' = todo \ {Current}
    /\ phase' = IF todo = {Current} THEN "compute" ELSE "look"
    /\ UNCHANGED <<layer, routed, was, raised>>

GoesTo(p) ==
    /\ phase' = p
    /\ UNCHANGED <<layer, routed, was, todo, held, raised>>

\* get; a miss loads the expert from the store into the CPU tier.
Look ==
    /\ phase = "look"
    /\ LET k == Key(Current) IN
       \/ k \in OnGpu /\ Uses(CacheGet(cache, k)) /\ Ensured
       \/ k \notin OnGpu /\ k \in OnCpu /\ Uses(CacheGet(cache, k)) /\ GoesTo("submit")
       \/ Load(k) /\ GoesTo("submit")
       \/ /\ "load" \in LayerFaults
          /\ k \notin OnGpu \cup OnCpu
          /\ Uses(CacheGet(cache, k))
          /\ Raise

SubmitDemand ==
    /\ phase = "submit"
    /\ LET r == DemandOf(Key(Current)) IN
       \/ Submit(r) /\ GoesTo("execute")
       \/ IsDuplicate(r) /\ Raise /\ UNCHANGED vars

\* execute_next runs whatever is first in the queue.
Execute(fault) ==
    /\ phase = "execute"
    /\ ExecuteNext(fault)
    /\ IF Succeeds(NextRequest, fault) THEN GoesTo("check") ELSE Raise

\* The get after the transfer.
Check ==
    /\ phase = "check"
    /\ Uses(CacheGet(cache, Key(Current)))
    /\ IF Key(Current) \in OnGpu THEN Ensured ELSE Raise

Compute ==
    /\ phase = "compute"
    /\ phase' = "release"
    /\ todo' = routed \ was
    /\ \/ raised' = FALSE
       \/ "compute" \in LayerFaults /\ raised' = TRUE
    /\ UNCHANGED <<layer, routed, was, held>>
    /\ UNCHANGED vars

\* The finally block, one demotion at a time, and the return.
ReleaseOne ==
    /\ phase = "release"
    /\ todo # {}
    /\ Uses(CacheDemote(cache, Key(Current)))
    /\ todo' = todo \ {Current}
    /\ UNCHANGED <<phase, layer, routed, was, held, raised>>

\* Mutant: the references survive the pass.
ReturnKeepsHeld ==
    /\ phase = "release"
    /\ todo = {}
    /\ phase' = "idle"
    /\ UNCHANGED <<layer, routed, was, todo, held, raised>>
    /\ UNCHANGED vars

Return ==
    /\ phase = "release"
    /\ todo = {}
    /\ phase' = "idle"
    /\ held' = {}
    /\ UNCHANGED <<layer, routed, was, todo, raised>>
    /\ UNCHANGED vars

Step ==
    \/ Look
    \/ SubmitDemand
    \/ \E fault \in Faults \cup {"none"} : Execute(fault)
    \/ Check
    \/ Compute
    \/ ReleaseOne
    \/ Return

\* Passes alone, in any order of layers.  The GPU takes no step of its own
\* here: unless a copy fails, execute_next has emptied the stream when it
\* returns.  PrefetchEngine has transfers that outlast the call.
LayerNext ==
    \/ \E l \in Layer, experts \in Selections : Route(l, experts)
    \/ Step

LayerSpec == LayerInit /\ [][LayerNext]_allVars

-----------------------------------------------------------------------------
(***************************************************************************)
(* Properties                                                              *)
(***************************************************************************)

\* A pass leaves nothing behind, however it ends: when it returns, no expert
\* it brought to the GPU is resident, nothing it submitted is queued, and no
\* slot is in use for it.
NothingLeftBehind ==
    (phase = "release" /\ todo = {}) =>
        /\ \A e \in routed \ was : Key(e) \notin OnGpu
        /\ queue = << >>
        /\ \A s \in DOMAIN pool :
                pool[s].in_use => \E k \in InFlight : handles[k].slot = s

\* Evicting an expert that the pass holds frees no memory, so gpu_slots does
\* not bound the experts on the GPU.  Yet a pass goes beyond it by one less
\* than the experts it routes to, however evictions, prefetches and failures
\* come together, and none of it outlasts the pass (moe_layer.py:163-164).
\* Transfers in flight come on top, up to max_concurrent: see Deduplicated.
GpuCopiesBounded ==
    Cardinality(OnGpu \cup held) <=
        AtLeast1(GpuSlots) + IF phase = "idle" THEN 0 ELSE Cardinality(routed) - 1

\* The pass executes its own request and no other: the queue holds exactly
\* that request when execute_next is called.
ExecutesOwn ==
    phase = "execute" => NextRequest = DemandOf(Key(Current)) /\ Len(queue) = 1

\* Nothing raises in a pass in which loading, transfers and computation work,
\* however small the two tiers are (moe_layer.py:43).
FaultFreePass == ~ raised

\* Under ARC with passes as the only client of the cache: a key is at most
\* once in the four lists of its tier, and p is a target size of T1.
ArcListsDisjoint ==
    \A t \in Tier : LET arc == cache.arc[t] IN
        /\ IsInjective(arc.t1 \o arc.t2 \o arc.b1 \o arc.b2)
        /\ arc.p <= SlotsOf(t)

\* The CPU tier keeps within its slots under ARC too, because every put into
\* it follows a miss that gives choose_evict something to choose.
CpuWithinSlots == Len(cache.order["cpu"]) <= AtLeast1(CpuSlots)

\* Every eviction adds a ghost and only a miss cuts the ghost lists back, yet
\* they hold at most one entry more than the max_slots they are said to be
\* capped at (manager.py:15-16): no layer evicts twice between two misses.
GhostsBounded ==
    \A t \in Tier : /\ Len(cache.arc[t].b1) <= SlotsOf(t) + 1
                    /\ Len(cache.arc[t].b2) <= SlotsOf(t) + 1
=============================================================================
