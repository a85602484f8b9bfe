----------------------- MODULE PrefetchEngine_proofs -----------------------
(***************************************************************************)
(* Proofs about the layers and the prefetch engine over the scheduler, for *)
(* any layers, experts, selections and faults.                             *)
(***************************************************************************)
EXTENDS PrefetchEngine, TransferScheduler_proofs

-----------------------------------------------------------------------------
(***************************************************************************)
(* The passes                                                              *)
(***************************************************************************)

\* The types of what a pass keeps.
Frame ==
    /\ phase \in Phase
    /\ layer \in Layer
    /\ routed \subseteq ExpertId
    /\ was \subseteq routed
    /\ todo \subseteq routed
    /\ held \subseteq Expert
    /\ raised \in BOOLEAN
    /\ phase \in {"look", "submit", "execute", "check"} => todo # {}

\* The queue is empty but for the request of the pass, while it has one.
QueueIsOwn ==
    queue = IF phase = "execute" THEN <<DemandOf(Key(Current))>> ELSE << >>

\* What the pass holds, and what it has given up.
PassSoFar ==
    /\ phase \in {"look", "submit", "execute", "check"} =>
            held = {Key(e) : e \in routed \ todo}
    /\ phase = "release" => \A e \in (routed \ was) \ todo : Key(e) \notin OnGpu

LayerInv == SchedulerInv /\ Supplied /\ Frame /\ QueueIsOwn /\ PassSoFar

\* The loops of a pass are at one of the experts they still have to visit.
LEMMA CurrentFacts ==
    ASSUME Frame, todo # {}
    PROVE  Current \in todo /\ Key(Current) \in Expert
<1>1. todo \in SUBSET Nat
  BY LayerAssumption DEF Frame
<1>2. Current \in todo
  BY <1>1, MinIsLeast DEF Current
<1>. QED  BY <1>2, LayerAssumption DEF Frame, Key

LEMMA DemandFacts ==
    ASSUME NEW k \in Expert
    PROVE  DemandOf(k) \in Request /\ DemandOf(k).key = k
  BY LayerAssumption DEF DemandOf

\* Calls that only change the cache.
LEMMA UsesKeep ==
    ASSUME SchedulerInv, Supplied, NEW c, IsCache(c), Uses(c)
    PROVE  SchedulerInv' /\ Supplied'
<1>1. stream \in Seq(StreamOp) /\ queue \in Seq(Request)
  BY DEF SchedulerInv, TypeOK
<1>2. SchedulerInv'
  BY <1>1, UsersKeep DEF Uses
<1>3. Supplied'
  BY SuppliedStays DEF Uses, InFlight
<1>. QED  BY <1>2, <1>3

LEMMA StutterKeeps ==
    ASSUME SchedulerInv, Supplied, UNCHANGED vars
    PROVE  SchedulerInv' /\ Supplied'
  BY StepKeeps, SuppliedStep

LEMMA NextKeeps ==
    ASSUME SchedulerInv, Supplied, Next
    PROVE  SchedulerInv' /\ Supplied'
  BY StepKeeps, SuppliedStep

\* A step of a pass keeps what the scheduler keeps.
LEMMA StepScheduler ==
    ASSUME LayerInv, Step
    PROVE  SchedulerInv' /\ Supplied'
<1>0. SchedulerInv /\ Supplied /\ IsCache(cache)
  BY DEF LayerInv, SchedulerInv, TypeOK
<1>1. ASSUME todo # {}
      PROVE  /\ Key(Current) \in Expert
             /\ IsCache(CacheGet(cache, Key(Current)))
             /\ IsCache(CacheDemote(cache, Key(Current)))
  BY <1>0, <1>1, CurrentFacts, CacheStays DEF LayerInv
<1>2. CASE Look
  <2>1. todo # {}
    BY <1>2 DEF LayerInv, Frame, Look
  <2>2. CASE Uses(CacheGet(cache, Key(Current)))
    BY <1>0, <1>1, <2>1, <2>2, UsesKeep
  <2>3. CASE Load(Key(Current))
    BY <1>0, <1>1, <2>1, <2>3, NextKeeps DEF Next
  <2>. QED  BY <1>2, <2>2, <2>3 DEF Look
<1>3. CASE SubmitDemand
  <2>1. todo # {}
    BY <1>3 DEF LayerInv, Frame, SubmitDemand
  <2>2. DemandOf(Key(Current)) \in Request
    BY <1>1, <2>1, DemandFacts
  <2>3. CASE Submit(DemandOf(Key(Current)))
    BY <1>0, <2>2, <2>3, NextKeeps DEF Next
  <2>. QED  BY <1>0, <1>3, <2>3, StutterKeeps DEF SubmitDemand
<1>4. ASSUME NEW fault \in Faults \cup {"none"}, Execute(fault)
      PROVE  SchedulerInv' /\ Supplied'
  BY <1>0, <1>4, NextKeeps DEF Next, Execute
<1>5. CASE Check
  <2>1. todo # {}
    BY <1>5 DEF LayerInv, Frame, Check
  <2>. QED  BY <1>0, <1>1, <1>5, <2>1, UsesKeep DEF Check
<1>6. CASE Compute
  BY <1>0, <1>6, StutterKeeps DEF Compute
<1>7. CASE ReleaseOne
  BY <1>0, <1>1, <1>7, UsesKeep DEF ReleaseOne
<1>8. CASE Return
  BY <1>0, <1>8, StutterKeeps DEF Return
<1>. QED  BY <1>2, <1>3, <1>4, <1>5, <1>6, <1>7, <1>8 DEF Step

\* The endings of a visit: an exception, or an expert that is resident.
LEMMA RaiseKeeps ==
    ASSUME Frame, Raise, queue' = << >>
    PROVE  Frame' /\ QueueIsOwn' /\ PassSoFar'
  BY DEF Frame, Phase, QueueIsOwn, PassSoFar, Raise

LEMMA EnsuredKeeps ==
    ASSUME Frame, Ensured, todo # {}, held = {Key(e) : e \in routed \ todo}, queue' = << >>
    PROVE  Frame' /\ QueueIsOwn' /\ PassSoFar'
<1>. DEFINE k == Current
<1>1. k \in todo /\ Key(k) \in Expert
  BY CurrentFacts
<1>. HIDE DEF k
<1>2. /\ held' = held \cup {Key(k)} /\ todo' = todo \ {k}
      /\ phase' = IF todo = {k} THEN "compute" ELSE "look"
      /\ UNCHANGED <<layer, routed, was, raised>>
  BY DEF Ensured, k
<1>3. \A e : Key(e)' = Key(e)
  BY <1>2 DEF Key
<1>4. Frame'
  BY <1>1, <1>2 DEF Frame, Phase
<1>5. held' = {Key(e) : e \in routed \ (todo \ {k})}
  BY <1>1, <1>2 DEF Frame
<1>6. held' = {Key(e)' : e \in routed' \ todo'}
  BY <1>2, <1>3, <1>5
<1>7. phase' \in {"compute", "look"}
  BY <1>2
<1>8. QueueIsOwn'
  BY <1>7 DEF QueueIsOwn
<1>9. PassSoFar'
  BY <1>6, <1>7 DEF PassSoFar
<1>. QED  BY <1>4, <1>8, <1>9

LEMMA GoesToKeeps ==
    ASSUME Frame, todo # {}, held = {Key(e) : e \in routed \ todo},
           NEW p \in {"submit", "execute", "check"}, GoesTo(p),
           queue' = IF p = "execute" THEN <<DemandOf(Key(Current))>> ELSE << >>
    PROVE  Frame' /\ QueueIsOwn' /\ PassSoFar'
<1>1. Frame'
  BY DEF Frame, Phase, GoesTo
<1>2. QueueIsOwn'
  BY DEF QueueIsOwn, GoesTo, Key, Current, DemandOf
<1>3. PassSoFar'
  BY DEF PassSoFar, GoesTo, Key
<1>. QED  BY <1>1, <1>2, <1>3

\* The queue of a pass: its request goes in and comes out.
LEMMA OwnRequest ==
    ASSUME NEW r \in Request
    PROVE  /\ Append(<< >>, r) = <<r>>
           /\ queue = <<r>> => NextRequest = r /\ Len(queue) = 1 /\ RemoveFirst(queue, r) = << >>
<1>1. ASSUME queue = <<r>> PROVE NextRequest = r
  <2>1. queue \in Seq(Request) /\ queue # << >> /\ DOMAIN queue = {1} /\ queue[1] = r
    BY <1>1
  <2>2. NextRequest \in ToSet(queue)
    BY <2>1, NextIsQueued
  <2>. QED  BY <2>1, <2>2 DEF ToSet
<1>2. ASSUME queue = <<r>> PROVE RemoveFirst(queue, r) = << >>
  <2>1. <<r>> \in Seq(Request) /\ Len(<<r>>) = 1 /\ <<r>>[1] = r
    OBVIOUS
  <2>2. Contains(<<r>>, r)
    BY <2>1 DEF Contains
  <2>3. /\ RemoveFirst(<<r>>, r) \in Seq(Request)
        /\ Len(RemoveFirst(<<r>>, r)) = Len(<<r>>) - 1
    BY <2>1, <2>2, RemoveFirstFacts
  <2>. HIDE DEF NextRequest
  <2>4. \A s \in Seq(Request) : Len(s) = 0 => s = << >>
    OBVIOUS
  <2>5. Len(RemoveFirst(<<r>>, r)) = 0
    BY <2>1, <2>3
  <2>. QED  BY <1>2, <2>3, <2>4, <2>5
<1>3. Append(<< >>, r) = <<r>>
  OBVIOUS
<1>. QED  BY <1>1, <1>2, <1>3

\* A step of a pass keeps what the pass keeps.
LEMMA StepPass ==
    ASSUME LayerInv, Step
    PROVE  Frame' /\ QueueIsOwn' /\ PassSoFar'
<1>0. Frame /\ QueueIsOwn /\ PassSoFar /\ SchedulerInv
  BY DEF LayerInv
<1>1. CASE Look
  <2>1. phase = "look" /\ todo # {} /\ queue = << >> /\ held = {Key(e) : e \in routed \ todo}
    BY <1>0, <1>1 DEF Look, Frame, QueueIsOwn, PassSoFar
  <2>2. queue' = queue
    BY <1>1 DEF Look, Load, Uses
  <2>3. CASE Ensured
    BY <1>0, <2>1, <2>2, <2>3, EnsuredKeeps
  <2>4. CASE GoesTo("submit")
    BY <1>0, <2>1, <2>2, <2>4, GoesToKeeps
  <2>5. CASE Raise
    BY <1>0, <2>1, <2>2, <2>5, RaiseKeeps
  <2>. QED  BY <1>1, <2>3, <2>4, <2>5 DEF Look
<1>2. CASE SubmitDemand
  <2>1. phase = "submit" /\ todo # {} /\ queue = << >> /\ held = {Key(e) : e \in routed \ todo}
    BY <1>0, <1>2 DEF SubmitDemand, Frame, QueueIsOwn, PassSoFar
  <2>. DEFINE r == DemandOf(Key(Current))
  <2>2. r \in Request
    BY <1>0, <2>1, CurrentFacts, DemandFacts
  <2>3. CASE Submit(r) /\ GoesTo("execute")
    <3>1. queue' = <<r>>
      BY <2>1, <2>2, <2>3, OwnRequest DEF Submit
    <3>. QED  BY <1>0, <2>1, <2>3, <3>1, GoesToKeeps
  <2>4. CASE Raise /\ UNCHANGED vars
    BY <1>0, <2>1, <2>4, RaiseKeeps DEF vars
  <2>. QED  BY <1>2, <2>3, <2>4 DEF SubmitDemand
<1>3. ASSUME NEW fault \in Faults \cup {"none"}, Execute(fault)
      PROVE  Frame' /\ QueueIsOwn' /\ PassSoFar'
  <2>. DEFINE r == DemandOf(Key(Current))
  <2>1. phase = "execute" /\ todo # {} /\ queue = <<r>> /\ held = {Key(e) : e \in routed \ todo}
    BY <1>0, <1>3 DEF Execute, Frame, QueueIsOwn, PassSoFar
  <2>2. r \in Request
    BY <1>0, <2>1, CurrentFacts, DemandFacts
  <2>3. queue' = << >>
    BY <1>3, <2>1, <2>2, OwnRequest DEF Execute, ExecuteNext
  <2>4. CASE GoesTo("check")
    BY <1>0, <2>1, <2>3, <2>4, GoesToKeeps
  <2>5. CASE Raise
    BY <1>0, <2>3, <2>5, RaiseKeeps
  <2>. QED  BY <1>3, <2>4, <2>5 DEF Execute
<1>4. CASE Check
  <2>1. phase = "check" /\ todo # {} /\ queue = << >> /\ held = {Key(e) : e \in routed \ todo}
    BY <1>0, <1>4 DEF Check, Frame, QueueIsOwn, PassSoFar
  <2>2. queue' = queue
    BY <1>4 DEF Check, Uses
  <2>3. CASE Ensured
    BY <1>0, <2>1, <2>2, <2>3, EnsuredKeeps
  <2>4. CASE Raise
    BY <1>0, <2>1, <2>2, <2>4, RaiseKeeps
  <2>. QED  BY <1>4, <2>3, <2>4 DEF Check
<1>5. CASE Compute
  <2>1. /\ queue' = << >> /\ phase' = "release" /\ todo' = routed \ was
        /\ raised' \in BOOLEAN /\ UNCHANGED <<layer, routed, was, held>>
    BY <1>0, <1>5 DEF Compute, QueueIsOwn, vars
  <2>. QED  BY <1>0, <2>1 DEF Frame, Phase, QueueIsOwn, PassSoFar
<1>6. CASE ReleaseOne
  <2>. DEFINE k == Current
  <2>1. k \in todo /\ Key(k) \in Expert
    BY <1>0, <1>6, CurrentFacts DEF ReleaseOne
  <2>2. /\ phase = "release" /\ cache' = CacheDemote(cache, Key(k)) /\ todo' = todo \ {k}
        /\ UNCHANGED <<phase, layer, routed, was, held, raised>> /\ queue' = queue
    BY <1>6 DEF ReleaseOne, Uses
  <2>. HIDE DEF k
  <2>3. OnGpu' = OnGpu \ {Key(k)}
    <3>1. IsCache(cache) /\ OnGpu' = Resident(cache', "gpu")
      BY <1>0 DEF SchedulerInv, TypeOK, OnGpu
    <3>2. CASE Key(k) \in Resident(cache, "gpu")
      BY <2>2, <3>1, <3>2, DemoteFacts DEF OnGpu
    <3>3. CASE Key(k) \notin Resident(cache, "gpu")
      BY <2>2, <3>1, <3>3 DEF CacheDemote, OnGpu
    <3>. QED  BY <3>2, <3>3
  <2>4. Frame'
    BY <1>0, <2>2 DEF Frame, Phase
  <2>5. QueueIsOwn'
    BY <1>0, <2>2 DEF QueueIsOwn
  <2>6. \A e \in ((routed \ was) \ todo)' : Key(e)' \notin OnGpu'
    BY <1>0, <2>2, <2>3 DEF PassSoFar, Key
  <2>7. PassSoFar'
    BY <2>2, <2>6 DEF PassSoFar
  <2>. QED  BY <2>4, <2>5, <2>7
<1>7. CASE Return
  BY <1>0, <1>7 DEF Return, Frame, Phase, QueueIsOwn, PassSoFar, vars
<1>. QED  BY <1>1, <1>2, <1>3, <1>4, <1>5, <1>6, <1>7 DEF Step

\* A pass starts with at least one expert.
LEMMA SelectionFacts ==
    ASSUME NEW experts \in Selections
    PROVE  experts \subseteq ExpertId /\ experts # {}
<1>1. experts \subseteq ExpertId /\ Cardinality(experts) \in TopK .. TopK * MaxTokens
  BY DEF Selections
<1>2. TopK \in Nat /\ TopK >= 1 /\ MaxTokens \in Nat
  BY LayerAssumption, FS_CardinalityType
<1>3. Cardinality(experts) # 0
  BY <1>1, <1>2
<1>. QED  BY <1>1, <1>3, FS_EmptySet

LEMMA RouteKeeps ==
    ASSUME LayerInv, NEW l \in Layer, NEW experts \in Selections, Route(l, experts)
    PROVE  LayerInv'
<1>1. experts \subseteq ExpertId /\ experts # {}
  BY SelectionFacts
<1>2. /\ phase = "idle" /\ phase' = "look" /\ layer' = l /\ routed' = experts
      /\ was' \subseteq experts /\ todo' = experts /\ held' = {} /\ raised' = FALSE
      /\ UNCHANGED vars
  BY DEF Route
<1>3. SchedulerInv' /\ Supplied'
  BY <1>2, StutterKeeps DEF LayerInv
<1>4. Frame' /\ QueueIsOwn'
  BY <1>1, <1>2 DEF LayerInv, Frame, Phase, QueueIsOwn, vars
<1>5. PassSoFar'
  BY <1>2 DEF PassSoFar
<1>. QED  BY <1>3, <1>4, <1>5 DEF LayerInv

LEMMA LayerStepKeeps ==
    ASSUME LayerInv, Step
    PROVE  LayerInv'
  BY StepScheduler, StepPass DEF LayerInv

\* What a pass shows to the engine: which layer it is, and when it returns.
LEMMA StepOutside ==
    ASSUME Frame, Step
    PROVE  /\ phase # "idle" /\ layer' = layer
           /\ phase' = "idle" => phase = "release" /\ raised' = raised
           /\ phase' \in Phase
  BY DEF Step, Look, SubmitDemand, Execute, Check, Compute, ReleaseOne, Return,
         Raise, Ensured, GoesTo, Phase, Frame

-----------------------------------------------------------------------------
(***************************************************************************)
(* The tiers during the passes.                                            *)
(***************************************************************************)

\* Where the key of a visit is: in the CPU tier until its transfer has run, in
\* the GPU tier afterwards.
VisitSoFar ==
    /\ phase \in {"submit", "execute"} => Key(Current) \in OnCpu
    /\ phase = "check" => Key(Current) \in OnGpu

\* The tiers a key is in after a get, a load or a demand transfer.
LEMMA VisitTiers ==
    ASSUME IsCache(cache), NEW k \in Expert
    PROVE  /\ Resident(CacheGet(cache, k), "cpu") = OnCpu
           /\ k \notin OnCpu => k \in Resident(CachePut(CacheGet(cache, k), k, "cpu"), "cpu")
<1>1. "cpu" \in Tier /\ "cpu" \in Device /\ TierOf("cpu") = "cpu"
  BY DEF Tier, Device, TierOf
<1>. DEFINE g == CacheGet(cache, k)
<1>2. IsCache(g) /\ Resident(g, "cpu") = OnCpu
  BY <1>1, GetFacts DEF OnCpu
<1>. HIDE DEF g
<1>3. ASSUME k \notin OnCpu PROVE k \in Resident(CachePut(g, k, "cpu"), "cpu")
  <2>. DEFINE d == CachePut(g, k, "cpu")
  <2>1. k \notin Resident(g, TierOf("cpu"))
    BY <1>1, <1>2, <1>3
  <2>2. \/ \E v \in Resident(g, TierOf("cpu")) :
              Resident(d, TierOf("cpu")) = (Resident(g, TierOf("cpu")) \ {v}) \cup {k}
        \/ Resident(d, TierOf("cpu")) = Resident(g, TierOf("cpu")) \cup {k}
    BY <1>1, <1>2, <2>1, PutFacts
  <2>. HIDE DEF d
  <2>. QED  BY <1>1, <2>2 DEF d
<1>. QED  BY <1>2, <1>3 DEF g

\* The request of a pass goes to the GPU.
LEMMA DemandIsIn ==
    ASSUME NEW k \in Expert
    PROVE  DemandOf(k).direction = "cpu_to_gpu"
  BY LayerAssumption DEF DemandOf

\* A demand transfer that succeeds brings the key of the visit to the GPU.
LEMMA TransferArrives ==
    ASSUME LayerInv, NEW fault, Execute(fault), phase' = "check"
    PROVE  /\ fault = "none"
           /\ cache' = CachePut(cache, Key(Current), "cuda")
           /\ Key(Current) \in OnGpu'
<1>. DEFINE k == Key(Current)
            r == DemandOf(k)
<1>0. /\ phase = "execute" /\ todo # {} /\ queue = <<r>> /\ IsCache(cache)
      /\ ExecuteNext(fault) /\ (~ Succeeds(NextRequest, fault) => Raise)
  BY DEF Execute, LayerInv, Frame, QueueIsOwn, SchedulerInv, TypeOK
<1>1. k \in Expert /\ r \in Request /\ r.key = k /\ r.direction = "cpu_to_gpu"
  BY <1>0, CurrentFacts, DemandFacts, DemandIsIn DEF LayerInv
<1>2. NextRequest = r
  BY <1>0, <1>1, OwnRequest
<1>3. Succeeds(r, fault)
  BY <1>0, <1>2 DEF Raise
<1>. HIDE DEF r, k
<1>4. k \in OnCpu /\ ~ Exhausted(pool, stream) /\ fault = "none"
  BY <1>1, <1>3 DEF Succeeds
<1>5. cache' = CachePut(cache, k, "cuda")
  <2>1. TransferRefused(r) \/ TransferRuns(r, fault)
    BY <1>0, <1>1, <1>2 DEF ExecuteNext
  <2>. QED  BY <1>1, <1>4, <2>1 DEF TransferRefused, TransferRuns
<1>6. k \in OnGpu'
  BY <1>0, <1>1, <1>5, GpuTier DEF OnGpu
<1>. QED  BY <1>4, <1>5, <1>6 DEF k

\* The steps of a pass find the key where they expect it.
LEMMA StepVisit ==
    ASSUME LayerInv, VisitSoFar, Step
    PROVE  VisitSoFar'
<1>0. IsCache(cache) /\ (todo # {} => Key(Current) \in Expert)
  BY CurrentFacts DEF LayerInv, SchedulerInv, TypeOK
<1>1. ASSUME NEW p, GoesTo(p) PROVE phase' = p /\ Key(Current)' = Key(Current)
  BY <1>1 DEF GoesTo, Key, Current
<1>2. ASSUME Ensured \/ Raise PROVE VisitSoFar'
  BY <1>2 DEF Ensured, Raise, VisitSoFar
<1>3. CASE Look
  <2>. DEFINE k == Key(Current)
  <2>1. k \in Expert
    BY <1>0, <1>3 DEF LayerInv, Frame, Look
  <2>. HIDE DEF k
  <2>2. CASE Uses(CacheGet(cache, k)) /\ k \in OnCpu /\ GoesTo("submit")
    BY <1>0, <1>1, <2>1, <2>2, VisitTiers DEF Uses, OnCpu, VisitSoFar, k
  <2>3. CASE Load(k) /\ GoesTo("submit")
    BY <1>0, <1>1, <2>1, <2>3, VisitTiers DEF Load, Uses, OnCpu, VisitSoFar, k
  <2>. QED  BY <1>2, <1>3, <2>2, <2>3 DEF Look, k
<1>4. CASE SubmitDemand
  <2>1. CASE Submit(DemandOf(Key(Current))) /\ GoesTo("execute")
    BY <1>1, <1>4, <2>1 DEF SubmitDemand, Submit, OnCpu, VisitSoFar
  <2>. QED  BY <1>2, <1>4, <2>1 DEF SubmitDemand
<1>5. ASSUME NEW fault \in Faults \cup {"none"}, Execute(fault) PROVE VisitSoFar'
  <2>1. CASE GoesTo("check")
    BY <1>1, <1>5, <2>1, TransferArrives DEF VisitSoFar
  <2>. QED  BY <1>2, <1>5, <2>1 DEF Execute
<1>6. CASE Check
  BY <1>2, <1>6 DEF Check
<1>7. CASE Compute
  BY <1>7 DEF Compute, VisitSoFar
<1>8. CASE ReleaseOne
  BY <1>8 DEF ReleaseOne, VisitSoFar
<1>9. CASE Return
  BY <1>9 DEF Return, VisitSoFar
<1>. QED  BY <1>3, <1>4, <1>5, <1>6, <1>7, <1>8, <1>9 DEF Step

\* A step of a pass changes the cache in one of the four ways, but for a load
\* that fails: then the miss is not followed by a put.
LEMMA StepChangesCache ==
    ASSUME LayerInv, VisitSoFar, Step
    PROVE  \/ CacheStep
           \/ /\ "load" \in LayerFaults
              /\ \E k \in Expert \ (OnGpu \cup OnCpu) : cache' = CacheGet(cache, k)
<1>0. SchedulerInv /\ (todo # {} => Key(Current) \in Expert)
  BY CurrentFacts DEF LayerInv
<1>1. CASE Look
  <2>1. Key(Current) \in Expert
    BY <1>0, <1>1 DEF LayerInv, Frame, Look
  <2>. QED  BY <1>1, <2>1 DEF Look, Load, Uses, CacheStep
<1>2. CASE SubmitDemand
  BY <1>2 DEF SubmitDemand, Submit, vars, CacheStep
<1>3. ASSUME NEW fault \in Faults \cup {"none"}, Execute(fault) PROVE CacheStep
  BY <1>0, <1>3, NextChangesCache DEF Execute, Next
<1>4. CASE Check
  BY <1>4 DEF Check, Uses, VisitSoFar, CacheStep
<1>5. CASE Compute
  BY <1>5 DEF Compute, vars, CacheStep
<1>6. CASE ReleaseOne
  BY <1>0, <1>6 DEF ReleaseOne, Uses, CacheStep
<1>7. CASE Return
  BY <1>7 DEF Return, vars, CacheStep
<1>. QED  BY <1>1, <1>2, <1>3, <1>4, <1>5, <1>6, <1>7 DEF Step

\* What the two specifications of passes keep of the cache.
CacheInv ==
    /\ VisitSoFar
    /\ Len(cache.order["cpu"]) <= AtLeast1(CpuSlots)
    /\ Policy # "arc" => Bounded(cache)
    /\ GhostsCapped(cache)
    /\ (Policy = "arc" /\ "load" \notin LayerFaults) => ArcOwned(cache)

\* A get changes no tier, so a miss alone does no harm to them, and it cuts the
\* ghost lists back.
LEMMA MissKeeps ==
    ASSUME IsCache(cache), NEW k \in Expert, cache' = CacheGet(cache, k)
    PROVE  /\ Len(cache'.order["cpu"]) = Len(cache.order["cpu"])
           /\ Bounded(cache) => Bounded(cache')
           /\ GhostsCapped(cache) => GhostsCapped(cache')
<1>1. \A u \in Tier : Len(cache'.order[u]) = Len(cache.order[u])
  BY GetFacts
<1>2. GhostsCapped(cache) => GhostsCapped(cache')
  <2>1. CASE Policy = "arc"   BY <2>1, CappedAfterGet
  <2>2. CASE Policy # "arc"   BY <2>2, ArcUntouched DEF GhostsCapped
  <2>. QED  BY <2>1, <2>2
<1>. QED  BY <1>1, <1>2 DEF Bounded, Tier

\* The steps of a pass keep it.
LEMMA StepCacheInv ==
    ASSUME LayerInv, CacheInv, Step
    PROVE  CacheInv'
<1>1. IsCache(cache) /\ VisitSoFar'
  BY StepVisit DEF CacheInv, LayerInv, SchedulerInv, TypeOK
<1>2. CASE CacheStep
  BY <1>1, <1>2, CacheStepWithin, CacheStepBounded, CacheStepCapped, CacheStepOwned
  DEF CacheInv
<1>3. CASE /\ "load" \in LayerFaults
           /\ \E k \in Expert \ (OnGpu \cup OnCpu) : cache' = CacheGet(cache, k)
  BY <1>1, <1>3, MissKeeps DEF CacheInv
<1>. QED  BY <1>2, <1>3, StepChangesCache DEF CacheInv

\* What happens outside a pass, or beside it, keeps it too.
LEMMA OutsideCacheInv ==
    ASSUME IsCache(cache), CacheInv, CacheStep,
           \/ phase' \in {"idle", "look"}
           \/ cache' = cache /\ UNCHANGED layerVars
    PROVE  CacheInv'
<1>1. VisitSoFar'
  BY DEF CacheInv, VisitSoFar, layerVars, Key, Current, OnCpu, OnGpu
<1>. QED  BY <1>1, CacheStepWithin, CacheStepBounded, CacheStepCapped, CacheStepOwned
  DEF CacheInv

LEMMA LayerInitHolds == LayerInit => LayerInv /\ CacheInv
<1>. SUFFICES ASSUME LayerInit PROVE LayerInv /\ CacheInv
  OBVIOUS
<1>1. /\ Init /\ phase = "idle" /\ layer \in Layer /\ routed = {} /\ was = {} /\ todo = {}
      /\ held = {} /\ raised = FALSE
  BY DEF LayerInit
<1>2. SchedulerInv /\ InFlight = {} /\ queue = << >> /\ cache = EmptyCache
  BY <1>1, InitHolds DEF Init, InFlight
<1>3. Supplied /\ Frame /\ QueueIsOwn /\ PassSoFar
  BY <1>1, <1>2 DEF Supplied, Frame, Phase, QueueIsOwn, PassSoFar
<1>4. VisitSoFar
  BY <1>1 DEF VisitSoFar
<1>5. \A t \in Tier : Len(cache.order[t]) = 0 /\ 0 <= AtLeast1(SlotsOf(t))
  <2>1. \A t \in Tier : AtLeast1(SlotsOf(t)) \in Nat
    BY AtLeast1Type, CacheAssumption DEF SlotsOf
  <2>. QED  BY <1>2, <2>1, EmptyFacts
<1>6. "cpu" \in Tier /\ SlotsOf("cpu") = CpuSlots
  BY DEF Tier, SlotsOf
<1>7. GhostsCapped(cache)
  <2>1. cache.arc["gpu"] = EmptyArc /\ cache.arc["cpu"] = EmptyArc
    BY <1>2 DEF EmptyCache, Tier
  <2>2. Len(EmptyArc.b1) = 0 /\ Len(EmptyArc.b2) = 0
    BY DEF EmptyArc
  <2>. QED  BY <2>1, <2>2, CacheAssumption DEF GhostsCapped
<1>8. CacheInv
  BY <1>2, <1>4, <1>5, <1>6, <1>7, EmptyIsOwned DEF CacheInv, Bounded
<1>. QED  BY <1>2, <1>3, <1>8 DEF LayerInv

\* A pass starts between two calls.
LEMMA RouteCacheInv ==
    ASSUME LayerInv, CacheInv, NEW l, NEW experts, Route(l, experts)
    PROVE  CacheInv'
<1>1. cache' = cache /\ phase' = "look" /\ IsCache(cache)
  BY DEF Route, vars, LayerInv, SchedulerInv, TypeOK
<1>. QED  BY <1>1, OutsideCacheInv DEF CacheStep

LEMMA LayerSpecStep == LayerInv /\ CacheInv /\ [LayerNext]_allVars => (LayerInv /\ CacheInv)'
<1>. SUFFICES ASSUME LayerInv, CacheInv, [LayerNext]_allVars PROVE LayerInv' /\ CacheInv'
  OBVIOUS
<1>1. ASSUME NEW l \in Layer, NEW experts \in Selections, Route(l, experts)
      PROVE  LayerInv' /\ CacheInv'
  BY <1>1, RouteKeeps, RouteCacheInv
<1>2. CASE Step
  BY <1>2, LayerStepKeeps, StepCacheInv
<1>3. CASE UNCHANGED allVars
  <2>1. UNCHANGED vars /\ UNCHANGED layerVars
    BY <1>3 DEF allVars
  <2>2. SchedulerInv' /\ Supplied'
    BY <2>1, StutterKeeps DEF LayerInv
  <2>3. Frame' /\ QueueIsOwn' /\ PassSoFar'
    BY <2>1
    DEF vars, layerVars, LayerInv, Frame, QueueIsOwn, PassSoFar, OnGpu, Key, Current, DemandOf
  <2>4. CacheInv'
    BY <2>1, OutsideCacheInv DEF vars, CacheStep, LayerInv, SchedulerInv, TypeOK
  <2>. QED  BY <2>2, <2>3, <2>4 DEF LayerInv
<1>. QED  BY <1>1, <1>2, <1>3 DEF LayerNext

LEMMA AlwaysLayer == LayerSpec => [](LayerInv /\ CacheInv)
  BY LayerInitHolds, LayerSpecStep, PTL DEF LayerSpec

\* Nothing is under way but the visit of the pass.
Quiet == InFlight = {} /\ stream = << >> /\ ~ raised

\* Then acquire has a slot to hand out.
LEMMA QuietHasSlot ==
    ASSUME SchedulerInv, Quiet, PoolSlots # 0
    PROVE  ~ Exhausted(pool, stream)
<1>1. CASE pool = << >>
  <2>1. Len(pool) = 0
    BY <1>1
  <2>. QED  BY <2>1, SchedulerAssumption DEF Exhausted
<1>2. CASE pool # << >>
  <2>1. 1 \in DOMAIN pool
    BY <1>2 DEF SchedulerInv, TypeOK
  <2>2. ~ pool[1].in_use
    BY <2>1 DEF SchedulerInv, Owned, Quiet
  <2>3. Done(stream, SlotEvent(1))
    BY DEF Done, Contains, Quiet
  <2>4. 1 \in ReusableSlots(pool, stream)
    BY <2>1, <2>2, <2>3 DEF ReusableSlots, Reusable
  <2>. QED  BY <2>4 DEF Exhausted
<1>. QED  BY <1>1, <1>2

\* No step of such a pass raises.
LEMMA QuietStays ==
    ASSUME Faults = {}, LayerFaults = {}, PoolSlots # 0, LayerInv, CacheInv, Quiet, Step
    PROVE  Quiet'
<1>0. SchedulerInv /\ VisitSoFar /\ InFlight = {} /\ stream = << >> /\ ~ raised
  BY DEF LayerInv, CacheInv, Quiet
<1>. DEFINE k == Key(Current)
<1>1. ASSUME UNCHANGED <<stream, handles, raised>> PROVE Quiet'
  BY <1>1 DEF Quiet, InFlight
<1>2. CASE Look
  <2>1. UNCHANGED <<stream, handles>>
    BY <1>2 DEF Look, Load, Uses
  <2>2. raised' = raised
    BY <1>2 DEF Look, Ensured, GoesTo
  <2>. QED  BY <1>1, <2>1, <2>2
<1>3. CASE SubmitDemand
  <2>1. queue = << >>
    BY <1>3 DEF SubmitDemand, LayerInv, QueueIsOwn
  <2>2. ~ IsDuplicate(DemandOf(k))
    BY <1>0, <2>1 DEF IsDuplicate, ToSet
  <2>. QED  BY <1>1, <1>3, <2>2 DEF SubmitDemand, Submit, GoesTo
<1>4. ASSUME NEW fault \in Faults \cup {"none"}, Execute(fault) PROVE Quiet'
  <2>. DEFINE r == DemandOf(k)
  <2>0. /\ phase = "execute" /\ todo # {} /\ queue = <<r>> /\ fault = "none"
        /\ ExecuteNext(fault)
        /\ IF Succeeds(NextRequest, fault) THEN GoesTo("check") ELSE Raise
    BY <1>4 DEF Execute, LayerInv, Frame, QueueIsOwn
  <2>1. k \in Expert /\ r \in Request /\ r.key = k /\ r.direction = "cpu_to_gpu"
    BY <2>0, CurrentFacts, DemandFacts, DemandIsIn DEF LayerInv
  <2>2. NextRequest = r
    BY <2>0, <2>1, OwnRequest
  <2>3. k \in OnCpu /\ ~ Exhausted(pool, stream)
    BY <1>0, <2>0, QuietHasSlot DEF VisitSoFar
  <2>. HIDE DEF r, k
  <2>4. raised' = raised
    BY <2>0, <2>1, <2>2, <2>3 DEF Succeeds, GoesTo
  <2>5. stream' = << >> /\ handles' = Copied(stream)
    <3>1. TransferRefused(r) \/ TransferRuns(r, fault)
      BY <2>0, <2>1, <2>2 DEF ExecuteNext
    <3>. QED  BY <2>0, <2>1, <2>3, <3>1 DEF TransferRefused, TransferRuns
  <2>. QED  BY <1>0, <2>4, <2>5 DEF Quiet, Copied, InFlight
<1>5. CASE Check
  <2>1. k \in OnGpu
    BY <1>0, <1>5 DEF VisitSoFar, Check
  <2>. QED  BY <1>1, <1>5, <2>1 DEF Check, Uses, Ensured
<1>6. CASE Compute
  BY <1>0, <1>6 DEF Compute, vars, Quiet, InFlight
<1>7. CASE ReleaseOne
  BY <1>1, <1>7 DEF ReleaseOne, Uses
<1>8. CASE Return
  BY <1>1, <1>8 DEF Return, vars
<1>. QED  BY <1>2, <1>3, <1>4, <1>5, <1>6, <1>7, <1>8 DEF Step

\* Passes in which nothing fails outside the layer never raise, for any
\* policy and however small the tiers and the pool are: a slot is always free,
\* the request is never a duplicate, and the key is where the pass expects it
\* although every step may evict something.
THEOREM FaultFreePasses ==
    ASSUME Faults = {}, LayerFaults = {}, PoolSlots # 0
    PROVE  LayerSpec => []FaultFreePass
<1>1. LayerInit => Quiet
  BY DEF LayerInit, Init, Quiet, InFlight
<1>2. LayerInv /\ CacheInv /\ Quiet /\ [LayerNext]_allVars => Quiet'
  <2>. SUFFICES ASSUME LayerInv, CacheInv, Quiet, [LayerNext]_allVars PROVE Quiet'
    OBVIOUS
  <2>1. ASSUME NEW l, NEW experts, Route(l, experts) PROVE Quiet'
    BY <2>1 DEF Route, vars, Quiet, InFlight
  <2>2. CASE Step
    BY <2>2, QuietStays
  <2>3. CASE UNCHANGED allVars
    BY <2>3 DEF allVars, vars, layerVars, Quiet, InFlight
  <2>. QED  BY <2>1, <2>2, <2>3 DEF LayerNext
<1>3. Quiet => FaultFreePass
  BY DEF Quiet, FaultFreePass
<1>. QED  BY <1>1, <1>2, <1>3, AlwaysLayer, PTL DEF LayerSpec

\* The lists are apart in each tier, so no key is in two of their places.
LEMMA OwnedIsDisjoint ==
    ASSUME IsCache(cache), ArcOwned(cache)
    PROVE  ArcListsDisjoint
<1>. SUFFICES ASSUME NEW t \in Tier
              PROVE  LET arc == cache.arc[t] IN
                     /\ IsInjective(arc.t1 \o arc.t2 \o arc.b1 \o arc.b2)
                     /\ arc.p <= SlotsOf(t)
  BY DEF ArcListsDisjoint
<1>1. cache.arc[t] \in Arc
  BY CacheFields
<1>2. CASE t = "gpu"
  <2>1. cache.arc[t] = EmptyArc /\ SlotsOf(t) \in Nat
    BY <1>2, CacheAssumption DEF ArcOwned, SlotsOf
  <2>2. EmptyArc.p = 0
    BY DEF EmptyArc
  <2>. QED  BY <2>1, <2>2, EmptyIsApart, ApartIsInjective
<1>3. CASE t = "cpu"
  BY <1>1, <1>3, ApartIsInjective DEF ArcOwned, SlotsOf
<1>. QED  BY <1>2, <1>3 DEF Tier

-----------------------------------------------------------------------------
(***************************************************************************)
(* The prefetch engine                                                     *)
(***************************************************************************)

PrefetchFrame ==
    /\ DOMAIN remembered \subseteq Expert
    /\ \A k \in DOMAIN remembered : \E r \in Request : r.key = k /\ r.id = remembered[k]
    /\ call \in {"idle", "due", "submit", "failed"}
    /\ call # "idle" => phase = "idle"
    /\ call \in {"due", "submit"} => ~ raised
    /\ wanted # {} => call = "submit"
    /\ \A k \in wanted : k \in Nat \X Nat /\ k[1] > layer

\* A transfer has the id of a request for its expert.
Ids == \A k \in InFlight : \E r \in Request : r.key = k /\ r.id = handles[k].id

\* NothingStale, and what holds of it while a pass runs.
StaleSoFar ==
    /\ NothingStale
    /\ (phase # "idle" \/ call = "due") =>
          \A k \in InFlight : k[1] < layer => handles[k].status = "cancelled"

EngineInv == LayerInv /\ PrefetchFrame /\ Ids /\ CanStillCancel /\ StaleSoFar

\* Steps that keep which transfers there are, their ids and their states.
SameTransfers ==
    /\ InFlight' = InFlight
    /\ \A k \in InFlight : /\ handles'[k].id = handles[k].id
                           /\ handles'[k].status = handles[k].status

LEMMA TransfersStay ==
    ASSUME Ids, CanStillCancel, SameTransfers, remembered' = remembered
    PROVE  Ids' /\ CanStillCancel'
  BY DEF Ids, CanStillCancel, SameTransfers

LEMMA StepTransfers ==
    ASSUME SchedulerInv, Step
    PROVE  SameTransfers
<1>1. ASSUME handles' = handles PROVE SameTransfers
  BY <1>1 DEF SameTransfers, InFlight
<1>2. ASSUME NEW fault, Execute(fault) PROVE SameTransfers
  <2>1. handles' = handles \/ handles' = Copied(stream)
    BY <1>2, ExecuteHandles DEF Execute
  <2>2. CASE handles' = Copied(stream)
    BY <2>2, CopiedFacts DEF SameTransfers, InFlight
  <2>. QED  BY <1>1, <2>1, <2>2
<1>. QED  BY <1>1, <1>2
          DEF Step, Look, Load, SubmitDemand, Submit, Check, Compute, ReleaseOne, Return,
              Uses, vars

LEMMA LayerNumbers ==
    /\ Layer \subseteq Nat /\ ExpertId \subseteq Nat
    /\ \A k \in Expert : k[1] \in Nat /\ k[2] \in Nat /\ k = <<k[1], k[2]>>
    /\ Cardinality(Layer) \in Nat \ {0} /\ Layer = 0 .. Cardinality(Layer) - 1
<1>1. Cardinality(Layer) \in Nat \ {0} /\ Layer = 0 .. Cardinality(Layer) - 1
  BY PrefetchAssumption, FS_CardinalityType, FS_EmptySet
<1>. DEFINE n == Cardinality(Layer)
<1>2. Layer \subseteq Nat
  <2>1. n \in Nat /\ Layer = 0 .. n - 1
    BY <1>1
  <2>. HIDE DEF n
  <2>. QED  BY <2>1
<1>3. ExpertId \subseteq Nat /\ Expert = Layer \X ExpertId
  BY LayerAssumption
<1>4. ASSUME NEW k \in Expert
      PROVE  k[1] \in Nat /\ k[2] \in Nat /\ k = <<k[1], k[2]>>
  <2>1. k \in Layer \X ExpertId
    BY <1>3
  <2>2. k[1] \in Layer /\ k[2] \in ExpertId /\ k = <<k[1], k[2]>>
    BY <2>1
  <2>. QED  BY <1>2, <1>3, <2>2
<1>. QED  BY <1>1, <1>2, <1>3, <1>4

\* The next pass is for the layer that follows, or starts again at the first.
LEMMA NextLayerFacts ==
    ASSUME Frame, NEW l \in NextLayers
    PROVE  l \in Layer /\ l <= layer + 1 /\ (raised => l = 0)
<1>. DEFINE n == Cardinality(Layer)
<1>1. /\ layer \in 0 .. n - 1 /\ n \in Nat \ {0} /\ 0 \in Layer
      /\ l = 0 \/ (~ raised /\ l = (layer + 1) % n)
  BY LayerNumbers DEF Frame, NextLayers
<1>2. CASE layer + 1 < n
  <2>1. (layer + 1) % n = layer + 1
    BY <1>1, <1>2
  <2>. QED  BY <1>1, <1>2, <2>1, LayerNumbers
<1>3. CASE layer + 1 = n
  <2>1. (layer + 1) % n = 0
    BY <1>1, <1>3
  <2>. QED  BY <1>1, <1>3, <2>1
<1>. QED  BY <1>1, <1>2, <1>3

LEMMA StartKeeps ==
    ASSUME EngineInv, NEW experts \in Selections, StartLayer(experts)
    PROVE  EngineInv'
<1>1. PICK l \in NextLayers : Route(l, experts)
  BY DEF StartLayer
<1>2. /\ l \in Layer /\ l <= layer + 1 /\ (raised => l = 0)
      /\ layer \in Nat /\ l \in Nat /\ InFlight \subseteq Expert
  BY <1>1, NextLayerFacts, LayerNumbers DEF EngineInv, LayerInv, Frame, SchedulerInv, TypeOK
<1>3. LayerInv'
  BY <1>1, <1>2, RouteKeeps DEF EngineInv
<1>4. /\ call \in {"idle", "failed"} /\ call' = "idle" /\ phase = "idle" /\ phase' = "look"
      /\ layer' = l /\ UNCHANGED <<handles, remembered, wanted>>
  BY <1>1 DEF StartLayer, Route, vars
<1>5. Ids' /\ CanStillCancel'
  BY <1>4, TransfersStay DEF EngineInv, SameTransfers, InFlight
<1>6. PrefetchFrame'
  BY <1>4 DEF EngineInv, PrefetchFrame
<1>7. ASSUME NEW k \in InFlight, k[1] < l
      PROVE  handles[k].status = "cancelled"
  <2>1. k[1] \in Nat
    BY <1>2, LayerNumbers
  <2>2. ~ raised /\ k[1] <= layer
    BY <1>2, <1>7, <2>1
  <2>. QED  BY <1>4, <2>2 DEF EngineInv, StaleSoFar, NothingStale
<1>8. StaleSoFar'
  BY <1>4, <1>7 DEF StaleSoFar, NothingStale, InFlight
<1>. QED  BY <1>3, <1>5, <1>6, <1>8 DEF EngineInv

LEMMA PassKeeps ==
    ASSUME EngineInv, LayerStep
    PROVE  EngineInv'
<1>1. /\ Step /\ UNCHANGED <<remembered, wanted>>
      /\ call' = IF phase = "release" /\ phase' = "idle" /\ ~ raised THEN "due" ELSE call
  BY DEF LayerStep
<1>2. LayerInv'
  BY <1>1, LayerStepKeeps DEF EngineInv
<1>3. SameTransfers
  BY <1>1, StepTransfers DEF EngineInv, LayerInv
<1>4. /\ phase # "idle" /\ layer' = layer
      /\ phase' = "idle" => phase = "release" /\ raised' = raised
  BY <1>1, StepOutside DEF EngineInv, LayerInv
<1>5. call = "idle" /\ wanted = {} /\ raised \in BOOLEAN
  BY <1>4 DEF EngineInv, PrefetchFrame, LayerInv, Frame
<1>6. Ids' /\ CanStillCancel'
  BY <1>1, <1>3, TransfersStay DEF EngineInv
<1>7. PrefetchFrame'
  BY <1>1, <1>4, <1>5 DEF EngineInv, PrefetchFrame
<1>8. \A k \in InFlight' : k[1] < layer' => handles'[k].status = "cancelled"
  BY <1>3, <1>4 DEF EngineInv, StaleSoFar, SameTransfers
<1>9. phase' = "idle" => call' = "due" \/ raised'
  BY <1>1, <1>4, <1>5
<1>10. StaleSoFar'
  BY <1>8, <1>9 DEF StaleSoFar, NothingStale
<1>. QED  BY <1>2, <1>6, <1>7, <1>10 DEF EngineInv

\* The steps between the passes leave the pass alone.
LEMMA LayerStays ==
    ASSUME LayerInv, phase = "idle", UNCHANGED layerVars, queue' = queue,
           SchedulerInv' /\ Supplied'
    PROVE  LayerInv'
  BY DEF LayerInv, Frame, Phase, QueueIsOwn, PassSoFar, layerVars

\* Completing a layer cancels what is stale, and nothing else.
LEMMA CompleteKeeps ==
    ASSUME EngineInv, OnLayerComplete
    PROVE  EngineInv'
<1>. DEFINE drops(k) == k \in DOMAIN remembered /\ Stale(k) /\ handles[k].id = remembered[k]
<1>0. /\ SchedulerInv /\ Supplied /\ LayerInv /\ PrefetchFrame
      /\ InFlight \subseteq Expert /\ handles \in [InFlight -> Handle]
      /\ layer \in Nat
  BY LayerNumbers DEF EngineInv, LayerInv, Frame, SchedulerInv, TypeOK
<1>1. /\ call = "due" /\ call' = "submit" /\ phase = "idle" /\ ~ raised
      /\ wanted' = Targets \X routed
      /\ UNCHANGED <<cache, pool, stream, queue>> /\ UNCHANGED layerVars
      /\ remembered' = [k \in {j \in DOMAIN remembered : ~ Stale(j)} |-> remembered[k]]
  <2>1. /\ call = "due" /\ call' = "submit" /\ wanted' = Targets \X routed
        /\ UNCHANGED <<cache, pool, stream, queue>> /\ UNCHANGED layerVars
        /\ remembered' = Restrict(remembered, {k \in DOMAIN remembered : ~ Stale(k)})
    BY DEF OnLayerComplete
  <2>. QED  BY <1>0, <2>1 DEF PrefetchFrame, Restrict
<1>2. handles' = [k \in InFlight |->
                     IF drops(k) THEN [handles[k] EXCEPT !.status = "cancelled"] ELSE handles[k]]
  BY DEF OnLayerComplete
<1>3. InFlight' = InFlight
  BY <1>2 DEF InFlight
<1>4. \A k \in InFlight :
         /\ handles'[k] \in Handle
         /\ handles'[k].id = handles[k].id
         /\ handles'[k].slot = handles[k].slot
         /\ handles'[k].gpu_state = handles[k].gpu_state
         /\ handles'[k].status = IF drops(k) THEN "cancelled" ELSE handles[k].status
  <2>1. ASSUME NEW k \in InFlight
        PROVE  LET h == [handles[k] EXCEPT !.status = "cancelled"] IN
               /\ h \in Handle /\ h.id = handles[k].id /\ h.slot = handles[k].slot
               /\ h.gpu_state = handles[k].gpu_state /\ h.status = "cancelled"
    BY <1>0 DEF Handle
  <2>. HIDE DEF drops
  <2>. QED  BY <1>0, <1>2, <2>1
<1>5. handles' \in [InFlight -> Handle]
  <2>. HIDE DEF drops
  <2>. QED  BY <1>2, <1>4
<1>6. SchedulerInv'
  <2>1. SameUsers(pool, pool')
    BY <1>0, <1>1 DEF SameUsers, IsPool, SchedulerInv, TypeOK
  <2>2. Owned'
    BY <1>0, <1>3, <1>4, <2>1, OwnersStay DEF SchedulerInv
  <2>3. TypeOK'
    BY <1>0, <1>1, <1>3, <1>5 DEF SchedulerInv, TypeOK
  <2>. QED  BY <2>2, <2>3 DEF SchedulerInv
<1>7. Supplied'
  BY <1>0, <1>1, <1>3, <1>4, SuppliedStays
<1>8. LayerInv'
  BY <1>0, <1>1, <1>6, <1>7, LayerStays
<1>9. Ids'
  BY <1>3, <1>4 DEF EngineInv, Ids
<1>10. ASSUME NEW k \in InFlight, handles'[k].status = "in_flight"
       PROVE  /\ k \in DOMAIN remembered' /\ remembered'[k] = handles'[k].id
              /\ ~ Stale(k)
  <2>1. handles[k].status = "in_flight" /\ ~ drops(k)
    <3>. HIDE DEF drops
    <3>. QED  BY <1>4, <1>10
  <2>2. k \in DOMAIN remembered /\ remembered[k] = handles[k].id
    BY <2>1 DEF EngineInv, CanStillCancel
  <2>. QED  BY <1>1, <1>4, <2>1, <2>2
<1>11. CanStillCancel'
  BY <1>3, <1>10 DEF CanStillCancel
<1>12. StaleSoFar'
  <2>1. \A k \in InFlight : k[1] <= layer => handles'[k].status = "cancelled"
    <3>. SUFFICES ASSUME NEW k \in InFlight, k[1] <= layer, handles'[k].status # "cancelled"
                  PROVE  FALSE
      OBVIOUS
    <3>1. handles'[k].status = "in_flight"
      BY <1>4 DEF Handle
    <3>2. k[1] \in Nat
      BY <1>0, LayerNumbers
    <3>. QED  BY <1>0, <1>10, <3>1, <3>2 DEF Stale
  <2>. QED  BY <1>1, <1>3, <2>1 DEF StaleSoFar, NothingStale, layerVars
<1>13. PrefetchFrame'
  <2>1. Targets \subseteq {j \in Nat : j > layer}
    BY <1>0, PrefetchAssumption DEF Targets
  <2>2. routed \subseteq Nat
    BY <1>0, LayerNumbers DEF LayerInv, Frame
  <2>3. \A k \in wanted' : k \in Nat \X Nat /\ k[1] > layer
    BY <1>1, <2>1, <2>2
  <2>. QED  BY <1>0, <1>1, <2>3 DEF PrefetchFrame, layerVars
<1>. QED  BY <1>8, <1>9, <1>11, <1>12, <1>13 DEF EngineInv

\* schedule_prefetch visits the wanted keys in order, so there is a first.
LEMMA FirstIsWanted ==
    ASSUME PrefetchFrame, wanted # {}
    PROVE  FirstWanted \in wanted
<1>. DEFINE I == {k[1] : k \in wanted}
            m == Min(I)
            J == {k[2] : k \in {j \in wanted : j[1] = m}}
            n == Min(J)
<1>0. \A k \in wanted : k \in Nat \X Nat
  BY DEF PrefetchFrame
<1>1. I \in SUBSET Nat /\ I # {}
  BY <1>0
<1>2. m \in I /\ \A i \in I : m <= i
  BY <1>1, MinIsLeast
<1>. HIDE DEF m
<1>3. J \in SUBSET Nat /\ J # {}
  BY <1>0, <1>2
<1>4. n \in J /\ \A i \in J : n <= i
  BY <1>3, MinIsLeast
<1>. HIDE DEF n
<1>5. PICK k \in wanted : k[1] = m /\ k[2] = n
  BY <1>4
<1>6. ASSUME NEW j \in wanted PROVE k = j \/ Precedes(k, j)
  <2>1. j \in Nat \X Nat /\ k \in Nat \X Nat /\ m <= j[1] /\ (j[1] = m => n <= j[2])
    BY <1>0, <1>2, <1>4
  <2>. QED  BY <1>5, <2>1 DEF Precedes
<1>. QED  BY <1>5, <1>6 DEF FirstWanted

\* There is always an id nobody holds: an expert has one handle at most.
LEMMA FreshFacts ==
    ASSUME Ids, NEW k \in Expert
    PROVE  Fresh(k) \in Request /\ Fresh(k).key = k
<1>1. PICK r \in Request, q \in Request :
           /\ r.key = k /\ r.priority = 2
           /\ q.key = k /\ q.priority = 2
           /\ r.id # q.id
  BY PrefetchAssumption
<1>2. \A h \in InFlight : handles[h].id \in {r.id, q.id} => h = k
  BY <1>1, PrefetchAssumption DEF Ids
<1>3. \/ r.id \notin {handles[h].id : h \in InFlight}
      \/ q.id \notin {handles[h].id : h \in InFlight}
  BY <1>1, <1>2
<1>4. \E x \in Request : /\ x.key = k /\ x.priority = 2
                         /\ x.id \notin {handles[h].id : h \in InFlight}
  BY <1>1, <1>3
<1>. QED  BY <1>4 DEF Fresh

\* What submit_async does to the handles.
LEMMA SubmitHandles ==
    ASSUME NEW r, NEW fault, SubmitAsync(r, fault)
    PROVE  /\ r.key \notin InFlight /\ queue' = queue /\ cache' = cache
           /\ \/ handles' = handles
              \/ /\ InFlight' = InFlight \cup {r.key}
                 /\ handles'[r.key].id = r.id /\ handles'[r.key].status = "in_flight"
                 /\ \A k \in InFlight : handles'[k] = handles[k]
<1>1. r.key \notin InFlight /\ queue' = queue /\ cache' = cache
  BY DEF SubmitAsync, Accepts
<1>2. CASE r.key \notin OnCpu
  BY <1>1, <1>2 DEF SubmitAsync
<1>3. CASE r.key \in OnCpu /\ fault \in {"stage", "copy"}
  BY <1>1, <1>3 DEF SubmitAsync
<1>4. CASE r.key \in OnCpu /\ fault \notin {"stage", "copy"}
  BY <1>1, <1>4 DEF SubmitAsync, InFlight
<1>. QED  BY <1>2, <1>3, <1>4

\* A prefetch that is accepted is remembered under its id.
LEMMA SubmissionKeeps ==
    ASSUME EngineInv, NEW k \in Expert \ (DOMAIN remembered \cup OnGpu), k[1] > layer,
           NEW fault \in Faults \cup {"none"},
           \/ SubmitAsync(Fresh(k), fault)
           \/ ~ Accepts(Fresh(k)) /\ UNCHANGED vars,
           Remembers(k, Fresh(k)), UNCHANGED layerVars
    PROVE  /\ SchedulerInv' /\ Supplied' /\ Ids' /\ CanStillCancel'
           /\ queue' = queue
           /\ DOMAIN remembered' \subseteq Expert
           /\ \A j \in DOMAIN remembered' :
                 \E r \in Request : r.key = j /\ r.id = remembered'[j]
           /\ \A j \in InFlight' : j[1] <= layer => handles'[j].status = "cancelled"
              \/ ~ (\A i \in InFlight : i[1] <= layer => handles[i].status = "cancelled")
<1>. DEFINE r == Fresh(k)
<1>0. SchedulerInv /\ Supplied /\ Ids /\ CanStillCancel /\ PrefetchFrame
  BY DEF EngineInv, LayerInv
<1>1. r \in Request /\ r.key = k
  BY <1>0, FreshFacts
<1>. HIDE DEF r
<1>2. SchedulerInv' /\ Supplied'
  <2>1. CASE SubmitAsync(r, fault)
    BY <1>0, <1>1, <2>1, NextKeeps DEF Next
  <2>2. CASE UNCHANGED vars
    BY <1>0, <2>2, StutterKeeps
  <2>. QED  BY <2>1, <2>2 DEF r
<1>3. CASE handles' = handles /\ queue' = queue
  <2>1. k \in InFlight => handles[k].status # "in_flight"
    BY <1>0 DEF CanStillCancel
  <2>2. remembered' = remembered
    BY <1>3, <2>1 DEF Remembers, InFlight
  <2>3. SameTransfers
    BY <1>3 DEF SameTransfers, InFlight
  <2>4. Ids' /\ CanStillCancel'
    BY <1>0, <2>2, <2>3, TransfersStay
  <2>. QED  BY <1>0, <1>2, <1>3, <2>2, <2>4 DEF PrefetchFrame, InFlight
<1>4. CASE /\ k \notin InFlight /\ InFlight' = InFlight \cup {k}
           /\ handles'[k].id = r.id /\ handles'[k].status = "in_flight"
           /\ \A j \in InFlight : handles'[j] = handles[j]
           /\ queue' = queue
  <2>1. remembered' = [j \in DOMAIN remembered \cup {k} |->
                          IF j = k THEN r.id ELSE remembered[j]]
    BY <1>4 DEF Remembers, InFlight, r
  <2>2. DOMAIN remembered' \subseteq Expert
    BY <1>0, <2>1 DEF PrefetchFrame
  <2>3. \A j \in DOMAIN remembered' : \E q \in Request : q.key = j /\ q.id = remembered'[j]
    BY <1>0, <1>1, <2>1 DEF PrefetchFrame
  <2>4. Ids'
    BY <1>0, <1>1, <1>4 DEF Ids
  <2>5. CanStillCancel'
    BY <1>0, <1>4, <2>1 DEF CanStillCancel
  <2>6. k[1] \in Nat /\ layer \in Nat
    BY LayerNumbers DEF EngineInv, LayerInv, Frame
  <2>7. ~ (k[1] <= layer)
    BY <2>6
  <2>. QED  BY <1>2, <1>4, <2>2, <2>3, <2>4, <2>5, <2>7
<1>5. CASE SubmitAsync(r, fault)
  <2>1. /\ k \notin InFlight /\ queue' = queue
        /\ \/ handles' = handles
           \/ /\ InFlight' = InFlight \cup {k}
              /\ handles'[k].id = r.id /\ handles'[k].status = "in_flight"
              /\ \A j \in InFlight : handles'[j] = handles[j]
    BY <1>1, <1>5, SubmitHandles
  <2>. QED  BY <1>3, <1>4, <2>1
<1>6. CASE UNCHANGED vars
  BY <1>3, <1>6 DEF vars
<1>. QED  BY <1>5, <1>6 DEF r

\* A prefetch for a layer that does not exist gives its slot back.
LEMMA BeyondKeeps ==
    ASSUME SchedulerInv, Supplied, SubmitBeyond
    PROVE  SchedulerInv' /\ Supplied'
<1>1. /\ IsCache(cache) /\ IsPool(pool) /\ stream \in Seq(StreamOp) /\ queue \in Seq(Request)
      /\ UNCHANGED <<cache, stream, queue, handles>>
  BY DEF SchedulerInv, TypeOK, IsPool, SubmitBeyond
<1>2. pool' = pool \/ SameUsers(pool, pool')
  <2>1. CASE Cardinality(InFlight) < MaxConcurrent /\ ~ Exhausted(pool, stream)
    <3>1. NoExpert \in Expert \cup {NoExpert} /\ ~ Exhausted(pool, stream) /\ IsPool(pool)
      BY <1>1, <2>1
    <3>2. pool' = Release(Acquire(pool, stream), AcquiredSlot(pool, stream))
      BY <2>1 DEF SubmitBeyond
    <3>. QED  BY <3>1, <3>2, ReturnedSlot
  <2>. QED  BY <2>1 DEF SubmitBeyond
<1>3. SchedulerInv'
  BY <1>1, <1>2, UsersKeep
<1>4. Supplied'
  BY <1>1, SuppliedStays DEF InFlight
<1>. QED  BY <1>3, <1>4

LEMMA ScheduleKeeps ==
    ASSUME EngineInv, NEW fault \in Faults \cup {"none"}, SchedulePrefetch(fault)
    PROVE  EngineInv'
<1>. DEFINE k == FirstWanted
<1>0. /\ LayerInv /\ SchedulerInv /\ Supplied /\ PrefetchFrame /\ Ids /\ CanStillCancel
      /\ call = "submit" /\ phase = "idle" /\ ~ raised
      /\ \/ call' = "submit" /\ wanted' \subseteq wanted
         \/ call' = "failed" /\ wanted' = {}
      /\ UNCHANGED layerVars
      /\ SubmitIfNeeded(k, fault) /\ wanted # {}
  BY DEF EngineInv, LayerInv, PrefetchFrame, SchedulePrefetch
<1>1. k \in wanted /\ k[1] > layer
  BY <1>0, FirstIsWanted DEF PrefetchFrame
<1>. HIDE DEF k
<1>2. \A j \in InFlight : j[1] <= layer => handles[j].status = "cancelled"
  BY <1>0 DEF EngineInv, StaleSoFar, NothingStale
<1>3. /\ SchedulerInv' /\ Supplied' /\ Ids' /\ CanStillCancel'
      /\ queue' = queue
      /\ DOMAIN remembered' \subseteq Expert
      /\ \A j \in DOMAIN remembered' : \E r \in Request : r.key = j /\ r.id = remembered'[j]
      /\ \A j \in InFlight' : j[1] <= layer => handles'[j].status = "cancelled"
  <2>1. CASE handles' = handles /\ queue' = queue /\ remembered' = remembered
             /\ SchedulerInv' /\ Supplied'
    <3>1. SameTransfers
      BY <2>1 DEF SameTransfers, InFlight
    <3>2. Ids' /\ CanStillCancel'
      BY <1>0, <2>1, <3>1, TransfersStay
    <3>. QED  BY <1>0, <1>2, <2>1, <3>2 DEF PrefetchFrame, InFlight
  <2>2. CASE UNCHANGED <<vars, remembered>>
    BY <1>0, <2>1, <2>2, StutterKeeps DEF vars
  <2>3. CASE /\ k \in Expert \ (DOMAIN remembered \cup OnGpu)
             /\ \/ SubmitAsync(Fresh(k), fault)
                \/ ~ Accepts(Fresh(k)) /\ UNCHANGED vars
             /\ Remembers(k, Fresh(k))
    BY <1>0, <1>1, <1>2, <2>3, SubmissionKeeps
  <2>4. CASE SubmitBeyond
    BY <1>0, <2>1, <2>4, BeyondKeeps DEF SubmitBeyond
  <2>. QED  BY <1>0, <2>2, <2>3, <2>4 DEF SubmitIfNeeded
<1>4. LayerInv'
  BY <1>0, <1>3, LayerStays
<1>5. PrefetchFrame'
  BY <1>0, <1>3 DEF PrefetchFrame, layerVars
<1>6. StaleSoFar'
  BY <1>0, <1>2, <1>3 DEF StaleSoFar, NothingStale, layerVars
<1>. QED  BY <1>3, <1>4, <1>5, <1>6 DEF EngineInv

\* The end of the callback, the polls and the GPU.
LEMMA BetweenKeeps ==
    ASSUME EngineInv,
           \/ CallbackReturns
           \/ Poll
           \/ GpuStep /\ UNCHANGED <<layerVars, prefetchVars>>
    PROVE  EngineInv'
<1>0. /\ LayerInv /\ SchedulerInv /\ Supplied /\ PrefetchFrame /\ Ids /\ CanStillCancel
  BY DEF EngineInv, LayerInv
<1>1. CASE CallbackReturns
  <2>1. /\ call = "submit" /\ call' = "idle" /\ wanted = {} /\ phase = "idle" /\ ~ raised
        /\ UNCHANGED <<remembered, wanted, vars, layerVars>>
    BY <1>0, <1>1 DEF CallbackReturns, allVars, PrefetchFrame
  <2>2. SchedulerInv' /\ Supplied' /\ queue' = queue /\ handles' = handles
    BY <1>0, <2>1, StutterKeeps DEF vars
  <2>3. LayerInv'
    BY <1>0, <2>1, <2>2, LayerStays
  <2>4. Ids' /\ CanStillCancel'
    BY <1>0, <2>1, <2>2, TransfersStay DEF SameTransfers, InFlight
  <2>5. PrefetchFrame'
    BY <1>0, <2>1 DEF PrefetchFrame, layerVars
  <2>6. StaleSoFar'
    BY <2>1, <2>2 DEF EngineInv, StaleSoFar, NothingStale, layerVars, InFlight
  <2>. QED  BY <2>3, <2>4, <2>5, <2>6 DEF EngineInv
<1>2. CASE Poll
  <2>1. PICK k \in Expert, fault \in Faults \cup {"none"} : PollAsync(k, fault)
    BY <1>2 DEF Poll
  <2>2. /\ phase = "idle" /\ call \in {"idle", "failed"} /\ call' \in {"idle", "failed"}
        /\ UNCHANGED <<layerVars, remembered, wanted>>
    BY <1>2 DEF Poll
  <2>3. SchedulerInv' /\ Supplied'
    BY <1>0, <2>1, NextKeeps DEF Next
  <2>4. /\ queue' = queue
        /\ InFlight' = InFlight \ {k} /\ \A j \in InFlight' : handles'[j] = handles[j]
    BY <2>1 DEF PollAsync, Discards, Publishes, Loses, Finishes, Forget, InFlight
  <2>5. LayerInv'
    BY <1>0, <2>2, <2>3, <2>4, LayerStays
  <2>6. Ids' /\ CanStillCancel'
    BY <1>0, <2>2, <2>4 DEF Ids, CanStillCancel
  <2>7. PrefetchFrame'
    BY <1>0, <2>2 DEF PrefetchFrame, layerVars
  <2>8. StaleSoFar'
    BY <2>2, <2>4 DEF EngineInv, StaleSoFar, NothingStale, layerVars
  <2>. QED  BY <2>5, <2>6, <2>7, <2>8 DEF EngineInv
<1>3. CASE GpuStep /\ UNCHANGED <<layerVars, prefetchVars>>
  <2>1. /\ handles' = Copied(<<Head(stream)>>) /\ queue' = queue /\ cache' = cache
        /\ UNCHANGED layerVars /\ UNCHANGED <<remembered, call, wanted>>
    BY <1>3 DEF GpuStep, prefetchVars
  <2>2. SchedulerInv' /\ Supplied'
    BY <1>0, <1>3, NextKeeps DEF Next
  <2>3. SameTransfers
    BY <1>0, <2>1, CopiedFacts DEF SameTransfers, InFlight
  <2>4. OnGpu' = OnGpu /\ Frame' /\ QueueIsOwn' /\ PassSoFar'
    BY <1>0, <2>1
    DEF LayerInv, Frame, QueueIsOwn, PassSoFar, layerVars, OnGpu, Key, Current
  <2>5. LayerInv'
    BY <2>2, <2>4 DEF LayerInv
  <2>6. Ids' /\ CanStillCancel'
    BY <1>0, <2>1, <2>3, TransfersStay
  <2>7. PrefetchFrame'
    BY <1>0, <2>1 DEF PrefetchFrame, layerVars
  <2>8. StaleSoFar'
    BY <2>1, <2>3 DEF EngineInv, StaleSoFar, NothingStale, layerVars, SameTransfers
  <2>. QED  BY <2>5, <2>6, <2>7, <2>8 DEF EngineInv
<1>. QED  BY <1>1, <1>2, <1>3

LEMMA EngineStep == EngineInv /\ [PrefetchNext]_engineVars => EngineInv'
<1>. SUFFICES ASSUME EngineInv, [PrefetchNext]_engineVars PROVE EngineInv'
  OBVIOUS
<1>1. CASE PrefetchNext
  BY <1>1, StartKeeps, PassKeeps, CompleteKeeps, ScheduleKeeps, BetweenKeeps
  DEF PrefetchNext, Callback
<1>2. CASE UNCHANGED engineVars
  <2>1. UNCHANGED <<vars, layerVars, remembered, call, wanted>>
    BY <1>2 DEF engineVars, allVars, prefetchVars
  <2>2. UNCHANGED <<cache, queue, handles, phase, layer, routed, was, todo, held, raised>>
    BY <2>1 DEF vars, layerVars
  <2>3. SchedulerInv' /\ Supplied'
    BY <2>1, StutterKeeps DEF EngineInv, LayerInv
  <2>4. LayerInv'
    BY <2>2, <2>3
    DEF EngineInv, LayerInv, Frame, QueueIsOwn, PassSoFar, OnGpu, Key, Current, DemandOf
  <2>5. Ids' /\ CanStillCancel'
    BY <2>1, <2>2 DEF EngineInv, Ids, CanStillCancel, InFlight
  <2>6. PrefetchFrame' /\ StaleSoFar'
    BY <2>1, <2>2 DEF EngineInv, PrefetchFrame, StaleSoFar, NothingStale, InFlight
  <2>. QED  BY <2>4, <2>5, <2>6 DEF EngineInv
<1>. QED  BY <1>1, <1>2

LEMMA EngineInit == PrefetchInit => EngineInv
<1>. SUFFICES ASSUME PrefetchInit PROVE EngineInv
  OBVIOUS
<1>1. /\ LayerInit /\ Init /\ phase = "idle" /\ remembered = << >> /\ call = "idle"
      /\ wanted = {}
  BY DEF PrefetchInit, LayerInit
<1>2. LayerInv /\ InFlight = {}
  BY <1>1, LayerInitHolds DEF Init, InFlight
<1>3. PrefetchFrame
  BY <1>1 DEF PrefetchFrame
<1>4. Ids /\ CanStillCancel /\ StaleSoFar
  BY <1>2 DEF Ids, CanStillCancel, StaleSoFar, NothingStale
<1>. QED  BY <1>2, <1>3, <1>4 DEF EngineInv

LEMMA AlwaysEngine == PrefetchSpec => []EngineInv
  BY EngineInit, EngineStep, PTL DEF PrefetchSpec

-----------------------------------------------------------------------------
\* The layers and the engine keep the shape of what they remember.
THEOREM PrefetchTypes == PrefetchSpec => []PrefetchTypeOK
<1>1. EngineInv => PrefetchTypeOK
  BY DEF EngineInv, LayerInv, SchedulerInv, Frame, PrefetchFrame, PrefetchTypeOK, LayerTypeOK
<1>. QED  BY <1>1, AlwaysEngine, PTL

\* Demand transfers and prefetches share the pool without taking a slot from
\* each other.
THEOREM SharedSlotsOwned == PrefetchSpec => []SlotsOwned
<1>1. EngineInv => SlotsOwned
  BY DEF EngineInv, LayerInv, SchedulerInv, Owned, SlotsOwned
<1>. QED  BY <1>1, AlwaysEngine, PTL

\* What a prefetch publishes under a key is that expert, with demand
\* transfers using the pool and the stream between its steps.
THEOREM SharedOwnWeights == PrefetchSpec => []OwnWeights
<1>1. Supplied => OwnWeights
  <2>. SUFFICES ASSUME Supplied, NEW k \in InFlight, Done(stream, HandleEvent(k))
                PROVE  handles[k].gpu_state = k
    BY DEF OwnWeights
  <2>1. \A j \in DOMAIN stream : stream[j] # HandleEvent(k)
    BY DEF Done, Contains
  <2>. QED  BY <2>1 DEF Supplied, Coming
<1>2. EngineInv => Supplied
  BY DEF EngineInv, LayerInv
<1>. QED  BY <1>1, <1>2, AlwaysEngine, PTL

\* A pass that returns or raises has given up every expert it brought to the
\* GPU, has nothing queued, and owns no slot.
THEOREM PassesCleanUp == PrefetchSpec => []NothingLeftBehind
<1>1. EngineInv => NothingLeftBehind
  BY DEF EngineInv, LayerInv, PassSoFar, QueueIsOwn, SchedulerInv, Owned, NothingLeftBehind
<1>. QED  BY <1>1, AlwaysEngine, PTL

\* A pass that calls execute_next runs its own request.
THEOREM PassesRunTheirOwn == PrefetchSpec => []ExecutesOwn
<1>1. EngineInv => ExecutesOwn
  <2>. SUFFICES ASSUME EngineInv, phase = "execute"
                PROVE  NextRequest = DemandOf(Key(Current)) /\ Len(queue) = 1
    BY DEF ExecutesOwn
  <2>1. Frame /\ QueueIsOwn /\ todo # {}
    BY DEF EngineInv, LayerInv, Frame
  <2>2. DemandOf(Key(Current)) \in Request
    BY <2>1, CurrentFacts, DemandFacts
  <2>3. queue = <<DemandOf(Key(Current))>>
    BY <2>1 DEF QueueIsOwn
  <2>. QED  BY <2>2, <2>3, OwnRequest
<1>. QED  BY <1>1, AlwaysEngine, PTL

\* Every transfer that is still wanted can be cancelled by the id the engine
\* remembers.
THEOREM StillCancellable == PrefetchSpec => []CanStillCancel
<1>1. EngineInv => CanStillCancel
  BY DEF EngineInv
<1>. QED  BY <1>1, AlwaysEngine, PTL

\* Once a layer has been reported, nothing in flight for it or an earlier one
\* will be published.
THEOREM StaleIsCancelled == PrefetchSpec => []NothingStale
<1>1. EngineInv => NothingStale
  BY DEF EngineInv, StaleSoFar
<1>. QED  BY <1>1, AlwaysEngine, PTL

\* Nor does anything the prefetch engine does.
LEMMA EngineCacheStep == EngineInv /\ CacheInv /\ [PrefetchNext]_engineVars => CacheInv'
<1>. SUFFICES ASSUME EngineInv, CacheInv, [PrefetchNext]_engineVars PROVE CacheInv'
  OBVIOUS
<1>0. LayerInv /\ SchedulerInv /\ IsCache(cache) /\ PrefetchFrame
  BY DEF EngineInv, LayerInv, SchedulerInv, TypeOK
<1>1. ASSUME NEW experts, StartLayer(experts) PROVE CacheInv'
  BY <1>0, <1>1, RouteCacheInv DEF StartLayer
<1>2. CASE LayerStep
  BY <1>0, <1>2, StepCacheInv DEF LayerStep
<1>3. CASE Callback
  <2>1. cache' = cache
    BY <1>3 DEF Callback, OnLayerComplete, SchedulePrefetch, SubmitIfNeeded, SubmitAsync,
                SubmitBeyond, CallbackReturns, allVars, vars
  <2>2. UNCHANGED layerVars
    BY <1>3 DEF Callback, OnLayerComplete, SchedulePrefetch, CallbackReturns, allVars, layerVars
  <2>. QED  BY <1>0, <2>1, <2>2, OutsideCacheInv DEF CacheStep
<1>4. CASE Poll
  <2>1. CacheStep /\ phase' = "idle"
    BY <1>0, <1>4, NextChangesCache DEF Poll, Next, layerVars
  <2>. QED  BY <1>0, <2>1, OutsideCacheInv
<1>5. CASE GpuStep /\ UNCHANGED <<layerVars, prefetchVars>>
  BY <1>0, <1>5, OutsideCacheInv DEF GpuStep, CacheStep
<1>6. CASE UNCHANGED engineVars
  BY <1>0, <1>6, OutsideCacheInv DEF engineVars, allVars, vars, CacheStep
<1>. QED  BY <1>1, <1>2, <1>3, <1>4, <1>5, <1>6 DEF PrefetchNext

LEMMA AlwaysCache == PrefetchSpec => []CacheInv
<1>1. PrefetchInit => CacheInv
  BY LayerInitHolds DEF PrefetchInit
<1>. QED  BY <1>1, EngineCacheStep, AlwaysEngine, PTL DEF PrefetchSpec

\* What the pass holds beside the GPU tier: the visit it is at may have evicted
\* one expert that it holds, and each visit before it one, but for the first.
HeldInv ==
    /\ held \subseteq {Key(e) : e \in routed}
    /\ phase = "idle" => held = {}
    /\ phase # "idle" => routed # {}
    /\ held # {} => Cardinality(OnGpu \cup held) <=
          AtLeast1(GpuSlots) + Cardinality(held) - IF phase = "check" THEN 0 ELSE 1

\* The sets it counts are finite.
LEMMA HeldFinite ==
    ASSUME SchedulerInv, Frame, HeldInv
    PROVE  /\ IsFiniteSet(routed) /\ IsFiniteSet(held) /\ IsFiniteSet(OnGpu)
           /\ IsFiniteSet(OnGpu \cup held)
           /\ Cardinality(held) <= Cardinality(routed)
           /\ AtLeast1(GpuSlots) \in Nat
           /\ Bounded(cache) => Cardinality(OnGpu) <= AtLeast1(GpuSlots)
<1>1. IsFiniteSet(routed)
  BY LayerAssumption, FS_Subset DEF Frame
<1>. DEFINE S == {Key(e) : e \in routed}
            f == [e \in routed |-> Key(e)]
<1>2. f \in Surjection(routed, S)
  <2>1. f \in [routed -> S] /\ \A k \in S : \E e \in routed : f[e] = k
    OBVIOUS
  <2>. HIDE DEF f, S
  <2>. QED  BY <2>1, Fun_IsSurj
<1>3. IsFiniteSet(S) /\ Cardinality(S) <= Cardinality(routed)
  <2>. HIDE DEF f, S
  <2>. QED  BY <1>1, <1>2, FS_Surjection
<1>4. held \in SUBSET S
  BY DEF HeldInv
<1>5. IsFiniteSet(held) /\ Cardinality(held) <= Cardinality(S)
  <2>. HIDE DEF S
  <2>. QED  BY <1>3, <1>4, FS_Subset
<1>6. Cardinality(held) <= Cardinality(routed)
  <2>. HIDE DEF S
  <2>. QED  BY <1>1, <1>3, <1>5, FS_CardinalityType
<1>7. IsFiniteSet(OnGpu) /\ Cardinality(OnGpu) = Len(cache.order["gpu"])
  BY ResidentFacts DEF SchedulerInv, TypeOK, OnGpu, Tier
<1>8. AtLeast1(GpuSlots) \in Nat
  BY AtLeast1Type, CacheAssumption
<1>9. Bounded(cache) => Cardinality(OnGpu) <= AtLeast1(GpuSlots)
  BY <1>7 DEF Bounded, Tier, SlotsOf
<1>. QED  BY <1>1, <1>5, <1>6, <1>7, <1>8, <1>9, FS_Union

\* A visit ends with the key in the GPU tier, and the pass holds it from then
\* on.
LEMMA EnsuredHeld ==
    ASSUME SchedulerInv, Frame, HeldInv, Bounded(cache), todo # {}, phase # "idle",
           held = {Key(e) : e \in routed \ todo},
           Ensured, Key(Current) \in OnGpu, OnGpu' = OnGpu
    PROVE  HeldInv'
<1>. DEFINE k == Key(Current)
<1>1. Current \in todo /\ Current \in routed
  BY CurrentFacts DEF Frame
<1>2. k \notin held
  BY <1>1 DEF Key
<1>3. k \in {Key(e) : e \in routed}
  BY <1>1
<1>. HIDE DEF k
<1>4. /\ held' = held \cup {k} /\ phase' \in {"compute", "look"}
      /\ UNCHANGED <<layer, routed>>
  BY DEF Ensured, k
<1>5. held' \subseteq {Key(e)' : e \in routed'}
  BY <1>3, <1>4 DEF HeldInv, Key
<1>6. (OnGpu \cup held)' = OnGpu \cup held
  BY <1>4 DEF k
<1>7. Cardinality(held') = Cardinality(held) + 1
  BY <1>2, <1>4, HeldFinite, FS_AddElement
<1>8. Cardinality(OnGpu \cup held) <= AtLeast1(GpuSlots) + Cardinality(held)
  <2>0. /\ Cardinality(held) \in Nat /\ Cardinality(OnGpu \cup held) \in Nat
        /\ AtLeast1(GpuSlots) \in Nat
    BY HeldFinite, FS_CardinalityType
  <2>1. CASE held = {}
    <3>1. OnGpu \cup held = OnGpu /\ Cardinality(held) = 0
      BY <2>1, FS_EmptySet
    <3>. QED  BY <2>0, <3>1, HeldFinite
  <2>2. CASE held # {}
    BY <2>0, <2>2 DEF HeldInv
  <2>. QED  BY <2>1, <2>2
<1>9. Cardinality((OnGpu \cup held)') <= AtLeast1(GpuSlots) + Cardinality(held') - 1
  <2>0. /\ Cardinality(held) \in Nat /\ Cardinality(OnGpu \cup held) \in Nat
        /\ AtLeast1(GpuSlots) \in Nat
    BY HeldFinite, FS_CardinalityType
  <2>1. Cardinality((OnGpu \cup held)') = Cardinality(OnGpu \cup held)
    BY <1>6
  <2>2. Cardinality(OnGpu \cup held) <= AtLeast1(GpuSlots) + Cardinality(held') - 1
    BY <1>7, <1>8, <2>0
  <2>. QED  BY <2>1, <2>2
<1>. QED  BY <1>4, <1>5, <1>9 DEF HeldInv

\* Until then the pass holds what it held, and nothing comes to the GPU tier
\* but the key of the transfer.
LEMMA SameHeld ==
    ASSUME SchedulerInv, Frame, HeldInv, UNCHANGED <<layer, routed, held>>, OnGpu' \subseteq OnGpu,
           phase' # "idle", phase # "idle", phase # "check"
    PROVE  HeldInv'
<1>1. /\ IsFiniteSet(OnGpu \cup held) /\ (OnGpu \cup held)' \in SUBSET (OnGpu \cup held)
      /\ IsFiniteSet(held) /\ AtLeast1(GpuSlots) \in Nat
  BY HeldFinite
<1>2. /\ Cardinality((OnGpu \cup held)') <= Cardinality(OnGpu \cup held)
      /\ Cardinality((OnGpu \cup held)') \in Nat /\ Cardinality(OnGpu \cup held) \in Nat
      /\ Cardinality(held) \in Nat
  BY <1>1, FS_Subset, FS_CardinalityType
<1>3. held' \subseteq {Key(e)' : e \in routed'}
  BY DEF HeldInv, Key
<1>4. held' # {} =>
        Cardinality((OnGpu \cup held)') <= AtLeast1(GpuSlots) + Cardinality(held') - 1
  BY <1>1, <1>2 DEF HeldInv
<1>. QED  BY <1>1, <1>2, <1>3, <1>4 DEF HeldInv

LEMMA ArrivedHeld ==
    ASSUME SchedulerInv, Frame, HeldInv, UNCHANGED <<layer, routed, held>>,
           NEW k, OnGpu' \subseteq OnGpu \cup {k},
           phase' = "check", phase # "idle", phase # "check"
    PROVE  HeldInv'
<1>. DEFINE A == OnGpu \cup held
            B == (OnGpu \cup held)'
<1>1. IsFiniteSet(A) /\ IsFiniteSet(held) /\ AtLeast1(GpuSlots) \in Nat
  BY HeldFinite
<1>2. B \in SUBSET (A \cup {k})
  OBVIOUS
<1>3. held # {} => Cardinality(A) <= AtLeast1(GpuSlots) + Cardinality(held) - 1
  BY DEF HeldInv
<1>. HIDE DEF A, B
<1>4. IsFiniteSet(A \cup {k}) /\ Cardinality(A \cup {k}) <= Cardinality(A) + 1
  <2>1. Cardinality(A) \in Nat
    BY <1>1, FS_CardinalityType
  <2>2. /\ IsFiniteSet(A \cup {k})
        /\ Cardinality(A \cup {k}) = IF k \in A THEN Cardinality(A) ELSE Cardinality(A) + 1
    BY <1>1, FS_AddElement
  <2>. QED  BY <2>1, <2>2
<1>5. Cardinality(B) <= Cardinality(A \cup {k}) /\ IsFiniteSet(B)
  BY <1>2, <1>4, FS_Subset
<1>6. /\ Cardinality(B) \in Nat /\ Cardinality(A) \in Nat /\ Cardinality(held) \in Nat
      /\ Cardinality(A \cup {k}) \in Nat
  BY <1>1, <1>4, <1>5, FS_CardinalityType
<1>7. held # {} => Cardinality(B) <= AtLeast1(GpuSlots) + Cardinality(held)
  BY <1>1, <1>3, <1>4, <1>5, <1>6
<1>8. held' # {} => Cardinality((OnGpu \cup held)') <= AtLeast1(GpuSlots) + Cardinality(held') - 0
  BY <1>1, <1>6, <1>7 DEF B
<1>9. held' \subseteq {Key(e)' : e \in routed'}
  BY DEF HeldInv, Key
<1>. QED  BY <1>8, <1>9 DEF HeldInv

\* A visit that has still to be held leaves fewer held than routed.
LEMMA CheckHoldsFewer ==
    ASSUME Frame, PassSoFar, phase = "check"
    PROVE  Cardinality(held) < Cardinality(routed)
<1>. DEFINE S == {Key(e) : e \in routed \ todo}
            f == [e \in routed \ todo |-> Key(e)]
<1>1. held = S /\ todo # {} /\ todo \subseteq routed
  BY DEF Frame, PassSoFar
<1>2. IsFiniteSet(routed) /\ IsFiniteSet(routed \ todo)
  BY LayerAssumption, FS_Subset DEF Frame
<1>3. f \in Surjection(routed \ todo, S)
  <2>1. f \in [routed \ todo -> S] /\ \A k \in S : \E e \in routed \ todo : f[e] = k
    OBVIOUS
  <2>. HIDE DEF f, S
  <2>. QED  BY <2>1, Fun_IsSurj
<1>. HIDE DEF f, S
<1>4. Cardinality(S) <= Cardinality(routed \ todo) /\ IsFiniteSet(S)
  BY <1>2, <1>3, FS_Surjection
<1>5. /\ Cardinality(routed \ todo) <= Cardinality(routed)
      /\ Cardinality(routed \ todo) # Cardinality(routed)
  BY <1>1, <1>2, FS_Subset
<1>6. Cardinality(S) \in Nat /\ Cardinality(routed \ todo) \in Nat /\ Cardinality(routed) \in Nat
  BY <1>2, <1>4, FS_CardinalityType
<1>. QED  BY <1>1, <1>4, <1>5, <1>6

\* A demand transfer that fails changes no tier.
LEMMA FailedLeavesCache ==
    ASSUME LayerInv, NEW fault, Execute(fault), Raise
    PROVE  cache' = cache
<1>. DEFINE k == Key(Current)
            r == DemandOf(k)
<1>0. /\ phase = "execute" /\ todo # {} /\ queue = <<r>> /\ ExecuteNext(fault)
      /\ (Succeeds(NextRequest, fault) => phase' = "check")
  BY DEF Execute, GoesTo, LayerInv, Frame, QueueIsOwn
<1>1. r \in Request /\ r.direction = "cpu_to_gpu"
  BY <1>0, CurrentFacts, DemandFacts, DemandIsIn DEF LayerInv
<1>2. NextRequest = r
  BY <1>0, <1>1, OwnRequest
<1>. HIDE DEF r, k
<1>3. ~ Succeeds(r, fault)
  BY <1>0, <1>2 DEF Raise
<1>4. TransferRefused(r) \/ TransferRuns(r, fault)
  BY <1>0, <1>1, <1>2 DEF ExecuteNext
<1>. QED  BY <1>1, <1>3, <1>4 DEF Succeeds, TransferRefused, TransferRuns

\* The steps of a pass keep it.
LEMMA StepHeld ==
    ASSUME Policy # "arc", LayerInv, CacheInv, HeldInv, Step
    PROVE  HeldInv'
<1>0. /\ SchedulerInv /\ Frame /\ PassSoFar /\ VisitSoFar /\ Bounded(cache)
      /\ IsCache(cache) /\ (todo # {} => Key(Current) \in Expert)
  BY CurrentFacts DEF LayerInv, CacheInv, SchedulerInv, TypeOK
<1>1. ASSUME NEW p \in {"submit", "execute"}, GoesTo(p), OnGpu' = OnGpu, phase \in {"look", "submit"}
      PROVE  HeldInv'
  BY <1>0, <1>1, SameHeld DEF GoesTo
<1>2. ASSUME Raise, OnGpu' = OnGpu, phase \in {"look", "submit", "execute"}
      PROVE  HeldInv'
  BY <1>0, <1>2, SameHeld DEF Raise
<1>3. CASE Look
  <2>1. /\ phase = "look" /\ todo # {} /\ held = {Key(e) : e \in routed \ todo}
        /\ Key(Current) \in Expert
    BY <1>0, <1>3 DEF Look, Frame, PassSoFar
  <2>2. OnGpu' = OnGpu
    <3>1. CASE cache' = CacheGet(cache, Key(Current))
      BY <1>0, <2>1, <3>1, GpuTier DEF OnGpu
    <3>2. CASE Load(Key(Current))
      BY <1>0, <2>1, <3>2, GpuTier DEF Load, Uses, OnGpu
    <3>. QED  BY <1>3, <3>1, <3>2 DEF Look, Uses
  <2>3. CASE Ensured /\ Key(Current) \in OnGpu
    BY <1>0, <2>1, <2>2, <2>3, EnsuredHeld
  <2>. QED  BY <1>1, <1>2, <1>3, <2>1, <2>2, <2>3 DEF Look
<1>4. CASE SubmitDemand
  <2>1. phase = "submit" /\ OnGpu' = OnGpu
    BY <1>4 DEF SubmitDemand, Submit, vars, OnGpu
  <2>. QED  BY <1>1, <1>2, <1>4, <2>1 DEF SubmitDemand
<1>5. ASSUME NEW fault \in Faults \cup {"none"}, Execute(fault) PROVE HeldInv'
  <2>1. phase = "execute" /\ todo # {}
    BY <1>0, <1>5 DEF Execute, Frame
  <2>2. CASE GoesTo("check")
    <3>1. phase' = "check" /\ UNCHANGED <<layer, routed, held>>
      BY <2>2 DEF GoesTo
    <3>2. cache' = CachePut(cache, Key(Current), "cuda")
      BY <1>5, <3>1, TransferArrives
    <3>3. OnGpu' \subseteq OnGpu \cup {Key(Current)}
      BY <1>0, <2>1, <3>2, GpuTier DEF OnGpu
    <3>. QED  BY <1>0, <2>1, <3>1, <3>3, ArrivedHeld
  <2>3. CASE Raise
    <3>1. OnGpu' = OnGpu
      BY <1>5, <2>3, FailedLeavesCache DEF OnGpu
    <3>. QED  BY <1>2, <2>1, <2>3, <3>1
  <2>. QED  BY <1>5, <2>2, <2>3 DEF Execute
<1>6. CASE Check
  <2>1. /\ phase = "check" /\ todo # {} /\ held = {Key(e) : e \in routed \ todo}
        /\ Key(Current) \in OnGpu /\ Ensured /\ cache' = CacheGet(cache, Key(Current))
    BY <1>0, <1>6 DEF Check, Frame, PassSoFar, VisitSoFar, Uses
  <2>2. OnGpu' = OnGpu
    BY <1>0, <2>1, GpuTier DEF OnGpu
  <2>. QED  BY <1>0, <2>1, <2>2, EnsuredHeld
<1>7. CASE Compute
  BY <1>0, <1>7, SameHeld DEF Compute, vars, OnGpu
<1>8. CASE ReleaseOne
  <2>1. /\ todo # {} /\ cache' = CacheDemote(cache, Key(Current))
        /\ phase = "release" /\ phase' = "release" /\ UNCHANGED <<layer, routed, held>>
    BY <1>8 DEF ReleaseOne, Uses
  <2>2. OnGpu' \subseteq OnGpu
    BY <1>0, <2>1, GpuTier DEF OnGpu
  <2>. QED  BY <1>0, <2>1, <2>2, SameHeld
<1>9. CASE Return
  BY <1>9 DEF Return, HeldInv
<1>. QED  BY <1>3, <1>4, <1>5, <1>6, <1>7, <1>8, <1>9 DEF Step

\* So does what happens between the passes, and the start of one.
LEMMA OutsideHeld ==
    ASSUME HeldInv,
           \/ cache' = cache /\ UNCHANGED layerVars
           \/ phase = "idle" /\ UNCHANGED layerVars
    PROVE  HeldInv'
  BY DEF HeldInv, layerVars, OnGpu, Key

LEMMA RouteHeld ==
    ASSUME NEW l, NEW experts \in Selections, Route(l, experts)
    PROVE  HeldInv'
  BY SelectionFacts DEF Route, HeldInv

LEMMA AlwaysHeld ==
    ASSUME Policy # "arc"
    PROVE  PrefetchSpec => []HeldInv
<1>1. PrefetchInit => HeldInv
  BY DEF PrefetchInit, LayerInit, HeldInv
<1>2. EngineInv /\ CacheInv /\ HeldInv /\ [PrefetchNext]_engineVars => HeldInv'
  <2>. SUFFICES ASSUME EngineInv, CacheInv, HeldInv, [PrefetchNext]_engineVars PROVE HeldInv'
    OBVIOUS
  <2>1. ASSUME NEW experts \in Selections, StartLayer(experts) PROVE HeldInv'
    BY <2>1, RouteHeld DEF StartLayer
  <2>2. CASE LayerStep
    BY <2>2, StepHeld DEF LayerStep, EngineInv
  <2>3. CASE Callback
    <3>1. phase = "idle"
      BY <2>3 DEF Callback, OnLayerComplete, SchedulePrefetch, CallbackReturns, EngineInv,
                  PrefetchFrame
    <3>2. UNCHANGED layerVars
      BY <2>3 DEF Callback, OnLayerComplete, SchedulePrefetch, CallbackReturns, allVars
    <3>. QED  BY <3>1, <3>2, OutsideHeld
  <2>4. CASE Poll
    BY <2>4, OutsideHeld DEF Poll
  <2>5. CASE GpuStep /\ UNCHANGED <<layerVars, prefetchVars>>
    BY <2>5, OutsideHeld DEF GpuStep
  <2>6. CASE UNCHANGED engineVars
    BY <2>6, OutsideHeld DEF engineVars, allVars, vars
  <2>. QED  BY <2>1, <2>2, <2>3, <2>4, <2>5, <2>6 DEF PrefetchNext
<1>. QED  BY <1>1, <1>2, AlwaysEngine, AlwaysCache, PTL DEF PrefetchSpec

\* Under LRU and LFU a pass never has more experts on the GPU than the slots
\* of the GPU tier and one less than it routes to, though what it holds may be
\* evicted at every transfer, and between the passes no more than the slots.
THEOREM GpuCopiesStayBounded ==
    ASSUME Policy # "arc"
    PROVE  PrefetchSpec => []GpuCopiesBounded
<1>1. EngineInv /\ CacheInv /\ HeldInv => GpuCopiesBounded
  <2>. SUFFICES ASSUME EngineInv, CacheInv, HeldInv PROVE GpuCopiesBounded
    OBVIOUS
  <2>. DEFINE U == Cardinality(OnGpu \cup held)
              g == AtLeast1(GpuSlots)
              h == Cardinality(held)
              n == Cardinality(routed)
  <2>0. SchedulerInv /\ Frame /\ PassSoFar /\ Bounded(cache)
    BY DEF EngineInv, LayerInv, CacheInv
  <2>1. /\ U \in Nat /\ g \in Nat /\ h \in Nat /\ n \in Nat /\ h <= n
        /\ IsFiniteSet(routed) /\ IsFiniteSet(held)
    BY <2>0, HeldFinite, FS_CardinalityType
  <2>2. CASE held = {}
    <3>1. U <= g
      <4>1. OnGpu \cup held = OnGpu
        BY <2>2
      <4>. QED  BY <2>0, <4>1, HeldFinite
    <3>2. phase # "idle" => n >= 1
      BY <2>1, FS_EmptySet DEF HeldInv
    <3>. HIDE DEF U, g, h, n
    <3>3. U <= g + IF phase = "idle" THEN 0 ELSE n - 1
      BY <2>1, <3>1, <3>2
    <3>. QED  BY <3>3 DEF GpuCopiesBounded, U, g, n
  <2>3. CASE held # {} /\ phase = "check"
    <3>1. U <= g + h
      <4>1. U <= g + h - 0
        BY <2>3 DEF HeldInv
      <4>. HIDE DEF U, g, h
      <4>. QED  BY <2>1, <4>1
    <3>2. h < n
      BY <2>0, <2>3, CheckHoldsFewer
    <3>. HIDE DEF U, g, h, n
    <3>3. U <= g + n - 1
      BY <2>1, <3>1, <3>2
    <3>. QED  BY <2>3, <3>3 DEF GpuCopiesBounded, U, g, n
  <2>4. CASE held # {} /\ phase # "check"
    <3>1. U <= g + h - 1 /\ phase # "idle"
      BY <2>4 DEF HeldInv
    <3>. HIDE DEF U, g, h, n
    <3>2. U <= g + n - 1
      BY <2>1, <3>1
    <3>. QED  BY <3>1, <3>2 DEF GpuCopiesBounded, U, g, n
  <2>. QED  BY <2>2, <2>3, <2>4
<1>. QED  BY <1>1, AlwaysEngine, AlwaysCache, AlwaysHeld, PTL

\* The CPU tier never holds more experts than its slots, whatever the policy,
\* the faults and the order of passes, prefetches and polls: every put into it
\* follows a miss, which gives even ARC something to choose.
THEOREM CpuTierBounded ==
    /\ LayerSpec => []CpuWithinSlots
    /\ PrefetchSpec => []CpuWithinSlots
<1>1. CacheInv => CpuWithinSlots
  BY DEF CacheInv, CpuWithinSlots
<1>. QED  BY <1>1, AlwaysLayer, AlwaysCache, PTL

\* The ghost lists of ARC, which every eviction extends and only a miss cuts,
\* never exceed the cap by more than one entry, whatever the faults: there is
\* no second eviction before the next miss.
THEOREM GhostsStayBounded ==
    /\ LayerSpec => []GhostsBounded
    /\ PrefetchSpec => []GhostsBounded
<1>1. CacheInv => GhostsBounded
  <2>. SUFFICES ASSUME GhostsCapped(cache), NEW t \in Tier
                PROVE  /\ Len(cache.arc[t].b1) <= SlotsOf(t) + 1
                       /\ Len(cache.arc[t].b2) <= SlotsOf(t) + 1
    BY DEF CacheInv, GhostsBounded
  <2>1. CASE t = "gpu"
    <3>1. Len(EmptyArc.b1) = 0 /\ Len(EmptyArc.b2) = 0
      BY DEF EmptyArc
    <3>. QED  BY <2>1, <3>1, CacheAssumption DEF GhostsCapped, SlotsOf
  <2>2. CASE t = "cpu"
    BY <2>2 DEF GhostsCapped, SlotsOf
  <2>. QED  BY <2>1, <2>2 DEF Tier
<1>. QED  BY <1>1, AlwaysLayer, AlwaysCache, PTL

\* Under LRU and LFU neither tier ever holds more experts than its slots.
THEOREM BothTiersBounded ==
    ASSUME Policy # "arc"
    PROVE  PrefetchSpec => []Bounded(cache)
<1>1. CacheInv => Bounded(cache)
  BY DEF CacheInv
<1>. QED  BY <1>1, AlwaysCache, PTL

\* Under ARC, unless a load fails, passes and prefetches never leave a key
\* twice in the lists of its tier, nor a target size beyond the slots.
THEOREM ArcListsStayDisjoint ==
    ASSUME Policy = "arc", "load" \notin LayerFaults
    PROVE  /\ LayerSpec => []ArcListsDisjoint
           /\ PrefetchSpec => []ArcListsDisjoint
<1>1. LayerInv /\ CacheInv => ArcListsDisjoint
  BY OwnedIsDisjoint DEF CacheInv, LayerInv, SchedulerInv, TypeOK
<1>2. EngineInv => LayerInv
  BY DEF EngineInv
<1>. QED  BY <1>1, <1>2, AlwaysLayer, AlwaysEngine, AlwaysCache, PTL

-----------------------------------------------------------------------------
(***************************************************************************)
(* The slots and the limit of the scheduler, shared                        *)
(***************************************************************************)

\* A step of a pass is a step of the scheduler, or a call that only changes
\* the cache.
LEMMA StepOfScheduler ==
    ASSUME LayerInv, Step
    PROVE  Next \/ UNCHANGED <<pool, stream, queue, handles>>
<1>1. ASSUME todo # {}
      PROVE  Key(Current) \in Expert /\ DemandOf(Key(Current)) \in Request
  BY <1>1, CurrentFacts, DemandFacts DEF LayerInv
<1>2. CASE SubmitDemand
  <2>1. DemandOf(Key(Current)) \in Request
    BY <1>1, <1>2 DEF LayerInv, Frame, SubmitDemand
  <2>2. CASE Submit(DemandOf(Key(Current)))
    BY <2>1, <2>2 DEF Next
  <2>. QED  BY <1>2, <2>2 DEF SubmitDemand, vars
<1>3. ASSUME NEW fault \in Faults \cup {"none"}, Execute(fault) PROVE Next
  BY <1>3 DEF Next, Execute
<1>4. CASE Look \/ Check \/ Compute \/ ReleaseOne \/ Return
  BY <1>4 DEF Look, Check, Compute, ReleaseOne, Return, Load, Uses, vars
<1>. QED  BY <1>2, <1>3, <1>4 DEF Step

\* So is a step of the engine, but for the cancellation of what is stale,
\* which marks any number of transfers, and for a prefetch beyond the last
\* layer, which takes a slot and gives it back.
LEMMA EngineOfScheduler ==
    ASSUME EngineInv, [PrefetchNext]_engineVars
    PROVE  \/ [Next]_vars
           \/ UNCHANGED <<stream, queue, handles>>
           \/ /\ UNCHANGED <<stream, queue>> /\ InFlight' = InFlight
              /\ \A k \in InFlight : handles'[k].slot = handles[k].slot
<1>0. LayerInv /\ Ids /\ PrefetchFrame
  BY DEF EngineInv
<1>1. CASE LayerStep
  BY <1>0, <1>1, StepOfScheduler DEF LayerStep
<1>2. CASE OnLayerComplete
  <2>1. \A k \in InFlight : handles[k] \in Handle
    BY <1>0 DEF LayerInv, SchedulerInv, TypeOK
  <2>2. /\ UNCHANGED <<stream, queue>>
        /\ handles' = [k \in InFlight |->
                IF k \in DOMAIN remembered /\ Stale(k) /\ handles[k].id = remembered[k]
                THEN [handles[k] EXCEPT !.status = "cancelled"]
                ELSE handles[k]]
    BY <1>2 DEF OnLayerComplete
  <2>3. InFlight' = InFlight /\ \A k \in InFlight : handles'[k].slot = handles[k].slot
    BY <2>1, <2>2 DEF InFlight, Handle
  <2>. QED  BY <2>2, <2>3
<1>3. ASSUME NEW fault \in Faults \cup {"none"}, SchedulePrefetch(fault)
      PROVE  [Next]_vars \/ UNCHANGED <<stream, queue, handles>>
  <2>1. SubmitIfNeeded(FirstWanted, fault)
    BY <1>3 DEF SchedulePrefetch
  <2>2. CASE /\ FirstWanted \in Expert
             /\ SubmitAsync(Fresh(FirstWanted), fault)
    <3>1. Fresh(FirstWanted) \in Request
      BY <1>0, <2>2, FreshFacts
    <3>. QED  BY <2>2, <3>1 DEF Next
  <2>. QED  BY <2>1, <2>2 DEF SubmitIfNeeded, SubmitBeyond, vars
<1>4. CASE Poll
  BY <1>4 DEF Poll, Next
<1>5. CASE GpuStep
  BY <1>5 DEF Next
<1>6. ASSUME NEW experts, StartLayer(experts) PROVE UNCHANGED vars
  BY <1>6 DEF StartLayer, Route
<1>7. CASE CallbackReturns \/ UNCHANGED engineVars
  BY <1>7 DEF CallbackReturns, engineVars, allVars
<1>. QED  BY <1>1, <1>2, <1>3, <1>4, <1>5, <1>6, <1>7 DEF PrefetchNext, Callback

LEMMA SharedCopies ==
    ASSUME "copy" \notin Faults
    PROVE  EngineInv /\ CopiesOwned /\ [PrefetchNext]_engineVars => CopiesOwned'
<1>. SUFFICES ASSUME EngineInv, CopiesOwned, [PrefetchNext]_engineVars PROVE CopiesOwned'
  OBVIOUS
<1>0. SchedulerInv
  BY DEF EngineInv, LayerInv
<1>1. CASE [Next]_vars
  BY <1>0, <1>1, CopiesStep
<1>2. CASE UNCHANGED <<stream, handles>>
  BY <1>0, <1>2, CopiesStay DEF InFlight
<1>3. CASE /\ UNCHANGED stream /\ InFlight' = InFlight
           /\ \A k \in InFlight : handles'[k].slot = handles[k].slot
  BY <1>0, <1>3, CopiesStay
<1>. QED  BY <1>1, <1>2, <1>3, EngineOfScheduler

LEMMA SharedFew == EngineInv /\ FewInFlight /\ [PrefetchNext]_engineVars => FewInFlight'
<1>. SUFFICES ASSUME EngineInv, FewInFlight, [PrefetchNext]_engineVars PROVE FewInFlight'
  OBVIOUS
<1>0. SchedulerInv
  BY DEF EngineInv, LayerInv
<1>1. CASE [Next]_vars
  BY <1>0, <1>1, FewStep
<1>2. CASE InFlight' = InFlight
  BY <1>2 DEF FewInFlight
<1>. QED  BY <1>1, <1>2, EngineOfScheduler DEF InFlight

\* Prefetches whose copies are pending keep their slots from the demand
\* transfers of the passes, as long as no copy fails while it is enqueued:
\* also when they are cancelled, or asked for beyond the last layer.
THEOREM SharedDmaIsSafe ==
    ASSUME "copy" \notin Faults
    PROVE  PrefetchSpec => []NoReuseDuringDma
<1>1. PrefetchInit => CopiesOwned
  BY DEF PrefetchInit, LayerInit, Init, CopiesOwned
<1>2. EngineInv => SchedulerInv
  BY DEF EngineInv, LayerInv
<1>. QED  BY <1>1, <1>2, CopiesAreSafe, SharedCopies, AlwaysEngine, PTL DEF PrefetchSpec

\* However many experts the layers ask for ahead, the engine stays within
\* max_concurrent, counting the cancelled transfers nobody has polled yet, and
\* the passes queue nothing twice.
THEOREM SharedLimit == PrefetchSpec => []Deduplicated
<1>1. PrefetchInit => FewInFlight
  <2>. SUFFICES ASSUME PrefetchInit PROVE FewInFlight
    OBVIOUS
  <2>1. InFlight = {}
    BY DEF PrefetchInit, LayerInit, Init, InFlight
  <2>. QED  BY <2>1, FS_EmptySet, SchedulerAssumption DEF FewInFlight
<1>2. EngineInv /\ FewInFlight => Deduplicated
  <2>. SUFFICES ASSUME EngineInv, FewInFlight PROVE Deduplicated
    OBVIOUS
  <2>1. \A i, j \in DOMAIN queue : i = j
    BY DEF EngineInv, LayerInv, QueueIsOwn
  <2>. QED  BY <2>1 DEF Deduplicated, FewInFlight
<1>. QED  BY <1>1, <1>2, SharedFew, AlwaysEngine, PTL DEF PrefetchSpec
=============================================================================
