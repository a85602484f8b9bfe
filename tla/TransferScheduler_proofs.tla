---------------------- MODULE TransferScheduler_proofs ----------------------
(***************************************************************************)
(* Proofs about TransferScheduler with its cache, pool and stream, for any *)
(* sets of experts and requests and any limits.                            *)
(***************************************************************************)
EXTENDS TransferScheduler, ExpertCache_proofs

-----------------------------------------------------------------------------
(***************************************************************************)
(* The staging pool                                                        *)
(***************************************************************************)

IsPool(p) == p \in Seq(Slot) /\ Len(p) <= PoolSlots

\* q is p after slot s, which nobody used, has been handed out.
HandsOut(p, s, q) ==
    /\ IsPool(q)
    /\ s \in DOMAIN q /\ s \in 1 .. PoolSlots
    /\ DOMAIN q = DOMAIN p \cup {s}
    /\ q[s].in_use
    /\ s \in DOMAIN p => ~ p[s].in_use
    /\ \A u \in DOMAIN p \ {s} : q[u] = p[u]

\* acquire hands out a slot nobody uses and leaves the others alone.
LEMMA AcquireFacts ==
    ASSUME NEW p, IsPool(p), NEW str, ~ Exhausted(p, str)
    PROVE  HandsOut(p, AcquiredSlot(p, str), Acquire(p, str))
<1>. DEFINE s == AcquiredSlot(p, str)
            q == Acquire(p, str)
            R == ReusableSlots(p, str)
<1>0. p \in Seq(Slot) /\ Len(p) <= PoolSlots /\ PoolSlots \in Nat
      /\ Len(p) \in Nat /\ DOMAIN p = 1 .. Len(p)
  BY SchedulerAssumption DEF IsPool
<1>1. CASE R # {}
  <2>1. R \in SUBSET Nat /\ R \subseteq DOMAIN p
    BY <1>0 DEF ReusableSlots
  <2>2. s \in R
    BY <1>1, <2>1, MinIsLeast DEF AcquiredSlot
  <2>3. s \in DOMAIN p /\ ~ p[s].in_use
    BY <2>2 DEF ReusableSlots, Reusable
  <2>4. p[s] \in Slot
    BY <1>0, <2>3
  <2>5. q = [p EXCEPT ![s].in_use = TRUE, ![s].ready_event = FALSE]
    BY <1>1 DEF Acquire
  <2>. HIDE DEF s, q
  <2>. DEFINE v == [[p[s] EXCEPT !.in_use = TRUE] EXCEPT !.ready_event = FALSE]
  <2>6. v \in Slot /\ v.in_use
    BY <2>4 DEF Slot
  <2>7. q = [p EXCEPT ![s] = v]
    BY <2>5
  <2>. HIDE DEF v
  <2>8. q \in Seq(Slot) /\ Len(q) = Len(p) /\ DOMAIN q = DOMAIN p
    BY <1>0, <2>3, <2>6, <2>7
  <2>. QED
    BY <1>0, <2>3, <2>6, <2>7, <2>8 DEF HandsOut, IsPool, s, q
<1>2. CASE R = {}
  <2>1. s = Len(p) + 1 /\ q = Append(p, NewSlot) /\ Len(p) < PoolSlots
    BY <1>0, <1>2 DEF AcquiredSlot, Acquire, Exhausted
  <2>2. NewSlot \in Slot /\ NewSlot.in_use
    BY DEF NewSlot, Slot
  <2>. HIDE DEF s, q
  <2>3. q \in Seq(Slot) /\ Len(q) = Len(p) + 1 /\ DOMAIN q = 1 .. Len(p) + 1
    BY <1>0, <2>1, <2>2
  <2>. QED
    BY <1>0, <2>1, <2>2, <2>3 DEF HandsOut, IsPool, s, q
<1>. QED  BY <1>1, <1>2

\* Staging, marking and releasing a slot touch that slot only.
LEMMA SlotFacts ==
    ASSUME NEW p, IsPool(p), NEW s \in DOMAIN p
    PROVE  /\ IsPool(Release(p, s)) /\ DOMAIN Release(p, s) = DOMAIN p
           /\ ~ Release(p, s)[s].in_use
           /\ \A u \in DOMAIN p \ {s} : Release(p, s)[u] = p[u]
           /\ IsPool(MarkEvent(p, s)) /\ DOMAIN MarkEvent(p, s) = DOMAIN p
           /\ \A u \in DOMAIN p \ {s} : MarkEvent(p, s)[u] = p[u]
<1>. DEFINE freed == [p[s] EXCEPT !.in_use = FALSE]
            marked == [p[s] EXCEPT !.ready_event = TRUE]
<1>1. /\ Release(p, s) = [p EXCEPT ![s] = freed]
      /\ MarkEvent(p, s) = [p EXCEPT ![s] = marked]
  BY DEF Release, MarkEvent
<1>2. p[s] \in Slot
  BY DEF IsPool
<1>3. freed \in Slot /\ marked \in Slot /\ ~ freed.in_use
  BY <1>2 DEF Slot
<1>. HIDE DEF freed, marked
<1>4. \A v \in Slot : LET q == [p EXCEPT ![s] = v] IN
                          /\ IsPool(q) /\ DOMAIN q = DOMAIN p /\ q[s] = v
                          /\ \A u \in DOMAIN p \ {s} : q[u] = p[u]
  BY DEF IsPool
<1>. QED  BY <1>1, <1>3, <1>4

LEMMA StageFacts ==
    ASSUME NEW p, IsPool(p), NEW s \in DOMAIN p, NEW content \in Expert \cup {NoExpert}
    PROVE  /\ IsPool(Stage(p, s, content)) /\ DOMAIN Stage(p, s, content) = DOMAIN p
           /\ Stage(p, s, content)[s].in_use = p[s].in_use
           /\ Stage(p, s, content)[s].holds = content
           /\ \A u \in DOMAIN p \ {s} : Stage(p, s, content)[u] = p[u]
<1>. DEFINE filled == [p[s] EXCEPT !.holds = content]
<1>1. Stage(p, s, content) = [p EXCEPT ![s] = filled]
  BY DEF Stage
<1>2. p[s] \in Slot
  BY DEF IsPool
<1>3. filled \in Slot /\ filled.in_use = p[s].in_use /\ filled.holds = content
  BY <1>2 DEF Slot
<1>. HIDE DEF filled
<1>4. \A v \in Slot : LET q == [p EXCEPT ![s] = v] IN
                          /\ IsPool(q) /\ DOMAIN q = DOMAIN p /\ q[s] = v
                          /\ \A u \in DOMAIN p \ {s} : q[u] = p[u]
  BY DEF IsPool
<1>. QED  BY <1>1, <1>3, <1>4

\* After q the same slots are in use as after p, with the same content.
SameUsers(p, q) ==
    /\ IsPool(q)
    /\ DOMAIN p \subseteq DOMAIN q
    /\ \A u \in DOMAIN q : q[u].in_use <=> u \in DOMAIN p /\ p[u].in_use
    /\ \A u \in DOMAIN p : p[u].in_use => q[u] = p[u]

\* A transfer that gives its slot back at once leaves the users as they were,
\* whether it got as far as staging its expert or not.
LEMMA ReturnedSlot ==
    ASSUME NEW p, IsPool(p), NEW str, ~ Exhausted(p, str),
           NEW content \in Expert \cup {NoExpert}
    PROVE  LET s == AcquiredSlot(p, str)
               q == Acquire(p, str)
           IN /\ SameUsers(p, Release(q, s))
              /\ SameUsers(p, Release(Stage(q, s, content), s))
<1>. DEFINE s == AcquiredSlot(p, str)
            q == Acquire(p, str)
<1>1. /\ IsPool(q) /\ s \in DOMAIN q /\ DOMAIN q = DOMAIN p \cup {s}
      /\ s \in DOMAIN p => ~ p[s].in_use
      /\ \A u \in DOMAIN p \ {s} : q[u] = p[u]
  <2>1. HandsOut(p, s, q)
    BY AcquireFacts
  <2>. HIDE DEF s, q
  <2>. QED  BY <2>1 DEF HandsOut
<1>. HIDE DEF s, q
<1>2. SameUsers(p, Release(q, s))
  <2>1. /\ IsPool(Release(q, s)) /\ DOMAIN Release(q, s) = DOMAIN q
        /\ ~ Release(q, s)[s].in_use
        /\ \A u \in DOMAIN q \ {s} : Release(q, s)[u] = q[u]
    BY <1>1, SlotFacts
  <2>. QED  BY <1>1, <2>1 DEF SameUsers
<1>3. SameUsers(p, Release(Stage(q, s, content), s))
  <2>. DEFINE r == Stage(q, s, content)
  <2>1. /\ IsPool(r) /\ DOMAIN r = DOMAIN q
        /\ \A u \in DOMAIN q \ {s} : r[u] = q[u]
    BY <1>1, StageFacts
  <2>. HIDE DEF r
  <2>2. /\ IsPool(Release(r, s)) /\ DOMAIN Release(r, s) = DOMAIN r
        /\ ~ Release(r, s)[s].in_use
        /\ \A u \in DOMAIN r \ {s} : Release(r, s)[u] = r[u]
    BY <1>1, <2>1, SlotFacts
  <2>. QED  BY <1>1, <2>1, <2>2 DEF SameUsers, r
<1>. QED  BY <1>2, <1>3 DEF s, q

-----------------------------------------------------------------------------
(***************************************************************************)
(* Types and the ownership of slots                                        *)
(***************************************************************************)

\* The slots in use are those of the handles, each of its own, and each holds
\* the expert of its handle.
Owned ==
    /\ \A s \in DOMAIN pool : pool[s].in_use <=> \E k \in InFlight : handles[k].slot = s
    /\ \A k \in InFlight :
          /\ handles[k].slot \in DOMAIN pool
          /\ pool[handles[k].slot].holds = k
    /\ \A j, k \in InFlight : handles[j].slot = handles[k].slot => j = k

SchedulerInv == TypeOK /\ Owned

\* Ownership does not depend on slots that nobody uses, nor on anything of a
\* handle but its slot.
LEMMA OwnersStay ==
    ASSUME Owned, SameUsers(pool, pool'), InFlight' = InFlight,
           \A k \in InFlight : handles'[k].slot = handles[k].slot
    PROVE  Owned'
<1>1. ASSUME NEW k \in InFlight
      PROVE  /\ handles'[k].slot = handles[k].slot
             /\ handles[k].slot \in DOMAIN pool'
             /\ pool'[handles[k].slot] = pool[handles[k].slot]
  <2>1. handles[k].slot \in DOMAIN pool /\ pool[handles[k].slot].in_use
    BY DEF Owned
  <2>. QED  BY <2>1 DEF SameUsers
<1>2. ASSUME NEW s \in DOMAIN pool'
      PROVE  pool'[s].in_use <=> \E k \in InFlight : handles'[k].slot = s
  <2>1. pool'[s].in_use <=> s \in DOMAIN pool /\ pool[s].in_use
    BY DEF SameUsers
  <2>2. ASSUME NEW k \in InFlight, handles'[k].slot = s PROVE pool'[s].in_use
    BY <1>1, <2>1, <2>2 DEF Owned
  <2>3. ASSUME s \in DOMAIN pool, pool[s].in_use
        PROVE  \E k \in InFlight : handles'[k].slot = s
    BY <1>1, <2>3 DEF Owned
  <2>. QED  BY <2>1, <2>2, <2>3
<1>. QED  BY <1>1, <1>2 DEF Owned

\* What the GPU does to the handles: the experts whose copies it has done are
\* there, and nothing else changes.
LEMMA CopiedFacts ==
    ASSUME SchedulerInv, NEW ops
    PROVE  /\ Copied(ops) \in [InFlight -> Handle]
           /\ DOMAIN Copied(ops) = InFlight
           /\ \A k \in InFlight :
                 /\ Copied(ops)[k].id = handles[k].id
                 /\ Copied(ops)[k].slot = handles[k].slot
                 /\ Copied(ops)[k].status = handles[k].status
                 /\ Copied(ops)[k].gpu_state =
                       IF \E i \in DOMAIN ops : ops[i].op = "copy" /\ ops[i].handle = k
                       THEN k ELSE handles[k].gpu_state
<1>1. DOMAIN Copied(ops) = InFlight
  BY DEF Copied
<1>2. ASSUME NEW k \in InFlight
      PROVE  /\ Copied(ops)[k] \in Handle
             /\ Copied(ops)[k].id = handles[k].id
             /\ Copied(ops)[k].slot = handles[k].slot
             /\ Copied(ops)[k].status = handles[k].status
             /\ Copied(ops)[k].gpu_state =
                   IF \E i \in DOMAIN ops : ops[i].op = "copy" /\ ops[i].handle = k
                   THEN k ELSE handles[k].gpu_state
  <2>1. handles[k] \in Handle /\ k \in Expert /\ pool[handles[k].slot].holds = k
    BY DEF SchedulerInv, TypeOK, Owned
  <2>2. CASE \E i \in DOMAIN ops : ops[i].op = "copy" /\ ops[i].handle = k
    <3>1. Copied(ops)[k] = [handles[k] EXCEPT !.gpu_state = k]
      BY <2>1, <2>2 DEF Copied
    <3>. QED  BY <2>1, <2>2, <3>1 DEF Handle
  <2>3. CASE ~ \E i \in DOMAIN ops : ops[i].op = "copy" /\ ops[i].handle = k
    <3>1. Copied(ops)[k] = handles[k]
      BY <2>3 DEF Copied
    <3>. QED  BY <2>1, <2>3, <3>1
  <2>. QED  BY <2>2, <2>3
<1>3. Copied(ops) = [k \in InFlight |-> Copied(ops)[k]]
  BY DEF Copied
<1>. QED  BY <1>1, <1>2, <1>3

\* The heap has a first element: _sort_key orders requests by two numbers.
LEMMA NextIsQueued ==
    ASSUME queue \in Seq(Request), queue # << >>
    PROVE  NextRequest \in ToSet(queue) /\ NextRequest \in Request
<1>. DEFINE Q == ToSet(queue)
            P == {r.priority : r \in Q}
            m == Min(P)
            T == {r.issued_at : r \in {q \in Q : q.priority = m}}
            n == Min(T)
<1>1. Q \subseteq Request /\ Q # {}
  <2>1. 1 \in DOMAIN queue /\ \A i \in DOMAIN queue : queue[i] \in Request
    OBVIOUS
  <2>. QED  BY <2>1 DEF ToSet
<1>. HIDE DEF Q
<1>2. \A r \in Request : r.priority \in Nat /\ r.issued_at \in Nat
  BY SchedulerAssumption
<1>3. P \in SUBSET Nat /\ P # {}
  BY <1>1, <1>2
<1>4. m \in P /\ \A i \in P : m <= i
  BY <1>3, MinIsLeast
<1>. HIDE DEF m
<1>5. T \in SUBSET Nat /\ T # {}
  BY <1>1, <1>2, <1>4
<1>6. n \in T /\ \A i \in T : n <= i
  BY <1>5, MinIsLeast
<1>. HIDE DEF n
<1>7. PICK r \in Q : r.priority = m /\ r.issued_at = n
  BY <1>6
<1>8. ASSUME NEW q \in Q PROVE r = q \/ Before(r, q)
  <2>1. r \in Request /\ q \in Request /\ m <= q.priority
        /\ (q.priority = m => n <= q.issued_at)
    BY <1>1, <1>4, <1>6
  <2>2. r = q \/ q.priority # m \/ q.issued_at # n
    BY <1>7, <2>1, SchedulerAssumption
  <2>. QED  BY <1>2, <1>7, <2>1, <2>2 DEF Before
<1>9. NextRequest \in Q
  BY <1>7, <1>8 DEF NextRequest, Q
<1>. QED  BY <1>1, <1>9 DEF Q

\* Requests are taken off the queue with list.remove.
LEMMA QueueFacts ==
    ASSUME queue \in Seq(Request)
    PROVE  /\ \A r : RemoveFirst(queue, r) \in Seq(Request)
           /\ \A r \in Request : Append(queue, r) \in Seq(Request)
  BY RemoveFirstFacts, AppendFacts

\* Cache calls keep the cache well formed.
LEMMA CacheStays ==
    ASSUME IsCache(cache), NEW k \in Expert
    PROVE  /\ IsCache(CacheGet(cache, k))
           /\ IsCache(CachePut(cache, k, "cuda"))
           /\ IsCache(CachePut(cache, k, "cpu"))
           /\ IsCache(CachePut(CacheGet(cache, k), k, "cpu"))
           /\ IsCache(CacheDemote(cache, k))
<1>1. "cuda" \in Device /\ "cpu" \in Device
  BY DEF Device
<1>2. IsCache(CacheGet(cache, k))
  BY GetFacts
<1>3. IsCache(CachePut(cache, k, "cuda")) /\ IsCache(CachePut(cache, k, "cpu"))
  BY <1>1, PutFacts
<1>4. IsCache(CachePut(CacheGet(cache, k), k, "cpu"))
  BY <1>1, <1>2, PutFacts
<1>5. IsCache(CacheDemote(cache, k))
  <2>1. CASE k \in Resident(cache, "gpu")  BY <2>1, DemoteFacts
  <2>2. CASE k \notin Resident(cache, "gpu")  BY <2>2 DEF CacheDemote
  <2>. QED  BY <2>1, <2>2
<1>. QED  BY <1>2, <1>3, <1>4, <1>5

-----------------------------------------------------------------------------
\* A step that leaves the users of the slots and the handles but their GPU
\* states alone keeps the invariant.
LEMMA UsersKeep ==
    ASSUME SchedulerInv, IsCache(cache'), stream' \in Seq(StreamOp), queue' \in Seq(Request),
           pool' = pool \/ SameUsers(pool, pool'),
           handles' = handles \/ \E ops : handles' = Copied(ops)
    PROVE  SchedulerInv'
<1>1. SameUsers(pool, pool')
  <2>1. IsPool(pool)
    BY DEF SchedulerInv, TypeOK, IsPool
  <2>2. CASE pool' = pool  BY <2>1, <2>2 DEF SameUsers
  <2>. QED  BY <2>2
<1>2. /\ InFlight' = InFlight /\ handles' \in [InFlight -> Handle]
      /\ \A k \in InFlight : handles'[k].slot = handles[k].slot
  <2>1. CASE handles' = handles
    BY <2>1 DEF SchedulerInv, TypeOK, InFlight
  <2>2. ASSUME NEW ops, handles' = Copied(ops)
        PROVE  /\ InFlight' = InFlight /\ handles' \in [InFlight -> Handle]
               /\ \A k \in InFlight : handles'[k].slot = handles[k].slot
    BY <2>2, CopiedFacts DEF InFlight
  <2>. QED  BY <2>1, <2>2
<1>3. Owned'
  BY <1>1, <1>2, OwnersStay DEF SchedulerInv
<1>4. TypeOK'
  BY <1>1, <1>2 DEF SchedulerInv, TypeOK, SameUsers, IsPool
<1>. QED  BY <1>3, <1>4 DEF SchedulerInv

LEMMA StreamFacts ==
    ASSUME stream \in Seq(StreamOp), NEW s \in 1 .. PoolSlots, NEW k \in Expert
    PROVE  /\ Append(stream, Copy(s, NoExpert)) \in Seq(StreamOp)
           /\ Append(stream, SlotEvent(s)) \in Seq(StreamOp)
           /\ stream \o <<Copy(s, k), HandleEvent(k)>> \in Seq(StreamOp)
           /\ stream # << >> => Tail(stream) \in Seq(StreamOp)
<1>1. PoolSlots \in Nat
  BY SchedulerAssumption
<1>2. /\ Copy(s, NoExpert) \in StreamOp /\ SlotEvent(s) \in StreamOp
      /\ Copy(s, k) \in StreamOp /\ HandleEvent(k) \in StreamOp
  BY <1>1 DEF Copy, SlotEvent, HandleEvent, StreamOp
<1>. QED  BY <1>2

LEMMA ExecuteKeeps ==
    ASSUME SchedulerInv, NEW fault \in Faults \cup {"none"}, ExecuteNext(fault)
    PROVE  SchedulerInv'
<1>1. /\ IsCache(cache) /\ IsPool(pool) /\ stream \in Seq(StreamOp) /\ queue \in Seq(Request)
  BY DEF SchedulerInv, TypeOK, IsPool
<1>2. /\ queue' \in Seq(Request)
      /\ NextRequest.key \in Expert
  BY <1>1, QueueFacts, NextIsQueued, SchedulerAssumption DEF ExecuteNext
<1>. DEFINE r == NextRequest
<1>3. CASE Demotes(r)
  BY <1>1, <1>2, <1>3, CacheStays, UsersKeep DEF Demotes
<1>4. CASE TransferRefused(r)
  BY <1>1, <1>2, <1>4, UsersKeep DEF TransferRefused
<1>5. CASE TransferRuns(r, fault)
  <2>. DEFINE s == AcquiredSlot(pool, stream)
              content == IF fault = "stage" THEN NoExpert ELSE r.key
  <2>1. /\ ~ Exhausted(pool, stream) /\ content \in Expert \cup {NoExpert}
        /\ pool' = Release(Stage(Acquire(pool, stream), s, content), s)
    BY <1>2, <1>5 DEF TransferRuns
  <2>2. SameUsers(pool, pool') /\ s \in 1 .. PoolSlots
    BY <1>1, <2>1, ReturnedSlot, AcquireFacts DEF HandsOut
  <2>3. IsCache(cache')
    BY <1>1, <1>2, <1>5, CacheStays DEF TransferRuns
  <2>4. stream' \in Seq(StreamOp) /\ (handles' = handles \/ \E ops : handles' = Copied(ops))
    <3>1. CASE fault = "stage"
      BY <1>1, <1>5, <3>1 DEF TransferRuns
    <3>2. CASE fault = "copy"
      <4>1. stream' = Append(stream, Copy(s, NoExpert)) /\ handles' = handles
        BY <1>5, <3>2 DEF TransferRuns
      <4>. HIDE DEF s
      <4>. QED  BY <1>1, <1>2, <2>2, <4>1, StreamFacts
    <3>3. CASE fault # "stage" /\ fault # "copy"
      <4>1. stream' = << >> /\ handles' = Copied(stream)
        BY <1>5, <3>3 DEF TransferRuns
      <4>. QED  BY <4>1
    <3>. QED  BY <3>1, <3>2, <3>3
  <2>. QED  BY <1>2, <2>2, <2>3, <2>4, UsersKeep
<1>. QED  BY <1>3, <1>4, <1>5 DEF ExecuteNext

LEMMA SubmitAsyncKeeps ==
    ASSUME SchedulerInv, NEW r \in Request, NEW fault \in Faults \cup {"none"},
           SubmitAsync(r, fault)
    PROVE  SchedulerInv'
<1>. DEFINE s == AcquiredSlot(pool, stream)
            q == Acquire(pool, stream)
<1>1. /\ IsCache(cache) /\ IsPool(pool) /\ stream \in Seq(StreamOp) /\ queue \in Seq(Request)
      /\ InFlight \subseteq Expert /\ handles \in [InFlight -> Handle]
  BY DEF SchedulerInv, TypeOK, IsPool
<1>0. IsPool(pool) /\ ~ Exhausted(pool, stream)
  BY <1>1 DEF SubmitAsync, Accepts
<1>2. r.key \in Expert \ InFlight /\ UNCHANGED <<cache, queue>>
  BY SchedulerAssumption DEF SubmitAsync, Accepts
<1>3. /\ IsPool(q) /\ s \in DOMAIN q /\ s \in 1 .. PoolSlots
      /\ DOMAIN q = DOMAIN pool \cup {s} /\ q[s].in_use
      /\ s \in DOMAIN pool => ~ pool[s].in_use
      /\ \A u \in DOMAIN pool \ {s} : q[u] = pool[u]
  <2>1. HandsOut(pool, s, q)
    BY <1>0, AcquireFacts
  <2>. HIDE DEF s, q
  <2>. QED  BY <2>1 DEF HandsOut
<1>4. CASE /\ pool' = Release(q, s)
           /\ UNCHANGED <<stream, handles>>
  <2>1. SameUsers(pool, pool')
    BY <1>0, <1>2, <1>4, ReturnedSlot
  <2>. QED  BY <1>1, <1>2, <1>4, <2>1, UsersKeep
<1>5. CASE /\ pool' = Release(Stage(q, s, NoExpert), s)
           /\ UNCHANGED <<stream, handles>>
  <2>1. SameUsers(pool, pool')
    BY <1>0, <1>2, <1>5, ReturnedSlot
  <2>. QED  BY <1>1, <1>2, <1>5, <2>1, UsersKeep
<1>6. CASE /\ pool' = Release(Stage(q, s, r.key), s)
           /\ stream' = Append(stream, Copy(s, NoExpert))
           /\ UNCHANGED handles
  <2>1. SameUsers(pool, pool')
    BY <1>0, <1>2, <1>6, ReturnedSlot
  <2>2. stream' \in Seq(StreamOp)
    BY <1>1, <1>2, <1>3, <1>6, StreamFacts
  <2>. QED  BY <1>1, <1>2, <1>6, <2>1, <2>2, UsersKeep
<1>7. CASE /\ pool' = Stage(q, s, r.key)
           /\ stream' = stream \o <<Copy(s, r.key), HandleEvent(r.key)>>
           /\ handles' = [k \in InFlight \cup {r.key} |->
                           IF k = r.key
                           THEN [id |-> r.id, slot |-> s, status |-> "in_flight",
                                 gpu_state |-> NoExpert]
                           ELSE handles[k]]
  <2>. DEFINE h == [id |-> r.id, slot |-> s, status |-> "in_flight", gpu_state |-> NoExpert]
  <2>1. /\ IsPool(pool') /\ DOMAIN pool' = DOMAIN pool \cup {s}
        /\ pool'[s].in_use /\ pool'[s].holds = r.key
        /\ \A u \in DOMAIN pool \ {s} : pool'[u] = pool[u]
    BY <1>2, <1>3, <1>7, StageFacts
  <2>2. stream' \in Seq(StreamOp)
    <3>. HIDE DEF s
    <3>. QED  BY <1>1, <1>2, <1>3, <1>7, StreamFacts
  <2>. HIDE DEF s, q
  <2>3. h \in Handle
    BY <1>3 DEF Handle
  <2>. HIDE DEF h
  <2>4. /\ InFlight' = InFlight \cup {r.key}
        /\ handles' = [k \in InFlight \cup {r.key} |-> IF k = r.key THEN h ELSE handles[k]]
    BY <1>7 DEF InFlight, h
  <2>5. /\ handles'[r.key] = h /\ h.slot = s
        /\ \A k \in InFlight : handles'[k] = handles[k]
    BY <1>2, <2>4 DEF h
  <2>6. TypeOK'
    BY <1>1, <1>2, <2>1, <2>2, <2>3, <2>4 DEF TypeOK, IsPool
  <2>7. \A k \in InFlight : /\ handles[k].slot \in DOMAIN pool \ {s}
                            /\ pool[handles[k].slot].in_use
                            /\ pool[handles[k].slot].holds = k
    BY <1>3 DEF SchedulerInv, Owned
  <2>8. \A u \in DOMAIN pool \ {s} : pool[u].in_use <=> \E k \in InFlight : handles[k].slot = u
    BY DEF SchedulerInv, Owned
  <2>9. \A j, k \in InFlight : handles[j].slot = handles[k].slot => j = k
    BY DEF SchedulerInv, Owned
  <2>10. Owned'
    <3>1. ASSUME NEW u \in DOMAIN pool'
          PROVE  pool'[u].in_use <=> \E k \in InFlight' : handles'[k].slot = u
      <4>1. CASE u = s  BY <2>1, <2>4, <2>5, <4>1
      <4>2. CASE u # s
        <5>1. u \in DOMAIN pool \ {s} /\ pool'[u] = pool[u]
          BY <2>1, <4>2
        <5>2. pool[u].in_use <=> \E k \in InFlight : handles[k].slot = u
          BY <2>8, <5>1
        <5>. QED  BY <2>4, <2>5, <4>2, <5>1, <5>2
      <4>. QED  BY <4>1, <4>2
    <3>2. ASSUME NEW k \in InFlight'
          PROVE  handles'[k].slot \in DOMAIN pool' /\ pool'[handles'[k].slot].holds = k
      BY <2>1, <2>4, <2>5, <2>7
    <3>3. ASSUME NEW j \in InFlight', NEW k \in InFlight', handles'[j].slot = handles'[k].slot
          PROVE  j = k
      BY <2>4, <2>5, <2>7, <2>9, <3>3
    <3>. QED  BY <3>1, <3>2, <3>3 DEF Owned
  <2>. QED  BY <2>6, <2>10 DEF SchedulerInv
<1>8. CASE r.key \notin OnCpu
  BY <1>4, <1>8 DEF SubmitAsync
<1>9. CASE r.key \in OnCpu /\ fault = "stage"
  BY <1>5, <1>9 DEF SubmitAsync
<1>10. CASE r.key \in OnCpu /\ fault = "copy"
  BY <1>6, <1>10 DEF SubmitAsync
<1>11. CASE r.key \in OnCpu /\ fault \notin {"stage", "copy"}
  BY <1>7, <1>11 DEF SubmitAsync
<1>. QED  BY <1>8, <1>9, <1>10, <1>11

\* A transfer that ends gives its slot back; no other handle has it.
LEMMA ForgetKeeps ==
    ASSUME SchedulerInv, NEW k \in InFlight, NEW p, IsPool(p), DOMAIN p = DOMAIN pool,
           \A u \in DOMAIN pool \ {handles[k].slot} : p[u] = pool[u],
           pool' = Release(p, handles[k].slot), Forget(k),
           IsCache(cache'), stream' \in Seq(StreamOp), queue' \in Seq(Request)
    PROVE  SchedulerInv'
<1>. DEFINE s == handles[k].slot
<1>1. s \in DOMAIN p
  BY DEF SchedulerInv, Owned
<1>. HIDE DEF s
<1>2. /\ IsPool(pool') /\ DOMAIN pool' = DOMAIN pool /\ ~ pool'[s].in_use
      /\ \A u \in DOMAIN pool \ {s} : pool'[u] = pool[u]
  BY <1>1, SlotFacts DEF s
<1>3. /\ InFlight' = InFlight \ {k} /\ \A j \in InFlight \ {k} : handles'[j] = handles[j]
      /\ handles' = [j \in InFlight \ {k} |-> handles[j]]
  BY DEF Forget, InFlight
<1>4. TypeOK'
  BY <1>2, <1>3 DEF SchedulerInv, TypeOK, IsPool
<1>5. \A j \in InFlight \ {k} : /\ handles[j].slot \in DOMAIN pool \ {s}
                                /\ pool[handles[j].slot].holds = j
  BY DEF SchedulerInv, Owned, s
<1>6. \A u \in DOMAIN pool \ {s} : pool[u].in_use <=> \E j \in InFlight \ {k} : handles[j].slot = u
  BY DEF SchedulerInv, Owned, s
<1>7. Owned'
  <2>1. ASSUME NEW u \in DOMAIN pool'
        PROVE  pool'[u].in_use <=> \E j \in InFlight' : handles'[j].slot = u
    BY <1>2, <1>3, <1>5, <1>6
  <2>2. ASSUME NEW j \in InFlight'
        PROVE  handles'[j].slot \in DOMAIN pool' /\ pool'[handles'[j].slot].holds = j
    BY <1>2, <1>3, <1>5
  <2>3. ASSUME NEW i \in InFlight', NEW j \in InFlight', handles'[i].slot = handles'[j].slot
        PROVE  i = j
    BY <1>3, <2>3 DEF SchedulerInv, Owned
  <2>. QED  BY <2>1, <2>2, <2>3 DEF Owned
<1>. QED  BY <1>4, <1>7 DEF SchedulerInv

LEMMA PollKeeps ==
    ASSUME SchedulerInv, NEW k \in Expert, NEW fault \in Faults \cup {"none"},
           PollAsync(k, fault)
    PROVE  SchedulerInv'
<1>. DEFINE s == handles[k].slot
<1>1. /\ IsCache(cache) /\ IsPool(pool) /\ stream \in Seq(StreamOp) /\ queue \in Seq(Request)
  BY DEF SchedulerInv, TypeOK, IsPool
<1>2. k \in InFlight /\ queue' = queue
  BY DEF PollAsync
<1>3. s \in DOMAIN pool /\ s \in 1 .. PoolSlots
  BY <1>2 DEF SchedulerInv, TypeOK, Owned, Handle
<1>4. CASE Finishes(k) /\ IsCache(cache')
  <2>1. /\ IsPool(MarkEvent(pool, s)) /\ DOMAIN MarkEvent(pool, s) = DOMAIN pool
        /\ \A u \in DOMAIN pool \ {s} : MarkEvent(pool, s)[u] = pool[u]
    BY <1>1, <1>3, SlotFacts
  <2>2. stream' \in Seq(StreamOp)
    BY <1>1, <1>3, <1>4, StreamFacts DEF Finishes
  <2>3. pool' = Release(MarkEvent(pool, s), s) /\ Forget(k)
    BY <1>4 DEF Finishes
  <2>. QED  BY <1>1, <1>2, <1>4, <2>1, <2>2, <2>3, ForgetKeeps
<1>5. CASE Loses(k)
  BY <1>1, <1>2, <1>5, ForgetKeeps DEF Loses
<1>6. IsCache(CachePut(cache, k, "cuda"))
  BY <1>1, CacheStays
<1>. QED  BY <1>1, <1>4, <1>5, <1>6 DEF PollAsync, Discards, Publishes

LEMMA CancelKeeps ==
    ASSUME SchedulerInv, NEW id, Cancel(id)
    PROVE  SchedulerInv'
<1>. DEFINE queued == {r \in ToSet(queue) : r.id = id}
<1>1. /\ IsCache(cache) /\ IsPool(pool) /\ stream \in Seq(StreamOp) /\ queue \in Seq(Request)
  BY DEF SchedulerInv, TypeOK, IsPool
<1>2. CASE queued # {}
  <2>1. /\ queue' = RemoveFirst(queue, CHOOSE r \in queued : TRUE)
        /\ UNCHANGED <<cache, pool, stream, handles>>
    BY <1>2 DEF Cancel
  <2>2. queue' \in Seq(Request)
    BY <1>1, <2>1, QueueFacts
  <2>. QED  BY <1>1, <2>1, <2>2, UsersKeep
<1>3. CASE queued = {}
  <2>1. PICK k \in InFlight :
             /\ handles' = [handles EXCEPT ![k].status = "cancelled"]
             /\ UNCHANGED <<cache, pool, stream, queue>>
    BY <1>3 DEF Cancel
  <2>2. handles \in [InFlight -> Handle] /\ handles[k] \in Handle
    BY DEF SchedulerInv, TypeOK
  <2>. DEFINE h == [handles[k] EXCEPT !.status = "cancelled"]
  <2>3. h \in Handle /\ h.slot = handles[k].slot
    BY <2>2 DEF Handle
  <2>4. handles' = [handles EXCEPT ![k] = h]
    BY <2>1
  <2>. HIDE DEF h
  <2>5. /\ InFlight' = InFlight /\ handles' \in [InFlight -> Handle]
        /\ \A j \in InFlight : handles'[j].slot = handles[j].slot
    BY <2>2, <2>3, <2>4 DEF InFlight
  <2>6. Owned'
    BY <2>1, <2>5 DEF SchedulerInv, Owned
  <2>7. TypeOK'
    BY <2>1, <2>5 DEF SchedulerInv, TypeOK
  <2>. QED  BY <2>6, <2>7 DEF SchedulerInv
<1>. QED  BY <1>2, <1>3

\* The calls that only use the cache, and the steps of the GPU and the queue.
LEMMA OthersKeep ==
    ASSUME SchedulerInv,
           \/ GpuStep
           \/ \E r \in Request : Submit(r)
           \/ \E k \in Expert : Load(k) \/ LookUp(k) \/ GiveUp(k)
    PROVE  SchedulerInv'
<1>1. /\ IsCache(cache) /\ stream \in Seq(StreamOp) /\ queue \in Seq(Request)
  BY DEF SchedulerInv, TypeOK
<1>2. CASE GpuStep
  <2>1. /\ handles' = Copied(<<Head(stream)>>) /\ stream' \in Seq(StreamOp)
        /\ UNCHANGED <<cache, pool, queue>>
    BY <1>1, <1>2 DEF GpuStep
  <2>. QED  BY <1>1, <2>1, UsersKeep
<1>3. ASSUME NEW r \in Request, Submit(r) PROVE SchedulerInv'
  BY <1>1, <1>3, QueueFacts, UsersKeep DEF Submit
<1>4. ASSUME NEW k \in Expert, Load(k) \/ LookUp(k) \/ GiveUp(k)
      PROVE  SchedulerInv'
  <2>1. IsCache(cache') /\ UNCHANGED <<pool, stream, queue, handles>>
    BY <1>1, <1>4, CacheStays DEF Load, LookUp, GiveUp, Uses
  <2>. QED  BY <1>1, <2>1, UsersKeep
<1>. QED  BY <1>2, <1>3, <1>4

LEMMA StepKeeps == SchedulerInv /\ [Next]_vars => SchedulerInv'
<1>. SUFFICES ASSUME SchedulerInv, [Next]_vars PROVE SchedulerInv'
  OBVIOUS
<1>1. CASE Next
  BY <1>1, OthersKeep, ExecuteKeeps, SubmitAsyncKeeps, PollKeeps, CancelKeeps DEF Next
<1>2. CASE UNCHANGED vars
  BY <1>2 DEF vars, SchedulerInv, TypeOK, Owned, InFlight
<1>. QED  BY <1>1, <1>2

LEMMA InitHolds == Init => SchedulerInv
<1>. SUFFICES ASSUME Init PROVE SchedulerInv
  OBVIOUS
<1>1. IsCache(cache)
  BY EmptyFacts DEF Init
<1>2. InFlight = {} /\ Len(pool) = 0 /\ PoolSlots \in Nat
  BY SchedulerAssumption DEF Init, InFlight
<1>3. TypeOK
  BY <1>1, <1>2 DEF Init, TypeOK
<1>4. Owned
  BY <1>2 DEF Init, Owned
<1>. QED  BY <1>3, <1>4 DEF SchedulerInv

LEMMA AlwaysOwned == Spec => []SchedulerInv
<1>. QED  BY InitHolds, StepKeeps, PTL DEF Spec

\* The variables of the scheduler keep their shape: at most the budgeted
\* slots, a handle for experts only, cache tiers without repetition.
THEOREM SchedulerTypes == Spec => []TypeOK
<1>1. SchedulerInv => TypeOK
  BY DEF SchedulerInv
<1>. QED  BY <1>1, AlwaysOwned, PTL

\* No call of the scheduler leaks a staging slot, frees it twice or frees one
\* that another transfer still uses, whichever place raises.
THEOREM SlotsAreOwned == Spec => []SlotsOwned
<1>1. SchedulerInv => SlotsOwned
  BY DEF SchedulerInv, Owned, SlotsOwned
<1>. QED  BY <1>1, AlwaysOwned, PTL

-----------------------------------------------------------------------------
(***************************************************************************)
(* What is published under a key is that expert                            *)
(***************************************************************************)

\* A copy for handle k is pending with the event of k behind it.
Coming(str, k) ==
    \E i, j \in DOMAIN str :
        /\ i < j
        /\ str[i].op = "copy" /\ str[i].handle = k
        /\ str[j] = HandleEvent(k)

\* Each transfer has its expert already, or will have it before its event.
Supplied == \A k \in InFlight : handles[k].gpu_state = k \/ Coming(stream, k)

\* What is pending stays pending when operations are appended.
LEMMA ComingStays ==
    ASSUME NEW str \in Seq(StreamOp), NEW more \in Seq(StreamOp), NEW k, Coming(str, k)
    PROVE  Coming(str \o more, k)
<1>1. \A i \in DOMAIN str : i \in DOMAIN (str \o more) /\ (str \o more)[i] = str[i]
  OBVIOUS
<1>. HIDE DEF StreamOp
<1>2. PICK i \in DOMAIN str, j \in DOMAIN str :
           i < j /\ str[i].op = "copy" /\ str[i].handle = k /\ str[j] = HandleEvent(k)
  BY DEF Coming
<1>. QED  BY <1>1, <1>2 DEF Coming

\* A step that keeps the handles and only appends to the stream.
LEMMA SuppliedStays ==
    ASSUME SchedulerInv, Supplied, InFlight' \subseteq InFlight,
           \A k \in InFlight' : handles'[k].gpu_state = handles[k].gpu_state,
           \/ stream' = stream
           \/ \E more \in Seq(StreamOp) : stream' = stream \o more
    PROVE  Supplied'
<1>1. stream \in Seq(StreamOp)
  BY DEF SchedulerInv, TypeOK
<1>2. \A k : Coming(stream, k) => Coming(stream', k)
  BY <1>1, ComingStays
<1>. QED  BY <1>2 DEF Supplied

\* The GPU does the first operation: a copy that it takes off the stream
\* supplies its handle.
LEMMA SuppliedByGpu ==
    ASSUME SchedulerInv, Supplied, GpuStep
    PROVE  Supplied'
<1>1. /\ stream \in Seq(StreamOp) /\ stream # << >> /\ stream' = Tail(stream)
      /\ handles' = Copied(<<Head(stream)>>)
  BY DEF SchedulerInv, TypeOK, GpuStep
<1>2. /\ Head(stream) = stream[1] /\ Len(stream) \in Nat \ {0}
      /\ DOMAIN stream = 1 .. Len(stream) /\ DOMAIN stream' = 1 .. Len(stream) - 1
      /\ \A i \in 1 .. Len(stream) - 1 : stream'[i] = stream[i + 1]
  BY <1>1
<1>3. /\ InFlight' = InFlight
      /\ \A k \in InFlight : handles'[k].gpu_state =
            IF stream[1].op = "copy" /\ stream[1].handle = k THEN k ELSE handles[k].gpu_state
  <2>1. DOMAIN <<Head(stream)>> = {1} /\ <<Head(stream)>>[1] = stream[1]
    BY <1>2
  <2>2. /\ DOMAIN handles' = InFlight
        /\ \A k \in InFlight : handles'[k].gpu_state =
              IF \E i \in DOMAIN <<Head(stream)>> :
                    <<Head(stream)>>[i].op = "copy" /\ <<Head(stream)>>[i].handle = k
              THEN k ELSE handles[k].gpu_state
    BY <1>1, CopiedFacts
  <2>. QED  BY <2>1, <2>2 DEF InFlight
<1>4. ASSUME NEW k \in InFlight, handles'[k].gpu_state # k
      PROVE  Coming(stream', k)
  <2>1. Coming(stream, k) /\ ~ (stream[1].op = "copy" /\ stream[1].handle = k)
    BY <1>3, <1>4 DEF Supplied
  <2>2. PICK i \in DOMAIN stream, j \in DOMAIN stream :
             /\ i < j /\ stream[i].op = "copy" /\ stream[i].handle = k
             /\ stream[j] = HandleEvent(k)
    BY <2>1 DEF Coming
  <2>3. i # 1 /\ i - 1 \in DOMAIN stream' /\ j - 1 \in DOMAIN stream' /\ i - 1 < j - 1
    BY <1>2, <2>1, <2>2
  <2>4. stream'[i - 1] = stream[i] /\ stream'[j - 1] = stream[j]
    BY <1>2, <2>2, <2>3
  <2>. QED  BY <2>2, <2>3, <2>4 DEF Coming
<1>. QED  BY <1>3, <1>4 DEF Supplied

\* Synchronizing does everything that is pending.
LEMMA SuppliedByExecute ==
    ASSUME SchedulerInv, Supplied, NEW fault \in Faults \cup {"none"}, ExecuteNext(fault)
    PROVE  Supplied'
<1>1. /\ IsPool(pool) /\ stream \in Seq(StreamOp) /\ queue \in Seq(Request)
  BY DEF SchedulerInv, TypeOK, IsPool
<1>2. CASE UNCHANGED <<stream, handles>>
  BY <1>2, SuppliedStays DEF InFlight
<1>3. CASE TransferRuns(NextRequest, fault)
  <2>. DEFINE s == AcquiredSlot(pool, stream)
  <2>0. IsPool(pool) /\ ~ Exhausted(pool, stream)
    BY <1>1, <1>3 DEF TransferRuns
  <2>1. s \in 1 .. PoolSlots
    BY <2>0, AcquireFacts DEF HandsOut
  <2>2. CASE fault = "stage"
    BY <1>2, <1>3, <2>2 DEF TransferRuns
  <2>3. CASE fault = "copy"
    <3>1. stream' = Append(stream, Copy(s, NoExpert)) /\ handles' = handles
      BY <1>3, <2>3 DEF TransferRuns
    <3>. HIDE DEF s
    <3>2. <<Copy(s, NoExpert)>> \in Seq(StreamOp)
      BY <2>1, SchedulerAssumption DEF Copy, StreamOp
    <3>3. stream' = stream \o <<Copy(s, NoExpert)>>
      BY <1>1, <3>1, <3>2
    <3>. QED  BY <3>1, <3>2, <3>3, SuppliedStays DEF InFlight
  <2>4. CASE fault # "stage" /\ fault # "copy"
    <3>1. handles' = Copied(stream)
      BY <1>3, <2>4 DEF TransferRuns
    <3>2. InFlight' = InFlight
      BY <3>1, CopiedFacts DEF InFlight
    <3>3. ASSUME NEW k \in InFlight PROVE handles'[k].gpu_state = k
      <4>1. handles'[k].gpu_state =
               IF \E i \in DOMAIN stream : stream[i].op = "copy" /\ stream[i].handle = k
               THEN k ELSE handles[k].gpu_state
        BY <3>1, CopiedFacts
      <4>. QED  BY <4>1 DEF Supplied, Coming
    <3>. QED  BY <3>2, <3>3 DEF Supplied
  <2>. QED  BY <2>2, <2>3, <2>4
<1>. QED  BY <1>2, <1>3 DEF ExecuteNext, Demotes, TransferRefused

\* A copy and its event appended to a stream.
LEMMA PairAppended ==
    ASSUME NEW S, NEW str \in Seq(S), NEW x \in S, NEW y \in S
    PROVE  LET t == str \o <<x, y>> IN
           /\ Len(str) \in Nat /\ t \in Seq(S) /\ Len(t) = Len(str) + 2
           /\ DOMAIN str = 1 .. Len(str) /\ DOMAIN t = 1 .. Len(str) + 2
           /\ \A i \in DOMAIN str : t[i] = str[i]
           /\ t[Len(str) + 1] = x /\ t[Len(str) + 2] = y
  OBVIOUS

LEMMA SuppliedBySubmit ==
    ASSUME SchedulerInv, Supplied, NEW r \in Request, NEW fault \in Faults \cup {"none"},
           SubmitAsync(r, fault)
    PROVE  Supplied'
<1>. DEFINE s == AcquiredSlot(pool, stream)
<1>0. IsPool(pool) /\ ~ Exhausted(pool, stream) /\ stream \in Seq(StreamOp)
  BY DEF SchedulerInv, TypeOK, IsPool, SubmitAsync, Accepts
<1>1. s \in 1 .. PoolSlots /\ r.key \in Expert /\ PoolSlots \in Nat
  BY <1>0, AcquireFacts, SchedulerAssumption DEF HandsOut
<1>2. CASE UNCHANGED <<stream, handles>>
  BY <1>2, SuppliedStays DEF InFlight
<1>3. CASE stream' = Append(stream, Copy(s, NoExpert)) /\ handles' = handles
  <2>. HIDE DEF s
  <2>1. <<Copy(s, NoExpert)>> \in Seq(StreamOp)
    BY <1>1 DEF Copy, StreamOp
  <2>2. stream' = stream \o <<Copy(s, NoExpert)>>
    BY <1>0, <1>3, <2>1
  <2>. QED  BY <1>3, <2>1, <2>2, SuppliedStays DEF InFlight
<1>4. CASE /\ stream' = stream \o <<Copy(s, r.key), HandleEvent(r.key)>>
           /\ InFlight' = InFlight \cup {r.key}
           /\ \A k \in InFlight : k # r.key => handles'[k] = handles[k]
  <2>. HIDE DEF s
  <2>. DEFINE more == <<Copy(s, r.key), HandleEvent(r.key)>>
  <2>1. /\ more \in Seq(StreamOp)
        /\ Copy(s, r.key) \in StreamOp /\ HandleEvent(r.key) \in StreamOp
    BY <1>1 DEF Copy, HandleEvent, StreamOp
  <2>2. stream' = stream \o more
    BY <1>4
  <2>3. /\ Len(stream) + 1 \in DOMAIN stream' /\ Len(stream) + 2 \in DOMAIN stream'
        /\ stream'[Len(stream) + 1] = Copy(s, r.key)
        /\ stream'[Len(stream) + 2] = HandleEvent(r.key)
        /\ Len(stream) \in Nat
    BY <1>0, <2>1, <2>2, PairAppended
  <2>. HIDE DEF more
  <2>4. Copy(s, r.key).op = "copy" /\ Copy(s, r.key).handle = r.key
    BY DEF Copy
  <2>5. Coming(stream', r.key)
    BY <2>3, <2>4 DEF Coming
  <2>6. ASSUME NEW k \in InFlight, k # r.key
        PROVE  handles'[k].gpu_state = k \/ Coming(stream', k)
    <3>1. handles'[k] = handles[k]
      BY <1>4, <2>6
    <3>. QED  BY <1>0, <2>1, <2>2, <3>1, ComingStays DEF Supplied
  <2>. QED  BY <1>4, <2>5, <2>6 DEF Supplied
<1>5. CASE r.key \notin OnCpu
  BY <1>2, <1>5 DEF SubmitAsync
<1>6. CASE r.key \in OnCpu /\ fault = "stage"
  BY <1>2, <1>6 DEF SubmitAsync
<1>7. CASE r.key \in OnCpu /\ fault = "copy"
  BY <1>3, <1>7 DEF SubmitAsync
<1>8. CASE r.key \in OnCpu /\ fault \notin {"stage", "copy"}
  BY <1>4, <1>8 DEF SubmitAsync, InFlight
<1>. QED  BY <1>5, <1>6, <1>7, <1>8

LEMMA SuppliedByPoll ==
    ASSUME SchedulerInv, Supplied, NEW k \in Expert, NEW fault, PollAsync(k, fault)
    PROVE  Supplied'
<1>1. k \in InFlight /\ stream \in Seq(StreamOp) /\ PoolSlots \in Nat
      /\ handles[k].slot \in 1 .. PoolSlots
  BY SchedulerAssumption DEF PollAsync, SchedulerInv, TypeOK, Handle
<1>2. /\ Forget(k)
      /\ stream' = stream \/ stream' = Append(stream, SlotEvent(handles[k].slot))
  BY DEF PollAsync, Discards, Publishes, Loses, Finishes
<1>3. InFlight' \subseteq InFlight /\ \A j \in InFlight' : handles'[j] = handles[j]
  BY <1>2 DEF Forget, InFlight
<1>4. SlotEvent(handles[k].slot) \in StreamOp
  BY <1>1 DEF SlotEvent, StreamOp
<1>5. stream' = stream \/ \E more \in Seq(StreamOp) : stream' = stream \o more
  <2>. DEFINE op == SlotEvent(handles[k].slot)
  <2>. HIDE DEF op
  <2>1. op \in StreamOp => <<op>> \in Seq(StreamOp) /\ Append(stream, op) = stream \o <<op>>
    BY <1>1
  <2>. QED  BY <1>2, <1>4, <2>1 DEF op
<1>. QED  BY <1>3, <1>5, SuppliedStays

LEMMA SuppliedByCancel ==
    ASSUME SchedulerInv, Supplied, NEW id, Cancel(id)
    PROVE  Supplied'
<1>1. CASE UNCHANGED <<stream, handles>>
  BY <1>1, SuppliedStays DEF InFlight
<1>2. ASSUME NEW k \in InFlight, stream' = stream,
             handles' = [handles EXCEPT ![k].status = "cancelled"]
      PROVE  Supplied'
  <2>1. handles \in [InFlight -> Handle]
    BY DEF SchedulerInv, TypeOK
  <2>2. InFlight' = InFlight /\ \A j \in InFlight : handles'[j].gpu_state = handles[j].gpu_state
    BY <1>2, <2>1 DEF InFlight, Handle
  <2>. QED  BY <1>2, <2>2, SuppliedStays
<1>. QED  BY <1>1, <1>2 DEF Cancel

LEMMA SuppliedStep == SchedulerInv /\ Supplied /\ [Next]_vars => Supplied'
<1>. SUFFICES ASSUME SchedulerInv, Supplied, [Next]_vars PROVE Supplied'
  OBVIOUS
<1>1. CASE UNCHANGED <<stream, handles>>
  BY <1>1, SuppliedStays DEF InFlight
<1>2. CASE Next
  BY <1>1, <1>2, SuppliedByGpu, SuppliedByExecute, SuppliedBySubmit, SuppliedByPoll,
     SuppliedByCancel DEF Next, Submit, Load, LookUp, GiveUp, Uses
<1>. QED  BY <1>1, <1>2 DEF vars

\* poll_async publishes under a key the weights of that expert, however late
\* the GPU reads the slot and whatever fails in between.
THEOREM PublishesOwnWeights == Spec => []OwnWeights
<1>1. Init => Supplied
  BY DEF Init, Supplied, InFlight
<1>2. Supplied => OwnWeights
  <2>. SUFFICES ASSUME Supplied, NEW k \in InFlight, Done(stream, HandleEvent(k))
                PROVE  handles[k].gpu_state = k
    BY DEF OwnWeights
  <2>1. \A j \in DOMAIN stream : stream[j] # HandleEvent(k)
    BY DEF Done, Contains
  <2>. QED  BY <2>1 DEF Supplied, Coming
<1>. QED  BY <1>1, <1>2, SuppliedStep, AlwaysOwned, PTL DEF Spec

-----------------------------------------------------------------------------
(***************************************************************************)
(* A slot is not reused while the GPU still reads it.  A copy that failed  *)
(* to be enqueued leaves one on the stream whose slot is released at once, *)
(* so the invariant holds when the copies do not fail.                     *)
(***************************************************************************)

\* A pending copy reads the slot of its handle, and the event of the handle
\* is behind it.
CopiesOwned ==
    \A i \in DOMAIN stream : stream[i].op = "copy" =>
        /\ stream[i].handle \in InFlight
        /\ stream[i].slot = handles[stream[i].handle].slot
        /\ \E j \in DOMAIN stream : i < j /\ stream[j] = HandleEvent(stream[i].handle)

\* One operation appended to a stream.
LEMMA OneAppended ==
    ASSUME NEW S, NEW str \in Seq(S), NEW x \in S
    PROVE  LET t == Append(str, x) IN
           /\ DOMAIN str = 1 .. Len(str) /\ DOMAIN t = 1 .. Len(str) + 1
           /\ \A i \in DOMAIN str : t[i] = str[i]
           /\ t[Len(str) + 1] = x
  OBVIOUS

\* A step that keeps the slots of the handles, and the stream but for events
\* appended to it.
LEMMA CopiesStay ==
    ASSUME SchedulerInv, CopiesOwned,
           \A k \in InFlight :
              \/ k \in InFlight' /\ handles'[k].slot = handles[k].slot
              \/ Done(stream, HandleEvent(k)),
           \/ stream' = stream
           \/ \E op \in StreamOp : op.op # "copy" /\ stream' = Append(stream, op)
    PROVE  CopiesOwned'
<1>1. /\ stream \in Seq(StreamOp) /\ Len(stream) \in Nat
      /\ DOMAIN stream = 1 .. Len(stream)
  BY DEF SchedulerInv, TypeOK
<1>. HIDE DEF StreamOp
<1>2. /\ \A i \in DOMAIN stream : i \in DOMAIN stream' /\ stream'[i] = stream[i]
      /\ \A i \in DOMAIN stream' : i \in DOMAIN stream \/ stream'[i].op # "copy"
  <2>1. CASE stream' = stream  BY <2>1
  <2>2. ASSUME NEW op \in StreamOp, op.op # "copy", stream' = Append(stream, op)
        PROVE  /\ \A i \in DOMAIN stream : i \in DOMAIN stream' /\ stream'[i] = stream[i]
               /\ \A i \in DOMAIN stream' : i \in DOMAIN stream \/ stream'[i].op # "copy"
    <3>1. /\ DOMAIN stream' = 1 .. Len(stream) + 1
          /\ stream'[Len(stream) + 1] = op
          /\ \A i \in DOMAIN stream : stream'[i] = stream[i]
      <4>. DEFINE t == Append(stream, op)
      <4>1. /\ DOMAIN t = 1 .. Len(stream) + 1
            /\ t[Len(stream) + 1] = op
            /\ \A i \in DOMAIN stream : t[i] = stream[i]
        BY <1>1, OneAppended
      <4>2. stream' = t
        BY <2>2
      <4>. HIDE DEF t
      <4>. QED  BY <4>1, <4>2
    <3>2. \A i \in DOMAIN stream' : i \in DOMAIN stream \/ i = Len(stream) + 1
      BY <1>1, <3>1
    <3>3. \A i \in DOMAIN stream : i \in DOMAIN stream'
      BY <1>1, <3>1
    <3>. QED  BY <2>2, <3>1, <3>2, <3>3
  <2>. QED  BY <2>1, <2>2
<1>3. ASSUME NEW i \in DOMAIN stream', stream'[i].op = "copy"
      PROVE  /\ stream'[i].handle \in InFlight'
             /\ stream'[i].slot = handles'[stream'[i].handle].slot
             /\ \E j \in DOMAIN stream' : i < j /\ stream'[j] = HandleEvent(stream'[i].handle)
  <2>. DEFINE k == stream[i].handle
  <2>1. i \in DOMAIN stream /\ stream'[i] = stream[i]
    BY <1>2, <1>3
  <2>2. /\ k \in InFlight /\ stream[i].slot = handles[k].slot
        /\ \E j \in DOMAIN stream : i < j /\ stream[j] = HandleEvent(k)
    BY <1>3, <2>1 DEF CopiesOwned
  <2>3. ~ Done(stream, HandleEvent(k))
    BY <2>2 DEF Done, Contains
  <2>4. k \in InFlight' /\ handles'[k].slot = handles[k].slot
    BY <2>2, <2>3
  <2>. QED  BY <1>2, <2>1, <2>2, <2>4
<1>. QED  BY <1>3 DEF CopiesOwned

LEMMA CopiesByGpu ==
    ASSUME SchedulerInv, CopiesOwned, GpuStep
    PROVE  CopiesOwned'
<1>1. /\ stream \in Seq(StreamOp) /\ stream # << >> /\ stream' = Tail(stream)
      /\ handles' = Copied(<<Head(stream)>>)
  BY DEF SchedulerInv, TypeOK, GpuStep
<1>. HIDE DEF StreamOp
<1>2. /\ Len(stream) \in Nat \ {0}
      /\ DOMAIN stream = 1 .. Len(stream) /\ DOMAIN stream' = 1 .. Len(stream) - 1
      /\ \A i \in 1 .. Len(stream) - 1 : stream'[i] = stream[i + 1]
  BY <1>1
<1>3. InFlight' = InFlight /\ \A k \in InFlight : handles'[k].slot = handles[k].slot
  BY <1>1, CopiedFacts DEF InFlight
<1>4. ASSUME NEW i \in DOMAIN stream', stream'[i].op = "copy"
      PROVE  /\ stream'[i].handle \in InFlight'
             /\ stream'[i].slot = handles'[stream'[i].handle].slot
             /\ \E j \in DOMAIN stream' : i < j /\ stream'[j] = HandleEvent(stream'[i].handle)
  <2>. DEFINE k == stream[i + 1].handle
  <2>1. i + 1 \in DOMAIN stream /\ stream'[i] = stream[i + 1]
    BY <1>2
  <2>2. /\ k \in InFlight /\ stream[i + 1].slot = handles[k].slot
        /\ \E j \in DOMAIN stream : i + 1 < j /\ stream[j] = HandleEvent(k)
    BY <1>4, <2>1 DEF CopiesOwned
  <2>3. PICK j \in DOMAIN stream : i + 1 < j /\ stream[j] = HandleEvent(k)
    BY <2>2
  <2>4. j - 1 \in DOMAIN stream' /\ i < j - 1 /\ stream'[j - 1] = stream[j]
    BY <1>2, <2>3
  <2>. QED  BY <1>3, <2>1, <2>2, <2>3, <2>4
<1>. QED  BY <1>4 DEF CopiesOwned

LEMMA CopiesBySubmit ==
    ASSUME SchedulerInv, CopiesOwned, "copy" \notin Faults,
           NEW r \in Request, NEW fault \in Faults \cup {"none"}, SubmitAsync(r, fault)
    PROVE  CopiesOwned'
<1>. DEFINE s == AcquiredSlot(pool, stream)
            str == stream'
<1>0. /\ IsPool(pool) /\ ~ Exhausted(pool, stream) /\ stream \in Seq(StreamOp)
      /\ r.key \notin InFlight
  BY DEF SchedulerInv, TypeOK, IsPool, SubmitAsync, Accepts
<1>a. fault # "copy"
  OBVIOUS
<1>1. s \in 1 .. PoolSlots /\ r.key \in Expert /\ PoolSlots \in Nat
  BY <1>0, AcquireFacts, SchedulerAssumption DEF HandsOut
<1>2. CASE UNCHANGED <<stream, handles>>
  BY <1>2, CopiesStay DEF InFlight
<1>3. CASE /\ stream' = stream \o <<Copy(s, r.key), HandleEvent(r.key)>>
           /\ InFlight' = InFlight \cup {r.key}
           /\ handles'[r.key].slot = s
           /\ \A k \in InFlight : k # r.key => handles'[k] = handles[k]
  <2>. HIDE DEF s
  <2>1. Copy(s, r.key) \in StreamOp /\ HandleEvent(r.key) \in StreamOp
    BY <1>1 DEF Copy, HandleEvent, StreamOp
  <2>2. /\ Len(stream) \in Nat
        /\ DOMAIN stream = 1 .. Len(stream) /\ DOMAIN stream' = 1 .. Len(stream) + 2
        /\ \A i \in DOMAIN stream : stream'[i] = stream[i]
        /\ stream'[Len(stream) + 1] = Copy(s, r.key)
        /\ stream'[Len(stream) + 2] = HandleEvent(r.key)
    BY <1>0, <1>3, <2>1, PairAppended
  <2>3. /\ Copy(s, r.key).slot = s /\ Copy(s, r.key).handle = r.key
        /\ HandleEvent(r.key).op # "copy"
    BY DEF Copy, HandleEvent
  <2>4. ASSUME NEW i \in DOMAIN stream', stream'[i].op = "copy"
        PROVE  /\ stream'[i].handle \in InFlight'
               /\ stream'[i].slot = handles'[stream'[i].handle].slot
               /\ \E j \in DOMAIN stream' : i < j /\ stream'[j] = HandleEvent(stream'[i].handle)
    <3>1. CASE i = Len(stream) + 1
      <4>1. Len(stream) + 2 \in DOMAIN stream' /\ i < Len(stream) + 2
        BY <2>2, <3>1
      <4>. QED  BY <1>3, <2>2, <2>3, <3>1, <4>1
    <3>2. CASE i \in DOMAIN stream
      <4>1. /\ stream[i].handle \in InFlight
            /\ stream[i].slot = handles[stream[i].handle].slot
            /\ \E j \in DOMAIN stream : i < j /\ stream[j] = HandleEvent(stream[i].handle)
        BY <2>2, <2>4, <3>2 DEF CopiesOwned
      <4>2. \A j \in DOMAIN stream : j \in DOMAIN stream' /\ stream'[j] = stream[j]
        BY <2>2
      <4>. QED  BY <1>0, <1>3, <3>2, <4>1, <4>2
    <3>. QED  BY <2>2, <2>3, <2>4, <3>1, <3>2
  <2>. QED  BY <2>4 DEF CopiesOwned
<1>4. CASE r.key \notin OnCpu
  BY <1>2, <1>4 DEF SubmitAsync
<1>5. CASE r.key \in OnCpu /\ fault = "stage"
  BY <1>2, <1>5 DEF SubmitAsync
<1>6. CASE r.key \in OnCpu /\ fault # "stage"
  BY <1>a, <1>3, <1>6 DEF SubmitAsync, InFlight
<1>. QED  BY <1>4, <1>5, <1>6

LEMMA CopiesByPoll ==
    ASSUME SchedulerInv, CopiesOwned, NEW k \in Expert, NEW fault, PollAsync(k, fault)
    PROVE  CopiesOwned'
<1>1. /\ k \in InFlight /\ Done(stream, HandleEvent(k)) /\ PoolSlots \in Nat
      /\ handles[k].slot \in 1 .. PoolSlots
  BY SchedulerAssumption DEF PollAsync, SchedulerInv, TypeOK, Handle
<1>2. /\ Forget(k)
      /\ stream' = stream \/ stream' = Append(stream, SlotEvent(handles[k].slot))
  BY DEF PollAsync, Discards, Publishes, Loses, Finishes
<1>3. \A j \in InFlight \ {k} : j \in InFlight' /\ handles'[j] = handles[j]
  BY <1>2 DEF Forget, InFlight
<1>4. SlotEvent(handles[k].slot) \in StreamOp /\ SlotEvent(handles[k].slot).op # "copy"
  BY <1>1 DEF SlotEvent, StreamOp
<1>. QED  BY <1>1, <1>2, <1>3, <1>4, CopiesStay

LEMMA CopiesByCancel ==
    ASSUME SchedulerInv, CopiesOwned, NEW id, Cancel(id)
    PROVE  CopiesOwned'
<1>1. CASE UNCHANGED <<stream, handles>>
  BY <1>1, CopiesStay DEF InFlight
<1>2. ASSUME NEW k \in InFlight, stream' = stream,
             handles' = [handles EXCEPT ![k].status = "cancelled"]
      PROVE  CopiesOwned'
  <2>1. handles \in [InFlight -> Handle]
    BY DEF SchedulerInv, TypeOK
  <2>2. InFlight' = InFlight /\ \A j \in InFlight : handles'[j].slot = handles[j].slot
    BY <1>2, <2>1 DEF InFlight, Handle
  <2>. QED  BY <1>2, <2>2, CopiesStay
<1>. QED  BY <1>1, <1>2 DEF Cancel

LEMMA CopiesStep ==
    ASSUME "copy" \notin Faults
    PROVE  SchedulerInv /\ CopiesOwned /\ [Next]_vars => CopiesOwned'
<1>. SUFFICES ASSUME SchedulerInv, CopiesOwned, [Next]_vars PROVE CopiesOwned'
  OBVIOUS
<1>1. CASE UNCHANGED <<stream, handles>>
  BY <1>1, CopiesStay DEF InFlight
<1>2. ASSUME NEW fault \in Faults \cup {"none"}, ExecuteNext(fault) PROVE CopiesOwned'
  <2>1. UNCHANGED <<stream, handles>> \/ stream' = << >>
    BY <1>2 DEF ExecuteNext, Demotes, TransferRefused, TransferRuns
  <2>. QED  BY <1>1, <2>1 DEF CopiesOwned
<1>3. CASE Next
  BY <1>1, <1>2, <1>3, CopiesByGpu, CopiesBySubmit, CopiesByPoll, CopiesByCancel
  DEF Next, Submit, Load, LookUp, GiveUp, Uses
<1>. QED  BY <1>1, <1>3 DEF vars

\* The slot of a pending copy is in use.
LEMMA CopiesAreSafe == SchedulerInv /\ CopiesOwned => NoReuseDuringDma
<1>. SUFFICES ASSUME SchedulerInv, CopiesOwned,
                     NEW i \in DOMAIN stream, stream[i].op = "copy"
              PROVE  stream[i].slot \notin ReusableSlots(pool, stream)
  BY DEF NoReuseDuringDma
<1>1. stream[i].handle \in InFlight /\ stream[i].slot = handles[stream[i].handle].slot
  BY DEF CopiesOwned
<1>2. stream[i].slot \in DOMAIN pool => pool[stream[i].slot].in_use
  BY <1>1 DEF SchedulerInv, Owned
<1>. QED  BY <1>2 DEF ReusableSlots, Reusable

\* acquire does not hand out a slot that a pending copy still has to read, as
\* long as no copy fails while it is enqueued.
THEOREM DmaIsSafe ==
    ASSUME "copy" \notin Faults
    PROVE  Spec => []NoReuseDuringDma
<1>1. Init => CopiesOwned
  BY DEF Init, CopiesOwned
<1>. QED  BY <1>1, CopiesAreSafe, CopiesStep, AlwaysOwned, PTL DEF Spec

-----------------------------------------------------------------------------
(***************************************************************************)
(* Duplicates and the limit on asynchronous transfers                      *)
(***************************************************************************)

Distinct(q) ==
    \A i, j \in DOMAIN q :
        q[i].key = q[j].key /\ q[i].direction = q[j].direction => i = j

FewInFlight == IsFiniteSet(InFlight) /\ Cardinality(InFlight) <= MaxConcurrent

LEMMA RemovalKeepsDistinct ==
    ASSUME NEW q \in Seq(Request), Distinct(q), NEW r
    PROVE  Distinct(RemoveFirst(q, r))
<1>1. CASE ~ Contains(q, r)
  BY <1>1, RemoveFirstAbsent
<1>2. CASE Contains(q, r)
  <2>1. PICK n \in 1 .. Len(q) : RemoveFirst(q, r) = RemoveAt(q, n)
    BY <1>2, RemoveFirstIndex
  <2>. DEFINE s == RemoveAt(q, n)
              back(i) == IF i < n THEN i ELSE i + 1
  <2>2. /\ Len(q) \in Nat /\ DOMAIN q = 1 .. Len(q) /\ n \in 1 .. Len(q)
        /\ DOMAIN s = 1 .. Len(q) - 1
        /\ \A i \in 1 .. Len(q) - 1 : s[i] = IF i < n THEN q[i] ELSE q[i + 1]
    <3>1. /\ s \in Seq(Request) /\ Len(s) = Len(q) - 1
          /\ \A i \in 1 .. Len(q) - 1 : s[i] = IF i < n THEN q[i] ELSE q[i + 1]
      BY RemoveAtFacts
    <3>. HIDE DEF s
    <3>. QED  BY <3>1
  <2>. HIDE DEF s
  <2>3. ASSUME NEW i \in DOMAIN s, NEW j \in DOMAIN s,
               s[i].key = s[j].key, s[i].direction = s[j].direction
        PROVE  i = j
    <3>1. /\ back(i) \in DOMAIN q /\ s[i] = q[back(i)]
          /\ back(j) \in DOMAIN q /\ s[j] = q[back(j)]
      BY <2>2
    <3>2. back(i) = back(j)
      BY <2>3, <3>1 DEF Distinct
    <3>. QED  BY <2>2, <3>2
  <2>. QED  BY <2>1, <2>3 DEF Distinct, s
<1>. QED  BY <1>1, <1>2

LEMMA SubmissionKeepsDistinct ==
    ASSUME queue \in Seq(Request), Distinct(queue), NEW r \in Request, ~ IsDuplicate(r)
    PROVE  Distinct(Append(queue, r))
<1>. DEFINE q == Append(queue, r)
<1>1. /\ Len(queue) \in Nat /\ DOMAIN queue = 1 .. Len(queue)
      /\ DOMAIN q = 1 .. Len(queue) + 1
      /\ \A i \in DOMAIN queue : q[i] = queue[i]
      /\ q[Len(queue) + 1] = r
  BY OneAppended
<1>. HIDE DEF q
<1>2. \A i \in DOMAIN queue : ~ (queue[i].key = r.key /\ queue[i].direction = r.direction)
  BY DEF IsDuplicate, ToSet
<1>3. ASSUME NEW i \in DOMAIN q, NEW j \in DOMAIN q,
             q[i].key = q[j].key, q[i].direction = q[j].direction
      PROVE  i = j
  <2>1. CASE i \in DOMAIN queue /\ j \in DOMAIN queue
    BY <1>1, <1>3, <2>1 DEF Distinct
  <2>2. CASE i = Len(queue) + 1 /\ j = Len(queue) + 1
    BY <2>2
  <2>3. CASE i \in DOMAIN queue /\ j = Len(queue) + 1
    BY <1>1, <1>2, <1>3, <2>3
  <2>4. CASE i = Len(queue) + 1 /\ j \in DOMAIN queue
    BY <1>1, <1>2, <1>3, <2>4
  <2>. QED  BY <1>1, <2>1, <2>2, <2>3, <2>4
<1>. QED  BY <1>3 DEF Distinct, q

LEMMA QueueStep ==
    ASSUME SchedulerInv, Distinct(queue), [Next]_vars
    PROVE  Distinct(queue')
<1>1. queue \in Seq(Request)
  BY DEF SchedulerInv, TypeOK
<1>2. ASSUME NEW r \in Request, Submit(r) PROVE Distinct(queue')
  BY <1>1, <1>2, SubmissionKeepsDistinct DEF Submit
<1>3. ASSUME NEW r, queue' = RemoveFirst(queue, r) PROVE Distinct(queue')
  BY <1>1, <1>3, RemovalKeepsDistinct
<1>4. ASSUME NEW fault, ExecuteNext(fault) PROVE Distinct(queue')
  BY <1>3, <1>4 DEF ExecuteNext
<1>5. ASSUME NEW id, Cancel(id) PROVE Distinct(queue')
  BY <1>3, <1>5 DEF Cancel
<1>6. ASSUME NEW r, NEW fault, SubmitAsync(r, fault) PROVE Distinct(queue')
  BY <1>6 DEF SubmitAsync
<1>7. ASSUME NEW k, NEW fault, PollAsync(k, fault) PROVE Distinct(queue')
  BY <1>7 DEF PollAsync
<1>8. CASE queue' = queue
  BY <1>8
<1>. QED  BY <1>2, <1>4, <1>5, <1>6, <1>7, <1>8
          DEF Next, vars, GpuStep, Load, LookUp, GiveUp, Uses

\* A queued transfer touches the handles of asynchronous ones only by doing
\* what is pending.
LEMMA ExecuteHandles ==
    ASSUME NEW fault, ExecuteNext(fault)
    PROVE  handles' = handles \/ handles' = Copied(stream)
<1>1. CASE TransferRuns(NextRequest, fault)
  <2>1. CASE fault = "stage"  BY <1>1, <2>1 DEF TransferRuns
  <2>2. CASE fault = "copy"   BY <1>1, <2>2 DEF TransferRuns
  <2>3. CASE fault # "stage" /\ fault # "copy"
    BY <1>1, <2>3 DEF TransferRuns
  <2>. QED  BY <2>1, <2>2, <2>3
<1>. QED  BY <1>1 DEF ExecuteNext, Demotes, TransferRefused

\* What a step does to the set of transfers in flight.
LEMMA InFlightChanges ==
    ASSUME SchedulerInv, [Next]_vars
    PROVE  \/ InFlight' = InFlight
           \/ \E k : InFlight' = InFlight \ {k}
           \/ \E k : InFlight' = InFlight \cup {k} /\ Cardinality(InFlight) < MaxConcurrent
<1>1. ASSUME handles' = handles PROVE InFlight' = InFlight
  BY <1>1 DEF InFlight
<1>2. CASE GpuStep
  BY <1>2, CopiedFacts DEF GpuStep, InFlight
<1>3. ASSUME NEW fault, ExecuteNext(fault) PROVE InFlight' = InFlight
  <2>1. handles' = handles \/ handles' = Copied(stream)
    BY <1>3, ExecuteHandles
  <2>2. CASE handles' = Copied(stream)
    BY <2>2, CopiedFacts DEF InFlight
  <2>. QED  BY <1>1, <2>1, <2>2
<1>4. ASSUME NEW r, NEW fault, SubmitAsync(r, fault)
      PROVE  \/ InFlight' = InFlight
             \/ InFlight' = InFlight \cup {r.key} /\ Cardinality(InFlight) < MaxConcurrent
  BY <1>4 DEF SubmitAsync, Accepts, InFlight
<1>5. ASSUME NEW k, NEW fault, PollAsync(k, fault) PROVE InFlight' = InFlight \ {k}
  BY <1>5 DEF PollAsync, Discards, Publishes, Loses, Finishes, Forget, InFlight
<1>6. ASSUME NEW id, Cancel(id) PROVE InFlight' = InFlight
  <2>1. handles \in [InFlight -> Handle]
    BY DEF SchedulerInv, TypeOK
  <2>. QED  BY <1>6, <2>1 DEF Cancel, InFlight
<1>. QED  BY <1>1, <1>2, <1>3, <1>4, <1>5, <1>6
          DEF Next, vars, Submit, Load, LookUp, GiveUp, Uses

LEMMA FewStep == SchedulerInv /\ FewInFlight /\ [Next]_vars => FewInFlight'
<1>. SUFFICES ASSUME SchedulerInv, FewInFlight, [Next]_vars PROVE FewInFlight'
  OBVIOUS
<1>1. Cardinality(InFlight) \in Nat /\ MaxConcurrent \in Nat /\ IsFiniteSet(InFlight)
  BY FS_CardinalityType, SchedulerAssumption DEF FewInFlight
<1>2. CASE InFlight' = InFlight
  BY <1>2 DEF FewInFlight
<1>3. ASSUME NEW k, InFlight' = InFlight \ {k} PROVE FewInFlight'
  BY <1>1, <1>3, FS_RemoveElement DEF FewInFlight
<1>4. ASSUME NEW k, InFlight' = InFlight \cup {k}, Cardinality(InFlight) < MaxConcurrent
      PROVE  FewInFlight'
  BY <1>1, <1>4, FS_AddElement DEF FewInFlight
<1>. QED  BY <1>2, <1>3, <1>4, InFlightChanges

\* Neither the queue nor the transfers in flight grow past what the scheduler
\* allows: an expert is queued at most once each way, and cancelled transfers
\* count against max_concurrent until they are collected.
THEOREM NothingDuplicated == Spec => []Deduplicated
<1>1. Init => Distinct(queue) /\ FewInFlight
  <2>. SUFFICES ASSUME Init PROVE Distinct(queue) /\ FewInFlight
    OBVIOUS
  <2>1. InFlight = {} /\ DOMAIN queue = {}
    BY DEF Init, InFlight
  <2>. QED  BY <2>1, FS_EmptySet, SchedulerAssumption DEF Distinct, FewInFlight
<1>2. SchedulerInv /\ Distinct(queue) /\ FewInFlight /\ [Next]_vars
         => Distinct(queue)' /\ FewInFlight'
  BY QueueStep, FewStep DEF Distinct
<1>3. Distinct(queue) /\ FewInFlight => Deduplicated
  BY DEF Distinct, FewInFlight, Deduplicated
<1>. QED  BY <1>1, <1>2, <1>3, AlwaysOwned, PTL DEF Spec

-----------------------------------------------------------------------------
(***************************************************************************)
(* The scheduler implements AsyncTransfer                                  *)
(***************************************************************************)

Flying    == Status("in_flight")
Cancelled == Status("cancelled")

\* What the cache calls do to the GPU tier.
LEMMA GpuTier ==
    ASSUME IsCache(cache), NEW k \in Expert
    PROVE  /\ k \in Resident(CachePut(cache, k, "cuda"), "gpu")
           /\ Resident(CachePut(cache, k, "cuda"), "gpu") \subseteq OnGpu \cup {k}
           /\ Resident(CacheDemote(cache, k), "gpu") \subseteq OnGpu
           /\ Resident(CacheGet(cache, k), "gpu") = OnGpu
           /\ k \notin OnCpu =>
                 Resident(CachePut(CacheGet(cache, k), k, "cpu"), "gpu") = OnGpu
<1>1. /\ "cuda" \in Device /\ "cpu" \in Device /\ "gpu" \in Tier /\ "cpu" \in Tier
      /\ TierOf("cuda") = "gpu" /\ TierOf("cpu") = "cpu" /\ "gpu" # "cpu"
  BY DEF Device, Tier, TierOf
<1>2. /\ k \in Resident(CachePut(cache, k, "cuda"), "gpu")
      /\ Resident(CachePut(cache, k, "cuda"), "gpu") \subseteq OnGpu \cup {k}
  <2>. DEFINE d == CachePut(cache, k, "cuda")
  <2>1. CASE k \in Resident(cache, "gpu")
    <3>1. \A u \in Tier : Resident(d, u) = Resident(cache, u)
      BY <1>1, <2>1, PutFacts
    <3>. QED  BY <1>1, <2>1, <3>1 DEF OnGpu
  <2>2. CASE k \notin Resident(cache, "gpu")
    <3>1. \/ \E v \in Resident(cache, "gpu") :
                Resident(d, "gpu") = (Resident(cache, "gpu") \ {v}) \cup {k}
          \/ Resident(d, "gpu") = Resident(cache, "gpu") \cup {k}
      BY <1>1, <2>2, PutFacts
    <3>. HIDE DEF d
    <3>2. k \in Resident(d, "gpu") /\ Resident(d, "gpu") \subseteq Resident(cache, "gpu") \cup {k}
      BY <2>2, <3>1
    <3>. QED  BY <3>2 DEF OnGpu, d
  <2>. QED  BY <2>1, <2>2
<1>3. Resident(CacheDemote(cache, k), "gpu") \subseteq OnGpu
  <2>1. CASE k \in Resident(cache, "gpu")
    BY <2>1, DemoteFacts DEF OnGpu
  <2>2. CASE k \notin Resident(cache, "gpu")
    BY <2>2 DEF CacheDemote, OnGpu
  <2>. QED  BY <2>1, <2>2
<1>4. IsCache(CacheGet(cache, k)) /\ \A u \in Tier : Resident(CacheGet(cache, k), u) = Resident(cache, u)
  BY GetFacts
<1>5. ASSUME k \notin OnCpu
      PROVE  Resident(CachePut(CacheGet(cache, k), k, "cpu"), "gpu") = OnGpu
  <2>. DEFINE c == CacheGet(cache, k)
              d == CachePut(c, k, "cpu")
  <2>1. k \notin Resident(c, "cpu")
    BY <1>1, <1>4, <1>5 DEF OnCpu
  <2>2. \A u \in Tier \ {"cpu"} : d.order[u] = c.order[u]
    BY <1>1, <1>4, <2>1, PutFacts
  <2>3. Resident(d, "gpu") = Resident(c, "gpu")
    BY <1>1, <2>2 DEF Resident
  <2>. QED  BY <1>1, <1>4, <2>3 DEF OnGpu
<1>. QED  BY <1>1, <1>2, <1>3, <1>4, <1>5 DEF OnGpu

\* The two sets are disjoint and make up the transfers in flight.
LEMMA StatusFacts ==
    ASSUME SchedulerInv
    PROVE  /\ Flying \cup Cancelled = InFlight
           /\ Flying \cap Cancelled = {}
  BY DEF SchedulerInv, TypeOK, Handle, Flying, Cancelled, Status

LEMMA SameCount ==
    ASSUME NEW S
    PROVE  Lifecycle!Cardinality(S) = Cardinality(S)
  BY DEF Cardinality, Lifecycle!Cardinality

\* Steps that keep the status of every handle and at most make one expert
\* resident.
LEMMA QuietStep ==
    ASSUME InFlight' = InFlight, \A k \in InFlight : handles'[k].status = handles[k].status,
           NEW k \in Expert, OnGpu' \subseteq OnGpu \cup {k}
    PROVE  Lifecycle!Next
<1>1. Status("in_flight")' = Status("in_flight") /\ Status("cancelled")' = Status("cancelled")
  BY DEF Status
<1>. QED  BY <1>1 DEF Lifecycle!Next, Lifecycle!Residency

LEMMA LifecycleByExecute ==
    ASSUME SchedulerInv, NEW fault, ExecuteNext(fault)
    PROVE  Lifecycle!Next
<1>1. /\ IsCache(cache) /\ queue \in Seq(Request) /\ queue # << >>
  BY DEF SchedulerInv, TypeOK, ExecuteNext
<1>2. NextRequest.key \in Expert
  BY <1>1, NextIsQueued, SchedulerAssumption
<1>. DEFINE r == NextRequest
<1>3. InFlight' = InFlight /\ \A k \in InFlight : handles'[k].status = handles[k].status
  <2>1. handles' = handles \/ handles' = Copied(stream)
    BY ExecuteHandles
  <2>2. CASE handles' = Copied(stream)
    BY <2>2, CopiedFacts DEF InFlight
  <2>. QED  BY <2>1, <2>2 DEF InFlight
<1>4. OnGpu' \subseteq OnGpu \cup {r.key}
  <2>1. \/ cache' = cache
        \/ cache' = CacheDemote(cache, r.key)
        \/ cache' = CachePut(cache, r.key, "cuda")
    BY DEF ExecuteNext, Demotes, TransferRefused, TransferRuns
  <2>2. OnGpu' = Resident(cache', "gpu")
    BY DEF OnGpu
  <2>. QED  BY <1>1, <1>2, <2>1, <2>2, GpuTier DEF OnGpu
<1>. QED  BY <1>2, <1>3, <1>4, QuietStep

LEMMA LifecycleBySubmit ==
    ASSUME SchedulerInv, NEW r \in Request, NEW fault, SubmitAsync(r, fault)
    PROVE  Lifecycle!Next \/ UNCHANGED Lifecycle!vars
<1>1. /\ r.key \in Expert /\ r.key \notin OnGpu /\ r.key \notin InFlight
      /\ Cardinality(InFlight) < MaxConcurrent /\ cache' = cache
  BY SchedulerAssumption DEF SubmitAsync, Accepts
<1>2. CASE handles' = handles
  BY <1>1, <1>2 DEF Lifecycle!vars, Status, InFlight, OnGpu
<1>3. CASE /\ InFlight' = InFlight \cup {r.key}
           /\ handles'[r.key].status = "in_flight"
           /\ \A k \in InFlight : handles'[k] = handles[k]
  <2>1. Status("in_flight")' = Status("in_flight") \cup {r.key}
    BY <1>3 DEF Status
  <2>2. Status("cancelled")' = Status("cancelled")
    BY <1>3 DEF Status
  <2>3. Status("in_flight") \cup Status("cancelled") = InFlight
    BY StatusFacts DEF Flying, Cancelled
  <2>4. Lifecycle!Cardinality(Status("in_flight") \cup Status("cancelled")) < MaxConcurrent
    BY <1>1, <2>3, SameCount
  <2>5. OnGpu' = OnGpu
    BY <1>1 DEF OnGpu
  <2>6. Lifecycle!Start(r.key)
    BY <1>1, <2>1, <2>2, <2>3, <2>4, <2>5 DEF Lifecycle!Start
  <2>. QED  BY <1>1, <2>6 DEF Lifecycle!Next
<1>4. \/ handles' = handles
      \/ handles' = [k \in InFlight \cup {r.key} |->
                        IF k = r.key
                        THEN [id |-> r.id, slot |-> AcquiredSlot(pool, stream),
                              status |-> "in_flight", gpu_state |-> NoExpert]
                        ELSE handles[k]]
  <2>1. CASE r.key \notin OnCpu
    BY <2>1 DEF SubmitAsync
  <2>2. CASE r.key \in OnCpu /\ fault \in {"stage", "copy"}
    BY <2>2 DEF SubmitAsync
  <2>3. CASE r.key \in OnCpu /\ fault \notin {"stage", "copy"}
    BY <2>3 DEF SubmitAsync
  <2>. QED  BY <2>1, <2>2, <2>3
<1>. QED  BY <1>1, <1>2, <1>3, <1>4 DEF InFlight

LEMMA LifecycleByPoll ==
    ASSUME SchedulerInv, NEW k \in Expert, NEW fault, PollAsync(k, fault)
    PROVE  Lifecycle!Next
<1>1. /\ k \in InFlight /\ Forget(k) /\ IsCache(cache)
      /\ handles[k].status \in {"in_flight", "cancelled"}
  BY DEF PollAsync, Discards, Publishes, Loses, Finishes, SchedulerInv, TypeOK, Handle
<1>2. InFlight' = InFlight \ {k} /\ \A j \in InFlight \ {k} : handles'[j] = handles[j]
  BY <1>1 DEF Forget, InFlight
<1>3. CASE handles[k].status = "cancelled" /\ cache' = cache
  <2>1. /\ Status("in_flight")' = Status("in_flight")
        /\ Status("cancelled")' = Status("cancelled") \ {k}
        /\ k \in Status("cancelled") /\ OnGpu' = OnGpu
    BY <1>1, <1>2, <1>3 DEF Status, OnGpu
  <2>. QED  BY <2>1 DEF Lifecycle!Next, Lifecycle!Discard
<1>4. CASE handles[k].status = "in_flight"
  <2>1. /\ Status("in_flight")' = Status("in_flight") \ {k}
        /\ Status("cancelled")' = Status("cancelled")
        /\ k \in Status("in_flight")
    BY <1>1, <1>2, <1>4 DEF Status
  <2>2. CASE cache' = cache
    <3>1. OnGpu' = OnGpu
      BY <2>2 DEF OnGpu
    <3>. QED  BY <2>1, <3>1 DEF Lifecycle!Next, Lifecycle!Fail
  <2>3. CASE cache' = CachePut(cache, k, "cuda")
    <3>1. k \in OnGpu' /\ OnGpu' \subseteq OnGpu \cup {k}
      BY <1>1, <2>3, GpuTier DEF OnGpu
    <3>. QED  BY <2>1, <3>1 DEF Lifecycle!Next, Lifecycle!Publish
  <2>4. cache' = cache \/ cache' = CachePut(cache, k, "cuda")
    BY DEF PollAsync, Discards, Publishes, Loses
  <2>. QED  BY <2>2, <2>3, <2>4
<1>. QED  BY <1>1, <1>3, <1>4 DEF PollAsync, Discards, Publishes, Loses

LEMMA LifecycleByCancel ==
    ASSUME SchedulerInv, NEW id, Cancel(id)
    PROVE  Lifecycle!Next \/ UNCHANGED Lifecycle!vars
<1>1. CASE UNCHANGED <<cache, handles>>
  BY <1>1 DEF Lifecycle!vars, Status, InFlight, OnGpu
<1>2. ASSUME NEW k \in InFlight, handles[k].status = "in_flight", cache' = cache,
             handles' = [handles EXCEPT ![k].status = "cancelled"]
      PROVE  Lifecycle!Next
  <2>1. handles \in [InFlight -> Handle] /\ k \in Expert
    BY DEF SchedulerInv, TypeOK
  <2>2. /\ InFlight' = InFlight /\ handles'[k].status = "cancelled"
        /\ \A j \in InFlight \ {k} : handles'[j] = handles[j]
    BY <1>2, <2>1 DEF InFlight, Handle
  <2>3. /\ Status("in_flight")' = Status("in_flight") \ {k}
        /\ Status("cancelled")' = Status("cancelled") \cup {k}
        /\ k \in Status("in_flight") /\ OnGpu' = OnGpu
    BY <1>2, <2>2 DEF Status, OnGpu
  <2>. QED  BY <2>1, <2>3 DEF Lifecycle!Next, Lifecycle!Cancel
<1>. QED  BY <1>1, <1>2 DEF Cancel

LEMMA LifecycleStep ==
    SchedulerInv /\ [Next]_vars => [Lifecycle!Next]_(Lifecycle!vars)
<1>. SUFFICES ASSUME SchedulerInv, [Next]_vars
              PROVE  Lifecycle!Next \/ UNCHANGED Lifecycle!vars
  OBVIOUS
<1>1. ASSUME UNCHANGED <<cache, handles>> PROVE UNCHANGED Lifecycle!vars
  BY <1>1 DEF Lifecycle!vars, Status, InFlight, OnGpu
<1>2. CASE GpuStep
  <2>1. /\ InFlight' = InFlight /\ cache' = cache
        /\ \A k \in InFlight : handles'[k].status = handles[k].status
    BY <1>2, CopiedFacts DEF GpuStep, InFlight
  <2>. QED  BY <2>1 DEF Lifecycle!vars, Status, OnGpu
<1>3. ASSUME NEW k \in Expert, Load(k) \/ LookUp(k) \/ GiveUp(k)
      PROVE  Lifecycle!Next
  <2>1. IsCache(cache) /\ handles' = handles
    BY <1>3 DEF SchedulerInv, TypeOK, Load, LookUp, GiveUp, Uses
  <2>2. OnGpu' \subseteq OnGpu
    <3>1. \/ k \notin OnCpu /\ cache' = CachePut(CacheGet(cache, k), k, "cpu")
          \/ cache' = CacheGet(cache, k)
          \/ cache' = CacheDemote(cache, k)
      BY <1>3 DEF Load, LookUp, GiveUp, Uses
    <3>2. OnGpu' = Resident(cache', "gpu")
      BY DEF OnGpu
    <3>. QED  BY <2>1, <3>1, <3>2, GpuTier
  <2>. QED  BY <2>1, <2>2, QuietStep DEF InFlight
<1>. QED  BY <1>1, <1>2, <1>3, LifecycleByExecute, LifecycleBySubmit, LifecycleByPoll,
             LifecycleByCancel
          DEF Next, vars, Submit

\* The scheduler implements AsyncTransfer: a cancelled transfer is collected
\* without making its expert resident, an expert has one transfer at a time,
\* and only publishing adds an asynchronous expert to the GPU tier.
THEOREM ImplementsAsyncTransfer == Spec => TransferLifecycle
<1>1. Init => Lifecycle!Init
  <2>. SUFFICES ASSUME Init PROVE Lifecycle!Init
    OBVIOUS
  <2>1. InFlight = {} /\ OnGpu = {}
    BY EmptyFacts DEF Init, InFlight, OnGpu, Tier
  <2>. QED  BY <2>1 DEF Lifecycle!Init, Status
<1>. QED  BY <1>1, LifecycleStep, AlwaysOwned, PTL
          DEF Spec, TransferLifecycle, Lifecycle!Spec

-----------------------------------------------------------------------------
(***************************************************************************)
(* The tiers under the scheduler and its fellow users of the cache.        *)
(***************************************************************************)

\* What a call of the scheduler or of a layer may do to the cache: a put into
\* the GPU tier, a demotion, a get that hits, or a get that misses followed by
\* the put of the same key into the CPU tier.
CacheStep ==
    \/ cache' = cache
    \/ \E k \in Expert :
          cache' = CachePut(cache, k, "cuda") \/ cache' = CacheDemote(cache, k)
    \/ \E k \in OnGpu \cup OnCpu : cache' = CacheGet(cache, k)
    \/ \E k \in Expert \ (OnGpu \cup OnCpu) :
          cache' = CachePut(CacheGet(cache, k), k, "cpu")

LEMMA ResidentsAreExperts ==
    ASSUME IsCache(cache)
    PROVE  OnGpu \subseteq Expert /\ OnCpu \subseteq Expert
<1>1. "gpu" \in Tier /\ "cpu" \in Tier
  BY DEF Tier
<1>. QED  BY <1>1, CacheFields DEF OnGpu, OnCpu

\* Every step of the scheduler is one of these.
LEMMA NextChangesCache ==
    ASSUME SchedulerInv, Next
    PROVE  CacheStep
<1>1. CASE GpuStep
  BY <1>1 DEF GpuStep, CacheStep
<1>2. ASSUME NEW r \in Request, Submit(r) PROVE CacheStep
  BY <1>2 DEF Submit, CacheStep
<1>3. ASSUME NEW fault \in Faults \cup {"none"}, ExecuteNext(fault) PROVE CacheStep
  <2>1. NextRequest.key \in Expert
    BY <1>3, NextIsQueued, SchedulerAssumption DEF ExecuteNext, SchedulerInv, TypeOK
  <2>2. \/ cache' = cache
        \/ cache' = CachePut(cache, NextRequest.key, "cuda")
        \/ cache' = CacheDemote(cache, NextRequest.key)
    BY <1>3 DEF ExecuteNext, Demotes, TransferRefused, TransferRuns
  <2>. QED  BY <2>1, <2>2 DEF CacheStep
<1>4. ASSUME NEW r \in Request, NEW fault \in Faults \cup {"none"}, SubmitAsync(r, fault)
      PROVE CacheStep
  BY <1>4 DEF SubmitAsync, CacheStep
<1>5. ASSUME NEW k \in Expert, NEW fault \in Faults \cup {"none"}, PollAsync(k, fault)
      PROVE CacheStep
  BY <1>5 DEF PollAsync, Discards, Publishes, Loses, CacheStep
<1>6. ASSUME NEW r \in Request, Cancel(r.id) PROVE CacheStep
  BY <1>6 DEF Cancel, CacheStep
<1>7. ASSUME NEW k \in Expert, Load(k) \/ LookUp(k) \/ GiveUp(k) PROVE CacheStep
  BY <1>7 DEF Load, LookUp, GiveUp, Uses, CacheStep
<1>. QED  BY <1>1, <1>2, <1>3, <1>4, <1>5, <1>6, <1>7 DEF Next

\* No such step takes the CPU tier beyond its slots, whatever the policy.
LEMMA CacheStepWithin ==
    ASSUME IsCache(cache), CacheStep, Len(cache.order["cpu"]) <= AtLeast1(CpuSlots)
    PROVE  Len(cache'.order["cpu"]) <= AtLeast1(CpuSlots)
<1>0. /\ "gpu" \in Tier /\ "cpu" \in Tier /\ "gpu" # "cpu"
      /\ "cuda" \in Device /\ TierOf("cuda") = "gpu"
  BY DEF Tier, Device, TierOf
<1>1. ASSUME NEW k \in Expert, cache' = CachePut(cache, k, "cuda")
      PROVE  Len(cache'.order["cpu"]) = Len(cache.order["cpu"])
  <2>1. k \in Resident(cache, TierOf("cuda")) \/ k \notin Resident(cache, TierOf("cuda"))
    OBVIOUS
  <2>. QED  BY <1>0, <1>1, <2>1, PutFacts
<1>2. ASSUME NEW k \in Expert, cache' = CacheDemote(cache, k)
      PROVE  Len(cache'.order["cpu"]) = Len(cache.order["cpu"])
  <2>1. CASE k \in Resident(cache, "gpu")
    BY <1>2, <2>1, DemoteFacts
  <2>2. CASE k \notin Resident(cache, "gpu")
    BY <1>2, <2>2 DEF CacheDemote
  <2>. QED  BY <2>1, <2>2
<1>3. ASSUME NEW k \in OnGpu \cup OnCpu, cache' = CacheGet(cache, k)
      PROVE  Len(cache'.order["cpu"]) = Len(cache.order["cpu"])
  BY <1>0, <1>3, GetFacts, ResidentsAreExperts
<1>4. ASSUME NEW k \in Expert \ (OnGpu \cup OnCpu),
             cache' = CachePut(CacheGet(cache, k), k, "cpu")
      PROVE  Len(cache'.order["cpu"]) <= AtLeast1(CpuSlots)
  BY <1>4, LoadWithin DEF OnGpu, OnCpu
<1>. QED  BY <1>1, <1>2, <1>3, <1>4 DEF CacheStep

\* Nor any tier under LRU and LFU.
LEMMA CacheStepBounded ==
    ASSUME Policy # "arc", IsCache(cache), CacheStep, Bounded(cache)
    PROVE  Bounded(cache')
<1>1. ASSUME NEW c, IsCache(c), Bounded(c), NEW k \in Expert
      PROVE  Bounded(CacheDemote(c, k)) /\ Bounded(CacheGet(c, k)) /\ IsCache(CacheGet(c, k))
  <2>1. Bounded(CacheGet(c, k)) /\ IsCache(CacheGet(c, k))
    BY <1>1, GetFacts DEF Bounded
  <2>2. Bounded(CacheDemote(c, k))
    BY <1>1, DemoteWithin
  <2>. QED  BY <2>1, <2>2
<1>2. "cuda" \in Device /\ "cpu" \in Device
  BY DEF Device
<1>3. ASSUME NEW k \in Expert
      PROVE  /\ Bounded(CacheDemote(cache, k)) /\ Bounded(CacheGet(cache, k))
             /\ Bounded(CachePut(cache, k, "cuda"))
             /\ Bounded(CachePut(CacheGet(cache, k), k, "cpu"))
  BY <1>1, <1>2, PutWithin
<1>. QED  BY <1>3, ResidentsAreExperts DEF CacheStep

\* Under ARC they keep what is live resident.
LEMMA CacheStepOwned ==
    ASSUME Policy = "arc", IsCache(cache), CacheStep, ArcOwned(cache)
    PROVE  ArcOwned(cache')
  BY OwnedAfterHit, OwnedAfterGpuPut, OwnedAfterDemote, OwnedAfterLoad
  DEF CacheStep, OnGpu, OnCpu

\* Nor do they let the ghost lists outgrow the cap by more than one.
LEMMA CacheStepCapped ==
    ASSUME IsCache(cache), CacheStep, GhostsCapped(cache)
    PROVE  GhostsCapped(cache')
<1>1. CASE Policy = "arc"
  <2>1. ASSUME NEW k \in Expert
        PROVE  /\ GhostsCapped(CacheGet(cache, k))
               /\ GhostsCapped(CachePut(cache, k, "cuda"))
               /\ GhostsCapped(CacheDemote(cache, k))
    BY <1>1, CappedAfterGet, CappedOnGpu
  <2>2. ASSUME NEW k \in Expert \ (OnGpu \cup OnCpu)
        PROVE  GhostsCapped(CachePut(CacheGet(cache, k), k, "cpu"))
    BY <1>1, CappedAfterLoad DEF OnGpu, OnCpu
  <2>. QED  BY <2>1, <2>2, ResidentsAreExperts DEF CacheStep
<1>2. CASE Policy # "arc"
  <2>1. \A k : CachePut(CacheGet(cache, k), k, "cpu").arc = CacheGet(cache, k).arc
    BY <1>2, ArcUntouched
  <2>2. \A k : /\ CacheGet(cache, k).arc = cache.arc
                /\ CachePut(cache, k, "cuda").arc = cache.arc
                /\ CacheDemote(cache, k).arc = cache.arc
    BY <1>2, ArcUntouched
  <2>3. cache'.arc = cache.arc
    BY <2>1, <2>2 DEF CacheStep
  <2>. QED  BY <2>3 DEF GhostsCapped
<1>. QED  BY <1>1, <1>2

\* Transfers, loads and demotions in any order, failed and cancelled ones
\* included, never leave a tier with more experts than its slots under LRU and
\* LFU.
THEOREM SchedulerTiersBounded ==
    ASSUME Policy # "arc"
    PROVE  Spec => []Bounded(cache)
<1>1. Init => Bounded(cache)
  <2>1. \A t \in Tier : AtLeast1(SlotsOf(t)) \in Nat
    BY AtLeast1Type, CacheAssumption DEF SlotsOf
  <2>2. \A t \in Tier : Len(EmptyCache.order[t]) = 0
    BY EmptyFacts
  <2>. QED  BY <2>1, <2>2 DEF Init, Bounded
<1>2. SchedulerInv /\ Bounded(cache) /\ [Next]_vars => Bounded(cache)'
  <2>1. SchedulerInv => IsCache(cache)
    BY DEF SchedulerInv, TypeOK
  <2>2. UNCHANGED vars => CacheStep
    BY DEF vars, CacheStep
  <2>. QED  BY <2>1, <2>2, NextChangesCache, CacheStepBounded
<1>. QED  BY <1>1, <1>2, AlwaysOwned, PTL DEF Spec
=============================================================================
