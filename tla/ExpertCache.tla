---------------------------- MODULE ExpertCache ----------------------------
(***************************************************************************)
(* The data of cache/manager.py: the two tiers of CacheManager, the ARC    *)
(* bookkeeping of _ArcState, and the effect of each public method as an    *)
(* operator from a cache to a cache.  The state machines of CacheManager,  *)
(* TransferScheduler and MoELayer apply these operators in their actions.  *)
(*                                                                         *)
(* A cache is a record of                                                  *)
(*   order  the resident keys of each tier, oldest last_access first: the  *)
(*          dicts _gpu_cache and _cpu_cache, with time.monotonic() read as *)
(*          a strictly increasing clock;                                   *)
(*   count  access_count of each resident entry, kept only where a policy  *)
(*          reads it (LFU), 0 for keys that are not resident;              *)
(*   arc    the _ArcState of each tier, changed only under ARC;            *)
(*   used   stats.gpu_slots_used and stats.cpu_slots_used.                 *)
(* Tensors, sizes and the hit, miss and eviction counters are left out.    *)
(***************************************************************************)
EXTENDS SequencesExt

CONSTANTS
    Expert,     \* the keys (layer_id, expert_id)
    Policy,     \* EvictionPolicy: "lru", "lfu" or "arc"
    GpuSlots,   \* gpu_slots
    CpuSlots    \* cpu_slots

ASSUME CacheAssumption ==
    /\ Policy \in {"lru", "lfu", "arc"}
    /\ GpuSlots \in Nat
    /\ CpuSlots \in Nat

Tier == {"gpu", "cpu"}

Device == {"cuda", "gpu", "cpu"}

\* The tier a device string selects: a "cuda" or a "gpu" prefix is the GPU.
TierOf(device) == IF device \in {"cuda", "gpu"} THEN "gpu" ELSE "cpu"

SlotsOf(t) == IF t = "gpu" THEN GpuSlots ELSE CpuSlots

EmptyArc == [p |-> 0, t1 |-> << >>, t2 |-> << >>, b1 |-> << >>, b2 |-> << >>]

EmptyCache ==
    [order |-> [t \in Tier |-> << >>],
     count |-> [t \in Tier |-> [k \in Expert |-> 0]],
     arc   |-> [t \in Tier |-> EmptyArc],
     used  |-> [t \in Tier |-> 0]]

Resident(c, t) == ToSet(c.order[t])

Arc == [p : Nat, t1 : Seq(Expert), t2 : Seq(Expert),
        b1 : Seq(Expert), b2 : Seq(Expert)]

\* The keys of a tier are those of a dict, so none is repeated.
IsCache(c) ==
    /\ c \in [order : [Tier -> Seq(Expert)],
             count : [Tier -> [Expert -> Nat]],
             arc   : [Tier -> Arc],
             used  : [Tier -> Nat]]
    /\ \A t \in Tier : IsInjective(c.order[t])

-----------------------------------------------------------------------------
(***************************************************************************)
(* _ArcState                                                               *)
(***************************************************************************)

\* The last n elements of a ghost list: what popping its head leaves.
Newest(s, n) == IF Len(s) > n THEN SubSeq(s, Len(s) - n + 1, Len(s)) ELSE s

AtLeast1(n) == IF n = 0 THEN 1 ELSE n

ArcHit(a, k) ==
    IF Contains(a.t1, k)
    THEN [p |-> a.p, t1 |-> RemoveFirst(a.t1, k), t2 |-> Append(a.t2, k),
          b1 |-> a.b1, b2 |-> a.b2]
    ELSE IF Contains(a.t2, k)
    THEN [p |-> a.p, t1 |-> a.t1, t2 |-> Append(RemoveFirst(a.t2, k), k),
          b1 |-> a.b1, b2 |-> a.b2]
    ELSE a

\* A hit in a ghost list moves the target size p of T1.
ArcTarget(a, k, max) ==
    LET grow   == AtLeast1(Len(a.b2) \div AtLeast1(Len(a.b1)))
        shrink == AtLeast1(Len(a.b1) \div AtLeast1(Len(a.b2)))
    IN IF Contains(a.b1, k)
       THEN IF a.p + grow > max THEN max ELSE a.p + grow
       ELSE IF Contains(a.b2, k)
       THEN IF a.p > shrink THEN a.p - shrink ELSE 0
       ELSE a.p

\* Mutant: a ghost that is hit stays in its ghost list.
ArcMissKeepsGhost(a, k, max) ==
    [p  |-> ArcTarget(a, k, max), t1 |-> Append(a.t1, k), t2 |-> a.t2,
     b1 |-> Newest(a.b1, max), b2 |-> Newest(a.b2, max)]

\* Mutant: the ghost lists are cut back only when one of them was hit.
ArcMissCutsOnHit(a, k, max) ==
    [p  |-> ArcTarget(a, k, max),
     t1 |-> Append(a.t1, k),
     t2 |-> a.t2,
     b1 |-> IF Contains(a.b1, k) THEN Newest(RemoveFirst(a.b1, k), max) ELSE a.b1,
     b2 |-> IF Contains(a.b2, k) THEN Newest(RemoveFirst(a.b2, k), max) ELSE a.b2]

\* The key leaves the ghost list it was hit in, B1 before B2, and enters T1;
\* both ghost lists are cut back to max_slots.
ArcMiss(a, k, max) ==
    [p  |-> ArcTarget(a, k, max),
     t1 |-> Append(a.t1, k),
     t2 |-> a.t2,
     b1 |-> Newest(RemoveFirst(a.b1, k), max),
     b2 |-> Newest(IF Contains(a.b1, k) THEN a.b2 ELSE RemoveFirst(a.b2, k), max)]

ArcIsEmpty(a) == a.t1 = << >> /\ a.t2 = << >>

ArcTakesT1(a) == a.t1 # << >> /\ (Len(a.t1) > a.p \/ a.t2 = << >>)

\* choose_evict: the victim, and the lists once it is a ghost.
ArcVictim(a) == IF ArcTakesT1(a) THEN Head(a.t1) ELSE Head(a.t2)

ArcChosen(a) ==
    IF ArcTakesT1(a)
    THEN [p |-> a.p, t1 |-> Tail(a.t1), t2 |-> a.t2,
          b1 |-> Append(a.b1, Head(a.t1)), b2 |-> a.b2]
    ELSE [p |-> a.p, t1 |-> a.t1, t2 |-> Tail(a.t2),
          b1 |-> a.b1, b2 |-> Append(a.b2, Head(a.t2))]

ArcRemove(a, k) ==
    [p |-> a.p, t1 |-> RemoveFirst(a.t1, k), t2 |-> RemoveFirst(a.t2, k),
     b1 |-> a.b1, b2 |-> a.b2]

-----------------------------------------------------------------------------
(***************************************************************************)
(* CacheManager                                                            *)
(***************************************************************************)

WithArc(c, t, a) ==
    [order |-> c.order, count |-> c.count, used |-> c.used,
     arc   |-> [c.arc EXCEPT ![t] = a]]

\* _touch: the entry becomes the most recently used one of its tier.
Touch(c, t, k) ==
    [order |-> [c.order EXCEPT ![t] = Append(RemoveFirst(@, k), k)],
     count |-> IF Policy = "lfu" THEN [c.count EXCEPT ![t][k] = @ + 1] ELSE c.count,
     arc   |-> IF Policy = "arc" THEN [c.arc EXCEPT ![t] = ArcHit(@, k)] ELSE c.arc,
     used  |-> c.used]

\* get: the GPU tier is searched first, and only the entry found is touched;
\* a miss tells the ARC state of the CPU tier.
CacheGet(c, k) ==
    IF k \in Resident(c, "gpu") THEN Touch(c, "gpu", k)
    ELSE IF k \in Resident(c, "cpu") THEN Touch(c, "cpu", k)
    ELSE IF Policy = "arc"
         THEN WithArc(c, "cpu", ArcMiss(c.arc["cpu"], k, CpuSlots))
         ELSE c

\* The resident key with the oldest last_access.
LruVictim(c, t) == Head(c.order[t])

\* Mutant: among the entries used least the newest goes.
LfuVictimNewest(c, t) ==
    LET s == c.order[t]
    IN s[Max({i \in DOMAIN s :
                \A j \in DOMAIN s : c.count[t][s[i]] <= c.count[t][s[j]]})]

\* The resident key with the lowest access_count, the oldest of those.
LfuVictim(c, t) ==
    LET s == c.order[t]
        least == {i \in DOMAIN s :
                    \A j \in DOMAIN s : c.count[t][s[i]] <= c.count[t][s[j]]}
    IN s[CHOOSE i \in least : \A j \in least : i <= j]

\* What ARC evicts: its choice, or the LRU entry when that is not resident.
ArcEvictee(c, t) ==
    IF ArcVictim(c.arc[t]) \in Resident(c, t)
    THEN ArcVictim(c.arc[t])
    ELSE LruVictim(c, t)

Victim(c, t) ==
    CASE Policy = "lru" -> LruVictim(c, t)
      [] Policy = "lfu" -> LfuVictim(c, t)
      [] Policy = "arc" -> ArcEvictee(c, t)

\* evict returns None on an empty tier and, under ARC, when both live lists
\* of the tier are empty: nothing is removed then.
CanEvict(c, t) ==
    /\ c.order[t] # << >>
    /\ Policy = "arc" => ~ ArcIsEmpty(c.arc[t])

\* The slot counter a device string refreshes: only a "cuda" prefix counts as
\* the GPU here, so "gpu" refreshes the CPU counter.
CounterOf(device) == IF device = "cuda" THEN "gpu" ELSE "cpu"

Recount(c, device) ==
    [order |-> c.order, count |-> c.count, arc |-> c.arc,
     used  |-> [c.used EXCEPT ![CounterOf(device)] = Len(c.order[CounterOf(device)])]]

\* A resident key leaves its tier and the live ARC lists of the tier.
Drop(c, t, k) ==
    [order |-> [c.order EXCEPT ![t] = RemoveFirst(@, k)],
     count |-> [c.count EXCEPT ![t][k] = 0],
     arc   |-> IF Policy = "arc" THEN [c.arc EXCEPT ![t] = ArcRemove(@, k)] ELSE c.arc,
     used  |-> c.used]

\* Mutant: evict forgets to refresh its counter.
CacheEvictUncounted(c, device) ==
    IF CanEvict(c, TierOf(device))
    THEN Drop(c, TierOf(device), Victim(c, TierOf(device)))
    ELSE c

\* choose_evict has moved its victim to a ghost list by the time the entry
\* that is really evicted leaves.
CacheEvict(c, device) ==
    LET t == TierOf(device)
        chosen == IF Policy = "arc" THEN WithArc(c, t, ArcChosen(c.arc[t])) ELSE c
    IN IF CanEvict(c, t)
       THEN Recount(Drop(chosen, t, Victim(c, t)), device)
       ELSE c

\* A key that is not resident enters its tier.
Insert(c, t, k) ==
    [order |-> [c.order EXCEPT ![t] = Append(@, k)],
     count |-> IF Policy = "lfu" THEN [c.count EXCEPT ![t][k] = 1] ELSE c.count,
     arc   |-> c.arc,
     used  |-> c.used]

\* Mutants of put: one entry too many, an eviction whether the tier is full or
\* not, and no look at whether the key is resident.
CachePutOneMore(c, k, device) ==
    LET t == TierOf(device) IN
    IF k \in Resident(c, t) THEN Touch(c, t, k)
    ELSE Recount(Insert(IF Len(c.order[t]) > SlotsOf(t) THEN CacheEvict(c, device) ELSE c,
                        t, k), device)

CachePutAlwaysEvicts(c, k, device) ==
    LET t == TierOf(device) IN
    IF k \in Resident(c, t) THEN Touch(c, t, k)
    ELSE Recount(Insert(CacheEvict(c, device), t, k), device)

CachePutTwice(c, k, device) ==
    LET t == TierOf(device) IN
    Recount(Insert(IF Len(c.order[t]) >= SlotsOf(t) THEN CacheEvict(c, device) ELSE c,
                   t, k), device)

\* put: a resident key is refreshed in place; otherwise a full tier evicts
\* first and the entry is inserted whatever the eviction returned.
CachePut(c, k, device) ==
    LET t == TierOf(device)
        room == IF Len(c.order[t]) >= SlotsOf(t)
                THEN CacheEvict(c, device)
                ELSE c
    IN IF k \in Resident(c, t)
       THEN Touch(c, t, k)
       ELSE Recount(Insert(room, t, k), device)

\* demote_to_cpu: the GPU copy is dropped, the CPU tier is not looked at.
CacheDemote(c, k) ==
    IF k \in Resident(c, "gpu")
    THEN Recount(Drop(c, "gpu", k), "cuda")
    ELSE c
=============================================================================
