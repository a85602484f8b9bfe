------------------------ MODULE CacheManager_proofs ------------------------
(***************************************************************************)
(* Proofs about CacheManager, for every set of experts and every number of *)
(* slots.                                                                  *)
(***************************************************************************)
EXTENDS CacheManager, ExpertCache_proofs

-----------------------------------------------------------------------------
(***************************************************************************)
(* Type correctness.                                                       *)
(***************************************************************************)

\* The key of a dict is in it once, and nothing but the listed actions
\* changes the cache: every action keeps the cache well formed.
LEMMA TypeStep == TypeOK /\ [Next]_cache => TypeOK'
<1>. SUFFICES ASSUME IsCache(cache), [Next]_cache
              PROVE  IsCache(cache')
  BY DEF TypeOK
<1>1. CASE UNCHANGED cache
  BY <1>1
<1>2. ASSUME NEW k \in Expert, Get(k)
      PROVE  IsCache(cache')
  BY <1>2, GetFacts DEF Get
<1>3. ASSUME NEW k \in Expert, Demote(k)
      PROVE  IsCache(cache')
  <2>1. CASE k \in Resident(cache, "gpu")
    BY <1>3, <2>1, DemoteFacts DEF Demote
  <2>2. CASE k \notin Resident(cache, "gpu")
    BY <1>3, <2>2 DEF Demote, CacheDemote
  <2>. QED  BY <2>1, <2>2
<1>4. ASSUME NEW k \in Expert, NEW device \in Devices, Put(k, device)
      PROVE  IsCache(cache')
  BY <1>4, PutFacts, CacheManagerAssumption DEF Put
<1>5. ASSUME NEW device \in Devices, Evict(device)
      PROVE  IsCache(cache')
  <2>1. device \in Device
    BY CacheManagerAssumption
  <2>2. CASE CanEvict(cache, TierOf(device))
    BY <1>5, <2>1, <2>2, EvictFacts DEF Evict
  <2>3. CASE ~ CanEvict(cache, TierOf(device))
    BY <1>5, <2>3 DEF Evict, CacheEvict
  <2>. QED  BY <2>2, <2>3
<1>. QED  BY <1>1, <1>2, <1>3, <1>4, <1>5 DEF Next

\* The tiers stay lists of distinct experts and the ARC lists lists of
\* experts, for every policy and any number of slots.
THEOREM TypeCorrect == Spec => []TypeOK
<1>1. Init => TypeOK
  BY EmptyFacts DEF Init, TypeOK
<1>. QED  BY <1>1, TypeStep, PTL DEF Spec

-----------------------------------------------------------------------------
(***************************************************************************)
(* The slot counters.                                                      *)
(***************************************************************************)

\* A step keeps the counters equal to the sizes of the tiers: evict and put
\* refresh the counter of the tier they change, and no other tier changes.
LEMMA CountStep ==
    ASSUME "gpu" \notin Devices
    PROVE  TypeOK /\ SlotsUsedExact /\ [Next]_cache => SlotsUsedExact'
<1>. SUFFICES ASSUME IsCache(cache), Counted(cache), [Next]_cache
              PROVE  Counted(cache')
  BY DEF TypeOK, SlotsUsedExact, Counted
<1>1. CASE UNCHANGED cache
  BY <1>1 DEF Counted
<1>2. ASSUME NEW k \in Expert, Get(k)
      PROVE  Counted(cache')
  <2>1. /\ cache'.used = cache.used
        /\ \A u \in Tier : Len(cache'.order[u]) = Len(cache.order[u])
    BY <1>2, GetFacts DEF Get
  <2>. QED  BY <2>1 DEF Counted
<1>3. ASSUME NEW k \in Expert, Demote(k)
      PROVE  Counted(cache')
  <2>1. CASE k \in Resident(cache, "gpu")
    <3>1. /\ cache'.order["cpu"] = cache.order["cpu"]
          /\ cache'.used = [cache.used EXCEPT !["gpu"] = Len(cache'.order["gpu"])]
      BY <1>3, <2>1, DemoteFacts DEF Demote
    <3>2. cache.used \in [Tier -> Nat] /\ Tier = {"gpu", "cpu"}
      BY DEF IsCache, Tier
    <3>. QED  BY <3>1, <3>2 DEF Counted
  <2>2. CASE k \notin Resident(cache, "gpu")
    BY <1>3, <2>2 DEF Demote, CacheDemote, Counted
  <2>. QED  BY <2>1, <2>2
<1>4. ASSUME NEW k \in Expert, NEW device \in Devices, Put(k, device)
      PROVE  Counted(cache')
  <2>. DEFINE t == TierOf(device)
  <2>1. device \in Device /\ t \in Tier /\ CounterOf(device) = t
    BY CacheManagerAssumption, DeviceFacts
  <2>2. cache' = CachePut(cache, k, device)
    BY <1>4 DEF Put
  <2>3. CASE k \in Resident(cache, t)
    <3>1. \A u \in Tier : /\ Len(cache'.order[u]) = Len(cache.order[u])
                          /\ cache'.used[u] = cache.used[u]
      BY <2>1, <2>2, <2>3, PutFacts
    <3>. QED  BY <3>1 DEF Counted
  <2>4. CASE k \notin Resident(cache, t)
    <3>1. /\ \A u \in Tier \ {t} : cache'.order[u] = cache.order[u]
          /\ cache'.used[CounterOf(device)] = Len(cache'.order[CounterOf(device)])
          /\ \A u \in Tier \ {CounterOf(device)} : cache'.used[u] = cache.used[u]
      BY <2>1, <2>2, <2>4, PutFacts
    <3>. QED  BY <2>1, <3>1 DEF Counted
  <2>. QED  BY <2>3, <2>4
<1>5. ASSUME NEW device \in Devices, Evict(device)
      PROVE  Counted(cache')
  <2>. DEFINE t == TierOf(device)
  <2>1. device \in Device /\ t \in Tier /\ CounterOf(device) = t
    BY CacheManagerAssumption, DeviceFacts
  <2>2. cache' = CacheEvict(cache, device)
    BY <1>5 DEF Evict
  <2>3. CASE CanEvict(cache, t)
    <3>1. /\ \A u \in Tier \ {t} : cache'.order[u] = cache.order[u]
          /\ cache'.used = [cache.used EXCEPT ![CounterOf(device)] =
                               Len(cache'.order[CounterOf(device)])]
      BY <2>1, <2>2, <2>3, EvictFacts
    <3>2. cache.used \in [Tier -> Nat]
      BY DEF IsCache
    <3>. QED  BY <2>1, <3>1, <3>2 DEF Counted
  <2>4. CASE ~ CanEvict(cache, t)
    BY <2>2, <2>4 DEF CacheEvict, Counted
  <2>. QED  BY <2>3, <2>4
<1>. QED  BY <1>1, <1>2, <1>3, <1>4, <1>5 DEF Next

\* stats() is exact after every call, for every policy and any number of
\* slots, when callers name the GPU "cuda": the alias "gpu" is what the
\* counters do not know.
THEOREM CountersExact ==
    ASSUME "gpu" \notin Devices
    PROVE  Spec => []SlotsUsedExact
<1>1. Init => SlotsUsedExact
  BY EmptyFacts DEF Init, SlotsUsedExact
<1>2. TypeOK /\ SlotsUsedExact /\ [Next]_cache => SlotsUsedExact'
  BY CountStep
<1>. QED  BY <1>1, <1>2, TypeCorrect, PTL DEF Spec

-----------------------------------------------------------------------------
(***************************************************************************)
(* The bound of the tiers.                                                 *)
(***************************************************************************)

\* No other action makes a tier longer.
LEMMA BoundStep ==
    ASSUME Policy # "arc"
    PROVE  TypeOK /\ WithinSlots /\ [Next]_cache => WithinSlots'
<1>. SUFFICES ASSUME IsCache(cache), Bounded(cache), [Next]_cache
              PROVE  Bounded(cache')
  BY DEF TypeOK, WithinSlots, Bounded
<1>0. \A u \in Tier : Len(cache.order[u]) \in Nat /\ AtLeast1(SlotsOf(u)) \in Nat
  BY CacheFields, CacheAssumption, AtLeast1Type DEF SlotsOf
<1>1. CASE UNCHANGED cache
  BY <1>1 DEF Bounded
<1>2. ASSUME NEW k \in Expert, Get(k)
      PROVE  Bounded(cache')
  <2>1. \A u \in Tier : Len(cache'.order[u]) = Len(cache.order[u])
    BY <1>2, GetFacts DEF Get
  <2>. QED  BY <2>1 DEF Bounded
<1>3. ASSUME NEW k \in Expert, Demote(k)
      PROVE  Bounded(cache')
  BY <1>3, DemoteWithin DEF Demote
<1>4. ASSUME NEW k \in Expert, NEW device \in Devices, Put(k, device)
      PROVE  Bounded(cache')
  BY <1>4, PutWithin, CacheManagerAssumption DEF Put
<1>5. ASSUME NEW device \in Devices, Evict(device)
      PROVE  Bounded(cache')
  <2>. DEFINE t == TierOf(device)
  <2>1. device \in Device /\ t \in Tier
    BY CacheManagerAssumption, DeviceFacts
  <2>2. cache' = CacheEvict(cache, device)
    BY <1>5 DEF Evict
  <2>3. CASE CanEvict(cache, t)
    <3>. DEFINE d == CacheEvict(cache, device)
    <3>1. /\ \A u \in Tier \ {t} : d.order[u] = cache.order[u]
          /\ Len(d.order[t]) = Len(cache.order[t]) - 1
      BY <2>1, <2>3, EvictFacts
    <3>. HIDE DEF t, d
    <3>2. \A u \in Tier : Len(d.order[u]) <= AtLeast1(SlotsOf(u))
      BY <1>0, <2>1, <3>1 DEF Bounded
    <3>. QED  BY <2>2, <3>2 DEF Bounded, d
  <2>4. CASE ~ CanEvict(cache, t)
    BY <2>2, <2>4 DEF CacheEvict, Bounded
  <2>. QED  BY <2>3, <2>4
<1>. QED  BY <1>1, <1>2, <1>3, <1>4, <1>5 DEF Next

\* Under LRU and LFU no sequence of calls leaves a tier over its slots, for
\* any number of experts and slots.
THEOREM TiersBounded ==
    ASSUME Policy # "arc"
    PROVE  Spec => []WithinSlots
<1>1. Init => WithinSlots
  <2>1. \A t \in Tier : AtLeast1(SlotsOf(t)) \in Nat /\ Len(<< >>) = 0
    BY CacheAssumption, AtLeast1Type DEF SlotsOf
  <2>. QED  BY <2>1, EmptyFacts DEF Init, WithinSlots
<1>2. TypeOK /\ WithinSlots /\ [Next]_cache => WithinSlots'
  BY BoundStep
<1>. QED  BY <1>1, <1>2, TypeCorrect, PTL DEF Spec

-----------------------------------------------------------------------------
(***************************************************************************)
(* What an eviction under LFU takes.                                       *)
(***************************************************************************)

\* A call that takes only the LFU victim out of a tier spares every entry
\* used more often, and every entry used as often and later.
LEMMA OnlyTheVictimLeaves ==
    ASSUME NEW t \in Tier, IsCache(cache), cache.order[t] # << >>,
           ToSet(cache.order[t]) \ {LfuVictim(cache, t)}
               \subseteq ToSet(cache'.order[t])
    PROVE  LET s == cache.order[t]
               count == cache.count[t]
               stays == {i \in DOMAIN s : s[i] \in ToSet(cache'.order[t])}
           IN LfuVictim(cache, t) \notin ToSet(cache'.order[t]) =>
                 \A i \in DOMAIN s \ stays, j \in stays :
                    \/ count[s[i]] < count[s[j]]
                    \/ count[s[i]] = count[s[j]] /\ i < j
<1>. DEFINE s == cache.order[t]
            count == cache.count[t]
            stays == {i \in DOMAIN s : s[i] \in ToSet(cache'.order[t])}
<1>. SUFFICES ASSUME LfuVictim(cache, t) \notin ToSet(cache'.order[t]),
                     NEW i \in DOMAIN s \ stays, NEW j \in stays
              PROVE  \/ count[s[i]] < count[s[j]]
                     \/ count[s[i]] = count[s[j]] /\ i < j
  OBVIOUS
<1>1. IsInjective(s)
  BY CacheFields
<1>2. PICK v \in DOMAIN s :
         /\ LfuVictim(cache, t) = s[v]
         /\ \A m \in DOMAIN s \ {v} :
               \/ count[s[v]] < count[s[m]]
               \/ count[s[v]] = count[s[m]] /\ v < m
  BY LfuVictimFacts
<1>3. s[i] \in ToSet(s) /\ s[i] \notin ToSet(cache'.order[t])
  BY DEF ToSet
<1>4. s[i] = s[v]
  BY <1>2, <1>3
<1>5. i = v
  BY <1>1, <1>4 DEF IsInjective
<1>6. j \in DOMAIN s \ {v}
  BY <1>2
<1>. QED  BY <1>2, <1>5, <1>6

\* The other calls take nothing out of a tier.
LEMMA NothingLeaves ==
    ASSUME NEW t \in Tier, ToSet(cache.order[t]) \subseteq ToSet(cache'.order[t])
    PROVE  LET s == cache.order[t]
               stays == {i \in DOMAIN s : s[i] \in ToSet(cache'.order[t])}
           IN  DOMAIN s \ stays = {}
BY DEF ToSet

LEMMA LfuStep ==
    ASSUME Policy = "lfu", TypeOK, Next, \A k \in Expert : ~ Demote(k),
           NEW t \in Tier
    PROVE  LET s == cache.order[t]
               count == cache.count[t]
               stays == {i \in DOMAIN s : s[i] \in ToSet(cache'.order[t])}
           IN  \A i \in DOMAIN s \ stays, j \in stays :
                  \/ count[s[i]] < count[s[j]]
                  \/ count[s[i]] = count[s[j]] /\ i < j
<1>. DEFINE Goal ==
              LET s == cache.order[t]
                  count == cache.count[t]
                  stays == {i \in DOMAIN s : s[i] \in ToSet(cache'.order[t])}
              IN  \A i \in DOMAIN s \ stays, j \in stays :
                     \/ count[s[i]] < count[s[j]]
                     \/ count[s[i]] = count[s[j]] /\ i < j
            v == LfuVictim(cache, t)
<1>0. /\ IsCache(cache)
      /\ \A u \in Tier : Resident(cache, u) = ToSet(cache.order[u])
      /\ \A u \in Tier : Resident(cache', u) = ToSet(cache'.order[u])
  BY DEF TypeOK, Resident
<1>1. Resident(cache, t) \subseteq Resident(cache', t) => Goal
  BY <1>0, NothingLeaves
<1>2. /\ cache.order[t] # << >>
      /\ Resident(cache, t) \ {v} \subseteq Resident(cache', t)
      /\ v \notin Resident(cache', t)
      => Goal
  BY <1>0, OnlyTheVictimLeaves
<1>3. CanEvict(cache, t) => cache.order[t] # << >> /\ Victim(cache, t) = v
  BY DEF CanEvict, Victim
<1>. HIDE DEF Goal, v
<1>4. ASSUME NEW k \in Expert, Get(k)
      PROVE  Goal
  <2>1. Resident(cache', t) = Resident(cache, t)
    BY <1>0, <1>4, GetFacts DEF Get
  <2>. QED  BY <1>1, <2>1
<1>5. ASSUME NEW k \in Expert, NEW device \in Devices, Put(k, device)
      PROVE  Goal
  <2>. DEFINE u == TierOf(device)
  <2>1. device \in Device /\ u \in Tier /\ cache' = CachePut(cache, k, device)
    BY <1>5, CacheManagerAssumption, DeviceFacts DEF Put
  <2>2. CASE k \in Resident(cache, u)
    <3>1. Resident(cache', t) = Resident(cache, t)
      BY <1>0, <2>1, <2>2, PutFacts
    <3>. QED  BY <1>1, <3>1
  <2>3. CASE k \notin Resident(cache, u) /\ t # u
    <3>1. cache'.order[t] = cache.order[t]
      BY <1>0, <2>1, <2>3, PutFacts
    <3>. QED  BY <1>0, <1>1, <3>1
  <2>4. CASE k \notin Resident(cache, u) /\ t = u
    <3>. DEFINE full == Len(cache.order[t]) >= SlotsOf(t)
    <3>1. CASE full /\ CanEvict(cache, t)
      <4>1. /\ Victim(cache, t) \in Resident(cache, t)
            /\ Resident(cache', t) = (Resident(cache, t) \ {Victim(cache, t)}) \cup {k}
        BY <1>0, <2>1, <2>4, <3>1, PutFacts
      <4>. QED  BY <1>2, <1>3, <2>4, <3>1, <4>1
    <3>2. CASE ~ (full /\ CanEvict(cache, t))
      <4>1. Resident(cache', t) = Resident(cache, t) \cup {k}
        BY <1>0, <2>1, <2>4, <3>2, PutFacts
      <4>. QED  BY <1>1, <4>1
    <3>. QED  BY <3>1, <3>2
  <2>. QED  BY <2>2, <2>3, <2>4
<1>6. ASSUME NEW device \in Devices, Evict(device)
      PROVE  Goal
  <2>. DEFINE u == TierOf(device)
  <2>1. device \in Device /\ u \in Tier /\ cache' = CacheEvict(cache, device)
    BY <1>6, CacheManagerAssumption, DeviceFacts DEF Evict
  <2>2. CASE ~ CanEvict(cache, u)
    BY <1>1, <2>1, <2>2 DEF CacheEvict
  <2>. HIDE DEF u
  <2>3. CASE CanEvict(cache, u)
    <3>1. /\ Resident(cache', u) = Resident(cache, u) \ {Victim(cache, u)}
          /\ \A w \in Tier \ {u} : cache'.order[w] = cache.order[w]
      <4>. DEFINE d == CacheEvict(cache, device)
      <4>1. /\ Resident(d, u) = Resident(cache, u) \ {Victim(cache, u)}
            /\ \A w \in Tier \ {u} : d.order[w] = cache.order[w]
        BY <1>0, <2>1, <2>3, EvictFacts DEF u
      <4>. QED  BY <2>1, <4>1
    <3>2. CASE t = u
      <4>1. cache.order[t] # << >> /\ Victim(cache, u) = v
        BY <1>3, <2>3, <3>2
      <4>2. Resident(cache', t) = Resident(cache, t) \ {v}
        BY <3>1, <3>2, <4>1
      <4>3. v \notin Resident(cache', t)
        BY <4>2
      <4>. QED  BY <1>2, <4>1, <4>2, <4>3
    <3>3. CASE t # u
      BY <1>0, <1>1, <3>1, <3>3
    <3>. QED  BY <3>2, <3>3
  <2>. QED  BY <2>2, <2>3
<1>7. Goal
  BY <1>4, <1>5, <1>6 DEF Next
<1>. QED  BY <1>7 DEF Goal

\* No sequence of calls makes LFU evict an entry while one that was used less,
\* or as little and longer ago, stays: for any number of experts and slots.
THEOREM LfuEvictsLeastUsed ==
    ASSUME Policy = "lfu"
    PROVE  Spec => LfuSparesTheUsed
<1>1. TypeOK /\ [Next]_cache =>
        [\A t \in Tier :
           LET s == cache.order[t]
               count == cache.count[t]
               stays == {i \in DOMAIN s : s[i] \in ToSet(cache.order'[t])}
           IN (\A k \in Expert : ~ Demote(k)) =>
                \A i \in DOMAIN s \ stays, j \in stays :
                   \/ count[s[i]] < count[s[j]]
                   \/ count[s[i]] = count[s[j]] /\ i < j]_cache
  BY LfuStep
<1>. QED  BY <1>1, TypeCorrect, PTL DEF Spec, LfuSparesTheUsed

-----------------------------------------------------------------------------
(***************************************************************************)
(* CacheManager implements Residency.                                      *)
(***************************************************************************)

\* Residency counts the experts of a tier as this module does.
LEMMA SameCardinality ==
    ASSUME NEW S
    PROVE  Promise!Cardinality(S) = Cardinality(S)
  BY DEF Cardinality, Promise!Cardinality

\* A step that changes one tier by one insertion, replacement or removal is
\* a step of Residency.
LEMMA OneTierChanges ==
    ASSUME NEW t \in Tier, NEW k \in Expert,
           \A u \in Tier \ {t} : residentSets'[u] = residentSets[u],
           \/ /\ k \notin residentSets[t]
              /\ Cardinality(residentSets[t]) < AtLeast1(SlotsOf(t))
              /\ residentSets'[t] = residentSets[t] \cup {k}
           \/ /\ k \notin residentSets[t]
              /\ Cardinality(residentSets[t]) = AtLeast1(SlotsOf(t))
              /\ \E v \in residentSets[t] \cap Expert :
                    residentSets'[t] = (residentSets[t] \ {v}) \cup {k}
           \/ /\ k \in residentSets[t]
              /\ residentSets'[t] = residentSets[t] \ {k}
    PROVE  Promise!Next
<1>. DEFINE r == residentSets
<1>1. r = [u \in Tier |-> r[u]] /\ r' = [u \in Tier |-> r'[u]] /\ Tier = {"gpu", "cpu"}
  BY DEF residentSets, Tier
<1>2. Promise!Bound(t) = AtLeast1(SlotsOf(t))
  BY DEF Promise!Bound, Promise!Slots, AtLeast1, SlotsOf
<1>. HIDE DEF r
<1>3. r' = [r EXCEPT ![t] = r'[t]]
  BY <1>1 DEF r
<1>4. CASE /\ k \notin r[t]
           /\ Cardinality(r[t]) < AtLeast1(SlotsOf(t))
           /\ r'[t] = r[t] \cup {k}
  <2>1. Promise!Insert(t, k)
    BY <1>2, <1>3, <1>4, SameCardinality DEF Promise!Insert, r
  <2>. QED  BY <1>1, <2>1 DEF Promise!Next
<1>5. CASE /\ k \notin r[t]
           /\ Cardinality(r[t]) = AtLeast1(SlotsOf(t))
           /\ \E v \in r[t] \cap Expert : r'[t] = (r[t] \ {v}) \cup {k}
  <2>1. PICK v \in r[t] \cap Expert : r'[t] = (r[t] \ {v}) \cup {k}
    BY <1>5
  <2>2. Promise!Replace(t, k, v)
    BY <1>2, <1>3, <1>5, <2>1, SameCardinality DEF Promise!Replace, r
  <2>. QED  BY <1>1, <2>2 DEF Promise!Next
<1>6. CASE k \in r[t] /\ r'[t] = r[t] \ {k}
  <2>1. Promise!Remove(t, k)
    BY <1>3, <1>6 DEF Promise!Remove, r
  <2>. QED  BY <1>1, <2>1 DEF Promise!Next
<1>. QED  BY <1>4, <1>5, <1>6 DEF r

\* Every step of CacheManager is a step of Residency or changes no residency.
LEMMA PromiseStep ==
    ASSUME Policy # "arc"
    PROVE  TypeOK /\ WithinSlots /\ [Next]_cache => [Promise!Next]_residentSets
<1>. SUFFICES ASSUME IsCache(cache), Bounded(cache), [Next]_cache
              PROVE  Promise!Next \/ residentSets' = residentSets
  BY DEF TypeOK, WithinSlots, Bounded
<1>0. /\ residentSets = [u \in Tier |-> Resident(cache, u)]
      /\ residentSets' = [u \in Tier |-> Resident(cache', u)]
      /\ Tier = {"gpu", "cpu"}
  BY DEF residentSets, Tier
<1>1. CASE UNCHANGED cache
  BY <1>0, <1>1
<1>2. ASSUME NEW k \in Expert, Get(k)
      PROVE  residentSets' = residentSets
  <2>1. \A u \in Tier : Resident(cache', u) = Resident(cache, u)
    BY <1>2, GetFacts DEF Get
  <2>. QED  BY <1>0, <2>1
<1>3. ASSUME NEW k \in Expert, Demote(k)
      PROVE  Promise!Next \/ residentSets' = residentSets
  <2>1. CASE k \in Resident(cache, "gpu")
    <3>1. /\ cache'.order["cpu"] = cache.order["cpu"]
          /\ Resident(cache', "gpu") = Resident(cache, "gpu") \ {k}
      BY <1>3, <2>1, DemoteFacts DEF Demote
    <3>2. Resident(cache', "cpu") = Resident(cache, "cpu")
      BY <3>1 DEF Resident
    <3>3. /\ \A u \in Tier \ {"gpu"} : residentSets'[u] = residentSets[u]
          /\ k \in residentSets["gpu"]
          /\ residentSets'["gpu"] = residentSets["gpu"] \ {k}
          /\ "gpu" \in Tier
      BY <1>0, <2>1, <3>1, <3>2
    <3>. QED  BY <3>3, OneTierChanges
  <2>2. CASE k \notin Resident(cache, "gpu")
    BY <1>0, <1>3, <2>2 DEF Demote, CacheDemote
  <2>. QED  BY <2>1, <2>2
<1>4. ASSUME NEW k \in Expert, NEW device \in Devices, Put(k, device)
      PROVE  Promise!Next \/ residentSets' = residentSets
  <2>. DEFINE t == TierOf(device)
              d == CachePut(cache, k, device)
              n == Len(cache.order[t])
  <2>1. /\ device \in Device /\ t \in Tier
        /\ n \in Nat /\ SlotsOf(t) \in Nat /\ cache.order[t] \in Seq(Expert)
    BY CacheManagerAssumption, DeviceFacts, CacheFields, CacheAssumption DEF SlotsOf
  <2>2. cache' = d
    BY <1>4 DEF Put
  <2>3. n <= AtLeast1(SlotsOf(t)) /\ Cardinality(Resident(cache, t)) = n
    BY <2>1, ResidentFacts DEF Bounded
  <2>4. CanEvict(cache, t) <=> n # 0
    BY <2>1 DEF CanEvict
  <2>5. CASE k \in Resident(cache, t)
    <3>1. \A u \in Tier : Resident(d, u) = Resident(cache, u)
      BY <2>1, <2>5, PutFacts
    <3>. QED  BY <1>0, <2>2, <3>1
  <2>6. CASE k \notin Resident(cache, t)
    <3>1. \A u \in Tier \ {t} : d.order[u] = cache.order[u]
      BY <2>1, <2>6, PutFacts
    <3>2. \A u \in Tier \ {t} : residentSets'[u] = residentSets[u]
      BY <1>0, <2>2, <3>1 DEF Resident
    <3>3. CASE n >= SlotsOf(t) /\ n # 0
      <4>1. \E v \in Resident(cache, t) :
               Resident(d, t) = (Resident(cache, t) \ {v}) \cup {k}
        BY <2>1, <2>4, <2>6, <3>3, PutFacts
      <4>2. n = AtLeast1(SlotsOf(t))
        BY <2>1, <2>3, <3>3 DEF AtLeast1
      <4>3. Resident(cache, t) \subseteq Expert
        BY <2>1, CacheFields
      <4>. HIDE DEF d, n, t
      <4>4. /\ k \notin residentSets[t]
            /\ Cardinality(residentSets[t]) = AtLeast1(SlotsOf(t))
            /\ \E v \in residentSets[t] \cap Expert :
                  residentSets'[t] = (residentSets[t] \ {v}) \cup {k}
        BY <1>0, <2>1, <2>2, <2>3, <2>6, <4>1, <4>2, <4>3
      <4>. QED  BY <2>1, <3>2, <4>4, OneTierChanges
    <3>4. CASE ~ (n >= SlotsOf(t) /\ n # 0)
      <4>1. Resident(d, t) = Resident(cache, t) \cup {k}
        BY <2>1, <2>4, <2>6, <3>4, PutFacts
      <4>2. n < AtLeast1(SlotsOf(t))
        BY <2>1, <3>4 DEF AtLeast1
      <4>. HIDE DEF d, n, t
      <4>3. /\ k \notin residentSets[t]
            /\ Cardinality(residentSets[t]) < AtLeast1(SlotsOf(t))
            /\ residentSets'[t] = residentSets[t] \cup {k}
        BY <1>0, <2>1, <2>2, <2>3, <2>6, <4>1, <4>2
      <4>. QED  BY <2>1, <3>2, <4>3, OneTierChanges
    <3>. QED  BY <3>3, <3>4
  <2>. QED  BY <2>5, <2>6
<1>5. ASSUME NEW device \in Devices, Evict(device)
      PROVE  Promise!Next \/ residentSets' = residentSets
  <2>. DEFINE t == TierOf(device)
              d == CacheEvict(cache, device)
              v == Victim(cache, t)
  <2>1. device \in Device /\ t \in Tier
    BY CacheManagerAssumption, DeviceFacts
  <2>2. cache' = d
    BY <1>5 DEF Evict
  <2>3. CASE CanEvict(cache, t)
    <3>1. /\ \A u \in Tier \ {t} : d.order[u] = cache.order[u]
          /\ v \in Resident(cache, t)
          /\ Resident(d, t) = Resident(cache, t) \ {v}
      BY <2>1, <2>3, EvictFacts
    <3>2. Resident(cache, t) \subseteq Expert
      BY <2>1, CacheFields
    <3>. HIDE DEF d, v, t
    <3>3. /\ \A u \in Tier \ {t} : residentSets'[u] = residentSets[u]
          /\ v \in residentSets[t] /\ v \in Expert
          /\ residentSets'[t] = residentSets[t] \ {v}
      BY <1>0, <2>1, <2>2, <3>1, <3>2 DEF Resident
    <3>. QED  BY <2>1, <3>3, OneTierChanges
  <2>4. CASE ~ CanEvict(cache, t)
    BY <1>0, <2>2, <2>4 DEF CacheEvict
  <2>. QED  BY <2>3, <2>4
<1>. QED  BY <1>1, <1>2, <1>3, <1>4, <1>5 DEF Next

\* Under LRU and LFU CacheManager implements Residency: the initial states
\* agree, and every call is one insertion, replacement or removal.
THEOREM ImplementsResidency ==
    ASSUME Policy # "arc"
    PROVE  Spec => KeepsPromise
<1>1. Init => Promise!Init
  <2>1. Init => \A t \in Tier : residentSets[t] = {}
    BY EmptyFacts DEF Init, residentSets
  <2>. QED  BY <2>1 DEF Promise!Init, residentSets, Tier
<1>2. TypeOK /\ WithinSlots /\ [Next]_cache => [Promise!Next]_residentSets
  BY PromiseStep
<1>. QED  BY <1>1, <1>2, TypeCorrect, TiersBounded, PTL DEF Spec, KeepsPromise, Promise!Spec
=============================================================================
