---------------------------- MODULE CacheManager ----------------------------
(***************************************************************************)
(* CacheManager of cache/manager.py as a state machine: its public methods *)
(* in any order a single thread can call them in.  promote_to_gpu, peek_*, *)
(* is_gpu_resident, get_size_bytes and stats change nothing and are read   *)
(* straight from the cache by the modules that need them.                  *)
(***************************************************************************)
EXTENDS ExpertCache

CONSTANTS
    Devices,     \* the device strings callers use
    MaxCount,    \* bound: access_count of an entry under LFU
    MaxArcList   \* bound: length of an ARC list

ASSUME CacheManagerAssumption ==
    /\ Devices \subseteq Device
    /\ MaxCount \in Nat
    /\ MaxArcList \in Nat

VARIABLE cache

TypeOK == IsCache(cache)

-----------------------------------------------------------------------------
Init == cache = EmptyCache

\* The bounds of the model: no method is called on a key whose counter is at
\* its bound, nor once an ARC list is at its bound.
InBounds(k) ==
    /\ \A t \in Tier : cache.count[t][k] < MaxCount
    /\ \A t \in Tier : \A l \in {"t1", "t2", "b1", "b2"} :
            Len(cache.arc[t][l]) < MaxArcList

Get(k) == InBounds(k) /\ cache' = CacheGet(cache, k)

Put(k, device) == InBounds(k) /\ cache' = CachePut(cache, k, device)

Evict(device) ==
    /\ \A k \in Expert : InBounds(k)
    /\ cache' = CacheEvict(cache, device)

Demote(k) == cache' = CacheDemote(cache, k)

Next ==
    \/ \E k \in Expert : Get(k) \/ Demote(k)
    \/ \E k \in Expert, device \in Devices : Put(k, device)
    \/ \E device \in Devices : Evict(device)

Spec == Init /\ [][Next]_cache

-----------------------------------------------------------------------------
(***************************************************************************)
(* Properties                                                              *)
(***************************************************************************)

\* No sequence of puts, refreshes, evictions and demotions leaves a tier with
\* more experts than its slots: put inserts even when its eviction returned
\* None (manager.py:300-319), so this rests on every eviction of a full tier
\* finding a victim.  A tier of no slots keeps one entry.
WithinSlots ==
    \A t \in Tier : Len(cache.order[t]) <= AtLeast1(SlotsOf(t))

\* stats().gpu_slots_used and cpu_slots_used are the sizes of the tiers after
\* every call, though four methods update them at five places.
SlotsUsedExact ==
    \A t \in Tier : cache.used[t] = Len(cache.order[t])

\* CacheManager keeps the promise of Residency whatever its policy does: one
\* tier per call, at most one expert in and one out, and none evicted by a
\* put while its tier has room.
residentSets == [t \in Tier |-> Resident(cache, t)]

Promise == INSTANCE Residency WITH resident <- residentSets

KeepsPromise == Promise!Spec

\* An eviction under LFU spares every entry used more often than its victim
\* and, among those used as often, every entry used after it
\* (manager.py:11-12); a demotion names the entry itself.
LfuSparesTheUsed ==
    [][\A t \in Tier :
         LET s == cache.order[t]
             count == cache.count[t]
             stays == {i \in DOMAIN s : s[i] \in ToSet(cache.order'[t])}
         IN (\A k \in Expert : ~ Demote(k)) =>
              \A i \in DOMAIN s \ stays, j \in stays :
                 \/ count[s[i]] < count[s[j]]
                 \/ count[s[i]] = count[s[j]] /\ i < j]_cache
=============================================================================
