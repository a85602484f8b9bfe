---------------------------- MODULE PinnedPools ----------------------------
(***************************************************************************)
(* The pools of pinned memory over one PinnedMemoryBudget:                 *)
(* PinnedMemoryStaging of transfer/staging.py, PinnedStagingPool of        *)
(* staging_pool.py, PinnedExpertStagingPool of expert_staging.py and       *)
(* ReusablePinnedStagingPool of reusable_staging.py.  The first three keep *)
(* what they reserved under a name until it is released, the last one      *)
(* keeps its slots until it is destroyed.  All run in one thread.          *)
(***************************************************************************)
EXTENDS FiniteSets, Functions, Naturals

CONSTANTS
    Budget,      \* budget_bytes
    Name,        \* request ids, slot ids and expert ids
    Size,        \* the sizes that are asked for
    SlotSize,    \* slot_size_bytes
    DestroyAlone \* whether clients destroy the reusable pool only when no
                 \* other pool holds a reservation

ASSUME PoolsAssumption ==
    /\ Budget \in Nat
    /\ IsFiniteSet(Name)
    /\ Size \subseteq Nat
    /\ SlotSize \in Nat \ {0}
    /\ DestroyAlone \in BOOLEAN

VARIABLES
    used,     \* used_bytes of the budget
    held,     \* per pool: the size of everything it holds, by name
    created   \* number of reusable slots

poolVars == <<used, held, created>>

\* _reservations, _slots and _active of the pools with names.
Pool == {"staging", "staging_pool", "expert_staging"}

Reservations == UNION {[names -> Size] : names \in SUBSET Name}

PoolsTypeOK ==
    /\ used \in 0 .. Budget
    /\ held \in [Pool -> Reservations]
    /\ created \in 0 .. Budget \div SlotSize

-----------------------------------------------------------------------------
PoolsInit ==
    /\ used = 0
    /\ held = [p \in Pool |-> << >>]
    /\ created = 0

\* Mutant: the comparison is strict the wrong way round.
CanReserveOneMore(bytes) == used + bytes <= Budget + 1

CanReserve(bytes) == used + bytes <= Budget

\* used_bytes after a release; one that would underflow raises.
Released(bytes, from) == IF bytes > from THEN from ELSE from - bytes

\* reserve, acquire and stage: a name that is taken raises, and a size that
\* does not fit is refused.
Take(p, name, bytes) ==
    /\ name \notin DOMAIN held[p]
    /\ CanReserve(bytes)
    /\ used' = used + bytes
    /\ held' = [held EXCEPT ![p] =
                  [n \in DOMAIN @ \cup {name} |-> IF n = name THEN bytes ELSE @[n]]]
    /\ UNCHANGED created

\* Mutant: a failure keeps what it reserved.
PinFailsKeeps(name, bytes) ==
    /\ name \notin DOMAIN held["expert_staging"]
    /\ CanReserve(bytes)
    /\ used' = used + bytes
    /\ UNCHANGED <<held, created>>

\* Pinning the tensors raises after the budget was reserved.
PinFails(name, bytes) ==
    /\ name \notin DOMAIN held["expert_staging"]
    /\ CanReserve(bytes)
    /\ used' = Released(bytes, used + bytes)
    /\ UNCHANGED <<held, created>>

\* release: the name is forgotten before the budget is asked.
GiveBack(p, name) ==
    /\ name \in DOMAIN held[p]
    /\ used' = Released(held[p][name], used)
    /\ held' = [held EXCEPT ![p] = Restrict(@, DOMAIN @ \ {name})]
    /\ UNCHANGED created

\* _create_slot
CreateSlot ==
    /\ CanReserve(SlotSize)
    /\ used' = used + SlotSize
    /\ created' = created + 1
    /\ UNCHANGED held

\* Mutant: the budget keeps what the pool had.
DestroySlotsOnly ==
    /\ created' = 0
    /\ UNCHANGED <<used, held>>

\* destroy: the budget is cleared, whoever else has reserved from it.
Destroy ==
    /\ DestroyAlone => \A p \in Pool : DOMAIN held[p] = {}
    /\ created' = 0
    /\ used' = 0
    /\ UNCHANGED held

PoolsNext ==
    \/ \E p \in Pool, name \in Name, bytes \in Size : Take(p, name, bytes)
    \/ \E name \in Name, bytes \in Size : PinFails(name, bytes)
    \/ \E p \in Pool, name \in Name : GiveBack(p, name)
    \/ CreateSlot
    \/ Destroy

PoolsSpec == PoolsInit /\ [][PoolsNext]_poolVars

-----------------------------------------------------------------------------
(***************************************************************************)
(* Properties                                                              *)
(***************************************************************************)

HeldBy(p) == SumFunction(held[p])

\* The budget "tracks and bounds the amount of host memory reserved"
\* (pinned_memory.py:2): what it counts is what the four pools hold together,
\* failed stagings and refused requests included, so nothing leaks and no
\* release underflows.
Accounted ==
    used = HeldBy("staging") + HeldBy("staging_pool") + HeldBy("expert_staging")
            + created * SlotSize
=============================================================================
