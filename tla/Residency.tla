----------------------------- MODULE Residency -----------------------------
(***************************************************************************)
(* What CacheManager promises, with no policy and no bookkeeping: two      *)
(* bounded sets of resident experts.  A call changes one tier only; it     *)
(* adds at most one expert, gives up at most one, and gives one up to make *)
(* room only when the tier is full.                                        *)
(***************************************************************************)
EXTENDS Naturals, FiniteSets

CONSTANTS
    Expert,
    GpuSlots,
    CpuSlots

VARIABLE resident   \* the experts resident in each tier

Slots(t) == IF t = "gpu" THEN GpuSlots ELSE CpuSlots

\* An empty tier always takes the entry, so a tier of no slots holds one.
Bound(t) == IF Slots(t) = 0 THEN 1 ELSE Slots(t)

Init == resident = [t \in {"gpu", "cpu"} |-> {}]

Insert(t, k) ==
    /\ k \notin resident[t]
    /\ Cardinality(resident[t]) < Bound(t)
    /\ resident' = [resident EXCEPT ![t] = @ \cup {k}]

Replace(t, k, v) ==
    /\ k \notin resident[t]
    /\ v \in resident[t]
    /\ Cardinality(resident[t]) = Bound(t)
    /\ resident' = [resident EXCEPT ![t] = (@ \ {v}) \cup {k}]

Remove(t, k) ==
    /\ k \in resident[t]
    /\ resident' = [resident EXCEPT ![t] = @ \ {k}]

Next ==
    \E t \in {"gpu", "cpu"}, k \in Expert :
        \/ Insert(t, k)
        \/ \E v \in Expert : Replace(t, k, v)
        \/ Remove(t, k)

Spec == Init /\ [][Next]_resident
=============================================================================
