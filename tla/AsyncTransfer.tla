--------------------------- MODULE AsyncTransfer ---------------------------
(***************************************************************************)
(* What TransferScheduler promises about asynchronous transfers, without   *)
(* slots, streams or queues.  A transfer that was cancelled never makes    *)
(* its expert resident, and an expert has one transfer at a time.          *)
(***************************************************************************)
EXTENDS Naturals, FiniteSets

CONSTANTS
    Expert,
    MaxConcurrent

VARIABLES
    flying,     \* experts with a transfer that may still publish
    cancelled,  \* experts whose cancelled transfer has not been collected
    onGpu       \* experts resident on the GPU

vars == <<flying, cancelled, onGpu>>

Init == flying = {} /\ cancelled = {} /\ onGpu = {}

Start(k) ==
    /\ k \notin flying \cup cancelled \cup onGpu
    /\ Cardinality(flying \cup cancelled) < MaxConcurrent
    /\ flying' = flying \cup {k}
    /\ UNCHANGED <<cancelled, onGpu>>

Cancel(k) ==
    /\ k \in flying
    /\ flying' = flying \ {k}
    /\ cancelled' = cancelled \cup {k}
    /\ UNCHANGED onGpu

\* Publishing may push other experts out of the GPU tier.
Publish(k) ==
    /\ k \in flying
    /\ flying' = flying \ {k}
    /\ k \in onGpu'
    /\ onGpu' \subseteq onGpu \cup {k}
    /\ UNCHANGED cancelled

Fail(k) ==
    /\ k \in flying
    /\ flying' = flying \ {k}
    /\ UNCHANGED <<cancelled, onGpu>>

Discard(k) ==
    /\ k \in cancelled
    /\ cancelled' = cancelled \ {k}
    /\ UNCHANGED <<flying, onGpu>>

\* Residency changes made by everything else: a synchronous transfer adds one
\* expert, evictions and demotions take some away.
Residency ==
    /\ \E k \in Expert : onGpu' \subseteq onGpu \cup {k}
    /\ UNCHANGED <<flying, cancelled>>

Next ==
    \/ Residency
    \/ \E k \in Expert : Start(k) \/ Cancel(k) \/ Publish(k) \/ Fail(k) \/ Discard(k)

Spec == Init /\ [][Next]_vars
=============================================================================
