----------------------------- MODULE Counters -----------------------------
(***************************************************************************)
(* What MetricsCollector promises: counters that are changed and read in   *)
(* one piece.  A record changes all its counters at once, a reset clears   *)
(* them all, and a snapshot is the counters of one moment.                 *)
(***************************************************************************)
CONSTANTS
    Zero,       \* the values of the counters at the start
    Change(_)   \* what a record or a reset may make of the values

VARIABLES
    tally,  \* the counters
    seen    \* the last snapshot

Init == tally = Zero /\ seen = Zero

Update == tally' \in Change(tally) /\ UNCHANGED seen

Snapshot == seen' = tally /\ UNCHANGED tally

Next == Update \/ Snapshot

Spec == Init /\ [][Next]_<<tally, seen>>
=============================================================================
