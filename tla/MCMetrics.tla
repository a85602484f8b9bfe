----------------------------- MODULE MCMetrics -----------------------------
(***************************************************************************)
(* Instance of MetricsReporter for TLC: the main thread, which records    *)
(* too, a worker that records beside it, and two threads for the reporter. *)
(***************************************************************************)
EXTENDS MetricsReporter

CONSTANTS main, worker, r1, r2

MCThread == {main, worker, r1, r2}
MCReporter == {r1, r2}
=============================================================================
