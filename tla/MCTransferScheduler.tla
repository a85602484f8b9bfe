------------------------ MODULE MCTransferScheduler ------------------------
(***************************************************************************)
(* Instances of TransferScheduler for TLC.  Expert a is demanded, demoted  *)
(* and prefetched, expert b only prefetched.                               *)
(***************************************************************************)
EXTENDS TransferScheduler

CONSTANTS a, b

Req(id, key, direction, priority) ==
    [id |-> id, key |-> key, direction |-> direction, priority |-> priority,
     issued_at |-> id]

Demand(id, key)   == Req(id, key, "cpu_to_gpu", 0)
Demotion(id, key) == Req(id, key, "gpu_to_cpu", 1)
Prefetch(id, key) == Req(id, key, "cpu_to_gpu", 2)

TwoExperts ==
    {Demand(1, a), Demotion(2, a), Prefetch(3, a), Prefetch(4, b)}
=============================================================================
