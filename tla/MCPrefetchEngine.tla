-------------------------- MODULE MCPrefetchEngine --------------------------
(***************************************************************************)
(* Instances of PrefetchEngine for TLC: each expert is demanded under one  *)
(* id and prefetched under two.                                            *)
(***************************************************************************)
EXTENDS PrefetchEngine

MCExpert == Layer \X ExpertId

Req(k, priority, n) ==
    [id |-> <<k, priority, n>>, key |-> k, direction |-> "cpu_to_gpu",
     priority |-> priority, issued_at |-> 100 * n + 10 * k[1] + k[2]]

MCRequest ==
    {Req(k, 0, 0) : k \in MCExpert} \cup {Req(k, 2, n) : k \in MCExpert, n \in {0, 1}}
=============================================================================
