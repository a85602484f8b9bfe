----------------------------- MODULE MCMoELayer -----------------------------
(***************************************************************************)
(* Instances of MoELayer for TLC.                                          *)
(***************************************************************************)
EXTENDS MoELayer

MCExpert == Layer \X ExpertId

Req(k, priority) ==
    [id |-> <<k, priority>>, key |-> k, direction |-> "cpu_to_gpu",
     priority |-> priority, issued_at |-> 10 * k[1] + k[2]]

Demands == {Req(k, 0) : k \in MCExpert}
=============================================================================
