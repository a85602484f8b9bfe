--------------------------- MODULE MCExpertStore ---------------------------
(***************************************************************************)
(* An instance of ExpertStore for TLC: two experts in RAM, three on disk.  *)
(***************************************************************************)
EXTENDS ExpertStore

CONSTANTS r1, r2, d1, d2, d3
=============================================================================
