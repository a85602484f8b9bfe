--------------------------- MODULE MCPinnedPools ---------------------------
(***************************************************************************)
(* An instance of PinnedPools for TLC.                                     *)
(***************************************************************************)
EXTENDS PinnedPools

CONSTANTS a, b
=============================================================================
