--------------------------- MODULE MCCacheManager ---------------------------
(***************************************************************************)
(* Instances of CacheManager for TLC: more keys than slots, so that a put  *)
(* into a full tier has a choice of victims.                               *)
(***************************************************************************)
EXTENDS CacheManager

CONSTANTS e1, e2, e3, e4
=============================================================================
