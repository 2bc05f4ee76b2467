--------------------------- MODULE MC_Reachability ---------------------------
(***************************************************************************)
(* Instance of Reachability for TLC: OFFLINE_AFTER_S is three ticks.       *)
(***************************************************************************)
EXTENDS Reachability
=============================================================================
