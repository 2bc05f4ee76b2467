--------------------------- MODULE MC_PushoverQueue ---------------------------
(***************************************************************************)
(* Instance of PushoverQueue for TLC.                                      *)
(***************************************************************************)
EXTENDS PushoverQueue
=============================================================================
