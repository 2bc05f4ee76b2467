--------------------------- MODULE MC_LaundryWatch ---------------------------
(***************************************************************************)
(* Instance of LaundryWatch for TLC: the snapshots are all the appliance   *)
(* can show.                                                               *)
(***************************************************************************)
EXTENDS LaundryWatch

MCSteps == {60}

\* More than a minute missed, a second missed, almost a minute too much.
MCSkews == {-84, -1, 59}

MCSnapshots == Views

ASSUME Watching
=============================================================================
