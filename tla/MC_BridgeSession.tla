--------------------------- MODULE MC_BridgeSession ---------------------------
(***************************************************************************)
(* Instance of BridgeSession for TLC: the state resource, which the hot    *)
(* tier polls, and the child lock.                                         *)
(***************************************************************************)
EXTENDS BridgeSession

State(machine, phaseName, remaining) ==
    [state |-> machine, progress |-> phaseName, remainingTime |-> remaining]
Lock(v) == [kidsLock |-> v]

\* A cycle that ends, and a lock that is set.
MCTimeline ==
    [state    |-> <<State("Run", "Wash", 600), State("Ready", "None", Null)>>,
     kidslock |-> <<Lock("Ready"), Lock("Set")>>]

\* A door opened and closed again in mid-cycle.
MCFlap ==
    [state    |-> <<State("Pause", "Wash", 600), State("Run", "Wash", 600)>>,
     kidslock |-> <<Lock("Ready"), Lock("Set")>>]
=============================================================================
