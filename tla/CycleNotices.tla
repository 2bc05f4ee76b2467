----------------------------- MODULE CycleNotices -----------------------------
(***************************************************************************)
(* What the notifications of one appliance mean to the person who reads    *)
(* them: a story about its cycle, told in order.  As long as the bridge    *)
(* missed nothing, each notice fits the one before it (the table in        *)
(* README.md under "cycle_scheduled" ... "cycle_cancelled").  After it was *)
(* away one may not, until a notice that begins or ends a cycle is told    *)
(* while the bridge is in touch: that one sets the reader right.  The one  *)
(* exception is the start of a cycle first seen in its last minute, which  *)
(* is told as running when it is as good as over.                          *)
(***************************************************************************)
EXTENDS Naturals

VARIABLES
    heard,   \* what the reader takes the appliance to be doing
    doubt,   \* may a notice be out of turn
    coming,  \* the kind of the notice that is on its way, "none" without one
    touch,   \* is what the bridge last judged what the appliance shows
    late     \* is the appliance in the last minute of a cycle

vars == <<heard, doubt, coming, touch, late>>

Says ==
    [cycle_scheduled |-> "armed",   cycle_started |-> "running", cycle_paused |-> "paused",
     cycle_resumed   |-> "running", cycle_finished |-> "done",   cycle_cancelled |-> "idle"]

\* A start that an open door holds back is not announced, but giving it up is: so a
\* cycle can be cancelled that the reader has not heard of.
InTurn ==
    [cycle_scheduled |-> {"idle", "done"},    cycle_started   |-> {"idle", "done", "armed"},
     cycle_paused    |-> {"running"},         cycle_resumed   |-> {"paused"},
     cycle_finished  |-> {"running"},
     cycle_cancelled |-> {"idle", "done", "armed", "running", "paused"}]

Init ==
    /\ heard = "idle" /\ doubt = FALSE /\ coming = "none"
    /\ touch \in BOOLEAN /\ late \in BOOLEAN

SetsRight(kind) ==
    /\ touch /\ kind \notin {"cycle_paused", "cycle_resumed"}
    /\ ~(kind = "cycle_started" /\ late)

Hear ==
    /\ coming \in DOMAIN Says /\ coming' = "none"
    /\ doubt \/ heard \in InTurn[coming]
    /\ heard' = Says[coming]
    /\ doubt' = (doubt /\ ~SetsRight(coming))
    /\ UNCHANGED <<touch, late>>

\* Time passes, and a notice may set out.  Only out of touch can the bridge come to
\* doubt, and only a crash loses the notice that is on its way.
Pass ==
    /\ touch' \in BOOLEAN /\ late' \in BOOLEAN
    /\ doubt' = doubt \/ (doubt' = TRUE /\ ~(touch /\ touch'))
    /\ \/ coming \notin DOMAIN Says
       \/ coming' = coming
       \/ coming' = "none" /\ doubt' /\ ~touch'
    /\ UNCHANGED heard

Next == Hear \/ Pass

Spec == Init /\ [][Next]_vars
=============================================================================
