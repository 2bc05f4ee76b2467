-------------------------- MODULE MC_CycleDetector --------------------------
EXTENDS CycleDetector

\* A washer that shows every class of machine state and every kind of progress,
\* and one report without the delay field.
Snap(state, progress, remaining, delay) ==
    [power |-> "On", machine_state |-> state, progress |-> progress,
     remaining_s |-> remaining, delay_end_s |-> delay, course |-> "1C",
     remote_control |-> FALSE, child_lock |-> FALSE, alarms |-> <<>>]

MCSnapshots ==
    {Snap("Ready", "None", Null, 0), Snap(Null, Null, Null, Null),
     Snap("Run", "None", 120, 120), Snap("Pause", "None", 120, 120),
     Snap("Pause", "None", 120, 0),
     Snap("Run", "Wash", 120, 0), Snap("Run", "Spin", 60, Null), Snap("Pause", "Wash", 120, 0),
     Snap("Run", "Finish", 0, 0), Snap("Pause", "Finish", 0, 0), Snap("End", "Finish", 0, 0)}

MCSteps == {60}
=============================================================================
