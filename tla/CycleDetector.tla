---------------------------- MODULE CycleDetector ----------------------------
(***************************************************************************)
(* One bridge's evaluation state (bridge.py: _evaluate, _persist_tracker,  *)
(* the restore in __init__; persistence.py) over any sequence of           *)
(* snapshots, with process crashes, restarts and a state file that may     *)
(* fail to be written or read.                                             *)
(*                                                                         *)
(* Detection and persistence happen under one lock, so they are one        *)
(* action; the events are dispatched after the lock is released, each      *)
(* batch by the thread that found it, so they wait in the outbox.          *)
(***************************************************************************)
EXTENDS CycleEvents

CONSTANTS
    Snapshots,     \* the snapshots the appliance may present
    Outages,       \* the outage_s a seed may pass (the other threads pass None)
    Steps,         \* by how much the clock may advance at once
    EvalThreads,   \* threads that can be dispatching at the same time
    StoreMayFail,  \* may the state file be unwritable or unreadable
    MaxTime        \* bound on the clock

ASSUME DetectorAssumption ==
    /\ Snapshots \subseteq ApplianceStates(AlarmReport)
    /\ Null \notin Snapshots
    /\ Outages \subseteq Nat /\ Steps \subseteq Nat /\ EvalThreads \in Nat
    /\ StoreMayFail \in BOOLEAN /\ MaxTime \in Nat
    /\ Null \notin Trackers

VARIABLES
    alive,          \* does the process run
    last,           \* _last_state, Null before the first evaluation
    tracker,        \* the CycleTracker
    saved_tracker,  \* _saved_tracker: what this process believes is on disk
    outbox,         \* batches of detected events, each yet to be dispatched in order
    disk,           \* the state file, Null when there is none
    now,            \* the wall clock
    announced,      \* history: when the latest cycle_started was detected
    saveFailed,     \* history: is the latest attempt to save a failed one
    spoiled         \* history: has any attempt to save failed

volatile == <<alive, last, tracker, saved_tracker, outbox>>
vars == <<volatile, disk, now, announced, saveFailed, spoiled>>

Init ==
    /\ alive = TRUE
    /\ last = Null /\ tracker = Fresh /\ saved_tracker = Null
    /\ outbox = <<>>
    /\ disk = Null /\ now = 0
    /\ announced = Null /\ saveFailed = FALSE /\ spoiled = FALSE

Kinds(events) == {ev.kind : ev \in ToSet(events)}

\* Mutant: a tracker without a cycle is not worth a write.
PersistTrackerIfActive(snap) ==
    IF snap = saved_tracker \/ ~Active(snap) THEN UNCHANGED <<disk, saved_tracker, saveFailed>>
    ELSE disk' = snap /\ saved_tracker' = snap /\ saveFailed' = FALSE

\* _persist_tracker(): writes only what changed since the last good write.  A
\* bridge without a state directory is one whose every save fails.
PersistTracker(snap) ==
    IF snap = saved_tracker THEN UNCHANGED <<disk, saved_tracker, saveFailed>>
    ELSE \/ disk' = snap /\ saved_tracker' = snap /\ saveFailed' = FALSE
         \/ StoreMayFail /\ saveFailed' = TRUE /\ UNCHANGED <<disk, saved_tracker>>

\* _evaluate(): cur = last stands for a change of a field the model leaves out.
Evaluate(cur, outage) ==
    /\ alive /\ Len(outbox) < EvalThreads
    /\ LET events == DetectEvents(last, cur, tracker, now, outage)
       IN /\ outbox' = IF events = <<>> THEN outbox ELSE Append(outbox, events)
          /\ announced' = IF "cycle_started" \in Kinds(events) THEN now ELSE announced
    /\ tracker' = DetectTracker(last, cur, tracker, now, outage)
    /\ last' = cur
    /\ PersistTracker(tracker') /\ spoiled' = (spoiled \/ saveFailed')
    /\ UNCHANGED <<alive, now>>

\* One event of a batch is handed to _dispatch() by its thread.
Dispatch(b) ==
    /\ alive
    /\ outbox' = IF Len(outbox[b]) = 1 THEN RemoveAt(outbox, b)
                 ELSE [outbox EXCEPT ![b] = Tail(@)]
    /\ UNCHANGED <<alive, last, tracker, saved_tracker, disk, now, announced, saveFailed, spoiled>>

\* The process dies (or is stopped): only the file survives.
Crash ==
    /\ alive /\ alive' = FALSE
    /\ last' = Null /\ tracker' = Fresh /\ saved_tracker' = Null
    /\ outbox' = <<>>
    /\ UNCHANGED <<disk, now, announced, saveFailed, spoiled>>

\* __init__: restores what load() returns; a failed load restores nothing.
Restart ==
    /\ ~alive /\ alive' = TRUE
    /\ \E loaded \in {disk} \cup (IF StoreMayFail THEN {Null} ELSE {}) :
          /\ tracker' = IF loaded = Null THEN Fresh ELSE loaded
          /\ saved_tracker' = loaded
    /\ UNCHANGED <<last, outbox, disk, now, announced, saveFailed, spoiled>>

Tick ==
    /\ \E d \in Steps : now + d <= MaxTime /\ now' = now + d
    /\ UNCHANGED <<volatile, disk, announced, saveFailed, spoiled>>

Next ==
    \/ \E cur \in Snapshots, outage \in Outages \cup {Null} : Evaluate(cur, outage)
    \/ \E b \in DOMAIN outbox : Dispatch(b)
    \/ Crash \/ Restart \/ Tick

Spec == Init /\ [][Next]_vars

-----------------------------------------------------------------------------
\* The variables keep their types.
TypeOK ==
    /\ alive \in BOOLEAN
    /\ last \in Snapshots \cup {Null}
    /\ tracker \in Trackers
    /\ {saved_tracker, disk} \subseteq Trackers \cup {Null}
    /\ now \in Nat
    /\ announced \in OptNat
    /\ {saveFailed, spoiled} \subseteq BOOLEAN

\* Whatever the appliance went through, and however often the bridge was
\* restarted, a tracker never survives its cycle: when the last snapshot is
\* neither in a cycle nor showing a finished one, the tracker is reset
\* (events.py: every branch that leaves a cycle, and _baseline).
IdleIsClean == last # Null /\ ~InCycle(last) /\ ~Finished(last) => tracker = Fresh

\* "scheduled" means what events.py:67 says of it: the cycle proper has not
\* begun.  No start time is kept with it, and if the machine is seen running
\* it is seen waiting.
ScheduledIsWaiting ==
    tracker.scheduled =>
        /\ tracker.started_at = Null
        /\ last # Null /\ Running(last) => DelayWaiting(last)

\* After an evaluation the file holds the tracker, unless saving it failed; so
\* a crash right then loses nothing (bridge.py:397 before 401).
DurableTracker == alive /\ last # Null /\ ~saveFailed => disk = tracker

\* The process never skips a write because it wrongly believes the file has
\* the value already (bridge.py:409).
DiskBelief == saved_tracker # Null => disk = saved_tracker

\* Every start time the bridge keeps, in memory or on disk, is that of the
\* latest start it announced: a restart in mid-cycle neither invents nor mixes
\* up start times, even if the file could not be read, as long as it could be
\* written (bridge.py:97-103, 405-410; events.py:139-161).
StartIsTheAnnouncedOne ==
    spoiled \/ \A t \in {tracker, disk} \ {Null} : t.started_at \in {Null, announced}

\* A change of a field that no notification is about (spin, energy, ...) makes
\* _evaluate run detect() on two equal snapshots.  In no state the bridge can
\* reach does that say anything or disturb the tracker.
NoNewsNoEvent ==
    last # Null =>
        \A outage \in Outages \cup {Null} :
            /\ DetectEvents(last, last, tracker, now, outage) = <<>>
            /\ DetectTracker(last, last, tracker, now, outage) = tracker
=============================================================================
