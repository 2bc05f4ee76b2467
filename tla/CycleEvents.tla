----------------------------- MODULE CycleEvents -----------------------------
(***************************************************************************)
(* The pure part of events.py: the cycle tracker, and detect(), which      *)
(* compares two snapshots and returns the events that happened in between. *)
(***************************************************************************)
EXTENDS AlarmCodes

(***************************************************************************)
(* CycleTracker: the persisted fields (the others are configuration).      *)
(***************************************************************************)
Trackers ==
    [started_at : OptNat, course : OptString, initial_remaining_s : OptNat,
     scheduled : BOOLEAN]

Fresh ==    \* _reset()
    [started_at |-> Null, course |-> Null, initial_remaining_s |-> Null,
     scheduled |-> FALSE]

Begin(s, at) ==    \* _begin()
    [started_at |-> at, course |-> s.course, initial_remaining_s |-> s.remaining_s,
     scheduled |-> FALSE]

Active(t) == t.started_at # Null \/ t.initial_remaining_s # Null \/ t.scheduled

(***************************************************************************)
(* _baseline(): the first snapshot of a process.                           *)
(***************************************************************************)
Plausible(cur, t) ==
    /\ t.started_at # Null
    /\ Null \in {t.course, cur.course} \/ t.course = cur.course
    /\ \/ Null \in {t.initial_remaining_s, cur.remaining_s}
       \/ cur.remaining_s <= t.initial_remaining_s

\* Mutant: `delay and ...`, which is None where no delay is reported.
JoinedKeepsNone(cur) ==
    [started_at |-> Null, course |-> cur.course, initial_remaining_s |-> cur.remaining_s,
     scheduled |-> IF cur.delay_end_s = Null THEN Null ELSE DelayWaiting(cur)]

Joined(cur) ==
    [started_at |-> Null, course |-> cur.course, initial_remaining_s |-> cur.remaining_s,
     scheduled |-> DelayWaiting(cur)]

Baseline(cur, t) ==
    IF ~InCycle(cur) THEN Fresh
    ELSE IF Plausible(cur, t) THEN t ELSE Joined(cur)

(***************************************************************************)
(* Events.  Of the notification's fields the model keeps the ones computed *)
(* from the tracker and the alarm report; wording is left out.             *)
(***************************************************************************)
Ev(kind) == [kind |-> kind, duration |-> Null, length |-> Null, note |-> "", codes |-> <<>>,
             text |-> <<>>]

\* Shown in whole minutes; a clock that went back gives 0.
FmtDuration(seconds) == IF seconds < 0 THEN 0 ELSE 60 * (seconds \div 60)

FinishedEv(t, now, whileOffline) ==
    [Ev("cycle_finished") EXCEPT
        !.note     = IF whileOffline THEN "offline" ELSE "",
        !.duration = IF whileOffline \/ t.started_at = Null THEN Null
                     ELSE FmtDuration(now - t.started_at),
        !.length   = IF whileOffline \/ t.started_at # Null \/ t.initial_remaining_s \in {Null, 0}
                     THEN Null ELSE FmtDuration(t.initial_remaining_s)]

CancelledEv(t) ==
    [Ev("cycle_cancelled") EXCEPT !.note = IF t.scheduled THEN "delayed start" ELSE ""]

KeyedEv(kind, key) == [Ev(kind) EXCEPT !.codes = key.codes, !.text = key.text]

(***************************************************************************)
(* The cycle transitions: which branch of the if/elif chain is taken.      *)
(***************************************************************************)
OutageCovered(was, outage) ==
    outage # Null /\ was.remaining_s # Null /\ outage >= was.remaining_s

NearlyDone(was) == was.remaining_s # Null /\ was.remaining_s <= 60

\* Mutant: asks whether the cycle has finished before whether that was told already.
EndOutcomeAgain(was, is, outage) ==
    IF InCycle(was) /\ Finished(is) THEN "finished"
    ELSE IF Finished(was)
      THEN IF ~InCycle(is) /\ ~Finished(is) THEN "unloaded" ELSE "none"
    ELSE IF InCycle(was) /\ ~InCycle(is)
      THEN IF OutageCovered(was, outage) THEN "finished offline"
           ELSE IF NearlyDone(was) THEN "finished" ELSE "cancelled"
    ELSE "none"

EndOutcome(was, is, outage) ==
    IF Finished(was)
      THEN IF ~InCycle(is) /\ ~Finished(is) THEN "unloaded" ELSE "none"
    ELSE IF InCycle(was) /\ Finished(is) THEN "finished"
    ELSE IF InCycle(was) /\ ~InCycle(is)
      THEN IF OutageCovered(was, outage) THEN "finished offline"
           ELSE IF NearlyDone(was) THEN "finished" ELSE "cancelled"
    ELSE "none"

CycleOutcome(was, is, t, outage) ==
    IF ~Running(was) /\ Running(is)
      THEN IF DelayWaiting(is) THEN IF t.scheduled THEN "still waiting" ELSE "scheduled"
           ELSE IF Paused(was) /\ Active(t) /\ ~t.scheduled THEN "resumed" ELSE "started"
    ELSE IF Running(was) /\ Running(is) /\ t.scheduled /\ ~DelayWaiting(is) THEN "started"
    ELSE IF Running(was) /\ Paused(is)
      THEN IF t.scheduled THEN "still waiting" ELSE "paused"
    ELSE EndOutcome(was, is, outage)

\* Mutant: a cancelled cycle does not reset the tracker.
CycleEndsUnlessCancelled == {"unloaded", "finished", "finished offline"}

\* The outcomes that reset the tracker.
CycleEnds == {"unloaded", "finished", "finished offline", "cancelled"}

\* Mutant: the start after a Delay End wait leaves the cycle marked as armed.
NextTrackerStaysArmed(outcome, is, t, now) ==
    CASE outcome = "scheduled" -> [Begin(is, Null) EXCEPT !.scheduled = TRUE]
      [] outcome = "started" -> [Begin(is, now) EXCEPT !.scheduled = t.scheduled]
      [] outcome \in CycleEnds -> Fresh
      [] OTHER -> t

\* Mutant: a resumed cycle is timed from when it was resumed.
NextTrackerBeginsOnResume(outcome, is, t, now) ==
    CASE outcome = "scheduled" -> [Begin(is, Null) EXCEPT !.scheduled = TRUE]
      [] outcome \in {"started", "resumed"} -> Begin(is, now)
      [] outcome \in CycleEnds -> Fresh
      [] OTHER -> t

NextTracker(outcome, is, t, now) ==
    CASE outcome = "scheduled" -> [Begin(is, Null) EXCEPT !.scheduled = TRUE]
      [] outcome = "started" -> Begin(is, now)
      [] outcome \in CycleEnds -> Fresh
      [] OTHER -> t

CycleEv(outcome, t, now) ==
    CASE outcome = "scheduled" -> <<Ev("cycle_scheduled")>>
      [] outcome = "started" -> <<Ev("cycle_started")>>
      [] outcome = "resumed" -> <<Ev("cycle_resumed")>>
      [] outcome = "paused" -> <<Ev("cycle_paused")>>
      [] outcome = "finished" -> <<FinishedEv(t, now, FALSE)>>
      [] outcome = "finished offline" -> <<FinishedEv(t, now, TRUE)>>
      [] outcome = "cancelled" -> <<CancelledEv(t)>>
      [] OTHER -> <<>>

(***************************************************************************)
(* The other comparisons.                                                  *)
(***************************************************************************)
\* Mutant: tells the power state at every evaluation.
PowerEvsAlways(was, is) ==
    IF is.power = "On" THEN <<Ev("power_on")>>
    ELSE IF is.power = "Off" THEN <<Ev("power_off")>>
    ELSE <<>>

PowerEvs(was, is) ==
    IF was.power = is.power \/ Null \in {was.power, is.power} THEN <<>>
    ELSE IF is.power = "On" THEN <<Ev("power_on")>>
    ELSE IF is.power = "Off" THEN <<Ev("power_off")>>
    ELSE <<>>

\* after is the tracker the cycle transition left.
PhaseEvs(was, is, outcome, after) ==
    IF /\ Running(was) /\ Running(is)
       /\ outcome # "started" /\ ~after.scheduled
       /\ was.progress # is.progress /\ is.progress \notin {Null, "None"}
       /\ ~Finished(is) /\ ~Finished(was)
    THEN <<Ev("phase_changed")>> ELSE <<>>

AlarmEvs(was, is) ==
    IF was.alarms = is.alarms \/ is.alarms = <<>> THEN <<>>
    ELSE IF IsCleared(is.alarms)
      THEN <<KeyedEv("alarm_cleared",
                     [codes |-> ClearedCodes(is.alarms, was.alarms), text |-> <<>>])>>
    ELSE <<KeyedEv("alarm", ThrottleKey(is.alarms))>>

ToggleEv(kind, was, is) ==
    IF was = is \/ Null \in {was, is} THEN <<>>
    ELSE <<[Ev(kind) EXCEPT !.note = IF is THEN "on" ELSE "off"]>>

ToggleEvs(was, is) ==
    ToggleEv("remote_control", was.remote_control, is.remote_control)
    \o ToggleEv("child_lock", was.child_lock, is.child_lock)

(***************************************************************************)
(* detect(prev, cur, tracker, now, outage_s): the tracker it leaves and    *)
(* the events it returns, in order.                                        *)
(***************************************************************************)
DetectTracker(prev, cur, t, now, outage) ==
    IF prev = Null THEN Baseline(cur, t)
    ELSE NextTracker(CycleOutcome(prev, cur, t, outage), cur, t, now)

DetectEvents(prev, cur, t, now, outage) ==
    IF prev = Null THEN <<>>
    ELSE LET outcome == CycleOutcome(prev, cur, t, outage)
         IN PowerEvs(prev, cur)
            \o CycleEv(outcome, t, now)
            \o PhaseEvs(prev, cur, outcome, NextTracker(outcome, cur, t, now))
            \o AlarmEvs(prev, cur)
            \o ToggleEvs(prev, cur)
=============================================================================
