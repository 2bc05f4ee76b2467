------------------------ MODULE CycleDetector_proofs ------------------------
(***************************************************************************)
(* Proofs about CycleDetector, for all snapshots, outages and clocks, and  *)
(* about LaundryWatch, which evaluates the snapshots that a machine and    *)
(* its user produce: what is told of each cycle, and that the telling      *)
(* implements CycleNotices.                                                *)
(***************************************************************************)
EXTENDS LaundryWatch, TLAPS

\* What the tracker has to do with the snapshot it was left with.
Clean(t, s)   == ~InCycle(s) /\ ~Finished(s) => t = Fresh
Waiting(t)    == t.scheduled => t.started_at = Null
Drumless(t, s) == t.scheduled /\ Running(s) => DelayWaiting(s)

\* The inductive invariant.
IInv ==
    /\ TypeOK
    /\ alive \/ last = Null
    /\ Waiting(tracker) /\ (disk # Null => Waiting(disk))
    /\ last # Null => Clean(tracker, last) /\ Drumless(tracker, last)
    /\ DiskBelief /\ DurableTracker

-----------------------------------------------------------------------------
\* _reset(), _begin() and joining a cycle leave a well-formed tracker.
LEMMA TrackerTypes ==
    ASSUME NEW s \in Snapshots, NEW at \in OptNat
    PROVE  /\ Fresh \in Trackers /\ Begin(s, at) \in Trackers /\ Joined(s) \in Trackers
           /\ [Begin(s, at) EXCEPT !.scheduled = TRUE] \in Trackers
<1>1. s.course \in OptString /\ s.remaining_s \in OptNat
  BY DetectorAssumption DEF ApplianceStates
<1>2. Null \in OptNat /\ Null \in OptString
  BY DEF OptNat, OptString
<1>3. DelayWaiting(s) \in BOOLEAN
  BY DEF DelayWaiting, Running
<1> QED
  BY <1>1, <1>2, <1>3 DEF Fresh, Begin, Joined, Trackers

\* Whatever the two snapshots are, detect() leaves a well-formed tracker.
LEMMA DetectTrackerType ==
    ASSUME NEW prev \in Snapshots \cup {Null}, NEW cur \in Snapshots, NEW t \in Trackers,
           NEW outage
    PROVE  now \in Nat => DetectTracker(prev, cur, t, now, outage) \in Trackers
<1> SUFFICES ASSUME now \in Nat PROVE DetectTracker(prev, cur, t, now, outage) \in Trackers
  OBVIOUS
<1>1. now \in OptNat /\ Null \in OptNat
  BY DEF OptNat
<1>2. Fresh \in Trackers /\ Begin(cur, now) \in Trackers /\ Joined(cur) \in Trackers
  BY <1>1, TrackerTypes
<1>3. [Begin(cur, Null) EXCEPT !.scheduled = TRUE] \in Trackers
  BY <1>1, TrackerTypes
<1>4. CASE prev = Null
  BY <1>2, <1>4 DEF DetectTracker, Baseline
<1>5. CASE prev # Null
  BY <1>2, <1>3, <1>5 DEF DetectTracker, NextTracker
<1> QED
  BY <1>4, <1>5

\* The tracker detect() leaves fits the snapshot it was given.
LEMMA DetectTrackerFits ==
    ASSUME NEW prev \in Snapshots \cup {Null}, NEW cur \in Snapshots, NEW t \in Trackers,
           NEW outage, NEW at \in Nat,
           Waiting(t), prev # Null => Clean(t, prev) /\ Drumless(t, prev)
    PROVE  LET u == DetectTracker(prev, cur, t, at, outage)
           IN Waiting(u) /\ Clean(u, cur) /\ Drumless(u, cur)
<1> DEFINE u == DetectTracker(prev, cur, t, at, outage)
<1>1. CASE prev = Null
  <2>1. u = Baseline(cur, t)
    BY <1>1 DEF DetectTracker
  <2>2. Plausible(cur, t) => t.started_at # Null /\ ~t.scheduled
    BY DEF Plausible, Waiting, Trackers
  <2> QED
    BY <2>1, <2>2 DEF Baseline, Waiting, Clean, Drumless, Joined, Fresh, InCycle
<1>2. CASE prev # Null
  <2> DEFINE o == CycleOutcome(prev, cur, t, outage)
  <2>1. u = NextTracker(o, cur, t, at)
    BY <1>2 DEF DetectTracker
  <2>2. CASE o = "scheduled"
    <3>1. Running(cur) /\ DelayWaiting(cur)
      BY <2>2 DEF CycleOutcome, EndOutcome
    <3>2. u = [Begin(cur, Null) EXCEPT !.scheduled = TRUE]
      BY <2>1, <2>2 DEF NextTracker, CycleEnds
    <3> QED
      BY <3>1, <3>2 DEF Begin, Waiting, Clean, Drumless, InCycle
  <2>3. CASE o = "started"
    <3>1. Running(cur)
      BY <2>3 DEF CycleOutcome, EndOutcome
    <3>2. u = Begin(cur, at)
      BY <2>1, <2>3 DEF NextTracker, CycleEnds
    <3> QED
      BY <3>1, <3>2 DEF Begin, Waiting, Clean, Drumless, InCycle
  <2>4. CASE o \in CycleEnds
    <3>1. u = Fresh
      BY <2>1, <2>4 DEF NextTracker, CycleEnds
    <3> QED
      BY <3>1 DEF Fresh, Waiting, Clean, Drumless
  <2>5. CASE o \notin {"scheduled", "started"} \cup CycleEnds
    <3>1. u = t
      BY <2>1, <2>5 DEF NextTracker
    <3>2. Drumless(t, cur)
      BY <1>2, <2>5 DEF CycleOutcome, EndOutcome, Drumless, CycleEnds
    <3>3. Clean(t, cur)
      <4> SUFFICES ASSUME ~InCycle(cur), ~Finished(cur) PROVE t = Fresh
        BY DEF Clean
      <4>1. ~Finished(prev)
        BY <2>5 DEF CycleOutcome, EndOutcome, CycleEnds, InCycle
      <4>2. ~InCycle(prev)
        BY <4>1, <2>5 DEF CycleOutcome, EndOutcome, CycleEnds, InCycle
      <4> QED
        BY <4>1, <4>2, <1>2 DEF Clean
    <3> QED
      BY <3>1, <3>2, <3>3
  <2> QED
    BY <2>2, <2>3, <2>4, <2>5
<1> QED
  BY <1>1, <1>2

\* _persist_tracker() keeps the belief about the file true, and leaves the
\* tracker on disk unless its save failed.
LEMMA PersistKeepsBelief ==
    ASSUME DiskBelief, saveFailed \in BOOLEAN, NEW snap \in Trackers, PersistTracker(snap)
    PROVE  /\ DiskBelief' /\ saveFailed' \in BOOLEAN
           /\ disk' \in {disk, snap} /\ saved_tracker' \in {saved_tracker, snap}
           /\ ~saveFailed' => disk' = snap
<1>0. snap # Null
  BY DetectorAssumption
<1>1. CASE snap = saved_tracker
  <2>1. UNCHANGED <<disk, saved_tracker, saveFailed>>
    BY <1>1 DEF PersistTracker
  <2> QED
    BY <1>0, <1>1, <2>1 DEF DiskBelief
<1>2. CASE disk' = snap /\ saved_tracker' = snap /\ saveFailed' = FALSE
  BY <1>2 DEF DiskBelief
<1>3. CASE saveFailed' = TRUE /\ UNCHANGED <<disk, saved_tracker>>
  BY <1>3 DEF DiskBelief
<1> QED
  BY <1>1, <1>2, <1>3 DEF PersistTracker

\* A bridge started on an empty state directory satisfies the inductive invariant.
THEOREM InitIInv == Init => IInv
<1> SUFFICES ASSUME Init PROVE IInv
  OBVIOUS
<1>1. Fresh \in Trackers /\ Waiting(Fresh)
  BY DEF Fresh, Trackers, OptNat, OptString, Waiting
<1> QED
  BY <1>1 DEF Init, IInv, TypeOK, DiskBelief, DurableTracker, OptNat

\* An evaluation preserves the inductive invariant, whatever the outage it is given.
LEMMA EvaluateKeepsIInv ==
    ASSUME IInv, NEW cur \in Snapshots, NEW outage, Evaluate(cur, outage)
    PROVE  IInv'
<1> USE DEF IInv
<1> DEFINE u == DetectTracker(last, cur, tracker, now, outage)
<1>1. u \in Trackers
  BY DetectTrackerType DEF TypeOK
<1>2. Waiting(u) /\ Clean(u, cur) /\ Drumless(u, cur)
  BY DetectTrackerFits DEF TypeOK
<1>3. /\ alive' = alive /\ alive /\ now' = now /\ last' = cur /\ tracker' = u
      /\ PersistTracker(u) /\ announced' \in {announced, now}
  BY DEF Evaluate
<1>4. /\ DiskBelief'
      /\ disk' \in {disk, u} /\ saved_tracker' \in {saved_tracker, u}
      /\ saveFailed' \in BOOLEAN /\ (~saveFailed' => disk' = u)
  BY <1>1, <1>3, PersistKeepsBelief DEF TypeOK
<1>5. TypeOK'
  <2>1. {saveFailed', spoiled'} \subseteq BOOLEAN
    <3>1. spoiled' = (spoiled \/ saveFailed')
      BY Zenon DEF Evaluate
    <3>2. spoiled' \in BOOLEAN
      BY <3>1
    <3> QED
      BY <1>4, <3>2
  <2>2. announced' \in OptNat /\ now' \in Nat
    BY <1>3 DEF TypeOK, OptNat
  <2>3. {saved_tracker', disk'} \subseteq Trackers \cup {Null}
    BY <1>1, <1>4 DEF TypeOK
  <2> QED
    BY <1>1, <1>3, <2>1, <2>2, <2>3 DEF TypeOK
<1>6. DurableTracker'
  BY <1>3, <1>4 DEF DurableTracker
<1> QED
  BY <1>2, <1>3, <1>4, <1>5, <1>6

\* Every step preserves the inductive invariant.
LEMMA StepIInv == IInv /\ [Next]_vars => IInv'
<1> SUFFICES ASSUME IInv, [Next]_vars PROVE IInv'
  OBVIOUS
<1> USE DEF IInv
<1>1. ASSUME NEW cur \in Snapshots, NEW outage \in Outages \cup {Null}, Evaluate(cur, outage)
      PROVE  IInv'
  BY <1>1, EvaluateKeepsIInv
<1>2. ASSUME NEW b \in DOMAIN outbox, Dispatch(b) PROVE IInv'
  BY <1>2 DEF Dispatch, TypeOK, DiskBelief, DurableTracker
<1>3. CASE Crash
  <2>1. Fresh \in Trackers /\ Waiting(Fresh)
    BY DEF Fresh, Trackers, OptNat, OptString, Waiting
  <2> QED
    BY <1>3, <2>1 DEF Crash, TypeOK, DiskBelief, DurableTracker
<1>4. CASE Restart
  <2>1. Fresh \in Trackers /\ Waiting(Fresh)
    BY DEF Fresh, Trackers, OptNat, OptString, Waiting
  <2>2. PICK loaded \in {disk, Null} :
           tracker' = (IF loaded = Null THEN Fresh ELSE loaded) /\ saved_tracker' = loaded
    BY <1>4 DEF Restart
  <2>3. /\ alive' = TRUE /\ last' = last /\ last = Null /\ disk' = disk /\ now' = now
        /\ announced' = announced /\ saveFailed' = saveFailed /\ spoiled' = spoiled
    BY <1>4 DEF Restart
  <2> QED
    BY <2>1, <2>2, <2>3 DEF TypeOK, DiskBelief, DurableTracker
<1>5. CASE Tick
  BY <1>5, DetectorAssumption DEF Tick, volatile, TypeOK, DiskBelief, DurableTracker
<1>6. CASE UNCHANGED vars
  BY <1>6 DEF vars, volatile, TypeOK, DiskBelief, DurableTracker
<1> QED
  BY <1>1, <1>2, <1>3, <1>4, <1>5, <1>6 DEF Next

\* The inductive invariant holds in every state, across crashes and restarts.
LEMMA IInvHolds == Spec => []IInv
BY InitIInv, StepIInv, PTL DEF Spec

\* Type correctness of the evaluation state.
THEOREM TypeCorrect == Spec => []TypeOK
<1>1. IInv => TypeOK
  BY DEF IInv
<1> QED
  BY <1>1, IInvHolds, PTL

\* A tracker never survives its cycle.
THEOREM IdleIsCleanHolds == Spec => []IdleIsClean
<1>1. IInv => IdleIsClean
  BY DEF IInv, IdleIsClean, Clean
<1> QED
  BY <1>1, IInvHolds, PTL

\* An armed tracker has no start time and no drum turning.
THEOREM ScheduledIsWaitingHolds == Spec => []ScheduledIsWaiting
<1>1. IInv => ScheduledIsWaiting
  BY DEF IInv, ScheduledIsWaiting, Waiting, Drumless
<1> QED
  BY <1>1, IInvHolds, PTL

\* What the process believes to be on disk is on disk.
THEOREM DiskBeliefHolds == Spec => []DiskBelief
<1>1. IInv => DiskBelief
  BY DEF IInv
<1> QED
  BY <1>1, IInvHolds, PTL

\* After an evaluation the tracker is on disk, unless the save failed.
THEOREM DurableTrackerHolds == Spec => []DurableTracker
<1>1. IInv => DurableTracker
  BY DEF IInv
<1> QED
  BY <1>1, IInvHolds, PTL

-----------------------------------------------------------------------------
\* Unchanged snapshots say nothing, in every state that satisfies IInv.
THEOREM NoNewsHolds == Spec => []NoNewsNoEvent
<1>1. IInv => NoNewsNoEvent
  <2> SUFFICES ASSUME IInv, last # Null, NEW outage \in Outages \cup {Null}
               PROVE  /\ DetectEvents(last, last, tracker, now, outage) = <<>>
                      /\ DetectTracker(last, last, tracker, now, outage) = tracker
    BY DEF NoNewsNoEvent
  <2> DEFINE o == CycleOutcome(last, last, tracker, outage)
  <2>1. o = "none"
    BY DEF IInv, Drumless, CycleOutcome, EndOutcome, InCycle, Running, Paused, RUNNING_STATES, PAUSED_STATES
  <2>2. NextTracker(o, last, tracker, now) = tracker
    BY <2>1 DEF NextTracker, CycleEnds
  <2>3. CycleEv(o, tracker, now) = <<>>
    BY <2>1, Zenon DEF CycleEv
  <2>4. /\ PowerEvs(last, last) = <<>> /\ AlarmEvs(last, last) = <<>>
        /\ ToggleEvs(last, last) = <<>>
        /\ PhaseEvs(last, last, o, tracker) = <<>>
    BY DEF PowerEvs, AlarmEvs, ToggleEvs, ToggleEv, PhaseEvs
  <2>5. DetectEvents(last, last, tracker, now, outage) = <<>>
    BY <2>2, <2>3, <2>4 DEF DetectEvents
  <2>6. DetectTracker(last, last, tracker, now, outage) = tracker
    BY <2>2 DEF DetectTracker
  <2> QED
    BY <2>5, <2>6
<1> QED
  BY <1>1, IInvHolds, PTL

-----------------------------------------------------------------------------
\* The start times.  As long as no save failed, the one in memory and the one on
\* disk are that of the latest announced start, or none.
StartInv ==
    spoiled \/ /\ tracker.started_at \in {Null, announced}
               /\ disk # Null => disk.started_at \in {Null, announced}

\* The tracker detect() leaves has the start time it had, none, or the present
\* time; the last only with a cycle_started among the events.
LEMMA DetectTrackerStart ==
    ASSUME NEW prev, NEW cur, NEW t, NEW outage, NEW at
    PROVE  \/ DetectTracker(prev, cur, t, at, outage).started_at \in {t.started_at, Null}
           \/ /\ prev # Null /\ CycleOutcome(prev, cur, t, outage) = "started"
              /\ DetectTracker(prev, cur, t, at, outage).started_at = at
<1>1. CASE prev = Null
  BY <1>1 DEF DetectTracker, Baseline, Joined, Fresh
<1>2. CASE prev # Null
  BY <1>2 DEF DetectTracker, NextTracker, Begin, Fresh
<1> QED
  BY <1>1, <1>2

\* A sequence over some set.
IsSeq(s) == \E A : s \in Seq(A)

\* The kinds of the events of two sequences put together.
LEMMA KindsOfConcat ==
    ASSUME NEW s, NEW t, IsSeq(s), IsSeq(t)
    PROVE  IsSeq(s \o t) /\ Kinds(s \o t) = Kinds(s) \cup Kinds(t)
<1>0. PICK A, B : s \in Seq(A) /\ t \in Seq(B)
  BY DEF IsSeq
<1>1. s \in Seq(A \cup B) /\ t \in Seq(A \cup B)
  BY <1>0
<1>2. s \o t \in Seq(A \cup B) /\ Len(s \o t) = Len(s) + Len(t)
  BY <1>1
<1>3. \A i \in 1..Len(s) : (s \o t)[i] = s[i] /\ i \in 1..Len(s \o t)
  BY <1>1, <1>2
<1>4. \A i \in 1..Len(t) : (s \o t)[i + Len(s)] = t[i] /\ i + Len(s) \in 1..Len(s \o t)
  BY <1>1, <1>2
<1>5. \A i \in 1..Len(s \o t) :
         \/ i \in 1..Len(s) /\ (s \o t)[i] = s[i]
         \/ i - Len(s) \in 1..Len(t) /\ (s \o t)[i] = t[i - Len(s)]
  BY <1>1, <1>2
<1>6. ToSet(s \o t) = ToSet(s) \cup ToSet(t)
  <2>1. ToSet(s) \subseteq ToSet(s \o t)
    BY <1>0, <1>2, <1>3 DEF ToSet
  <2>2. ToSet(t) \subseteq ToSet(s \o t)
    <3> SUFFICES ASSUME NEW i \in 1..Len(t) PROVE t[i] \in ToSet(s \o t)
      BY <1>0 DEF ToSet
    <3> DEFINE k == i + Len(s)
    <3>1. k \in DOMAIN (s \o t) /\ (s \o t)[k] = t[i]
      BY <1>2, <1>4
    <3> HIDE DEF k
    <3> QED
      BY <3>1 DEF ToSet
  <2>3. ToSet(s \o t) \subseteq ToSet(s) \cup ToSet(t)
    BY <1>1, <1>2, <1>5 DEF ToSet
  <2> QED
    BY <2>1, <2>2, <2>3
<1> QED
  BY <1>2, <1>6 DEF Kinds, IsSeq

\* Concatenating something that is not a start.
LEMMA NoStartConcat ==
    ASSUME NEW s, NEW t, IsSeq(s), IsSeq(t), "cycle_started" \notin Kinds(t)
    PROVE  /\ IsSeq(s \o t)
           /\ "cycle_started" \in Kinds(s \o t) <=> "cycle_started" \in Kinds(s)
BY KindsOfConcat

\* No event, or one event that is not a start.
NoStart(p) == p = <<>> \/ \E x : p = <<x>> /\ x.kind # "cycle_started"

\* A part of detect() with no start has no cycle_started among its kinds.
LEMMA NoStartKinds ==
    ASSUME NEW p, NoStart(p)
    PROVE  IsSeq(p) /\ "cycle_started" \notin Kinds(p)
<1>1. CASE p = <<>>
  BY <1>1 DEF Kinds, ToSet, IsSeq
<1>2. ASSUME NEW x, p = <<x>>, x.kind # "cycle_started"
      PROVE  IsSeq(p) /\ "cycle_started" \notin Kinds(p)
  <2>1. p \in Seq({x})
    BY <1>2
  <2>2. Kinds(p) = {x.kind}
    BY <1>2 DEF Kinds, ToSet
  <2> QED
    BY <1>2, <2>1, <2>2 DEF IsSeq
<1> QED
  BY <1>1, <1>2 DEF NoStart

\* An Event(...) of any other kind, keyed or with a note, is not a start.
LEMMA NoStartEv ==
    ASSUME NEW k, k # "cycle_started"
    PROVE  /\ NoStart(<<Ev(k)>>)
           /\ \A key : NoStart(<<KeyedEv(k, key)>>)
           /\ \A note : NoStart(<<[Ev(k) EXCEPT !.note = note]>>)
           /\ NoStart(<<>>)
<1>1. Ev(k).kind = k /\ (\A key : KeyedEv(k, key).kind = k)
  BY DEF Ev, KeyedEv
<1>2. \A note : [Ev(k) EXCEPT !.note = note].kind = k
  BY DEF Ev
<1> QED
  BY <1>1, <1>2, Zenon DEF NoStart

\* _finished() and _cancelled() never build a start (events.py:371-399).
LEMMA NoStartEnd ==
    ASSUME NEW t, NEW at, NEW offline
    PROVE  NoStart(<<FinishedEv(t, at, offline)>>) /\ NoStart(<<CancelledEv(t)>>)
<1>1. FinishedEv(t, at, offline).kind = "cycle_finished"
  BY DEF Ev, FinishedEv
<1>2. CancelledEv(t).kind = "cycle_cancelled"
  BY DEF Ev, CancelledEv
<1>3. \A x : x.kind \in {"cycle_finished", "cycle_cancelled"} => NoStart(<<x>>)
  BY DEF NoStart
<1> QED
  BY <1>1, <1>2, <1>3

\* cycle_started is among the events exactly when the cycle transition is a start.
LEMMA StartedKinds ==
    ASSUME NEW prev, prev # Null, NEW cur, NEW t, NEW outage, NEW at
    PROVE  "cycle_started" \in Kinds(DetectEvents(prev, cur, t, at, outage))
             <=> CycleOutcome(prev, cur, t, outage) = "started"
<1> DEFINE o == CycleOutcome(prev, cur, t, outage)
           p1 == PowerEvs(prev, cur)
           p2 == CycleEv(o, t, at)
           p3 == PhaseEvs(prev, cur, o, NextTracker(o, cur, t, at))
           p4 == AlarmEvs(prev, cur)
           p5 == ToggleEv("remote_control", prev.remote_control, cur.remote_control)
           p6 == ToggleEv("child_lock", prev.child_lock, cur.child_lock)
<1>1. IsSeq(p1) /\ "cycle_started" \notin Kinds(p1)
  <2>1. NoStart(<<>>) /\ NoStart(<<Ev("power_on")>>) /\ NoStart(<<Ev("power_off")>>)
    BY NoStartEv
  <2>2. NoStart(p1)
    BY <2>1, Zenon DEF PowerEvs
  <2> QED
    BY <2>2, NoStartKinds
<1>2. IsSeq(p2) /\ ("cycle_started" \in Kinds(p2) <=> o = "started")
  <2> HIDE DEF o
  <2>1. CASE o = "started"
    <3>1. p2 = <<Ev("cycle_started")>>
      BY <2>1, Zenon DEF CycleEv
    <3>2. p2 \in Seq({Ev("cycle_started")}) /\ Kinds(p2) = {Ev("cycle_started").kind}
      BY <3>1 DEF Kinds, ToSet
    <3>3. Ev("cycle_started").kind = "cycle_started"
      BY DEF Ev
    <3> QED
      BY <2>1, <3>2, <3>3 DEF IsSeq
  <2>2. CASE o # "started"
    <3>1. /\ NoStart(<<>>) /\ NoStart(<<Ev("cycle_scheduled")>>)
          /\ NoStart(<<Ev("cycle_resumed")>>) /\ NoStart(<<Ev("cycle_paused")>>)
      BY NoStartEv
    <3>2. /\ NoStart(<<FinishedEv(t, at, TRUE)>>) /\ NoStart(<<FinishedEv(t, at, FALSE)>>)
          /\ NoStart(<<CancelledEv(t)>>)
      BY NoStartEnd
    <3>3. NoStart(p2)
      BY <2>2, <3>1, <3>2, Zenon DEF CycleEv
    <3> QED
      BY <2>2, <3>3, NoStartKinds
  <2> QED
    BY <2>1, <2>2
<1>3. IsSeq(p3) /\ "cycle_started" \notin Kinds(p3)
  <2>1. NoStart(<<>>) /\ NoStart(<<Ev("phase_changed")>>)
    BY NoStartEv
  <2>2. NoStart(p3)
    BY <2>1, Zenon DEF PhaseEvs
  <2> QED
    BY <2>2, NoStartKinds
<1>4. IsSeq(p4) /\ "cycle_started" \notin Kinds(p4)
  <2>0. NoStart(<<>>)
    BY DEF NoStart
  <2>1. \A key : NoStart(<<KeyedEv("alarm", key)>>)
    BY NoStartEv
  <2>2. \A key : NoStart(<<KeyedEv("alarm_cleared", key)>>)
    BY NoStartEv
  <2>3. NoStart(p4)
    BY <2>0, <2>1, <2>2, Zenon DEF AlarmEvs
  <2> QED
    BY <2>3, NoStartKinds
<1>5. ASSUME NEW kind \in {"remote_control", "child_lock"}, NEW was, NEW is
      PROVE  /\ IsSeq(ToggleEv(kind, was, is))
             /\ "cycle_started" \notin Kinds(ToggleEv(kind, was, is))
  <2>1. NoStart(<<>>) /\ \A note : NoStart(<<[Ev(kind) EXCEPT !.note = note]>>)
    BY NoStartEv
  <2>2. NoStart(ToggleEv(kind, was, is))
    BY <2>1, Zenon DEF ToggleEv
  <2> QED
    BY <2>2, NoStartKinds
<1> HIDE DEF p1, p2, p3, p4, p5, p6, o
<1>6. /\ IsSeq(p5) /\ "cycle_started" \notin Kinds(p5)
      /\ IsSeq(p6) /\ "cycle_started" \notin Kinds(p6)
  BY <1>5 DEF p5, p6
<1>7. /\ IsSeq(p1 \o p2)
      /\ "cycle_started" \in Kinds(p1 \o p2) <=> o = "started"
  BY <1>1, <1>2, KindsOfConcat
<1>8. /\ IsSeq((p1 \o p2) \o p3)
      /\ "cycle_started" \in Kinds((p1 \o p2) \o p3) <=> o = "started"
  BY <1>7, <1>3, NoStartConcat
<1>9. /\ IsSeq(((p1 \o p2) \o p3) \o p4)
      /\ "cycle_started" \in Kinds(((p1 \o p2) \o p3) \o p4) <=> o = "started"
  BY <1>8, <1>4, NoStartConcat
<1>10. IsSeq(p5 \o p6) /\ "cycle_started" \notin Kinds(p5 \o p6)
  BY <1>6, NoStartConcat
<1>11. "cycle_started" \in Kinds((((p1 \o p2) \o p3) \o p4) \o (p5 \o p6))
         <=> o = "started"
  BY <1>9, <1>10, NoStartConcat
<1>12. DetectEvents(prev, cur, t, at, outage) = (((p1 \o p2) \o p3) \o p4) \o (p5 \o p6)
  BY DEF DetectEvents, ToggleEvs, p1, p2, p3, p4, p5, p6, o
<1> QED
  BY <1>11, <1>12 DEF o

\* Every step keeps the start times in step with the announcements.
LEMMA StepStartInv == IInv /\ StartInv /\ [Next]_vars => StartInv'
<1> SUFFICES ASSUME IInv, StartInv, [Next]_vars, ~spoiled'
             PROVE  /\ tracker'.started_at \in {Null, announced'}
                    /\ disk' # Null => disk'.started_at \in {Null, announced'}
  BY DEF StartInv
<1>0. /\ tracker.started_at \in {Null, announced}
      /\ disk # Null => disk.started_at \in {Null, announced}
      /\ Fresh.started_at = Null
  <2>1. ~spoiled
    BY DEF Next, Evaluate, Dispatch, Crash, Restart, Tick, vars
  <2> QED
    BY <2>1 DEF StartInv, Fresh
<1>1. ASSUME NEW cur \in Snapshots, NEW outage \in Outages \cup {Null}, Evaluate(cur, outage)
      PROVE  /\ tracker'.started_at \in {Null, announced'}
             /\ disk' # Null => disk'.started_at \in {Null, announced'}
  <2> DEFINE u == DetectTracker(last, cur, tracker, now, outage)
             started == last # Null /\ CycleOutcome(last, cur, tracker, outage) = "started"
  <2>1. ~saveFailed'
    BY <1>1 DEF Evaluate
  <2>2. u \in Trackers
    BY DetectTrackerType DEF TypeOK, IInv
  <2>3. disk' = u
    <3>1. PersistTracker(u)
      BY <1>1 DEF Evaluate
    <3> QED
      BY <2>1, <2>2, <3>1, PersistKeepsBelief DEF IInv, TypeOK
  <2>4. announced' = IF "cycle_started" \in Kinds(DetectEvents(last, cur, tracker, now, outage))
                     THEN now ELSE announced
    BY <1>1, Zenon DEF Evaluate
  <2>5. announced' = IF started THEN now ELSE announced
    <3>1. CASE last = Null
      <4>1. Kinds(DetectEvents(last, cur, tracker, now, outage)) = {}
        BY <3>1 DEF DetectEvents, Kinds, ToSet
      <4> QED
        BY <2>4, <3>1, <4>1
    <3>2. CASE last # Null
      BY <2>4, <3>2, StartedKinds
    <3> QED
      BY <3>1, <3>2
  <2>6. u.started_at \in {tracker.started_at, Null} \/ (started /\ u.started_at = now)
    BY DetectTrackerStart
  <2>7. started => u.started_at = now
    BY Zenon DEF DetectTracker, NextTracker, CycleEnds, Begin
  <2>8. u.started_at \in {Null, announced'}
    BY <1>0, <2>5, <2>6, <2>7
  <2>9. tracker' = u
    BY <1>1 DEF Evaluate
  <2> QED
    BY <2>3, <2>8, <2>9
<1>2. ASSUME NEW b \in DOMAIN outbox, Dispatch(b)
      PROVE  UNCHANGED <<tracker, disk, announced>>
  BY <1>2 DEF Dispatch
<1>3. CASE Crash
  BY <1>0, <1>3 DEF Crash
<1>4. CASE Restart
  BY <1>0, <1>4 DEF Restart
<1>5. CASE Tick
  BY <1>0, <1>5 DEF Tick, volatile
<1>6. CASE UNCHANGED vars
  BY <1>0, <1>6 DEF vars, volatile
<1> QED
  BY <1>0, <1>1, <1>2, <1>3, <1>4, <1>5, <1>6 DEF Next

\* Restarts neither invent nor mix up start times.
THEOREM StartsAreAnnounced == Spec => []StartIsTheAnnouncedOne
<1>1. Init => StartInv
  BY DEF Init, StartInv, Fresh
<1>2. StartInv => StartIsTheAnnouncedOne
  BY DEF StartInv, StartIsTheAnnouncedOne
<1> QED
  BY <1>1, <1>2, IInvHolds, StepStartInv, PTL DEF Spec

-----------------------------------------------------------------------------
\* The appliance by itself: where it is in its cycle, and since when.
Machine ==
    /\ mode \in {"ready", "run", "pause", "end"}
    /\ left \in 0..(CycleMinutes + DelayMinutes)
    /\ drum \in Nat \cup {Null} /\ (drum # Null => drum <= now)
    /\ cycle \in Nat /\ DOMAIN completed \subseteq 0..cycle
    /\ \A c \in DOMAIN completed : completed[c] \in Nat /\ completed[c] <= now
    /\ mode \in {"ready", "end"} <=> left = 0
    /\ mode = "ready" => drum = Null
    /\ mode = "end" => drum # Null
    /\ mode = "run" => (drum = Null <=> left > CycleMinutes)
    /\ mode = "pause" => /\ left > 1
                         /\ drum = Null => left >= CycleMinutes
                         /\ drum # Null => left <= CycleMinutes
    /\ mode \in {"run", "pause"} => cycle \notin DOMAIN completed

\* Views by what the machine does in them.
IdleView(v)    == v.machine_state = "Ready" /\ v.progress = "None"
ArmedView(v)   == v.machine_state = "Run" /\ v.progress = "None"
TurningView(v) == v.machine_state = "Run" /\ v.progress = "Wash"
LastView(v)    == v.machine_state = "Run" /\ v.progress = "Finish"
HeldView(v)    == v.machine_state = "Pause" /\ v.progress = "None"
PausedView(v)  == v.machine_state = "Pause" /\ v.progress = "Wash"
EndView(v)     == v.machine_state = "End" /\ v.progress = "Finish"

\* A view the appliance can really show.
RealView(v) ==
    /\ v \in Views
    /\ \/ IdleView(v) \/ EndView(v) \/ LastView(v)
       \/ v.remaining_s > 60 /\ (TurningView(v) \/ HeldView(v) \/ PausedView(v))
       \/ v.remaining_s > 60 /\ ArmedView(v)
    /\ v.machine_state = "Run" => (v.progress = "None" <=> v.delay_end_s # 0)

\* What is shown of it.
ShownFits ==
    /\ RealView(Shown)
    /\ Shown.remaining_s = 60 * left
    /\ mode = "ready" <=> IdleView(Shown)
    /\ mode = "end" <=> EndView(Shown)
    /\ mode = "run" /\ drum = Null <=> ArmedView(Shown)
    /\ mode = "run" /\ drum # Null /\ left > 1 <=> TurningView(Shown)
    /\ mode = "run" /\ drum # Null /\ left <= 1 <=> LastView(Shown)
    /\ mode = "pause" /\ drum = Null <=> HeldView(Shown)
    /\ mode = "pause" /\ drum # Null <=> PausedView(Shown)

\* By case of what the appliance does, at one moment.
LEMMA MachineShows == Machine => ShownFits
<1> SUFFICES ASSUME Machine PROVE ShownFits
  OBVIOUS
<1>0. CycleMinutes \in Nat /\ CycleMinutes > 1 /\ DelayMinutes \in Nat
  BY WatchAssumption
<1>1. /\ Shown.remaining_s = 60 * left
      /\ Shown.delay_end_s = IF Waits THEN 60 * left ELSE 0
      /\ Shown.progress = IF mode = "end" THEN "Finish"
                          ELSE IF mode = "ready" \/ drum = Null THEN "None"
                          ELSE IF left <= 1 THEN "Finish" ELSE "Wash"
      /\ mode = "ready" => Shown.machine_state = "Ready"
      /\ mode = "run" => Shown.machine_state = "Run"
      /\ mode = "pause" => Shown.machine_state = "Pause"
      /\ mode = "end" => Shown.machine_state = "End"
  BY DEF Shown
<1>2. Shown \in Views
  <2>1. 60 * left \in {60 * m : m \in 0..(CycleMinutes + DelayMinutes)}
    BY DEF Machine
  <2>2. (IF Waits THEN 60 * left ELSE 0) \in
           {60 * m : m \in {0} \cup (CycleMinutes + 1)..(CycleMinutes + DelayMinutes)}
    <3>1. CASE Waits
      <4>1. left \in {0} \cup (CycleMinutes + 1)..(CycleMinutes + DelayMinutes)
        BY <1>0, <3>1 DEF Waits, Machine
      <4> QED
        BY <3>1, <4>1
    <3>2. CASE ~Waits
      <4>1. 0 = 60 * 0
        OBVIOUS
      <4> QED
        BY <3>2, <4>1
    <3> QED
      BY <3>1, <3>2
  <2>3. mode \in {"ready", "run", "pause", "end"}
    BY DEF Machine
  <2>4. /\ [ready |-> "Ready", run |-> "Run", pause |-> "Pause", end |-> "End"][mode]
              \in {"Ready", "Run", "Pause", "End"}
        /\ (IF mode = "end" THEN "Finish"
            ELSE IF mode = "ready" \/ drum = Null THEN "None"
            ELSE IF left <= 1 THEN "Finish" ELSE "Wash") \in {"None", "Wash", "Finish"}
    BY <2>3
  <2> HIDE DEF Waits
  <2> QED
    BY <2>1, <2>2, <2>4 DEF Shown, Views
<1>3. left \in Nat /\ 0 # Null
  BY NullAssumption DEF Machine
<1>4. Shown.machine_state = "Run" => (Shown.progress = "None" <=> Shown.delay_end_s # 0)
  BY <1>0, <1>1, <1>3 DEF Machine, Waits
<1>5. CASE mode = "ready"
  BY <1>0, <1>1, <1>2, <1>3, <1>4, <1>5 DEF ShownFits, RealView, IdleView, ArmedView, TurningView, LastView,
     HeldView, PausedView, EndView, Machine
<1>6. CASE mode = "end"
  BY <1>0, <1>1, <1>2, <1>3, <1>4, <1>6 DEF ShownFits, RealView, IdleView, ArmedView, TurningView, LastView,
     HeldView, PausedView, EndView, Machine
<1>7. CASE mode = "run"
  BY <1>0, <1>1, <1>2, <1>3, <1>4, <1>7 DEF ShownFits, RealView, IdleView, ArmedView, TurningView, LastView,
     HeldView, PausedView, EndView, Machine
<1>8. CASE mode = "pause"
  BY <1>0, <1>1, <1>2, <1>3, <1>4, <1>8 DEF ShownFits, RealView, IdleView, ArmedView, TurningView, LastView,
     HeldView, PausedView, EndView, Machine
<1> QED
  BY <1>5, <1>6, <1>7, <1>8 DEF Machine

\* The same after a step.
LEMMA MachineShowsNext == Machine' => ShownFits'
BY MachineShows, PTL

\* The appliance as the bridge sees it, and the shape of what it has to tell.
Base ==
    /\ IInv /\ Machine
    /\ link \in {"up", "silent", "down"} /\ silent \in Nat /\ away \in Nat
    /\ seen \in 0..cycle /\ timed \in BOOLEAN /\ doubt \in BOOLEAN
    /\ link # "down" => (alive /\ last # Null /\ away = 0)
    /\ last # Null => RealView(last)
    /\ outbox = <<>> \/ (last # Null /\ \E ev : outbox = <<<<ev>>>>)

\* The event of a cycle transition, or of none.
OutcomeEv(o, ev, t, at) ==
    \/ o = "none" /\ ev.kind = "phase_changed"
    \/ o = "scheduled" /\ ev.kind = "cycle_scheduled"
    \/ o = "started" /\ ev.kind = "cycle_started"
    \/ o = "paused" /\ ev.kind = "cycle_paused"
    \/ o = "resumed" /\ ev.kind = "cycle_resumed"
    \/ o = "finished" /\ ev.kind = "cycle_finished" /\ ev = FinishedEv(t, at, FALSE)
    \/ o = "finished offline" /\ ev.kind = "cycle_finished" /\ ev.duration = Null
    \/ o = "cancelled" /\ ev.kind = "cycle_cancelled"

\* The outcomes nobody is told of.
Quiet == {"none", "still waiting", "unloaded"}

\* Two views differ in nothing but the cycle, so detect() returns one event at most.
LEMMA OneEvent ==
    ASSUME NEW prev, RealView(prev), NEW cur, RealView(cur), NEW t, NEW at, NEW outage, prev # Null
    PROVE  LET o == CycleOutcome(prev, cur, t, outage)
               es == DetectEvents(prev, cur, t, at, outage)
           IN \/ es = <<>> /\ o \in Quiet
              \/ \E ev : es = <<ev>> /\ OutcomeEv(o, ev, t, at)
<1> DEFINE o == CycleOutcome(prev, cur, t, outage)
           p2 == CycleEv(o, t, at)
           p3 == PhaseEvs(prev, cur, o, NextTracker(o, cur, t, at))
<1>1. /\ prev.power = cur.power /\ prev.alarms = cur.alarms
      /\ prev.remote_control = cur.remote_control /\ prev.child_lock = cur.child_lock
  BY DEF RealView, Views
<1>2. /\ PowerEvs(prev, cur) = <<>> /\ AlarmEvs(prev, cur) = <<>>
      /\ ToggleEvs(prev, cur) = <<>>
  BY <1>1 DEF PowerEvs, AlarmEvs, ToggleEvs, ToggleEv
<1>3. /\ o = "none" \/ p3 = <<>>
      /\ p3 \in {<<>>, <<Ev("phase_changed")>>}
  BY DEF PhaseEvs, CycleOutcome, EndOutcome, InCycle, Running, Paused, RUNNING_STATES, PAUSED_STATES
<1>4. /\ o \in Quiet => p2 = <<>>
      /\ o \notin Quiet => \E ev : p2 = <<ev>> /\ OutcomeEv(o, ev, t, at)
  <2>1. o \in {"none", "still waiting", "unloaded", "scheduled", "started", "paused", "resumed",
               "finished", "finished offline", "cancelled"}
    BY DEF CycleOutcome, EndOutcome
  <2>2. /\ Ev("cycle_scheduled").kind = "cycle_scheduled"
        /\ Ev("cycle_started").kind = "cycle_started"
        /\ Ev("cycle_resumed").kind = "cycle_resumed"
        /\ Ev("cycle_paused").kind = "cycle_paused"
    BY DEF Ev
  <2>3. /\ FinishedEv(t, at, FALSE).kind = "cycle_finished"
        /\ FinishedEv(t, at, TRUE).kind = "cycle_finished" /\ FinishedEv(t, at, TRUE).duration = Null
        /\ CancelledEv(t).kind = "cycle_cancelled"
    BY DEF Ev, FinishedEv, CancelledEv
  <2> HIDE DEF o
  <2>4. CASE o \in Quiet
    BY <2>4, Zenon DEF CycleEv, Quiet
  <2>5. CASE o = "scheduled"
    BY <2>2, <2>5, Zenon DEF CycleEv, OutcomeEv, Quiet
  <2>6. CASE o = "started"
    BY <2>2, <2>6, Zenon DEF CycleEv, OutcomeEv, Quiet
  <2>7. CASE o = "resumed"
    BY <2>2, <2>7, Zenon DEF CycleEv, OutcomeEv, Quiet
  <2>8. CASE o = "paused"
    BY <2>2, <2>8, Zenon DEF CycleEv, OutcomeEv, Quiet
  <2>9. CASE o = "finished"
    BY <2>3, <2>9, Zenon DEF CycleEv, OutcomeEv, Quiet
  <2>10. CASE o = "finished offline"
    BY <2>3, <2>10, Zenon DEF CycleEv, OutcomeEv, Quiet
  <2>11. CASE o = "cancelled"
    BY <2>3, <2>11, Zenon DEF CycleEv, OutcomeEv, Quiet
  <2> QED
    BY <2>1, <2>4, <2>5, <2>6, <2>7, <2>8, <2>9, <2>10, <2>11 DEF Quiet
<1>5. DetectEvents(prev, cur, t, at, outage) = <<>> \o p2 \o p3 \o <<>> \o <<>>
  BY <1>2 DEF DetectEvents
<1>6. Ev("phase_changed").kind = "phase_changed"
  BY DEF Ev
<1> HIDE DEF o, p2, p3
<1>7. CASE p3 = <<>> /\ o \in Quiet
  <2>1. DetectEvents(prev, cur, t, at, outage) = <<>>
    BY <1>4, <1>5, <1>7
  <2> QED
    BY <1>7, <2>1 DEF o
<1>8. CASE p3 = <<>> /\ o \notin Quiet
  <2>1. PICK ev : p2 = <<ev>> /\ OutcomeEv(o, ev, t, at)
    BY <1>4, <1>8
  <2>2. DetectEvents(prev, cur, t, at, outage) = <<ev>>
    BY <1>5, <1>8, <2>1
  <2> QED
    BY <2>1, <2>2 DEF o
<1>9. CASE p3 # <<>>
  <2>1. o = "none" /\ p3 = <<Ev("phase_changed")>> /\ p2 = <<>>
    BY <1>3, <1>4, <1>9 DEF Quiet
  <2>2. DetectEvents(prev, cur, t, at, outage) = <<Ev("phase_changed")>>
    BY <1>5, <2>1
  <2>3. OutcomeEv(o, Ev("phase_changed"), t, at)
    BY <1>6, <2>1 DEF OutcomeEv
  <2> QED
    BY <2>2, <2>3 DEF o
<1> QED
  BY <1>7, <1>8, <1>9

\* The kinds waiting to be told, when there is one event at most.
DetectedFits ==
    /\ outbox = <<>> => Detected = {} /\ Coming = "none"
    /\ \A ev : outbox = <<<<ev>>>> => Detected = {ev.kind} /\ Coming = ev.kind

\* What is read off the outbox in the two cases that arise.
LEMMA DetectedNow == DetectedFits
<1>1. outbox = <<>> => Detected = {} /\ Coming = "none"
  BY DEF Detected, Coming
<1>2. ASSUME NEW ev, outbox = <<<<ev>>>> PROVE Detected = {ev.kind} /\ Coming = ev.kind
  <2>1. DOMAIN outbox = {1} /\ outbox[1] = <<ev>>
    BY <1>2
  <2>2. Kinds(<<ev>>) = {ev.kind}
    BY DEF Kinds, ToSet
  <2>3. outbox # <<>> /\ Head(outbox[1]) = ev
    BY <1>2
  <2> QED
    BY <2>1, <2>2, <2>3 DEF Detected, Coming
<1> QED
  BY <1>1, <1>2 DEF DetectedFits

\* The same after a step.
LEMMA DetectedNext == DetectedFits'
BY DetectedNow, PTL

\* What one evaluation does.
LEMMA Judged ==
    ASSUME Watching, Base, NEW outage, Judge(outage)
    PROVE  LET o == CycleOutcome(last, Shown, tracker, outage)
           IN /\ IInv' /\ ShownFits
              /\ alive /\ alive' /\ outbox = <<>> /\ now' = now /\ last' = Shown /\ Shown # Null
              /\ tracker' = DetectTracker(last, Shown, tracker, now, outage)
              /\ seen' = cycle /\ UNCHANGED <<appliance, heard, doubt>>
              /\ \/ last = Null /\ outbox' = <<>> /\ Detected' = {}
                 \/ last # Null /\ outbox' = <<>> /\ Detected' = {} /\ o \in Quiet
                 \/ last # Null /\ \E ev : /\ outbox' = <<<<ev>>>> /\ Detected' = {ev.kind}
                                           /\ OutcomeEv(o, ev, tracker, now)
<1> DEFINE o == CycleOutcome(last, Shown, tracker, outage)
           es == DetectEvents(last, Shown, tracker, now, outage)
<1>1. ShownFits /\ Shown \in Snapshots /\ Shown # Null
  BY MachineShows, DetectorAssumption DEF Base, Watching, ShownFits, RealView
<1>2. Evaluate(Shown, outage)
  BY DEF Judge
<1>3. IInv'
  BY <1>1, <1>2, EvaluateKeepsIInv DEF Base
<1>4. /\ alive /\ alive' /\ now' = now /\ last' = Shown
      /\ tracker' = DetectTracker(last, Shown, tracker, now, outage)
  BY <1>2 DEF Evaluate
<1>5. outbox = <<>>
  <2>1. Len(outbox) < 1
    BY <1>2 DEF Evaluate, Watching
  <2>2. \A ev : Len(<<<<ev>>>>) = 1
    OBVIOUS
  <2> QED
    BY <2>1, <2>2 DEF Base
<1>6. outbox' = IF es = <<>> THEN <<>> ELSE <<es>>
  <2>1. outbox' = IF es = <<>> THEN outbox ELSE Append(outbox, es)
    BY <1>2, Zenon DEF Evaluate
  <2>2. Append(<<>>, es) = <<es>>
    OBVIOUS
  <2> QED
    BY <1>5, <2>1, <2>2
<1>7. seen' = cycle /\ UNCHANGED <<appliance, heard, doubt>>
  BY DEF Judge
<1>8. \/ last = Null /\ outbox' = <<>> /\ Detected' = {}
      \/ last # Null /\ outbox' = <<>> /\ Detected' = {} /\ o \in Quiet
      \/ last # Null /\ \E ev : /\ outbox' = <<<<ev>>>> /\ Detected' = {ev.kind}
                                /\ OutcomeEv(o, ev, tracker, now)
  <2>1. CASE last = Null
    <3>1. es = <<>>
      BY <2>1 DEF DetectEvents
    <3> QED
      BY <1>6, <2>1, <3>1, DetectedNext DEF DetectedFits
  <2>2. CASE last # Null
    <3>0. RealView(last) /\ RealView(Shown)
      BY <1>1, <2>2 DEF Base, ShownFits
    <3> HIDE DEF o, es
    <3>1. \/ es = <<>> /\ o \in Quiet
          \/ \E ev : es = <<ev>> /\ OutcomeEv(o, ev, tracker, now)
      BY <2>2, <3>0, OneEvent DEF o, es
    <3>2. CASE es = <<>> /\ o \in Quiet
      BY <1>6, <2>2, <3>2, DetectedNext DEF DetectedFits
    <3>3. ASSUME NEW ev, es = <<ev>>, OutcomeEv(o, ev, tracker, now)
          PROVE  outbox' = <<<<ev>>>> /\ Detected' = {ev.kind}
      <4>1. es # <<>>
        BY <3>3
      <4> QED
        BY <1>6, <3>3, <4>1, DetectedNext DEF DetectedFits
    <3> QED
      BY <2>2, <3>1, <3>2, <3>3
  <2> QED
    BY <2>1, <2>2
<1> QED
  BY <1>1, <1>3, <1>4, <1>5, <1>7, <1>8

\* A step of the machine and its user leaves the machine well-formed.
LEMMA PressKeepsMachine ==
    ASSUME Base, NEW minutes \in {CycleMinutes, CycleMinutes + DelayMinutes}, NEW doorOpen \in BOOLEAN,
           Press(minutes, doorOpen)
    PROVE  Machine'
<1>0. CycleMinutes \in Nat /\ CycleMinutes > 1 /\ DelayMinutes \in Nat /\ Null \notin Nat
  BY WatchAssumption, NullAssumption
<1>1. /\ mode = "ready" /\ cycle' = cycle + 1 /\ mode' = IF doorOpen THEN "pause" ELSE "run"
      /\ left' = minutes /\ drum' = (IF doorOpen \/ minutes > CycleMinutes THEN Null ELSE now)
      /\ completed' = completed /\ now' = now /\ now \in Nat
  BY DEF Press, vars, Base, IInv, TypeOK
<1>2. minutes \in Nat /\ minutes > 1 /\ minutes >= CycleMinutes /\ minutes <= CycleMinutes + DelayMinutes
  BY <1>0
<1> QED
  BY <1>0, <1>1, <1>2 DEF Base, Machine

\* So does what the user does in the middle of a cycle or after it.
LEMMA UseKeepsMachine ==
    ASSUME Base, Pause \/ Continue \/ Cancel \/ Unload
    PROVE  Machine'
<1>0. CycleMinutes \in Nat /\ CycleMinutes > 1 /\ DelayMinutes \in Nat /\ Null \notin Nat
  BY WatchAssumption, NullAssumption
<1>1. now' = now /\ now \in Nat
  BY DEF Pause, Continue, Cancel, Unload, vars, Base, IInv, TypeOK
<1>2. CASE Pause
  BY <1>0, <1>1, <1>2 DEF Pause, Base, Machine
<1>3. CASE Continue
  BY <1>0, <1>1, <1>3 DEF Continue, Base, Machine, Waits
<1>4. CASE Cancel
  BY <1>0, <1>1, <1>4 DEF Cancel, Base, Machine
<1>5. CASE Unload
  BY <1>0, <1>1, <1>5 DEF Unload, Base, Machine
<1> QED
  BY <1>2, <1>3, <1>4, <1>5

\* So does a minute that passes.
LEMMA MinuteKeepsMachine ==
    ASSUME Watching, Base, Minute
    PROVE  Machine' /\ now' = now + 60
<1>0. CycleMinutes \in Nat /\ CycleMinutes > 1 /\ DelayMinutes \in Nat /\ Null \notin Nat
  BY WatchAssumption, NullAssumption
<1>1. now' = now + 60 /\ now \in Nat
  BY DEF Minute, Tick, Watching, Base, IInv, TypeOK
<1>2. CASE mode # "run"
  <2>1. UNCHANGED appliance
    BY <1>2, Zenon DEF Minute
  <2>2. drum' \in Nat \cup {Null} /\ (drum' # Null => drum' <= now')
    BY <1>1, <2>1 DEF Base, Machine, appliance
  <2>3. Machine /\ UNCHANGED <<mode, left, drum, cycle, completed>>
    BY <2>1 DEF appliance, Base
  <2>4. \A c \in DOMAIN completed' : completed'[c] \in Nat /\ completed'[c] <= now'
    BY <1>1, <2>3 DEF Machine
  <2> QED
    BY <1>1, <1>2, <2>2, <2>3, <2>4 DEF Machine
<1>3. CASE mode = "run"
  <2>1. /\ left' = left - 1 /\ mode' = (IF left' = 0 THEN "end" ELSE "run")
        /\ drum' = (IF drum = Null /\ left' = CycleMinutes THEN now' ELSE drum)
        /\ cycle' = cycle
    BY <1>3 DEF Minute
  <2>2. left \in Nat /\ left > 0 /\ left <= CycleMinutes + DelayMinutes
    BY <1>0, <1>3 DEF Base, Machine
  <2>3. left' \in 0..(CycleMinutes + DelayMinutes)
    BY <1>0, <2>1, <2>2
  <2>4. drum' \in Nat \cup {Null} /\ (drum' # Null => drum' <= now')
    BY <1>0, <1>1, <2>1 DEF Base, Machine
  <2>5. mode' = "run" => (drum' = Null <=> left' > CycleMinutes)
    BY <1>0, <1>1, <1>3, <2>1, <2>2 DEF Base, Machine
  <2>6. mode' = "end" => drum' # Null
    BY <1>0, <1>1, <1>3, <2>1, <2>2 DEF Base, Machine
  <2>7. cycle \in Nat /\ DOMAIN completed \subseteq 0..cycle
    BY DEF Base, Machine
  <2>8. /\ DOMAIN completed' \subseteq 0..cycle'
        /\ \A c \in DOMAIN completed' : completed'[c] \in Nat /\ completed'[c] <= now'
        /\ left' # 0 => completed' = completed
    <3>1. \A c \in DOMAIN completed : completed[c] \in Nat /\ completed[c] <= now'
      BY <1>1 DEF Base, Machine
    <3>2. CASE left' # 0
      <4>1. completed' = completed
        BY <1>3, <3>2 DEF Minute
      <4> QED
        BY <2>1, <2>7, <3>1, <3>2, <4>1
    <3>3. CASE left' = 0
      <4>1. completed' = [c \in DOMAIN completed \cup {cycle} |->
                             IF c = cycle THEN now' ELSE completed[c]]
        BY <1>3, <3>3 DEF Minute
      <4>2. /\ DOMAIN completed' = DOMAIN completed \cup {cycle} /\ completed'[cycle] = now'
            /\ \A c \in DOMAIN completed : c # cycle => completed'[c] = completed[c]
        BY <4>1
      <4>3. DOMAIN completed' \subseteq 0..cycle'
        BY <2>1, <2>7, <4>2
      <4>4. ASSUME NEW c \in DOMAIN completed' PROVE completed'[c] \in Nat /\ completed'[c] <= now'
        BY <1>1, <3>1, <4>2
      <4> QED
        BY <3>3, <4>3, <4>4
    <3> QED
      BY <3>2, <3>3
  <2>9. mode' \in {"run", "pause"} => cycle' \notin DOMAIN completed'
    BY <1>3, <2>1, <2>8 DEF Base, Machine
  <2>10. /\ mode' \in {"run", "end"} /\ cycle' \in Nat
         /\ mode' \in {"ready", "end"} <=> left' = 0
    BY <2>1, <2>7
  <2>11. Machine'
    BY <2>3, <2>4, <2>5, <2>6, <2>8, <2>9, <2>10 DEF Machine
  <2> QED
    BY <1>1, <2>11
<1> QED
  BY <1>1, <1>2, <1>3

\* All other steps leave the machine alone.
LEMMA OthersKeepMachine ==
    ASSUME Base, UNCHANGED <<appliance, now>>
    PROVE  Machine'
BY DEF Base, Machine, appliance

\* Steps of CycleDetector, and steps that leave it alone, keep its invariant.
LEMMA DetectorKeepsIInv ==
    ASSUME IInv, UNCHANGED vars \/ (\E b \in DOMAIN outbox : Dispatch(b)) \/ Crash \/ Restart \/ Tick
    PROVE  IInv'
BY StepIInv DEF Next

\* The bridge starts in the base invariant.
LEMMA InitBase == WInit => Base
<1> SUFFICES ASSUME WInit PROVE Base
  OBVIOUS
<1>1. IInv
  BY InitIInv DEF WInit
<1>2. Machine
  <2>1. DOMAIN completed = {}
    BY DEF WInit
  <2> QED
    BY <2>1, WatchAssumption, NullAssumption DEF WInit, Init, Machine
<1>3. last = Null /\ outbox = <<>> /\ link = "down" /\ silent = 0 /\ away = 0 /\ seen = 0 /\ cycle = 0
  BY DEF WInit, Init
<1>4. timed \in BOOLEAN /\ doubt \in BOOLEAN
  BY DEF WInit
<1> QED
  BY <1>1, <1>2, <1>3, <1>4 DEF Base

\* Every step preserves the base invariant.
LEMMA StepBase == Watching /\ Base /\ [WNext]_wvars => Base'
<1> SUFFICES ASSUME Watching, Base, [WNext]_wvars PROVE Base'
  OBVIOUS
<1> DEFINE Rest == /\ link' \in {"up", "silent", "down"} /\ silent' \in Nat /\ away' \in Nat
                   /\ seen' \in 0..cycle' /\ timed' \in BOOLEAN /\ doubt' \in BOOLEAN
                   /\ link' # "down" => (alive' /\ last' # Null /\ away' = 0)
                   /\ last' # Null => RealView(last')
                   /\ outbox' = <<>> \/ (last' # Null /\ \E ev : outbox' = <<<<ev>>>>)
<1>0. IInv' /\ Machine' /\ Rest => Base'
  BY DEF Base
<1>1. ASSUME NEW minutes \in {CycleMinutes, CycleMinutes + DelayMinutes}, NEW doorOpen \in BOOLEAN,
             Press(minutes, doorOpen)
      PROVE  Base'
  <2>1. IInv'
    BY <1>1, DetectorKeepsIInv DEF Press, Base
  <2>2. Machine'
    BY <1>1, PressKeepsMachine
  <2>3. cycle \in Nat /\ cycle' = cycle + 1
    BY <1>1 DEF Press, Base, Machine
  <2>4. Rest
    BY <1>1, <2>3 DEF Press, Acts, path, vars, volatile, Base
  <2> QED
    BY <1>0, <2>1, <2>2, <2>4
<1>2. CASE Pause \/ Continue \/ Cancel \/ Unload
  <2>1. IInv'
    BY <1>2, DetectorKeepsIInv DEF Pause, Continue, Cancel, Unload, Base
  <2>2. Machine'
    BY <1>2, UseKeepsMachine
  <2>3. cycle' = cycle /\ UNCHANGED vars
    BY <1>2 DEF Pause, Continue, Cancel, Unload
  <2>4. \E boundary \in BOOLEAN : Acts(boundary)
    BY <1>2 DEF Pause, Continue, Cancel, Unload
  <2>5. Rest
    BY <2>3, <2>4 DEF Acts, path, vars, volatile, Base
  <2> QED
    BY <1>0, <2>1, <2>2, <2>5
<1>3. CASE Minute
  <2>1. IInv'
    BY <1>3, DetectorKeepsIInv DEF Minute, Base
  <2>2. Machine'
    BY <1>3, MinuteKeepsMachine
  <2>3. cycle' = cycle
    BY <1>3 DEF Minute, appliance
  <2>4. doubt' \in BOOLEAN /\ timed' \in BOOLEAN
    BY <1>3 DEF Minute, Base
  <2>5. Rest
    BY <1>3, <2>3, <2>4 DEF Minute, Tick, volatile, Base
  <2> QED
    BY <1>0, <2>1, <2>2, <2>5
<1>4. ASSUME NEW outage, Judge(outage), link' = "up", silent' = 0, away' = 0 
      PROVE  Base'
  <2>1. /\ IInv' /\ ShownFits /\ alive' /\ now' = now /\ last' = Shown /\ Shown # Null
        /\ seen' = cycle /\ UNCHANGED appliance /\ UNCHANGED doubt
        /\ outbox' = <<>> \/ \E ev : outbox' = <<<<ev>>>>
    BY <1>4, Judged
  <2>2. Machine'
    BY <2>1, OthersKeepMachine
  <2>3. timed' \in BOOLEAN
    BY <1>4 DEF Judge, Base, Watched
  <2>4. seen' \in 0..cycle'
    BY <2>1 DEF Base, Machine, appliance
  <2>5. Rest
    BY <1>4, <2>1, <2>3, <2>4 DEF ShownFits, Base
  <2> QED
    BY <1>0, <2>1, <2>2, <2>5
<1>5. CASE Sample
  BY <1>4, <1>5 DEF Sample, Watched, Base
<1>6. CASE Seed
  BY <1>4, <1>6 DEF Seed
<1>7. CASE LinkDies \/ LinkHeals \/ LinkEnds
  <2>1. UNCHANGED <<vars, appliance, seen>> /\ timed' = timed
    BY <1>7 DEF LinkDies, LinkHeals, LinkEnds, story
  <2>2. IInv'
    BY <2>1, DetectorKeepsIInv DEF Base
  <2>3. Machine'
    BY <2>1, OthersKeepMachine DEF vars
  <2>4. /\ link' \in {"up", "silent", "down"} /\ silent' \in Nat /\ away' \in Nat
        /\ link' # "down" => link # "down" /\ away' = away
    BY <1>7 DEF LinkDies, LinkHeals, LinkEnds, Unpolled, Base
  <2>5. doubt' \in BOOLEAN
    BY <1>7 DEF LinkDies, LinkHeals, LinkEnds, Base, story
  <2>6. Rest
    BY <2>1, <2>4, <2>5 DEF Base, vars, volatile, appliance
  <2> QED
    BY <1>0, <2>2, <2>3, <2>6
<1>8. CASE Told
  <2>1. 1 \in DOMAIN outbox /\ Dispatch(1) /\ outbox' = <<>>
    <3>1. outbox # <<>> /\ Dispatch(1)
      BY <1>8 DEF Told
    <3>2. PICK ev : outbox = <<<<ev>>>>
      BY <3>1 DEF Base
    <3>3. outbox' = RemoveAt(<<<<ev>>>>, 1)
      BY <3>1, <3>2 DEF Dispatch
    <3>4. RemoveAt(<<<<ev>>>>, 1) = <<>>
      BY DEF RemoveAt
    <3> QED
      BY <3>1, <3>2, <3>3, <3>4
  <2>2. IInv'
    BY <2>1, DetectorKeepsIInv DEF Base
  <2>3. Machine'
    BY <1>8, <2>1, OthersKeepMachine DEF Told, Dispatch
  <2>4. doubt' \in BOOLEAN
    BY <1>8 DEF Told, Base
  <2>5. Rest
    BY <1>8, <2>1, <2>4 DEF Told, Dispatch, path, appliance, Base
  <2> QED
    BY <1>0, <2>2, <2>3, <2>5
<1>9. CASE Dies
  <2>1. IInv'
    BY <1>9, DetectorKeepsIInv DEF Dies, Base
  <2>2. Machine'
    BY <1>9, OthersKeepMachine DEF Dies, Crash
  <2>3. Rest
    BY <1>9 DEF Dies, Crash, Base, appliance
  <2> QED
    BY <1>0, <2>1, <2>2, <2>3
<1>10. CASE Begins
  <2>1. IInv'
    BY <1>10, DetectorKeepsIInv DEF Begins, Base
  <2>2. Machine'
    BY <1>10, OthersKeepMachine DEF Begins, Restart
  <2>3. Rest
    BY <1>10 DEF Begins, Restart, Base, appliance, story
  <2> QED
    BY <1>0, <2>1, <2>2, <2>3
<1>11. CASE UNCHANGED wvars
  <2>1. IInv'
    BY <1>11, DetectorKeepsIInv DEF wvars, Base
  <2>2. Machine'
    BY <1>11, OthersKeepMachine DEF wvars, vars
  <2>3. Rest
    BY <1>11 DEF wvars, vars, volatile, appliance, path, story, Base
  <2> QED
    BY <1>0, <2>1, <2>2, <2>3
<1> QED
  BY <1>1, <1>2, <1>3, <1>5, <1>6, <1>7, <1>8, <1>9, <1>10, <1>11 DEF WNext

-----------------------------------------------------------------------------
\* The cycle of a view is over, or was not going on.
Over(v) == Finished(v) \/ ~InCycle(v)

\* Which views are those of a cycle that is over.
LEMMA OverViews ==
    ASSUME NEW v, RealView(v)
    PROVE  /\ Over(v) <=> IdleView(v) \/ EndView(v) \/ LastView(v)
           /\ Running(v) <=> ArmedView(v) \/ TurningView(v) \/ LastView(v)
           /\ Paused(v) <=> HeldView(v) \/ PausedView(v)
           /\ Finished(v) <=> EndView(v) \/ LastView(v)
           /\ DelayWaiting(v) <=> ArmedView(v)
           /\ ~Over(v) => v.remaining_s > 60 /\ v.remaining_s \in Nat /\ v.remaining_s # Null
<1>1. v.remaining_s \in Nat /\ v.delay_end_s \in Nat
  <2>1. CycleMinutes \in Nat /\ DelayMinutes \in Nat
    BY WatchAssumption
  <2>2. \A m \in 0..(CycleMinutes + DelayMinutes) : 60 * m \in Nat
    BY <2>1
  <2>3. \A m \in {0} \cup (CycleMinutes + 1)..(CycleMinutes + DelayMinutes) : 60 * m \in Nat
    BY <2>1
  <2> QED
    BY <2>2, <2>3 DEF RealView, Views
<1>2. v.remaining_s # Null /\ v.delay_end_s # Null
  BY <1>1, NullAssumption
<1> QED
  BY <1>1, <1>2 DEF Over, RealView, IdleView, ArmedView, TurningView, LastView, HeldView, PausedView, EndView,
     Running, Paused, Finished, InCycle, DelayWaiting, RUNNING_STATES, PAUSED_STATES, FINISHED_STATES

\* A machine whose cycle is over shows it, and only then.
OverShows == Over(Shown) <=> mode \in {"ready", "end"} \/ (mode = "run" /\ left <= 1)

\* The cycle of the view that is shown is over exactly when the machine is at rest, or in
\* its last minute.
LEMMA MachineOver == Machine => OverShows
<1> SUFFICES ASSUME Machine PROVE OverShows
  OBVIOUS
<1>1. ShownFits
  BY MachineShows
<1>2. Over(Shown) <=> IdleView(Shown) \/ EndView(Shown) \/ LastView(Shown)
  BY <1>1, OverViews DEF ShownFits
<1>3. mode = "run" /\ left <= 1 => drum # Null
  BY WatchAssumption DEF Machine
<1> QED
  BY <1>1, <1>2, <1>3 DEF ShownFits, OverShows

\* The same after a step.
LEMMA MachineOverNext == Machine' => OverShows'
BY MachineOver, PTL

\* The outcomes that end a cycle.
Ending == {"finished", "finished offline", "cancelled"}

\* Each end that was told is that of another cycle, and once it has been told the cycle
\* is over, in the last snapshot as in the machine.
Once ==
    /\ ended \in Seq(Nat) /\ IsInjective(ended)
    /\ \A i \in DOMAIN ended : ended[i] <= seen
    /\ (\E i \in DOMAIN ended : ended[i] = seen) =>
          /\ last = Null \/ Over(last)
          /\ cycle = seen => Over(Shown)

\* An end is seen when a cycle was going on, and is over.
LEMMA EndIsOver ==
    ASSUME NEW prev, NEW cur, NEW t, NEW outage, CycleOutcome(prev, cur, t, outage) \in Ending
    PROVE  ~Over(prev) /\ Over(cur)
BY DEF CycleOutcome, EndOutcome, Ending, Over, InCycle, Running, Paused, RUNNING_STATES, PAUSED_STATES

\* An evaluation appends the cycle at most once.
LEMMA JudgeKeepsOnce ==
    ASSUME Watching, Base, Once, NEW outage, Judge(outage)
    PROVE  Once'
<1> DEFINE o == CycleOutcome(last, Shown, tracker, outage)
<1>1. /\ last' = Shown /\ seen' = cycle /\ UNCHANGED appliance
      /\ \/ Detected' = {}
         \/ last # Null /\ \E ev : Detected' = {ev.kind} /\ OutcomeEv(o, ev, tracker, now)
  BY Judged
<1>2. seen \in Nat /\ cycle \in Nat /\ seen <= cycle
  BY DEF Base, Machine
<1>3. Shown' = Shown /\ cycle' = cycle
  BY <1>1 DEF appliance, Shown, Waits
<1>4. ended' = IF Detected' \cap {"cycle_finished", "cycle_cancelled"} = {} THEN ended
               ELSE Append(ended, seen)
  BY DEF Judge
<1>5. CASE Detected' \cap {"cycle_finished", "cycle_cancelled"} = {}
  <2>1. ended' = ended
    BY <1>4, <1>5
  <2>2. \A i \in DOMAIN ended : ended[i] \in Nat
    BY DEF Once
  <2>3. \A i \in DOMAIN ended : ended[i] <= cycle /\ (ended[i] = cycle => cycle = seen)
    BY <1>2, <2>2 DEF Once
  <2> QED
    BY <1>1, <1>3, <2>1, <2>3 DEF Once
<1>6. CASE Detected' \cap {"cycle_finished", "cycle_cancelled"} # {}
  <2>1. last # Null /\ o \in Ending
    BY <1>1, <1>6 DEF OutcomeEv, Ending
  <2>2. ~Over(last) /\ Over(Shown)
    BY <2>1, EndIsOver
  <2>3. ended' = Append(ended, seen)
    BY <1>4, <1>6
  <2>4. \A i \in DOMAIN ended : ended[i] # seen
    BY <2>1, <2>2 DEF Once
  <2>5. /\ ended \in Seq(Nat) /\ DOMAIN ended = 1..Len(ended) /\ Len(ended) \in Nat
        /\ \A i \in DOMAIN ended : ended[i] \in Nat /\ ended[i] <= seen
    BY DEF Once
  <2>6. /\ ended' \in Seq(Nat) /\ DOMAIN ended' = 1..(Len(ended) + 1)
        /\ \A i \in DOMAIN ended' :
              \/ i \in DOMAIN ended /\ ended'[i] = ended[i]
              \/ i = Len(ended) + 1 /\ ended'[i] = seen
    BY <1>2, <2>3, <2>5
  <2> HIDE DEF o
  <2>7. IsInjective(ended')
    BY <2>4, <2>6 DEF IsInjective, Once
  <2>8. \A i \in DOMAIN ended' : ended'[i] <= cycle
    BY <1>2, <2>5, <2>6
  <2> QED
    BY <1>1, <1>3, <2>2, <2>6, <2>7, <2>8 DEF Once
<1> QED
  BY <1>5, <1>6

\* Every step keeps the ends apart.
LEMMA StepOnce == Watching /\ Base /\ Once /\ Base' /\ [WNext]_wvars => Once'
<1> SUFFICES ASSUME Watching, Base, Once, Base', [WNext]_wvars PROVE Once'
  OBVIOUS
<1> DEFINE Same == ended' = ended /\ seen' = seen /\ last' \in {last, Null}
<1>0. ASSUME Same, cycle' = seen => cycle = seen /\ (Over(Shown) => Over(Shown'))
      PROVE  Once'
  BY <1>0 DEF Once
<1>1. OverShows /\ OverShows' /\ seen \in Nat /\ cycle \in Nat /\ seen <= cycle
  BY MachineOver, MachineOverNext DEF Base, Machine
<1>2. ASSUME NEW minutes \in {CycleMinutes, CycleMinutes + DelayMinutes}, NEW doorOpen \in BOOLEAN,
             Press(minutes, doorOpen)
      PROVE  Once'
  <2>1. Same /\ cycle' = cycle + 1
    BY <1>2 DEF Press, Acts, vars, volatile
  <2> QED
    BY <1>0, <1>1, <2>1
<1>3. CASE Pause \/ Continue \/ Cancel \/ Unload
  <2>1. Same /\ cycle' = cycle
    BY <1>3 DEF Pause, Continue, Cancel, Unload, Acts, vars, volatile
  <2>2. left \in Nat
    BY WatchAssumption DEF Base, Machine
  <2>3. (mode = "run" /\ left > 1) \/ mode = "pause" \/ mode' = "ready"
    BY <1>3 DEF Pause, Continue, Cancel, Unload
  <2>4. Over(Shown) => Over(Shown')
    BY <1>1, <2>2, <2>3 DEF OverShows
  <2> QED
    BY <1>0, <2>1, <2>4
<1>4. CASE Minute
  <2>1. Same /\ cycle' = cycle
    BY <1>4 DEF Minute, Tick, volatile, appliance
  <2>2. Over(Shown) => Over(Shown')
    <3>1. CASE mode # "run"
      <4>1. UNCHANGED appliance
        BY <1>4, <3>1, Zenon DEF Minute
      <4> QED
        BY <1>1, <4>1 DEF OverShows, appliance
    <3>2. CASE mode = "run"
      <4>1. left' = left - 1 /\ mode' = (IF left' = 0 THEN "end" ELSE "run")
        BY <1>4, <3>2 DEF Minute
      <4>2. left \in Nat
        BY WatchAssumption DEF Base, Machine
      <4> QED
        BY <1>1, <3>2, <4>1, <4>2 DEF OverShows
    <3> QED
      BY <3>1, <3>2
  <2> QED
    BY <1>0, <2>1, <2>2
<1>5. CASE Sample \/ Seed
  <2>1. PICK outage : Judge(outage)
    BY <1>5 DEF Sample, Seed
  <2> QED
    BY <2>1, JudgeKeepsOnce
<1>6. CASE LinkDies \/ LinkHeals \/ LinkEnds \/ Told \/ Dies \/ Begins \/ UNCHANGED wvars
  <2>1. Same /\ UNCHANGED appliance
    BY <1>6 DEF LinkDies, LinkHeals, LinkEnds, Told, Dies, Begins, Dispatch, Crash, Restart, vars, volatile,
       story, wvars
  <2>2. Shown' = Shown /\ cycle' = cycle
    BY <2>1 DEF appliance, Shown, Waits
  <2> QED
    BY <1>0, <2>1, <2>2
<1> QED
  BY <1>2, <1>3, <1>4, <1>5, <1>6 DEF WNext

\* The base invariant, and what was told of ends, in every state.
LEMMA OnceHolds == ASSUME Watching PROVE WSpec => [](Base /\ Once)
<1>1. WInit => Base /\ Once
  <2>1. WInit => Once
    BY DEF WInit, Init, Once, IsInjective
  <2> QED
    BY <2>1, InitBase
<1>2. Base /\ Once /\ [WNext]_wvars => (Base /\ Once)'
  BY StepBase, StepOnce
<1> QED
  BY <1>1, <1>2, PTL DEF WSpec

\* The end of a cycle is told at most once.
THEOREM EndsOnceHolds == ASSUME Watching PROVE WSpec => []EndsOnce
<1>1. Base /\ Once => EndsOnce
  BY DEF Once, EndsOnce
<1> QED
  BY <1>1, OnceHolds, PTL

-----------------------------------------------------------------------------
\* A cycle seen going on that has run to its end was long enough in coming: while the
\* bridge is in touch the end is still shown, and otherwise the minutes away cover what
\* remained of it and the time since its end.
Overdue ==
    silent = 0 /\ last # Null /\ ~Over(last) =>
        /\ link = "up" /\ seen \in DOMAIN completed => mode = "end"
        /\ link # "up" /\ seen \in DOMAIN completed
              => last.remaining_s + (now - completed[seen]) <= 60 * away
        /\ link # "up" /\ seen = cycle /\ mode \in {"run", "pause"}
              => last.remaining_s <= 60 * (left + away)

\* Every step keeps it so.
LEMMA StepOverdue == Watching /\ Base /\ Overdue /\ Base' /\ [WNext]_wvars => Overdue'
<1> SUFFICES ASSUME Watching, Base, Overdue, Base', [WNext]_wvars,
                    silent' = 0, last' # Null, ~Over(last')
             PROVE  /\ link' = "up" /\ seen' \in DOMAIN completed' => mode' = "end"
                    /\ link' # "up" /\ seen' \in DOMAIN completed'
                          => last'.remaining_s + (now' - completed'[seen']) <= 60 * away'
                    /\ link' # "up" /\ seen' = cycle' /\ mode' \in {"run", "pause"}
                          => last'.remaining_s <= 60 * (left' + away')
  BY DEF Overdue
<1>1. /\ left \in Nat /\ away \in Nat /\ silent \in Nat /\ cycle \in Nat /\ seen \in Nat /\ seen <= cycle
      /\ mode \in {"run", "pause"} => cycle \notin DOMAIN completed
      /\ \A c \in DOMAIN completed : completed[c] \in Nat /\ completed[c] <= now
      /\ mode \in {"ready", "run", "pause", "end"} /\ now \in Nat
      /\ mode = "run" => left > 0
      /\ link \in {"up", "silent", "down"} /\ (link # "down" => away = 0)
  BY WatchAssumption DEF Base, Machine, IInv, TypeOK
<1>2. OverShows /\ ShownFits
  BY MachineOver, MachineShows DEF Base
<1>3. last # Null => (~Over(last) => last.remaining_s > 60 /\ last.remaining_s \in Nat)
  BY OverViews DEF Base
<1>4. ASSUME last' = last, silent = 0
      PROVE  /\ ~Over(last) /\ last.remaining_s > 60 /\ last.remaining_s \in Nat
             /\ link = "up" /\ seen \in DOMAIN completed => mode = "end"
             /\ link # "up" /\ seen \in DOMAIN completed
                   => last.remaining_s + (now - completed[seen]) <= 60 * away
             /\ link # "up" /\ seen = cycle /\ mode \in {"run", "pause"}
                   => last.remaining_s <= 60 * (left + away)
  BY <1>3, <1>4 DEF Overdue
<1>5. ASSUME NEW minutes \in {CycleMinutes, CycleMinutes + DelayMinutes}, NEW doorOpen \in BOOLEAN,
             Press(minutes, doorOpen)
      PROVE  /\ link' = "up" /\ seen' \in DOMAIN completed' => mode' = "end"
             /\ link' # "up" /\ seen' \in DOMAIN completed'
                   => last'.remaining_s + (now' - completed'[seen']) <= 60 * away'
             /\ link' # "up" /\ seen' = cycle' /\ mode' \in {"run", "pause"}
                   => last'.remaining_s <= 60 * (left' + away')
  <2>1. /\ last' = last /\ silent' = silent /\ link' = link /\ away' = away /\ seen' = seen
        /\ mode = "ready" /\ cycle' = cycle + 1 /\ completed' = completed /\ now' = now
        /\ link = "up" => last = Shown
    BY <1>5 DEF Press, Acts, Watched, path, vars, volatile
  <2>2. link # "up"
    BY <1>2, <1>4, <2>1 DEF OverShows
  <2> QED
    BY <1>1, <1>4, <2>1, <2>2
<1>6. CASE Pause \/ Continue \/ Cancel \/ Unload
  <2>1. /\ last' = last /\ silent' = silent /\ link' = link /\ away' = away /\ seen' = seen
        /\ cycle' = cycle /\ completed' = completed /\ now' = now
        /\ link = "up" => last = Shown
    BY <1>6 DEF Pause, Continue, Cancel, Unload, Acts, Watched, path, vars, volatile
  <2>2. /\ mode \in {"run", "pause"} \/ (mode = "end" /\ mode' = "ready")
        /\ mode' = "ready" \/ left' = left
    BY <1>6 DEF Pause, Continue, Cancel, Unload
  <2>3. link = "up" => seen \notin DOMAIN completed
    BY <1>2, <1>4, <2>1, <2>2 DEF OverShows
  <2> QED
    BY <1>1, <1>4, <2>1, <2>2, <2>3
<1>7. CASE Minute
  <2>1. /\ last' = last /\ link' = link /\ seen' = seen /\ cycle' = cycle
        /\ silent' = (IF link = "silent" THEN silent + 1 ELSE silent)
        /\ away' = (IF link = "down" THEN away + 1 ELSE away)
    BY <1>7 DEF Minute, Tick, volatile, appliance
  <2>2. silent = 0 /\ link # "silent" /\ now' = now + 60
    BY <1>1, <1>7, <2>1, MinuteKeepsMachine
  <2>3. CASE mode # "run"
    <3>1. UNCHANGED appliance
      BY <1>7, <2>3, Zenon DEF Minute
    <3>2. left' = left /\ mode' = mode /\ completed' = completed
      BY <3>1 DEF appliance
    <3> QED
      BY <1>1, <1>4, <2>1, <2>2, <3>2
  <2>4. CASE mode = "run"
    <3>1. left' = left - 1 /\ mode' = (IF left' = 0 THEN "end" ELSE "run")
      BY <1>7, <2>4 DEF Minute
    <3>2. CASE left' # 0
      <4>1. completed' = completed
        BY <1>7, <2>4, <3>2 DEF Minute
      <4> QED
        BY <1>1, <1>4, <2>1, <2>2, <2>4, <3>1, <3>2, <4>1
    <3>3. CASE left' = 0
      <4>1. completed' = [c \in DOMAIN completed \cup {cycle} |->
                             IF c = cycle THEN now' ELSE completed[c]]
        BY <1>7, <2>4, <3>3 DEF Minute
      <4>2. DOMAIN completed' = DOMAIN completed \cup {cycle} /\ completed'[cycle] = now'
        BY <4>1
      <4>3. \A c \in DOMAIN completed : c # cycle => completed'[c] = completed[c]
        BY <4>1
      <4>4. CASE seen = cycle
        BY <1>1, <1>4, <2>1, <2>2, <2>4, <3>1, <3>3, <4>2, <4>4
      <4>5. CASE seen # cycle
        BY <1>1, <1>4, <2>1, <2>2, <2>4, <3>1, <3>3, <4>2, <4>3, <4>5
      <4> QED
        BY <4>4, <4>5
    <3> QED
      BY <3>2, <3>3
  <2> QED
    BY <2>3, <2>4
<1>8. CASE Sample \/ Seed
  <2>1. link' = "up" /\ \E outage : Judge(outage)
    BY <1>8 DEF Sample, Seed, Watched
  <2>2. last' = Shown /\ seen' = cycle /\ UNCHANGED appliance
    BY <2>1, Judged
  <2>3. mode \in {"run", "pause"}
    BY <1>1, <1>2, <2>2 DEF OverShows
  <2> QED
    BY <1>1, <2>1, <2>2, <2>3 DEF appliance
<1>9. CASE LinkDies
  <2>1. /\ link = "up" /\ link' = "silent" /\ last = Shown /\ silent = 0 /\ away' = away
        /\ UNCHANGED <<last, mode, left, cycle, completed, seen, now>>
    BY <1>1, <1>9 DEF LinkDies, Unpolled, vars, volatile, appliance, story
  <2>2. seen \notin DOMAIN completed
    BY <1>2, <1>4, <2>1 DEF OverShows
  <2>3. last.remaining_s = 60 * left
    BY <1>2, <2>1 DEF ShownFits
  <2> QED
    BY <1>1, <2>1, <2>2, <2>3
<1>10. CASE LinkHeals
  <2>1. /\ link = "silent" /\ link' = "up"
        /\ silent = 0 \/ (last = Shown /\ seen = cycle)
        /\ UNCHANGED <<last, mode, left, cycle, completed, seen, now>>
    BY <1>1, <1>10 DEF LinkHeals, vars, volatile, appliance, story
  <2>2. CASE silent = 0
    BY <1>1, <1>4, <2>1, <2>2
  <2>3. CASE last = Shown /\ seen = cycle
    <3>1. mode \in {"run", "pause"}
      BY <1>1, <1>2, <2>1, <2>3 DEF OverShows
    <3> QED
      BY <1>1, <2>1, <2>3, <3>1
  <2> QED
    BY <2>1, <2>2, <2>3
<1>11. CASE LinkEnds
  <2>1. /\ link # "down" /\ link' = "down" /\ away = 0 /\ away' = 0 /\ silent = 0
        /\ link = "up" => last = Shown
        /\ UNCHANGED <<last, mode, left, cycle, completed, seen, now>>
    BY <1>1, <1>11 DEF LinkEnds, Unpolled, vars, volatile, appliance
  <2>2. CASE link = "up"
    <3>1. seen \notin DOMAIN completed
      BY <1>2, <1>4, <2>1, <2>2 DEF OverShows
    <3>2. last.remaining_s = 60 * left
      BY <1>2, <2>1, <2>2 DEF ShownFits
    <3> QED
      BY <1>1, <2>1, <3>1, <3>2
  <2>3. CASE link = "silent"
    BY <1>4, <2>1, <2>3
  <2> QED
    BY <1>1, <2>1, <2>2, <2>3
<1>12. CASE Told \/ UNCHANGED wvars
  <2>1. UNCHANGED <<last, mode, left, cycle, completed, seen, link, silent, away, now>>
    BY <1>12 DEF Told, Dispatch, appliance, path, wvars, vars, volatile, story
  <2> QED
    BY <1>4, <2>1
<1>13. CASE Dies
  BY <1>13 DEF Dies, Crash
<1>14. CASE Begins
  BY <1>14 DEF Begins, Restart, Base, IInv
<1> QED
  BY <1>5, <1>6, <1>7, <1>8, <1>9, <1>10, <1>11, <1>12, <1>13, <1>14 DEF WNext

\* What was seen going on and has ended is always long enough in coming.
LEMMA OverdueHolds == ASSUME Watching PROVE WSpec => [](Base /\ Overdue)
<1>1. WInit => Base /\ Overdue
  <2>1. WInit => Overdue
    BY DEF WInit, Init, Overdue
  <2> QED
    BY <2>1, InitBase
<1>2. Base /\ Overdue /\ [WNext]_wvars => (Base /\ Overdue)'
  BY StepBase, StepOverdue
<1> QED
  BY <1>1, <1>2, PTL DEF WSpec

\* Only an evaluation detects anything when there is nothing left to tell.
LEMMA OnlyJudgesDetect ==
    ASSUME Watching, Base, [WNext]_wvars, outbox = <<>>, Detected' # {}
    PROVE  \/ Sample /\ Judge(Null)
           \/ /\ Seed
              /\ \E skew \in Skews : Judge(IF 60 * away + skew < 0 THEN 0 ELSE 60 * away + skew)
<1>1. outbox' # <<>>
  BY DetectedNext DEF DetectedFits
<1>2. ASSUME NEW minutes \in {CycleMinutes, CycleMinutes + DelayMinutes}, NEW doorOpen \in BOOLEAN,
             Press(minutes, doorOpen)
      PROVE  FALSE
  BY <1>1, <1>2 DEF Press, vars, volatile
<1>3. CASE Pause \/ Continue \/ Cancel \/ Unload
  BY <1>1, <1>3 DEF Pause, Continue, Cancel, Unload, vars, volatile
<1>4. CASE Minute
  BY <1>1, <1>4 DEF Minute, Tick, volatile
<1>5. CASE LinkDies \/ LinkHeals \/ LinkEnds \/ UNCHANGED wvars
  BY <1>1, <1>5 DEF LinkDies, LinkHeals, LinkEnds, wvars, vars, volatile
<1>6. CASE Told \/ Dies \/ Begins
  BY <1>1, <1>6 DEF Told, Dies, Begins, Crash, Restart
<1> QED
  BY <1>2, <1>3, <1>4, <1>5, <1>6 DEF WNext, Sample, Seed

\* A cycle that ran to its end is told as cancelled only after a silent link, or if it is
\* seen again before the seconds that outage_s can miss have passed since its end.
THEOREM CompletionIsNotCancelledHolds == ASSUME Watching PROVE WSpec => CompletionIsNotCancelled
<1>1. ASSUME Base, Overdue, [WNext]_wvars, outbox = <<>>, "cycle_cancelled" \in Detected'
      PROVE  seen \in DOMAIN completed => silent > 0 \/ now - completed[seen] < Uncounted
  <2> SUFFICES ASSUME seen \in DOMAIN completed, silent = 0
               PROVE  now - completed[seen] < Uncounted
    BY <1>1 DEF Base
  <2>0. PICK skew : /\ skew \in Skews \/ (link = "up" /\ Judge(Null))
                    /\ \/ link = "up" /\ Judge(Null)
                       \/ /\ link = "down"
                          /\ Judge(IF 60 * away + skew < 0 THEN 0 ELSE 60 * away + skew)
    BY <1>1, OnlyJudgesDetect DEF Sample, Seed, Watched
  <2> DEFINE outage == IF link = "up" THEN Null
                       ELSE IF 60 * away + skew < 0 THEN 0 ELSE 60 * away + skew
  <2>1. Judge(outage)
    BY <2>0
  <2> DEFINE o == CycleOutcome(last, Shown, tracker, outage)
  <2>2. ShownFits /\ last # Null /\ o = "cancelled"
    <3>1. /\ ShownFits
          /\ \/ Detected' = {}
             \/ last # Null /\ \E ev : Detected' = {ev.kind} /\ OutcomeEv(o, ev, tracker, now)
      BY <1>1, <2>1, Judged
    <3> HIDE DEF o
    <3>2. PICK ev : Detected' = {ev.kind} /\ OutcomeEv(o, ev, tracker, now)
      BY <1>1, <3>1
    <3>3. ev.kind = "cycle_cancelled"
      BY <1>1, <3>2
    <3> QED
      BY <1>1, <3>1, <3>2, <3>3 DEF OutcomeEv
  <2>3. ~Over(last) /\ ~Finished(Shown) /\ ~OutageCovered(last, outage)
    BY <2>2 DEF CycleOutcome, EndOutcome, Over, InCycle, Running, Paused, RUNNING_STATES, PAUSED_STATES
  <2>4. mode # "end"
    BY <2>2, <2>3, OverViews DEF ShownFits
  <2>5. last.remaining_s \in Nat /\ last.remaining_s # Null
    BY <1>1, <2>2, <2>3, OverViews DEF Base
  <2>6. link = "down"
    BY <1>1, <2>0, <2>2, <2>3, <2>4 DEF Overdue
  <2>7. last.remaining_s + (now - completed[seen]) <= 60 * away
    BY <1>1, <2>2, <2>3, <2>6 DEF Overdue
  <2>8. skew \in Int /\ skew >= -84 /\ away \in Nat /\ now \in Nat /\ completed[seen] \in Nat
    <3>1. skew \in (1 - Uncounted)..59
      BY <2>0, <2>6, WatchAssumption
    <3> QED
      BY <1>1, <3>1 DEF Uncounted, WORKER_JOIN_TIMEOUT_S, SEED_TIMEOUT_S, Base, IInv, TypeOK, Machine
  <2>9. outage \in Nat /\ outage # Null /\ outage >= 60 * away - 84
    BY <2>6, <2>8, NullAssumption
  <2>10. last.remaining_s > outage
    BY <2>3, <2>5, <2>9 DEF OutageCovered
  <2> HIDE DEF outage
  <2> QED
    BY <2>5, <2>7, <2>8, <2>9, <2>10 DEF Uncounted, WORKER_JOIN_TIMEOUT_S, SEED_TIMEOUT_S
<1>2. Base /\ Overdue /\ [WNext]_wvars
         => [outbox = <<>> /\ "cycle_cancelled" \in Detected' /\ seen \in DOMAIN completed
                => silent > 0 \/ now - completed[seen] < Uncounted]_wvars
  BY <1>1
<1> QED
  BY <1>2, OverdueHolds, PTL DEF WSpec, CompletionIsNotCancelled

-----------------------------------------------------------------------------
\* A tracker that has a start time has that of the drum that turns, or none turns.
TimesIt(t) == t.started_at \in {Null, drum} \/ mode = "ready"

\* While the boundaries of the cycles are seen as they happen, the start times in memory
\* and on disk are those of the drum; and all times are whole minutes.
Timing ==
    /\ timed => TimesIt(tracker) /\ (disk # Null => TimesIt(disk))
    /\ saveFailed = FALSE
    /\ now % 60 = 0 /\ (drum # Null => drum % 60 = 0)

\* A clock that goes by minutes shows whole minutes.
LEMMA WholeMinutes ==
    ASSUME NEW a \in Nat, NEW b \in Nat, a % 60 = 0, b % 60 = 0, b <= a
    PROVE  FmtDuration(a - b) = a - b /\ (a + 60) % 60 = 0
BY DEF FmtDuration

\* An evaluation keeps the start times those of the drum.
LEMMA JudgeKeepsTiming ==
    ASSUME Watching, ~StoreMayFail, Base, Timing, NEW outage, Judge(outage)
    PROVE  Timing'
<1> DEFINE o == CycleOutcome(last, Shown, tracker, outage)
           u == DetectTracker(last, Shown, tracker, now, outage)
<1>1. /\ IInv' /\ alive' /\ last' = Shown /\ Shown # Null /\ tracker' = u /\ now' = now
      /\ UNCHANGED appliance
      /\ "cycle_started" \in Detected' <=> last # Null /\ o = "started"
  <2>1. /\ IInv' /\ alive' /\ last' = Shown /\ Shown # Null /\ tracker' = u /\ now' = now
        /\ UNCHANGED appliance
        /\ \/ last = Null /\ Detected' = {}
           \/ last # Null /\ Detected' = {} /\ o \in Quiet
           \/ last # Null /\ \E ev : Detected' = {ev.kind} /\ OutcomeEv(o, ev, tracker, now)
    BY Judged
  <2> HIDE DEF o, u
  <2>2. CASE Detected' = {}
    BY <2>1, <2>2 DEF Quiet, OutcomeEv
  <2>3. ASSUME NEW ev, last # Null, Detected' = {ev.kind}, OutcomeEv(o, ev, tracker, now)
        PROVE  "cycle_started" \in Detected' <=> last # Null /\ o = "started"
    BY <2>3 DEF OutcomeEv
  <2> QED
    BY <2>1, <2>2, <2>3 DEF Quiet
<1>2. saveFailed' = FALSE
  <2>1. PersistTracker(tracker')
    BY DEF Judge, Evaluate
  <2> QED
    BY <2>1 DEF PersistTracker, Timing
<1>3. disk' = tracker'
  BY <1>1, <1>2 DEF IInv, DurableTracker
<1>4. timed' => u.started_at \in {Null, drum} \/ mode = "ready"
  <2>1. timed' = IF "cycle_started" \in Detected' THEN Watched /\ drum = now ELSE timed
    BY DEF Judge
  <2>2. \/ u.started_at \in {tracker.started_at, Null}
        \/ last # Null /\ o = "started" /\ u.started_at = now
    BY DetectTrackerStart
  <2>3. last # Null /\ o = "started" => u.started_at = now
    BY Zenon DEF DetectTracker, NextTracker, CycleEnds, Begin
  <2> HIDE DEF o, u
  <2>4. CASE "cycle_started" \in Detected'
    BY <1>1, <2>1, <2>3, <2>4
  <2>5. CASE "cycle_started" \notin Detected'
    BY <1>1, <2>1, <2>2, <2>5 DEF Timing, TimesIt
  <2> QED
    BY <2>4, <2>5
<1> QED
  BY <1>1, <1>2, <1>3, <1>4 DEF Timing, TimesIt, appliance

\* Every step does.
LEMMA StepTiming == Watching /\ ~StoreMayFail /\ Base /\ Timing /\ [WNext]_wvars => Timing'
<1> SUFFICES ASSUME Watching, ~StoreMayFail, Base, Timing, [WNext]_wvars PROVE Timing'
  OBVIOUS
<1>0. Null \notin Nat /\ now \in Nat /\ Fresh.started_at = Null
  BY NullAssumption DEF Base, IInv, TypeOK, Fresh
<1>1. ASSUME NEW minutes \in {CycleMinutes, CycleMinutes + DelayMinutes}, NEW doorOpen \in BOOLEAN,
             Press(minutes, doorOpen)
      PROVE  Timing'
  <2>1. /\ tracker' = tracker /\ disk' = disk /\ saveFailed' = saveFailed /\ now' = now
        /\ drum' \in {Null, now} /\ mode = "ready"
        /\ link = "up" => last = Shown
        /\ timed' => link = "up"
    BY <1>1 DEF Press, Acts, Watched, vars, volatile
  <2>2. CASE link = "up"
    <3>1. last # Null /\ alive /\ RealView(last) /\ IdleView(last)
      BY <2>1, <2>2, MachineShows DEF Base, ShownFits
    <3>2. tracker = Fresh
      <4>1. ~Finished(last) /\ ~InCycle(last)
        BY <3>1 DEF IdleView, Finished, InCycle, Running, Paused, RUNNING_STATES, PAUSED_STATES, FINISHED_STATES
      <4> QED
        BY <3>1, <4>1 DEF Base, IInv, Clean
    <3>3. disk = Fresh
      BY <3>1, <3>2 DEF Base, IInv, DurableTracker, Timing
    <3> QED
      BY <1>0, <2>1, <3>2, <3>3 DEF Timing, TimesIt
  <2>3. CASE link # "up"
    BY <1>0, <2>1, <2>3 DEF Timing
  <2> QED
    BY <2>2, <2>3
<1>2. ASSUME tracker' = tracker, disk' = disk, saveFailed' = saveFailed, now' % 60 = 0, timed' => timed,
             mode # "ready" \/ mode' = "ready",
             \/ mode' = "ready" /\ drum' \in {Null, drum}
             \/ drum' = drum
             \/ drum = Null /\ drum' % 60 = 0
      PROVE  Timing'
  BY <1>2 DEF Timing, TimesIt
<1>3. CASE Pause \/ Continue \/ Cancel \/ Unload
  <2>1. UNCHANGED vars /\ (timed' => timed) /\ (mode # "ready" \/ mode' = "ready")
    BY <1>3 DEF Pause, Continue, Cancel, Unload, Acts
  <2>2. \/ mode' = "ready" /\ drum' = Null
        \/ drum' = drum
        \/ drum = Null /\ drum' = now
    BY <1>3 DEF Pause, Continue, Cancel, Unload
  <2> QED
    BY <1>2, <2>1, <2>2 DEF vars, volatile, Timing
<1>4. CASE Minute
  <2>1. UNCHANGED <<tracker, disk, saveFailed>>
    BY <1>4 DEF Minute, Tick, volatile
  <2>2. now' = now + 60 /\ now' % 60 = 0
    BY <1>0, <1>4, MinuteKeepsMachine, WholeMinutes DEF Timing
  <2>3. CASE mode # "run"
    <3>1. UNCHANGED <<appliance, doubt, timed>>
      BY <1>4, <2>3, Zenon DEF Minute
    <3> QED
      BY <1>2, <2>1, <2>2, <3>1 DEF appliance
  <2>4. CASE mode = "run"
    <3>1. /\ drum' = (IF drum = Null /\ left' = CycleMinutes THEN now' ELSE drum)
          /\ timed' => timed
      BY <1>4, <2>4 DEF Minute
    <3> QED
      BY <1>2, <2>1, <2>2, <2>4, <3>1
  <2> QED
    BY <2>3, <2>4
<1>5. CASE Sample \/ Seed
  <2>1. PICK outage : Judge(outage)
    BY <1>5 DEF Sample, Seed
  <2> QED
    BY <2>1, JudgeKeepsTiming
<1>6. CASE LinkDies \/ LinkHeals \/ LinkEnds \/ Told \/ UNCHANGED wvars
  <2>1. UNCHANGED <<tracker, disk, saveFailed, now, timed, mode, drum>>
    BY <1>6 DEF LinkDies, LinkHeals, LinkEnds, Told, Dispatch, vars, volatile, appliance, story, wvars
  <2> QED
    BY <2>1 DEF Timing, TimesIt
<1>7. CASE Dies
  <2>1. UNCHANGED <<disk, saveFailed, now, timed, mode, drum>> /\ tracker' = Fresh
    BY <1>7 DEF Dies, Crash, appliance
  <2> QED
    BY <1>0, <2>1 DEF Timing, TimesIt
<1>8. CASE Begins
  <2>1. /\ UNCHANGED <<disk, saveFailed, now, timed, mode, drum>>
        /\ tracker' = IF disk = Null THEN Fresh ELSE disk
    BY <1>8 DEF Begins, Restart, appliance, story
  <2> QED
    BY <1>0, <2>1 DEF Timing, TimesIt
<1> QED
  BY <1>1, <1>3, <1>4, <1>5, <1>6, <1>7, <1>8 DEF WNext

\* A finished event that states a duration states that of the drum.
LEMMA FinishedIsTimed ==
    ASSUME Watching, Base, Timing, timed, NEW outage, Judge(outage), NEW ev,
           outbox' = <<<<ev>>>>, ev.kind = "cycle_finished", ev.duration # Null
    PROVE  ev.duration = now - drum
<1> DEFINE o == CycleOutcome(last, Shown, tracker, outage)
<1>1. ShownFits /\ last # Null /\ OutcomeEv(o, ev, tracker, now)
  <2>1. /\ ShownFits
        /\ \/ outbox' = <<>>
           \/ last # Null /\ \E x : outbox' = <<<<x>>>> /\ OutcomeEv(o, x, tracker, now)
    BY Judged
  <2>2. \A x : <<<<x>>>> = <<<<ev>>>> => x = ev
    OBVIOUS
  <2>3. <<<<ev>>>> # <<>>
    OBVIOUS
  <2> HIDE DEF o
  <2> QED
    BY <2>1, <2>2, <2>3
<1>2. o = "finished" /\ ev = FinishedEv(tracker, now, FALSE)
  <2> HIDE DEF o
  <2> QED
    BY <1>1 DEF OutcomeEv
<1>3. /\ tracker.started_at # Null
      /\ ev.duration = FmtDuration(now - tracker.started_at)
  BY <1>2 DEF FinishedEv, Ev
<1>4. mode # "ready"
  <2> SUFFICES ASSUME mode = "ready" PROVE FALSE
    OBVIOUS
  <2>0. ~Over(last)
    <3>1. o \in Ending
      BY <1>2 DEF Ending
    <3> HIDE DEF o
    <3> QED
      BY <3>1, EndIsOver DEF o
  <2>1. last.remaining_s > 60 /\ last.remaining_s \in Nat
    BY <1>1, <2>0, OverViews DEF Base
  <2>2. ~Finished(Shown)
    BY <1>1, OverViews DEF ShownFits, IdleView, EndView, LastView
  <2>3. NearlyDone(last)
    BY <1>2, <2>2 DEF CycleOutcome, EndOutcome
  <2> QED
    BY <2>1, <2>3 DEF NearlyDone
<1>5. tracker.started_at = drum /\ drum # Null
  BY <1>3, <1>4 DEF Timing, TimesIt
<1>6. drum \in Nat /\ drum <= now /\ now \in Nat /\ drum % 60 = 0 /\ now % 60 = 0
  BY <1>5 DEF Base, Machine, IInv, TypeOK, Timing
<1> QED
  BY <1>3, <1>5, <1>6, WholeMinutes

\* The start times are always those of the drum.
LEMMA TimingHolds == ASSUME Watching, ~StoreMayFail PROVE WSpec => [](Base /\ Timing)
<1>1. WInit => Base /\ Timing
  <2>1. WInit => Timing
    BY DEF WInit, Init, Timing
  <2> QED
    BY <2>1, InitBase
<1>2. Base /\ Timing /\ [WNext]_wvars => (Base /\ Timing)'
  BY StepBase, StepTiming
<1> QED
  BY <1>1, <1>2, PTL DEF WSpec

\* A duration is the time since the drum of this cycle began to turn.
THEOREM DurationIsTrueHolds == ASSUME Watching, ~StoreMayFail PROVE WSpec => DurationIsTrue
<1> DEFINE A == \A b \in DOMAIN outbox' :
                   LET ev == outbox'[b][1]
                   IN outbox' # outbox /\ ev.kind = "cycle_finished" /\ ev.duration # Null /\ timed
                          => ev.duration = now - drum
<1>1. ASSUME Base, Timing, [WNext]_wvars PROVE A
  <2> SUFFICES ASSUME outbox' # outbox, outbox' # <<>>, NEW b \in DOMAIN outbox',
                      outbox'[b][1].kind = "cycle_finished", outbox'[b][1].duration # Null, timed
               PROVE  outbox'[b][1].duration = now - drum
    OBVIOUS
  <2>1. Base'
    BY <1>1, StepBase
  <2>2. PICK ev : outbox' = <<<<ev>>>>
    BY <2>1 DEF Base
  <2>3. outbox = <<>> /\ Detected' # {}
    <3>1. Detected' = {ev.kind}
      BY <2>2, DetectedNext DEF DetectedFits
    <3>2. CASE Sample \/ Seed
      <4>1. PICK outage : Judge(outage)
        BY <3>2 DEF Sample, Seed
      <4> QED
        BY <1>1, <3>1, <4>1, Judged
    <3>3. CASE ~(Sample \/ Seed)
      <4>1. outbox' \in {outbox, <<>>} \/ Told
        BY <1>1, <3>3 DEF WNext, Press, Pause, Continue, Cancel, Unload, Minute, Tick, LinkDies, LinkHeals,
           LinkEnds, Dies, Crash, Begins, Restart, wvars, vars, volatile
      <4>2. Told => outbox' = <<>>
        <5> SUFFICES ASSUME Told PROVE outbox' = <<>>
          OBVIOUS
        <5>1. outbox # <<>> /\ Dispatch(1)
          BY DEF Told
        <5>2. PICK x : outbox = <<<<x>>>>
          BY <1>1, <5>1 DEF Base
        <5>3. outbox' = RemoveAt(<<<<x>>>>, 1)
          BY <5>1, <5>2 DEF Dispatch
        <5>4. RemoveAt(<<<<x>>>>, 1) = <<>>
          BY DEF RemoveAt
        <5> QED
          BY <5>3, <5>4
      <4> QED
        BY <4>1, <4>2
    <3> QED
      BY <3>2, <3>3
  <2>4. PICK outage : Judge(outage)
    BY <1>1, <2>3, OnlyJudgesDetect
  <2>5. b = 1 /\ outbox'[b][1] = ev
    BY <2>2
  <2> QED
    BY <1>1, <2>2, <2>4, <2>5, FinishedIsTimed
<1>2. Base /\ Timing /\ [WNext]_wvars => [A]_wvars
  BY <1>1
<1> QED
  BY <1>2, TimingHolds, PTL DEF WSpec, DurationIsTrue

-----------------------------------------------------------------------------
\* What the next view can be when the appliance does one thing.
Follows(v, w) ==
    \/ IdleView(v) /\ (ArmedView(w) \/ TurningView(w) \/ HeldView(w))
    \/ ArmedView(v) /\ (ArmedView(w) \/ TurningView(w) \/ HeldView(w) \/ IdleView(w))
    \/ HeldView(v) /\ (ArmedView(w) \/ TurningView(w) \/ IdleView(w))
    \/ TurningView(v) /\ (TurningView(w) \/ LastView(w) \/ PausedView(w) \/ IdleView(w))
    \/ PausedView(v) /\ (TurningView(w) \/ IdleView(w))
    \/ LastView(v) /\ (EndView(w) \/ IdleView(w))
    \/ EndView(v) /\ IdleView(w)

\* What a reader holds of an appliance that does nothing.
Rested == {"idle", "done"}

\* The tracker t and what the reader was told, h, are right for the view v.
Fits(v, t, h) ==
    \/ IdleView(v) /\ t = Fresh /\ h \in Rested
    \/ EndView(v) /\ t = Fresh /\ h = "done"
    \/ LastView(v) /\ t = Fresh /\ h = "done"
    \/ ArmedView(v) /\ t.scheduled /\ h = "armed"
    \/ TurningView(v) /\ ~t.scheduled /\ Active(t) /\ h = "running"
    \/ PausedView(v) /\ ~t.scheduled /\ Active(t) /\ h = "paused"
    \/ HeldView(v) /\ t.scheduled /\ h = "armed"
    \/ HeldView(v) /\ t = Fresh /\ h \in Rested

\* The outcomes that leave the tracker as it is.
Staying == {"none", "still waiting", "paused", "resumed"}

\* The trackers detect() leaves.
LEMMA TrackerOutcomes ==
    ASSUME NEW o, NEW w, NEW t, NEW at \in Nat
    PROVE  /\ o = "scheduled" => NextTracker(o, w, t, at).scheduled
           /\ o = "started" => /\ ~NextTracker(o, w, t, at).scheduled
                               /\ Active(NextTracker(o, w, t, at))
           /\ o \in CycleEnds => NextTracker(o, w, t, at) = Fresh
           /\ o \in Staying => NextTracker(o, w, t, at) = t
<1>1. /\ [Begin(w, Null) EXCEPT !.scheduled = TRUE].scheduled = TRUE
      /\ Begin(w, at).scheduled = FALSE /\ Begin(w, at).started_at = at
  BY DEF Begin
<1>2. at # Null
  BY NullAssumption
<1>3. CASE o = "scheduled"
  BY <1>1, <1>3, Zenon DEF NextTracker, CycleEnds, Staying
<1>4. CASE o = "started"
  <2>1. NextTracker(o, w, t, at) = Begin(w, at)
    BY <1>4, Zenon DEF NextTracker, CycleEnds
  <2> QED
    BY <1>1, <1>2, <1>4, <2>1 DEF Active, CycleEnds, Staying
<1>5. CASE o \notin {"scheduled", "started"}
  BY <1>5 DEF NextTracker, CycleEnds, Staying
<1> QED
  BY <1>3, <1>4, <1>5

\* What detect() says of one thing the appliance did, or of none, when it was right
\* before: it is right after, and what it says is in turn.
LEMMA OneTurn ==
    ASSUME NEW v, RealView(v), NEW w, RealView(w), NEW t, NEW at \in Nat, NEW outage, NEW h,
           Fits(v, t, h), v = w \/ (outage = Null /\ Follows(v, w))
    PROVE  LET o == CycleOutcome(v, w, t, outage)
               u == NextTracker(o, w, t, at)
           IN \/ o \in Quiet /\ Fits(w, u, h)
              \/ o = "scheduled" /\ Fits(w, u, "armed") /\ h \in Rested
              \/ o = "started" /\ Fits(w, u, "running") /\ h \in Rested \cup {"armed"}
              \/ o = "paused" /\ Fits(w, u, "paused") /\ h = "running"
              \/ o = "resumed" /\ Fits(w, u, "running") /\ h = "paused"
              \/ o = "finished" /\ Fits(w, u, "done") /\ h = "running"
              \/ o = "cancelled" /\ Fits(w, u, "idle")
                    /\ h \in Rested \cup {"armed", "running", "paused"}
<1> DEFINE o == CycleOutcome(v, w, t, outage)
           u == NextTracker(o, w, t, at)
           Goal == \/ o \in Quiet /\ Fits(w, u, h)
                   \/ o = "scheduled" /\ Fits(w, u, "armed") /\ h \in Rested
                   \/ o = "started" /\ Fits(w, u, "running") /\ h \in Rested \cup {"armed"}
                   \/ o = "paused" /\ Fits(w, u, "paused") /\ h = "running"
                   \/ o = "resumed" /\ Fits(w, u, "running") /\ h = "paused"
                   \/ o = "finished" /\ Fits(w, u, "done") /\ h = "running"
                   \/ o = "cancelled" /\ Fits(w, u, "idle")
                         /\ h \in Rested \cup {"armed", "running", "paused"}
<1> SUFFICES Goal
  OBVIOUS
<1>1. /\ o = "scheduled" => u.scheduled
      /\ o = "started" => ~u.scheduled /\ Active(u)
      /\ o \in CycleEnds => u = Fresh
      /\ o \in Staying => u = t
  <2> HIDE DEF o
  <2>1. at \in Nat
    OBVIOUS
  <2>2. o = "scheduled" => u.scheduled
    BY <2>1, TrackerOutcomes, Zenon
  <2>3. o = "started" => ~u.scheduled /\ Active(u)
    BY <2>1, TrackerOutcomes, Zenon
  <2>4. o \in CycleEnds => u = Fresh
    BY <2>1, TrackerOutcomes, Zenon
  <2>5. o \in Staying => u = t
    BY <2>1, TrackerOutcomes, Zenon
  <2> QED
    BY <2>2, <2>3, <2>4, <2>5
<1>2. Fresh.scheduled = FALSE /\ ~Active(Fresh)
  BY DEF Fresh, Active
<1>3. /\ Over(v) <=> IdleView(v) \/ EndView(v) \/ LastView(v)
      /\ Running(v) <=> ArmedView(v) \/ TurningView(v) \/ LastView(v)
      /\ Paused(v) <=> HeldView(v) \/ PausedView(v)
      /\ Finished(v) <=> EndView(v) \/ LastView(v)
      /\ DelayWaiting(v) <=> ArmedView(v)
      /\ ~Over(v) => ~NearlyDone(v)
  BY OverViews DEF NearlyDone
<1>4. /\ Running(w) <=> ArmedView(w) \/ TurningView(w) \/ LastView(w)
      /\ Paused(w) <=> HeldView(w) \/ PausedView(w)
      /\ Finished(w) <=> EndView(w) \/ LastView(w)
      /\ DelayWaiting(w) <=> ArmedView(w)
  BY OverViews
<1>5. outage = Null => ~OutageCovered(v, outage)
  BY DEF OutageCovered
<1>6. o = (IF ~Running(v) /\ Running(w)
             THEN IF DelayWaiting(w) THEN IF t.scheduled THEN "still waiting" ELSE "scheduled"
                  ELSE IF Paused(v) /\ Active(t) /\ ~t.scheduled THEN "resumed" ELSE "started"
           ELSE IF Running(v) /\ Running(w) /\ t.scheduled /\ ~DelayWaiting(w) THEN "started"
           ELSE IF Running(v) /\ Paused(w) THEN IF t.scheduled THEN "still waiting" ELSE "paused"
           ELSE EndOutcome(v, w, outage))
  BY Zenon DEF CycleOutcome
<1>7. EndOutcome(v, w, outage) =
        (IF Finished(v) THEN IF ~InCycle(w) /\ ~Finished(w) THEN "unloaded" ELSE "none"
         ELSE IF InCycle(v) /\ Finished(w) THEN "finished"
         ELSE IF InCycle(v) /\ ~InCycle(w)
           THEN IF OutageCovered(v, outage) THEN "finished offline"
                ELSE IF NearlyDone(v) THEN "finished" ELSE "cancelled"
         ELSE "none")
  BY Zenon DEF EndOutcome
<1>8. /\ InCycle(v) <=> Running(v) \/ Paused(v)
      /\ InCycle(w) <=> Running(w) \/ Paused(w)
  BY DEF InCycle
<1>9. ASSUME NEW x
      PROVE  /\ IdleView(x) => ~(EndView(x) \/ LastView(x) \/ ArmedView(x) \/ TurningView(x) \/ HeldView(x) \/ PausedView(x))
             /\ EndView(x) => ~(IdleView(x) \/ LastView(x) \/ ArmedView(x) \/ TurningView(x) \/ HeldView(x) \/ PausedView(x))
             /\ LastView(x) => ~(ArmedView(x) \/ TurningView(x) \/ HeldView(x) \/ PausedView(x))
             /\ ArmedView(x) => ~(TurningView(x) \/ HeldView(x) \/ PausedView(x))
             /\ TurningView(x) => ~(HeldView(x) \/ PausedView(x))
             /\ HeldView(x) => ~PausedView(x)
  BY DEF IdleView, EndView, LastView, ArmedView, TurningView, HeldView, PausedView
<1>10. v = w \/ (outage = Null /\ Follows(v, w))
  OBVIOUS
<1> HIDE DEF o, u
<1> USE <1>1, <1>2, <1>3, <1>4, <1>5, <1>6, <1>7, <1>8, <1>9
<1>11. CASE IdleView(v) /\ t = Fresh /\ h \in Rested
  BY <1>10, <1>11 DEF Follows, Fits, Quiet, CycleEnds, Staying
<1>12. CASE EndView(v) /\ t = Fresh /\ h = "done"
  BY <1>10, <1>12 DEF Follows, Fits, Quiet, CycleEnds, Staying, Rested
<1>13. CASE LastView(v) /\ t = Fresh /\ h = "done"
  BY <1>10, <1>13 DEF Follows, Fits, Quiet, CycleEnds, Staying, Rested
<1>14. CASE ArmedView(v) /\ t.scheduled /\ h = "armed"
  BY <1>10, <1>14 DEF Follows, Fits, Quiet, CycleEnds, Staying, Rested, Over
<1>15. CASE TurningView(v) /\ ~t.scheduled /\ Active(t) /\ h = "running"
  BY <1>10, <1>15 DEF Follows, Fits, Quiet, CycleEnds, Staying, Rested, Over
<1>16. CASE PausedView(v) /\ ~t.scheduled /\ Active(t) /\ h = "paused"
  BY <1>10, <1>16 DEF Follows, Fits, Quiet, CycleEnds, Staying, Rested, Over
<1>17. CASE HeldView(v) /\ t.scheduled /\ h = "armed"
  BY <1>10, <1>17 DEF Follows, Fits, Quiet, CycleEnds, Staying, Rested, Over
<1>18. CASE HeldView(v) /\ t = Fresh /\ h \in Rested
  BY <1>10, <1>18 DEF Follows, Fits, Quiet, CycleEnds, Staying, Rested, Over
<1> QED
  BY <1>11, <1>12, <1>13, <1>14, <1>15, <1>16, <1>17, <1>18 DEF Fits

\* What each notice says, and when it is in turn.
LEMMA Sayings ==
    /\ DOMAIN Notices!Says = {"cycle_scheduled", "cycle_started", "cycle_paused", "cycle_resumed",
                              "cycle_finished", "cycle_cancelled"}
    /\ Notices!Says["cycle_scheduled"] = "armed" /\ Notices!Says["cycle_started"] = "running"
    /\ Notices!Says["cycle_paused"] = "paused" /\ Notices!Says["cycle_resumed"] = "running"
    /\ Notices!Says["cycle_finished"] = "done" /\ Notices!Says["cycle_cancelled"] = "idle"
    /\ Notices!InTurn["cycle_scheduled"] = Rested
    /\ Notices!InTurn["cycle_started"] = Rested \cup {"armed"}
    /\ Notices!InTurn["cycle_paused"] = {"running"}
    /\ Notices!InTurn["cycle_resumed"] = {"paused"}
    /\ Notices!InTurn["cycle_finished"] = {"running"}
    /\ Notices!InTurn["cycle_cancelled"] = Rested \cup {"armed", "running", "paused"}
BY DEF Notices!Says, Notices!InTurn, Rested

\* One thing the appliance does, seen from outside.
LEMMA ActIsFollowed ==
    ASSUME Watching, Base,
           \/ \E minutes \in {CycleMinutes, CycleMinutes + DelayMinutes}, doorOpen \in BOOLEAN :
                 Press(minutes, doorOpen)
           \/ Pause \/ Continue \/ Cancel \/ Unload \/ Minute
    PROVE  Shown' = Shown \/ Follows(Shown, Shown')
<1>0. /\ ShownFits /\ CycleMinutes \in Nat /\ CycleMinutes > 1 /\ DelayMinutes \in Nat /\ left \in Nat
      /\ now \in Nat /\ Null \notin Nat
      /\ mode = "run" => left > 0 /\ (drum = Null <=> left > CycleMinutes)
      /\ mode = "pause" => left > 1 /\ (drum # Null => left <= CycleMinutes)
      /\ mode = "pause" /\ drum = Null => left >= CycleMinutes
  BY MachineShows, WatchAssumption, NullAssumption DEF Base, Machine, IInv, TypeOK
<1>1. ASSUME NEW minutes \in {CycleMinutes, CycleMinutes + DelayMinutes}, NEW doorOpen \in BOOLEAN,
             Press(minutes, doorOpen)
      PROVE  Follows(Shown, Shown')
  <2>1. ShownFits'
    BY <1>1, PressKeepsMachine, MachineShowsNext
  <2>2. /\ mode = "ready" /\ mode' = (IF doorOpen THEN "pause" ELSE "run") /\ left' = minutes
        /\ drum' = (IF doorOpen \/ minutes > CycleMinutes THEN Null ELSE now)
    BY <1>1 DEF Press
  <2>3. IdleView(Shown) /\ (ArmedView(Shown') \/ TurningView(Shown') \/ HeldView(Shown'))
    BY <1>0, <2>1, <2>2 DEF ShownFits
  <2> QED
    BY <2>3 DEF Follows
<1>2. ASSUME Pause \/ Continue \/ Cancel \/ Unload PROVE Follows(Shown, Shown')
  <2>1. ShownFits'
    BY <1>2, UseKeepsMachine, MachineShowsNext
  <2>2. CASE Pause
    <3>1. mode = "run" /\ left > 1 /\ mode' = "pause" /\ drum' = drum
      BY <2>2 DEF Pause
    <3>2. \/ ArmedView(Shown) /\ HeldView(Shown')
          \/ TurningView(Shown) /\ PausedView(Shown')
      BY <1>0, <2>1, <3>1 DEF ShownFits
    <3> QED
      BY <3>2 DEF Follows
  <2>3. CASE Continue
    <3>1. /\ mode = "pause" /\ mode' = "run" /\ left' = left
          /\ drum' = drum \/ drum' = now
          /\ drum # Null => drum' = drum
      BY <2>3 DEF Continue
    <3>2. \/ HeldView(Shown) /\ (ArmedView(Shown') \/ TurningView(Shown'))
          \/ PausedView(Shown) /\ TurningView(Shown')
      BY <1>0, <2>1, <3>1 DEF ShownFits
    <3> QED
      BY <3>2 DEF Follows
  <2>4. CASE Cancel
    <3>1. mode \in {"run", "pause"} /\ mode' = "ready"
      BY <2>4 DEF Cancel
    <3>2. /\ ArmedView(Shown) \/ TurningView(Shown) \/ LastView(Shown) \/ HeldView(Shown) \/ PausedView(Shown)
          /\ IdleView(Shown')
      BY <1>0, <2>1, <3>1 DEF ShownFits
    <3> QED
      BY <3>2 DEF Follows
  <2>5. CASE Unload
    <3>1. mode = "end" /\ mode' = "ready"
      BY <2>5 DEF Unload
    <3>2. EndView(Shown) /\ IdleView(Shown')
      BY <1>0, <2>1, <3>1 DEF ShownFits
    <3> QED
      BY <3>2 DEF Follows
  <2> QED
    BY <1>2, <2>2, <2>3, <2>4, <2>5
<1>3. CASE Minute /\ mode # "run"
  <2>1. UNCHANGED appliance
    BY <1>3, Zenon DEF Minute
  <2> QED
    BY <2>1 DEF appliance, Shown, Waits
<1>4. CASE Minute /\ mode = "run"
  <2>1. ShownFits'
    BY <1>4, MinuteKeepsMachine, MachineShowsNext
  <2>2. /\ left' = left - 1 /\ mode' = (IF left' = 0 THEN "end" ELSE "run")
        /\ drum' = (IF drum = Null /\ left' = CycleMinutes THEN now' ELSE drum)
        /\ now' = now + 60
    BY <1>4, MinuteKeepsMachine DEF Minute
  <2>3. CASE drum = Null
    <3>1. ArmedView(Shown) /\ (ArmedView(Shown') \/ TurningView(Shown'))
      BY <1>0, <1>4, <2>1, <2>2, <2>3 DEF ShownFits
    <3> QED
      BY <3>1 DEF Follows
  <2>4. CASE drum # Null /\ left > 1
    <3>1. TurningView(Shown) /\ (TurningView(Shown') \/ LastView(Shown'))
      BY <1>0, <1>4, <2>1, <2>2, <2>4 DEF ShownFits
    <3> QED
      BY <3>1 DEF Follows
  <2>5. CASE drum # Null /\ left <= 1
    <3>1. LastView(Shown) /\ EndView(Shown')
      BY <1>0, <1>4, <2>1, <2>2, <2>5 DEF ShownFits
    <3> QED
      BY <3>1 DEF Follows
  <2> QED
    BY <1>0, <2>3, <2>4, <2>5
<1> QED
  BY <1>1, <1>2, <1>3, <1>4

\* What is right for a machine is what its view makes of it.
LEMMA TruthOfViews ==
    ASSUME Base
    PROVE  /\ IdleView(Shown) => Truth = Rested
           /\ EndView(Shown) \/ LastView(Shown) => Truth = {"done"}
           /\ ArmedView(Shown) => Truth = {"armed"}
           /\ TurningView(Shown) => Truth = {"running"}
           /\ PausedView(Shown) => Truth = {"paused"}
           /\ HeldView(Shown) => Truth = Rested \cup {"armed"}
<1>1. /\ ShownFits
      /\ Waits <=> drum = Null /\ left > CycleMinutes
      /\ mode = "run" => (drum = Null <=> left > CycleMinutes)
      /\ left \in Nat /\ CycleMinutes \in Nat
  BY MachineShows, WatchAssumption DEF Base, Machine, Waits
<1>2. Truth = (IF mode = "end" THEN {"done"}
               ELSE IF mode = "ready" THEN {"idle", "done"}
               ELSE IF Waits THEN IF mode = "run" THEN {"armed"} ELSE {"armed", "idle", "done"}
               ELSE IF drum = Null THEN {"armed", "idle", "done"}
               ELSE IF mode = "pause" THEN {"paused"}
               ELSE IF left <= 1 THEN {"done"} ELSE {"running"})
  BY DEF Truth
<1>3. IdleView(Shown) => Truth = Rested
  BY <1>1, <1>2 DEF ShownFits, Rested
<1>4. EndView(Shown) \/ LastView(Shown) => Truth = {"done"}
  BY <1>1, <1>2 DEF ShownFits
<1>5. ArmedView(Shown) => Truth = {"armed"}
  BY <1>1, <1>2 DEF ShownFits
<1>6. TurningView(Shown) => Truth = {"running"}
  BY <1>1, <1>2 DEF ShownFits
<1>7. PausedView(Shown) => Truth = {"paused"}
  BY <1>1, <1>2 DEF ShownFits
<1>8. HeldView(Shown) => Truth = Rested \cup {"armed"}
  BY <1>1, <1>2 DEF ShownFits, Rested
<1> QED
  BY <1>3, <1>4, <1>5, <1>6, <1>7, <1>8

\* The view and the tracker an event that begins or ends a cycle leaves behind it.
Result(ev) ==
    /\ ev.kind = "cycle_scheduled" => ArmedView(last) /\ tracker.scheduled
    /\ ev.kind = "cycle_started" => /\ TurningView(last) \/ LastView(last)
                                    /\ ~tracker.scheduled /\ Active(tracker)
    /\ ev.kind = "cycle_finished" => Over(last) /\ tracker = Fresh
    /\ ev.kind = "cycle_cancelled" => IdleView(last) /\ tracker = Fresh

\* What the appliance shows when a cycle is seen to begin or to end.
LEMMA OutcomeViews ==
    ASSUME NEW v, RealView(v), NEW w, RealView(w), NEW t, NEW outage
    PROVE  LET o == CycleOutcome(v, w, t, outage)
           IN /\ o = "scheduled" => ArmedView(w)
              /\ o = "started" => TurningView(w) \/ LastView(w)
              /\ o \in {"finished", "finished offline"} => Over(w)
              /\ o = "cancelled" => IdleView(w)
<1> DEFINE o == CycleOutcome(v, w, t, outage)
<1>1. /\ Over(w) <=> IdleView(w) \/ EndView(w) \/ LastView(w)
      /\ Running(w) <=> ArmedView(w) \/ TurningView(w) \/ LastView(w)
      /\ Finished(w) <=> EndView(w) \/ LastView(w)
      /\ DelayWaiting(w) <=> ArmedView(w)
  BY OverViews
<1>2. o = "scheduled" => DelayWaiting(w)
  BY DEF CycleOutcome, EndOutcome
<1>3. o = "started" => Running(w) /\ ~DelayWaiting(w)
  BY DEF CycleOutcome, EndOutcome
<1>4. o \in {"finished", "finished offline", "cancelled"} => Over(w)
  <2>1. o \in {"finished", "finished offline", "cancelled"} => o \in Ending
    BY DEF Ending
  <2> HIDE DEF o
  <2> QED
    BY <2>1, EndIsOver DEF o
<1>5. o = "cancelled" => ~Finished(w)
  BY DEF CycleOutcome, EndOutcome
<1> HIDE DEF o
<1>6. o = "scheduled" => ArmedView(w)
  BY <1>1, <1>2
<1>7. o = "started" => TurningView(w) \/ LastView(w)
  BY <1>1, <1>3
<1>8. o = "cancelled" => IdleView(w)
  BY <1>1, <1>4, <1>5
<1> QED
  BY <1>4, <1>6, <1>7, <1>8 DEF o

\* The event is in turn, and with it the reader is told what is right for the last view.
InTurnNow(ev) ==
    IF ev.kind \in DOMAIN Notices!Says
    THEN heard \in Notices!InTurn[ev.kind] /\ Fits(last, tracker, Notices!Says[ev.kind])
    ELSE Fits(last, tracker, heard)

\* As long as there is no doubt, the last view is the present one, or was until the
\* appliance did one thing more, and the tracker and the reader are right about it.
Story ==
    /\ alive \/ doubt
    /\ \A ev : outbox = <<<<ev>>>> => Result(ev)
    /\ ~doubt =>
          /\ last = Null => mode = "ready" /\ heard = "idle" /\ tracker = Fresh
          /\ last # Null => last = Shown \/ (link # "down" /\ Follows(last, Shown))
          /\ last # Null /\ outbox = <<>> => Fits(last, tracker, heard)
          /\ \A ev : outbox = <<<<ev>>>> => InTurnNow(ev)

\* What the appliance does unseen leaves the bridge in doubt.
LEMMA ActKeepsStory ==
    ASSUME Watching, Base, Story,
           \/ \E minutes \in {CycleMinutes, CycleMinutes + DelayMinutes}, doorOpen \in BOOLEAN :
                 Press(minutes, doorOpen)
           \/ Pause \/ Continue \/ Cancel \/ Unload \/ Minute
    PROVE  Story'
<1>1. /\ UNCHANGED <<alive, last, tracker, outbox, heard, link>>
      /\ \/ doubt' = TRUE
         \/ doubt' = doubt /\ link = "up" /\ last = Shown
         \/ doubt' = doubt /\ UNCHANGED appliance
  <2>1. ASSUME NEW minutes \in {CycleMinutes, CycleMinutes + DelayMinutes}, NEW doorOpen \in BOOLEAN,
               Press(minutes, doorOpen)
        PROVE  /\ UNCHANGED <<alive, last, tracker, outbox, heard, link>>
               /\ \/ doubt' = TRUE
                  \/ doubt' = doubt /\ link = "up" /\ last = Shown
    BY <2>1 DEF Press, Acts, Watched, path, vars, volatile, Base
  <2>2. CASE Pause \/ Continue \/ Cancel \/ Unload
    <3>1. /\ UNCHANGED <<vars, path, heard>>
          /\ doubt' = (doubt \/ ~Watched) /\ (Watched => last = Shown)
      BY <2>2 DEF Pause, Continue, Cancel, Unload, Acts
    <3> QED
      BY <3>1 DEF Watched, path, vars, volatile, Base
  <2>3. CASE Minute /\ mode = "run"
    BY <2>3 DEF Minute, Tick, Watched, volatile, Base
  <2>4. CASE Minute /\ mode # "run"
    <3>1. UNCHANGED <<appliance, doubt, timed>> /\ UNCHANGED volatile /\ UNCHANGED <<link, seen, ended, heard>>
      BY <2>4, Zenon DEF Minute, Tick
    <3> QED
      BY <3>1 DEF volatile
  <2> QED
    BY <2>1, <2>2, <2>3, <2>4
<1>2. link = "up" => last # Null
  BY DEF Base
<1>3. Shown' = Shown \/ Follows(Shown, Shown')
  BY ActIsFollowed
<1>4. UNCHANGED appliance => Shown' = Shown /\ mode' = mode
  BY DEF appliance, Shown, Waits
<1>5. CASE doubt' = TRUE
  BY <1>1, <1>5 DEF Story, Result
<1>6. CASE doubt' = doubt /\ link = "up" /\ last = Shown
  BY <1>1, <1>2, <1>3, <1>6 DEF Story, Result, InTurnNow
<1>7. CASE doubt' = doubt /\ UNCHANGED appliance
  BY <1>1, <1>4, <1>7 DEF Story, Result, InTurnNow
<1> QED
  BY <1>1, <1>5, <1>6, <1>7

\* An evaluation tells what is in turn.
LEMMA JudgeKeepsStory ==
    ASSUME Watching, Base, Story, NEW outage, Judge(outage), outage = Null \/ link = "down"
    PROVE  Story'
<1> DEFINE o == CycleOutcome(last, Shown, tracker, outage)
           u == NextTracker(o, Shown, tracker, now)
<1>1. /\ ShownFits /\ Shown # Null
      /\ alive' /\ outbox = <<>> /\ last' = Shown
      /\ tracker' = DetectTracker(last, Shown, tracker, now, outage)
      /\ UNCHANGED <<appliance, heard, doubt>>
      /\ \/ last = Null /\ outbox' = <<>>
         \/ last # Null /\ outbox' = <<>> /\ o \in Quiet
         \/ last # Null /\ \E ev : outbox' = <<<<ev>>>> /\ OutcomeEv(o, ev, tracker, now)
  BY Judged
<1>2. Shown' = Shown
  BY <1>1 DEF appliance, Shown, Waits
<1>3. now \in Nat
  BY DEF Base, IInv, TypeOK
<1>4. \A ev : <<<<ev>>>> # <<>>
  OBVIOUS
<1>5. CASE last = Null
  <2>1. outbox' = <<>>
    BY <1>1, <1>5
  <2>2. ~doubt => IdleView(Shown) /\ heard = "idle"
    BY <1>1, <1>5 DEF Story, ShownFits
  <2>3. IdleView(Shown) => ~InCycle(Shown)
    BY DEF IdleView, InCycle, Running, Paused, RUNNING_STATES, PAUSED_STATES
  <2>4. IdleView(Shown) => tracker' = Fresh
    BY <1>1, <1>5, <2>3 DEF DetectTracker, Baseline
  <2>5. ~doubt => Fits(Shown, tracker', heard)
    BY <2>2, <2>4 DEF Fits, Rested
  <2> QED
    BY <1>1, <1>2, <1>4, <2>1, <2>5 DEF Story
<1>6. CASE last # Null
  <2>1. tracker' = u
    BY <1>1, <1>6 DEF DetectTracker
  <2>2. \A ev : OutcomeEv(o, ev, tracker, now) => Result(ev)'
    <3> SUFFICES ASSUME NEW ev, OutcomeEv(o, ev, tracker, now) PROVE Result(ev)'
      OBVIOUS
    <3> HIDE DEF o
    <3>1. o = "scheduled" => u.scheduled
      BY <1>3, TrackerOutcomes, Zenon
    <3>2. o = "started" => ~u.scheduled /\ Active(u)
      BY <1>3, TrackerOutcomes, Zenon
    <3>3. o \in CycleEnds => u = Fresh
      BY <1>3, TrackerOutcomes, Zenon
    <3>4. /\ o = "scheduled" => ArmedView(Shown)
          /\ o = "started" => TurningView(Shown) \/ LastView(Shown)
          /\ o \in {"finished", "finished offline"} => Over(Shown)
          /\ o = "cancelled" => IdleView(Shown)
      BY <1>1, <1>6, OutcomeViews DEF o, Base, ShownFits
    <3>5. last' = Shown
      BY <1>1
    <3> HIDE DEF u
    <3> QED
      BY <2>1, <3>1, <3>2, <3>3, <3>4, <3>5 DEF OutcomeEv, Result, CycleEnds
  <2>3. ASSUME ~doubt
        PROVE  \/ o \in Quiet /\ Fits(Shown, u, heard)
               \/ o = "scheduled" /\ Fits(Shown, u, "armed") /\ heard \in Rested
               \/ o = "started" /\ Fits(Shown, u, "running") /\ heard \in Rested \cup {"armed"}
               \/ o = "paused" /\ Fits(Shown, u, "paused") /\ heard = "running"
               \/ o = "resumed" /\ Fits(Shown, u, "running") /\ heard = "paused"
               \/ o = "finished" /\ Fits(Shown, u, "done") /\ heard = "running"
               \/ o = "cancelled" /\ Fits(Shown, u, "idle")
                     /\ heard \in Rested \cup {"armed", "running", "paused"}
    <3>1. Fits(last, tracker, heard) /\ (last = Shown \/ (outage = Null /\ Follows(last, Shown)))
      BY <1>1, <1>6, <2>3 DEF Story
    <3>2. RealView(last) /\ RealView(Shown)
      BY <1>1, <1>6 DEF Base, ShownFits
    <3> QED
      BY <1>3, <3>1, <3>2, OneTurn
  <2>4. CASE outbox' = <<>> /\ o \in Quiet
    <3>1. ~doubt => Fits(Shown, tracker', heard)
      <4> HIDE DEF o, u
      <4> QED
        BY <2>1, <2>3, <2>4 DEF Quiet
    <3> QED
      BY <1>1, <1>2, <1>4, <2>4, <3>1 DEF Story
  <2>5. ASSUME NEW ev, outbox' = <<<<ev>>>>, OutcomeEv(o, ev, tracker, now)
        PROVE  Story'
    <3>1. \A x : outbox' = <<<<x>>>> => x = ev
      BY <2>5
    <3>2. ~doubt => InTurnNow(ev)'
      <4> SUFFICES ASSUME ~doubt PROVE InTurnNow(ev)'
        OBVIOUS
      <4>1. heard' = heard /\ last' = Shown /\ tracker' = u
        BY <1>1, <2>1
      <4> HIDE DEF o, u
      <4>2. CASE o = "none"
        <5>1. ev.kind = "phase_changed" /\ Fits(Shown, u, heard)
          BY <2>3, <2>5, <4>2 DEF OutcomeEv
        <5>2. ev.kind \notin DOMAIN Notices!Says
          BY <5>1, Sayings
        <5> QED
          BY <4>1, <5>1, <5>2 DEF InTurnNow
      <4>3. CASE o # "none"
        <5>1. /\ ev.kind \in DOMAIN Notices!Says
              /\ heard \in Notices!InTurn[ev.kind]
              /\ Fits(Shown, u, Notices!Says[ev.kind])
          BY <2>3, <2>5, <4>3, Sayings DEF OutcomeEv, Quiet
        <5> QED
          BY <4>1, <5>1 DEF InTurnNow
      <4> QED
        BY <4>2, <4>3
    <3>3. Result(ev)'
      BY <2>2, <2>5
    <3>4. /\ \A x : outbox' = <<<<x>>>> => Result(x)'
          /\ ~doubt => \A x : outbox' = <<<<x>>>> => InTurnNow(x)'
      BY <3>1, <3>2, <3>3
    <3> QED
      BY <1>1, <1>2, <1>4, <2>5, <3>4 DEF Story
  <2> QED
    BY <1>1, <1>6, <2>4, <2>5
<1> QED
  BY <1>5, <1>6

\* In touch, what a notice that begins or ends a cycle says is right, unless it is the
\* start of a cycle in its last minute.
LEMMA ResultIsTruth ==
    ASSUME Base, NEW ev, Result(ev), last = Shown, ev.kind \in DOMAIN Notices!Says,
           ev.kind \notin {"cycle_paused", "cycle_resumed"}
    PROVE  Notices!Says[ev.kind] \in Truth <=> ~(ev.kind = "cycle_started" /\ LastMinute)
<1>1. ShownFits
  BY MachineShows DEF Base
<1>2. LastMinute <=> LastView(Shown)
  <2>1. CycleMinutes > 1 /\ CycleMinutes \in Nat /\ left \in Nat
    BY WatchAssumption DEF Base, Machine
  <2> QED
    BY <1>1, <2>1 DEF ShownFits, LastMinute, Base, Machine
<1>3. TurningView(Shown) => ~LastView(Shown)
  BY DEF TurningView, LastView
<1>4. CASE ev.kind = "cycle_scheduled"
  BY <1>4, Sayings, TruthOfViews DEF Result
<1>5. CASE ev.kind = "cycle_started"
  BY <1>2, <1>3, <1>5, Sayings, TruthOfViews DEF Result
<1>6. CASE ev.kind = "cycle_finished"
  <2>1. IdleView(Shown) \/ EndView(Shown) \/ LastView(Shown)
    BY <1>1, <1>6, OverViews DEF Result, ShownFits
  <2> QED
    BY <1>6, <2>1, Sayings, TruthOfViews DEF Rested
<1>7. CASE ev.kind = "cycle_cancelled"
  BY <1>7, Sayings, TruthOfViews DEF Result, Rested
<1> QED
  BY <1>4, <1>5, <1>6, <1>7, Sayings

\* The next notice: in turn if there was no doubt; and in touch it ends the doubt unless
\* it is the start of a last minute.
LEMMA ToldKeepsStory ==
    ASSUME Watching, Base, Story, Told
    PROVE  /\ Story' /\ outbox' = <<>> /\ UNCHANGED <<last, link>> /\ UNCHANGED appliance
           /\ \E kind : /\ Coming = kind
                        /\ \/ kind \notin DOMAIN Notices!Says /\ UNCHANGED <<heard, doubt>>
                           \/ /\ kind \in DOMAIN Notices!Says
                              /\ doubt \/ heard \in Notices!InTurn[kind]
                              /\ heard' = Notices!Says[kind]
                              /\ doubt' = (doubt /\ ~Notices!SetsRight(kind))
<1>1. outbox # <<>> /\ Dispatch(1)
  BY DEF Told
<1>2. PICK ev : outbox = <<<<ev>>>>
  BY <1>1 DEF Base
<1>3. last # Null /\ alive /\ alive' = alive
  BY <1>1 DEF Base, Dispatch
<1>4. outbox' = <<>>
  <2>1. outbox' = RemoveAt(<<<<ev>>>>, 1)
    BY <1>1, <1>2 DEF Dispatch
  <2>2. RemoveAt(<<<<ev>>>>, 1) = <<>>
    BY DEF RemoveAt
  <2> QED
    BY <2>1, <2>2
<1>5. /\ UNCHANGED <<last, tracker, link, mode>> /\ Shown' = Shown
      /\ UNCHANGED appliance
  BY <1>1 DEF Told, Dispatch, path, appliance, Shown, Waits
<1>6. Head(outbox[1]).kind = ev.kind /\ Coming = ev.kind
  BY <1>2, DetectedNow DEF DetectedFits
<1>7. Result(ev) /\ (~doubt => InTurnNow(ev))
  BY <1>2 DEF Story
<1>8. \A x : <<<<x>>>> # <<>>
  OBVIOUS
<1>9. ASSUME ~doubt' => Fits(last, tracker, heard') /\ (last = Shown \/ (link # "down" /\ Follows(last, Shown)))
      PROVE  Story'
  BY <1>3, <1>4, <1>5, <1>8, <1>9 DEF Story
<1>10. ~doubt => (last = Shown \/ (link # "down" /\ Follows(last, Shown)))
  BY <1>3 DEF Story
<1>11. CASE ev.kind \notin DOMAIN Notices!Says
  <2>1. UNCHANGED <<heard, doubt>>
    BY <1>6, <1>11 DEF Told
  <2>2. ~doubt => Fits(last, tracker, heard)
    BY <1>7, <1>11 DEF InTurnNow
  <2> QED
    BY <1>4, <1>5, <1>6, <1>9, <1>10, <1>11, <2>1, <2>2
<1>12. CASE ev.kind \in DOMAIN Notices!Says
  <2>1. /\ heard' = Notices!Says[ev.kind]
        /\ doubt' = (doubt /\ ~(/\ ev.kind \notin {"cycle_paused", "cycle_resumed"}
                                /\ InTouch /\ heard' \in Truth))
    BY <1>6, <1>12, Zenon DEF Told
  <2>2. doubt \in BOOLEAN
    BY DEF Base
  <2>3. doubt' = (doubt /\ ~Notices!SetsRight(ev.kind))
    <3>1. /\ InTouch /\ ev.kind \notin {"cycle_paused", "cycle_resumed"}
             => (heard' \in Truth <=> ~(ev.kind = "cycle_started" /\ LastMinute))
      BY <1>7, <1>12, <2>1, ResultIsTruth DEF InTouch
    <3> QED
      BY <2>1, <3>1 DEF Notices!SetsRight
  <2>4. doubt \/ heard \in Notices!InTurn[ev.kind]
    BY <1>7, <1>12 DEF InTurnNow
  <2>5. Story'
    <3>1. CASE ~doubt
      BY <1>7, <1>9, <1>10, <1>12, <2>1, <2>2, <3>1 DEF InTurnNow
    <3>2. CASE doubt
      <4> SUFFICES ASSUME ~doubt' PROVE Fits(last, tracker, heard') /\ last = Shown
        BY <1>9
      <4>1. /\ ev.kind \notin {"cycle_paused", "cycle_resumed"}
            /\ last = Shown /\ heard' \in Truth
        BY <2>1, <3>2 DEF InTouch
      <4>2. ShownFits
        BY MachineShows DEF Base
      <4>3. \/ heard' = "armed" /\ tracker.scheduled
            \/ heard' = "running" /\ ~tracker.scheduled /\ Active(tracker)
            \/ heard' \in Rested /\ tracker = Fresh
        BY <1>7, <1>12, <2>1, <4>1, Sayings DEF Result, Rested
      <4>4. Fits(Shown, tracker, heard')
        <5>1. \/ IdleView(Shown) \/ EndView(Shown) \/ LastView(Shown) \/ ArmedView(Shown)
              \/ TurningView(Shown) \/ HeldView(Shown) \/ PausedView(Shown)
          BY <4>2 DEF ShownFits, RealView
        <5> QED
          BY <4>1, <4>3, <5>1, TruthOfViews DEF Fits, Rested
      <4> QED
        BY <4>1, <4>4
    <3> QED
      BY <3>1, <3>2
  <2> QED
    BY <1>4, <1>5, <1>6, <1>12, <2>1, <2>3, <2>4, <2>5
<1> QED
  BY <1>11, <1>12

\* Every step keeps the story straight.
LEMMA StepStory == Watching /\ Base /\ Story /\ [WNext]_wvars => Story'
<1> SUFFICES ASSUME Watching, Base, Story, [WNext]_wvars PROVE Story'
  OBVIOUS
<1>1. CASE \/ \E minutes \in {CycleMinutes, CycleMinutes + DelayMinutes}, doorOpen \in BOOLEAN :
                 Press(minutes, doorOpen)
           \/ Pause \/ Continue \/ Cancel \/ Unload \/ Minute
  BY <1>1, ActKeepsStory
<1>2. CASE Sample \/ Seed
  <2>1. PICK outage : Judge(outage) /\ (outage = Null \/ link = "down")
    BY <1>2 DEF Sample, Seed
  <2> QED
    BY <2>1, JudgeKeepsStory
<1>3. CASE LinkDies \/ LinkHeals \/ LinkEnds \/ UNCHANGED wvars
  <2>1. /\ UNCHANGED <<alive, last, tracker, outbox, heard, appliance>>
        /\ \/ doubt' = TRUE
           \/ doubt' = doubt /\ (link' # "down" \/ link' = link \/ last = Shown)
    BY <1>3 DEF LinkDies, LinkHeals, LinkEnds, vars, volatile, story, path, wvars, Base
  <2>2. Shown' = Shown /\ mode' = mode
    BY <2>1 DEF appliance, Shown, Waits
  <2>3. CASE doubt' = TRUE
    BY <2>1, <2>3 DEF Story, Result
  <2>4. CASE doubt' = doubt /\ (link' # "down" \/ link' = link \/ last = Shown)
    BY <2>1, <2>2, <2>4 DEF Story, Result, InTurnNow
  <2> QED
    BY <2>1, <2>3, <2>4
<1>4. CASE Told
  BY <1>4, ToldKeepsStory
<1>5. CASE Dies
  <2>1. outbox' = <<>> /\ doubt' = TRUE /\ \A x : <<<<x>>>> # <<>>
    BY <1>5 DEF Dies, Crash
  <2> QED
    BY <2>1 DEF Story
<1>6. CASE Begins
  <2>1. ~alive /\ doubt' = doubt /\ outbox' = outbox /\ \A x : <<<<x>>>> # <<>>
    BY <1>6 DEF Begins, Restart, story
  <2>2. doubt /\ outbox = <<>>
    BY <2>1 DEF Story, Base, IInv
  <2> QED
    BY <2>1, <2>2 DEF Story
<1> QED
  BY <1>1, <1>2, <1>3, <1>4, <1>5, <1>6 DEF WNext

\* The reader always holds what the last view was, or has a notice coming.
LEMMA StoryHolds == ASSUME Watching PROVE WSpec => [](Base /\ Story)
<1>1. WInit => Base /\ Story
  <2>1. WInit => Story
    <3>1. \A x : <<<<x>>>> # <<>>
      OBVIOUS
    <3> QED
      BY <3>1 DEF WInit, Init, Story
  <2> QED
    BY <2>1, InitBase
<1>2. Base /\ Story /\ [WNext]_wvars => (Base /\ Story)'
  BY StepBase, StepStory
<1> QED
  BY <1>1, <1>2, PTL DEF WSpec

\* In touch and not in doubt, the reader knows what the appliance is doing.
THEOREM InTouchIsTruthHolds == ASSUME Watching PROVE WSpec => []InTouchIsTruth
<1>1. Base /\ Story => InTouchIsTruth
  <2> SUFFICES ASSUME Base, Story, InTouch, ~doubt, outbox = <<>> PROVE heard \in Truth
    BY DEF InTouchIsTruth
  <2>1. last = Shown /\ last # Null
    BY DEF InTouch, Watched, Base
  <2>2. Fits(Shown, tracker, heard)
    BY <2>1 DEF Story
  <2> QED
    BY <2>2, TruthOfViews DEF Fits, Rested
<1> QED
  BY <1>1, StoryHolds, PTL

\* What is on its way stays so while the outbox does.
LEMMA ComingStays == UNCHANGED outbox => Coming' = Coming
BY DEF Coming

\* The notices tell a story that CycleNotices allows: a refinement, step by step.
THEOREM TellsTheStoryHolds == ASSUME Watching PROVE WSpec => TellsTheStory
<1>1. WInit => Notices!Init
  <2> SUFFICES ASSUME WInit PROVE Notices!Init
    OBVIOUS
  <2>1. Coming = "none"
    BY DEF WInit, Init, Coming
  <2>2. heard = "idle" /\ doubt = FALSE /\ InTouch \in BOOLEAN /\ LastMinute \in BOOLEAN
    BY DEF WInit, InTouch, LastMinute
  <2> QED
    BY <2>1, <2>2 DEF Notices!Init
<1>2. ASSUME Watching, Base, Story, [WNext]_wvars PROVE Notices!Next
  <2>0. /\ InTouch' \in BOOLEAN /\ LastMinute' \in BOOLEAN /\ doubt \in BOOLEAN
        /\ "none" \notin DOMAIN Notices!Says
    BY <1>2, Sayings DEF InTouch, LastMinute, Base
  <2>1. CASE \/ \E minutes \in {CycleMinutes, CycleMinutes + DelayMinutes}, doorOpen \in BOOLEAN :
                   Press(minutes, doorOpen)
             \/ Pause \/ Continue \/ Cancel \/ Unload \/ Minute
    <3>1. heard' = heard /\ UNCHANGED outbox
      BY <2>1 DEF Press, Pause, Continue, Cancel, Unload, Minute, Tick, Acts, vars, volatile
    <3>2. doubt' = doubt \/ (doubt' = TRUE /\ ~InTouch)
      <4>1. CASE Minute /\ mode # "run"
        <5>1. UNCHANGED <<appliance, doubt, timed>>
          BY <4>1, Zenon DEF Minute
        <5> QED
          BY <5>1
      <4>2. CASE ~(Minute /\ mode # "run")
        <5>1. doubt' = (doubt \/ ~Watched)
          BY <2>1, <4>2 DEF Press, Pause, Continue, Cancel, Unload, Minute, Acts
        <5> QED
          BY <2>0, <5>1 DEF InTouch
      <4> QED
        BY <4>1, <4>2
    <3> QED
      BY <2>0, <3>1, <3>2, ComingStays DEF Notices!Next, Notices!Pass
  <2>2. CASE Sample \/ Seed
    <3>1. outbox = <<>> /\ UNCHANGED <<heard, doubt>>
      <4>1. PICK outage : Judge(outage)
        BY <2>2 DEF Sample, Seed
      <4> QED
        BY <1>2, <4>1, Judged
    <3>2. Coming = "none"
      BY <3>1, DetectedNow DEF DetectedFits
    <3> QED
      BY <2>0, <3>1, <3>2 DEF Notices!Next, Notices!Pass
  <2>3. CASE LinkDies \/ LinkHeals \/ LinkEnds \/ Begins \/ UNCHANGED wvars
    <3>1. heard' = heard /\ UNCHANGED outbox
      BY <2>3 DEF LinkDies, LinkHeals, LinkEnds, Begins, Restart, story, wvars, vars, volatile
    <3>2. doubt' = doubt \/ (doubt' = TRUE /\ ~InTouch')
      BY <2>0, <2>3 DEF LinkDies, LinkHeals, LinkEnds, Begins, story, wvars, InTouch, Watched
    <3> QED
      BY <2>0, <3>1, <3>2, ComingStays DEF Notices!Next, Notices!Pass
  <2>4. CASE Dies
    <3>1. heard' = heard /\ outbox' = <<>> /\ doubt' = TRUE /\ ~InTouch'
      BY <2>4 DEF Dies, Crash, InTouch, Watched
    <3>2. Coming' = "none"
      BY <3>1, DetectedNext DEF DetectedFits
    <3> QED
      BY <2>0, <3>1, <3>2 DEF Notices!Next, Notices!Pass
  <2>5. CASE Told
    <3>1. PICK kind :
             /\ Coming = kind /\ outbox' = <<>> /\ UNCHANGED <<last, link>> /\ UNCHANGED appliance
             /\ \/ kind \notin DOMAIN Notices!Says /\ UNCHANGED <<heard, doubt>>
                \/ /\ kind \in DOMAIN Notices!Says
                   /\ doubt \/ heard \in Notices!InTurn[kind]
                   /\ heard' = Notices!Says[kind]
                   /\ doubt' = (doubt /\ ~Notices!SetsRight(kind))
      BY <1>2, <2>5, ToldKeepsStory
    <3>2. Coming' = "none" /\ UNCHANGED <<InTouch, LastMinute>>
      <4>1. Coming' = "none"
        BY <3>1, DetectedNext DEF DetectedFits
      <4>2. Shown' = Shown
        BY <3>1 DEF appliance, Shown, Waits
      <4> QED
        BY <3>1, <4>1, <4>2 DEF InTouch, Watched, LastMinute, appliance
    <3>3. CASE kind \notin DOMAIN Notices!Says /\ UNCHANGED <<heard, doubt>>
      BY <2>0, <3>1, <3>2, <3>3 DEF Notices!Next, Notices!Pass
    <3>4. CASE /\ kind \in DOMAIN Notices!Says
               /\ doubt \/ heard \in Notices!InTurn[kind]
               /\ heard' = Notices!Says[kind]
               /\ doubt' = (doubt /\ ~Notices!SetsRight(kind))
      BY <3>1, <3>2, <3>4 DEF Notices!Next, Notices!Hear
    <3> QED
      BY <3>1, <3>3, <3>4
  <2> QED
    BY <1>2, <2>1, <2>2, <2>3, <2>4, <2>5 DEF WNext
<1>3. Base /\ Story /\ [WNext]_wvars => [Notices!Next]_(Notices!vars)
  BY <1>2
<1> QED
  BY <1>1, <1>3, StoryHolds, PTL DEF WSpec, TellsTheStory, Notices!Spec
=============================================================================
