--------------------------- MODULE Dispatch_proofs ---------------------------
(***************************************************************************)
(* Proofs about Dispatch, for every set of environments and reports.       *)
(***************************************************************************)
EXTENDS Dispatch, AlarmThrottle_proofs

\* The facts about cleared_throttle.
ClearedFacts == INSTANCE AlarmThrottle_proofs WITH
    last_sent <- cleared_sent, recent <- cleared_recent, log <- cleared_log

ReportOk == report \in Reports \cup {<<>>}

\* A snapshot has at most one alarm event.
LEMMA OneAlarmEvent ==
    ASSUME NEW was, NEW is, AlarmEvs(was, is) # <<>>
    PROVE  AlarmEvs(was, is)[1] \in ToSet(AlarmEvs(was, is))
<1>1. \A e : <<e>>[1] \in ToSet(<<e>>)
  BY DEF ToSet
<1>2. \E e : AlarmEvs(was, is) = <<e>>
  BY DEF AlarmEvs
<1> QED
  BY <1>1, <1>2

\* Whatever is dispatched, each gate takes a step of its own or none.
GatesStep == [Next]_vars /\ [Cleared!Next]_(Cleared!vars)

LEMMA DispatchSteps ==
    ASSUME NEW ev, DispatchEv(ev),
           ev.kind \in {"alarm", "alarm_cleared"} => Key(ev) \in Contents
    PROVE  GatesStep
<1>1. CASE ev.kind \notin cfg.events \/ ev.kind \notin {"alarm", "alarm_cleared"}
  <2>1. UNCHANGED <<vars, clears>>
    BY <1>1 DEF DispatchEv
  <2> QED
    BY <2>1 DEF vars, clears, Cleared!vars, GatesStep
<1>2. CASE ev.kind = "alarm" /\ ev.kind \in cfg.events
  <2>1. Forward(Key(ev)) \/ Suppress(Key(ev))
    BY <1>2 DEF DispatchEv, Gate
  <2>2. UNCHANGED clears /\ now' = now
    BY <1>2, <2>1 DEF DispatchEv, Gate, Forward, Suppress
  <2>3. Key(ev) \in Contents
    BY <1>2
  <2>4. Next
    BY <2>1, <2>3 DEF Next
  <2>5. UNCHANGED Cleared!vars
    BY <2>2 DEF clears, Cleared!vars
  <2> QED
    BY <2>4, <2>5 DEF GatesStep
<1>3. CASE ev.kind = "alarm_cleared" /\ ev.kind \in cfg.events
  <2>1. Cleared!Forward(Key(ev)) \/ Cleared!Suppress(Key(ev))
    BY <1>3 DEF DispatchEv, Gate
  <2>2. UNCHANGED errors /\ now' = now
    BY <1>3, <2>1 DEF DispatchEv, Gate, Cleared!Forward, Cleared!Suppress
  <2>3. Key(ev) \in Contents
    BY <1>3
  <2>4. Cleared!Next
    BY <2>1, <2>3 DEF Cleared!Next
  <2>5. UNCHANGED vars
    BY <2>2 DEF errors, vars
  <2> QED
    BY <2>4, <2>5 DEF GatesStep
<1> QED
  BY <1>1, <1>2, <1>3

\* The report judged last is one of those the appliance presents.
LEMMA ReportHolds == DSpec => []ReportOk
<1>1. DInit => ReportOk
  BY DEF DInit, ReportOk
<1>2. ReportOk /\ [DNext]_dvars => ReportOk'
  BY DEF ReportOk, DNext, dvars, Judge, Notice, Passes
<1> QED
  BY <1>1, <1>2, PTL DEF DSpec

\* Both gates behave as an AlarmThrottle that nothing else uses.
THEOREM GatesRefine == DSpec => GatesAreThrottles
<1>1. DInit => Init /\ Cleared!Init
  BY DEF DInit
<1>2. ReportOk /\ [DNext]_dvars => GatesStep
  <2> SUFFICES ASSUME ReportOk, [DNext]_dvars PROVE GatesStep
    OBVIOUS
  <2>1. ASSUME NEW is \in Reports, Judge(is) PROVE GatesStep
    <3> DEFINE evs == AlarmEvs([alarms |-> report], [alarms |-> is])
    <3>1. CASE evs = <<>>
      BY <2>1, <3>1 DEF Judge, vars, clears, Cleared!vars, GatesStep
    <3>2. CASE evs # <<>>
      <4>1. evs[1] \in ToSet(evs)
        BY <3>2, OneAlarmEvent
      <4>2. Key(evs[1]) \in Contents
        BY <4>1, DispatchAssumption DEF ReportOk
      <4>3. DispatchEv(evs[1])
        BY <2>1, <3>2 DEF Judge
      <4> QED
        BY <4>2, <4>3, DispatchSteps
    <3> QED
      BY <3>1, <3>2
  <2>2. ASSUME NEW kind \in Others, Notice(kind) PROVE GatesStep
    <3>1. Ev(kind).kind \notin {"alarm", "alarm_cleared"}
      BY DispatchAssumption DEF Ev
    <3> QED
      BY <2>2, <3>1, DispatchSteps DEF Notice
  <2>3. CASE Passes
    <3>1. Tick
      BY <2>3 DEF Passes
    <3>2. Cleared!Tick
      BY <2>3 DEF Passes, Tick, clears, Cleared!Tick
    <3> QED
      BY <3>1, <3>2 DEF GatesStep, Next, Cleared!Next
  <2>4. CASE UNCHANGED dvars
    BY <2>4 DEF dvars, vars, clears, Cleared!vars, GatesStep
  <2> QED
    BY <2>1, <2>2, <2>3, <2>4 DEF DNext
<1>3. GatesStep => [Next]_vars /\ [Cleared!Next]_(Cleared!vars)
  BY DEF GatesStep
<1> QED
  BY <1>1, <1>2, <1>3, ReportHolds, PTL DEF DSpec, GatesAreThrottles, Spec, Cleared!Spec

\* The limits of the throttle hold of the errors, whatever else is dispatched, ...
THEOREM ErrorsWithinLimits == DSpec => []WithinLimits
  BY GatesRefine, LimitsHold, PTL DEF GatesAreThrottles

\* ... and of the clears.
THEOREM ClearsWithinLimits == DSpec => []ClearedFacts!WithinLimits
<1>1. ClearedFacts!Spec => []ClearedFacts!WithinLimits
  BY ClearedFacts!LimitsHold, ThrottleAssumption, PTL DEF ClearedFacts!LimitsHold
<1>2. Cleared!Init => ClearedFacts!Init
  BY DEF Cleared!Init, ClearedFacts!Init
<1>3. [Cleared!Next]_(Cleared!vars) => [ClearedFacts!Next]_(ClearedFacts!vars)
  BY DEF Cleared!Next, ClearedFacts!Next, Cleared!vars, ClearedFacts!vars,
         Cleared!Forward, ClearedFacts!Forward, Cleared!Suppress, ClearedFacts!Suppress,
         Cleared!Tick, ClearedFacts!Tick, Cleared!Allowed, ClearedFacts!Allowed,
         Cleared!Recorded, ClearedFacts!Recorded, Cleared!IsRepeat, ClearedFacts!IsRepeat,
         Cleared!Pruned, ClearedFacts!Pruned
<1> QED
  BY <1>1, <1>2, <1>3, GatesRefine, PTL
     DEF GatesAreThrottles, Cleared!Spec, ClearedFacts!Spec

\* The instance counts as we do.
LEMMA SameCount == \A S : Cardinality(S) = ClearedFacts!Cardinality(S)
  BY DEF Cardinality, ClearedFacts!Cardinality

\* An error or a clear that is selected is told, or its gate has sent it already, or
\* a whole budget of its kind, within the window.
THEOREM JudgedIsToldHolds == DSpec => JudgedIsTold
<1> DEFINE Tells(ev) ==
              LET sends  == IF ev.kind = "alarm" THEN log' ELSE cleared_log'
                  within == {i \in DOMAIN sends : sends[i].at >= now - RepeatWindow}
              IN \/ \E i \in within : sends[i].content = Key(ev)
                 \/ Cardinality(within) >= MaxPerWindow
           TellsNow ==
              \A ev \in ToSet(AlarmEvs([alarms |-> report], [alarms |-> report'])) :
                  ev.kind \in cfg.events => Tells(ev)
<1>1. ReportOk /\ WithinLimits /\ ClearedFacts!WithinLimits /\ [DNext]_dvars => TellsNow
  <2> SUFFICES ASSUME ReportOk, WithinLimits, ClearedFacts!WithinLimits, [DNext]_dvars,
                      NEW ev \in ToSet(AlarmEvs([alarms |-> report], [alarms |-> report'])),
                      ev.kind \in cfg.events
               PROVE  Tells(ev)
    BY Zenon
  <2>1. AlarmEvs([alarms |-> report], [alarms |-> report']) = <<ev>>
    BY DEF AlarmEvs, ToSet
  <2>2. ev.kind \in {"alarm", "alarm_cleared"}
    BY <2>1 DEF AlarmEvs, KeyedEv, Ev
  <2>3. report' # report
    BY <2>1 DEF AlarmEvs
  <2>4. PICK is \in Reports : Judge(is)
    BY <2>3 DEF DNext, Notice, Passes, dvars
  <2>5. report' = is
    BY <2>4 DEF Judge
  <2>6. Key(ev) \in Contents
    BY <2>5, DispatchAssumption DEF ReportOk
  <2>7. DispatchEv(ev)
    BY <2>1, <2>4, <2>5 DEF Judge
  <2>8. CASE ev.kind = "alarm"
    <3>1. Forward(Key(ev)) \/ Suppress(Key(ev))
      BY <2>7, <2>8 DEF DispatchEv, Gate
    <3>2. Told(log', Key(ev))
      BY <2>6, <3>1, GateTells
    <3> QED
      BY <2>8, <3>2 DEF Told
  <2>9. CASE ev.kind = "alarm_cleared"
    <3>1. Cleared!Forward(Key(ev)) \/ Cleared!Suppress(Key(ev))
      BY <2>7, <2>9 DEF DispatchEv, Gate
    <3>2. ClearedFacts!Forward(Key(ev)) \/ ClearedFacts!Suppress(Key(ev))
      BY <3>1 DEF Cleared!Forward, ClearedFacts!Forward, Cleared!Suppress,
                  ClearedFacts!Suppress, Cleared!Allowed, ClearedFacts!Allowed,
                  Cleared!Recorded, ClearedFacts!Recorded, Cleared!IsRepeat,
                  ClearedFacts!IsRepeat, Cleared!Pruned, ClearedFacts!Pruned
    <3>3. ClearedFacts!Told(cleared_log', Key(ev))
      BY <2>6, <3>2, ClearedFacts!GateTells, ThrottleAssumption DEF ClearedFacts!GateTells
    <3>4. ev.kind # "alarm"
      BY <2>9
    <3> QED
      BY <3>3, <3>4, SameCount DEF ClearedFacts!Told
  <2> QED
    BY <2>2, <2>8, <2>9
<1> QED
  BY <1>1, ReportHolds, ErrorsWithinLimits, ClearsWithinLimits, PTL DEF DSpec, JudgedIsTold

-----------------------------------------------------------------------------
(***************************************************************************)
(* The priorities.                                                         *)
(***************************************************************************)
LEMMA Wrapped ==
    \A n \in -1439..1439 : n % 1440 = IF n >= 0 THEN n ELSE n + 1440
  OBVIOUS

\* A window is two different minutes of the day.
IsWindow(window) ==
    window[1] \in 0..1439 /\ window[2] \in 0..1439 /\ window[1] # window[2]

\* The test for quiet hours is membership in an interval of the clock's circle.
Within(window, minute) == (minute - window[1]) % 1440 < (window[2] - window[1]) % 1440

LEMMA QuietIsCyclic ==
    ASSUME NEW window, IsWindow(window), window # Null, NEW minute \in 0..1439
    PROVE  InQuietHours(window, minute) <=> Within(window, minute)
<1> DEFINE from == window[1]
           to == window[2]
           inside == IF from < to THEN from <= minute /\ minute < to
                     ELSE minute >= from \/ minute < to
           cyclic == (minute - from) % 1440 < (to - from) % 1440
<1>1. from \in 0..1439 /\ to \in 0..1439 /\ from # to
  BY DEF IsWindow
<1>2. InQuietHours(window, minute) <=> inside
  BY DEF InQuietHours
<1>3. Within(window, minute) <=> cyclic
  BY DEF Within
<1>4. inside <=> cyclic
  <2>1. /\ (minute - from) % 1440 = IF minute - from >= 0 THEN minute - from
                                    ELSE minute - from + 1440
        /\ (to - from) % 1440 = IF to - from >= 0 THEN to - from ELSE to - from + 1440
    BY <1>1, Wrapped
  <2> HIDE DEF from, to
  <2> QED
    BY <1>1, <2>1
<1> HIDE DEF inside, cyclic
<1> QED
  BY <1>2, <1>3, <1>4

\* A priority that is read is one Pushover knows.
LEMMA PriorityRead ==
    ASSUME NEW raw, NEW default \in Priorities, EnvPriority(raw, default) # Bad
    PROVE  EnvPriority(raw, default) \in Priorities
  BY DEF EnvPriority, EnvNumber

\* So is every one of EVENT_PRIORITIES.
\* A non-empty set of natural numbers with a bound has a greatest element.
LEMMA GreatestBelow ==
    ASSUME NEW n \in Nat, NEW S \in SUBSET (1..n), S # {}
    PROVE  \E i \in S : \A j \in S : j <= i
<1> DEFINE Gaps == {n - i : i \in S}
<1>1. \A i \in S : i \in Int /\ i <= n
  OBVIOUS
<1>2. Gaps \in SUBSET Nat /\ Gaps # {}
  <2>1. \A i \in S : n - i \in Nat
    BY <1>1
  <2> QED
    BY <2>1
<1>3. PICK g \in Gaps : \A h \in Gaps : g <= h
  <2> HIDE DEF Gaps
  <2> QED
    BY <1>2, LeastNatural
<1>4. PICK i \in S : g = n - i
  OBVIOUS
<1>5. ASSUME NEW j \in S PROVE j <= i
  <2>1. n - i <= n - j
    BY <1>3, <1>4
  <2> QED
    BY <1>1, <2>1
<1> QED
  BY <1>5

LEMMA PrioritiesRead ==
    ASSUME NEW raw, raw # Null => Len(raw.parts) \in Nat /\ DOMAIN raw.parts = 1..Len(raw.parts),
           ParsePriorities(raw) # Bad
    PROVE  \A kind \in DOMAIN ParsePriorities(raw) : ParsePriorities(raw)[kind] \in Priorities
<1>1. CASE raw = Null
  BY <1>1 DEF ParsePriorities, ParsePairs
<1>2. CASE raw # Null
  <2> DEFINE With(key) == {i \in Items(raw) : raw.parts[i].key = key}
             last(key) == CHOOSE i \in With(key) : \A j \in With(key) : j <= i
             pairs == [key \in {raw.parts[i].key : i \in Items(raw)} |->
                          raw.parts[last(key)].value]
  <2>1. \A i \in Items(raw) : ValidPriority(raw.parts[i])
    BY <1>2 DEF ParsePriorities, ParsePairs
  <2>2. ParsePriorities(raw) = pairs
    BY <1>2 DEF ParsePriorities, ParsePairs
  <2>3. ASSUME NEW key \in {raw.parts[i].key : i \in Items(raw)} PROVE last(key) \in Items(raw)
    <3>1. With(key) # {} /\ With(key) \subseteq 1..Len(raw.parts) /\ Len(raw.parts) \in Nat
      BY <1>2 DEF Items
    <3> HIDE DEF With
    <3>2. \E i \in With(key) : \A j \in With(key) : j <= i
      BY <3>1, GreatestBelow
    <3>3. last(key) \in With(key)
      BY <3>2
    <3> QED
      BY <3>3 DEF With
  <2>4. \A key \in DOMAIN pairs : pairs[key] \in Priorities
    BY <2>1, <2>3 DEF ValidPriority
  <2> QED
    BY <2>2, <2>4
<1> QED
  BY <1>1, <1>2

\* The window that is read is one.
LEMMA QuietHoursRead ==
    ASSUME NEW raw,
           raw # Null => /\ DOMAIN raw.parts = 1..Len(raw.parts)
                         /\ \A t \in ToSet(raw.parts) : t.hour \in Nat /\ t.minute \in Nat,
           ParseQuietHours(raw) \notin {Bad, Null}
    PROVE  IsWindow(ParseQuietHours(raw))
<1>1. raw # Null /\ Len(raw.parts) = 2 /\ Bad \notin {HHMM(t) : t \in ToSet(raw.parts)}
  BY DEF ParseQuietHours
<1>2. \A i \in 1..2 : raw.parts[i] \in ToSet(raw.parts)
  BY <1>1 DEF ToSet
<1>3. ASSUME NEW i \in 1..2 PROVE HHMM(raw.parts[i]) \in 0..1439
  <2>1. /\ raw.parts[i].hour \in Nat /\ raw.parts[i].minute \in Nat
        /\ HHMM(raw.parts[i]) # Bad
    BY <1>1, <1>2
  <2> DEFINE m == 60 * raw.parts[i].hour + raw.parts[i].minute
  <2>2. HHMM(raw.parts[i]) = m % 1440
    BY <2>1 DEF HHMM
  <2>3. m \in Int
    BY <2>1
  <2> HIDE DEF m
  <2> QED
    BY <2>2, <2>3
<1>4. /\ ParseQuietHours(raw) = <<HHMM(raw.parts[1]), HHMM(raw.parts[2])>>
      /\ HHMM(raw.parts[1]) # HHMM(raw.parts[2])
  BY <1>1 DEF ParseQuietHours
<1>5. HHMM(raw.parts[1]) \in 0..1439 /\ HHMM(raw.parts[2]) \in 0..1439
  BY <1>3
<1> QED
  BY <1>4, <1>5 DEF IsWindow

\* A configuration that is accepted has the priorities and hours it should.
Accepted(c) ==
    /\ {c.pushover_priority, c.pushover_alarm_priority, c.quiet_priority} \subseteq Priorities
    /\ \A kind \in DOMAIN c.event_priorities : c.event_priorities[kind] \in Priorities
    /\ c.quiet_hours # Null => IsWindow(c.quiet_hours)

LEMMA AcceptedIsWellFormed ==
    ASSUME NEW env \in Environments, FromEnv(env) # Bad
    PROVE  Accepted(FromEnv(env))
<1> DEFINE c == Settings(env)
           v(rest) == Env(env, "", rest)
<1>1. FromEnv(env) = c /\ ~AnyBad(c)
  BY DEF FromEnv
<1>2. /\ c.pushover_priority = EnvPriority(Env(env, "PUSHOVER", "PRIORITY"), 0)
      /\ c.pushover_alarm_priority = EnvPriority(Env(env, "PUSHOVER", "ALARM_PRIORITY"), 1)
      /\ c.quiet_priority = EnvPriority(v("QUIET_PRIORITY"), -1)
      /\ c.event_priorities = ParsePriorities(v("EVENT_PRIORITIES"))
      /\ c.quiet_hours = ParseQuietHours(v("QUIET_HOURS"))
  BY DEF Settings
<1>3. Bad \notin {c.pushover_priority, c.pushover_alarm_priority, c.quiet_priority,
                  c.event_priorities, c.quiet_hours}
  BY <1>1 DEF AnyBad, Settings
<1> HIDE DEF c
<1>4. {c.pushover_priority, c.pushover_alarm_priority, c.quiet_priority} \subseteq Priorities
  <2>1. 0 \in Priorities /\ 1 \in Priorities /\ -1 \in Priorities
    BY DEF Priorities
  <2> QED
    BY <1>2, <1>3, <2>1, PriorityRead
<1>5. ASSUME NEW rest, v(rest) # Null
      PROVE  <<"", rest>> \in DOMAIN env /\ v(rest).parts = env[<<"", rest>>].parts
  <2>1. <<"", rest>> \in DOMAIN env /\ v(rest) = Stripped(env[<<"", rest>>])
    BY <1>5 DEF Env
  <2>2. "parts" \in DOMAIN env[<<"", rest>>]
    BY <2>1, EnvironmentsAssumption
  <2> QED
    BY <2>1, <2>2 DEF Stripped
<1>6. \A kind \in DOMAIN c.event_priorities : c.event_priorities[kind] \in Priorities
  <2>1. v("EVENT_PRIORITIES") # Null =>
          /\ Len(v("EVENT_PRIORITIES").parts) \in Nat
          /\ DOMAIN v("EVENT_PRIORITIES").parts = 1..Len(v("EVENT_PRIORITIES").parts)
    BY <1>5, EnvironmentsAssumption
  <2> QED
    BY <1>2, <1>3, <2>1, PrioritiesRead
<1>7. c.quiet_hours # Null => IsWindow(c.quiet_hours)
  <2>1. v("QUIET_HOURS") # Null =>
          /\ DOMAIN v("QUIET_HOURS").parts = 1..Len(v("QUIET_HOURS").parts)
          /\ \A t \in ToSet(v("QUIET_HOURS").parts) : t.hour \in Nat /\ t.minute \in Nat
    BY <1>5, EnvironmentsAssumption
  <2> QED
    BY <1>2, <1>3, <2>1, QuietHoursRead
<1> QED
  BY <1>1, <1>4, <1>6, <1>7 DEF Accepted

\* For an accepted configuration, priority_for() is as documented at every minute.
SubmittedByConfig ==
    submitted # Null =>
        /\ submitted.at \in 0..1439
        /\ submitted.priority = PriorityFor(cfg, submitted.kind, submitted.at)

LEMMA PriorityIsAsDocumented ==
    ASSUME Accepted(cfg), SubmittedByConfig
    PROVE  PriorityAsDocumented
<1> SUFFICES ASSUME submitted # Null PROVE PriorityAsDocumented
  BY DEF PriorityAsDocumented
<1>0. PICK minute \in 0..1439 : submitted.at = minute
  BY DEF SubmittedByConfig
<1> DEFINE kind == submitted.kind
           byDay == IF kind \in DOMAIN cfg.event_priorities THEN cfg.event_priorities[kind]
                    ELSE IF kind \in {"alarm"} THEN cfg.pushover_alarm_priority
                    ELSE cfg.pushover_priority
           quiet == /\ cfg.quiet_hours # Null
                    /\ (minute - cfg.quiet_hours[1]) % 1440
                         < (cfg.quiet_hours[2] - cfg.quiet_hours[1]) % 1440
           cap == cfg.quiet_priority
           p == PriorityFor(cfg, kind, minute)
<1>1. byDay \in Priorities /\ cap \in Priorities
  BY DEF Accepted
<1>2. InQuietHours(cfg.quiet_hours, minute) <=> quiet
  <2>1. CASE cfg.quiet_hours = Null
    BY <2>1 DEF InQuietHours
  <2>2. CASE cfg.quiet_hours # Null
    <3>1. IsWindow(cfg.quiet_hours)
      BY <2>2 DEF Accepted
    <3>2. quiet <=> Within(cfg.quiet_hours, minute)
      BY <2>2 DEF Within
    <3> HIDE DEF quiet
    <3> QED
      BY <2>2, <3>1, <3>2, QuietIsCyclic
  <2> QED
    BY <2>1, <2>2
<1>3. p = IF kind # "alarm" /\ quiet /\ cap < byDay THEN cap ELSE byDay
  BY <1>2 DEF PriorityFor
<1>4. Quiet(minute) <=> quiet
  BY DEF Quiet
<1>5. submitted.kind = kind /\ submitted.priority = p /\ submitted.at = minute
  BY <1>0 DEF SubmittedByConfig
<1> HIDE DEF byDay, quiet, cap, p
<1>6. /\ p \in -2..1
      /\ IF kind \notin {"alarm"} /\ quiet THEN p <= cap /\ p \in {byDay, cap} ELSE p = byDay
  BY <1>1, <1>3 DEF Priorities
<1> QED
  BY <1>4, <1>5, <1>6 DEF PriorityAsDocumented, Alarms, byDay, cap

\* Whatever the environments hold, whenever and whatever is dispatched: within the quiet
\* hours nothing but an alarm is louder than the cap, and nothing needs acknowledging.
THEOREM PriorityHolds == DSpec => []PriorityAsDocumented
<1> DEFINE PInv == Accepted(cfg) /\ now \in Nat /\ SubmittedByConfig
<1>1. DInit => PInv
  <2> SUFFICES ASSUME DInit PROVE PInv
    OBVIOUS
  <2>1. Accepted(cfg)
    <3>1. PICK env \in Environments : FromEnv(env) # Bad /\ cfg = FromEnv(env)
      BY DEF DInit
    <3> QED
      BY <3>1, AcceptedIsWellFormed
  <2> QED
    BY <2>1 DEF DInit, Init, SubmittedByConfig
<1>2. PInv /\ [DNext]_dvars => PInv'
  <2> SUFFICES ASSUME PInv, [DNext]_dvars PROVE PInv'
    OBVIOUS
  <2>1. cfg' = cfg /\ Accepted(cfg)'
    <3>1. cfg' = cfg
      BY DEF DNext, dvars, Judge, Notice, Passes, DispatchEv
    <3> QED
      BY <3>1 DEF Accepted
  <2>2. MinuteOfDay \in 0..1439
    <3>1. StartMinute + now \in Int
      BY DispatchAssumption
    <3> QED
      BY <3>1 DEF MinuteOfDay
  <2>3. ASSUME NEW ev, DispatchEv(ev) PROVE now' = now /\ SubmittedByConfig'
    <3>1. now' = now
      BY <2>3 DEF DispatchEv, Gate, vars, errors, Forward, Suppress, Cleared!Forward,
                  Cleared!Suppress
    <3>2. submitted' = Null \/ Submit(ev)
      BY <2>3 DEF DispatchEv, Gate
    <3>3. CASE submitted' = Null
      BY <3>1, <3>3 DEF SubmittedByConfig
    <3>4. CASE Submit(ev)
      BY <2>1, <2>2, <3>1, <3>4 DEF Submit, SubmittedByConfig
    <3> QED
      BY <3>1, <3>2, <3>3, <3>4
  <2>4. ASSUME UNCHANGED <<cfg, submitted>> PROVE SubmittedByConfig'
    BY <2>4 DEF SubmittedByConfig
  <2>5. ASSUME NEW is \in Reports, Judge(is) PROVE now' = now /\ SubmittedByConfig'
    <3> DEFINE evs == AlarmEvs([alarms |-> report], [alarms |-> is])
    <3>1. CASE evs = <<>>
      BY <2>4, <2>5, <3>1 DEF Judge, vars
    <3>2. CASE evs # <<>>
      BY <2>3, <2>5, <3>2 DEF Judge
    <3> QED
      BY <3>1, <3>2
  <2>6. ASSUME NEW kind \in Others, Notice(kind) PROVE now' = now /\ SubmittedByConfig'
    BY <2>3, <2>6 DEF Notice
  <2>7. CASE Passes
    <3>1. now' \in Nat
      BY <2>7, ThrottleAssumption DEF Passes, Tick
    <3> QED
      BY <2>1, <2>4, <2>7, <3>1 DEF Passes
  <2>8. CASE UNCHANGED dvars
    BY <2>1, <2>4, <2>8 DEF dvars, vars
  <2> QED
    BY <2>1, <2>5, <2>6, <2>7, <2>8 DEF DNext
<1>3. PInv => PriorityAsDocumented
  BY PriorityIsAsDocumented
<1> QED
  BY <1>1, <1>2, <1>3, PTL DEF DSpec
=============================================================================
