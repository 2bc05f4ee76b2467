------------------------------ MODULE Dispatch ------------------------------
(***************************************************************************)
(* _dispatch() of bridge.py for one appliance whose events are dispatched  *)
(* by one thread at a time: which events go to the sender, and with which  *)
(* priority.  The alarm events come from detect() on a sequence of alarm   *)
(* reports; the configuration is what Config makes of the environment.     *)
(* AlarmThrottle's variables are alarm_throttle; cleared_throttle has its  *)
(* own, and both share the clock, which counts minutes here.               *)
(***************************************************************************)
EXTENDS AlarmThrottle, CycleEvents, Config

CONSTANTS
    Environments,   \* the environments the process may be started in
    Reports,        \* the alarm reports the appliance may present
    Others,         \* the kinds of the other events that occur
    StartMinute     \* the minute of the day at which the clock starts

VARIABLES
    cfg,
    cleared_sent, cleared_recent, cleared_log,  \* cleared_throttle
    report,       \* the alarms of the snapshot judged last
    submitted     \* what the latest dispatch gave to the sender, Null if nothing

Cleared == INSTANCE AlarmThrottle WITH
    last_sent <- cleared_sent, recent <- cleared_recent, log <- cleared_log

errors == <<last_sent, recent, log>>
clears == <<cleared_sent, cleared_recent, cleared_log>>
dvars  == <<vars, cfg, clears, report, submitted>>

Key(ev) == [codes |-> ev.codes, text |-> ev.text]

ASSUME DispatchAssumption ==
    /\ Reports \subseteq AlarmReport /\ StartMinute \in 0..1439
    /\ Others \subseteq ALL_EVENTS \ {"alarm", "alarm_cleared"}
    /\ \A was, is \in Reports \cup {<<>>} :
          \A ev \in ToSet(AlarmEvs([alarms |-> was], [alarms |-> is])) : Key(ev) \in Contents

\* Raw values have parts, and those of QUIET_HOURS are times (config.py:253 matches digits).
ASSUME EnvironmentsAssumption ==
    \A env \in Environments : \A name \in DOMAIN env :
        /\ "parts" \in DOMAIN env[name]
        /\ Len(env[name].parts) \in Nat /\ DOMAIN env[name].parts = 1..Len(env[name].parts)
        /\ name = <<"", "QUIET_HOURS">> =>
              \A t \in ToSet(env[name].parts) : t.hour \in Nat /\ t.minute \in Nat

DInit ==
    /\ Init /\ Cleared!Init
    /\ \E env \in Environments : FromEnv(env) # Bad /\ cfg = FromEnv(env)
    /\ report = <<>> /\ submitted = Null

MinuteOfDay == (StartMinute + now) % 1440

Submit(ev) ==
    submitted' = [kind |-> ev.kind, priority |-> PriorityFor(cfg, ev.kind, MinuteOfDay),
                  at |-> MinuteOfDay]

\* Mutant: errors and clears share a budget.
GateShared(ev) ==
    /\ UNCHANGED clears
    /\ \/ Forward(Key(ev)) /\ Submit(ev)
       \/ Suppress(Key(ev)) /\ submitted' = Null

\* Mutant: a clear makes the errors' throttle forget what it has sent.
GateForgets(ev) ==
    IF ev.kind = "alarm"
    THEN /\ UNCHANGED clears
         /\ \/ Forward(Key(ev)) /\ Submit(ev)
            \/ Suppress(Key(ev)) /\ submitted' = Null
    ELSE /\ last_sent' = [c \in {} |-> 0] /\ UNCHANGED <<recent, log>>
         /\ \/ Cleared!Forward(Key(ev)) /\ Submit(ev)
            \/ Cleared!Suppress(Key(ev)) /\ submitted' = Null

\* The throttle of the event's kind decides.
Gate(ev) ==
    IF ev.kind = "alarm"
    THEN /\ UNCHANGED clears
         /\ \/ Forward(Key(ev)) /\ Submit(ev)
            \/ Suppress(Key(ev)) /\ submitted' = Null
    ELSE /\ UNCHANGED errors
         /\ \/ Cleared!Forward(Key(ev)) /\ Submit(ev)
            \/ Cleared!Suppress(Key(ev)) /\ submitted' = Null

\* _dispatch(): not selected, or through the gate, or straight to the sender.
DispatchEv(ev) ==
    /\ IF ev.kind \notin cfg.events THEN submitted' = Null /\ UNCHANGED <<vars, clears>>
       ELSE IF ev.kind \in {"alarm", "alarm_cleared"} THEN Gate(ev)
       ELSE Submit(ev) /\ UNCHANGED <<vars, clears>>
    /\ UNCHANGED cfg

\* A snapshot with another alarm report is judged.
Judge(is) ==
    LET evs == AlarmEvs([alarms |-> report], [alarms |-> is])
    IN /\ is # report /\ report' = is
       /\ IF evs = <<>> THEN UNCHANGED <<vars, cfg, clears, submitted>>
          ELSE DispatchEv(evs[1])

\* Any other event.
Notice(kind) == DispatchEv(Ev(kind)) /\ UNCHANGED report

Passes == Tick /\ UNCHANGED <<cfg, clears, report, submitted>>

DNext ==
    \/ \E is \in Reports : Judge(is)
    \/ \E kind \in Others : Notice(kind)
    \/ Passes

DSpec == DInit /\ [][DNext]_dvars

-----------------------------------------------------------------------------
\* Both gates behave as an AlarmThrottle that nothing else uses: what is proved of it
\* holds of each of them, whatever is detected, selected and configured.
GatesAreThrottles == Spec /\ Cleared!Spec

\* An error or a clear that is selected is told, unless the same one, or a whole
\* budget of its own kind, went out within the window: a flapping door's clears do
\* not crowd out errors (bridge.py:117).
JudgedIsTold ==
    [][\A ev \in ToSet(AlarmEvs([alarms |-> report], [alarms |-> report'])) :
          LET sends  == IF ev.kind = "alarm" THEN log' ELSE cleared_log'
              within == {i \in DOMAIN sends : sends[i].at >= now - RepeatWindow}
          IN ev.kind \in cfg.events =>
                \/ \E i \in within : sends[i].content = Key(ev)
                \/ Cardinality(within) >= MaxPerWindow]_dvars

\* Is the minute within the configured hours, counted round the clock?
Quiet(minute) ==
    /\ cfg.quiet_hours # Null
    /\ (minute - cfg.quiet_hours[1]) % 1440 < (cfg.quiet_hours[2] - cfg.quiet_hours[1]) % 1440

Alarms == {"alarm"}    \* alarm_cleared is an ordinary event

\* README.md:241-247: within the quiet hours, wherever they lie around midnight, nothing
\* but an alarm is louder than the cap; an alarm is as loud by night as by day; outside
\* them nothing is capped; and whatever was configured, no notification needs to be
\* acknowledged (config.py:62-64).
PriorityAsDocumented ==
    submitted # Null =>
        LET kind  == submitted.kind
            byDay == IF kind \in DOMAIN cfg.event_priorities THEN cfg.event_priorities[kind]
                     ELSE IF kind \in Alarms THEN cfg.pushover_alarm_priority
                     ELSE cfg.pushover_priority
        IN /\ submitted.priority \in -2..1
           /\ IF kind \notin Alarms /\ Quiet(submitted.at)
                THEN /\ submitted.priority <= cfg.quiet_priority
                     /\ submitted.priority \in {byDay, cfg.quiet_priority}
                ELSE submitted.priority = byDay
=============================================================================
