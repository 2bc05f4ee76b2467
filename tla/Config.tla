------------------------------- MODULE Config -------------------------------
(***************************************************************************)
(* The configuration (config.py, kinds.py, load_env_file of cli.py): what  *)
(* the program makes of its environment.  These are pure functions; a      *)
(* ConfigError is the value Bad.                                           *)
(*                                                                         *)
(* An environment maps names, written as <<prefix, rest>>, to raw values.  *)
(* A raw value carries what the parsers find in its text: the word it is   *)
(* when stripped, whether there was anything to strip, the number it reads *)
(* as (Null if it is none) and its parts, split as the parser of that      *)
(* variable splits it.                                                     *)
(***************************************************************************)
EXTENDS ApplianceState, SequencesExt

CONSTANT Bad

ASSUME ConfigAssumption == Bad # Null /\ Bad \notin Int /\ Bad \notin BOOLEAN

DEFAULT_EVENTS ==
    {"cycle_scheduled", "cycle_started", "cycle_finished", "cycle_paused", "cycle_cancelled",
     "alarm", "alarm_cleared"}

ALL_EVENTS ==
    DEFAULT_EVENTS \cup {"cycle_resumed", "phase_changed", "power_on", "power_off",
                         "remote_control", "child_lock", "offline", "online", "startup"}

Priorities == -2..1

KIND_SPECS ==
    [washer |-> [prefix |-> "WASHER", default_local_port |-> 49700],
     dryer  |-> [prefix |-> "DRYER",  default_local_port |-> 49701]]

KINDS == <<"washer", "dryer">>

-----------------------------------------------------------------------------
Stripped(raw) == [raw EXCEPT !.padded = FALSE]

\* _env(): a blank value counts as none.
Env(env, prefix, rest) ==
    IF <<prefix, rest>> \notin DOMAIN env THEN Null
    ELSE IF env[<<prefix, rest>>].word = "" THEN Null ELSE Stripped(env[<<prefix, rest>>])

\* _secret(): the value, or the file that NAME_FILE names (without parts: unreadable).
Secret(direct, file) ==
    IF direct # Null THEN direct
    ELSE IF file = Null THEN Null
    ELSE IF file.parts = <<>> THEN Bad
    ELSE IF file.parts[1].word = "" THEN Null ELSE file.parts[1]

EnvBool(raw, default) ==
    IF raw = Null THEN default
    ELSE IF raw.word \in {"1", "true", "yes", "on"} THEN TRUE
    ELSE IF raw.word \in {"0", "false", "no", "off"} THEN FALSE
    ELSE Bad

\* _env_int() with the range its callers check.
EnvNumber(raw, default, range) ==
    IF raw = Null THEN default
    ELSE IF raw.number # Null /\ raw.number \in range THEN raw.number ELSE Bad

EnvPort(raw, default) == EnvNumber(raw, default, 1..65535)

LocalPort(raw, default) ==
    IF raw # Null /\ raw.word \in {"0", "none", "random"} THEN Null ELSE EnvPort(raw, default)

EnvPriority(raw, default) == EnvNumber(raw, default, Priorities)

\* _env_float(): accepts the text as a finite number that is not below the minimum.
FloatOk(raw, minimum) == raw = Null \/ (raw.number # Null /\ raw.number >= minimum)

\* The settings it reads, with their minimums (rounded up to whole seconds).
Tuning ==
    [ALARM_REPEAT_S |-> 0, OFFLINE_AFTER_S |-> 60, HEALTH_INTERVAL_S |-> 30,
     PING_INTERVAL_S |-> 5, HOT_POLL_S |-> 1, HOT_POLL_ACTIVE_S |-> 1]

LOG_LEVELS == {"debug", "info", "warning", "error"}

(***************************************************************************)
(* The parsers.  Parts of a list are [key, value]; a blank one has no key. *)
(***************************************************************************)
Items(raw) == {i \in DOMAIN raw.parts : raw.parts[i].key # Null}

ParseEvents(raw) ==
    IF raw = Null THEN DEFAULT_EVENTS
    ELSE IF raw.word = "all" THEN ALL_EVENTS
    ELSE LET named == {raw.parts[i].key : i \in Items(raw)}
         IN IF named \subseteq ALL_EVENTS THEN named ELSE Bad

\* key=value pairs; of two with one key the later counts.
ParsePairs(raw, Valid(_)) ==
    IF raw = Null THEN [key \in {} |-> Null]
    ELSE IF \E i \in Items(raw) : ~Valid(raw.parts[i]) THEN Bad
    ELSE LET With(key) == {i \in Items(raw) : raw.parts[i].key = key}
             last(key) == CHOOSE i \in With(key) : \A j \in With(key) : j <= i
         IN [key \in {raw.parts[i].key : i \in Items(raw)} |-> raw.parts[last(key)].value]

ValidPriority(item) ==
    item.key \in ALL_EVENTS /\ item.value # Null /\ item.value \in Priorities

ParsePriorities(raw) == ParsePairs(raw, ValidPriority)

\* The code of a course is hexadecimal; the value is Null where a name is missing.
ValidCourse(item) == item.hex /\ item.value # Null

ParseCourseNames(raw) == ParsePairs(raw, ValidCourse)

HHMM(t) ==
    IF t.hour > 24 \/ t.minute > 59 \/ (t.hour = 24 /\ t.minute # 0) THEN Bad
    ELSE (60 * t.hour + t.minute) % 1440

\* Without two times in it the text is no window; from = to means never.
ParseQuietHours(raw) ==
    IF raw = Null THEN Null
    ELSE IF Len(raw.parts) # 2 \/ Bad \in {HHMM(t) : t \in ToSet(raw.parts)} THEN Bad
    ELSE LET window == <<HHMM(raw.parts[1]), HHMM(raw.parts[2])>>
         IN IF window[1] = window[2] THEN Null ELSE window

\* Mutant: a window never wraps past midnight.
InQuietHoursUnwrapped(window, minute) ==
    window # Null /\ window[1] <= minute /\ minute < window[2]

InQuietHours(window, minute) ==
    /\ window # Null
    /\ IF window[1] < window[2] THEN window[1] <= minute /\ minute < window[2]
       ELSE minute >= window[1] \/ minute < window[2]

-----------------------------------------------------------------------------
ApplianceSettings(env, kind) ==
    LET v(rest) == Env(env, KIND_SPECS[kind].prefix, rest)
    IN [kind            |-> kind,
        ip              |-> IF v("IP") = Null THEN Bad ELSE v("IP"),
        port            |-> EnvPort(v("PORT"), Null),
        course_names    |-> ParseCourseNames(v("COURSE_NAMES")),
        dtls_local_port |-> LocalPort(v("DTLS_LOCAL_PORT"), KIND_SPECS[kind].default_local_port)]

Enabled(env, kind) ==
    LET v(rest) == Env(env, KIND_SPECS[kind].prefix, rest)
    IN EnvBool(v("ENABLED"), v("IP") # Null)

AnyBad(settings) == \E f \in DOMAIN settings : settings[f] = Bad

\* Mutant: reads the ports before it asks whether the appliance is on.
ApplianceFromEnvEager(env, kind) ==
    LET app == ApplianceSettings(env, kind)
    IN IF Enabled(env, kind) = Bad \/ app.port = Bad \/ app.dtls_local_port = Bad THEN Bad
       ELSE IF ~Enabled(env, kind) THEN Null
       ELSE IF AnyBad(app) THEN Bad ELSE app

\* ApplianceConfig.from_env(): of an appliance that is off nothing else is read.
ApplianceFromEnv(env, kind) ==
    LET app == ApplianceSettings(env, kind)
    IN IF Enabled(env, kind) = Bad THEN Bad
       ELSE IF ~Enabled(env, kind) THEN Null
       ELSE IF AnyBad(app) THEN Bad ELSE app

\* Two appliances with the same fixed local port.
PortsCollide(apps) ==
    \E i, j \in DOMAIN apps :
        i # j /\ apps[i].dtls_local_port # Null
        /\ apps[i].dtls_local_port = apps[j].dtls_local_port

Appliances(env) ==
    SelectSeq([i \in DOMAIN KINDS |-> ApplianceFromEnv(env, KINDS[i])], LAMBDA app : app # Null)

Events(env) ==
    LET chosen  == ParseEvents(Env(env, "", "EVENTS"))
        startup == EnvBool(Env(env, "", "STARTUP_NOTIFY"), FALSE)
    IN IF Bad \in {chosen, startup} THEN Bad
       ELSE IF startup THEN chosen \cup {"startup"} ELSE chosen

\* The fields of Config that the modules use.
Settings(env) ==
    LET v(rest)  == Env(env, "", rest)
        pv(rest) == Env(env, "PUSHOVER", rest)
    IN [appliances              |-> Appliances(env),
        pushover_priority       |-> EnvPriority(pv("PRIORITY"), 0),
        pushover_alarm_priority |-> EnvPriority(pv("ALARM_PRIORITY"), 1),
        events                  |-> Events(env),
        event_priorities        |-> ParsePriorities(v("EVENT_PRIORITIES")),
        quiet_hours             |-> ParseQuietHours(v("QUIET_HOURS")),
        quiet_priority          |-> EnvPriority(v("QUIET_PRIORITY"), -1),
        heartbeat_path          |-> v("HEARTBEAT_PATH")]

\* Config.from_env().
FromEnv(env) ==
    LET v(rest)  == Env(env, "", rest)
        pv(rest) == Env(env, "PUSHOVER", rest)
        apps     == Appliances(env)
        secrets  == {Secret(pv("TOKEN"), pv("TOKEN_FILE")), Secret(pv("USER"), pv("USER_FILE"))}
        level    == v("LOG_LEVEL")
    IN IF \/ Bad \in ToSet(apps) \/ apps = <<>> \/ PortsCollide(apps)
          \/ secrets \cap {Null, Bad} # {}
          \/ level # Null /\ level.word \notin LOG_LEVELS
          \/ \E f \in DOMAIN Tuning : ~FloatOk(v(f), Tuning[f])
          \/ AnyBad(Settings(env))
       THEN Bad ELSE Settings(env)

\* priority_for(), for an event without a hint of its own (no event has one).
PriorityFor(cfg, kind, minute) ==
    LET base   == IF kind = "alarm" THEN cfg.pushover_alarm_priority ELSE cfg.pushover_priority
        chosen == IF kind \in DOMAIN cfg.event_priorities THEN cfg.event_priorities[kind] ELSE base
    IN IF kind # "alarm" /\ InQuietHours(cfg.quiet_hours, minute) /\ cfg.quiet_priority < chosen
       THEN cfg.quiet_priority ELSE chosen

\* load_env_file(): the environment wins, and of two lines with one key the first.
\* Lines that are blank, comments or without "=" are left out of the file.
LoadEnvFile(env, lines) ==
    LET With(name)  == {i \in DOMAIN lines : lines[i].name = name}
        first(name) == CHOOSE i \in With(name) : \A j \in With(name) : i <= j
    IN [name \in DOMAIN env \cup {lines[i].name : i \in DOMAIN lines} |->
          IF name \in DOMAIN env THEN env[name] ELSE Stripped(lines[first(name)].value)]
=============================================================================
