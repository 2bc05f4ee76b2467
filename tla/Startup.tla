------------------------------ MODULE Startup ------------------------------
(***************************************************************************)
(* main() of cli.py: from the command line and the environment to an exit  *)
(* code, or to the process that Supervisor models.                         *)
(***************************************************************************)
EXTENDS Supervisor, Config

CONSTANTS
    Environments,   \* the environments it may be started in
    EnvFiles        \* what --env-file may name: its lines, Null when unreadable

\* A value that can be read: blanks around it or not.
IsRaw(raw) ==
    /\ raw \in [word : {raw.word}, padded : BOOLEAN, number : {raw.number}, parts : {raw.parts}]
    /\ Stripped(raw) # Null

ASSUME StartupAssumption ==
    /\ Apps = ToSet(KINDS)
    /\ \A e \in Environments : \A name \in DOMAIN e : IsRaw(e[name])
    /\ \A file \in EnvFiles \ {Null} : DOMAIN file \subseteq Nat /\ \A i \in DOMAIN file : IsRaw(file[i].value)

VARIABLES
    command,   \* --test-notify, --dump, --healthcheck or none of them
    env,       \* os.environ
    lines,     \* the file not read yet (none and an empty one are the same)
    beats,     \* the path of the heartbeat
    probes     \* the path a --healthcheck started in the same way looks at

svars == <<vars, command, env, lines, beats, probes>>

Commands ==
    {[option |-> o, kinds |-> {}] : o \in {"run", "test-notify", "healthcheck"}}
    \cup {[option |-> "dump", kinds |-> k] : k \in {Apps} \cup {{b} : b \in Apps}}

DEFAULT_HEARTBEAT_PATH == [word |-> "default heartbeat", padded |-> FALSE]

Path(raw) == [word |-> raw.word, padded |-> raw.padded]

\* Mutant: takes a blank setting for a path.
HealthcheckPathBlank ==
    IF <<"", "HEARTBEAT_PATH">> \notin DOMAIN env THEN DEFAULT_HEARTBEAT_PATH
    ELSE Path(env[<<"", "HEARTBEAT_PATH">>])

\* _healthcheck(): `or` takes the default for a missing and for an empty setting.
HealthcheckPath ==
    IF <<"", "HEARTBEAT_PATH">> \notin DOMAIN env THEN DEFAULT_HEARTBEAT_PATH
    ELSE LET path == Path(env[<<"", "HEARTBEAT_PATH">>])
         IN IF path = [word |-> "", padded |-> FALSE] THEN DEFAULT_HEARTBEAT_PATH ELSE path

SInit ==
    /\ Init
    /\ command \in Commands /\ env \in Environments /\ lines \in EnvFiles
    /\ beats = Null /\ probes = Null

Starting == main = "starting" /\ UNCHANGED command

\* Once main() is past its settings the environment is not read again.
Forget == env' = [name \in {} |-> Null] /\ lines' = <<>>

Return(code) ==
    /\ main' = "exited" /\ rc' = code /\ Forget
    /\ UNCHANGED <<loops, bridges, stack, requested, signals, fresh, beats, probes>>

ReadEnvFile ==
    /\ Starting /\ lines # <<>>
    /\ IF lines = Null THEN Return(1)
       ELSE /\ env' = LoadEnvFile(env, lines) /\ lines' = <<>>
            /\ UNCHANGED <<vars, beats, probes>>

\* What another process has left of the heartbeat.
Healthcheck ==
    /\ Starting /\ lines = <<>> /\ command.option = "healthcheck"
    /\ \E code \in {0, 1} : Return(code)

Configured == lines = <<>> /\ command.option # "healthcheck"

Rejected == Starting /\ Configured /\ FromEnv(env) = Bad /\ Return(1)

\* _test_notify(): accepted, rejected, or Pushover is not reached.
TestNotify ==
    /\ Starting /\ Configured /\ FromEnv(env) # Bad /\ command.option = "test-notify"
    /\ \E code \in {0, 2, 3} : Return(code)

\* _dump(): each selected appliance is read once, in a session of its own that is
\* closed again; the bridge is built without a store and with NullSender.
Dump ==
    /\ Starting /\ Configured /\ FromEnv(env) # Bad /\ command.option = "dump"
    /\ LET selected == {app \in ToSet(FromEnv(env).appliances) : app.kind \in command.kinds}
       IN IF selected = {} THEN Return(1)
          ELSE \E failing \in SUBSET selected : Return(IF failing = {} THEN 0 ELSE 4)

Run ==
    /\ Starting /\ Configured /\ FromEnv(env) # Bad /\ command.option = "run"
    /\ LET cfg == FromEnv(env)
       IN /\ Launch([i \in DOMAIN cfg.appliances |-> cfg.appliances[i].kind])
          /\ beats' = IF cfg.heartbeat_path = Null THEN DEFAULT_HEARTBEAT_PATH
                      ELSE Path(cfg.heartbeat_path)
    /\ probes' = HealthcheckPath /\ Forget

SNext ==
    \/ ReadEnvFile \/ Healthcheck \/ Rejected \/ TestNotify \/ Dump \/ Run
    \/ Next /\ UNCHANGED <<command, env, lines, beats, probes>>

SSpec == SInit /\ [][SNext]_svars

FairSSpec == SSpec /\ Fairness

-----------------------------------------------------------------------------
\* The health check inspects the file that the running process touches, however the
\* path was set, left out, left blank or read from a file (README.md:187), unless its
\* setting is padded with spaces, which only one of the two strips (cli.py:164).
HealthcheckSeesTheHeartbeat == main = "watching" => probes = beats \/ probes.padded

\* An appliance that is switched off decides nothing: without its settings the program
\* would be configured, or rejected, all the same (config.py:316-317).
SwitchedOffIsIgnored ==
    main = "starting" =>
        \A kind \in Apps :
            LET prefix == KIND_SPECS[kind].prefix
                others == {name \in DOMAIN env : name[1] # prefix}
            IN EnvBool(Env(env, prefix, "ENABLED"), TRUE) = FALSE =>
                  FromEnv(env) = FromEnv([name \in others |-> env[name]])
=============================================================================
