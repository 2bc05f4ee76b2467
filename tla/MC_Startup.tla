----------------------------- MODULE MC_Startup -----------------------------
(***************************************************************************)
(* Instance of Startup for TLC: a washer and a dryer, and each setting     *)
(* absent, blank, at the edges of its range, outside it and meaningless.   *)
(***************************************************************************)
EXTENDS Startup, MC_Environment

MCApps == {"washer", "dryer"}

Both == Basic @@ Var("DRYER", "IP", Word("host"))

Off(kind) == Var(kind, "ENABLED", Word("off"))

\* Settings that are accepted next to Both, and that are not.
Good ==
    {Empty, Var("DRYER", "IP", Blank), Off("DRYER"), Off("WASHER"),
     Var("WASHER", "PORT", Number(65535)), Var("WASHER", "PORT", Blank),
     Var("WASHER", "DTLS_LOCAL_PORT", Word("random")),
     Var("WASHER", "DTLS_LOCAL_PORT", Word("none")) @@ Var("DRYER", "DTLS_LOCAL_PORT", Raw("0", 0, <<>>)),
     Off("DRYER") @@ Var("DRYER", "DTLS_LOCAL_PORT", Number(49700)),
     Off("DRYER") @@ Var("DRYER", "PORT", Number(0)),
     Off("WASHER") @@ Var("WASHER", "COURSE_NAMES", Pairs(<<Course("XY", FALSE, "Eco")>>)),
     Var("WASHER", "COURSE_NAMES", Pairs(<<Course("1C", TRUE, "Eco"), Course("1C", TRUE, "Wool")>>)),
     Var("PUSHOVER", "TOKEN", Blank) @@ Var("PUSHOVER", "TOKEN_FILE", File(<<Word("secret")>>)),
     Var("PUSHOVER", "USER_FILE", File(<<>>)), Var("", "STARTUP_NOTIFY", Word("yes")),
     Var("", "LOG_LEVEL", Word("debug")), Var("", "OFFLINE_AFTER_S", Number(60)),
     Var("", "HEARTBEAT_PATH", Word("beat")), Var("", "HEARTBEAT_PATH", Word("")),
     Var("", "HEARTBEAT_PATH", [Word("beat") EXCEPT !.padded = TRUE])}

Faulty ==
    {Off("WASHER") @@ Off("DRYER"), Var("WASHER", "IP", Blank) @@ Var("WASHER", "ENABLED", Word("on")),
     Var("DRYER", "ENABLED", Word("maybe")), Var("DRYER", "PORT", Number(0)),
     Var("DRYER", "DTLS_LOCAL_PORT", Number(49700)),
     Var("DRYER", "COURSE_NAMES", Pairs(<<Course("XY", FALSE, "Eco")>>)),
     Var("PUSHOVER", "TOKEN", Blank),
     Var("PUSHOVER", "USER", Blank) @@ Var("PUSHOVER", "USER_FILE", File(<<>>)),
     Var("PUSHOVER", "USER", Blank) @@ Var("PUSHOVER", "USER_FILE", File(<<Word("")>>)),
     Var("", "STARTUP_NOTIFY", Word("maybe")), Var("", "LOG_LEVEL", Word("loud")),
     Var("", "OFFLINE_AFTER_S", Number(59)), Var("", "PING_INTERVAL_S", Word("soon")),
     Var("", "QUIET_HOURS", Hours(24, 1, 7, 0)), Var("", "QUIET_HOURS", Word("night")),
     Var("", "EVENT_PRIORITIES", Pairs(<<Pair("alarm", Null)>>)),
     Var("", "QUIET_PRIORITY", Number(2))}

MCEnvironments == {set @@ Both : set \in Good \cup Faulty}

\* No file, one that cannot be read, and one that changes only what is not set.
MCEnvFiles ==
    {<<>>, Null,
     <<[name |-> <<"", "HEARTBEAT_PATH">>, value |-> [Word("filed") EXCEPT !.padded = TRUE]],
       [name |-> <<"", "HEARTBEAT_PATH">>, value |-> Word("late")],
       [name |-> <<"DRYER", "ENABLED">>, value |-> Word("no")]>>}
=============================================================================
