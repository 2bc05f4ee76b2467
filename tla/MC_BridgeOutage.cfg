CONSTANTS
    Null = Null
    Timeline <- MCTimeline
    PollPaths = {"state"}
    Sweeps = FALSE
    ChangesWhileUp = FALSE
    SeedMayFail = FALSE
    OutageS = 900
    MaxSessions = 2
SPECIFICATION Spec
INVARIANTS
    OutageIsCounted
CHECK_DEADLOCK FALSE
