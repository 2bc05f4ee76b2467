CONSTANTS
    Null = Null
    Timeline <- MCFlap
    PollPaths = {"state"}
    Sweeps = TRUE
    ChangesWhileUp = TRUE
    SeedMayFail = FALSE
    OutageS = 30
    MaxSessions = 1
SPECIFICATION Spec
PROPERTIES
    StaleSweepIsNotJudged
CHECK_DEADLOCK FALSE
