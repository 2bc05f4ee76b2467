CONSTANTS
    Null = Null
    Timeline <- MCTimeline
    PollPaths = {"state"}
    Sweeps = TRUE
    ChangesWhileUp = TRUE
    SeedMayFail = TRUE
    OutageS = 30
    MaxSessions = 2
SPECIFICATION FairSpec
INVARIANTS
    NoLostChange
PROPERTIES
    BaselineIsWhole
    HoldUnlessTimer
    FreshInTheEnd
CHECK_DEADLOCK FALSE
