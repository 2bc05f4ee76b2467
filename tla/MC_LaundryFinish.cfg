CONSTANTS
    Null = Null
    Snapshots <- MCSnapshots
    Outages = {}
    Steps <- MCSteps
    Skews <- MCSkews
    EvalThreads = 1
    StoreMayFail = FALSE
    MaxTime = 360
    CycleMinutes = 3
    DelayMinutes = 1
    SilentMinutes = 1
    MaxCycles = 2
    MayCrash = FALSE
SPECIFICATION WSpec
INVARIANTS
    FinishIsTold
CHECK_DEADLOCK FALSE
