CONSTANTS
    Null = Null
    Snapshots <- MCSnapshots
    Outages = {120}
    Steps <- MCSteps
    EvalThreads = 2
    StoreMayFail = TRUE
    MaxTime = 120
SPECIFICATION Spec
INVARIANTS TypeOK IdleIsClean ScheduledIsWaiting DurableTracker NoNewsNoEvent StartIsTheAnnouncedOne
