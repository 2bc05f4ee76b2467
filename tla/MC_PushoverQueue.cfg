CONSTANTS
    Null = Null
    MaxAttempts = 2
    ResetTimes = {1, 2}
    MaxNotes = 3
    MaxTime = 2
SPECIFICATION FairSpec
INVARIANTS
    RepeatsAreLostAnswers
    DrainedUnlessAborted
PROPERTIES
    IsOutbox
    AllHandled
CHECK_DEADLOCK FALSE
