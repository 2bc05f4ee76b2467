CONSTANTS
    Null = Null
    Bad = Bad
    Contents <- MCContents
    Others <- MCOthers
    Reports <- MCReports
    Environments <- MCEnvironments
    StartMinute = 1438
    RepeatWindow = 2
    MaxPerWindow = 2
    Steps = {1}
    MaxTime = 3
SPECIFICATION DSpec
INVARIANTS
    SameAlarmSpaced
    WindowBounded
    DecidesAsHistory
    MemoryBounded
    PriorityAsDocumented
PROPERTIES
    GatesAreThrottles
    JudgedIsTold
CHECK_DEADLOCK FALSE
