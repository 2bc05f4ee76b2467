CONSTANTS
    Null = Null
    Bad = Bad
    Apps <- MCApps
    Environments <- MCEnvironments
    EnvFiles <- MCEnvFiles
    MaxSignals = 2
    MayDie = TRUE
SPECIFICATION FairSSpec
INVARIANTS
    NoSessionLeaks
    HealthcheckSeesTheHeartbeat
    SwitchedOffIsIgnored
PROPERTIES
    OneSession
    StopCompletes
    DeadBridgeIsSeen
CHECK_DEADLOCK FALSE
