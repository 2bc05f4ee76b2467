CONSTANTS
    Null = Null
    OfflineAfter = 3
SPECIFICATION Spec
INVARIANTS
    EveryOutageReported
