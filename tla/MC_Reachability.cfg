CONSTANTS
    Null = Null
    OfflineAfter = 3
SPECIFICATION FairSpec
INVARIANTS
    TypeOK
    OnceUnlessRaced
    UpIsShownUp
PROPERTIES
    NoEarlyOffline
    OnlineIsOwed
    LastingOutageIsShown
