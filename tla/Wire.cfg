SPECIFICATION FairSpec
CONSTANTS
    IdLen = 2
    LenLen = 2
    Base = 2
    Files <- MCFiles
INVARIANTS
    IInv
    NameIntact
    StoredIsSent
PROPERTIES
    HandlerEnds
    SentIsStored
    ImplementsConnection
