SPECIFICATION FairSpec
CONSTANTS
    Mss = 2
    SndBuf = 3
    NetStates <- LowMemory
    Deletes <- Either
    MaxBytes = 7
INVARIANTS
    TypeOK
    StreamIntact
    NoneStranded
PROPERTIES
    FlushComplete
    Delivered
    FlushReturns
CHECK_DEADLOCK FALSE
