SPECIFICATION FairSpec
CONSTANTS
    Flight <- Session
    Body = 2
    AccumSize = 9
    MaxFeedLoops = 4
    MaxSegment = 10
    SndBuf = 3
    MaxRecord = 2
    MaxWrites = 3
INVARIANTS
    TypeOK
    StreamExact
    AllReported
PROPERTIES
    Pumped
    ImplementsStream
    ReadReturns
CHECK_DEADLOCK FALSE
