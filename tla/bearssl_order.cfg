SPECIFICATION Spec
CONSTANTS
    Flight <- Session
    Body = 2
    AccumSize = 9
    MaxFeedLoops = 4
    MaxSegment = 10
    SndBuf = 3
    MaxRecord = 2
    MaxWrites = 0
INVARIANTS
    FedInOrder
CHECK_DEADLOCK FALSE
