SPECIFICATION Spec
CONSTANTS
    Mss = 2
    SndBuf = 3
    NetStates <- RouteLost
    Deletes <- Keep
    MaxBytes = 4
INVARIANTS
    StreamIntact
CHECK_DEADLOCK FALSE
