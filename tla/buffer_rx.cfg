SPECIFICATION FairSpec
CONSTANTS
    Terminators = {2, 4}
    MaxRead = 2
    MaxPbuf = 3
    MaxBytes = 5
INVARIANTS
    TypeOK
    RxOrdered
    ResultExact
PROPERTIES
    RxKept
    RxReturns
CHECK_DEADLOCK FALSE
