SPECIFICATION Spec
CONSTANTS
    p1 = p1
    NULL = NULL
    Pcbs = {p1}
    App <- AbortingApp
    DataHandlers <- OnData
    Overlap = FALSE
    Polite = FALSE
    AckTimeout = 1
    RxTimeout = 2
    SndBuf = 1
    RcvWnd = 2
    MaxChain = 2
    RxBound = 2
    TxBound = 1
INVARIANTS
    AbortReportedOnce
CHECK_DEADLOCK FALSE
