SPECIFICATION Spec
CONSTANTS
    p1 = p1
    NULL = NULL
    Pcbs = {p1}
    App <- StreamingApp
    DataHandlers <- OnDataOrPacket
    Overlap = FALSE
    Polite = FALSE
    AckTimeout = 1
    RxTimeout = 2
    SndBuf = 2
    RcvWnd = 3
    MaxChain = 3
    RxBound = 3
    TxBound = 2
INVARIANTS
    TypeOK
    WindowReturned
    WindowExact
    TxLedger
CHECK_DEADLOCK FALSE
