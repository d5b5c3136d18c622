SPECIFICATION TlsFairSpec
CONSTANTS
    p1 = p1
    p2 = p2
    NULL = NULL
    Pcbs = {p1, p2}
    App <- LiveApp
    DataHandlers <- OnData
    TlsModes = {TRUE}
    Overlap = TRUE
    Polite = TRUE
    AckTimeout = 2
    RxTimeout = 3
    HandshakeTimeout = 2
    MaxRuns = 1
    SndBuf = 1
    RcvWnd = 1
    MaxChain = 1
    RxBound = 1
    TxBound = 1
PROPERTIES
    CloseHonoured
    BusyEnds
    SilentPeerDropped
CHECK_DEADLOCK FALSE
