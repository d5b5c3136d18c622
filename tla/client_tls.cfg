SPECIFICATION TlsSpec
CONSTANTS
    p1 = p1
    p2 = p2
    NULL = NULL
    Pcbs = {p1, p2}
    App <- LifeApp
    DataHandlers <- OnData
    TlsModes = {TRUE, FALSE}
    Overlap = FALSE
    Polite = FALSE
    AckTimeout = 1
    RxTimeout = 3
    HandshakeTimeout = 2
    MaxRuns = 2
    SndBuf = 3
    RcvWnd = 2
    MaxChain = 2
    RxBound = 2
    TxBound = 2
INVARIANTS
    TlsTypeOK
    NoStaleSession
    SessionOwned
    SessionWorks
    HandshakeBounded
    PcbUsable
    CallbacksOwned
    NoDanglingTlsFrame
    AbortReportedOnce
    AckPending
    DisconnectOnce
PROPERTIES
    SilentAfterDisconnect
    Lifecycle
SYMMETRY PcbSymmetry
CHECK_DEADLOCK FALSE
