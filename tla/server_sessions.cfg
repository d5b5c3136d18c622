SPECIFICATION TlsSpec
CONSTANTS
    l1 = l1
    q1 = q1
    NULL = NULL
    Listeners = {l1}
    Conns = {q1}
    HandlerDoes <- Keeps
    Pems <- OneCert
    MaxGen = 1
    MaxCut = 0
INVARIANTS
    SessionsActive
CHECK_DEADLOCK FALSE
