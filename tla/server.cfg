SPECIFICATION TlsSpec
CONSTANTS
    l1 = l1
    l2 = l2
    l3 = l3
    q1 = q1
    q2 = q2
    NULL = NULL
    Listeners = {l1, l2, l3}
    Conns = {q1, q2}
    HandlerDoes <- Drops
    Pems <- Texts
    MaxGen = 2
    MaxCut = 1
INVARIANTS
    ListenerOwned
    
    SessionFound
SYMMETRY ServerSymmetry
CHECK_DEADLOCK FALSE
