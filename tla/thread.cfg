SPECIFICATION Spec
CONSTANTS
    Threads = {c1, c2}
    Workers = {w1, w2, w3}
    Nobody = Nobody
    CanExit = TRUE
CHECK_DEADLOCK FALSE
INVARIANTS OneWorker
PROPERTIES CloseJoins CloseReturns
