SPECIFICATION Spec
CONSTANTS
    Threads = {c1}
    Workers = {w1}
    Nobody = Nobody
    CanExit = TRUE
PROPERTY ExitReturns
CHECK_DEADLOCK FALSE
