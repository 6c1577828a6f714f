SPECIFICATION MCSpec
CONSTANTS
    Clients = {c1, c2}
    Timeout = 2
    Null = Null
CHECK_DEADLOCK FALSE
INVARIANTS ListFresh
PROPERTIES NoEarlyDrop StoppedEnds
