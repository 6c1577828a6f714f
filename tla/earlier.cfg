SPECIFICATION MCSpec
CONSTANTS
    c1 = c1
    c2 = c2
    t1 = t1
    silent = silent
    NumServers = 2
    Clients = {c1, c2, silent}
    NoClient = NoClient
    Length = 2
    RecvSize = 3
    MsgSize = 4
    CanFail = {0, 1}
    Threads = {t1}
    Mine <- MCMine
    Batch = 2
    Window = 3
CHECK_DEADLOCK FALSE
INVARIANTS CountHeld WatchesAll StreamWhole
PROPERTIES HangupNoticed
