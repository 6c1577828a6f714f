SPECIFICATION Spec
CONSTANTS
    NumServers = 2
    Clients = {c1, c2}
    Fds = {f1, f2}
    NoClient = NoClient
    Unborn = Unborn
    Deleted = Deleted
    CanFail = TRUE
INVARIANTS TablesLive BakCurrent NoneForgotten CountJoined NoUseAfterDelete CloseReleases
PROPERTIES BufferedJoins CloseReturns
CHECK_DEADLOCK FALSE
