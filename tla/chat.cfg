SPECIFICATION MCSpec
CONSTANTS
    Sessions = {s1, s2}
    MCClient = s1
    MaxRecent = 2
    Garbage = Garbage
    MaxMessages = 3
    All = All
    Gone = Gone
    MaxCommands = 1
    MaxLines = 2
CHECK_DEADLOCK FALSE
INVARIANTS WriteUnderWay StoredUnlessNamed OneWrite
PROPERTIES IsChatLog LineShown CloseReturns
