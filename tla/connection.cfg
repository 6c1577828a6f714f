SPECIFICATION Spec
CONSTANTS
    Kinds <- MCKinds
    Length <- MCLength
    Reply <- MCReply
    NoReply = "none"
    HeaderSize = 2
    RecvSize = 4
    SendSize = 5
    Window = 2
    MaxMessages = 4
INVARIANTS StreamConserved RepliesWhole RefusedOnlyBlocked
PROPERTIES AllHandled
CHECK_DEADLOCK FALSE
