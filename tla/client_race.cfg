SPECIFICATION Spec
CONSTANTS
    Messages = {m1, m2}
    Slots = 2
    Junk = Junk
INVARIANT AcceptedIsSent
CHECK_DEADLOCK FALSE
