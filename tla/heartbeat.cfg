SPECIFICATION MCSpec
CONSTANTS
    Clients = {c1, c2}
    DeadTime = 4
    MaxRound = 2
    MaxTime = 9
INVARIANTS DroppedInTime
PROPERTIES NoEarlyDrop
