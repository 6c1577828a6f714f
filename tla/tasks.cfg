SPECIFICATION LogSpec
CONSTANTS
    Controllers = {c1}
    Workers = {w1}
    Nobody = Nobody
    Tasks = {t1, t2, t3, setLine, byeLine}
    Main = c1
    SetLine = setLine
    ByeLine = byeLine
CHECK_DEADLOCK FALSE
INVARIANTS TasksConserved WritesOpenFile
PROPERTIES FileComplete IsExecutor
