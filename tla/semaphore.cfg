SPECIFICATION MCSpec
CONSTANTS
    Threads = {t1, t2, t3, t4}
    MaxWait = 3
INVARIANTS NoLostWakeup
PROPERTIES IsSemaphore
