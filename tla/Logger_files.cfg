SPECIFICATION FairSpec
CONSTANTS
    Threads = {t1, t2}
    MaxLogs = 3
    LastDay = 3
INVARIANTS TypeOK Accounted NoLostWakeup OneStaleDate
PROPERTIES StopEnds AllWritten
