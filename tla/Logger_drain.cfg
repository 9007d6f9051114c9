SPECIFICATION Spec
CONSTANTS
    Threads = {t1, t2}
    MaxLogs = 2
    LastDay = 1
INVARIANT DrainedAtStop
