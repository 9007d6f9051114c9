SPECIFICATION FairSpec
CONSTANTS
    Threads = {t1, t2, t3, t4}
    Nodes = {n1}
    Fds = {f1, f2, f3}
    maxConnPerNode = 2
    NoNode = NoNode
    NoFd = NoFd
INVARIANTS TypeOK OneOwner NoLeak QuotaExact NoLostWakeup
PROPERTIES LeaseSpec BorrowEnds
