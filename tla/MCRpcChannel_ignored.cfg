SPECIFICATION FairSpec
CONSTANTS
    n1 = n1
    n2 = n2
    m1 = m1
    m2 = m2
    Threads = {t1, t2}
    Nodes <- MCNodes
    Fds = {f1, f2}
    Methods <- MCMethods
    maxConnPerNode = 1
    NoNode = NoNode
    NoFd = NoFd
    NoMethod = NoMethod
    Malformed = Malformed
    Registered <- MCRegistered
    Offers <- MCOffers
    Controllers = {TRUE}
    MaxCalls = 2
    MaxFaults = 1
PROPERTY CallEnds
CHECK_DEADLOCK FALSE
