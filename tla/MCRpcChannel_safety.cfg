SPECIFICATION Spec
CONSTANTS
    n1 = n1
    n2 = n2
    m1 = m1
    m2 = m2
    Threads = {t1, t2}
    Nodes <- MCNodes
    Fds = {f1, f2}
    Methods <- MCMethods
    maxConnPerNode = 1
    NoNode = NoNode
    NoFd = NoFd
    NoMethod = NoMethod
    Malformed = Malformed
    Registered <- MCRegistered
    Offers <- MCOffers
    Controllers = {TRUE}
    MaxCalls = 3
    MaxFaults = 1
SYMMETRY Symmetry
INVARIANTS TypeOK StreamOfHolder BorrowReturnPaired RightNode OneLookup StaleCostsOne
CHECK_DEADLOCK FALSE
PROPERTY RemoteSpec
