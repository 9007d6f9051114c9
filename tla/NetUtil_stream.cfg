SPECIFICATION FairSpec
CONSTANTS
    Lens = {0, 1, 3}
    MaxSent = 5
    Capacity = 2
    MaxInterrupts = 1
INVARIANTS InOrder FailsOnlyClosed Delivered
PROPERTY RecvEnds
