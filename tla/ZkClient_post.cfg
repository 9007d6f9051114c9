SPECIFICATION Spec
CONSTANTS
    Clients = {c1, c2}
    MaxDrops = 2
INVARIANT FindsSemaphore
