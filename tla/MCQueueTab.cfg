SPECIFICATION Spec
CONSTANTS
    NPROC = 3
    NSEM = 1
    Keys = {1, 2}
    Delays = {1, 2}

INVARIANT TableOK

PROPERTY ImplementsQueues
