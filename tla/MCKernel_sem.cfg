SPECIFICATION Spec
CONSTANTS
    NPROC = 4
    NSEM = 1
    QUANTUM = 2
    StartPrio <- SemPrios
    NSTK = 4
    MaxCount = 2
    Prios = {}
    Counts = {0, 2}
    Delays = {}
    Msgs = {}
    Ops <- SemOps

INVARIANTS
    IInv
    QueuesMatchStates
    DeferralEnds
    HighestPriorityRuns
    CountsMatchQueues

PROPERTY ServedInOrder
