SPECIFICATION Spec
CONSTANTS
    NPROC = 4
    NSEM = 1
    QUANTUM = 1
    StartPrio <- ExitPrios
    NSTK = 3
    MaxCount = 2
    Prios = {1}
    Counts = {}
    Delays = {}
    Msgs = {}
    Ops <- ExitOps

INVARIANTS
    EndsWithTheLast
    StacksExclusive
