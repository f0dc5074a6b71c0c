SPECIFICATION Spec
CONSTANTS
    NPROC = 3
    NSEM = 1
    QUANTUM = 1
    StartPrio <- LifePrios
    NSTK = 3
    MaxCount = 1
    Prios = {1}
    Counts = {0}
    Delays = {1}
    Msgs = {7, 8}
    Ops <- LifeOps

INVARIANTS
    CurrentAndNull
    ReceiveHasMessage

PROPERTIES
    MessageKept
    MessageTaken
