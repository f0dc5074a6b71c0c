SPECIFICATION FairSpec
CONSTANTS
    NPROC = 4
    NSEM = 1
    QUANTUM = 1
    StartPrio <- FairPrios
    NSTK = 4
    MaxCount = 2
    Prios = {}
    Counts = {}
    Delays = {1, 2}
    Msgs = {7}
    Ops <- FairOps

PROPERTIES
    SleepersWake
    ReadyRuns
    SleepQueueKeepsTime
