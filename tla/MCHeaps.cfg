SPECIFICATION MCSpec
CONSTANTS
    NUSER = 1
    PTSIZE = 4
    XPDE = 1
    NFFS = 2
    NPT = 3
    SYSFRAMES = 3
    Junk = {}
    Requests = {1,3,6,8,10}
    Calls <- AllCalls

INVARIANTS
    PagesExclusive
    HeapConsistent
