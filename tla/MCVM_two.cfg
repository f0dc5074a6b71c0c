SPECIFICATION UserSpec
CONSTANTS
    NUSER = 2
    PTSIZE = 2
    XPDE = 1
    NFFS = 2
    NPT = 5
    SYSFRAMES = 3
    Junk = {1}
    Requests = {2,4}
    Calls <- UserCalls

INVARIANTS
    PagesExclusive
    NothingLost
    OwnDirectory
