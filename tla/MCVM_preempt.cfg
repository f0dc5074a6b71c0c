SPECIFICATION Spec
CONSTANTS
    NUSER = 1
    PTSIZE = 2
    XPDE = 1
    NFFS = 1
    NPT = 3
    SYSFRAMES = 3
    Junk = {}
    Requests = {2}
    Calls <- UserCalls
PROPERTY VmallocReturns
