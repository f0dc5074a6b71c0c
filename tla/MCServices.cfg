SPECIFICATION Spec
CONSTANTS
    Parts = {"ports", "memory", "bufpool", "marks", "ttyin", "ttyout"}
    PtProc = {p1, p2, p3}
    NPORTS = 2
    PtNodes = 2
    PtSems = 3
    PtCounts = {2}
    MaxPtSeq = 2
    MB = 2
    minheap = 3
    maxheap = 28
    HOLESTART = 10
    HOLEEND = 14
    NULLSTK = 3
    Requests = {0, 1, 3, 4, 6}
    BpProc = {p1, p2, p3}
    NBPOOLS = 2
    BpMem = 3
    BpSems = 2
    BpSizes = {0, 1, 2}
    MkProc = {p1, p2, p3}
    MkLoc = {a, b, c}
    MkJunk = {0}
    MAXMARK = 2
    TyReader = {p1}
    TyWriter = {p2, p3}
    TY_IBUFLEN = 3
    TY_OBUFLEN = 2
    TY_EBUFLEN = 3
    UART_FIFO_SIZE = 1
    TyKeys <- TtyKeys
    TyModes = {"R", "C", "K"}
    TyCounts = {2}

INVARIANTS
    PtInv
    MemInv
    BpInv
    MkInv
    TtyInv

PROPERTIES
    StepsAsSpecified
    CallsReturn

CHECK_DEADLOCK FALSE
