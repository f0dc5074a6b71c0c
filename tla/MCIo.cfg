SPECIFICATION Spec
CONSTANTS
    LfProc = {p1, p2}
    Nlfl = 2
    LF_NUM_DIR_ENT = 2
    LF_BLKSIZ = 2
    LF_IBLEN = 1
    IbSectors = 1
    IbPerSector = 2
    DataBlocks = 2
    LfNames = {a, b}
    LfModes <- LModes
    LfBytes = {"x"}
    LfOffsets = {0}
    MaxFileSize = 3
    MaxTruncs = 1
    RdProc = {p1, p2}
    RD_QNODES = 3
    RD_CNODES = 1
    RD_RETRIES = 2
    RdBlk = {a, b}
    RdData = {0, 1}
    RdOps = {"read", "write", "sync"}
    MaxRdCalls = 4
    RfProc = {p1, p2}
    RfDev = {0, 1}
    RF_RETRIES = 2
    RfNames = {f}
    RfModes <- RModes
    RfByte = {1, 2}
    RfCounts = {1}
    RfSeeks = {0, 2}
    RfMaxSize = 2
    MaxRfSeq = 3
    NM_PRELEN = 3
    NM_REPLLEN = 5
    NM_MAXLEN = 6
    NNAMES = 3
    CHARHALF = 4
    NamChars = {"a", "b"}
    NamDevs = {"d1", "d2"}
    NamBoots <- Boots
    NamMounts <- Mounts
    NamNames <- NameStrings
    SHELL_BUFLEN = 11
    SHELL_MAXTOK = 6
    ShellFirst = TRUE
    ShCmds <- Cmds
    ShBuiltins <- Builtins
    ShLines <- Lines
    ShPids = {q1, q2}
    ShDescs = {d1, d2, d3}
    ShTty = dev
    ShFail = SYSERR
    ShNone = none

INVARIANTS
    LfInv
    RdInv
    RfInv
    NamInv
    LinesInv
    ShInv

CHECK_DEADLOCK FALSE
SYMMETRY Symmetry
