SPECIFICATION Spec
CONSTANTS
    Parts = {"udp", "udpsend", "arp", "ping", "echo", "tftp", "lookup", "eth"}
    UdProc = {p1, p2}
    UDP_SLOTS = 2
    UDP_QSIZ = 2
    UdBufs = 5
    UdEnds <- Ends
    UdPkts <- Pkts
    IcProc = {p1, p2}
    ICMP_SLOTS = 3
    ICMP_QSIZ = 2
    IP_OQSIZ = 2
    IcBufs = 4
    IcHosts = {0, 1}
    IcIdents = {0}
    ArProc = {p1, p2}
    ARP_SIZ = 2
    ARP_RETRY = 2
    ArHosts = {1, 2, 3}
    ArVersions = {1, 2}
    NcProc = {p1, p2}
    NcSlots = 2
    TfFile <- File
    TFTP_MAXDATA = 2
    TfSizes = {3, 6}
    TFTP_MAXRETRIES = 2
    TfSessions = 2
    DhServers = {s1}
    DHCP_RETRY = 2
    DhReads = 2
    DnNames <- Names
    DnLong <- Long
    DNSRETRY = 2
    EthProc = {p1, p2}
    E1000_RX_RING_SIZE = 4
    E1000_TX_RING_SIZE = 2
    E1000_RING_BOUNDARY = 2
    EthFrames = {1, 2}

INVARIANTS
    UdInv
    IcInv
    ArInv
    NcInv
    EthInv

CHECK_DEADLOCK FALSE
SYMMETRY Symmetry
