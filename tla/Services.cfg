SPECIFICATION Services
CONSTANTS
    p1 = p1
    p2 = p2
    n1 = n1
    n2 = n2
    Procs = {p1, p2}
    InitProc = p1
    MAX_OPEN = 2
    FIRST_FD = 0
    NSlots = 2
    Nodes = {n1, n2}
    MAX_PIPES = 1
    PIPE_BUF_SIZE = 2
    Backends = {"biscuit"}
    PollFds <- WatchedFds
    Callers = {1}
    Timeouts <- WatchTimes
    ENTRIES = 2
    HOOK_BUF = 4
    LINE = 2
    DISK_ROOM = 4
    DebugBuild = TRUE
    BufSizes = {1, 4, 6}
    MaxSeq = 4
    MaxTyped = 4
    MaxErrors = 1
    ARP_TABLE_SIZE = 2
    LOOPBACK_QUEUE_LEN = 3
    Neighbours = {"h", "g"}
    Gateway = "g"
    Remotes = {"r"}
    Macs = {"m1", "m2"}
    Self = "me"
    Loop = "lo"
    MaxSelfSends = 2
INVARIANTS
    DescriptorsExact
    LogSound
PROPERTIES
    ReaderReleased
    SelectRight
    
    PacketsArrive
