SPECIFICATION Kernel
CONSTANTS
    Frames = {1, 2, 3, 4, 5}
    Dirs = {1, 2, 3}
    Tasks = {1, 2}
    LAST = 29
    TABLE = 3
    TRAMPOLINE = 26
    MMAP_BASE = 9
    STACK_BASE = 12
    STACK_SIZE = 4
    STACK_STRIDE = 6
    PREFAULT_PAGES = 1
    Images <- UserImages
    Threads = TRUE
    HeapMayFail = TRUE
    TouchedPages = {9}
    MaxMmap = 1
    MaxBrk = 11
    MaxStacks = 2
    HDR = 2
    MIN = 2
    PAGE = 8
    START = 3
    HEAP_SIZE = 32
    AllocSizes = {1, 4}
    MaxLive = 4
    MAX_MODULES = 4
    MAX_DRIVERS = 2
    MAX_KSYMS = 3
    PADDING = 8
    CoreSymbols <- Exports
    BuiltIn <- Drivers
    Absent = {"ata"}
    Files <- ModuleFiles
    DeviceLba <- Devices
    ROOT_LBA = 2
    BOOT_MAX_MOUNTS = 4
    CommandLines <- Lines
    Contents <- Disks
    Fstabs <- Tables
    Runnable <- Shells
    TICKS = 3
    MINUTE = 2
    HOURS = 2
    SYNC = 3
    RETRY = 2
    ATTEMPTS = 2
    MaxTime = 12
    MaxPoll = 5
    Years <- SomeYears
    Formats <- AllFormats
    b1 = b1
    b2 = b2
    v1 = v1
    v2 = v2
    torn = torn
    Blocks = {b1, b2}
    Vals = {v1, v2}
    Torn = torn
    OneSector = {}
    JNL_BUF = 3
    PowerFails = {"idle", "desc", "commit", "apply", "replay"}
INVARIANTS
    TypeOK
    Recovered
    
    HeapSound
    ModulesSound
    
PROPERTIES
    AtomicTransactions
    ClockSound
