SPECIFICATION Storage
CONSTANTS
    a = a
    b = b
    NBlocks = 4
    NInodes = 4
    INODES_PER_BLOCK = 2
    N_DIRECT = 2
    PTRS = 2
    DIR_SLOTS = 3
    BS = 1
    MaxOffset = 2
    NFds = 2
    Names = {a, b}
    JNL_BUF = 9
    MaxOutages = 1
    Calls = {}
    BLOCKS_PER_GRP = 16
    INODES_PER_GRP = 8
    INODES_PER_BLK = 4
    FIRST_INO = 3
    HOST_DIRECT = 2
    HOST_PTRS = 2
    DIR_ENTRIES = 3
    RESERVED_PART = 4
    UINT16 = 64
    UINT32 = 512
    MIN_BLOCKS = 12
    Sizes = {10, 12, 16, 18, 24, 32, 40, 48}
    JournalSizes = {0, 2, 4, 12}
    Hosts <- Trees
    SWAP_MAX_PAGES = 4
    REGION = 4
    DISK = 6
    PageData = {"a", "b"}
SYMMETRY Symmetry
INVARIANTS
    
    
    
    
    
    SwapSound
