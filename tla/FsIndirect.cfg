SPECIFICATION Spec
CONSTANTS
    NBlocks = 4
    NInodes = 3
    INODES_PER_BLOCK = 2
    N_DIRECT = 1
    PTRS = 2
    DIR_SLOTS = 3
    BS = 1
    MaxOffset = 3
    NFds = 1
    Names = {a, b}
    JNL_BUF = 9
    MaxOutages = 0
    Calls = {"create", "write"}
SYMMETRY Symmetry
INVARIANTS
    BlocksTyped
