SPECIFICATION FilesSpec
CONSTANTS
    SOCKET_MAX_COUNT = 3
    SOCKET_BACKLOG_MAX = 2
    SOCKET_BUFFER_SIZE = 1
    SocketPaths = {"a"}
    MaxRefs = 2
    MaxBorn = 2
    Patient = TRUE
    INET_SOCKETS = 2
    SUB_SOCKETS = 2
    Ports = {1}
    Ephemeral <- FewPorts
    Names = {"a", "ab"}
    PrefixOf <- BeginsWith
    MountPoints <- Points
    FileSystems = {"biscuitfs", "procfs"}
    VFS_MAX_MOUNTS = 3
    PathFds = {3}
    MaxDepth = 2
    Accounts <- TwoAccounts
    Gids = {0, 1}
    People = {1, 2}
    Files = {1}
    Sizes = {2, 4}
    Modes <- TwoModes
    Accesses = {{"r"}, {"w", "x"}}
    MaxCalls = 3
INVARIANTS
    
    SubsocketsSound
    PathsRight
    RightsSound
