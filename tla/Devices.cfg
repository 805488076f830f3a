SPECIFICATION DevicesSpec
CONSTANTS
    NUM_VTYS = 2
    TTY_LINE_BUF_SIZE = 3
    TTY_INPUT_BUF_SIZE = 2
    MaxKeys = 2
    Keys = {"rctrl", "lalt", "del"}
    MaxEvents = 1
    NETDEV_MAX_DEVICES = 2
    NETDEV_MAX_ADDRS = 2
    NETDEV_MAX_ROUTES = 2
    NETCTL_MAX_SOCKETS = 1
    NETCTL_SOCKET_BUFFER = 3
    AddrBits = 1
    Metrics = {1, 2}
    MaxIf = 2
    TCP_MAX_SOCKETS = 1
    TCP_RECV_BUF_SIZE = 2
    TCP_WINDOW = 2
    MaxConns = 2
    MaxBytes <- Streams
    MaxInFlight = 2
    MaxFaults = 1
    LOOP_LEN = 3
    NUM_DESC = 2
    NET_MAX_INTERFACES = 2
    Drivers = {"ne2000", "e1000"}
    MaxFrames = 4
INVARIANTS
    InterfacesSound
    
    

    
