\* Two connections from two addresses.
SPECIFICATION ListenerFairSpec
CONSTANTS
    k1 = k1
    k2 = k2
    k3 = k3
    Conns = {k1, k2}
    Addr <- AllDistinct
    QueueSize = 1
    NoConn = NoConn
PROPERTY
    CloseTerminates
CHECK_DEADLOCK FALSE
