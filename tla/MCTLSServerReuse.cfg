\* Two connections, one after the other, from one address.
SPECIFICATION ListenerSpec
CONSTANTS
    k1 = k1
    k2 = k2
    k3 = k3
    Conns = {k1, k2}
    Addr <- OneReused
    QueueSize = 1
    NoConn = NoConn
INVARIANT
    ActiveAreRegistered
CHECK_DEADLOCK FALSE
