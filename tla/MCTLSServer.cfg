\* Two connections from one address, one after the other, that compete for a
\* queue of one.
SPECIFICATION ListenerFairSpec
CONSTANTS
    k1 = k1
    k2 = k2
    k3 = k3
    Conns = {k1, k2}
    Addr <- OneReused
    QueueSize = 1
    NoConn = NoConn
INVARIANTS
    EntriesAreServed
PROPERTIES
    NoHandlerHangs
CHECK_DEADLOCK FALSE
