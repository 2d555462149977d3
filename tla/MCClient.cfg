\* Every set of flags, a queue of two.
SPECIFICATION ClientFairSpec
CONSTANT QueueSize = 2
INVARIANTS
    EndReleasesHost
    HostMatchesTunnel
PROPERTIES
    SignalEnds
    QueueIsServed
CHECK_DEADLOCK FALSE
