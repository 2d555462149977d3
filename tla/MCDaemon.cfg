\* One IPC client and the signal, which take d.mu in turn, and two connections
\* so that the loops of the first may meet the objects of the second.
SPECIFICATION FairSpec
CONSTANTS
    Handlers = {h1}
    Main = main
    Nobody = nobody
    KillSwitch = {TRUE, FALSE}
    MaxConns = 2
INVARIANTS
    AllOrNothing
    HostRestored
PROPERTIES
    PanicNeedsDisconnect
    IngressEnds
CHECK_DEADLOCK FALSE
