\* Two clients on two transports, the first at the default address, which
\* may repeat a handshake and say goodbye, and a server that may be stopped.
\* Two sessions: one for each client, or an initiation and its copy.
SPECIFICATION FairSpec
CONSTANTS
    c1 = c1
    c2 = c2
    udp = udp
    tls = tls
    Clients = {c1, c2}
    Ingress = {udp, tls}
    Via <- MCVia
    VirtualIP <- FirstAtDefault
    DefaultIP = "10.8.0.2"
    OtherIP = "10.9.9.9"
    MaxSessions = 2
    Goodbyes = TRUE
    Stops = TRUE
INVARIANTS
    HeldSessionsLive
    PanicNeedsWipe
    LearnedRoutesAreTheirs
PROPERTIES
    RouteHeals
CHECK_DEADLOCK FALSE
