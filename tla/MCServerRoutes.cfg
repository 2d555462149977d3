\* Two clients, one of them at the default address, where their keepalives take
\* turns.  TLC stops at the one it meets first; without it, it finds the other.
SPECIFICATION Spec
CONSTANTS
    c1 = c1
    c2 = c2
    udp = udp
    tls = tls
    Clients = {c1, c2}
    Ingress = {udp, tls}
    Via <- MCVia
    VirtualIP <- FirstAtDefault
    DefaultIP = "10.8.0.2"
    OtherIP = "10.9.9.9"
    MaxSessions = 2
    Goodbyes = FALSE
    Stops = FALSE
INVARIANTS
    RoutesByVirtualIP
    SentToItsSession
CHECK_DEADLOCK FALSE
