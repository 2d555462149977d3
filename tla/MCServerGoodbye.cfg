\* One client that says goodbye.
SPECIFICATION Spec
CONSTANTS
    c1 = c1
    c2 = c2
    udp = udp
    tls = tls
    Clients = {c1}
    Ingress = {udp, tls}
    Via <- MCVia
    VirtualIP <- OwnIPs
    DefaultIP = "10.8.0.2"
    OtherIP = "10.9.9.9"
    MaxSessions = 1
    Goodbyes = TRUE
    Stops = FALSE
INVARIANT
    GoodbyeIsClean
CHECK_DEADLOCK FALSE
