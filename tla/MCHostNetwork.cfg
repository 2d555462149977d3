\* Linux and macOS, three connections in a row; every command they rest on may fail, and the process die between any two.
SPECIFICATION Spec
CONSTANTS
    s1 = s1
    s2 = s2
    lo = lo
    h1 = h1
    h2 = h2
    h6 = h6
    Systems = {"linux", "darwin"}
    Servers = {s1, s2, lo}
    TestServers = {lo}
    Hosts = {h1, h2, h6}
    IPv6 = {h6}
    Half <- MCHalf
    NoServer = NoServer
    TunNames = {ant0, ant1}
    NoTun = NoTun
    Failing <- MCFailing
    Crashes = {"linux", "darwin"}
    MaxConnects = 3
SYMMETRY Names
INVARIANTS
    EnabledBlocks
    TunnelPasses
    DisabledIsOpen
    DarwinServerOutside
CHECK_DEADLOCK FALSE
