\* Linux, one connection.
SPECIFICATION Spec
CONSTANTS
    s1 = s1
    s2 = s2
    lo = lo
    h1 = h1
    h2 = h2
    h6 = h6
    Systems = {"linux"}
    Servers = {s1, s2, lo}
    TestServers = {lo}
    Hosts = {h1, h2, h6}
    IPv6 = {h6}
    Half <- MCHalf
    NoServer = NoServer
    TunNames = {ant0, ant1}
    NoTun = NoTun
    Failing <- NoneFails
    Crashes = {}
    MaxConnects = 1
INVARIANTS
    NoRoutingLoop
CHECK_DEADLOCK FALSE
