\* Two requests at a time, two launches, two polls before the deadline.
SPECIFICATION UISpec
CONSTANTS
    Networks = {"unix", "tcp"}
    UIHandlers = {h1, h2}
    MaxDaemons = 2
    MaxPolls = 2
INVARIANTS
    OneDaemon
    ServingIsReachable
CHECK_DEADLOCK FALSE
