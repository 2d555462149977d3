\* A start request finds no daemon while another one is being started.
SPECIFICATION UISpec
CONSTANTS
    Networks = {"unix"}
    UIHandlers = {h1, h2}
    MaxDaemons = 2
    MaxPolls = 1
INVARIANT NeverTwoDaemons
CHECK_DEADLOCK FALSE
