\* Two IPC clients: one connects, the other asks for the status.
SPECIFICATION LockFairSpec
CONSTANTS
    Handlers = {h1, h2}
    Main = main
    Nobody = nobody
    KillSwitch = {FALSE}
    MaxConns = 1
PROPERTY
    StatusIsAnswered
CHECK_DEADLOCK FALSE
