\* One IPC client, one connection.
SPECIFICATION Spec
CONSTANTS
    Handlers = {h1}
    Main = main
    Nobody = nobody
    KillSwitch = {FALSE}
    MaxConns = 1
INVARIANT
    DisconnectIsClean
CHECK_DEADLOCK FALSE
