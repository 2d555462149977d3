\* A connect request gets d.mu between main's handleDisconnect and the end.
SPECIFICATION Spec
CONSTANTS
    Handlers = {h1}
    Main = main
    Nobody = nobody
    KillSwitch = {TRUE}
    MaxConns = 1
INVARIANT
    ExitRestoresHost
CHECK_DEADLOCK FALSE
