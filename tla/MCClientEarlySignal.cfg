\* A signal before signal.Notify.
SPECIFICATION ClientFairSpec
CONSTANT QueueSize = 1
INVARIANT
    HostAlwaysRestored
CHECK_DEADLOCK FALSE
