\* Two writers, as in antclient: the TUN loop and the keepalive loop.
SPECIFICATION FramingSpec
CONSTANTS
    Writers = {w1, w2}
    MaxLength = 2
    QueueSize = 1
    MaxSends = 2
INVARIANT
    SendsAreFramed
CHECK_DEADLOCK FALSE
