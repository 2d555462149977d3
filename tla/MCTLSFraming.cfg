\* Two writers, as antclient's TUN loop and keepalive loop, and three packets
\* over a queue of one, so that the reader meets a full queue.
SPECIFICATION FramingFairSpec
CONSTANTS
    Writers = {w1, w2}
    MaxLength = 2
    QueueSize = 1
    MaxSends = 3
INVARIANTS
    PacketsArriveWhole
PROPERTIES
    LoopsEnd
CHECK_DEADLOCK FALSE
