\* The comment of CheckAndSet on a network that may damage a datagram.
SPECIFICATION Spec
CONSTANTS
    WordBits = 1
    MaxCounter = 3
    Senders = {s1}
    Receivers = {r1}
    Damage = TRUE
INVARIANT
    GenuineRefusedOnlyIfReplayedOrOld
CHECK_DEADLOCK FALSE
