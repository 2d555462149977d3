\* Two goroutines on each side, a window of two one-bit words and four
\* counters: the third pushes the first out of the window, the fourth may
\* jump over all of it.
SPECIFICATION Spec
CONSTANTS
    WordBits = 1
    MaxCounter = 3
    Senders = {s1, s2}
    Receivers = {r1, r2}
    Damage = TRUE
SYMMETRY Symmetry
INVARIANTS
    NonceUnique
    AtMostOnce
    RefusalExplained
PROPERTIES
    ImplementsChannel
CHECK_DEADLOCK FALSE
