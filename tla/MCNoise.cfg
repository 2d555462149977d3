\* Three replies: both attempts of a client answered and one initiation
\* answered twice.  Two indices, so sessions may draw the same one.
SPECIFICATION Spec
CONSTANTS
    a1 = a1
    a2 = a2
    a3 = a3
    alice = alice
    bob = bob
    Attempts <- MCAttempts
    StaticOf <- MCStaticOf
    ServerKey = server
    Replies = {e1, e2, e3}
    Indices = {1, 2}
    Garbled = garbled
INVARIANTS
    EndsAgree
    KeysAreSeparate
CHECK_DEADLOCK FALSE
