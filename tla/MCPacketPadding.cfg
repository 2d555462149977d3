\* Sizes in the order of the code's (prefix < header < tag, MTU below the
\* buffer by more than all three, blocks up to twice what a byte counts).
SPECIFICATION Spec
CONSTANTS
    BufferSize = 14
    HeaderSize = 2
    TagSize = 3
    FamilySize = 1
    InitSize = 9
    MTU = 8
    ByteRange = 4
    DefaultBlockSize = 2
    MaxBlockSize = 8
    Blocks = {0, 3, 4, 5, 6, 8, 9}
    Lengths = {0, 1, 2, 3, 4, 5, 6, 7, 8}
    MaxPackets = 1
INVARIANT
    UnpadRestores
CHECK_DEADLOCK FALSE
