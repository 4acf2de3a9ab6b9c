\* Binary I/O with an honest client: send and receive keep a value's bytes,
\* and the read path reads back what the writer wrote.
CONSTANTS
    SmallListMax = 4
    ShortStringMax = 31
    MaxDepth = 3
    IntBits = 8
    Regs = {r1}
    Inputs <- MCWireInputs
    Truncation = FALSE
    NthArgs = {0, 1, 5}
SPECIFICATION WireSpec
INVARIANTS
    WireTypeOK
    BinaryRoundTrip
    TruncatedVarintInBounds
    NavigationAgreesWithTree
