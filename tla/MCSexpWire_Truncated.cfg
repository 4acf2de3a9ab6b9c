\* A client sends back a prefix of a value's bytes: sexp_recv stores it and
\* sexp_out prints it without an error.
CONSTANTS
    SmallListMax = 4
    ShortStringMax = 31
    MaxDepth = 3
    IntBits = 8
    Regs = {r1}
    Inputs <- MCWireInputs
    Truncation = TRUE
    NthArgs = {0, 1, 5}
SPECIFICATION WireSpec
INVARIANT CorruptionFailsLoudly
