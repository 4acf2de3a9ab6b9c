\* Section 8.1: a value cast to text and back is the same value; (k 1.0 -0.25) prints 1.0 as 1.
CONSTANTS
    SmallListMax = 4
    ShortStringMax = 31
    MaxDepth = 3
    IntBits = 8
    Regs = {r1, r2}
    Inputs = {}
    TextInputs <- MCTextFloats
    NthArgs <- MCNthArgsText
SPECIFICATION TextSpec
INVARIANT TextRoundTrip
