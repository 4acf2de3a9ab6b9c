\* Text I/O: cast through text keeps every value whose floats print with a
\* point, and the varint codec reads back what it writes.
CONSTANTS
    SmallListMax = 4
    ShortStringMax = 31
    MaxDepth = 3
    IntBits = 8
    Regs = {r1, r2}
    Inputs = {}
    TextInputs <- MCTextInputs
    NthArgs <- MCNthArgsText
SPECIFICATION TextSpec
INVARIANTS
    TextRoundTripPointFloats
    CodecRoundTrip
