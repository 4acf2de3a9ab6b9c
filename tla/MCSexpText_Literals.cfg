\* A numeric literal is read as the number of the grammar: strtoll saturates 128 to INT64_MAX
\* (127 at 8 bits), and 1e3 is read as a symbol.
CONSTANTS
    SmallListMax = 4
    ShortStringMax = 31
    MaxDepth = 3
    IntBits = 8
    Regs = {r1, r2}
    Inputs = {}
    TextInputs <- MCTextInts
    NthArgs <- MCNthArgsText
SPECIFICATION TextSpec
INVARIANT NumericLiteralsAsGrammar
