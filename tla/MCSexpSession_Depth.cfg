\* A list nested to MAX_DEPTH must be rejected by the parser.
CONSTANTS
    SmallListMax = 4
    ShortStringMax = 31
    MaxDepth = 3
    Regs = {r1, r2}
    Inputs <- MCInputsDepth
    NthArgs <- MCNthArgs
SPECIFICATION Spec
INVARIANT DepthLimit
