\* @> and @>> must accept exactly the containments of sections 4.5 and 4.6.
CONSTANTS
    SmallListMax = 4
    ShortStringMax = 31
    MaxDepth = 3
    Regs = {r1, r2}
    Inputs <- MCInputsContain
    NthArgs <- MCNthArgs
SPECIFICATION Spec
INVARIANT ContainmentIsSemantic
