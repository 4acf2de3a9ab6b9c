\* The session implements the specification's session on contents
\* (SexpAbstractSession).
CONSTANTS
    SmallListMax = 4
    ShortStringMax = 31
    MaxDepth = 3
    Regs = {r1, r2}
    Inputs <- MCInputsRefine
    NthArgs <- MCNthArgs
SPECIFICATION RefSpec
PROPERTY
    ImplementsAbstract
