\* Equal values must hash alike; the cdr of a six-element list stores hash 0.
CONSTANTS
    SmallListMax = 4
    ShortStringMax = 31
    MaxDepth = 3
    Regs = {r1, r2}
    Inputs <- MCInputs
    NthArgs <- MCNthArgs
SPECIFICATION Spec
INVARIANT HashConsistent
