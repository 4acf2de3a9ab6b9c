\* The checks that pass on the session: layout, equality, symbol-table
\* independence, car/cdr/nth, containment soundness, the Bloom reject and
\* the matcher.
CONSTANTS
    SmallListMax = 4
    ShortStringMax = 31
    MaxDepth = 3
    Regs = {r1, r2}
    Inputs <- MCInputsCore
    NthArgs <- MCNthArgs
SPECIFICATION Spec
INVARIANTS
    TypeOK
    EqualIsSemantic
    SymbolTableIndependent
    CarCdrIdentity
    ContainsSound
    ContainsImpliesContainsKey
    BloomSound
    MatchIsSemantic
