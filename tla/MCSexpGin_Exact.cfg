\* The index answers exactly the rows a sequential scan returns.
CONSTANTS
    SmallListMax = 4
    ShortStringMax = 31
    MaxDepth = 1000
    Rows = {w1, w2, w3}
    RowInputs <- MCRowInputs
    QueryInputs <- MCQueryInputs
    MaxGinKeys = 1024
SPECIFICATION GinSpec
INVARIANT GinIndexExact
