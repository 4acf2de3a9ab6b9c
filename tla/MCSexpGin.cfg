\* The GIN index finds every row @> finds whose keys add_key did not cut,
\* with MAX_GIN_KEYS scaled to 6 so that one document is cut.
CONSTANTS
    SmallListMax = 4
    ShortStringMax = 31
    MaxDepth = 1000
    Rows = {w1, w2, w3}
    RowInputs <- MCRowInputs
    QueryInputs <- MCQueryInputs
    MaxGinKeys = 6
SPECIFICATION GinSpec
INVARIANTS GinContainsComplete
