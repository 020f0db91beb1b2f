SPECIFICATION Spec
CONSTANTS
    Names = {n1}
    NoName = NoName
    Rows = {r1}
    Gids = {g1}
    MaxDepth = 2
    MaxXid = 2
    MaxStatements = 2
INVARIANT ReadyMeansIdle
