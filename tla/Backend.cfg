SPECIFICATION Spec
CONSTANTS
    Names = {n1, n2}
    NoName = NoName
    Rows = {r1}
    Gids = {g1}
    MaxDepth = 3
    MaxXid = 3
    MaxStatements = 2
INVARIANTS
    TypeOK
    NoUnexpectedState
    NoXidIsLost
    ParentsFirst
    StatusTellsTheBlock
PROPERTIES
    ImplementsSession
    OutcomesAreFinal
    QueriesAreAnswered
