CONSTANTS
    student = student
    i1 = i1
    i2 = i2
    b1 = b1
    b1blank = b1blank
    Null = Null
    TypeNames = {student, Null}
    Ids = {i1}
    Attrs <- MCAttrs
    Rows <- MCOneRow
    Defs = {}
    Labels = {}
    MaxHandle = 3
    MaxLinks = 3
    HEIds = {b1, b1blank}
    Trim <- MCTrim
    Forms <- MCNestedBases
    NestedForms <- MCNestedForms
    Num <- MCNum
    HashOrder <- MCHashOrder
    MaxHE = 3
SPECIFICATION HSpec
INVARIANT TrimmedIdsUnique
PROPERTY NestedNamesFromBases
