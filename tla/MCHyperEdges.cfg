CONSTANTS
    student = student
    i1 = i1
    i2 = i2
    b1 = b1
    b1blank = b1blank
    Null = Null
    TypeNames = {student}
    Ids = {i1, i2}
    Attrs <- MCAttrs
    Rows <- MCRows
    Defs = {}
    Labels = {"edge"}
    MaxHandle = 4
    MaxLinks = 4
    HEIds = {b1}
    Trim <- MCTrim
    Forms <- MCForms
    NestedForms = {}
    Num <- MCNum
    HashOrder <- MCHashOrder
    MaxHE = 1
SPECIFICATION HSpec
INVARIANTS
    HTypeOK
    ResultsStaySound
    ConnectedIsVacuous
PROPERTIES
    ResultsAreFinal
