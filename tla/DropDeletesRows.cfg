CONSTANTS
    student = student
    i1 = i1
    i2 = i2
    Null = Null
    TypeNames <- MCTypeNames
    Ids <- MCIds
    Attrs <- MCAttrs
    Rows <- MCRows
    Defs <- MCDefs
    Labels = {"edge"}
    MaxHandle = 5
    MaxLinks = 5
SPECIFICATION Spec
PROPERTIES
    DropDeletesRows
