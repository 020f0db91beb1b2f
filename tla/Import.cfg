CONSTANTS
    s1 = s1
    f1 = f1
    p1 = p1
    Students <- MCStudents
    Profs <- MCProfs
    Projs <- MCProjs
    StudentProj <- MCStudentProj
    ProfProj <- MCProfProj
    MaxRuns = 3
SPECIFICATION Spec
INVARIANTS
    TypeOK
    LinksAreLive
PROPERTIES
    RelationsWithinRun
    StaleEndsKeepTheirNames
    ImportIsComplete
    RaisesOnlyUnread
    ImportEnds
