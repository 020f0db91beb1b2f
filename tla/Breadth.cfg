CONSTANTS
    v1 = v1
    v2 = v2
    v3 = v3
    v4 = v4
    NoLimit = NoLimit
    V = {v1, v2, v3, v4}
    Links <- MCLinks
    Start = v1
    Stack = FALSE
    MaxDistance = 2
SPECIFICATION TSpec
CHECK_DEADLOCK FALSE
INVARIANTS
    ReturnsBall
    NearestFirst
