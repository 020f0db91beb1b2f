CONSTANTS
    Backends = {b1, b2, b3}
    Inputs = {"line", "piece", "eof"}
    Nobody = Nobody
SPECIFICATION Spec
INVARIANTS
    TypeOK
    InStep
    WaitsHaveACause
PROPERTY ServedLinesAreAnswered
