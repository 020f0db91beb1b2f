CONSTANTS
    Backends = {b1}
    Inputs = {"line"}
    Nobody = Nobody
SPECIFICATION Spec
PROPERTY BackendsGetReady
