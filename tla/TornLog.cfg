SPECIFICATION Spec
CONSTANTS
    Blocks = {b1, b2}
    Vals = {v1, v2}
    Torn = torn
    OneSector = {}
    JNL_BUF = 2
    PowerFails = {"idle", "desc", "data", "commit", "apply", "replay"}
SYMMETRY Symmetry
INVARIANTS
    Recovered
