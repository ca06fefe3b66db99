CONSTANTS
    Sessions = {s1, s2, s3}
    Threads = {t1}
    Regions = {r1}
    Modes = {"read", "write", "invalidate"}
    MayAbort = {"map", "unmap"}
    MaxWrites = 1
    NONE = NONE
SPECIFICATION Spec
INVARIANTS
    IteratorsValid
    UnmapFindsMapping
    Coherent
PROPERTIES
    MarkedIsErased
CHECK_DEADLOCK FALSE
