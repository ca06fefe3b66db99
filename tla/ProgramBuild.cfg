CONSTANTS
    NULL = NULL
    source = source
    il = il
    binary = binary
    result = result
    Sources = {source}
    ILs = {il}
    Binaries = {binary}
    Results = {result}
    Options = {A, B}
    HeaderLists <- SomeHeaders
    InputLists <- SomeInputs
    Kernels = {k, l}
    Threads = {t, u}
    MaxCalls = 2
    Rules = {"idle", "inputs"}
SPECIFICATION Spec
INVARIANTS
    KernelsOfBinary
    SuccessIsComplete
    ExecutesOwnCode
PROPERTIES
    BuildEnds
CHECK_DEADLOCK FALSE
