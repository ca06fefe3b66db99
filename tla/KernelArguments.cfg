\* Every parameter kind through two kernel objects; the smallest alignment that leaves
\* no room to spare for the kernel with the most hidden parameters.
CONSTANTS
    NULL = NULL
    Modules <- MCModules
    Truncations = {1, 2, 5}
    Kernels = {k1, k2}
    Buffers <- MCBuffers
    Scalars <- MCScalars
    Structs <- MCStructs
    Handles <- MCHandles
    NumQPUs = 4
    LocalSizes = {1, 3}
    TotalGPUMemory = 32
    PAGE_ALIGNMENT = 8
    MaxCalls = 6
SPECIFICATION Spec
INVARIANTS
    ObservedAsCompiled
    ArgumentsArrive
    BufferHolds
\* The calls of the application are bounded, and a binary may be unusable.
CHECK_DEADLOCK FALSE
