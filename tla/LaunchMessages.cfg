\* The kernel with 64-bit elements on more than one QPU.
CONSTANTS
    NULL = NULL
    Modules <- MCModules
    Truncations = {}
    Kernels = {k1, k2}
    Buffers <- MCBuffers
    Scalars <- MCScalars
    Structs <- MCStructs
    Handles <- MCHandles
    NumQPUs = 4
    LocalSizes = {1, 3}
    TotalGPUMemory = 32
    PAGE_ALIGNMENT = 8
    MaxCalls = 4
SPECIFICATION Spec
INVARIANTS
    MessagesPointToUniforms
CHECK_DEADLOCK FALSE
