CONSTANTS
    NumQPUs = 3
    SizeMod = 16
    NULL = NULL
    Requests <- AllRequests
    MaxKernels = 2
    MaxTimeouts = 1
SPECIFICATION Spec
INVARIANTS
    AcceptedFitsDevice
    NoWorkItemTwice
    CompleteMeansExecuted
    OneGroupAtATime
    BuffersOutliveExecution
PROPERTIES
    KernelEnds
CHECK_DEADLOCK FALSE
