SPECIFICATION Spec
CONSTANTS
    Environments <- MCEnvironments
    DeviceBuffers <- MCDeviceBuffers
    Handles <- MCHandles
    NumSlots = 1
    MaxCalls = 4
    NumQPUs = 2
    NumCounters = 2
    MaxJobs = 3
INVARIANTS
    NothingLeaked
    SystemOutlivesBuffers
    JobResult
    CountersOwn
CHECK_DEADLOCK FALSE
