------------------------------- MODULE MCQPUJobs -------------------------------
(* The environments, names and bounds of the run. *)
EXTENDS QPUJobs

\* Every mode and component is chosen in one of them, and one is missing that the
\* mode needs in the fourth and the fifth.
MCEnvironments == {
    {}, {"root"}, {"EMULATOR"}, {"root", "NO_V3D"}, {"NO_VCSM", "COUNTERS"},
    {"root", "EXECUTE_VCHI", "MEMORY_VCSM"},
    {"root", "EXECUTE_MAILBOX", "MEMORY_CMA"}, {"EXECUTE_REGISTER_POKING", "MEMORY_MAILBOX"}}

MCDeviceBuffers == {"b1", "b2"}
MCHandles == 1..2
================================================================================
