------------------------------ MODULE SystemAccess ------------------------------
(***************************************************************************)
(* SystemAccess (hal.cpp), the object through which the implementation     *)
(* reaches the hardware: which of the components Mailbox, V3D, VCSM and    *)
(* VCHI it creates in which environment, how device memory is allocated    *)
(* and released through them or the emulator, what system queries answer,  *)
(* and when the object itself goes away.                                   *)
(*                                                                         *)
(* An environment is the set of the variables that are set (without their  *)
(* prefix VC4CL_), with "root" for root rights and "COUNTERS" for the      *)
(* debug level that shows performance counters.  Firmware and driver may   *)
(* refuse any request.  Caching, clock rates, and an exception leaving a   *)
(* destructor or a noexcept function, which ends the process, are left out.*)
(***************************************************************************)
EXTENDS Naturals, FiniteSets

CONSTANTS
    Environments,   \* the environments the program is started in
    DeviceBuffers,  \* the DeviceBuffer objects there may be
    Handles,        \* memory handles the firmware or the driver gives out
    NumSlots,       \* entries of allocatedMemory in the emulator
    MaxCalls        \* bound on the number of calls

ASSUME SystemAccessAssumption == NumSlots \in Nat /\ MaxCalls \in Nat

VARIABLES
    environment,  \* constant during a run of the program
    system,       \* the object: "none" before its creation, "alive", "gone"
    exited,       \* the static reference of system() is destroyed
    usesCMA,      \* VCSM::usesCMA
    enabled,      \* firmware: QPU enable requests not taken back
    allocated,    \* memory handles in use
    locked,       \* those that are locked
    mapped,       \* those that are mapped into the process by mapmem
    entries,      \* the entries of the emulator's allocatedMemory that are not empty
    buffers,      \* the live DeviceBuffers, with handle and device address
    refused,      \* history: handles the system did not take back
    answer,       \* the last system query and the component that answered it
    calls         \* number of calls so far

objectVars == <<environment, system, exited, usesCMA, enabled, answer>>
memoryVars == <<allocated, locked, mapped, entries, buffers, refused>>
systemVars == <<objectVars, memoryVars, calls>>

-----------------------------------------------------------------------------
(* Modes and components *)

getEmulated == "EMULATOR" \in environment
isRoot == "root" \in environment

getExecMode ==
    IF "EXECUTE_REGISTER_POKING" \in environment THEN "V3D_REGISTER_POKING"
    ELSE IF "EXECUTE_MAILBOX" \in environment THEN "MAILBOX_IOCTL"
    ELSE IF "EXECUTE_VCHI" \in environment \/ ~isRoot THEN "VCHI_GPU_SERVICE"
    ELSE "V3D_REGISTER_POKING"

getMemoryMode ==
    IF "MEMORY_CMA" \in environment THEN "VCSM_CMA"
    ELSE IF "MEMORY_VCSM" \in environment THEN "VCSM"
    ELSE IF "MEMORY_MAILBOX" \in environment \/ isRoot THEN "MAILBOX"
    ELSE "VCSM_CMA"

VCSMModes == {"VCSM", "VCSM_CMA"}

initializeMailbox ==
    /\ ~getEmulated /\ "NO_MAILBOX" \notin environment
    /\ getExecMode = "MAILBOX_IOCTL" \/ getMemoryMode = "MAILBOX"

initializeV3D ==
    /\ ~getEmulated /\ "NO_V3D" \notin environment
    /\ "COUNTERS" \in environment \/ getExecMode = "V3D_REGISTER_POKING" \/ isRoot

initializeVCSM ==
    /\ ~getEmulated /\ "NO_VCSM" \notin environment
    /\ getMemoryMode \in VCSMModes

initializeVCHI ==
    /\ ~getEmulated /\ "NO_VCHI" \notin environment
    /\ getExecMode = "VCHI_GPU_SERVICE"

Components == (IF initializeMailbox THEN {"mailbox"} ELSE {})
              \cup (IF initializeV3D THEN {"v3d"} ELSE {})
              \cup (IF initializeVCSM THEN {"vcsm"} ELSE {})
              \cup (IF initializeVCHI THEN {"vchi"} ELSE {})

Call == ~exited /\ calls < MaxCalls /\ calls' = calls + 1

\* Mailbox::enableQPU, from Mailbox() and ~Mailbox(): the firmware counts.
enableQPU(on) ==
    enabled' = IF ~initializeMailbox THEN enabled ELSE IF on THEN enabled + 1 ELSE enabled - 1

\* vcsm_init_ex falls back to the other interface when its own is not there.
Create ==
    /\ system = "none" /\ Call
    /\ system' = "alive"
    /\ usesCMA' \in (IF initializeVCSM THEN BOOLEAN ELSE {FALSE})
    /\ enableQPU(TRUE)
    /\ UNCHANGED <<environment, exited, answer, memoryVars>>

\* A component that cannot be created throws: those created before it are
\* destroyed again, and the next use of system() makes another attempt.
Create_Throws ==
    /\ system = "none" /\ Call /\ Components # {}
    /\ UNCHANGED <<objectVars, memoryVars>>

\* Mutant: device buffers do not keep the object alive.
LastReference_Static(live, static) == ~static

\* The static reference and every DeviceBuffer share the ownership.
LastReference(live, static) == ~static /\ DOMAIN live = {}

\* What the members' destructors do once the last reference is gone.
DropReference(live, static) ==
    IF system = "alive" /\ LastReference(live, static)
    THEN system' = "gone" /\ enableQPU(FALSE)
    ELSE UNCHANGED <<system, enabled>>

\* Static destruction at the end of the process.
Exit ==
    /\ ~exited /\ system # "none"
    /\ exited' = TRUE
    /\ DropReference(buffers, FALSE)
    /\ UNCHANGED <<environment, usesCMA, answer, memoryVars, calls>>

-----------------------------------------------------------------------------
(* System queries *)

Queries == {"NUM_QPUS", "TOTAL_GPU_MEMORY", "CURRENT_QPU_CLOCK_RATE"}

\* The queries VCSM::readValue, V3D::readValue, VCHI::readValue and
\* Mailbox::readValue know; the last two fail when the request does.
readVCSM == IF usesCMA THEN {"TOTAL_GPU_MEMORY"} ELSE {}
readV3D == {"NUM_QPUS"}
readVCHI == {"TOTAL_GPU_MEMORY", "CURRENT_QPU_CLOCK_RATE"}
readMailbox == {"TOTAL_GPU_MEMORY", "CURRENT_QPU_CLOCK_RATE"}

\* The components that may be the first to answer, or the default value.
Answers(q) ==
    IF getEmulated THEN {"emulator"}
    ELSE IF "vcsm" \in Components /\ q \in readVCSM THEN {"vcsm"}
    ELSE IF "v3d" \in Components /\ q \in readV3D THEN {"v3d"}
    ELSE {"default"} \cup (IF q \in readVCHI THEN Components \cap {"vchi"} ELSE {})
                     \cup (IF q \in readMailbox THEN Components \cap {"mailbox"} ELSE {})

querySystem(q) ==
    /\ system = "alive" /\ Call
    /\ \E c \in Answers(q) : answer' = [query |-> q, by |-> c]
    /\ UNCHANGED <<environment, system, exited, usesCMA, enabled, memoryVars>>

-----------------------------------------------------------------------------
(* Device memory *)

\* The component that allocateBuffer, deallocateBuffer and flushCPUCache use.
Allocator ==
    IF getEmulated THEN "emulator"
    ELSE IF "vcsm" \in Components /\ getMemoryMode \in VCSMModes THEN "vcsm"
    ELSE IF "mailbox" \in Components /\ getMemoryMode = "MAILBOX" THEN "mailbox"
    ELSE "none"

NewBuffer(b, handle, address) ==
    buffers' = [x \in DOMAIN buffers \cup {b} |->
                   IF x = b THEN [handle |-> handle, address |-> address] ELSE buffers[x]]

NoMemoryChange == UNCHANGED <<allocated, locked, mapped, entries, buffers>>

\* The first empty entry of allocatedMemory; its index is the device address,
\* in multiples of the largest buffer there is, and one more is the handle.
allocateEmulatorBuffer(b) ==
    LET empty == (0..(NumSlots - 1)) \ entries
        e == CHOOSE e \in empty : \A f \in empty : e <= f
    IN  IF empty = {} THEN NoMemoryChange
        ELSE /\ entries' = entries \cup {e} /\ NewBuffer(b, e + 1, e)
             /\ UNCHANGED <<allocated, locked, mapped>>

\* Mutant: the handle is kept when it cannot be locked or has no bus address.
VCSM_Allocate_KeepsHandle(b) ==
    \/ NoMemoryChange
    \/ \E h \in Handles \ allocated :
          /\ allocated' = allocated \cup {h}
          /\ UNCHANGED <<mapped, entries>>
          /\ \/ locked' = locked \cup {h} /\ NewBuffer(b, h, h)
             \/ UNCHANGED <<locked, buffers>>

\* VCSM::allocateBuffer: malloc, lock, bus address.  A step that fails undoes
\* the ones before it (free; unlock and free): no change is left.  The answer of
\* that unlock is not looked at in the code and is taken to be success here.
VCSM_Allocate(b) ==
    \/ NoMemoryChange
    \/ \E h \in Handles \ allocated :
          /\ allocated' = allocated \cup {h} /\ locked' = locked \cup {h}
          /\ NewBuffer(b, h, h)
          /\ UNCHANGED <<mapped, entries>>

\* Requests to the firmware, and /dev/mem mapped into the process.
memAlloc(h) == h \notin allocated /\ allocated' = allocated \cup {h}
memLock(h) == locked' = locked \cup {h}
memUnlock(h) == locked' = locked \ {h}
memFree(h) == allocated' = allocated \ {h}
mapmem(h) == mapped' = mapped \cup {h}
unmapmem(h) == mapped' = mapped \ {h}

\* Mailbox::allocateBuffer: memAlloc, memLock, mapmem.  A memLock that throws or
\* a mapmem that throws leaves the handle behind; one that answers zero gives a
\* buffer at device address zero, mapped at physical address zero.
Mailbox_Allocate(b) ==
    \/ NoMemoryChange
    \/ \E h \in Handles :
          /\ memAlloc(h) /\ UNCHANGED entries
          /\ \/ UNCHANGED <<locked, mapped, buffers>>
             \/ memLock(h) /\ UNCHANGED <<mapped, buffers>>
             \/ mapmem(h) /\ NewBuffer(b, h, 0) /\ UNCHANGED locked
             \/ memLock(h) /\ mapmem(h) /\ NewBuffer(b, h, h)

allocateBuffer(b) ==
    /\ system = "alive" /\ Call /\ b \notin DOMAIN buffers
    /\ CASE Allocator = "emulator" -> allocateEmulatorBuffer(b)
         [] Allocator = "vcsm" -> VCSM_Allocate(b)
         [] Allocator = "mailbox" -> Mailbox_Allocate(b)
         [] OTHER -> NoMemoryChange
    /\ UNCHANGED <<objectVars, refused>>

deallocateEmulatorBuffer(h) ==
    entries' = entries \ {h - 1} /\ UNCHANGED <<allocated, locked, mapped, refused>>

\* VCSM::deallocateBuffer: a handle that cannot be unlocked is not freed.
VCSM_Deallocate(h) ==
    /\ \/ allocated' = allocated \ {h} /\ locked' = locked \ {h} /\ UNCHANGED refused
       \/ refused' = refused \cup {h} /\ UNCHANGED <<allocated, locked>>
    /\ UNCHANGED <<mapped, entries>>

\* Mailbox::deallocateBuffer: unmapped first, then unlocked, then freed, each
\* only if the one before was not refused.
Mailbox_Deallocate(h) ==
    /\ unmapmem(h) /\ UNCHANGED entries
    /\ \/ memUnlock(h) /\ memFree(h) /\ UNCHANGED refused
       \/ refused' = refused \cup {h} /\ UNCHANGED <<allocated, locked>>
       \/ refused' = refused \cup {h} /\ memUnlock(h) /\ UNCHANGED allocated

deallocateBuffer(h) ==
    CASE Allocator = "emulator" -> deallocateEmulatorBuffer(h)
      [] Allocator = "vcsm" -> VCSM_Deallocate(h)
      [] Allocator = "mailbox" -> Mailbox_Deallocate(h)

\* ~DeviceBuffer gives the memory back, ignoring whether that worked, and then
\* drops its reference to the SystemAccess.
DestroyBuffer(b) ==
    /\ b \in DOMAIN buffers
    /\ buffers' = [x \in DOMAIN buffers \ {b} |-> buffers[x]]
    /\ deallocateBuffer(buffers[b].handle)
    /\ DropReference(buffers', ~exited)
    /\ UNCHANGED <<environment, exited, usesCMA, answer, calls>>

-----------------------------------------------------------------------------
SystemInit ==
    /\ environment \in Environments
    /\ system = "none" /\ exited = FALSE /\ usesCMA = FALSE /\ enabled = 0
    /\ allocated = {} /\ locked = {} /\ mapped = {}
    /\ entries = {}
    /\ buffers = <<>> /\ refused = {}
    /\ answer = [query |-> "none", by |-> "none"] /\ calls = 0

SystemNext ==
    \/ Create \/ Create_Throws
    \/ \E q \in Queries : querySystem(q)
    \/ \E b \in DeviceBuffers : allocateBuffer(b) \/ DestroyBuffer(b)

-----------------------------------------------------------------------------
(* Properties *)

\* Memory that VCSM or the emulator gave out belongs to exactly one live
\* DeviceBuffer, whichever step of an allocation fails, unless the system
\* refused to take it back; two buffers never share memory, and memory in use
\* is locked (VCSM.cpp:60-113, emulator.cpp:80-116).
NothingLeaked ==
    /\ Allocator = "vcsm" =>
          /\ allocated \ refused = {buffers[b].handle : b \in DOMAIN buffers}
          /\ allocated = locked
    /\ Allocator = "emulator" =>
          entries = {buffers[b].address : b \in DOMAIN buffers}
    /\ Allocator # "mailbox" =>
          \A a, b \in DOMAIN buffers : a # b => buffers[a].address # buffers[b].address

\* The SystemAccess and the QPUs it switched on outlive every device buffer,
\* also those destroyed after the static destruction of system() (hal.cpp:351,
\* Memory.cpp:28); when it is gone nothing it switched on is left on.
SystemOutlivesBuffers ==
    /\ DOMAIN buffers # {} => system = "alive"
    /\ "mailbox" \in Components => enabled = (IF system = "alive" THEN 1 ELSE 0)

================================================================================
