----------------------------- MODULE QPUJobsProofs -----------------------------
(***************************************************************************)
(* Proofs about SystemAccess and QPUJobs, for every environment, any       *)
(* number of buffers, handles, QPUs and counters, and jobs and calls       *)
(* without bound: memory of the device is not lost, the system outlives    *)
(* its buffers, and results and counters belong to the right job.          *)
(***************************************************************************)
EXTENDS QPUJobs, SequenceTheorems, WellFoundedInduction, TLAPS

\* What calls do to the system and the memory, and what jobs leave alone.
SystemStep == SystemNext \/ Exit

\* The modes and components are those of the environment, which stays the same.
LEMMA SameEnvironment ==
    ASSUME environment' = environment
    PROVE  /\ Components' = Components /\ Allocator' = Allocator
           /\ initializeMailbox' = initializeMailbox
           /\ getEmulated' = getEmulated /\ getExecMode' = getExecMode
<1>1. getEmulated' = getEmulated /\ isRoot' = isRoot
  BY DEF getEmulated, isRoot
<1>2. getExecMode' = getExecMode /\ getMemoryMode' = getMemoryMode
  BY <1>1 DEF getExecMode, getMemoryMode
<1>3. /\ initializeMailbox' = initializeMailbox /\ initializeV3D' = initializeV3D
      /\ initializeVCSM' = initializeVCSM /\ initializeVCHI' = initializeVCHI
  BY <1>1, <1>2 DEF initializeMailbox, initializeV3D, initializeVCSM, initializeVCHI
<1>4. Components' = Components
  BY <1>3 DEF Components
<1> QED
  BY <1>1, <1>2, <1>3, <1>4 DEF Allocator

-----------------------------------------------------------------------------
(* The system and its buffers *)

SystemInv ==
    /\ system \in {"none", "alive", "gone"} /\ exited \in BOOLEAN
    /\ system = "none" => ~exited
    /\ system # "alive" => DOMAIN buffers = {}
    /\ initializeMailbox => enabled = (IF system = "alive" THEN 1 ELSE 0)

LEMMA MailboxComponent == "mailbox" \in Components <=> initializeMailbox
  BY DEF Components

LEMMA SystemInvInit == SystemInit => SystemInv
<1>1. DOMAIN <<>> = {}
  OBVIOUS
<1> QED
  BY <1>1 DEF SystemInit, SystemInv

\* The last reference is dropped when the process has ended and no buffer is left.
LEMMA DropFacts ==
    ASSUME SystemInv, environment' = environment, NEW live, NEW static \in BOOLEAN,
           buffers' = live, exited' = ~static, system # "none",
           DOMAIN live # {} => system = "alive", DropReference(live, static)
    PROVE  SystemInv'
<1>1. initializeMailbox' = initializeMailbox
  BY SameEnvironment
<1>2. CASE system = "alive" /\ LastReference(live, static)
  <2>1. system' = "gone" /\ enableQPU(FALSE) /\ DOMAIN buffers' = {}
    BY <1>2 DEF DropReference, LastReference
  <2> QED
    BY <1>1, <1>2, <2>1 DEF SystemInv, enableQPU
<1>3. CASE ~(system = "alive" /\ LastReference(live, static))
  BY <1>1, <1>3 DEF SystemInv, DropReference
<1> QED
  BY <1>2, <1>3

LEMMA SystemInvStep == SystemInv /\ (SystemStep \/ UNCHANGED systemVars) => SystemInv'
<1> SUFFICES ASSUME SystemInv, SystemStep \/ UNCHANGED systemVars
             PROVE  SystemInv'
  OBVIOUS
<1>1. CASE Create
  BY <1>1, SameEnvironment DEF Create, SystemInv, enableQPU, memoryVars
<1>2. CASE Create_Throws
  BY <1>2, SameEnvironment DEF Create_Throws, SystemInv, objectVars, memoryVars
<1>3. ASSUME NEW q \in Queries, querySystem(q)
      PROVE  SystemInv'
  BY <1>3, SameEnvironment DEF querySystem, SystemInv, memoryVars
<1>4. ASSUME NEW b \in DeviceBuffers, allocateBuffer(b)
      PROVE  SystemInv'
  BY <1>4, SameEnvironment DEF allocateBuffer, SystemInv, objectVars
<1>5. ASSUME NEW b \in DeviceBuffers, DestroyBuffer(b)
      PROVE  SystemInv'
  <2>1. /\ environment' = environment /\ exited' = exited /\ exited \in BOOLEAN
        /\ DropReference(buffers', ~exited) /\ b \in DOMAIN buffers
    BY <1>5 DEF DestroyBuffer, SystemInv
  <2>2. system = "alive"
    BY <2>1 DEF SystemInv
  <2> QED
    BY <2>1, <2>2, DropFacts
<1>6. CASE Exit
  <2>1. /\ environment' = environment /\ exited' = TRUE /\ buffers' = buffers
        /\ DropReference(buffers, FALSE) /\ system # "none"
    BY <1>6 DEF Exit, memoryVars
  <2> QED
    BY <2>1, DropFacts DEF SystemInv
<1>7. CASE UNCHANGED systemVars
  BY <1>7, SameEnvironment DEF SystemInv, systemVars, objectVars, memoryVars
<1> QED
  BY <1>1, <1>2, <1>3, <1>4, <1>5, <1>6, <1>7 DEF SystemStep, SystemNext
-----------------------------------------------------------------------------
(* Memory of the device *)

HandlesInUse == {buffers[b].handle : b \in DOMAIN buffers}
AddressesInUse == {buffers[b].address : b \in DOMAIN buffers}
ApartFromEachOther ==
    \A a, b \in DOMAIN buffers : a # b => buffers[a].address # buffers[b].address

\* VCSM: what is allocated belongs to a buffer or was refused, and never both.
VCSMInv ==
    /\ allocated = locked
    /\ allocated = refused \cup HandlesInUse /\ refused \cap HandlesInUse = {}
    /\ \A b \in DOMAIN buffers : buffers[b].handle = buffers[b].address

\* Emulator: the handle of a buffer is the index of its entry, and one.
EmulatorInv ==
    /\ entries = AddressesInUse /\ entries \subseteq Nat
    /\ \A b \in DOMAIN buffers : buffers[b].handle = buffers[b].address + 1

MemoryInv ==
    /\ Allocator = "vcsm" => VCSMInv
    /\ Allocator = "emulator" => EmulatorInv
    /\ Allocator = "none" => DOMAIN buffers = {}
    /\ Allocator # "mailbox" => ApartFromEachOther

LEMMA Allocators == Allocator \in {"emulator", "vcsm", "mailbox", "none"}
  BY DEF Allocator

LEMMA MemoryInvImplies == MemoryInv => NothingLeaked
  BY DEF MemoryInv, VCSMInv, EmulatorInv, ApartFromEachOther, HandlesInUse, AddressesInUse,
         NothingLeaked

LEMMA MemoryInvInit == SystemInit => MemoryInv
  BY DEF SystemInit, MemoryInv, VCSMInv, EmulatorInv, ApartFromEachOther, HandlesInUse,
         AddressesInUse

LEMMA NewBufferFacts ==
    ASSUME NEW b, b \notin DOMAIN buffers, NEW h, NEW a, NewBuffer(b, h, a)
    PROVE  /\ DOMAIN buffers' = DOMAIN buffers \cup {b}
           /\ buffers'[b].handle = h /\ buffers'[b].address = a
           /\ \A x \in DOMAIN buffers : buffers'[x] = buffers[x]
           /\ HandlesInUse' = HandlesInUse \cup {h}
           /\ AddressesInUse' = AddressesInUse \cup {a}
           /\ ApartFromEachOther /\ a \notin AddressesInUse => ApartFromEachOther'
<1>1. /\ DOMAIN buffers' = DOMAIN buffers \cup {b}
      /\ buffers'[b].handle = h /\ buffers'[b].address = a
      /\ \A x \in DOMAIN buffers : buffers'[x] = buffers[x]
  BY DEF NewBuffer
<1> QED
  BY <1>1 DEF HandlesInUse, AddressesInUse, ApartFromEachOther

\* The entry the emulator takes is empty.
LEMMA FirstEmpty ==
    ASSUME NEW empty, empty \subseteq Nat, empty # {}
    PROVE  (CHOOSE e \in empty : \A f \in empty : e <= f) \in empty
<1>1. PICK e \in empty : \A f \in empty : <<f, e>> \notin OpToRel(<, Nat)
  BY NatLessThanWellFounded, WFMin
<1>2. ASSUME NEW f \in empty
      PROVE  e <= f
  <2>1. <<f, e>> \in Nat \X Nat /\ e \in Nat /\ f \in Nat
    OBVIOUS
  <2>2. ~(f < e)
    BY <1>1, <2>1 DEF OpToRel
  <2> QED
    BY <2>1, <2>2
<1> QED
  BY <1>2

LEMMA MemoryInvAllocate ==
    ASSUME MemoryInv, NEW b \in DeviceBuffers, allocateBuffer(b)
    PROVE  MemoryInv'
<1>1. /\ environment' = environment /\ refused' = refused /\ b \notin DOMAIN buffers
      /\ CASE Allocator = "emulator" -> allocateEmulatorBuffer(b)
           [] Allocator = "vcsm" -> VCSM_Allocate(b)
           [] Allocator = "mailbox" -> Mailbox_Allocate(b)
           [] OTHER -> NoMemoryChange
  BY DEF allocateBuffer, objectVars
<1>2. Allocator' = Allocator
  BY <1>1, SameEnvironment
<1>3. ASSUME NoMemoryChange
      PROVE  MemoryInv'
  BY <1>1, <1>2, <1>3 DEF NoMemoryChange, MemoryInv, VCSMInv, EmulatorInv,
         ApartFromEachOther, HandlesInUse, AddressesInUse
<1>4. CASE Allocator = "emulator"
  <2> DEFINE empty == (0..(NumSlots - 1)) \ entries
             e == CHOOSE e \in empty : \A f \in empty : e <= f
  <2>1. CASE empty = {}
    BY <1>1, <1>3, <1>4, <2>1 DEF allocateEmulatorBuffer
  <2>2. CASE empty # {}
    <3>1. entries' = entries \cup {e} /\ NewBuffer(b, e + 1, e)
      BY <1>1, <1>4, <2>2 DEF allocateEmulatorBuffer
    <3>2. empty \subseteq Nat
      BY SystemAccessAssumption
    <3>3. e \in Nat /\ e \notin entries
      BY <2>2, <3>2, FirstEmpty
    <3> HIDE DEF e, empty
    <3>4. EmulatorInv /\ ApartFromEachOther
      BY <1>4 DEF MemoryInv
    <3>5. /\ DOMAIN buffers' = DOMAIN buffers \cup {b}
          /\ buffers'[b].handle = e + 1 /\ buffers'[b].address = e
          /\ \A x \in DOMAIN buffers : buffers'[x] = buffers[x]
          /\ AddressesInUse' = AddressesInUse \cup {e}
          /\ e \notin AddressesInUse => ApartFromEachOther'
      BY <1>1, <3>1, <3>4, NewBufferFacts
    <3>6. EmulatorInv' /\ ApartFromEachOther'
      BY <3>1, <3>3, <3>4, <3>5 DEF EmulatorInv
    <3> QED
      BY <1>2, <1>4, <3>6 DEF MemoryInv
  <2> QED
    BY <2>1, <2>2
<1>5. CASE Allocator = "vcsm"
  <2>1. CASE NoMemoryChange
    BY <1>3, <2>1
  <2>2. ASSUME NEW h \in Handles \ allocated,
               allocated' = allocated \cup {h}, locked' = locked \cup {h}, NewBuffer(b, h, h)
        PROVE  MemoryInv'
    <3>1. VCSMInv /\ ApartFromEachOther
      BY <1>5 DEF MemoryInv
    <3>2. h \notin HandlesInUse /\ h \notin refused /\ AddressesInUse = HandlesInUse
      BY <2>2, <3>1 DEF VCSMInv, AddressesInUse, HandlesInUse
    <3>3. /\ DOMAIN buffers' = DOMAIN buffers \cup {b}
          /\ buffers'[b].handle = h /\ buffers'[b].address = h
          /\ \A x \in DOMAIN buffers : buffers'[x] = buffers[x]
          /\ HandlesInUse' = HandlesInUse \cup {h}
          /\ ApartFromEachOther'
      BY <1>1, <2>2, <3>1, <3>2, NewBufferFacts
    <3>4. VCSMInv'
      BY <1>1, <2>2, <3>1, <3>2, <3>3 DEF VCSMInv
    <3> QED
      BY <1>2, <1>5, <3>3, <3>4 DEF MemoryInv
  <2> QED
    BY <1>1, <1>5, <2>1, <2>2 DEF VCSM_Allocate
<1>6. CASE Allocator = "mailbox"
  BY <1>2, <1>6 DEF MemoryInv
<1>7. CASE Allocator = "none"
  BY <1>1, <1>3, <1>7
<1> QED
  BY <1>4, <1>5, <1>6, <1>7, Allocators

LEMMA LessBufferFacts ==
    ASSUME NEW b \in DOMAIN buffers, ApartFromEachOther,
           buffers' = [x \in DOMAIN buffers \ {b} |-> buffers[x]]
    PROVE  /\ DOMAIN buffers' = DOMAIN buffers \ {b}
           /\ \A x \in DOMAIN buffers' : buffers'[x] = buffers[x]
           /\ AddressesInUse' = AddressesInUse \ {buffers[b].address}
           /\ ApartFromEachOther'
<1>1. DOMAIN buffers' = DOMAIN buffers \ {b}
  OBVIOUS
<1>2. \A x \in DOMAIN buffers' : buffers'[x] = buffers[x]
  OBVIOUS
<1> QED
  BY <1>1, <1>2 DEF AddressesInUse, ApartFromEachOther

LEMMA MemoryInvDestroy ==
    ASSUME MemoryInv, NEW b \in DeviceBuffers, DestroyBuffer(b)
    PROVE  MemoryInv'
<1>1. /\ environment' = environment /\ b \in DOMAIN buffers
      /\ buffers' = [x \in DOMAIN buffers \ {b} |-> buffers[x]]
      /\ deallocateBuffer(buffers[b].handle)
  BY DEF DestroyBuffer
<1>2. Allocator' = Allocator
  BY <1>1, SameEnvironment
<1> DEFINE h == buffers[b].handle
<1>3. CASE Allocator = "emulator"
  <2>1. entries' = entries \ {h - 1}
    BY <1>1, <1>3 DEF deallocateBuffer, deallocateEmulatorBuffer
  <2>2. EmulatorInv /\ ApartFromEachOther
    BY <1>3 DEF MemoryInv
  <2>3. buffers[b].address \in Nat /\ h - 1 = buffers[b].address
    <3>1. buffers[b].address \in AddressesInUse
      BY <1>1 DEF AddressesInUse
    <3>2. buffers[b].address \in Nat /\ h = buffers[b].address + 1
      BY <1>1, <2>2, <3>1 DEF EmulatorInv
    <3> QED
      BY <3>2
  <2>4. EmulatorInv' /\ ApartFromEachOther'
    BY <1>1, <2>1, <2>2, <2>3, LessBufferFacts DEF EmulatorInv
  <2> QED
    BY <1>2, <1>3, <2>4 DEF MemoryInv
<1>4. CASE Allocator = "vcsm"
  <2>1. VCSM_Deallocate(h)
    BY <1>1, <1>4 DEF deallocateBuffer
  <2>2. VCSMInv /\ ApartFromEachOther
    BY <1>4 DEF MemoryInv
  <2>3. h \in HandlesInUse /\ HandlesInUse' = HandlesInUse \ {h}
    <3>1. AddressesInUse = HandlesInUse /\ h = buffers[b].address
      BY <1>1, <2>2 DEF VCSMInv, AddressesInUse, HandlesInUse
    <3>2. AddressesInUse' = HandlesInUse'
      BY <1>1, <2>2, LessBufferFacts DEF VCSMInv, AddressesInUse, HandlesInUse
    <3> QED
      BY <1>1, <2>2, <3>1, <3>2, LessBufferFacts DEF HandlesInUse
  <2>4. ApartFromEachOther'
    BY <1>1, <2>2, LessBufferFacts
  <2>5. \A x \in DOMAIN buffers' : buffers'[x].handle = buffers'[x].address
    BY <1>1, <2>2 DEF VCSMInv
  <2>6. VCSMInv'
    BY <2>1, <2>2, <2>3, <2>5 DEF VCSMInv, VCSM_Deallocate
  <2> QED
    BY <1>2, <1>4, <2>4, <2>6 DEF MemoryInv
<1>5. CASE Allocator = "mailbox"
  BY <1>2, <1>5 DEF MemoryInv
<1>6. CASE Allocator = "none"
  BY <1>1, <1>6 DEF MemoryInv
<1> QED
  BY <1>3, <1>4, <1>5, <1>6, Allocators

LEMMA MemoryInvStep == MemoryInv /\ (SystemStep \/ UNCHANGED systemVars) => MemoryInv'
<1> SUFFICES ASSUME MemoryInv, SystemStep \/ UNCHANGED systemVars
             PROVE  MemoryInv'
  OBVIOUS
<1>1. ASSUME environment' = environment, UNCHANGED memoryVars
      PROVE  MemoryInv'
  BY <1>1, SameEnvironment DEF memoryVars, MemoryInv, VCSMInv, EmulatorInv,
         ApartFromEachOther, HandlesInUse, AddressesInUse
<1>2. CASE Create \/ Create_Throws \/ Exit \/ \E q \in Queries : querySystem(q)
  BY <1>1, <1>2 DEF Create, Create_Throws, Exit, querySystem, objectVars
<1>3. CASE UNCHANGED systemVars
  BY <1>1, <1>3 DEF systemVars, objectVars
<1> QED
  BY <1>2, <1>3, MemoryInvAllocate, MemoryInvDestroy DEF SystemStep, SystemNext
-----------------------------------------------------------------------------
(* Results of jobs *)

\* The ways of execution in which a job runs while the handler waits for it.
ViaVCHI == ~getEmulated /\ getExecMode = "VCHI_GPU_SERVICE" /\ "vchi" \in Components
ViaV3D == ~getEmulated /\ getExecMode = "V3D_REGISTER_POKING" /\ "v3d" \in Components

Last == left[Len(left)]

JobTypeOK ==
    /\ pc \in {"idle", "launch", "wait"} /\ handle \in {"PENDING", "PASSED", "FAILED"}
    /\ left \in Seq(Nat) /\ numQPUs \in Nat /\ currentJobId \in Nat /\ completed \in Nat

\* VCHI: the id that counts is that of the last job.
CallbackInv ==
    ViaVCHI => currentJobId = Len(left) /\ (isJobDone => left # <<>> /\ Last = 0)

\* V3D: unless a job of an earlier kernel goes on, only the last job runs, and
\* what the register counts is the part of it that has ended.
RegisterInv ==
    ViaV3D /\ ~foreign =>
        /\ pc = "launch" => \A j \in 1..Len(left) : left[j] = 0
        /\ pc = "wait" => \A j \in 1..(Len(left) - 1) : left[j] = 0
        /\ handle = "PENDING" => completed + Last = numQPUs

JobInv ==
    /\ JobTypeOK /\ CallbackInv /\ RegisterInv /\ JobResult
    /\ left = <<>> => handle = "FAILED"
    /\ handle = "PENDING" => pc = "wait" /\ (ViaVCHI \/ ViaV3D)

LEMMA SameWays ==
    ASSUME environment' = environment
    PROVE  ViaVCHI' = ViaVCHI /\ ViaV3D' = ViaV3D /\ getExecMode' = getExecMode
  BY SameEnvironment DEF ViaVCHI, ViaV3D

LEMMA LeftFacts ==
    ASSUME JobTypeOK
    PROVE  /\ Len(left) \in Nat /\ DOMAIN left = 1..Len(left)
           /\ \A j \in 1..Len(left) : left[j] \in Nat
           /\ left # <<>> => Len(left) \in 1..Len(left)
<1>1. Len(left) \in Nat /\ DOMAIN left = 1..Len(left)
  BY LenProperties DEF JobTypeOK
<1>2. left # <<>> => Len(left) # 0
  BY EmptySeq DEF JobTypeOK
<1> QED
  BY <1>1, <1>2, ElementOfSeq DEF JobTypeOK

LEMMA JobInvInit == Init => JobInv
<1> SUFFICES ASSUME Init PROVE JobInv
  OBVIOUS
<1>1. left = <<>> /\ Len(left) = 0 /\ left \in Seq(Nat)
  BY EmptySeq DEF Init
<1> QED
  BY <1>1 DEF Init, JobInv, JobTypeOK, CallbackInv, RegisterInv, JobResult

LEMMA JobInvSame ==
    ASSUME JobInv, environment' = environment, UNCHANGED <<jobVars, foreign>>
    PROVE  JobInv'
<1>1. ViaVCHI' = ViaVCHI /\ ViaV3D' = ViaV3D /\ getExecMode' = getExecMode
  BY SameWays
<1>2. UNCHANGED <<pc, handle, left, numQPUs, currentJobId, isJobDone, completed, foreign>>
  BY DEF jobVars
<1>3. JobTypeOK' /\ Last' = Last
  BY <1>2 DEF JobInv, JobTypeOK, Last
<1>4. CallbackInv' /\ RegisterInv'
  BY <1>1, <1>2, <1>3 DEF JobInv, CallbackInv, RegisterInv
<1>5. JobResult'
  BY <1>1, <1>2 DEF JobInv, JobResult
<1> QED
  BY <1>1, <1>2, <1>3, <1>4, <1>5 DEF JobInv

LEMMA JobInvBegin ==
    ASSUME JobInv, NEW n \in 1..NumQPUs, NEW measured \in BOOLEAN, BeginKernel(n, measured)
    PROVE  JobInv'
<1>1. /\ environment' = environment /\ pc = "idle" /\ pc' = "launch" /\ numQPUs' = n
      /\ foreign' = (Running # {})
      /\ UNCHANGED <<handle, left, currentJobId, isJobDone, completed>>
  BY DEF BeginKernel, objectVars
<1>2. ViaVCHI' = ViaVCHI /\ ViaV3D' = ViaV3D /\ getExecMode' = getExecMode
  BY <1>1, SameWays
<1>3. JobTypeOK'
  BY <1>1, QPUJobsAssumption DEF JobInv, JobTypeOK
<1>4. ~foreign' => \A j \in 1..Len(left) : left[j] = 0
  <2>1. ~foreign' => Running = {}
    BY <1>1
  <2> QED
    BY <2>1, LeftFacts DEF JobInv, Running
<1>5. handle # "PENDING"
  BY <1>1 DEF JobInv
<1>6. JobResult'
  <2>1. CASE getExecMode = "V3D_REGISTER_POKING" /\ ~foreign'
    <3>1. handle = "PASSED" => Last = 0
      BY <1>4, <2>1, LeftFacts DEF JobInv, Last
    <3> QED
      BY <1>1, <3>1 DEF JobResult, Last
  <2>2. CASE ~(getExecMode = "V3D_REGISTER_POKING" /\ ~foreign')
    BY <1>1, <1>2, <2>2 DEF JobInv, JobResult
  <2> QED
    BY <2>1, <2>2
<1>7. CallbackInv'
  BY <1>1, <1>2 DEF JobInv, CallbackInv, Last
<1>8. RegisterInv'
  BY <1>1, <1>2, <1>4, <1>5 DEF RegisterInv
<1> QED
  BY <1>1, <1>3, <1>5, <1>6, <1>7, <1>8 DEF JobInv

\* What the ways to start a job have in common.
LEMMA executeQPUFacts ==
    ASSUME JobInv, executeQPU
    PROVE  /\ environment' = environment /\ pc = "launch" /\ pc' = "wait"
           /\ UNCHANGED <<numQPUs, foreign>>
           /\ \/ ViaVCHI /\ VCHI_executeQPU
              \/ ViaV3D /\ V3D_executeQPU
              \/ /\ ~ViaVCHI /\ ~ViaV3D /\ UNCHANGED <<currentJobId, isJobDone, completed>>
                 /\ \/ handle' = "FAILED" /\ Submit
                    \/ handle' \in {"PASSED", "FAILED"} /\ left' = Append(left, 0)
<1>1. /\ environment' = environment /\ pc = "launch" /\ pc' = "wait"
      /\ UNCHANGED <<numQPUs, foreign>>
  BY DEF executeQPU, systemVars, objectVars
<1>2. CASE ViaVCHI
  BY <1>1, <1>2 DEF executeQPU, ViaVCHI
<1>3. CASE ViaV3D
  BY <1>1, <1>3 DEF executeQPU, ViaV3D
<1>4. CASE ~ViaVCHI /\ ~ViaV3D
  BY <1>1, <1>4 DEF executeQPU, ViaVCHI, ViaV3D, emulateQPU, BlockingJob, NoRegister, NoCallback
<1> QED
  BY <1>2, <1>3, <1>4

LEMMA AppendFacts ==
    ASSUME JobTypeOK, NEW n \in Nat, left' = Append(left, n)
    PROVE  /\ left' \in Seq(Nat) /\ left' # <<>> /\ Len(left') = Len(left) + 1
           /\ Len(left) \in Nat /\ Last' = n
           /\ \A j \in 1..Len(left) : left'[j] = left[j]
  BY AppendProperties, LenProperties DEF JobTypeOK, Last

LEMMA JobInvExecute ==
    ASSUME JobInv, executeQPU
    PROVE  JobInv'
<1>1. /\ environment' = environment /\ pc = "launch" /\ pc' = "wait"
      /\ numQPUs' = numQPUs /\ foreign' = foreign /\ JobTypeOK
  BY executeQPUFacts DEF JobInv
<1>2. ViaVCHI' = ViaVCHI /\ ViaV3D' = ViaV3D /\ getExecMode' = getExecMode
  BY <1>1, SameWays
<1>3. ~(ViaVCHI /\ ViaV3D)
  BY DEF ViaVCHI, ViaV3D
<1>4. CASE ViaVCHI /\ VCHI_executeQPU
  <2>1. PICK n \in {0, numQPUs} :
           /\ left' = Append(left, n) /\ handle' \in {"PENDING", "FAILED"}
           /\ currentJobId' = currentJobId + 1 /\ isJobDone' = FALSE /\ completed' = completed
    BY <1>4 DEF VCHI_executeQPU, Submit, NoRegister
  <2>2. n \in Nat
    BY <1>1 DEF JobTypeOK
  <2>3. /\ left' \in Seq(Nat) /\ left' # <<>> /\ Len(left') = Len(left) + 1
    BY <1>1, <2>1, <2>2, AppendFacts
  <2>4. JobTypeOK'
    BY <1>1, <2>1, <2>3 DEF JobTypeOK
  <2>5. CallbackInv'
    BY <1>2, <1>4, <2>1, <2>3 DEF JobInv, CallbackInv
  <2> QED
    BY <1>1, <1>2, <1>3, <1>4, <2>1, <2>3, <2>4, <2>5 DEF JobInv, RegisterInv, JobResult
<1>5. CASE ViaV3D /\ V3D_executeQPU
  <2>1. /\ left' = Append(left, numQPUs) /\ handle' = "PENDING" /\ completed' = 0
        /\ UNCHANGED <<currentJobId, isJobDone>> /\ numQPUs \in Nat
    BY <1>1, <1>5 DEF V3D_executeQPU, Submit, NoCallback, JobTypeOK
  <2>2. /\ left' \in Seq(Nat) /\ left' # <<>> /\ Len(left') = Len(left) + 1
        /\ Len(left) \in Nat /\ Last' = numQPUs
        /\ \A j \in 1..Len(left) : left'[j] = left[j]
    BY <1>1, <2>1, AppendFacts
  <2>3. JobTypeOK'
    BY <1>1, <2>1, <2>2 DEF JobTypeOK
  <2>4. RegisterInv'
    <3>1. ~foreign => \A j \in 1..Len(left) : left[j] = 0
      BY <1>1, <1>5 DEF JobInv, RegisterInv
    <3>2. \A j \in 1..(Len(left') - 1) : j \in 1..Len(left)
      BY <2>2
    <3> QED
      BY <1>1, <2>1, <2>2, <3>1, <3>2 DEF RegisterInv
  <2> QED
    BY <1>1, <1>2, <1>3, <1>5, <2>1, <2>2, <2>3, <2>4 DEF JobInv, CallbackInv, JobResult
<1>6. CASE ~ViaVCHI /\ ~ViaV3D
  <2>1. PICK n \in {0, numQPUs} :
           /\ left' = Append(left, n) /\ handle' \in {"PASSED", "FAILED"}
           /\ handle' = "PASSED" => n = 0
           /\ UNCHANGED <<currentJobId, isJobDone, completed>>
    BY <1>6, executeQPUFacts DEF Submit
  <2>2. n \in Nat
    BY <1>1 DEF JobTypeOK
  <2>3. left' \in Seq(Nat) /\ left' # <<>> /\ Last' = n
    BY <1>1, <2>1, <2>2, AppendFacts
  <2>4. JobTypeOK'
    BY <1>1, <2>1, <2>3 DEF JobTypeOK
  <2>5. JobResult'
    BY <2>1, <2>3 DEF JobResult, Last
  <2> QED
    BY <1>1, <1>2, <1>6, <2>1, <2>3, <2>4, <2>5 DEF JobInv, CallbackInv, RegisterInv
<1> QED
  BY <1>4, <1>5, <1>6, executeQPUFacts

\* A program of job j ends.
LEMMA EndFacts ==
    ASSUME JobTypeOK, NEW j \in Running, ProgramEnds(j)
    PROVE  /\ j \in 1..Len(left) /\ left[j] \in Nat \ {0} /\ Len(left) \in Nat
           /\ left' \in Seq(Nat) /\ left' # <<>> /\ left # <<>> /\ Len(left') = Len(left)
           /\ \A i \in 1..Len(left) : left'[i] = IF i = j THEN left[j] - 1 ELSE left[i]
<1>1. j \in 1..Len(left) /\ left[j] > 0 /\ left[j] \in Nat /\ Len(left) \in Nat
  BY LeftFacts DEF Running
<1>2. left' = [left EXCEPT ![j] = left[j] - 1] /\ left[j] - 1 \in Nat /\ left \in Seq(Nat)
  BY <1>1 DEF ProgramEnds, JobTypeOK
<1>3. /\ left' \in Seq(Nat) /\ Len(left') = Len(left)
      /\ \A i \in 1..Len(left) : left'[i] = IF i = j THEN left[j] - 1 ELSE left[i]
  BY <1>1, <1>2, ExceptSeq
<1>4. left # <<>> /\ left' # <<>>
  BY <1>1, <1>3, EmptySeq
<1> QED
  BY <1>1, <1>3, <1>4

LEMMA JobInvEnds ==
    ASSUME JobInv, NEW j \in Running, ProgramEnds(j)
    PROVE  JobInv'
<1>1. /\ environment' = environment /\ JobTypeOK
      /\ UNCHANGED <<pc, handle, numQPUs, currentJobId, foreign>>
      /\ completed' = completed + 1
      /\ isJobDone' = (isJobDone \/ (left[j] = 1 /\ IsCurrent(j)))
  BY DEF ProgramEnds, systemVars, objectVars, JobInv
<1>2. ViaVCHI' = ViaVCHI /\ ViaV3D' = ViaV3D /\ getExecMode' = getExecMode
  BY <1>1, SameWays
<1>3. /\ j \in 1..Len(left) /\ left[j] \in Nat \ {0} /\ Len(left) \in Nat
      /\ left' \in Seq(Nat) /\ left' # <<>> /\ left # <<>> /\ Len(left') = Len(left)
      /\ \A i \in 1..Len(left) : left'[i] = IF i = j THEN left[j] - 1 ELSE left[i]
  BY <1>1, EndFacts
<1>4. Len(left) \in 1..Len(left) /\ Last' = IF Len(left) = j THEN left[j] - 1 ELSE Last
  BY <1>3, LeftFacts, <1>1 DEF Last
<1>5. Last = 0 => Last' = 0
  BY <1>3, <1>4 DEF Last
<1>6. JobTypeOK'
  BY <1>1, <1>3 DEF JobTypeOK
<1>7. CallbackInv'
  <2> SUFFICES ASSUME ViaVCHI PROVE CallbackInv'
    BY <1>2 DEF CallbackInv
  <2>1. currentJobId' = Len(left')
    BY <1>1, <1>3 DEF JobInv, CallbackInv
  <2>2. ASSUME isJobDone'
        PROVE  Last' = 0
    <3>1. CASE isJobDone
      BY <1>5, <3>1 DEF JobInv, CallbackInv
    <3>2. CASE left[j] = 1 /\ IsCurrent(j)
      <4>1. currentJobId = j /\ currentJobId = Len(left)
        BY <1>1, <1>3, <2>1, <3>2 DEF IsCurrent
      <4> QED
        BY <1>4, <3>2, <4>1
    <3> QED
      BY <1>1, <2>2, <3>1, <3>2
  <2> QED
    BY <1>3, <2>1, <2>2 DEF CallbackInv
<1>8. RegisterInv'
  <2> SUFFICES ASSUME ViaV3D, ~foreign PROVE RegisterInv'
    BY <1>1, <1>2 DEF RegisterInv
  <2>1. pc # "launch"
    BY <1>3 DEF JobInv, RegisterInv
  <2>2. pc = "wait" => j = Len(left)
    <3>1. pc = "wait" => \A i \in 1..(Len(left) - 1) : left[i] = 0
      BY DEF JobInv, RegisterInv
    <3> QED
      BY <1>3, <3>1
  <2>3. pc = "wait" => \A i \in 1..(Len(left') - 1) : left'[i] = 0
    BY <1>3, <2>2 DEF JobInv, RegisterInv
  <2>4. handle = "PENDING" => completed' + Last' = numQPUs
    <3>1. handle = "PENDING" => completed + Last = numQPUs /\ pc = "wait"
      BY DEF JobInv, RegisterInv
    <3> QED
      BY <1>1, <1>3, <1>4, <2>2, <3>1 DEF JobTypeOK, Last
  <2> QED
    BY <1>1, <2>1, <2>3, <2>4 DEF RegisterInv
<1>9. JobResult'
  BY <1>1, <1>2, <1>5 DEF JobInv, JobResult, Last
<1> QED
  BY <1>1, <1>2, <1>3, <1>6, <1>7, <1>8, <1>9 DEF JobInv

LEMMA JobInvWait ==
    ASSUME JobInv, WaitFor
    PROVE  JobInv'
<1>1. /\ environment' = environment /\ JobTypeOK /\ pc = "wait"
      /\ UNCHANGED <<left, numQPUs, currentJobId, isJobDone, completed, foreign>>
      /\ handle' \in {"PASSED", "FAILED"}
      /\ handle' = "PASSED" => handle = "PASSED" \/ (handle = "PENDING" /\ JobDone)
      /\ \/ handle' = "PASSED" /\ pc' = "launch"
         \/ pc' = "idle"
  BY DEF WaitFor, systemVars, objectVars, historyVars, JobInv, JobTypeOK
<1>2. ViaVCHI' = ViaVCHI /\ ViaV3D' = ViaV3D /\ getExecMode' = getExecMode
  BY <1>1, SameWays
<1>3. JobTypeOK' /\ Last' = Last
  BY <1>1 DEF JobTypeOK, Last
<1>4. CallbackInv'
  BY <1>1, <1>2, <1>3 DEF JobInv, CallbackInv
<1>5. left # <<>> \/ handle' # "PASSED"
  <2>1. left = <<>> => handle = "FAILED"
    BY DEF JobInv
  <2> QED
    BY <1>1, <2>1
<1>6. handle' = "PASSED" /\ (getExecMode = "V3D_REGISTER_POKING" => ~foreign) => Last = 0
  <2> SUFFICES ASSUME handle' = "PASSED", getExecMode = "V3D_REGISTER_POKING" => ~foreign
               PROVE  Last = 0
    OBVIOUS
  <2>1. CASE handle = "PASSED"
    BY <2>1 DEF JobInv, JobResult, Last
  <2>2. CASE handle = "PENDING" /\ JobDone /\ ViaVCHI
    BY <2>2 DEF JobInv, CallbackInv, JobDone, ViaVCHI
  <2>3. CASE handle = "PENDING" /\ JobDone /\ ViaV3D
    <3>1. completed = numQPUs /\ ~foreign
      BY <2>3 DEF JobDone, ViaV3D
    <3>2. completed + Last = numQPUs /\ left # <<>>
      BY <1>5, <2>3, <3>1 DEF JobInv, RegisterInv
    <3>3. Last \in Nat
      BY <1>1, <3>2, LeftFacts DEF Last
    <3> QED
      BY <1>1, <3>1, <3>2, <3>3 DEF JobTypeOK
  <2> QED
    BY <1>1, <2>1, <2>2, <2>3 DEF JobInv
<1>7. JobResult'
  BY <1>1, <1>2, <1>6 DEF JobResult, Last
<1>8. RegisterInv'
  <2> SUFFICES ASSUME ViaV3D, ~foreign, pc' = "launch"
               PROVE  \A j \in 1..Len(left) : left[j] = 0
    BY <1>1, <1>2 DEF RegisterInv
  <2>1. \A j \in 1..(Len(left) - 1) : left[j] = 0
    BY <1>1 DEF JobInv, RegisterInv
  <2>2. Last = 0
    BY <1>1, <1>6
  <2> QED
    BY <1>1, <2>1, <2>2, LeftFacts DEF Last
<1> QED
  BY <1>1, <1>3, <1>4, <1>5, <1>7, <1>8 DEF JobInv

-----------------------------------------------------------------------------
(* Performance counters *)

\* While a kernel is measured all counters count, and they have counted exactly
\* what has ended since it was begun.
CounterInv ==
    /\ value \in [Counters -> Nat] /\ ended \in Nat
    /\ pc # "idle" => counterValues = <<>>
    /\ pc # "idle" /\ collecting /\ successful =>
           Counters \subseteq enable /\ \A i \in Counters : value[i] = ended
    /\ pc = "idle" => \A i \in Counters : HasCounterValue(i) => getCounterValue(i) = ended

LEMMA NoValues == \A i : i \notin DOMAIN <<>>
  OBVIOUS

LEMMA CounterInvImplies == CounterInv => CountersOwn
  BY DEF CounterInv, CountersOwn

LEMMA CounterInvInit == Init => CounterInv
  BY NoValues DEF Init, CounterInv, Zero, HasCounterValue

LEMMA CounterInvSame ==
    ASSUME CounterInv, UNCHANGED <<pc, ended, counterVars>>
    PROVE  CounterInv'
  BY DEF CounterInv, counterVars, HasCounterValue, getCounterValue

LEMMA CounterInvBegin ==
    ASSUME CounterInv, NEW n \in 1..NumQPUs, NEW measured \in BOOLEAN, BeginKernel(n, measured)
    PROVE  CounterInv'
<1>1. pc' = "launch" /\ ended' = 0 /\ counterValues' = <<>>
  BY DEF BeginKernel, CollectorBegin
<1>2. CASE setCounter
  BY <1>1, <1>2 DEF setCounter, CounterInv, Zero
<1>3. CASE successful' = FALSE /\ value' = value
  BY <1>1, <1>3 DEF CounterInv
<1>4. setCounter \/ (successful' = FALSE /\ value' = value)
  BY DEF BeginKernel, CollectorBegin
<1> QED
  BY <1>2, <1>3, <1>4

LEMMA CounterInvExecute ==
    ASSUME JobInv, CounterInv, executeQPU
    PROVE  CounterInv'
<1>1. /\ pc = "launch" /\ pc' = "wait" /\ UNCHANGED <<enable, collecting, successful, counterValues>>
      /\ ended' = ended + EndedInside
      /\ value' = [i \in Counters |-> IF i \in enable THEN value[i] + EndedInside ELSE value[i]]
  BY DEF executeQPU
<1>2. EndedInside \in Nat
  BY DEF EndedInside, JobInv, JobTypeOK
<1> QED
  BY <1>1, <1>2 DEF CounterInv

LEMMA CounterInvEnds ==
    ASSUME CounterInv, NEW j \in Running, ProgramEnds(j)
    PROVE  CounterInv'
<1>1. /\ pc' = pc /\ UNCHANGED <<enable, collecting, successful, counterValues>>
      /\ ended' = (IF pc = "idle" THEN ended ELSE ended + 1)
      /\ value' = [i \in Counters |-> IF i \in enable THEN value[i] + 1 ELSE value[i]]
  BY DEF ProgramEnds
<1> QED
  BY <1>1 DEF CounterInv, HasCounterValue, getCounterValue

LEMMA CounterInvWait ==
    ASSUME CounterInv, WaitFor
    PROVE  CounterInv'
<1>1. pc = "wait" /\ ended' = ended
  BY DEF WaitFor, historyVars
<1>2. CASE pc' = "launch" /\ UNCHANGED counterVars
  BY <1>1, <1>2 DEF CounterInv, counterVars
<1>3. CASE pc' = "idle" /\ CollectorEnd
  <2>1. value' \in [Counters -> Nat]
    BY <1>3 DEF CollectorEnd, CounterInv, Zero
  <2>2. CASE counterValues' = counterValues
    BY <1>1, <1>3, <2>1, <2>2, NoValues DEF CounterInv, HasCounterValue
  <2>3. CASE collecting /\ successful /\ counterValues' = value
    BY <1>1, <1>3, <2>1, <2>3 DEF CounterInv, getCounterValue
  <2> QED
    BY <1>3, <2>2, <2>3 DEF CollectorEnd
<1> QED
  BY <1>2, <1>3 DEF WaitFor

-----------------------------------------------------------------------------
(* The theorems *)

LEMMA SystemUnchanged ==
    ASSUME SystemInv, MemoryInv, UNCHANGED <<objectVars, memoryVars>>
    PROVE  SystemInv' /\ MemoryInv'
<1>1. environment' = environment
  BY DEF objectVars
<1>2. SystemInv'
  BY <1>1, SameEnvironment DEF SystemInv, objectVars, memoryVars
<1>3. MemoryInv'
  BY <1>1, SameEnvironment DEF memoryVars, MemoryInv, VCSMInv, EmulatorInv,
         ApartFromEachOther, HandlesInUse, AddressesInUse
<1> QED
  BY <1>2, <1>3

QPUJobsInv == SystemInv /\ MemoryInv /\ JobInv /\ CounterInv

LEMMA QPUJobsStep == QPUJobsInv /\ [Next]_vars => QPUJobsInv'
<1> SUFFICES ASSUME SystemInv, MemoryInv, JobInv, CounterInv, [Next]_vars
             PROVE  QPUJobsInv'
  BY DEF QPUJobsInv
<1>1. ASSUME SystemStep, UNCHANGED <<jobVars, counterVars, historyVars>>
      PROVE  QPUJobsInv'
  <2>1. environment' = environment
    BY <1>1 DEF SystemStep, SystemNext, Create, Create_Throws, querySystem, allocateBuffer,
                DestroyBuffer, Exit, objectVars
  <2>2. JobInv' /\ CounterInv'
    BY <1>1, <2>1, JobInvSame, CounterInvSame DEF jobVars, historyVars
  <2> QED
    BY <1>1, <2>2, SystemInvStep, MemoryInvStep DEF QPUJobsInv
<1>2. ASSUME NEW n \in 1..NumQPUs, NEW measured \in BOOLEAN, BeginKernel(n, measured)
      PROVE  QPUJobsInv'
  BY <1>2, JobInvBegin, CounterInvBegin, SystemUnchanged DEF QPUJobsInv, BeginKernel
<1>3. CASE executeQPU
  BY <1>3, JobInvExecute, CounterInvExecute, SystemUnchanged DEF QPUJobsInv, executeQPU, systemVars
<1>4. CASE WaitFor
  BY <1>4, JobInvWait, CounterInvWait, SystemUnchanged DEF QPUJobsInv, WaitFor, systemVars
<1>5. ASSUME NEW j \in Running, ProgramEnds(j)
      PROVE  QPUJobsInv'
  BY <1>5, JobInvEnds, CounterInvEnds, SystemUnchanged DEF QPUJobsInv, ProgramEnds, systemVars
<1>6. CASE UNCHANGED vars
  BY <1>6, JobInvSame, CounterInvSame, SystemUnchanged
     DEF QPUJobsInv, vars, systemVars, jobVars, historyVars, objectVars
<1> QED
  BY <1>1, <1>2, <1>3, <1>4, <1>5, <1>6 DEF Next, SystemStep

LEMMA QPUJobsInvariance == Spec => []QPUJobsInv
<1>1. Init => QPUJobsInv
  BY SystemInvInit, MemoryInvInit, JobInvInit, CounterInvInit DEF QPUJobsInv, Init
<1> QED
  BY <1>1, QPUJobsStep, PTL DEF Spec

\* Device memory that VCSM or the emulator gave out belongs to exactly one live
\* buffer or was refused when it was given back, whichever request of an
\* allocation fails.
THEOREM DeviceMemoryAccounted == Spec => []NothingLeaked
<1>1. QPUJobsInv => NothingLeaked
  BY MemoryInvImplies DEF QPUJobsInv
<1> QED
  BY <1>1, QPUJobsInvariance, PTL

\* SystemAccess lives as long as any device buffer, and what it switched on is
\* switched off exactly when it goes.
THEOREM SystemLivesLongEnough == Spec => []SystemOutlivesBuffers
<1>1. QPUJobsInv => SystemOutlivesBuffers
  BY MailboxComponent DEF QPUJobsInv, SystemInv, SystemOutlivesBuffers
<1> QED
  BY <1>1, QPUJobsInvariance, PTL

\* A job that is reported to have passed has ended, in every mode and after any
\* number of timeouts; on the V3D if no job of an earlier kernel goes on.
THEOREM PassedJobsHaveEnded == Spec => []JobResult
<1>1. QPUJobsInv => JobResult
  BY DEF QPUJobsInv, JobInv
<1> QED
  BY <1>1, QPUJobsInvariance, PTL

\* The counters of a kernel count what ended while it was executed.
THEOREM CountersOfKernel == Spec => []CountersOwn
<1>1. QPUJobsInv => CountersOwn
  BY CounterInvImplies DEF QPUJobsInv
<1> QED
  BY <1>1, QPUJobsInvariance, PTL
================================================================================
