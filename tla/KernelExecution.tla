---------------------------- MODULE KernelExecution ----------------------------
(***************************************************************************)
(* One kernel after another through clEnqueueNDRangeKernel (Kernel.cpp),   *)
(* executeKernel (executor.cpp) and the QPUs as V3D.cpp drives them.       *)
(*                                                                         *)
(* The executor starts the QPUs for one work-group and, while they run,    *)
(* writes the UNIFORMs of the next one into the other of two blocks.  A    *)
(* QPU reads its UNIFORMs when it gets to it.  Waiting may time out while  *)
(* QPUs are still running.                                                 *)
(*                                                                         *)
(* Host and QPUs share the memory; a requested QPU program is a record     *)
(* naming its kernel, its QPU and its block, a running one says what it    *)
(* has read there.  Once a wait has timed out programs are no longer       *)
(* followed, but only counted.                                             *)
(***************************************************************************)
EXTENDS WorkSizes, Bags

CONSTANTS
    Requests,     \* the ND-ranges the application asks for
    MaxKernels,   \* bound on the number of calls of clEnqueueNDRangeKernel
    MaxTimeouts   \* bound on the number of waits that time out

ASSUME KernelExecutionAssumption ==
    /\ MaxKernels \in Nat
    /\ MaxTimeouts \in Nat

\* The arguments are size_t values, of which more may be read than dim says.
ASSUME RequestsAssumption ==
    /\ NULL \notin Triple(Sizes)
    /\ \A r \in Requests :
          /\ r.state \in {"CL_SUCCESS", "CL_INVALID_CONTEXT",
                         "CL_INVALID_PROGRAM_EXECUTABLE", "CL_INVALID_KERNEL_ARGS"}
          /\ r.dim \in Nat /\ r.merge \in Nat
          /\ {r.offset, r.global, r.local} \subseteq Triple(Sizes) \cup {NULL}
          /\ r.reqd \in Triple(Sizes)

VARIABLES
    pc,          \* what the executor does next
    kernel,      \* number of calls so far, names the current kernel
    request,     \* the request of the current kernel
    localSizes,  \* the local sizes of the current kernel
    group,       \* group_indices
    block,       \* the UNIFORM block of the current work-group
    uniforms,    \* the UNIFORMs of each QPU in each of the two blocks
    queued,      \* QPU programs requested and not yet started
    running,     \* QPU programs that have read their UNIFORMs
    strays,      \* the numbers of those that are no longer followed
    completed,   \* the V3D counter of completed programs
    owned,       \* what the KernelExecution and executeKernel keep allocated
    objectAlive, \* the application still holds the buffers it set as arguments
    result,      \* outcome of the last call or execution
    executed,    \* history: the work-items the current kernel has executed
    late         \* history: waits that timed out

hostVars == <<pc, kernel, request, localSizes, group, block, uniforms, owned, result>>
deviceVars == <<queued, running, strays, completed, executed>>
vars == <<hostVars, deviceVars, objectAlive, late>>

Limits == GroupLimits(request, localSizes)

\* The QPUs a work-group of the current kernel is started on.
UsedQPUs == 0..(QPUsNeeded(request, localSizes) - 1)
QPUs == 0..(NumQPUs - 1)

Unset == [group |-> <<0, 0, 0>>, local |-> <<0, 0, 0>>]

Results == {"CL_SUCCESS", "CL_COMPLETE", "CL_OUT_OF_RESOURCES", "CL_INVALID_CONTEXT",
            "CL_INVALID_PROGRAM_EXECUTABLE", "CL_INVALID_KERNEL_ARGS",
            "CL_INVALID_WORK_DIMENSION", "CL_INVALID_GLOBAL_WORK_SIZE",
            "CL_INVALID_GLOBAL_OFFSET", "CL_INVALID_WORK_GROUP_SIZE"}

-----------------------------------------------------------------------------
(* The work-items of a kernel *)

\* The range the application asked for.
NDRange(r) == LET g == GlobalSizes(r) IN
    {<<x, y, z>> : x \in 0..(g[1] - 1), y \in 0..(g[2] - 1), z \in 0..(g[3] - 1)}

GroupsUpTo(limits) == {g \in Triple(0..Max({limits[d] : d \in Dims})) :
                           \A d \in Dims : g[d] < limits[d]}

\* What the compiled code executes for its UNIFORMs u: work-items next to each
\* other in the first dimension, for this work-group or for all of them.
WorkItems(u) ==
    LET last == Min({u.local[1] + MergeFactor(request), localSizes[1]}) - 1
    IN  {<<g[1] * localSizes[1] + x, g[2] * localSizes[2] + u.local[2],
           g[3] * localSizes[3] + u.local[3]>> :
            g \in IF request.loop THEN GroupsUpTo(Limits) ELSE {u.group},
            x \in u.local[1]..last}

-----------------------------------------------------------------------------
(* Kernel::enqueueNDRange *)

\* Mutant: the buffers set as arguments are used without sharing their ownership.
Tracked_NotArgs == {"tmp"}

\* What allocateAndTrackBufferArguments makes the KernelExecution own.
Tracked == {"tmp", "args"}

\* The call checks the sizes and allocates the temporary buffers.  The queue
\* handler, which executes one command at a time, goes on with executeKernel; a
\* call made earlier waits in the queue and touches nothing of this.  The
\* application sets buffers it holds as the arguments of each call.
enqueueNDRange(r) ==
    /\ pc = "idle" /\ kernel < MaxKernels
    /\ kernel' = kernel + 1
    /\ request' = r
    /\ localSizes' = IF setWorkGroupSizes(r) = "CL_SUCCESS" THEN LocalSizes(r) ELSE <<1, 1, 1>>
    /\ objectAlive' = TRUE
    /\ executed' = EmptyBag
    /\ \/ /\ setWorkGroupSizes(r) # "CL_SUCCESS"
          /\ result' = setWorkGroupSizes(r)
          /\ owned' = {} /\ UNCHANGED pc
       \/ /\ setWorkGroupSizes(r) = "CL_SUCCESS"
          /\ result' = "CL_OUT_OF_RESOURCES"
          /\ owned' = {} /\ UNCHANGED pc
       \/ /\ setWorkGroupSizes(r) = "CL_SUCCESS"
          /\ result' = "CL_SUCCESS"
          /\ owned' = Tracked /\ pc' = "ready"
    /\ UNCHANGED <<group, block, uniforms, queued, running, strays, completed, late>>

\* clReleaseMemObject on the buffers that are set as arguments.
ReleaseMemObject ==
    /\ objectAlive
    /\ objectAlive' = FALSE
    /\ UNCHANGED <<hostVars, deviceVars, late>>

-----------------------------------------------------------------------------
(* executeKernel *)

\* set_work_item_info for the QPUs of the work-group g.
WorkItemInfo(g) ==
    [i \in QPUs |->
        IF i \notin UsedQPUs THEN Unset
        ELSE LET l == LocalIndices(localSizes, i)
             IN  [group |-> g,
                  local |-> <<l[1] * MergeFactor(request), l[2], l[3]>>]]

\* The indices and the two blocks are gone when executeKernel returns.
Return(code) ==
    /\ pc' = "idle" /\ result' = code
    /\ group' = <<0, 0, 0>> /\ block' = 0
    /\ uniforms' = [b \in {0, 1} |-> [i \in QPUs |-> Unset]]

\* Why nothing may be executed: too many QPUs, no work-items, or no memory.
Refusal ==
    IF QPUsNeeded(request, localSizes) > NumQPUs THEN "CL_INVALID_GLOBAL_WORK_SIZE"
    ELSE IF QPUsNeeded(request, localSizes) = 0 THEN "CL_COMPLETE"
    ELSE "CL_OUT_OF_RESOURCES"

executeKernel_Refuse ==
    /\ pc = "ready"
    /\ Return(Refusal)
    /\ UNCHANGED <<kernel, request, localSizes, owned, deviceVars, objectAlive, late>>

\* The buffer for code, UNIFORMs and launch messages is allocated and both
\* UNIFORM blocks are set to the first work-group.
executeKernel_Begin ==
    /\ pc = "ready" /\ QPUsNeeded(request, localSizes) \in 1..NumQPUs
    /\ pc' = "launch"
    /\ owned' = owned \cup {"kernel"}
    /\ group' = <<0, 0, 0>>
    /\ block' = 0
    /\ uniforms' = [b \in {0, 1} |-> WorkItemInfo(<<0, 0, 0>>)]
    /\ UNCHANGED <<kernel, request, localSizes, result, deviceVars, objectAlive, late>>

\* V3D::executeQPU resets the counters and requests one program per QPU.
executeQPU ==
    /\ pc = "launch"
    /\ pc' = "prepare"
    /\ completed' = 0
    /\ IF late = 0
       THEN /\ queued' = queued \cup
                   {[kernel |-> kernel, qpu |-> i, block |-> block] : i \in UsedQPUs}
            /\ UNCHANGED strays
       ELSE /\ strays' = [strays EXCEPT !.queued = @ + QPUsNeeded(request, localSizes)]
            /\ UNCHANGED queued
    /\ UNCHANGED <<kernel, request, localSizes, group, block, uniforms, owned, result, running,
                   executed, objectAlive, late>>

\* Mutant: the blocks are not switched.
PrepareNext_SameBlock ==
    /\ pc = "prepare"
    /\ LET next == increment_index(group, Limits) IN
       IF ~request.loop /\ InLimits(next, Limits)
       THEN /\ pc' = "wait"
            /\ group' = next
            /\ uniforms' = [uniforms EXCEPT ![block] = WorkItemInfo(next)]
       ELSE pc' = "finish" /\ UNCHANGED <<group, uniforms>>
    /\ UNCHANGED <<kernel, request, localSizes, block, owned, result, deviceVars, objectAlive, late>>

\* Mutant: the next work-group is started without waiting for this one.
PrepareNext_NoWait ==
    /\ pc = "prepare"
    /\ LET next == increment_index(group, Limits) IN
       IF ~request.loop /\ InLimits(next, Limits)
       THEN /\ pc' = "launch"
            /\ group' = next
            /\ block' = 1 - block
            /\ uniforms' = [uniforms EXCEPT ![1 - block] = WorkItemInfo(next)]
       ELSE pc' = "finish" /\ UNCHANGED <<group, block, uniforms>>
    /\ UNCHANGED <<kernel, request, localSizes, owned, result, deviceVars, objectAlive, late>>

\* While the QPUs run, the UNIFORMs of the next work-group are written to the
\* other block; without another work-group only waiting is left.
PrepareNext ==
    /\ pc = "prepare"
    /\ LET next == increment_index(group, Limits) IN
       IF ~request.loop /\ InLimits(next, Limits)
       THEN /\ pc' = "wait"
            /\ group' = next
            /\ block' = 1 - block
            /\ uniforms' = [uniforms EXCEPT ![1 - block] = WorkItemInfo(next)]
       ELSE pc' = "finish" /\ UNCHANGED <<group, block, uniforms>>
    /\ UNCHANGED <<kernel, request, localSizes, owned, result, deviceVars, objectAlive, late>>

\* Mutant: all QPUs of the device are waited for.
Passed_AllQPUs == completed = NumQPUs

\* The polled counter says that all programs of the launch are done.
Passed == completed = QPUsNeeded(request, localSizes)

\* The wait ends with a timeout instead.  A counter that has gone past the
\* number of QPUs never says otherwise.  What is still to run goes on, unobserved.
TimesOut ==
    /\ ~Passed
    /\ \/ late < MaxTimeouts /\ late' = late + 1
       \/ completed > QPUsNeeded(request, localSizes) /\ UNCHANGED late
    /\ queued' = {} /\ running' = {}
    /\ strays' = [queued |-> strays.queued + Cardinality(queued),
                  running |-> strays.running + Cardinality(running)]

\* ExecutionHandle::waitFor before the next work-group.  A failure returns at
\* once, which frees the kernel's buffer and leaves the others to the event.
WaitForGroup ==
    /\ pc = "wait"
    /\ \/ /\ Passed /\ pc' = "launch"
          /\ UNCHANGED <<group, block, uniforms, owned, result, late, queued, running, strays>>
       \/ TimesOut /\ Return("CL_OUT_OF_RESOURCES") /\ owned' = owned \ {"kernel"}
    /\ UNCHANGED <<kernel, request, localSizes, completed, executed, objectAlive>>

\* And after the last one: every buffer is let go of either way.
WaitForLast ==
    /\ pc = "finish"
    /\ \/ Passed /\ Return("CL_COMPLETE") /\ UNCHANGED <<late, queued, running, strays>>
       \/ TimesOut /\ Return("CL_OUT_OF_RESOURCES")
    /\ owned' = {}
    /\ UNCHANGED <<kernel, request, localSizes, completed, executed, objectAlive>>

executeKernel ==
    \/ executeKernel_Refuse \/ executeKernel_Begin \/ executeQPU
    \/ PrepareNext \/ WaitForGroup \/ WaitForLast

-----------------------------------------------------------------------------
(* The QPUs *)

\* There is a QPU that runs nothing.
QPUFree == Cardinality(running) + strays.running < NumQPUs

\* A free QPU starts a requested program, which reads its UNIFORMs.
StartProgram(p) ==
    /\ QPUFree
    /\ queued' = queued \ {p}
    /\ LET u == uniforms[p.block][p.qpu] IN
       running' = running \cup
           {[kernel |-> p.kernel, qpu |-> p.qpu, group |-> u.group, items |-> WorkItems(u)]}
    /\ UNCHANGED <<hostVars, strays, completed, executed, objectAlive, late>>

\* A program ends and is counted, whichever launch it belongs to.
EndProgram(p) ==
    /\ running' = running \ {p}
    /\ completed' = completed + 1
    /\ executed' = executed (+) SetToBag(p.items)
    /\ UNCHANGED <<hostVars, queued, strays, objectAlive, late>>

StartStray ==
    /\ QPUFree /\ strays.queued > 0
    /\ strays' = [queued |-> strays.queued - 1, running |-> strays.running + 1]
    /\ UNCHANGED <<hostVars, queued, running, completed, executed, objectAlive, late>>

EndStray ==
    /\ strays.running > 0
    /\ strays' = [strays EXCEPT !.running = @ - 1]
    /\ completed' = completed + 1
    /\ UNCHANGED <<hostVars, queued, running, executed, objectAlive, late>>

QPUStep == \/ \E p \in queued : StartProgram(p)
           \/ \E p \in running : EndProgram(p)
           \/ StartStray \/ EndStray

-----------------------------------------------------------------------------
Init ==
    /\ pc = "idle" /\ kernel = 0
    /\ request = (CHOOSE r \in Requests : TRUE)
    /\ localSizes = <<1, 1, 1>> /\ group = <<0, 0, 0>> /\ block = 0
    /\ uniforms = [b \in {0, 1} |-> [i \in QPUs |-> Unset]]
    /\ queued = {} /\ running = {} /\ strays = [queued |-> 0, running |-> 0]
    /\ completed = 0
    /\ owned = {} /\ objectAlive = TRUE
    /\ result = "CL_SUCCESS" /\ executed = EmptyBag /\ late = 0

Next == (\E r \in Requests : enqueueNDRange(r)) \/ ReleaseMemObject \/ executeKernel \/ QPUStep

\* The queue handler goes on with the command it executes, and every program
\* that is requested is started and ends.
Fairness == WF_vars(executeKernel) /\ WF_vars(QPUStep)

Spec == Init /\ [][Next]_vars /\ Fairness

-----------------------------------------------------------------------------
(* Properties *)

\* The products and sums of the sizes fit into a size_t.
Countable(r) ==
    /\ ExactProduct(GlobalSizes(r)) < SizeMod
    /\ r.local # NULL => ExactProduct(Fill(r.local, r.dim, 1)) < SizeMod

\* The ranges the executor's walk is right for: counted without overflow, no
\* size of zero, and work-items merged only in groups of one dimension.
Regular == /\ Countable(request)
           /\ ExactProduct(GlobalSizes(request)) > 0 /\ ExactProduct(localSizes) > 0
           /\ MergeFactor(request) > 1 => localSizes[2] * localSizes[3] = 1

Busy == queued \cup running

\* A kernel whose sizes Kernel::setWorkGroupSizes accepted fits the device: the
\* executor's own check of the QPUs never refuses it, and its groups tile the
\* range.
AcceptedFitsDevice ==
    pc = "ready" /\ Countable(request) =>
        /\ ExactProduct(localSizes) <= MaxGroupSize(request)
        /\ QPUsNeeded(request, localSizes) <= NumQPUs
        /\ ExactProduct(localSizes) > 0 =>
               \A d \in Dims : Limits[d] * localSizes[d] = GlobalSizes(request)[d]

\* While no wait has timed out, no work-item is executed twice, and none that is
\* not in the range, however the QPUs' reads of their UNIFORMs interleave with
\* the executor writing the next ones.
NoWorkItemTwice ==
    late = 0 /\ pc # "idle" /\ Regular => executed \sqsubseteq SetToBag(NDRange(request))

\* A kernel reported as complete has executed each work-item of its range once.
CompleteMeansExecuted ==
    late = 0 /\ pc = "idle" /\ result = "CL_COMPLETE" /\ Regular =>
        executed = SetToBag(NDRange(request))

\* The group a program works for, or will when it reads its UNIFORMs.
GroupOf(p) == IF p \in running THEN p.group ELSE uniforms[p.block][p.qpu].group

\* The temporary buffers of __local parameters are shared by all work-groups:
\* while no wait has timed out, the QPUs work on one group of one kernel.
OneGroupAtATime ==
    late = 0 => \A p, q \in Busy : p.kernel = q.kernel /\ GroupOf(p) = GroupOf(q)

\* While no wait has timed out, what the QPUs use stays allocated: code and
\* UNIFORMs, temporary buffers, and the buffers set as arguments also after the
\* application has released them.
BuffersOutliveExecution ==
    late = 0 /\ Busy # {} =>
        /\ {"kernel", "tmp"} \subseteq owned
        /\ objectAlive \/ "args" \in owned

\* The executor comes to an end with every kernel, whatever times out.
KernelEnds == pc # "idle" ~> pc = "idle"

================================================================================
