-------------------------------- MODULE QPUJobs --------------------------------
(***************************************************************************)
(* Jobs on the QPUs through the execution mode SystemAccess has chosen:    *)
(* VCHI with its callback, the blocking mailbox call, the polled V3D       *)
(* register and the emulator (hal.cpp, VCHI.cpp, Mailbox.cpp, V3D.cpp,     *)
(* emulator.cpp), and the performance counters collected around a kernel   *)
(* (PerformanceCounter.cpp).  The queue's handler thread executes one      *)
(* kernel after another, a kernel starts one job per work-group, and a job *)
(* that timed out keeps running on the QPUs.                               *)
(*                                                                         *)
(* A job is the bag of its QPU programs.  The firmware calls back when a   *)
(* job has ended; a program ends at any time.                              *)
(***************************************************************************)
EXTENDS SystemAccess, Sequences

CONSTANTS
    NumQPUs,     \* most programs of a job
    NumCounters, \* performance counters that are used
    MaxJobs      \* bound on the number of jobs

ASSUME QPUJobsAssumption == NumQPUs \in Nat /\ NumCounters \in Nat /\ MaxJobs \in Nat

VARIABLES
    pc,            \* the handler thread: "idle", "launch" a job, "wait" for it
    handle,        \* the ExecutionHandle
    left,          \* programs of each job so far that have not ended
    numQPUs,       \* programs of each job of the current kernel
    currentJobId,  \* VCHI: the job whose callback counts
    isJobDone,     \* VCHI: set by that callback
    completed,     \* V3D: the register of completed programs
    enable,        \* V3D: performance counters that count
    value,         \* V3D: their values
    collecting,    \* a PerformanceCollector exists
    successful,    \* PerformanceCounters::querySuccessful
    counterValues, \* PerformanceCounters::counterValues
    ended,         \* history: programs that ended since the kernel was begun
    foreign        \* history: a job of an earlier kernel ran when it was begun

jobVars == <<pc, handle, left, numQPUs, currentJobId, isJobDone, completed>>
counterVars == <<enable, value, collecting, successful, counterValues>>
historyVars == <<ended, foreign>>
vars == <<systemVars, jobVars, counterVars, historyVars>>

Counters == 0..(NumCounters - 1)
Zero == [i \in Counters |-> 0]

-----------------------------------------------------------------------------
(* Performance counters *)

\* Mutant: a counter goes on from the value it has.
setCounter_KeepsValue == enable' = enable \cup Counters /\ UNCHANGED value

\* V3D::setCounter for every counter that is used.
setCounter == enable' = enable \cup Counters /\ value' = Zero

\* PerformanceCollector(): without V3D nothing is measured.
CollectorBegin ==
    /\ collecting' = TRUE /\ counterValues' = <<>>
    /\ IF "v3d" \in Components THEN setCounter /\ successful' = TRUE
       ELSE successful' = FALSE /\ UNCHANGED <<enable, value>>

\* PerformanceCounters::getCounterValue: an error for a counter that was not read.
HasCounterValue(i) == i \in DOMAIN counterValues
getCounterValue(i) == counterValues[i]

\* V3D::disableCounter(i): the counter is reset, and what is written to the
\* register enables all the others instead of disabling this one.
Disabled(i) == Counters \ {i}

\* ~PerformanceCollector(): every counter is read and disabled.  When the GPU is
\* switched off its registers all read as POWEROFF_VALUE: the first counter is
\* disabled and the rest is left as it is.
CollectorEnd ==
    /\ collecting' = FALSE
    /\ \/ /\ ~(collecting /\ successful)
          /\ UNCHANGED <<enable, value, successful, counterValues>>
       \/ /\ collecting /\ successful
          /\ counterValues' = value
          /\ enable' = enable \cup UNION {Disabled(i) : i \in Counters}
          /\ value' = Zero
          /\ UNCHANGED successful
       \/ /\ collecting /\ successful /\ NumCounters > 0
          /\ successful' = FALSE
          /\ enable' = enable \cup Disabled(0)
          /\ value' = [value EXCEPT ![0] = 0]
          /\ UNCHANGED counterValues

-----------------------------------------------------------------------------
(* Jobs *)

Running == {j \in DOMAIN left : left[j] > 0}

\* executeKernel up to its first job, with counters if the queue or the debug
\* level asks for them.
BeginKernel(n, measured) ==
    /\ pc = "idle" /\ system = "alive" /\ Call /\ Len(left) < MaxJobs
    /\ pc' = "launch" /\ numQPUs' = n
    /\ IF measured THEN CollectorBegin
       ELSE /\ collecting' = FALSE /\ successful' = FALSE /\ counterValues' = <<>>
            /\ UNCHANGED <<enable, value>>
    /\ ended' = 0 /\ foreign' = (Running # {})
    /\ UNCHANGED <<objectVars, memoryVars, handle, left, currentJobId, isJobDone, completed>>

Submit == left' = Append(left, numQPUs)
NoRegister == UNCHANGED completed
NoCallback == UNCHANGED <<currentJobId, isJobDone>>

\* A job a blocking call starts runs to its end, or its time is up before that.
BlockingJob ==
    \/ handle' = "FAILED" /\ left' = Append(left, 0)  \* not started
    \/ handle' = "FAILED" /\ Submit
    \/ handle' = "PASSED" /\ left' = Append(left, 0)

\* emulateQPU: to the end, or until the cycles the timeout allows are used up.
emulateQPU == handle' \in {"PASSED", "FAILED"} /\ left' = Append(left, 0)

\* What a job that ran inside a blocking call adds to counters and history.
EndedInside == IF handle' = "PASSED" THEN numQPUs ELSE 0

\* VCHI::executeQPU: a new job id, and nothing done yet, before the firmware can
\* call back; a submission that fails ends it.
VCHI_executeQPU ==
    /\ currentJobId' = currentJobId + 1 /\ isJobDone' = FALSE
    /\ \/ handle' = "PENDING" /\ Submit
       \/ handle' = "FAILED" /\ left' = Append(left, 0)
    /\ NoRegister

\* V3D::executeQPU: the register is reset, then the programs are requested.
V3D_executeQPU == handle' = "PENDING" /\ Submit /\ completed' = 0 /\ NoCallback

\* SystemAccess::executeQPU.
executeQPU ==
    /\ pc = "launch" /\ pc' = "wait"
    /\ CASE getEmulated -> emulateQPU /\ NoRegister /\ NoCallback
         [] ~getEmulated /\ getExecMode = "VCHI_GPU_SERVICE" /\ "vchi" \in Components ->
              VCHI_executeQPU
         [] ~getEmulated /\ getExecMode = "MAILBOX_IOCTL" /\ "mailbox" \in Components ->
              BlockingJob /\ NoRegister /\ NoCallback
         [] ~getEmulated /\ getExecMode = "V3D_REGISTER_POKING" /\ "v3d" \in Components ->
              V3D_executeQPU
         [] OTHER -> handle' = "FAILED" /\ left' = Append(left, 0) /\ NoRegister /\ NoCallback
    /\ ended' = ended + EndedInside
    /\ value' = [i \in Counters |-> IF i \in enable THEN value[i] + EndedInside ELSE value[i]]
    /\ UNCHANGED <<systemVars, numQPUs, enable, collecting, successful, counterValues, foreign>>

\* Mutant: a callback is taken for that of the current job.
IsCurrent_Any(j) == TRUE

\* The cookie of the callback is the id the job was given.
IsCurrent(j) == currentJobId = j

\* A program ends: the V3D counts it in the register and in the counters, and
\* the firmware calls onJobDone for a VCHI job when it was the last one.
ProgramEnds(j) ==
    /\ j \in Running
    /\ left' = [left EXCEPT ![j] = @ - 1]
    /\ completed' = completed + 1
    /\ value' = [i \in Counters |-> IF i \in enable THEN value[i] + 1 ELSE value[i]]
    /\ isJobDone' = (isJobDone \/ (left[j] = 1 /\ IsCurrent(j)))
    /\ ended' = IF pc = "idle" THEN ended ELSE ended + 1
    /\ UNCHANGED <<systemVars, pc, handle, numQPUs, currentJobId, enable, collecting,
                   successful, counterValues, foreign>>

\* What the function of a pending handle finds when it returns.
JobDone == IF getExecMode = "VCHI_GPU_SERVICE" THEN isJobDone ELSE completed = numQPUs

\* ExecutionHandle::waitFor.  A pending job is done or the time is up.  Then the
\* next work-group is started, or the kernel has ended with this job's result.
WaitFor ==
    /\ pc = "wait"
    /\ handle' \in (CASE handle # "PENDING" -> {handle}
                      [] handle = "PENDING" /\ JobDone -> {"PASSED"}
                      [] OTHER -> {"FAILED"})
    /\ \/ handle' = "PASSED" /\ Len(left) < MaxJobs /\ pc' = "launch" /\ UNCHANGED counterVars
       \/ pc' = "idle" /\ CollectorEnd
    /\ UNCHANGED <<systemVars, left, numQPUs, currentJobId, isJobDone, completed, historyVars>>

-----------------------------------------------------------------------------
Init ==
    /\ SystemInit
    /\ pc = "idle" /\ handle = "FAILED" /\ left = <<>> /\ numQPUs = 0
    /\ currentJobId = 0 /\ isJobDone = FALSE /\ completed = 0
    /\ enable = {} /\ value = Zero /\ collecting = FALSE
    /\ successful = FALSE /\ counterValues = <<>>
    /\ ended = 0 /\ foreign = FALSE

\* The handler thread is joined before system() is destroyed; the process then
\* still may destroy buffers.
Next ==
    \/ SystemNext /\ UNCHANGED <<jobVars, counterVars, historyVars>>
    \/ pc = "idle" /\ Exit /\ UNCHANGED <<jobVars, counterVars, historyVars>>
    \/ \E n \in 1..NumQPUs, measured \in BOOLEAN : BeginKernel(n, measured)
    \/ executeQPU \/ WaitFor
    \/ \E j \in Running : ProgramEnds(j)

Spec == Init /\ [][Next]_vars

-----------------------------------------------------------------------------
(* Properties *)

\* A job is reported to have passed only when its own programs have ended,
\* whatever earlier jobs did after their waits had timed out: a late callback of
\* VCHI is not taken for the current job's (VCHI.cpp:43).  The V3D register
\* counts programs of any job, so there it takes that none was left running.
JobResult ==
    handle = "PASSED" /\ (getExecMode = "V3D_REGISTER_POKING" => ~foreign) =>
        left[Len(left)] = 0

\* The counters reported for a kernel are what its programs caused: nothing that
\* was counted before, also though counters are never switched off
\* (V3D.cpp:142), unless an earlier job was still running.
CountersOwn ==
    pc = "idle" /\ ~foreign =>
        \A i \in Counters : HasCounterValue(i) => getCounterValue(i) = ended
================================================================================
