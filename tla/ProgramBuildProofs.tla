-------------------------- MODULE ProgramBuildProofs --------------------------
(***************************************************************************)
(* Proofs about ProgramBuild, for any number of programs, kernels, threads *)
(* and builds.  What the application has to keep to is an assumption of    *)
(* each theorem: that it does not build a program while a build of it runs *)
(* ("idle") is needed for all of them.                                     *)
(***************************************************************************)
EXTENDS ProgramBuild, SequenceTheorems, TLAPS

Target(j) == job[j].program

\* Programs that builds use exist; clLinkProgram alone removes one again, and
\* what it removes nobody else builds or links.
TargetsExist ==
    \A j \in Threads : Running(j) =>
        /\ program[Target(j)] # NULL
        /\ \A n \in DOMAIN job[j].inputs : program[job[j].inputs[n]] # NULL

OneBuildEach ==
    \A i, j \in Threads : Running(i) /\ Running(j) /\ i # j => Target(i) # Target(j)

LinkedIsNoInput ==
    \A i, j \in Threads : Running(i) /\ Running(j) /\ job[i].kind = "link" =>
        \A n \in DOMAIN job[j].inputs : job[j].inputs[n] # Target(i)

\* Kernels are those of the binary; there are none, and no binary, while one is made.
KernelsMatch ==
    \A p \in Programs : program[p] # NULL /\ program[p].kernels # NULL =>
        program[p].kernels = program[p].binary

NoKernelsYet ==
    \A j \in Threads : Running(j) /\ job[j].pc = "compile_program" =>
        program[Target(j)].kernels = NULL /\ program[Target(j)].binary = NULL

BuildInv ==
    ProgramTypeOK /\ TargetsExist /\ OneBuildEach /\ LinkedIsNoInput /\ KernelsMatch
        /\ NoKernelsYet

-----------------------------------------------------------------------------
(* Steps of a build *)

SameJob(a, b) ==
    /\ a.kind = b.kind /\ a.program = b.program /\ a.inputs = b.inputs
    /\ a.expected = b.expected /\ a.notify = b.notify

\* What a step may make of a program r: a binary is only replaced if there is a
\* source, global data are appended, and new kernels come with their global data.
CodeStays(r, s) ==
    /\ s.source = r.source
    /\ ~r.source /\ r.binary # NULL => s.binary = r.binary
    /\ \/ s.globals = r.globals
       \/ r.binary # NULL /\ s.globals = Append(r.globals, r.binary)
    /\ s.kernels # NULL /\ s.kernels # r.kernels => s.globals = Append(r.globals, r.binary)

\* What every step of a build does: it touches its own program and thread, keeps
\* its purpose, and only a failed link removes the program.
BuildStep(j) ==
    /\ UNCHANGED <<calls, kernel>>
    /\ program' \in [Programs -> ProgramState \cup {NULL}]
    /\ job' \in [Threads -> BuildJob \cup {NULL}]
    /\ \A p \in Programs : p # Target(j) => program'[p] = program[p]
    /\ \A i \in Threads : i # j => job'[i] = job[i]
    /\ job'[j] # NULL => SameJob(job'[j], job[j])
    /\ program'[Target(j)] = NULL => job'[j] = NULL /\ job[j].kind = "link"
    /\ program'[Target(j)] # NULL =>
           /\ CodeStays(program[Target(j)], program'[Target(j)])
           /\ program'[Target(j)].kernels # NULL =>
                  program'[Target(j)].kernels = program'[Target(j)].binary
           /\ job'[j] # NULL /\ job'[j].pc = "compile_program" =>
                  program'[Target(j)].kernels = NULL /\ program'[Target(j)].binary = NULL

\* The thread and the program of a running build are records.
LEMMA RunningFacts ==
    ASSUME BuildInv, NEW j \in Threads, Running(j)
    PROVE  /\ job[j] \in BuildJob /\ job[j] # NULL
           /\ Target(j) \in Programs
           /\ program[Target(j)] \in ProgramState /\ program[Target(j)] # NULL
           /\ job[j].inputs \in Seq(Programs)
           /\ \A n \in DOMAIN job[j].inputs : program[job[j].inputs[n]] \in ProgramState
<1>1. job[j] \in BuildJob
  BY DEF BuildInv, ProgramTypeOK, Running
<1>2. Target(j) \in Programs /\ job[j].inputs \in Seq(Programs)
  BY <1>1 DEF BuildJob, Target
<1>3. \A n \in DOMAIN job[j].inputs : job[j].inputs[n] \in Programs
  BY <1>2
<1> QED
  BY <1>1, <1>2, <1>3 DEF BuildInv, TargetsExist, ProgramTypeOK, Running

LEMMA GotoFacts ==
    ASSUME BuildInv, NEW j \in Threads, Running(j),
           NEW pc \in {"compile", "precompile", "link", "compile_program", "extractModuleInfo",
                       "status", "callback"},
           Goto(j, pc)
    PROVE  /\ job' \in [Threads -> BuildJob \cup {NULL}]
           /\ \A i \in Threads : i # j => job'[i] = job[i]
           /\ job'[j] # NULL /\ SameJob(job'[j], job[j])
           /\ job'[j].pc = pc /\ job'[j].state = job[j].state
<1>1. job[j] \in BuildJob /\ job' = [job EXCEPT ![j].pc = pc]
  BY RunningFacts DEF Goto
<1>2. job'[j] = [job[j] EXCEPT !.pc = pc]
  BY <1>1 DEF BuildInv, ProgramTypeOK
<1>3. /\ job'[j] \in BuildJob /\ SameJob(job'[j], job[j])
      /\ job'[j].pc = pc /\ job'[j].state = job[j].state
  BY <1>1, <1>2 DEF BuildJob, SameJob
<1> QED
  BY <1>1, <1>3, ProgramBuildAssumption DEF BuildInv, ProgramTypeOK

Failures == {"CL_INVALID_OPERATION", "CL_COMPILE_PROGRAM_FAILURE", "CL_LINKER_NOT_AVAILABLE",
             "CL_LINK_PROGRAM_FAILURE", "CL_BUILD_PROGRAM_FAILURE", "CL_INVALID_BINARY",
             "CL_INVALID_PROGRAM"}

LEMMA FailFacts ==
    ASSUME BuildInv, NEW j \in Threads, Running(j), NEW code \in Failures, Fail(j, code)
    PROVE  /\ job' \in [Threads -> BuildJob \cup {NULL}]
           /\ \A i \in Threads : i # j => job'[i] = job[i]
           /\ job'[j] # NULL /\ SameJob(job'[j], job[j])
           /\ job'[j].pc = "status" /\ job'[j].state = code /\ code # "CL_SUCCESS"
<1>1. job[j] \in BuildJob /\ job' = [job EXCEPT ![j].pc = "status", ![j].state = code]
  BY RunningFacts DEF Fail
<1> DEFINE moved == [job[j] EXCEPT !.pc = "status"]
<1>2. moved \in BuildJob /\ SameJob(moved, job[j]) /\ moved.pc = "status"
  BY <1>1 DEF BuildJob, SameJob
<1>3. job'[j] = [moved EXCEPT !.state = code]
  BY <1>1 DEF BuildInv, ProgramTypeOK
<1> HIDE DEF moved
<1>4. code # "CL_SUCCESS"
  BY DEF Failures
<1>5. /\ job'[j] \in BuildJob /\ SameJob(job'[j], job[j])
      /\ job'[j].pc = "status" /\ job'[j].state = code
  BY <1>2, <1>3 DEF BuildJob, SameJob, Failures
<1> QED
  BY <1>1, <1>4, <1>5, ProgramBuildAssumption DEF BuildInv, ProgramTypeOK

LEMMA EndedFacts ==
    ASSUME BuildInv, NEW j \in Threads, Ended(j)
    PROVE  /\ job' \in [Threads -> BuildJob \cup {NULL}]
           /\ \A i \in Threads : i # j => job'[i] = job[i]
           /\ job'[j] = NULL
  BY DEF BuildInv, ProgramTypeOK, Ended

LEMMA ProgramChange ==
    ASSUME BuildInv, NEW p \in Programs, NEW r \in ProgramState,
           program' = [program EXCEPT ![p] = r]
    PROVE  /\ program' \in [Programs -> ProgramState \cup {NULL}]
           /\ \A q \in Programs : q # p => program'[q] = program[q]
           /\ program'[p] = r /\ program'[p] # NULL
  BY ProgramBuildAssumption DEF BuildInv, ProgramTypeOK

\* Two programs with the same code: only status or options differ.
SameCode(r, s) ==
    /\ r.type = s.type /\ r.source = s.source /\ r.ir = s.ir
    /\ r.binary = s.binary /\ r.kernels = s.kernels /\ r.globals = s.globals

\* What a step does to its program if it leaves the code alone.
LEMMA SameCodeFacts ==
    ASSUME BuildInv, NEW p \in Programs, program[p] # NULL,
           NEW st \in {"CL_BUILD_IN_PROGRESS", "CL_BUILD_SUCCESS", "CL_BUILD_ERROR"},
           NEW o \in Options,
           \/ program' = [program EXCEPT ![p].status = st]
           \/ program' = [program EXCEPT ![p].options = o]
           \/ program' = [program EXCEPT ![p].status = st, ![p].options = o]
           \/ UNCHANGED program
    PROVE  /\ program' \in [Programs -> ProgramState \cup {NULL}]
           /\ \A q \in Programs : q # p => program'[q] = program[q]
           /\ program'[p] # NULL /\ SameCode(program'[p], program[p])
<1> DEFINE A == [program[p] EXCEPT !.status = st]
           B == [program[p] EXCEPT !.options = o]
           C == [A EXCEPT !.options = o]
<1>1. program[p] \in ProgramState
  BY DEF BuildInv, ProgramTypeOK
<1>2. A \in ProgramState /\ SameCode(A, program[p])
  BY <1>1 DEF ProgramState, SameCode
<1>3. B \in ProgramState /\ SameCode(B, program[p])
  BY <1>1 DEF ProgramState, SameCode
<1>4. C \in ProgramState /\ SameCode(C, program[p])
  <2> HIDE DEF A
  <2> QED
    BY <1>2 DEF ProgramState, SameCode
<1>5. CASE program' = [program EXCEPT ![p].status = st]
  <2>1. program' = [program EXCEPT ![p] = A]
    BY <1>5
  <2> QED
    BY <1>2, <2>1, ProgramChange
<1>6. CASE program' = [program EXCEPT ![p].options = o]
  <2>1. program' = [program EXCEPT ![p] = B]
    BY <1>6
  <2> QED
    BY <1>3, <2>1, ProgramChange
<1>7. CASE program' = [program EXCEPT ![p].status = st, ![p].options = o]
  <2>1. program' = [program EXCEPT ![p] = C]
    BY <1>7 DEF BuildInv, ProgramTypeOK
  <2> QED
    BY <1>4, <2>1, ProgramChange
<1>8. CASE UNCHANGED program
  BY <1>1, <1>8 DEF BuildInv, ProgramTypeOK, SameCode
<1> QED
  BY <1>5, <1>6, <1>7, <1>8

\* A build that is about to report success has delivered what was asked for.
Delivered(j) ==
    \/ BinaryType(Target(j)) = "LIBRARY"
    \/ /\ BinaryType(Target(j)) = "EXECUTABLE"
       /\ program[Target(j)].kernels = program[Target(j)].binary
    \/ job[j].kind = "link" /\ job[j].expected = {}

\* How far a build is tells what it has made of what it was asked for.
Progress(j) ==
    /\ job[j].kind = "link" =>
           /\ job[j].pc \in {"link", "compile_program", "extractModuleInfo", "status", "callback"}
           /\ job[j].pc = "link" =>
                  /\ program[Target(j)].binary = NULL
                  /\ job[j].expected =
                         UNION {program[job[j].inputs[i]].ir : i \in DOMAIN job[j].inputs}
           /\ job[j].pc # "link" /\ job[j].state = "CL_SUCCESS" =>
                  job[j].expected \subseteq program[Target(j)].ir
    /\ job[j].kind # "link" => job[j].inputs = <<>>
    /\ job[j].pc \notin {"status", "callback"} => job[j].state = "CL_SUCCESS"
    /\ job[j].pc \in {"status", "callback"} /\ job[j].state = "CL_SUCCESS"
           /\ job[j].kind # "compile" => Delivered(j)

ProgressStep(j) == Progress(j) /\ Running(j)' => Progress(j)'

\* A build whose step leaves the code alone and that failed has nothing to show.
LEMMA FailProgress ==
    ASSUME BuildInv, NEW j \in Threads, Running(j),
           job'[j] # NULL, SameJob(job'[j], job[j]),
           job'[j].pc = "status", job'[j].state # "CL_SUCCESS"
    PROVE  ProgressStep(j)
  BY DEF ProgressStep, Progress, SameJob, Target

LEMMA buildInnerStep ==
    ASSUME BuildInv, NEW j \in Threads, buildInner(j)
    PROVE  BuildStep(j) /\ ProgressStep(j)
<1>1. /\ Running(j) /\ UNCHANGED <<program, calls, kernel>> /\ job[j].pc = "begin"
      /\ Goto(j, "compile") \/ Goto(j, "link")
  BY DEF buildInner
<1>2. /\ job' \in [Threads -> BuildJob \cup {NULL}]
      /\ \A i \in Threads : i # j => job'[i] = job[i]
      /\ job'[j] # NULL /\ SameJob(job'[j], job[j])
      /\ job'[j].pc \in {"compile", "link"} /\ job'[j].state = job[j].state
  BY <1>1, GotoFacts
<1>3. BuildStep(j)
  BY <1>1, <1>2, RunningFacts DEF BuildInv, ProgramTypeOK, KernelsMatch, BuildStep, CodeStays
<1>4. ProgressStep(j)
  BY <1>1, <1>2 DEF ProgressStep, Progress, SameJob, Target
<1> QED
  BY <1>3, <1>4

\* A step to which a build goes on after compiling.
LEMMA AfterCompileFacts ==
    ASSUME BuildInv, NEW j \in Threads, Running(j), Goto(j, AfterCompile(j))
    PROVE  /\ job' \in [Threads -> BuildJob \cup {NULL}]
           /\ \A i \in Threads : i # j => job'[i] = job[i]
           /\ job'[j] # NULL /\ SameJob(job'[j], job[j])
           /\ job'[j].pc = AfterCompile(j) /\ job'[j].state = job[j].state
           /\ AfterCompile(j) \in {"link", "status"}
           /\ AfterCompile(j) = "link" <=> job[j].kind = "build"
<1>1. AfterCompile(j) = "link" \/ AfterCompile(j) = "status"
  BY DEF AfterCompile
<1> QED
  BY <1>1, GotoFacts DEF AfterCompile

\* After compiling, a build has yet to be linked and a compilation is all that
\* was asked for.
LEMMA AfterCompileProgress ==
    ASSUME BuildInv, NEW j \in Threads, Running(j), Goto(j, AfterCompile(j)),
           job[j].pc \in {"compile", "precompile"}
    PROVE  ProgressStep(j)
<1> SUFFICES ASSUME Progress(j), Running(j)'
             PROVE  Progress(j)'
  BY DEF ProgressStep
<1>1. job[j].kind \in {"build", "compile"} /\ job[j].inputs = <<>>
      /\ job[j].state = "CL_SUCCESS"
  BY RunningFacts DEF Progress, BuildJob
<1> QED
  BY <1>1, AfterCompileFacts DEF Progress, SameJob

LEMMA compileStep ==
    ASSUME BuildInv, NEW j \in Threads, compile(j)
    PROVE  BuildStep(j) /\ ProgressStep(j)
<1> DEFINE p == Target(j)
<1>1. Running(j) /\ UNCHANGED <<calls, kernel>> /\ job[j].pc = "compile"
  BY DEF compile
<1>2. /\ p \in Programs /\ program[p] # NULL /\ program[p] \in ProgramState
      /\ job[j].options \in Options /\ job[j] \in BuildJob
      /\ program[p].kernels # NULL => program[p].kernels = program[p].binary
  BY <1>1, RunningFacts DEF BuildJob, BuildInv, KernelsMatch
<1>3. CASE /\ program' = [program EXCEPT ![p].status = "CL_BUILD_SUCCESS",
                                         ![p].options = job[j].options]
           /\ Goto(j, AfterCompile(j))
  <2>1. BuildStep(j)
    BY <1>1, <1>2, <1>3, SameCodeFacts, AfterCompileFacts DEF BuildStep, SameCode, CodeStays
  <2> QED
    BY <1>1, <1>3, <2>1, AfterCompileProgress
<1>4. CASE Fail(j, "CL_INVALID_OPERATION") /\ UNCHANGED program
  <2>1. "CL_INVALID_OPERATION" \in Failures
    BY DEF Failures
  <2>2. BuildStep(j)
    BY <1>1, <1>2, <1>4, <2>1, FailFacts DEF BuildStep, BuildInv, ProgramTypeOK, CodeStays
  <2> QED
    BY <1>1, <1>4, <2>1, <2>2, FailFacts, FailProgress
<1>5. CASE /\ program[p].source
           /\ program' = [program EXCEPT ![p] = Cleared(@)] /\ Goto(j, "precompile")
  <2>1. /\ Cleared(program[p]) \in ProgramState /\ Cleared(program[p]).kernels = NULL
        /\ CodeStays(program[p], Cleared(program[p]))
    BY <1>2, <1>5 DEF Cleared, ProgramState, CodeStays
  <2>2. BuildStep(j)
    BY <1>1, <1>2, <1>5, <2>1, ProgramChange, GotoFacts DEF BuildStep
  <2>3. ProgressStep(j)
    BY <1>1, <1>2, <1>5, GotoFacts DEF ProgressStep, Progress, SameJob, BuildJob
  <2> QED
    BY <2>2, <2>3
<1> QED
  BY <1>3, <1>4, <1>5 DEF compile, Target

\* A call of the compiler that fails may have stored the options.
LEMMA OptionsFail ==
    ASSUME BuildInv, NEW j \in Threads, Running(j), NEW code \in Failures, Fail(j, code),
           \/ program' = [program EXCEPT ![Target(j)].options = job[j].options]
           \/ UNCHANGED program,
           UNCHANGED <<calls, kernel>>
    PROVE  BuildStep(j) /\ ProgressStep(j)
<1> DEFINE p == Target(j)
           o == job[j].options
<1>1. /\ p \in Programs /\ program[p] # NULL /\ o \in Options
      /\ program[p].kernels # NULL => program[p].kernels = program[p].binary
  BY RunningFacts DEF BuildJob, BuildInv, KernelsMatch
<1>2. /\ program' \in [Programs -> ProgramState \cup {NULL}]
      /\ \A q \in Programs : q # p => program'[q] = program[q]
      /\ program'[p] # NULL /\ SameCode(program'[p], program[p])
  <2>1. CASE program' = [program EXCEPT ![p].options = o]
    BY <1>1, <2>1, SameCodeFacts
  <2>2. CASE UNCHANGED program
    BY <1>1, <2>2, SameCodeFacts
  <2> QED
    BY <2>1, <2>2
<1>3. /\ job' \in [Threads -> BuildJob \cup {NULL}]
      /\ \A i \in Threads : i # j => job'[i] = job[i]
      /\ job'[j] # NULL /\ SameJob(job'[j], job[j])
      /\ job'[j].pc = "status" /\ job'[j].state # "CL_SUCCESS"
  BY FailFacts
<1>4. BuildStep(j)
  BY <1>1, <1>2, <1>3 DEF BuildStep, SameCode, CodeStays
<1> QED
  BY <1>3, <1>4, FailProgress

LEMMA precompileStep ==
    ASSUME BuildInv, NEW j \in Threads, precompile_program(j)
    PROVE  BuildStep(j) /\ ProgressStep(j)
<1> DEFINE p == Target(j)
           o == job[j].options
           unit == Unit(p, o, job[j].headers)
<1>1. Running(j) /\ UNCHANGED <<calls, kernel>> /\ job[j].pc = "precompile"
  BY DEF precompile_program
<1>2. /\ p \in Programs /\ program[p] # NULL /\ program[p] \in ProgramState
      /\ o \in Options /\ job[j].headers \in SUBSET Headers
      /\ program[p].kernels # NULL => program[p].kernels = program[p].binary
  BY <1>1, RunningFacts DEF BuildJob, BuildInv, KernelsMatch
<1>3. CASE /\ program' = [program EXCEPT ![p].ir = {unit}, ![p].options = o]
           /\ Goto(j, AfterCompile(j))
  <2> DEFINE compiled == [program[p] EXCEPT !.ir = {unit}]
             r == [compiled EXCEPT !.options = o]
  <2>1. unit \in Code
    BY <1>2 DEF Unit, Code
  <2>2. /\ compiled \in ProgramState /\ compiled.kernels = program[p].kernels
        /\ compiled.binary = program[p].binary /\ CodeStays(program[p], compiled)
    BY <1>2, <2>1 DEF ProgramState, CodeStays
  <2>3. program' = [program EXCEPT ![p] = r]
    BY <1>2, <1>3 DEF BuildInv, ProgramTypeOK
  <2>4. /\ r \in ProgramState /\ r.kernels = program[p].kernels
        /\ r.binary = program[p].binary /\ CodeStays(program[p], r)
    <3> HIDE DEF compiled
    <3> QED
      BY <1>2, <2>2 DEF ProgramState, CodeStays
  <2>5. BuildStep(j)
    BY <1>1, <1>2, <1>3, <2>3, <2>4, ProgramChange, AfterCompileFacts DEF BuildStep
  <2> QED
    BY <1>1, <1>3, <2>5, AfterCompileProgress
<1>4. CASE /\ program' = [program EXCEPT ![p].options = o] \/ UNCHANGED program
           /\ Fail(j, "CL_COMPILE_PROGRAM_FAILURE")
  <2>1. "CL_COMPILE_PROGRAM_FAILURE" \in Failures
    BY DEF Failures
  <2> QED
    BY <1>1, <1>2, <1>4, <2>1, OptionsFail
<1> QED
  BY <1>3, <1>4 DEF precompile_program, Target

\* What is linked are units of code.
LEMMA LinkedFacts ==
    ASSUME BuildInv, NEW j \in Threads, Running(j)
    PROVE  /\ Linked(j) \in SUBSET Code
           /\ UNION {program[job[j].inputs[i]].ir : i \in DOMAIN job[j].inputs} \subseteq Linked(j)
           /\ StandardLibrary \in Code
<1>1. program[Target(j)].ir \in SUBSET Code
  BY RunningFacts DEF ProgramState
<1>2. \A i \in DOMAIN job[j].inputs : program[job[j].inputs[i]].ir \in SUBSET Code
  BY RunningFacts DEF ProgramState
<1> QED
  BY <1>1, <1>2 DEF Linked, Target, StandardLibrary, Unit, Code

LEMMA linkStep ==
    ASSUME BuildInv, NEW j \in Threads, link(j)
    PROVE  BuildStep(j) /\ ProgressStep(j)
<1> DEFINE p == Target(j)
           standard == IF program[p].type = "IL" THEN {StandardLibrary} ELSE {}
           nothing == job[j].inputs = <<>> /\ standard = {}
           inputs == UNION {program[job[j].inputs[i]].ir : i \in DOMAIN job[j].inputs}
           next == IF program[p].type = "LIBRARY" THEN "status" ELSE "compile_program"
<1>1. Running(j) /\ UNCHANGED <<calls, kernel>> /\ job[j].pc = "link"
  BY DEF link
<1>2. /\ p \in Programs /\ program[p] # NULL /\ program[p] \in ProgramState
      /\ job[j] \in BuildJob
      /\ program[p].kernels # NULL => program[p].kernels = program[p].binary
  BY <1>1, RunningFacts DEF BuildInv, KernelsMatch
<1>3. CASE program[p].binary # NULL /\ Goto(j, "extractModuleInfo") /\ UNCHANGED program
  <2>1. BuildStep(j)
    BY <1>1, <1>2, <1>3, GotoFacts DEF BuildStep, BuildInv, ProgramTypeOK, CodeStays
  <2>2. ProgressStep(j)
    BY <1>1, <1>3, GotoFacts DEF ProgressStep, Progress, SameJob
  <2> QED
    BY <2>1, <2>2
<1>4. CASE /\ \E code \in Failures : Fail(j, code)
           /\ UNCHANGED program
  <2>1. BuildStep(j)
    BY <1>1, <1>2, <1>4, FailFacts DEF BuildStep, BuildInv, ProgramTypeOK, CodeStays
  <2> QED
    BY <1>1, <1>4, <2>1, FailFacts, FailProgress
<1>5. CASE /\ program[p].binary = NULL /\ (program[p].ir # {} \/ job[j].inputs # <<>>)
           /\ program' = IF nothing THEN program
                         ELSE [program EXCEPT ![p].ir = Linked(j) \cup standard]
           /\ Goto(j, next)
  <2> DEFINE r == IF nothing THEN program[p]
                  ELSE [program[p] EXCEPT !.ir = Linked(j) \cup standard]
  <2>1. Linked(j) \cup standard \in SUBSET Code /\ inputs \subseteq Linked(j)
    BY <1>1, LinkedFacts
  <2>2. /\ r \in ProgramState /\ r.kernels = program[p].kernels
        /\ r.binary = program[p].binary /\ r.type = program[p].type
        /\ CodeStays(program[p], r)
        /\ nothing => r.ir = program[p].ir
        /\ ~nothing => r.ir = Linked(j) \cup standard
    BY <1>2, <2>1 DEF ProgramState, CodeStays
  <2>3. /\ program' \in [Programs -> ProgramState \cup {NULL}]
        /\ \A q \in Programs : q # p => program'[q] = program[q]
        /\ program'[p] = r /\ program'[p] # NULL
    <3>1. program' = [program EXCEPT ![p] = r]
      BY <1>5 DEF BuildInv, ProgramTypeOK
    <3> HIDE DEF r
    <3> QED
      BY <1>2, <2>2, <3>1, ProgramChange
  <2> HIDE DEF r
  <2>4. /\ job' \in [Threads -> BuildJob \cup {NULL}]
        /\ \A i \in Threads : i # j => job'[i] = job[i]
        /\ job'[j] # NULL /\ SameJob(job'[j], job[j])
        /\ job'[j].pc = next /\ job'[j].state = job[j].state
    BY <1>1, <1>5, GotoFacts
  <2>5. program[p].kernels = NULL
    BY <1>2, <1>5
  <2>6. BuildStep(j)
    BY <1>1, <1>5, <2>2, <2>3, <2>4, <2>5 DEF BuildStep
  <2>7. ProgressStep(j)
    <3> SUFFICES ASSUME Progress(j), Running(j)'
                 PROVE  Progress(j)'
      BY DEF ProgressStep
    <3>1. Target(j)' = p /\ program'[p] = r
      BY <2>3, <2>4 DEF SameJob, Target
    <3>2. job[j].kind = "link" => job[j].expected \subseteq r.ir
      <4>1. job[j].kind = "link" => job[j].expected = inputs
        BY <1>1 DEF Progress
      <4>2. nothing => inputs = {}
        OBVIOUS
      <4> QED
        BY <2>1, <2>2, <4>1, <4>2
    <3>3. next = "status" => Delivered(j)'
      <4> SUFFICES ASSUME next = "status", ~(job[j].kind = "link" /\ job[j].expected = {})
                   PROVE  Delivered(j)'
        BY <2>4 DEF Delivered, SameJob
      <4>1. r.type = "LIBRARY" /\ r.binary = NULL
        BY <1>5, <2>2
      <4>2. r.ir # {}
        <5>1. CASE job[j].kind = "link"
          BY <3>2, <5>1
        <5>2. CASE job[j].kind # "link"
          BY <1>1, <1>5, <2>2, <4>1, <5>2 DEF Progress
        <5> QED
          BY <5>1, <5>2
      <4> QED
        BY <3>1, <4>1, <4>2 DEF Delivered, BinaryType, getBuildStatus
    <3> QED
      BY <1>1, <2>4, <3>1, <3>2, <3>3 DEF Progress, SameJob
  <2> QED
    BY <2>6, <2>7
<1>6. {"CL_INVALID_OPERATION", "CL_LINKER_NOT_AVAILABLE", "CL_LINK_PROGRAM_FAILURE"} \subseteq Failures
  BY DEF Failures
<1> QED
  BY <1>3, <1>4, <1>5, <1>6 DEF link, NeedsLinking, Target

LEMMA compile_programStep ==
    ASSUME BuildInv, NEW j \in Threads, compile_program(j)
    PROVE  BuildStep(j) /\ ProgressStep(j)
<1> DEFINE p == Target(j)
           o == job[j].options
           made == [units |-> program[p].ir, options |-> o]
<1>1. Running(j) /\ UNCHANGED <<calls, kernel>> /\ job[j].pc = "compile_program"
  BY DEF compile_program
<1>2. /\ p \in Programs /\ program[p] # NULL /\ program[p] \in ProgramState
      /\ o \in Options /\ program[p].kernels = NULL /\ program[p].binary = NULL
  BY <1>1, RunningFacts DEF BuildJob, BuildInv, NoKernelsYet
<1>3. CASE /\ program' = [program EXCEPT ![p].options = o, ![p].binary = made]
           /\ Goto(j, "extractModuleInfo")
  <2> DEFINE begun == [program[p] EXCEPT !.options = o]
             r == [begun EXCEPT !.binary = made]
  <2>1. made \in Binary
    BY <1>2 DEF Binary, ProgramState
  <2>2. /\ begun \in ProgramState /\ begun.kernels = NULL /\ begun.ir = program[p].ir
        /\ CodeStays(program[p], begun)
    BY <1>2 DEF ProgramState, CodeStays
  <2>3. program' = [program EXCEPT ![p] = r]
    BY <1>2, <1>3 DEF BuildInv, ProgramTypeOK
  <2>4. /\ r \in ProgramState /\ r.kernels = NULL /\ r.ir = program[p].ir
        /\ CodeStays(program[p], r)
    <3> HIDE DEF begun, made
    <3> QED
      BY <1>2, <2>1, <2>2 DEF ProgramState, CodeStays
  <2> HIDE DEF r
  <2>5. BuildStep(j)
    <3>1. /\ program' \in [Programs -> ProgramState \cup {NULL}]
          /\ \A q \in Programs : q # p => program'[q] = program[q]
          /\ program'[p] = r /\ program'[p] # NULL
      BY <1>2, <2>3, <2>4, ProgramChange
    <3>2. /\ job' \in [Threads -> BuildJob \cup {NULL}]
          /\ \A i \in Threads : i # j => job'[i] = job[i]
          /\ job'[j] # NULL /\ SameJob(job'[j], job[j])
          /\ job'[j].pc = "extractModuleInfo"
      BY <1>1, <1>3, GotoFacts
    <3> QED
      BY <1>1, <2>4, <3>1, <3>2 DEF BuildStep
  <2>6. ProgressStep(j)
    <3>1. program'[p] = r
      BY <1>2, <2>3, <2>4, ProgramChange
    <3> QED
      BY <1>1, <1>3, <2>4, <3>1, GotoFacts DEF ProgressStep, Progress, SameJob, Target
  <2> QED
    BY <2>5, <2>6
<1>4. CASE /\ program' = [program EXCEPT ![p].options = o] \/ UNCHANGED program
           /\ Fail(j, "CL_BUILD_PROGRAM_FAILURE")
  <2>1. "CL_BUILD_PROGRAM_FAILURE" \in Failures
    BY DEF Failures
  <2> QED
    BY <1>1, <1>4, <2>1, OptionsFail
<1> QED
  BY <1>3, <1>4 DEF compile_program, Target

LEMMA extractStep ==
    ASSUME BuildInv, NEW j \in Threads, extractModuleInfo(j)
    PROVE  BuildStep(j) /\ ProgressStep(j)
<1> DEFINE p == Target(j)
<1>1. Running(j) /\ UNCHANGED <<calls, kernel>> /\ job[j].pc = "extractModuleInfo"
  BY DEF extractModuleInfo
<1>2. p \in Programs /\ program[p] # NULL /\ program[p] \in ProgramState
  BY <1>1, RunningFacts
<1>3. CASE /\ program[p].binary # NULL
           /\ program' = [program EXCEPT ![p] = Extracted(@, TRUE)]
           /\ Goto(j, "status")
  <2> DEFINE named == [program[p] EXCEPT !.kernels = program[p].binary]
             r == [named EXCEPT !.globals = Append(@, program[p].binary)]
  <2>1. program[p].binary \in Binary
    BY <1>2, <1>3 DEF ProgramState
  <2>2. /\ named \in ProgramState /\ named.kernels = program[p].binary
        /\ named.binary = program[p].binary /\ named.ir = program[p].ir
        /\ named.source = program[p].source /\ named.globals = program[p].globals
    BY <1>2, <2>1 DEF ProgramState
  <2>3. program' = [program EXCEPT ![p] = r]
    BY <1>2, <1>3 DEF Extracted, ProgramState
  <2>4. /\ r \in ProgramState /\ r.kernels = program[p].binary
        /\ r.binary = program[p].binary /\ r.ir = program[p].ir
        /\ CodeStays(program[p], r)
    <3>1. Append(named.globals, program[p].binary) \in Seq(Binary)
      BY <2>1, <2>2, AppendProperties DEF ProgramState
    <3> HIDE DEF named
    <3> QED
      BY <1>3, <2>2, <3>1 DEF ProgramState, CodeStays
  <2> HIDE DEF r
  <2>5. program'[p] = r
    BY <1>2, <2>3, <2>4, ProgramChange
  <2>6. BuildStep(j)
    BY <1>1, <1>2, <1>3, <2>3, <2>4, ProgramChange, GotoFacts DEF BuildStep
  <2>7. Target(j)' = p /\ Delivered(j)'
    <3>1. Target(j)' = p
      BY <1>1, <1>3, GotoFacts DEF SameJob, Target
    <3> QED
      BY <1>3, <2>4, <2>5, <3>1 DEF Delivered, BinaryType, getBuildStatus
  <2>8. ProgressStep(j)
    BY <1>1, <1>3, <2>4, <2>5, <2>7, GotoFacts DEF ProgressStep, Progress, SameJob
  <2> QED
    BY <2>6, <2>8
<1>4. CASE /\ program' = [program EXCEPT ![p] = Extracted(@, FALSE)]
           /\ \E code \in {"CL_INVALID_BINARY", "CL_INVALID_PROGRAM"} : Fail(j, code)
  <2>1. {"CL_INVALID_BINARY", "CL_INVALID_PROGRAM"} \subseteq Failures
    BY DEF Failures
  <2>2. /\ Extracted(program[p], FALSE) \in ProgramState
        /\ Extracted(program[p], FALSE).kernels = NULL
        /\ CodeStays(program[p], Extracted(program[p], FALSE))
    BY <1>2 DEF Extracted, ProgramState, CodeStays
  <2>3. BuildStep(j)
    BY <1>1, <1>2, <1>4, <2>1, <2>2, ProgramChange, FailFacts DEF BuildStep
  <2> QED
    BY <1>1, <1>4, <2>1, <2>3, FailFacts, FailProgress
<1> QED
  BY <1>3, <1>4 DEF extractModuleInfo, Target

LEMMA setStatusStep ==
    ASSUME BuildInv, NEW j \in Threads, setStatus(j)
    PROVE  BuildStep(j) /\ ProgressStep(j)
<1> DEFINE p == Target(j)
           discard == job[j].kind = "link" /\ ~job[j].notify /\ job[j].state # "CL_SUCCESS"
           st == FinalStatus(job[j].state)
<1>1. /\ Running(j) /\ UNCHANGED <<calls, kernel>> /\ job[j].pc = "status"
      /\ IF job[j].notify THEN Goto(j, "callback") ELSE Ended(j)
  BY DEF setStatus
<1>2. /\ p \in Programs /\ program[p] # NULL /\ program[p] \in ProgramState
      /\ job[j].options \in Options
      /\ program[p].kernels # NULL => program[p].kernels = program[p].binary
  BY <1>1, RunningFacts DEF BuildInv, KernelsMatch, BuildJob
<1>3. CASE discard /\ program' = [program EXCEPT ![p] = NULL]
  <2>1. Ended(j)
    BY <1>1, <1>3
  <2>2. BuildStep(j)
    BY <1>1, <1>2, <1>3, <2>1, EndedFacts DEF BuildStep, BuildInv, ProgramTypeOK
  <2> QED
    BY <2>1, <2>2, EndedFacts DEF ProgressStep, Running
<1>4. CASE program' = [program EXCEPT ![p].status = st]
  <2>1. st \in {"CL_BUILD_IN_PROGRESS", "CL_BUILD_SUCCESS", "CL_BUILD_ERROR"}
    BY DEF FinalStatus
  <2>2. /\ program' \in [Programs -> ProgramState \cup {NULL}]
        /\ \A q \in Programs : q # p => program'[q] = program[q]
        /\ program'[p] # NULL /\ SameCode(program'[p], program[p])
    BY <1>2, <1>4, <2>1, SameCodeFacts
  <2>3. CASE Ended(j)
    <3>1. BuildStep(j)
      BY <1>1, <1>2, <2>2, <2>3, EndedFacts DEF BuildStep, SameCode, CodeStays
    <3> QED
      BY <2>3, <3>1, EndedFacts DEF ProgressStep, Running
  <2>4. CASE Goto(j, "callback")
    <3>1. /\ job' \in [Threads -> BuildJob \cup {NULL}]
          /\ \A i \in Threads : i # j => job'[i] = job[i]
          /\ job'[j] # NULL /\ SameJob(job'[j], job[j])
          /\ job'[j].pc = "callback" /\ job'[j].state = job[j].state
      BY <1>1, <2>4, GotoFacts
    <3>2. BuildStep(j)
      BY <1>1, <1>2, <2>2, <3>1 DEF BuildStep, SameCode, CodeStays
    <3>3. Target(j)' = p
      BY <3>1 DEF SameJob, Target
    <3>4. Delivered(j) => Delivered(j)'
      BY <2>2, <3>1, <3>3 DEF Delivered, BinaryType, getBuildStatus, SameCode, SameJob
    <3>5. ProgressStep(j)
      BY <1>1, <2>2, <3>1, <3>3, <3>4 DEF ProgressStep, Progress, SameJob, SameCode
    <3> QED
      BY <3>2, <3>5
  <2> QED
    BY <1>1, <2>3, <2>4
<1> QED
  BY <1>3, <1>4 DEF setStatus, Target

LEMMA callbackStep ==
    ASSUME BuildInv, NEW j \in Threads, callback(j)
    PROVE  BuildStep(j) /\ ProgressStep(j)
<1>1. Running(j) /\ Ended(j) /\ UNCHANGED <<program, calls, kernel>>
  BY DEF callback
<1>2. BuildStep(j)
  BY <1>1, RunningFacts, EndedFacts
  DEF BuildInv, ProgramTypeOK, KernelsMatch, BuildStep, CodeStays
<1> QED
  BY <1>1, <1>2, EndedFacts DEF ProgressStep, Running

LEMMA BuildSteps ==
    ASSUME BuildInv, NEW j \in Threads, Build(j)
    PROVE  Running(j) /\ BuildStep(j) /\ ProgressStep(j)
<1>1. Running(j)
  BY DEF Build, buildInner, compile, precompile_program, link, compile_program,
         extractModuleInfo, setStatus, callback
<1> QED
  BY <1>1, buildInnerStep, compileStep, precompileStep, linkStep, compile_programStep,
     extractStep, setStatusStep, callbackStep DEF Build

-----------------------------------------------------------------------------
(* Calls of the application *)

\* A thread that had nothing to do starts a build.
NewJob(j, p, kind, inputs, pc) ==
    /\ job[j] = NULL
    /\ job' \in [Threads -> BuildJob \cup {NULL}]
    /\ \A i \in Threads : i # j => job'[i] = job[i]
    /\ job'[j] # NULL /\ Target(j)' = p
    /\ job'[j].kind = kind /\ job'[j].inputs = inputs
    /\ job'[j].pc = pc /\ job'[j].state = "CL_SUCCESS"
    /\ job'[j].expected = UNION {program[inputs[i]].ir : i \in DOMAIN inputs}

LEMMA StartFacts ==
    ASSUME BuildInv, NEW kind \in {"build", "compile", "link"}, NEW p \in Programs,
           NEW o \in Options, NEW headers \in SUBSET Headers, NEW inputs \in Seq(Programs),
           NEW notify \in BOOLEAN, NEW pc \in {"begin", "compile", "link"},
           \A i \in DOMAIN inputs : program[inputs[i]] # NULL,
           Start(kind, p, o, headers, inputs, notify, pc)
    PROVE  \E j \in Threads : NewJob(j, p, kind, inputs, pc)
<1> DEFINE j == CHOOSE t \in Threads : job[t] = NULL
           new == [kind |-> kind, program |-> p, options |-> o, headers |-> headers,
                   inputs |-> inputs, notify |-> notify, pc |-> pc, state |-> "CL_SUCCESS",
                   expected |-> UNION {program[inputs[i]].ir : i \in DOMAIN inputs}]
<1>1. j \in Threads /\ job[j] = NULL
  BY DEF Start
<1>2. job' = [job EXCEPT ![j] = new]
  BY DEF Start
<1>3. UNION {program[inputs[i]].ir : i \in DOMAIN inputs} \in SUBSET Code
  <2>1. \A i \in DOMAIN inputs : program[inputs[i]] \in ProgramState
    BY DEF BuildInv, ProgramTypeOK
  <2> QED
    BY <2>1 DEF ProgramState
<1>4. new \in BuildJob
  BY <1>3 DEF BuildJob
<1> HIDE DEF j
<1>5. job'[j] = new
  BY <1>1, <1>2 DEF BuildInv, ProgramTypeOK
<1>6. job' \in [Threads -> BuildJob \cup {NULL}]
  BY <1>1, <1>2, <1>4 DEF BuildInv, ProgramTypeOK
<1>7. \A i \in Threads : i # j => job'[i] = job[i]
  BY <1>2 DEF BuildInv, ProgramTypeOK
<1>8. job'[j] # NULL
  BY <1>4, <1>5, ProgramBuildAssumption
<1> QED
  BY <1>1, <1>5, <1>6, <1>7, <1>8 DEF NewJob, Target

\* A call that builds or compiles p: nothing of its code changes yet, and its
\* kernels remember that it was called.
CallStep(p) ==
    /\ calls' \in 0..MaxCalls
    /\ kernel' \in [Kernels -> KernelState \cup {NULL}]
    /\ \A k \in Kernels :
           /\ kernel'[k] # NULL <=> kernel[k] # NULL
           /\ kernel[k] # NULL =>
                 /\ kernel'[k].program = kernel[k].program
                 /\ kernel'[k].header = kernel[k].header
                 /\ kernel'[k].rebuilt = (kernel[k].rebuilt \/ kernel[k].program = p)
    /\ program[p] # NULL /\ MayBuild(p)
    /\ program' \in [Programs -> ProgramState \cup {NULL}]
    /\ \A q \in Programs : q # p => program'[q] = program[q]
    /\ program'[p] # NULL /\ SameCode(program'[p], program[p])
    /\ \/ UNCHANGED job
       \/ \E j \in Threads : NewJob(j, p, "build", <<>>, "begin")
       \/ \E j \in Threads : NewJob(j, p, "compile", <<>>, "compile")

LEMMA RebuiltFacts ==
    ASSUME BuildInv, NEW p \in Programs, Rebuilt(p)
    PROVE  /\ kernel' \in [Kernels -> KernelState \cup {NULL}]
           /\ \A k \in Kernels :
                 /\ kernel'[k] # NULL <=> kernel[k] # NULL
                 /\ kernel[k] # NULL =>
                       /\ kernel'[k].program = kernel[k].program
                       /\ kernel'[k].header = kernel[k].header
                       /\ kernel'[k].rebuilt = (kernel[k].rebuilt \/ kernel[k].program = p)
<1>1. ASSUME NEW k \in Kernels
      PROVE  /\ kernel'[k] \in KernelState \cup {NULL}
             /\ kernel'[k] # NULL <=> kernel[k] # NULL
             /\ kernel[k] # NULL =>
                   /\ kernel'[k].program = kernel[k].program
                   /\ kernel'[k].header = kernel[k].header
                   /\ kernel'[k].rebuilt = (kernel[k].rebuilt \/ kernel[k].program = p)
  <2>1. kernel'[k] = IF k \in Attached(p) THEN [kernel[k] EXCEPT !.rebuilt = TRUE] ELSE kernel[k]
    BY DEF Rebuilt
  <2>2. kernel[k] \in KernelState \cup {NULL}
    BY DEF BuildInv, ProgramTypeOK
  <2>3. CASE k \in Attached(p)
    <3>1. kernel[k] \in KernelState /\ kernel[k] # NULL /\ kernel[k].program = p
      BY <2>2, <2>3 DEF Attached
    <3>2. /\ kernel'[k] \in KernelState
          /\ kernel'[k].program = kernel[k].program /\ kernel'[k].header = kernel[k].header
          /\ kernel'[k].rebuilt
      BY <2>1, <2>3, <3>1 DEF KernelState
    <3> QED
      BY <3>1, <3>2, ProgramBuildAssumption DEF KernelState
  <2>4. CASE k \notin Attached(p)
    <3>1. kernel'[k] = kernel[k] /\ (kernel[k] # NULL => kernel[k].program # p)
      BY <2>1, <2>4 DEF Attached
    <3> QED
      BY <2>2, <3>1 DEF KernelState
  <2> QED
    BY <2>3, <2>4
<1>2. kernel' = [k \in Kernels |-> kernel'[k]]
  BY DEF Rebuilt
<1> QED
  BY <1>1, <1>2

LEMMA BuildCall ==
    ASSUME BuildInv, NEW p \in Programs, NEW o \in Options, NEW notify \in BOOLEAN,
           clBuildProgram(p, o, notify)
    PROVE  CallStep(p)
<1>1. /\ Rebuilt(p) /\ calls < MaxCalls /\ calls' = calls + 1
      /\ program[p] # NULL /\ MayBuild(p)
      /\ program' = [program EXCEPT ![p].status = "CL_BUILD_IN_PROGRESS"]
      /\ Start("build", p, o, {}, <<>>, notify, "begin")
  BY DEF clBuildProgram, MayBuild
<1>2. calls' \in 0..MaxCalls
  BY <1>1, ProgramBuildAssumption DEF BuildInv, ProgramTypeOK
<1>3. \E j \in Threads : NewJob(j, p, "build", <<>>, "begin")
  <2>1. {} \in SUBSET Headers /\ <<>> \in Seq(Programs) /\ DOMAIN <<>> = {}
    BY EmptySeq
  <2> QED
    BY <1>1, <2>1, StartFacts
<1>4. /\ program' \in [Programs -> ProgramState \cup {NULL}]
      /\ \A q \in Programs : q # p => program'[q] = program[q]
      /\ program'[p] # NULL /\ SameCode(program'[p], program[p])
  BY <1>1, SameCodeFacts
<1> QED
  BY <1>1, <1>2, <1>3, <1>4, RebuiltFacts DEF CallStep

LEMMA CompileCall ==
    ASSUME BuildInv, NEW p \in Programs, NEW o \in Options, NEW list \in HeaderLists,
           NEW notify \in BOOLEAN, clCompileProgram(p, o, list, notify)
    PROVE  CallStep(p)
<1>1. /\ Rebuilt(p) /\ calls < MaxCalls /\ calls' = calls + 1
      /\ program[p] # NULL /\ MayBuild(p)
      /\ program' = [program EXCEPT ![p].status = "CL_BUILD_IN_PROGRESS"]
      /\ \/ Start("compile", p, o, EmbeddedHeaders(list), <<>>, notify, "compile")
         \/ UNCHANGED job
  BY DEF clCompileProgram, MayBuild
<1>2. calls' \in 0..MaxCalls
  BY <1>1, ProgramBuildAssumption DEF BuildInv, ProgramTypeOK
<1>3. EmbeddedHeaders(list) \in SUBSET Headers
  BY DEF EmbeddedHeaders, Headers, Range
<1>4. \/ UNCHANGED job
      \/ \E j \in Threads : NewJob(j, p, "compile", <<>>, "compile")
  <2>1. <<>> \in Seq(Programs) /\ DOMAIN <<>> = {}
    BY EmptySeq
  <2> QED
    BY <1>1, <1>3, <2>1, StartFacts
<1>5. /\ program' \in [Programs -> ProgramState \cup {NULL}]
      /\ \A q \in Programs : q # p => program'[q] = program[q]
      /\ program'[p] # NULL /\ SameCode(program'[p], program[p])
  BY <1>1, SameCodeFacts
<1> QED
  BY <1>1, <1>2, <1>4, <1>5, RebuiltFacts DEF CallStep

\* A call that links inputs into the new program r.
LinkStep(r, inputs) ==
    /\ UNCHANGED kernel /\ calls' \in 0..MaxCalls
    /\ program[r] = NULL
    /\ inputs \in Seq(Programs) /\ \A n \in DOMAIN inputs : program[inputs[n]] # NULL
    /\ "idle" \in Rules => \A n \in DOMAIN inputs : Idle(inputs[n])
    /\ program' \in [Programs -> ProgramState \cup {NULL}]
    /\ \A q \in Programs : q # r => program'[q] = program[q]
    /\ program'[r] # NULL /\ program'[r].kernels = NULL /\ program'[r].binary = NULL
    /\ program'[r].globals = <<>>
    /\ \E j \in Threads : NewJob(j, r, "link", inputs, "link")

LEMMA LinkCall ==
    ASSUME BuildInv, NEW r \in Results, NEW o \in Options, NEW library \in BOOLEAN,
           NEW inputs \in InputLists, NEW notify \in BOOLEAN,
           clLinkProgram(r, o, library, inputs, notify)
    PROVE  r \in Programs /\ LinkStep(r, inputs)
<1> DEFINE fresh == NewProgram(IF library THEN "LIBRARY" ELSE "IL", FALSE, {}, NULL)
           new == [fresh EXCEPT !.status = "CL_BUILD_IN_PROGRESS"]
<1>1. r \in Programs
  BY DEF Programs
<1>2. /\ UNCHANGED kernel /\ calls < MaxCalls /\ calls' = calls + 1
      /\ program[r] = NULL
      /\ "idle" \in Rules => \A n \in DOMAIN inputs : Idle(inputs[n])
      /\ \A n \in DOMAIN inputs : program[inputs[n]] # NULL
      /\ program' = [program EXCEPT ![r] = new]
      /\ Start("link", r, o, {}, inputs, notify, "link")
  BY DEF clLinkProgram
<1>3. calls' \in 0..MaxCalls
  BY <1>2, ProgramBuildAssumption DEF BuildInv, ProgramTypeOK
<1>4. inputs \in Seq(Programs)
  BY ProgramBuildAssumption
<1>5. \E j \in Threads : NewJob(j, r, "link", inputs, "link")
  BY <1>1, <1>2, <1>4, StartFacts
<1>6. new \in ProgramState /\ new.kernels = NULL /\ new.binary = NULL /\ new.globals = <<>>
  <2>1. <<>> \in Seq(Binary)
    BY EmptySeq
  <2> QED
    BY <2>1 DEF NewProgram, ProgramState
<1>7. /\ program' \in [Programs -> ProgramState \cup {NULL}]
      /\ \A q \in Programs : q # r => program'[q] = program[q]
      /\ program'[r] = new /\ program'[r] # NULL
  <2> HIDE DEF new
  <2> QED
    BY <1>1, <1>2, <1>6, ProgramChange
<1> QED
  BY <1>1, <1>2, <1>3, <1>4, <1>5, <1>6, <1>7 DEF LinkStep

\* What the application and the queue handler do with kernels.
LEMMA KernelSteps ==
    ASSUME BuildInv, NEW k \in Kernels,
           \/ \E p \in Programs : clCreateKernel(k, p)
           \/ clEnqueueNDRangeKernel(k) \/ clReleaseKernel(k) \/ executeKernel(k)
    PROVE  /\ UNCHANGED <<program, job, calls>>
           /\ kernel' \in [Kernels -> KernelState \cup {NULL}]
           /\ \A l \in Kernels : l # k => kernel'[l] = kernel[l]
           /\ kernel'[k] # NULL =>
                 \/ /\ kernel[k] # NULL
                    /\ kernel'[k].program = kernel[k].program
                    /\ kernel'[k].header = kernel[k].header
                    /\ kernel'[k].rebuilt = kernel[k].rebuilt
                 \/ /\ kernel'[k].program \in Programs
                    /\ program[kernel'[k].program] # NULL
                    /\ kernel'[k].header = program[kernel'[k].program].kernels
                    /\ kernel'[k].header # NULL
                    /\ "idle" \in Rules => Idle(kernel'[k].program)
<1>1. kernel \in [Kernels -> KernelState \cup {NULL}]
  BY DEF BuildInv, ProgramTypeOK
<1>2. ASSUME NEW p \in Programs, clCreateKernel(k, p)
      PROVE  /\ kernel'[k] \in KernelState
             /\ kernel' = [kernel EXCEPT ![k] = kernel'[k]]
             /\ kernel'[k].program = p
             /\ program[p] # NULL /\ program[p].kernels # NULL
             /\ kernel'[k].header = program[p].kernels
             /\ "idle" \in Rules => Idle(p)
  <2> DEFINE new == [program |-> p, header |-> program[p].kernels, held |-> TRUE, queued |-> FALSE,
                    rebuilt |-> FALSE]
  <2>1. kernel' = [kernel EXCEPT ![k] = new] /\ program[p] # NULL /\ program[p].kernels # NULL
        /\ ("idle" \in Rules => Idle(p))
    BY <1>2 DEF clCreateKernel
  <2>2. program[p].kernels \in Binary
    BY <2>1 DEF BuildInv, ProgramTypeOK, ProgramState
  <2>3. new \in KernelState
    BY <2>2 DEF KernelState
  <2>4. kernel'[k] = new
    BY <1>1, <2>1
  <2>5. kernel' = [kernel EXCEPT ![k] = kernel'[k]]
    BY <2>1, <2>4
  <2>6. /\ kernel'[k].program = p
        /\ kernel'[k].header = program[p].kernels
    BY <2>4
  <2> QED
    BY <2>1, <2>3, <2>4, <2>5, <2>6
<1>3. ASSUME clEnqueueNDRangeKernel(k) \/ clReleaseKernel(k) \/ executeKernel(k)
      PROVE  /\ kernel[k] \in KernelState /\ kernel[k] # NULL
             /\ kernel' = [kernel EXCEPT ![k] = kernel'[k]]
             /\ \/ kernel'[k] = NULL
                \/ /\ kernel'[k] \in KernelState
                   /\ kernel'[k].program = kernel[k].program
                   /\ kernel'[k].header = kernel[k].header
                   /\ kernel'[k].rebuilt = kernel[k].rebuilt
  <2>1. kernel[k] \in KernelState /\ kernel[k] # NULL
    BY <1>1, <1>3 DEF clEnqueueNDRangeKernel, clReleaseKernel, executeKernel
  <2>2. CASE clEnqueueNDRangeKernel(k)
    <3>1. kernel' = [kernel EXCEPT ![k] = [kernel[k] EXCEPT !.queued = TRUE]]
      BY <2>2 DEF clEnqueueNDRangeKernel
    <3> QED
      BY <1>1, <2>1, <3>1 DEF KernelState
  <2>3. CASE clReleaseKernel(k)
    <3>1. kernel' = [kernel EXCEPT ![k] =
                        IF kernel[k].queued THEN [kernel[k] EXCEPT !.held = FALSE] ELSE NULL]
      BY <2>3 DEF clReleaseKernel
    <3> QED
      BY <1>1, <2>1, <3>1 DEF KernelState
  <2>4. CASE executeKernel(k)
    <3>1. kernel' = [kernel EXCEPT ![k] =
                        IF kernel[k].held THEN [kernel[k] EXCEPT !.queued = FALSE] ELSE NULL]
      BY <2>4 DEF executeKernel
    <3> QED
      BY <1>1, <2>1, <3>1 DEF KernelState
  <2> QED
    BY <1>3, <2>2, <2>3, <2>4
<1>4. UNCHANGED <<program, job, calls>>
  BY DEF clCreateKernel, clEnqueueNDRangeKernel, clReleaseKernel, executeKernel
<1>5. CASE \E p \in Programs : clCreateKernel(k, p)
  BY <1>1, <1>2, <1>4, <1>5
<1>6. CASE clEnqueueNDRangeKernel(k) \/ clReleaseKernel(k) \/ executeKernel(k)
  BY <1>1, <1>3, <1>4, <1>6
<1> QED
  BY <1>5, <1>6

-----------------------------------------------------------------------------
(* Programs: type correctness and the kernels of a binary *)

LEMMA BuildInit == Init => BuildInv /\ \A j \in Threads : ~Running(j)
<1> SUFFICES ASSUME Init PROVE BuildInv /\ \A j \in Threads : ~Running(j)
  OBVIOUS
<1>1. /\ \A j \in Threads : ~Running(j)
      /\ job \in [Threads -> BuildJob \cup {NULL}]
      /\ kernel \in [Kernels -> KernelState \cup {NULL}]
      /\ calls \in 0..MaxCalls
  BY ProgramBuildAssumption DEF Init, Running
<1>2. ASSUME NEW p \in Programs
      PROVE  /\ program[p] \in ProgramState \cup {NULL}
             /\ program[p] # NULL => program[p].kernels = NULL
  <2>1. clCreateProgramWithSource \in ProgramState /\ clCreateProgramWithSource.kernels = NULL
    BY EmptySeq DEF clCreateProgramWithSource, NewProgram, ProgramState
  <2>2. Unit(p, NULL, {}) \in Code
    BY DEF Unit, Code
  <2>3. clCreateProgramWithILKHR(p) \in ProgramState /\ clCreateProgramWithILKHR(p).kernels = NULL
    BY <2>2, EmptySeq DEF clCreateProgramWithILKHR, NewProgram, ProgramState
  <2>4. [units |-> {Unit(p, NULL, {})}, options |-> NULL] \in Binary
    BY <2>2 DEF Binary
  <2>5. clCreateProgramWithBinary(p) \in ProgramState /\ clCreateProgramWithBinary(p).kernels = NULL
    BY <2>4, EmptySeq DEF clCreateProgramWithBinary, NewProgram, ProgramState
  <2>6. \/ program[p] = clCreateProgramWithSource \/ program[p] = clCreateProgramWithILKHR(p)
        \/ program[p] = clCreateProgramWithBinary(p) \/ program[p] = NULL
    BY DEF Init
  <2> QED
    BY <2>1, <2>3, <2>5, <2>6
<1>3. program \in [Programs -> ProgramState \cup {NULL}]
  BY <1>2 DEF Init
<1> QED
  BY <1>1, <1>2, <1>3 DEF BuildInv, ProgramTypeOK, TargetsExist, OneBuildEach, LinkedIsNoInput,
                          KernelsMatch, NoKernelsYet

\* A step of a build disturbs no other build.
LEMMA BuildInvBuild ==
    ASSUME BuildInv, NEW j \in Threads, Running(j), BuildStep(j)
    PROVE  BuildInv'
<1>1. ProgramTypeOK'
  BY DEF BuildInv, ProgramTypeOK, BuildStep
<1>2. /\ \A i \in Threads : Running(i)' => Running(i)
      /\ \A i \in Threads : Running(i)' => SameJob(job'[i], job[i]) /\ Target(i)' = Target(i)
      /\ \A i \in Threads : Running(i)' /\ i # j => job'[i] = job[i] /\ Target(i) # Target(j)
  BY DEF BuildStep, Running, SameJob, Target, BuildInv, OneBuildEach
<1>3. \A p \in Programs : program[p] # NULL /\ program'[p] = NULL =>
          p = Target(j) /\ ~Running(j)' /\ job[j].kind = "link"
  BY DEF BuildStep, Running
<1>4. \A i \in Threads : Running(i) =>
          /\ Target(i) \in Programs
          /\ \A n \in DOMAIN job[i].inputs : job[i].inputs[n] \in Programs
  BY RunningFacts
<1>5. TargetsExist'
  <2> SUFFICES ASSUME NEW i \in Threads, Running(i)'
               PROVE  /\ program'[Target(i)'] # NULL
                      /\ \A n \in DOMAIN job'[i].inputs : program'[job'[i].inputs[n]] # NULL
    BY DEF TargetsExist
  <2>1. /\ Running(i) /\ Target(i)' = Target(i) /\ job'[i].inputs = job[i].inputs
        /\ program[Target(i)] # NULL
        /\ \A n \in DOMAIN job[i].inputs : program[job[i].inputs[n]] # NULL
    BY <1>2 DEF SameJob, BuildInv, TargetsExist
  <2>2. program'[Target(i)] # NULL
    BY <1>2, <1>3, <1>4, <2>1
  <2>3. \A n \in DOMAIN job[i].inputs : program'[job[i].inputs[n]] # NULL
    BY <1>3, <1>4, <2>1 DEF BuildInv, LinkedIsNoInput
  <2> QED
    BY <2>1, <2>2, <2>3
<1>6. OneBuildEach' /\ LinkedIsNoInput'
  BY <1>2 DEF BuildInv, OneBuildEach, LinkedIsNoInput, SameJob
<1>7. KernelsMatch'
  BY DEF BuildInv, KernelsMatch, BuildStep
<1>8. NoKernelsYet'
  <2> SUFFICES ASSUME NEW i \in Threads, Running(i)', job'[i].pc = "compile_program"
               PROVE  program'[Target(i)'].kernels = NULL /\ program'[Target(i)'].binary = NULL
    BY DEF NoKernelsYet
  <2>1. CASE i = j
    BY <1>2, <2>1 DEF BuildStep, Running
  <2>2. CASE i # j
    BY <1>2, <1>4, <2>2 DEF BuildStep, BuildInv, NoKernelsYet
  <2> QED
    BY <2>1, <2>2
<1> QED
  BY <1>1, <1>5, <1>6, <1>7, <1>8 DEF BuildInv

\* A new build meets no other one of its program or of its inputs.
LEMMA BuildInvNewJob ==
    ASSUME BuildInv, NEW p \in Programs, NEW kind, NEW inputs, NEW pc, NEW j \in Threads,
           NewJob(j, p, kind, inputs, pc), pc # "compile_program",
           kernel' \in [Kernels -> KernelState \cup {NULL}], calls' \in 0..MaxCalls,
           program' \in [Programs -> ProgramState \cup {NULL}],
           \A q \in Programs : q # p => program'[q] = program[q],
           program'[p] # NULL,
           program'[p].kernels # NULL => program'[p].kernels = program'[p].binary,
           \A i \in Threads : Running(i) => Target(i) # p,
           kind = "link" => program[p] = NULL,
           \A n \in DOMAIN inputs : /\ inputs[n] \in Programs /\ program[inputs[n]] # NULL
                                    /\ Idle(inputs[n])
    PROVE  BuildInv'
<1>1. ProgramTypeOK'
  BY DEF BuildInv, ProgramTypeOK, NewJob
<1>2. /\ job[j] = NULL /\ job'[j] # NULL /\ Target(j)' = p
      /\ job'[j].kind = kind /\ job'[j].inputs = inputs /\ job'[j].pc = pc
      /\ \A i \in Threads : i # j => job'[i] = job[i] /\ Target(i)' = Target(i)
  BY DEF NewJob, Target
<1>3. \A i \in Threads : Running(i)' /\ i # j => Running(i) /\ Target(i) # p
  BY <1>2 DEF Running
<1>4. \A i \in Threads : Running(i) =>
          /\ Target(i) \in Programs
          /\ \A n \in DOMAIN job[i].inputs : job[i].inputs[n] \in Programs
  BY RunningFacts
<1>5. \A q \in Programs : program[q] # NULL => program'[q] # NULL
  OBVIOUS
<1>6. TargetsExist'
  <2>1. ASSUME NEW i \in Threads, Running(i)', i # j
        PROVE  /\ program'[Target(i)'] # NULL
               /\ \A n \in DOMAIN job'[i].inputs : program'[job'[i].inputs[n]] # NULL
    BY <1>2, <1>3, <1>4, <1>5, <2>1 DEF BuildInv, TargetsExist
  <2>2. program'[Target(j)'] # NULL /\ \A n \in DOMAIN job'[j].inputs : program'[job'[j].inputs[n]] # NULL
    BY <1>2, <1>5
  <2> QED
    BY <2>1, <2>2 DEF TargetsExist
<1>7. OneBuildEach'
  BY <1>2, <1>3 DEF BuildInv, OneBuildEach
<1>8. LinkedIsNoInput'
  <2> SUFFICES ASSUME NEW i \in Threads, NEW k \in Threads, Running(i)', Running(k)',
                      job'[i].kind = "link", NEW n \in DOMAIN job'[k].inputs
               PROVE  job'[k].inputs[n] # Target(i)'
    BY DEF LinkedIsNoInput
  <2>1. CASE i = j /\ k = j
    BY <1>2, <2>1
  <2>2. CASE i = j /\ k # j
    BY <1>2, <1>3, <2>2 DEF BuildInv, TargetsExist
  <2>3. CASE i # j /\ k = j
    BY <1>2, <1>3, <2>3 DEF Idle, Target
  <2>4. CASE i # j /\ k # j
    BY <1>2, <1>3, <2>4 DEF BuildInv, LinkedIsNoInput
  <2> QED
    BY <2>1, <2>2, <2>3, <2>4
<1>9. KernelsMatch'
  BY DEF BuildInv, KernelsMatch
<1>10. NoKernelsYet'
  BY <1>2, <1>3, <1>4 DEF BuildInv, NoKernelsYet
<1> QED
  BY <1>1, <1>6, <1>7, <1>8, <1>9, <1>10 DEF BuildInv

LEMMA BuildInvCall ==
    ASSUME "idle" \in Rules, BuildInv, NEW p \in Programs, CallStep(p)
    PROVE  BuildInv'
<1>1. /\ \A q \in Programs : q # p => program'[q] = program[q]
      /\ program[p] # NULL /\ program'[p] # NULL /\ SameCode(program'[p], program[p])
      /\ program' \in [Programs -> ProgramState \cup {NULL}]
      /\ kernel' \in [Kernels -> KernelState \cup {NULL}] /\ calls' \in 0..MaxCalls
      /\ \A i \in Threads : Running(i) => Target(i) # p
  BY DEF CallStep, MayBuild, Idle, Target
<1>2. program'[p].kernels # NULL => program'[p].kernels = program'[p].binary
  BY <1>1 DEF SameCode, BuildInv, KernelsMatch
<1>3. CASE UNCHANGED job
  <2>1. ProgramTypeOK' /\ KernelsMatch'
    BY <1>1, <1>2, <1>3 DEF BuildInv, ProgramTypeOK, KernelsMatch
  <2>2. \A i \in Threads : /\ Running(i)' <=> Running(i)
                           /\ Target(i)' = Target(i)
    BY <1>3 DEF Running, Target
  <2>3. \A i \in Threads : Running(i) =>
            /\ Target(i) \in Programs
            /\ \A n \in DOMAIN job[i].inputs : job[i].inputs[n] \in Programs
    BY RunningFacts
  <2>4. TargetsExist'
    BY <1>1, <1>3, <2>2, <2>3 DEF BuildInv, TargetsExist
  <2>5. OneBuildEach' /\ LinkedIsNoInput'
    BY <1>3, <2>2 DEF BuildInv, OneBuildEach, LinkedIsNoInput
  <2>6. NoKernelsYet'
    BY <1>1, <1>3, <2>2, <2>3 DEF BuildInv, NoKernelsYet
  <2> QED
    BY <2>1, <2>4, <2>5, <2>6 DEF BuildInv
<1>4. ASSUME NEW j \in Threads, NEW kind \in {"build", "compile"}, NEW pc \in {"begin", "compile"},
             NewJob(j, p, kind, <<>>, pc)
      PROVE  BuildInv'
  BY <1>1, <1>2, <1>4, BuildInvNewJob
<1> QED
  BY <1>3, <1>4 DEF CallStep

LEMMA BuildInvLink ==
    ASSUME "idle" \in Rules, BuildInv, NEW r \in Programs, NEW inputs, LinkStep(r, inputs)
    PROVE  BuildInv'
<1>1. PICK j \in Threads : NewJob(j, r, "link", inputs, "link")
  BY DEF LinkStep
<1>2. \A i \in Threads : Running(i) => Target(i) # r
  BY DEF LinkStep, BuildInv, TargetsExist
<1>3. \A n \in DOMAIN inputs : /\ inputs[n] \in Programs /\ program[inputs[n]] # NULL
                               /\ Idle(inputs[n])
  BY DEF LinkStep
<1>4. kernel' \in [Kernels -> KernelState \cup {NULL}]
  BY DEF LinkStep, BuildInv, ProgramTypeOK
<1> QED
  BY <1>1, <1>2, <1>3, <1>4, BuildInvNewJob DEF LinkStep

LEMMA BuildInvSame ==
    ASSUME BuildInv, UNCHANGED <<program, job, calls>>,
           kernel' \in [Kernels -> KernelState \cup {NULL}]
    PROVE  BuildInv'
  BY DEF BuildInv, ProgramTypeOK, TargetsExist, OneBuildEach, LinkedIsNoInput, KernelsMatch,
         NoKernelsYet, Running, Target

\* The kinds of steps there are.
LEMMA StepKinds ==
    ASSUME BuildInv, [Next]_vars
    PROVE  \/ \E p \in Programs : CallStep(p)
           \/ \E r \in Programs : \E inputs \in InputLists : LinkStep(r, inputs)
           \/ \E j \in Threads : Running(j) /\ BuildStep(j) /\ ProgressStep(j)
           \/ \E k \in Kernels : \/ \E p \in Programs : clCreateKernel(k, p)
                                 \/ clEnqueueNDRangeKernel(k) \/ clReleaseKernel(k)
                                 \/ executeKernel(k)
           \/ UNCHANGED vars
<1>1. ASSUME NEW p \in Programs, NEW o \in Options, NEW notify \in BOOLEAN,
             \/ clBuildProgram(p, o, notify)
             \/ \E list \in HeaderLists : clCompileProgram(p, o, list, notify)
      PROVE  CallStep(p)
  BY <1>1, BuildCall, CompileCall
<1>2. ASSUME NEW r \in Results, NEW o \in Options, NEW library \in BOOLEAN,
             NEW notify \in BOOLEAN, NEW inputs \in InputLists,
             clLinkProgram(r, o, library, inputs, notify)
      PROVE  r \in Programs /\ LinkStep(r, inputs)
  BY <1>2, LinkCall
<1>3. ASSUME NEW j \in Threads, Build(j)
      PROVE  Running(j) /\ BuildStep(j) /\ ProgressStep(j)
  BY <1>3, BuildSteps
<1> QED
  BY <1>1, <1>2, <1>3 DEF Next, Application

LEMMA BuildInvStep == "idle" \in Rules /\ BuildInv /\ [Next]_vars => BuildInv'
<1> SUFFICES ASSUME "idle" \in Rules, BuildInv, [Next]_vars
             PROVE  BuildInv'
  OBVIOUS
<1>1. ASSUME NEW k \in Kernels, \/ \E p \in Programs : clCreateKernel(k, p)
                                \/ clEnqueueNDRangeKernel(k) \/ clReleaseKernel(k)
                                \/ executeKernel(k)
      PROVE  BuildInv'
  BY <1>1, KernelSteps, BuildInvSame
<1>2. CASE UNCHANGED vars
  BY <1>2, BuildInvSame DEF vars, BuildInv, ProgramTypeOK
<1> QED
  BY <1>1, <1>2, StepKinds, BuildInvCall, BuildInvLink, BuildInvBuild

LEMMA BuildInvariance == ASSUME "idle" \in Rules PROVE Spec => []BuildInv
  BY BuildInit, BuildInvStep, PTL DEF Spec

\* If no program is built while a build of it runs, the kernels a program reports
\* are those of the binary it reports, whatever was built, linked or failed.
THEOREM KernelsAreOfBinary == ASSUME "idle" \in Rules PROVE Spec => []KernelsOfBinary
<1>1. BuildInv => KernelsOfBinary
  BY ProgramBuildAssumption DEF BuildInv, KernelsMatch, KernelsOfBinary, getInfo
<1> QED
  BY <1>1, BuildInvariance, PTL

-----------------------------------------------------------------------------
(* Kernels *)

\* The first global data of a program without a source are those of its binary;
\* it has some as soon as it offers kernels.
GlobalsMatch ==
    \A p \in Programs : program[p] # NULL /\ ~program[p].source =>
        /\ program[p].globals # <<>> =>
               program[p].binary # NULL /\ Head(program[p].globals) = program[p].binary
        /\ program[p].kernels # NULL => program[p].globals # <<>>

\* What a kernel was created from is there as long as somebody has the kernel; a
\* build of its program was asked for after it was created.
KernelKept(k) ==
    LET p == kernel[k].program IN
    /\ program[p] # NULL
    /\ \A j \in Threads : Running(j) /\ Target(j) = p =>
           job[j].kind # "link" /\ kernel[k].rebuilt
    /\ ~program[p].source \/ ~kernel[k].rebuilt => program[p].binary = kernel[k].header
    /\ ~program[p].source =>
           program[p].globals # <<>> /\ Head(program[p].globals) = kernel[k].header

KernelInv == GlobalsMatch /\ \A k \in Kernels : kernel[k] # NULL => KernelKept(k)

LEMMA KernelInit == Init => KernelInv
<1> SUFFICES ASSUME Init PROVE KernelInv
  OBVIOUS
<1>1. \A k \in Kernels : kernel[k] = NULL
  BY DEF Init
<1>2. ASSUME NEW p \in Programs, program[p] # NULL
      PROVE  program[p].globals = <<>> /\ program[p].kernels = NULL
  BY <1>2 DEF Init, clCreateProgramWithSource, clCreateProgramWithILKHR,
              clCreateProgramWithBinary, NewProgram
<1> QED
  BY <1>1, <1>2 DEF KernelInv, GlobalsMatch

\* Global data that are appended leave the first ones where they are.
LEMMA HeadStays ==
    ASSUME NEW S, NEW s \in Seq(S), NEW x \in S
    PROVE  /\ Append(s, x) # <<>>
           /\ s # <<>> => Head(Append(s, x)) = Head(s)
           /\ s = <<>> => Head(Append(s, x)) = x
  OBVIOUS

\* What a step of a build leaves of a program without a source.
LEMMA CodeStaysFacts ==
    ASSUME NEW r \in ProgramState, NEW s \in ProgramState, CodeStays(r, s), ~r.source,
           r.globals # <<>> => r.binary # NULL /\ Head(r.globals) = r.binary,
           r.kernels # NULL => r.globals # <<>>
    PROVE  /\ ~s.source
           /\ r.globals # <<>> => /\ s.binary = r.binary
                                  /\ s.globals # <<>> /\ Head(s.globals) = Head(r.globals)
           /\ s.globals # <<>> => s.binary # NULL /\ Head(s.globals) = s.binary
           /\ s.kernels # NULL => s.globals # <<>>
<1>1. ~s.source /\ r.globals \in Seq(Binary)
  BY DEF CodeStays, ProgramState
<1>2. CASE s.globals = r.globals /\ (s.kernels # NULL => s.kernels = r.kernels)
  BY <1>1, <1>2 DEF CodeStays
<1>3. CASE r.binary # NULL /\ s.globals = Append(r.globals, r.binary)
  <2>1. r.binary \in Binary /\ s.binary = r.binary
    BY <1>3 DEF CodeStays, ProgramState
  <2> QED
    BY <1>1, <1>3, <2>1, HeadStays
<1>4. CASE s.globals = r.globals /\ s.globals = Append(r.globals, r.binary) /\ r.binary = NULL
  <2>1. Len(Append(r.globals, r.binary)) = Len(r.globals) + 1
    <3>1. r.globals \in Seq(Binary \cup {NULL})
      BY <1>1
    <3> QED
      BY <1>4, <3>1
  <2>2. Len(r.globals) \in Nat
    BY <1>1
  <2> QED
    BY <1>4, <2>1, <2>2
<1> QED
  BY <1>2, <1>3, <1>4 DEF CodeStays

LEMMA KernelInvStep ==
    "idle" \in Rules /\ BuildInv /\ KernelInv /\ [Next]_vars => KernelInv'
<1> SUFFICES ASSUME "idle" \in Rules, BuildInv, KernelInv, [Next]_vars
             PROVE  KernelInv'
  OBVIOUS
<1>1. \A k \in Kernels : kernel[k] # NULL => kernel[k].program \in Programs
  BY DEF BuildInv, ProgramTypeOK, KernelState
<1>2. ASSUME NEW p \in Programs, CallStep(p)
      PROVE  KernelInv'
  <2>1. /\ \A q \in Programs : q # p => program'[q] = program[q]
        /\ program[p] # NULL /\ program'[p] # NULL /\ SameCode(program'[p], program[p])
        /\ \A i \in Threads : Running(i)' =>
              \/ Running(i) /\ Target(i)' = Target(i) /\ job'[i].kind = job[i].kind
              \/ Target(i)' = p /\ job'[i].kind # "link"
    BY <1>2 DEF CallStep, NewJob, Running, Target
  <2>2. GlobalsMatch'
    BY <2>1 DEF KernelInv, GlobalsMatch, SameCode
  <2>3. ASSUME NEW k \in Kernels, kernel'[k] # NULL
        PROVE  KernelKept(k)'
    <3>1. /\ kernel[k] # NULL /\ KernelKept(k)
          /\ kernel'[k].program = kernel[k].program /\ kernel'[k].header = kernel[k].header
          /\ kernel'[k].rebuilt = (kernel[k].rebuilt \/ kernel[k].program = p)
      BY <1>2, <2>3 DEF CallStep, KernelInv
    <3>2. CASE kernel[k].program = p
      BY <2>1, <3>1, <3>2 DEF KernelKept, SameCode
    <3>3. CASE kernel[k].program # p
      <4>1. program'[kernel[k].program] = program[kernel[k].program]
        BY <1>1, <2>1, <3>1, <3>3
      <4>2. kernel[k].rebuilt => kernel'[k].rebuilt
        BY <3>1
      <4>3. ~kernel[k].rebuilt => ~kernel'[k].rebuilt
        BY <3>1, <3>3
      <4> QED
        BY <2>1, <3>1, <3>3, <4>1, <4>2, <4>3 DEF KernelKept
    <3> QED
      BY <3>2, <3>3
  <2> QED
    BY <2>2, <2>3 DEF KernelInv
<1>3. ASSUME NEW r \in Programs, NEW inputs \in InputLists, LinkStep(r, inputs)
      PROVE  KernelInv'
  <2>1. /\ UNCHANGED kernel /\ program[r] = NULL
        /\ program'[r].kernels = NULL /\ program'[r].globals = <<>>
        /\ \A q \in Programs : q # r => program'[q] = program[q]
        /\ \A i \in Threads : Running(i)' =>
              \/ Running(i) /\ Target(i)' = Target(i) /\ job'[i].kind = job[i].kind
              \/ Target(i)' = r
    BY <1>3 DEF LinkStep, NewJob, Running, Target
  <2>2. \A k \in Kernels : kernel[k] # NULL => KernelKept(k) /\ kernel[k].program # r
    BY <2>1 DEF KernelInv, KernelKept
  <2>3. GlobalsMatch'
    BY <2>1 DEF KernelInv, GlobalsMatch
  <2>4. ASSUME NEW k \in Kernels, kernel'[k] # NULL
        PROVE  KernelKept(k)'
    BY <1>1, <2>1, <2>2, <2>4 DEF KernelKept
  <2> QED
    BY <2>3, <2>4 DEF KernelInv
<1>4. ASSUME NEW j \in Threads, Running(j), BuildStep(j)
      PROVE  KernelInv'
  <2> DEFINE t == Target(j)
  <2>1. /\ UNCHANGED kernel
        /\ \A q \in Programs : q # t => program'[q] = program[q]
        /\ \A i \in Threads : Running(i)' => /\ Running(i) /\ Target(i)' = Target(i)
                                             /\ job'[i].kind = job[i].kind
        /\ program'[t] = NULL => job[j].kind = "link"
    BY <1>4 DEF BuildStep, Running, Target, SameJob
  <2>2. /\ t \in Programs /\ program[t] \in ProgramState /\ program[t] # NULL
        /\ program'[t] # NULL => program'[t] \in ProgramState /\ CodeStays(program[t], program'[t])
    BY <1>4, RunningFacts DEF BuildStep
  <2>3. program'[t] # NULL /\ ~program'[t].source =>
            /\ ~program[t].source
            /\ program[t].globals # <<>> =>
                   /\ program'[t].binary = program[t].binary
                   /\ program'[t].globals # <<>>
                   /\ Head(program'[t].globals) = Head(program[t].globals)
            /\ program'[t].globals # <<>> => /\ program'[t].binary # NULL
                                             /\ Head(program'[t].globals) = program'[t].binary
            /\ program'[t].kernels # NULL => program'[t].globals # <<>>
    <3> SUFFICES ASSUME program'[t] # NULL, ~program'[t].source
                 PROVE  /\ ~program[t].source
                        /\ program[t].globals # <<>> =>
                               /\ program'[t].binary = program[t].binary
                               /\ program'[t].globals # <<>>
                               /\ Head(program'[t].globals) = Head(program[t].globals)
                        /\ program'[t].globals # <<>> =>
                               /\ program'[t].binary # NULL
                               /\ Head(program'[t].globals) = program'[t].binary
                        /\ program'[t].kernels # NULL => program'[t].globals # <<>>
      OBVIOUS
    <3>1. ~program[t].source
      BY <2>2 DEF CodeStays
    <3>2. /\ program[t].globals # <<>> =>
                 program[t].binary # NULL /\ Head(program[t].globals) = program[t].binary
          /\ program[t].kernels # NULL => program[t].globals # <<>>
      BY <2>2, <3>1 DEF KernelInv, GlobalsMatch
    <3> QED
      BY <2>2, <3>1, <3>2, CodeStaysFacts
  <2>4. GlobalsMatch'
    BY <2>1, <2>3 DEF KernelInv, GlobalsMatch
  <2>5. ASSUME NEW k \in Kernels, kernel'[k] # NULL
        PROVE  KernelKept(k)'
    <3>1. kernel'[k] = kernel[k] /\ KernelKept(k) /\ kernel[k].program \in Programs
      BY <1>1, <2>1, <2>5 DEF KernelInv
    <3>2. CASE kernel[k].program = t
      <4>1. kernel[k].rebuilt /\ job[j].kind # "link"
        BY <1>4, <3>1, <3>2 DEF KernelKept
      <4>2. program'[t] # NULL
        BY <2>1, <4>1
      <4>3. ~program'[t].source => /\ program'[t].binary = kernel[k].header
                                   /\ program'[t].globals # <<>>
                                   /\ Head(program'[t].globals) = kernel[k].header
        BY <2>3, <3>1, <3>2, <4>2 DEF KernelKept
      <4> QED
        BY <2>1, <3>1, <3>2, <4>1, <4>2, <4>3 DEF KernelKept
    <3>3. CASE kernel[k].program # t
      BY <2>1, <3>1, <3>3 DEF KernelKept
    <3> QED
      BY <3>2, <3>3
  <2> QED
    BY <2>4, <2>5 DEF KernelInv
<1>5. ASSUME NEW k \in Kernels, \/ \E p \in Programs : clCreateKernel(k, p)
                                \/ clEnqueueNDRangeKernel(k) \/ clReleaseKernel(k)
                                \/ executeKernel(k)
      PROVE  KernelInv'
  <2>1. /\ UNCHANGED <<program, job>>
        /\ \A l \in Kernels : l # k => kernel'[l] = kernel[l]
    BY <1>5, KernelSteps
  <2>2. GlobalsMatch'
    BY <2>1 DEF KernelInv, GlobalsMatch
  <2>3. ASSUME NEW l \in Kernels, l # k, kernel'[l] # NULL
        PROVE  KernelKept(l)'
    BY <2>1, <2>3 DEF KernelInv, KernelKept, Running, Target
  <2>4. ASSUME kernel'[k] # NULL
        PROVE  KernelKept(k)'
    <3>1. CASE /\ kernel[k] # NULL
               /\ kernel'[k].program = kernel[k].program
               /\ kernel'[k].header = kernel[k].header
               /\ kernel'[k].rebuilt = kernel[k].rebuilt
      BY <2>1, <3>1 DEF KernelInv, KernelKept, Running, Target
    <3>2. CASE /\ kernel'[k].program \in Programs
               /\ program[kernel'[k].program] # NULL
               /\ kernel'[k].header = program[kernel'[k].program].kernels
               /\ kernel'[k].header # NULL
               /\ Idle(kernel'[k].program)
      <4>1. kernel'[k].header = program[kernel'[k].program].binary
        BY <3>2 DEF BuildInv, KernelsMatch
      <4>2. ~program[kernel'[k].program].source =>
                /\ program[kernel'[k].program].globals # <<>>
                /\ Head(program[kernel'[k].program].globals) = kernel'[k].header
        BY <3>2, <4>1 DEF KernelInv, GlobalsMatch
      <4> QED
        BY <2>1, <3>2, <4>1, <4>2 DEF KernelKept, Idle, Running, Target
    <3> QED
      BY <1>5, <2>4, <3>1, <3>2, KernelSteps
  <2> QED
    BY <2>2, <2>3, <2>4 DEF KernelInv
<1>6. CASE UNCHANGED vars
  BY <1>6 DEF vars, KernelInv, GlobalsMatch, KernelKept, Running, Target
<1> QED
  BY <1>2, <1>3, <1>4, <1>5, <1>6, StepKinds

\* A command finds the code and the first global data its kernel was created from,
\* although the program is built again while the kernel is held or enqueued: always
\* if the program has no source, and otherwise until somebody asks for a build.
\* All the application has to keep to is not to build a program that is being built.
THEOREM KernelsExecuteOwnCode == ASSUME "idle" \in Rules PROVE Spec => []ExecutesOwnCode
<1>1. KernelInv => ExecutesOwnCode
  BY DEF KernelInv, KernelKept, ExecutesOwnCode
<1> QED
  BY <1>1, KernelInit, KernelInvStep, BuildInvariance, PTL DEF Spec

-----------------------------------------------------------------------------
(* Builds *)

\* What a build links is not built meanwhile.
InputsRest ==
    \A i, j \in Threads : Running(i) /\ Running(j) =>
        \A n \in DOMAIN job[j].inputs : job[j].inputs[n] # Target(i)

ProgressInv == InputsRest /\ \A j \in Threads : Running(j) => Progress(j)

\* A build nobody touches is as far as it was.
LEMMA ProgressStays ==
    ASSUME BuildInv, NEW i \in Threads, Running(i), Progress(i), job'[i] = job[i],
           program'[Target(i)] = program[Target(i)],
           \A n \in DOMAIN job[i].inputs :
               program'[job[i].inputs[n]] = program[job[i].inputs[n]]
    PROVE  Progress(i)'
<1>1. Target(i)' = Target(i)
  BY DEF Target
<1>2. UNION {program'[job'[i].inputs[n]].ir : n \in DOMAIN job'[i].inputs}
        = UNION {program[job[i].inputs[n]].ir : n \in DOMAIN job[i].inputs}
  OBVIOUS
<1>3. Delivered(i) => Delivered(i)'
  BY <1>1 DEF Delivered, BinaryType, getBuildStatus
<1> QED
  BY <1>1, <1>2, <1>3 DEF Progress

LEMMA ProgressInvStep ==
    {"idle", "inputs"} \subseteq Rules
        /\ BuildInv /\ ProgressInv /\ [Next]_vars => ProgressInv'
<1> SUFFICES ASSUME {"idle", "inputs"} \subseteq Rules, BuildInv, ProgressInv, [Next]_vars
             PROVE  ProgressInv'
  OBVIOUS
<1>1. \A i \in Threads : Running(i) =>
          /\ Target(i) \in Programs /\ program[Target(i)] # NULL
          /\ \A n \in DOMAIN job[i].inputs : /\ job[i].inputs[n] \in Programs
                                             /\ program[job[i].inputs[n]] # NULL
  BY RunningFacts DEF BuildInv, TargetsExist
<1>2. ASSUME NEW p \in Programs, CallStep(p)
      PROVE  ProgressInv'
  <2>1. /\ \A q \in Programs : q # p => program'[q] = program[q]
        /\ \A i \in Threads : Running(i) =>
               Target(i) # p /\ \A n \in DOMAIN job[i].inputs : job[i].inputs[n] # p
    BY <1>2 DEF CallStep, MayBuild, Idle, Target
  <2>2. CASE UNCHANGED job
    BY <1>1, <2>1, <2>2, ProgressStays DEF ProgressInv, InputsRest, Running, Target
  <2>3. ASSUME NEW j \in Threads, \/ NewJob(j, p, "build", <<>>, "begin")
                                  \/ NewJob(j, p, "compile", <<>>, "compile")
        PROVE  ProgressInv'
    <3>1. /\ \A i \in Threads : i # j => job'[i] = job[i] /\ Target(i)' = Target(i)
          /\ Target(j)' = p /\ job'[j].inputs = <<>> /\ DOMAIN job'[j].inputs = {}
      BY <2>3 DEF NewJob, Target
    <3>2. Progress(j)'
      BY <2>3 DEF NewJob, Progress
    <3>3. \A i \in Threads : Running(i)' /\ i # j => Progress(i)'
      BY <1>1, <2>1, <3>1, ProgressStays DEF ProgressInv, Running
    <3>4. InputsRest'
      BY <2>1, <3>1 DEF ProgressInv, InputsRest, Running
    <3> QED
      BY <3>2, <3>3, <3>4 DEF ProgressInv
  <2> QED
    BY <1>2, <2>2, <2>3 DEF CallStep
<1>3. ASSUME NEW r \in Programs, NEW inputs \in InputLists, LinkStep(r, inputs)
      PROVE  ProgressInv'
  <2>1. PICK j \in Threads : NewJob(j, r, "link", inputs, "link")
    BY <1>3 DEF LinkStep
  <2>2. /\ program[r] = NULL /\ program'[r].binary = NULL
        /\ \A q \in Programs : q # r => program'[q] = program[q]
        /\ \A n \in DOMAIN inputs : /\ inputs[n] \in Programs /\ inputs[n] # r
                                    /\ Idle(inputs[n])
    BY <1>3 DEF LinkStep
  <2>3. \A i \in Threads : i # j => job'[i] = job[i] /\ Target(i)' = Target(i)
    BY <2>1 DEF NewJob, Target
  <2>4. \A i \in Threads : Running(i)' /\ i # j => Progress(i)'
    BY <1>1, <2>2, <2>3, ProgressStays DEF ProgressInv, Running
  <2>5. Progress(j)'
    <3>1. UNION {program'[inputs[n]].ir : n \in DOMAIN inputs}
            = UNION {program[inputs[n]].ir : n \in DOMAIN inputs}
      BY <2>2
    <3> QED
      BY <2>1, <2>2, <3>1 DEF NewJob, Progress
  <2>6. InputsRest'
    <3> SUFFICES ASSUME NEW i \in Threads, NEW k \in Threads, Running(i)', Running(k)',
                        NEW n \in DOMAIN job'[k].inputs
                 PROVE  job'[k].inputs[n] # Target(i)'
      BY DEF InputsRest
    <3>1. job'[j].inputs = inputs /\ Target(j)' = r
      BY <2>1 DEF NewJob
    <3>2. CASE k = j
      BY <2>2, <2>3, <3>1, <3>2 DEF Idle, Running, Target
    <3>3. CASE k # j
      BY <1>1, <2>2, <2>3, <3>1, <3>3 DEF ProgressInv, InputsRest, Running
    <3> QED
      BY <3>2, <3>3
  <2> QED
    BY <2>4, <2>5, <2>6 DEF ProgressInv
<1>4. ASSUME NEW j \in Threads, Running(j), BuildStep(j), ProgressStep(j)
      PROVE  ProgressInv'
  <2>1. /\ \A q \in Programs : q # Target(j) => program'[q] = program[q]
        /\ \A i \in Threads : i # j => job'[i] = job[i]
        /\ \A i \in Threads : Running(i)' => /\ Running(i) /\ Target(i)' = Target(i)
                                             /\ job'[i].inputs = job[i].inputs
    BY <1>4 DEF BuildStep, Running, Target, SameJob
  <2>2. \A i \in Threads : Running(i)' /\ i # j => Progress(i)'
    BY <1>1, <1>4, <2>1, ProgressStays DEF ProgressInv, InputsRest, BuildInv, OneBuildEach
  <2>3. Running(j)' => Progress(j)'
    BY <1>4 DEF ProgressInv, ProgressStep
  <2>4. InputsRest'
    BY <2>1 DEF ProgressInv, InputsRest
  <2> QED
    BY <2>2, <2>3, <2>4 DEF ProgressInv
<1>5. CASE UNCHANGED <<program, job>>
  BY <1>1, <1>5, ProgressStays DEF ProgressInv, InputsRest, Running, Target
<1> QED
  BY <1>2, <1>3, <1>4, <1>5, StepKinds, KernelSteps DEF vars

\* A build that is about to report success has left what was asked for, if the
\* application builds neither a program that is being built nor one that is being
\* linked into another.
THEOREM SuccessfulBuildsAreComplete ==
    ASSUME {"idle", "inputs"} \subseteq Rules
    PROVE  Spec => []SuccessIsComplete
<1>1. "idle" \in Rules
  OBVIOUS
<1>2. Init => ProgressInv
  BY BuildInit DEF ProgressInv, InputsRest
<1>3. BuildInv /\ ProgressInv => SuccessIsComplete
  <2> SUFFICES ASSUME BuildInv, ProgressInv, NEW j \in Threads, Running(j),
                      job[j].pc \in {"status", "callback"}, job[j].state = "CL_SUCCESS"
               PROVE  /\ job[j].kind = "link" => job[j].expected \subseteq program[Target(j)].ir
                      /\ job[j].kind # "compile" => Delivered(j)
    BY DEF SuccessIsComplete, Delivered, Target
  <2> QED
    BY DEF ProgressInv, Progress
<1>4. Spec => []BuildInv
  BY <1>1, BuildInvariance
<1> QED
  BY <1>2, <1>3, <1>4, ProgressInvStep, PTL DEF Spec
=============================================================================
