------------------------------ MODULE ProgramBuild ------------------------------
(***************************************************************************)
(* Programs (Program.cpp): compiling, linking and building them, in the    *)
(* calling thread or in a detached one, and the kernels created from them  *)
(* (Kernel.cpp), which the queue handler executes with the code and the    *)
(* global data their program has at that time (executor.cpp).              *)
(*                                                                         *)
(* A piece of code is known by where it came from: intermediate code is    *)
(* the set of compilation units it was made of, a binary says which        *)
(* intermediate code was compiled and with which options.  The compiler,   *)
(* a library of its own, may fail whenever it is called.                   *)
(***************************************************************************)
EXTENDS Naturals, Sequences, Functions

CONSTANTS
    NULL,
    Sources,      \* programs created with clCreateProgramWithSource
    ILs,          \* programs created with clCreateProgramWithILKHR
    Binaries,     \* programs created with clCreateProgramWithBinary
    Results,      \* programs clLinkProgram may create
    Options,      \* build options
    HeaderLists,  \* lists of embedded headers, pairs of a name and a program
    InputLists,   \* lists of programs to link
    Kernels,      \* kernel objects
    Threads,      \* threads for builds
    MaxCalls,     \* bound on the number of builds asked for
    Rules         \* what the application keeps to and the code does not check

VARIABLES
    program,   \* the programs, NULL before clLinkProgram creates it
    job,       \* the build each thread runs
    calls,     \* number of builds asked for
    kernel     \* the kernel objects

vars == <<program, job, calls, kernel>>

Programs == Sources \cup ILs \cup Binaries \cup Results

Headers == UNION {Range(list) : list \in HeaderLists}

Code == [source : Programs \cup {"stdlib"}, options : Options \cup {NULL},
         headers : SUBSET Headers]

Binary == [units : SUBSET Code, options : Options \cup {NULL}]

ProgramState ==
    [type : {"SOURCE", "IL", "BINARY", "LIBRARY"}, source : BOOLEAN, ir : SUBSET Code,
     binary : Binary \cup {NULL}, kernels : Binary \cup {NULL}, globals : Seq(Binary),
     status : {"CL_BUILD_NONE", "CL_BUILD_IN_PROGRESS", "CL_BUILD_SUCCESS", "CL_BUILD_ERROR"},
     options : Options \cup {NULL}]

BuildJob ==
    [kind : {"build", "compile", "link"}, program : Programs, options : Options,
     headers : SUBSET Headers, inputs : Seq(Programs), notify : BOOLEAN,
     pc : {"begin", "compile", "precompile", "link", "compile_program", "extractModuleInfo",
           "status", "callback"},
     state : {"CL_SUCCESS", "CL_INVALID_OPERATION", "CL_COMPILE_PROGRAM_FAILURE",
              "CL_LINKER_NOT_AVAILABLE", "CL_LINK_PROGRAM_FAILURE", "CL_BUILD_PROGRAM_FAILURE",
              "CL_INVALID_BINARY", "CL_INVALID_PROGRAM"},
     expected : SUBSET Code]

\* `rebuilt` is a history of the kernel that the code does not keep: a build or a
\* compilation of its program was asked for after it was created.
KernelState == [program : Programs, header : Binary, held : BOOLEAN, queued : BOOLEAN,
                rebuilt : BOOLEAN]

\* The header lists name programs, and NULL is none of the records.
ASSUME ProgramBuildAssumption ==
    /\ MaxCalls \in Nat
    /\ Rules \subseteq {"idle", "inputs"}
    /\ \A list \in HeaderLists : \A i \in DOMAIN list : list[i][2] \in Programs
    /\ InputLists \subseteq Seq(Programs)
    /\ NULL \notin Binary /\ NULL \notin ProgramState
    /\ NULL \notin BuildJob /\ NULL \notin KernelState

\* Every variable has its type; in particular a kernel has code of its own.
ProgramTypeOK ==
    /\ program \in [Programs -> ProgramState \cup {NULL}]
    /\ job \in [Threads -> BuildJob \cup {NULL}]
    /\ calls \in 0..MaxCalls
    /\ kernel \in [Kernels -> KernelState \cup {NULL}]

-----------------------------------------------------------------------------
(* Programs *)

\* What a program is that is created as `type` with its code.
NewProgram(type, source, ir, binary) ==
    [type |-> type, source |-> source, ir |-> ir, binary |-> binary, kernels |-> NULL,
     globals |-> <<>>, status |-> "CL_BUILD_NONE", options |-> NULL]

Unit(p, o, headers) == [source |-> p, options |-> o, headers |-> headers]
StandardLibrary == Unit("stdlib", NULL, {})

clCreateProgramWithSource == NewProgram("SOURCE", TRUE, {}, NULL)
clCreateProgramWithILKHR(p) == NewProgram("IL", FALSE, {Unit(p, NULL, {})}, NULL)
clCreateProgramWithBinary(p) ==
    NewProgram("BINARY", FALSE, {}, [units |-> {Unit(p, NULL, {})}, options |-> NULL])

getBuildStatus(p) ==
    IF program[p].binary # NULL THEN "DONE"
    ELSE IF program[p].ir # {} THEN "COMPILED" ELSE "NOT_BUILD"

\* getBuildInfo(CL_PROGRAM_BINARY_TYPE).
BinaryType(p) ==
    CASE getBuildStatus(p) = "NOT_BUILD" -> "NONE"
      [] getBuildStatus(p) = "COMPILED" ->
             IF program[p].type = "LIBRARY" THEN "LIBRARY" ELSE "COMPILED_OBJECT"
      [] getBuildStatus(p) = "DONE" -> "EXECUTABLE"

\* What the application is told about code and kernels.
getInfo(p, param) ==
    LET r == program[p] IN
    CASE param = "CL_PROGRAM_IL_KHR" -> IF r.type = "IL" THEN r.ir ELSE {}
      [] param = "CL_PROGRAM_SOURCE" -> IF r.type = "SOURCE" THEN {p} ELSE {}
      [] param = "CL_PROGRAM_BINARIES" -> IF r.binary # NULL THEN {r.binary} ELSE r.ir
      [] param = "CL_PROGRAM_KERNEL_NAMES" ->
             IF r.kernels = NULL THEN "CL_INVALID_PROGRAM_EXECUTABLE" ELSE {r.kernels}

Running(j) == job[j] # NULL
Idle(p) == \A j \in Threads : Running(j) => job[j].program # p

\* Kernels that keep a reference to the program: held by the application, or
\* enqueued and not yet executed.
Attached(p) == {k \in Kernels : kernel[k] # NULL /\ kernel[k].program = p}

Init ==
    /\ program = [p \in Programs |->
           CASE p \in Sources -> clCreateProgramWithSource
             [] p \in ILs -> clCreateProgramWithILKHR(p)
             [] p \in Binaries -> clCreateProgramWithBinary(p)
             [] OTHER -> NULL]
    /\ job = [j \in Threads |-> NULL]
    /\ calls = 0
    /\ kernel = [k \in Kernels |-> NULL]

-----------------------------------------------------------------------------
(* The application's calls *)

\* The application is one thread: no call while a build runs in this thread.
CanCall == \A j \in Threads : Running(j) => job[j].notify

\* What the application makes sure of before it builds a program again.  Kernels
\* may be attached: the comments call for CL_INVALID_OPERATION then, and the code
\* builds all the same.
MayBuild(p) ==
    /\ program[p] # NULL
    /\ "idle" \in Rules => Idle(p)
    /\ "inputs" \in Rules =>
           \A j \in Threads : Running(j) => \A i \in DOMAIN job[j].inputs : job[j].inputs[i] # p

Rebuilt(p) ==
    kernel' = [k \in Kernels |->
        IF k \in Attached(p) THEN [kernel[k] EXCEPT !.rebuilt = TRUE] ELSE kernel[k]]

\* The builds run in a thread of their own if there is a callback.
Start(kind, p, o, headers, inputs, notify, pc) ==
    LET j == CHOOSE t \in Threads : job[t] = NULL IN
    /\ \E t \in Threads : job[t] = NULL
    /\ job' = [job EXCEPT ![j] =
           [kind |-> kind, program |-> p, options |-> o, headers |-> headers,
            inputs |-> inputs, notify |-> notify, pc |-> pc, state |-> "CL_SUCCESS",
            expected |-> UNION {program[inputs[i]].ir : i \in DOMAIN inputs}]]

clBuildProgram(p, o, notify) ==
    /\ CanCall /\ calls < MaxCalls /\ MayBuild(p)
    /\ Start("build", p, o, {}, <<>>, notify, "begin")
    /\ program' = [program EXCEPT ![p].status = "CL_BUILD_IN_PROGRESS"]
    /\ calls' = calls + 1
    /\ Rebuilt(p)

\* The first program with a name is used for the header of that name.
EmbeddedHeaders(list) ==
    {list[i] : i \in {i \in DOMAIN list : \A k \in 1..(i - 1) : list[k][1] # list[i][1]}}

ValidHeaders(list) == \A i \in DOMAIN list : program[list[i][2]].source

\* The status is set before the arguments are checked.
clCompileProgram(p, o, list, notify) ==
    /\ CanCall /\ calls < MaxCalls /\ MayBuild(p)
    /\ program' = [program EXCEPT ![p].status = "CL_BUILD_IN_PROGRESS"]
    /\ \/ /\ ValidHeaders(list)
          /\ Start("compile", p, o, EmbeddedHeaders(list), <<>>, notify, "compile")
       \/ /\ ~ValidHeaders(list)
          /\ UNCHANGED job
    /\ calls' = calls + 1
    /\ Rebuilt(p)

\* The result is a program of its own, returned at once if there is a callback.
clLinkProgram(r, o, library, inputs, notify) ==
    /\ CanCall /\ calls < MaxCalls /\ program[r] = NULL
    /\ "idle" \in Rules => \A i \in DOMAIN inputs : Idle(inputs[i])
    /\ \A i \in DOMAIN inputs : program[inputs[i]] # NULL
    /\ Start("link", r, o, {}, inputs, notify, "link")
    /\ program' = [program EXCEPT ![r] =
           [NewProgram(IF library THEN "LIBRARY" ELSE "IL", FALSE, {}, NULL)
                EXCEPT !.status = "CL_BUILD_IN_PROGRESS"]]
    /\ calls' = calls + 1
    /\ UNCHANGED kernel

-----------------------------------------------------------------------------
(* The steps of a build *)

\* Mutant: an error returns without telling anyone.
Fail_Silently(j, code) == job' = [job EXCEPT ![j].pc = "returned", ![j].state = code]

Goto(j, pc) == job' = [job EXCEPT ![j].pc = pc]
Ended(j) == job' = [job EXCEPT ![j] = NULL]
Fail(j, code) == job' = [job EXCEPT ![j].pc = "status", ![j].state = code]

\* buildInner: what was compiled and not linked is only linked, anything else
\* that has a source is compiled again.
buildInner(j) ==
    LET p == job[j].program IN
    /\ Running(j) /\ job[j].pc = "begin"
    /\ Goto(j, IF getBuildStatus(p) # "COMPILED" /\ program[p].source THEN "compile" ELSE "link")
    /\ UNCHANGED <<program, calls, kernel>>

AfterCompile(j) == IF job[j].kind = "build" THEN "link" ELSE "status"

\* Mutant: the kernels of the previous build are kept.
Cleared_KeepsKernels(r) == [r EXCEPT !.ir = {}, !.binary = NULL]

\* The results Program::compile clears.
Cleared(r) == [r EXCEPT !.ir = {}, !.binary = NULL, !.kernels = NULL]

\* Program::compile up to the precompiler.
compile(j) ==
    LET p == job[j].program IN
    /\ Running(j) /\ job[j].pc = "compile"
    /\ \/ /\ program[p].type = "IL"
          /\ program' = [program EXCEPT ![p].status = "CL_BUILD_SUCCESS",
                                        ![p].options = job[j].options]
          /\ Goto(j, AfterCompile(j))
       \/ /\ program[p].type # "IL" /\ ~program[p].source
          /\ Fail(j, "CL_INVALID_OPERATION")
          /\ UNCHANGED program
       \/ /\ program[p].type # "IL" /\ program[p].source
          /\ program' = [program EXCEPT ![p] = Cleared(@)]
          /\ Goto(j, "precompile")
    /\ UNCHANGED <<calls, kernel>>

\* precompile_program; a source of no known type is refused before the options
\* are remembered.
precompile_program(j) ==
    LET p == job[j].program
        o == job[j].options
    IN
    /\ Running(j) /\ job[j].pc = "precompile"
    /\ \/ /\ program' = [program EXCEPT ![p].ir = {Unit(p, o, job[j].headers)},
                                        ![p].options = o]
          /\ Goto(j, AfterCompile(j))
       \/ /\ \/ program' = [program EXCEPT ![p].options = o]
             \/ UNCHANGED program
          /\ Fail(j, "CL_COMPILE_PROGRAM_FAILURE")
    /\ UNCHANGED <<calls, kernel>>

\* Mutant: the input programs replace each other.
Linked_LastOnly(j) ==
    LET ins == job[j].inputs IN IF ins = <<>> THEN program[job[j].program].ir
                                ELSE program[ins[Len(ins)]].ir

\* The intermediate code link_programs makes: of the program itself and of all
\* the input programs that have any, as they are now.
Linked(j) ==
    program[job[j].program].ir
        \cup UNION {program[job[j].inputs[i]].ir : i \in DOMAIN job[j].inputs}

\* Mutant: a program that has a binary is linked again.
NeedsLinking_Always(r) == TRUE

\* Program::link keeps a binary that is there.
NeedsLinking(r) == r.binary = NULL

\* Program::link up to the compiler, with link_programs.
link(j) ==
    LET p == job[j].program
        library == program[p].type = "LIBRARY"
        standard == IF program[p].type = "IL" THEN {StandardLibrary} ELSE {}
        nothing == job[j].inputs = <<>> /\ standard = {}
    IN
    /\ Running(j) /\ job[j].pc = "link"
    /\ \/ /\ ~NeedsLinking(program[p])
          /\ Goto(j, "extractModuleInfo")
          /\ UNCHANGED program
       \/ /\ NeedsLinking(program[p]) /\ program[p].ir = {} /\ job[j].inputs = <<>>
          /\ Fail(j, "CL_INVALID_OPERATION")
          /\ UNCHANGED program
       \/ /\ NeedsLinking(program[p]) /\ (program[p].ir # {} \/ job[j].inputs # <<>>)
          /\ program' = IF nothing THEN program
                        ELSE [program EXCEPT ![p].ir = Linked(j) \cup standard]
          /\ Goto(j, IF library THEN "status" ELSE "compile_program")
       \/ /\ NeedsLinking(program[p]) /\ (program[p].ir # {} \/ job[j].inputs # <<>>) /\ ~nothing
          /\ \E code \in {"CL_LINKER_NOT_AVAILABLE", "CL_LINK_PROGRAM_FAILURE"} : Fail(j, code)
          /\ UNCHANGED program
    /\ UNCHANGED <<calls, kernel>>

\* compile_program: code of no known type is refused.
compile_program(j) ==
    LET p == job[j].program
        o == job[j].options
    IN
    /\ Running(j) /\ job[j].pc = "compile_program"
    /\ \/ /\ program[p].ir # {}
          /\ program' = [program EXCEPT ![p].options = o,
                             ![p].binary = [units |-> program[p].ir, options |-> o]]
          /\ Goto(j, "extractModuleInfo")
       \/ /\ \/ program[p].ir # {} /\ program' = [program EXCEPT ![p].options = o]
             \/ UNCHANGED program
          /\ Fail(j, "CL_BUILD_PROGRAM_FAILURE")
    /\ UNCHANGED <<calls, kernel>>

\* The kernels are those of the binary; its global data is appended.
Extracted(r, found) ==
    IF found THEN [r EXCEPT !.kernels = r.binary, !.globals = Append(@, r.binary)]
    ELSE [r EXCEPT !.kernels = NULL]

\* The end of Program::link: kernels and global data are read from the binary,
\* which may be damaged or without kernels.
extractModuleInfo(j) ==
    LET p == job[j].program IN
    /\ Running(j) /\ job[j].pc = "extractModuleInfo"
    /\ \/ /\ program[p].binary # NULL
          /\ program' = [program EXCEPT ![p] = Extracted(@, TRUE)]
          /\ Goto(j, "status")
       \/ /\ program' = [program EXCEPT ![p] = Extracted(@, FALSE)]
          /\ \E code \in {"CL_INVALID_BINARY", "CL_INVALID_PROGRAM"} : Fail(j, code)
    /\ UNCHANGED <<calls, kernel>>

FinalStatus(state) == IF state = "CL_SUCCESS" THEN "CL_BUILD_SUCCESS" ELSE "CL_BUILD_ERROR"

\* The end of buildInner, compileInner and linkInner.  Without callback the call
\* returns, and clLinkProgram releases a program it could not link.
setStatus(j) ==
    LET p == job[j].program
        discard == job[j].kind = "link" /\ ~job[j].notify /\ job[j].state # "CL_SUCCESS"
    IN
    /\ Running(j) /\ job[j].pc = "status"
    /\ program' = IF discard THEN [program EXCEPT ![p] = NULL]
                  ELSE [program EXCEPT ![p].status = FinalStatus(job[j].state)]
    /\ IF job[j].notify THEN Goto(j, "callback") ELSE Ended(j)
    /\ UNCHANGED <<calls, kernel>>

callback(j) ==
    /\ Running(j) /\ job[j].pc = "callback"
    /\ Ended(j)
    /\ UNCHANGED <<program, calls, kernel>>

-----------------------------------------------------------------------------
(* Kernels *)

\* The kernel copies its header, the place of its code in the binary.
clCreateKernel(k, p) ==
    /\ CanCall /\ kernel[k] = NULL /\ program[p] # NULL
    /\ "idle" \in Rules => Idle(p)
    /\ program[p].kernels # NULL
    /\ kernel' = [kernel EXCEPT ![k] =
           [program |-> p, header |-> program[p].kernels, held |-> TRUE, queued |-> FALSE,
            rebuilt |-> FALSE]]
    /\ UNCHANGED <<program, job, calls>>

\* setWorkGroupSizes refuses a kernel while its program has none.
clEnqueueNDRangeKernel(k) ==
    /\ CanCall /\ kernel[k] # NULL
    /\ kernel[k].held /\ ~kernel[k].queued
    /\ program[kernel[k].program].kernels # NULL
    /\ kernel' = [kernel EXCEPT ![k].queued = TRUE]
    /\ UNCHANGED <<program, job, calls>>

\* The command keeps the kernel until it has been executed.
clReleaseKernel(k) ==
    /\ CanCall /\ kernel[k] # NULL /\ kernel[k].held
    /\ kernel' = [kernel EXCEPT ![k] = IF @.queued THEN [@ EXCEPT !.held = FALSE] ELSE NULL]
    /\ UNCHANGED <<program, job, calls>>

\* The queue handler: executeKernel copies code and global data of the program.
executeKernel(k) ==
    /\ kernel[k] # NULL /\ kernel[k].queued
    /\ kernel' = [kernel EXCEPT ![k] = IF @.held THEN [@ EXCEPT !.queued = FALSE] ELSE NULL]
    /\ UNCHANGED <<program, job, calls>>

-----------------------------------------------------------------------------

Application ==
    \/ \E p \in Programs, o \in Options, notify \in BOOLEAN :
           \/ clBuildProgram(p, o, notify)
           \/ \E list \in HeaderLists : clCompileProgram(p, o, list, notify)
    \/ \E r \in Results, o \in Options, library, notify \in BOOLEAN, inputs \in InputLists :
           clLinkProgram(r, o, library, inputs, notify)
    \/ \E k \in Kernels, p \in Programs : clCreateKernel(k, p)
    \/ \E k \in Kernels : clEnqueueNDRangeKernel(k) \/ clReleaseKernel(k)

Build(j) ==
    \/ buildInner(j) \/ compile(j) \/ precompile_program(j) \/ link(j) \/ compile_program(j)
    \/ extractModuleInfo(j) \/ setStatus(j) \/ callback(j)

Next ==
    \/ Application
    \/ \E j \in Threads : Build(j)
    \/ \E k \in Kernels : executeKernel(k)

\* The system runs the threads that build; the application need not call again.
Spec == Init /\ [][Next]_vars /\ \A j \in Threads : WF_vars(Build(j))

-----------------------------------------------------------------------------
(* Properties *)

\* The kernels a program with no build running reports are those of the binary
\* it reports, whatever built, failed or was called before: Program.h says that a
\* program with module information is completely compiled.
KernelsOfBinary ==
    \A p \in Programs : program[p] # NULL /\ Idle(p) /\ program[p].kernels # NULL =>
        getInfo(p, "CL_PROGRAM_KERNEL_NAMES") = getInfo(p, "CL_PROGRAM_BINARIES")

\* A build that is about to report success has left what was asked for: an
\* executable with its kernels or the library, and when it was linked all the code
\* of the programs it was linked from, if they have any (clGetProgramBuildInfo in
\* the callback).
SuccessIsComplete ==
    \A j \in Threads :
        Running(j) /\ job[j].pc \in {"status", "callback"} /\ job[j].state = "CL_SUCCESS" =>
            LET p == job[j].program IN
            /\ job[j].kind = "link" => job[j].expected \subseteq program[p].ir
            /\ job[j].kind # "compile" =>
                  \/ BinaryType(p) = "LIBRARY"
                  \/ BinaryType(p) = "EXECUTABLE" /\ program[p].kernels = program[p].binary
                  \/ job[j].kind = "link" /\ job[j].expected = {}

\* A build is appending to the global data of the program, which may move them.
Appending(p) ==
    \E j \in Threads : Running(j) /\ job[j].program = p /\ job[j].pc = "extractModuleInfo"

\* A command waiting for its execution finds the code its kernel was created from,
\* also when the program is built again while the kernel is held or enqueued, which
\* clBuildProgram and clCompileProgram do not refuse: without a source the binary
\* stays and the kernel's own global data are the first ones (executor.cpp reads
\* both when the command runs; nothing is said of the global data at the moment a
\* build in another thread moves them).  With a source Program::compile replaces
\* the code, so the kernel keeps it only as long as nobody asks for another build.
ExecutesOwnCode ==
    \A k \in Kernels : kernel[k] # NULL /\ kernel[k].queued =>
        LET p == kernel[k].program
            r == program[p]
        IN
        /\ ~r.source \/ ~kernel[k].rebuilt => r.binary = kernel[k].header
        /\ ~r.source /\ ~Appending(p) =>
               r.globals # <<>> /\ Head(r.globals) = kernel[k].header

\* Every build ends: in its own thread, or returning to the caller.
BuildEnds == \A j \in Threads : Running(j) ~> ~Running(j)

================================================================================
