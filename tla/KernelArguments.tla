----------------------------- MODULE KernelArguments -----------------------------
(***************************************************************************)
(* Kernels and their arguments (Kernel.cpp), from the binary their headers  *)
(* are read from (Program.cpp) to the UNIFORMs the QPUs read (executor.cpp). *)
(* Every enqueued execution takes a snapshot of the arguments; the queue    *)
(* handler lays it out in device memory: global data, stack, code, two      *)
(* blocks of UNIFORMs and two of launch messages, in 32-bit words.          *)
(***************************************************************************)
EXTENDS ModuleBinary, FiniteSets

CONSTANTS
    NULL,
    Modules,        \* what the compiler may have compiled
    Truncations,    \* lengths to which a stored binary may have been cut
    Kernels,        \* kernel objects
    Buffers,        \* buffers and images: context, rights and device address
    Scalars,        \* numbers the application may pass: size, size of an element, elements
    Structs,        \* structs it may pass: size and value
    Handles,        \* what it may pass for a pointer: size and buffer (or NULL)
    NumQPUs,        \* QPUs of the system
    LocalSizes,     \* numbers of QPUs a work-group may take
    TotalGPUMemory, \* limit of the size of a __local argument
    PAGE_ALIGNMENT, \* the device buffer's size is a multiple of this
    MaxCalls        \* bound on the calls of the application

ASSUME KernelArgumentsAssumption ==
    /\ NumQPUs \in Nat \ {0} /\ LocalSizes \subseteq 1..NumQPUs
    /\ PAGE_ALIGNMENT \in Nat \ {0}
    /\ MaxCalls \in Nat

VARIABLES
    module,      \* what the program's binary was compiled from
    binary,      \* Program::binaryCode
    moduleInfo,  \* Program::moduleInfo
    globalData,  \* Program::globalData
    kernel,      \* the kernel objects
    asked,       \* history: what the application set each argument to
    queue,       \* executions to come
    device,      \* the buffer of the last execution, and its execution
    calls,       \* number of calls of the application
    result       \* what the last call returned

vars == <<module, binary, moduleInfo, globalData, kernel, asked, queue, device, calls, result>>
programVars == <<module, binary, moduleInfo, globalData>>

Parameters(k) == kernel[k].info.parameters
Is(p, flag) == flag \in p.flags

---------------------------------------------------------------------------------
(* The program *)

\* extractModuleInfo, at the end of the build or link of the program.
extractModuleInfo ==
    LET read == readModule(binary)
        from == read.item.globalDataOffset
        usable == ~read.short /\ read.item.kernels # <<>>
    IN
    /\ moduleInfo = NULL /\ result = NULL
    /\ \/ /\ binary[1] # MagicNumber
          /\ result' = "CL_INVALID_BINARY"
          /\ UNCHANGED <<moduleInfo, globalData>>
       \/ /\ binary[1] = MagicNumber /\ ~usable
          /\ result' = "CL_INVALID_PROGRAM"
          /\ UNCHANGED <<moduleInfo, globalData>>
       \/ /\ binary[1] = MagicNumber /\ usable
          /\ result' = "CL_SUCCESS"
          /\ moduleInfo' = read.item
          /\ globalData' = globalData \o SubSeq(binary, from + 1, from + read.item.globalDataSize)
    /\ UNCHANGED <<module, binary, kernel, asked, queue, device, calls>>

---------------------------------------------------------------------------------
(* Kernel objects *)

Called == moduleInfo # NULL /\ calls < MaxCalls /\ calls' = calls + 1

\* The constructor: nothing is set.
NewKernel(info) == [info |-> info, args |-> [p \in DOMAIN info.parameters |-> NULL], argsSetMask |-> {}]
NothingAsked(info) == [p \in DOMAIN info.parameters |-> NULL]

\* clCreateKernel: the first kernel with the name.
clCreateKernel(k, name) ==
    LET found == {n \in 1..Len(moduleInfo.kernels) : moduleInfo.kernels[n].name = name}
        info == moduleInfo.kernels[FirstOf(found)]
    IN
    /\ Called /\ kernel[k] = NULL
    /\ \/ /\ found = {}
          /\ result' = "CL_INVALID_KERNEL_NAME"
          /\ UNCHANGED <<kernel, asked>>
       \/ /\ found # {}
          /\ result' = "CL_SUCCESS"
          /\ kernel' = [kernel EXCEPT ![k] = NewKernel(info)]
          /\ asked' = [asked EXCEPT ![k] = NothingAsked(info)]
    /\ UNCHANGED <<programVars, queue, device>>

\* clCreateKernelsInProgram with room for the kernel objects in `list`.
clCreateKernelsInProgram(list) ==
    LET number == Len(moduleInfo.kernels)
        At(k) == CHOOSE i \in DOMAIN list : list[i] = k
        new == {list[i] : i \in 1..number}
    IN
    /\ Called /\ \A i \in DOMAIN list : kernel[list[i]] = NULL
    /\ \/ /\ Len(list) < number
          /\ result' = "CL_INVALID_VALUE"
          /\ UNCHANGED <<kernel, asked>>
       \/ /\ Len(list) >= number
          /\ result' = "CL_SUCCESS"
          /\ kernel' = [k \in Kernels |->
                 IF k \in new THEN NewKernel(moduleInfo.kernels[At(k)]) ELSE kernel[k]]
          /\ asked' = [k \in Kernels |->
                 IF k \in new THEN NothingAsked(moduleInfo.kernels[At(k)]) ELSE asked[k]]
    /\ UNCHANGED <<programVars, queue, device>>

\* The copy constructor: every argument is cloned.
Clone(k) == kernel[k]

clCloneKernel(k, source) ==
    /\ Called /\ kernel[k] = NULL /\ kernel[source] # NULL
    /\ kernel' = [kernel EXCEPT ![k] = Clone(source)]
    /\ asked' = [asked EXCEPT ![k] = asked[source]]
    /\ result' = "CL_SUCCESS"
    /\ UNCHANGED <<programVars, queue, device>>

---------------------------------------------------------------------------------
(* clSetKernelArg *)

\* The application's memory: elements of n bytes as the library reads them.  Those of
\* 8 bytes are pairs of words.
Values(n) == IF n = 1 THEN 256 ELSE 65536
InMemory(element, n) == IF n \in {1, 2} THEN element % Values(n) ELSE element

\* ScalarArgument::addScalar, with the extension of setArg: 8 and 16 bits become a
\* word, 64 bits become two.
addScalar(p, n, raw) ==
    IF n = 8 THEN raw
    ELSE IF n \in {1, 2} /\ ~Is(p, "FloatingType") /\ Is(p, "Signed") /\ 2 * raw >= Values(n)
    THEN <<raw - Values(n)>> ELSE <<raw>>

ElementSize(p, size) ==
    IF p.vectorElements = 3 /\ size % 3 # 0 THEN size \div 4 ELSE size \div p.vectorElements

\* Three elements are accepted with the size of three and of four.
SizeFits(p, size) == size = p.size \/ (p.vectorElements = 3 /\ size * 4 = p.size * 3)

Scalar(words) == [type |-> "scalar", words |-> words]
Temporary(size, data) == [type |-> "temporary", size |-> size, data |-> data]
Handle(buffer) == [type |-> "buffer", buffer |-> buffer]
Refused(code) == [type |-> "refused", code |-> code]

ScalarArgument(p, a) ==
    LET n == ElementSize(p, a.size) IN
    IF n > 4 /\ n # 8 THEN Refused("CL_INVALID_ARG_SIZE")
    ELSE Scalar(FlattenSeq([i \in 1..p.vectorElements |-> addScalar(p, n, InMemory(a.value[i], n))]))

literalArgument(p, a) ==
    IF ~SizeFits(p, a.size) THEN Refused("CL_INVALID_ARG_SIZE")
    ELSE IF ~Is(p, "ByValue") THEN ScalarArgument(p, a)
    ELSE IF p.vectorElements > 1 THEN Refused("CL_INVALID_ARG_VALUE")
    ELSE Temporary(a.size, a.value)

LocalArgument(a) ==
    IF a.value # NULL \/ a.size = 0 \/ a.size > TotalGPUMemory THEN Refused("CL_INVALID_ARG_VALUE")
    ELSE Temporary(a.size, NULL)

isReadOnly(p) == Is(p, "Input") /\ ~Is(p, "Output")
isWriteOnly(p) == Is(p, "Output") /\ ~Is(p, "Input")

BufferArgument(context, p, a) ==
    IF a.size # 4 THEN Refused("CL_INVALID_ARG_SIZE")
    ELSE IF a.value = NULL THEN Handle(NULL)
    ELSE LET b == Buffers[a.value] IN
         IF \/ b.context # context
            \/ Is(p, "Image") /\ isReadOnly(p) /\ ~b.readable
            \/ Is(p, "Image") /\ isWriteOnly(p) /\ ~b.writeable
         THEN Refused("CL_INVALID_ARG_VALUE")
         ELSE Handle(a.value)

NewArgument(context, p, a) ==
    IF ~Is(p, "Pointer") \/ Is(p, "ByValue") THEN literalArgument(p, a)
    ELSE IF p.addressSpace = "LOCAL" THEN LocalArgument(a)
    ELSE BufferArgument(context, p, a)

\* What the application passes for a parameter: something of the declared kind, of
\* whatever size.
Passed(p) ==
    IF Is(p, "ByValue") THEN Structs
    ELSE IF Is(p, "Pointer") THEN Handles
    ELSE {a \in Scalars : SizeFits(p, a.size) => a.element = ElementSize(p, a.size)}

clSetKernelArg(k, i) ==
    /\ Called /\ kernel[k] # NULL
    /\ \/ /\ i \notin DOMAIN Parameters(k)
          /\ result' = "CL_INVALID_ARG_INDEX"
          /\ UNCHANGED <<kernel, asked>>
       \/ /\ i \in DOMAIN Parameters(k)
          /\ \E a \in Passed(Parameters(k)[i]) :
                LET new == NewArgument(module.context, Parameters(k)[i], a) IN
                IF new.type = "refused"
                THEN /\ result' = new.code
                     /\ UNCHANGED <<kernel, asked>>
                ELSE /\ result' = "CL_SUCCESS"
                     /\ kernel' = [kernel EXCEPT ![k].args[i] = new, ![k].argsSetMask = @ \cup {i}]
                     /\ asked' = [asked EXCEPT ![k][i] = a]
    /\ UNCHANGED <<programVars, queue, device>>

---------------------------------------------------------------------------------
(* Enqueueing *)

\* The temporary buffers of allocateAndTrackBufferArguments: none for a __local
\* parameter that is lowered into the VPM.
TmpBuffer(zeroLocal, p, arg) ==
    IF Is(p, "Lowered") THEN NULL
    ELSE [size |-> arg.size,
          contents |-> IF arg.data # NULL THEN arg.data
                       ELSE IF zeroLocal THEN "zero" ELSE "undefined"]

TmpBuffers(k) ==
    [i \in {n \in DOMAIN kernel[k].args : kernel[k].args[n].type = "temporary"} |->
        TmpBuffer(module.zeroLocal, Parameters(k)[i], kernel[k].args[i])]

PersistentBuffers(k) ==
    [i \in {n \in DOMAIN kernel[k].args : kernel[k].args[n].type = "buffer"} |->
        IF kernel[k].args[i].buffer = NULL THEN 0 ELSE Buffers[kernel[k].args[i].buffer].address]

\* enqueueNDRange: the execution and its snapshot of the arguments.
Execution(k, numQPUs) ==
    [of |-> k, info |-> kernel[k].info, numQPUs |-> numQPUs, executionArguments |-> kernel[k].args,
     tmpBuffers |-> TmpBuffers(k), persistentBuffers |-> PersistentBuffers(k), asked |-> asked[k]]

\* The work sizes are such that the work-group takes numQPUs QPUs.  No buffer is
\* released here, so CL_INVALID_KERNEL_ARGS for one that is gone does not come up.
clEnqueueNDRangeKernel(k, numQPUs) ==
    /\ Called /\ kernel[k] # NULL
    /\ \/ /\ kernel[k].argsSetMask # DOMAIN Parameters(k)
          /\ result' = "CL_INVALID_KERNEL_ARGS"
          /\ UNCHANGED queue
       \/ \* a temporary buffer cannot be allocated
          /\ kernel[k].argsSetMask = DOMAIN Parameters(k)
          /\ \E i \in DOMAIN TmpBuffers(k) : TmpBuffers(k)[i] # NULL
          /\ result' = "CL_OUT_OF_RESOURCES"
          /\ UNCHANGED queue
       \/ /\ kernel[k].argsSetMask = DOMAIN Parameters(k)
          /\ result' = "CL_SUCCESS"
          /\ queue' = Append(queue, Execution(k, numQPUs))
    /\ UNCHANGED <<programVars, kernel, asked, device>>

clEnqueueTask(k) == clEnqueueNDRangeKernel(k, 1)

---------------------------------------------------------------------------------
(* The device buffer of executeKernel *)

MAX_HIDDEN_PARAMETERS == 14

\* Mutant: room for one block of UNIFORMs.
get_size_OneBlock(x) ==
    LET raw == 8 * x.info.length
               + 4 * x.numQPUs * (MAX_HIDDEN_PARAMETERS + ExplicitUniformCount(x.info))
               + 8 * Len(globalData) + NumQPUs * moduleInfo.stackFrameSize * 8 + 2 * 2 * 4 * NumQPUs
    IN  (raw \div PAGE_ALIGNMENT + 1) * PAGE_ALIGNMENT

get_size(x) ==
    LET raw == 8 * x.info.length
               + 2 * 4 * x.numQPUs * (MAX_HIDDEN_PARAMETERS + ExplicitUniformCount(x.info))
               + 8 * Len(globalData) + NumQPUs * moduleInfo.stackFrameSize * 8 + 2 * 2 * 4 * NumQPUs
    IN  (raw \div PAGE_ALIGNMENT + 1) * PAGE_ALIGNMENT

\* A 64-bit word takes two of the 32-bit words of device memory.
Halves(words) == FlattenSeq([w \in 1..Len(words) |-> <<[low |-> words[w]], [high |-> words[w]]>>])

\* AS_GPU_ADDRESS: the words before it.
Address(n) == [address |-> n]
Value(v) == [value |-> v]

\* set_work_item_info: the hidden parameters in use, in this order.
WorkItemInfo == <<"WorkDimensions", "LocalSizes", "LocalIDs", "NumGroupsX", "NumGroupsY",
                  "NumGroupsZ", "GroupIDX", "GroupIDY", "GroupIDZ", "GlobalOffsetX",
                  "GlobalOffsetY", "GlobalOffsetZ", "GlobalDataAddress">>

\* Those of a list that a kernel uses.
Used(list, info) == Selected(list, {n \in 1..Len(list) : list[n] \in info.uniformsUsed})

set_work_item_info(info, qpu) ==
    LET used == Used(WorkItemInfo, info) IN
    [n \in 1..Len(used) |->
        IF used[n] = "GlobalDataAddress" THEN Address(0)
        ELSE IF used[n] = "LocalIDs" THEN [info |-> "LocalIDs", qpu |-> qpu]
        ELSE [info |-> used[n]]]

\* Mutant: the execution refers to the arguments of the kernel.
Arguments_Shared(x) == kernel[x.of].args

Arguments(x) == x.executionArguments

ArgumentWords(x, i) ==
    IF i \in DOMAIN x.tmpBuffers
    THEN IF x.tmpBuffers[i] = NULL THEN <<Value(0)>> ELSE <<[tmpBuffer |-> i]>>
    ELSE IF i \in DOMAIN x.persistentBuffers THEN <<Value(x.persistentBuffers[i])>>
    ELSE [n \in 1..Len(Arguments(x)[i].words) |-> Value(Arguments(x)[i].words[n])]

LoopInfo == <<"UniformAddress", "MaxGroupIDX", "MaxGroupIDY", "MaxGroupIDZ">>

loop_work_groups(info, start) ==
    LET used == Used(LoopInfo, info) IN
    [n \in 1..Len(used) |-> IF used[n] = "UniformAddress" THEN Address(start) ELSE [info |-> used[n]]]

\* The UNIFORMs of one QPU, which start after `start` words.
QPUUniforms(x, qpu, start) ==
    set_work_item_info(x.info, qpu)
        \o FlattenSeq([i \in 1..Len(x.info.parameters) |-> ArgumentWords(x, i)])
        \o loop_work_groups(x.info, start)

\* The first block of UNIFORMs, after `base` words, and where those of each QPU start.
Uniforms(x, base) ==
    LET block[q \in 0..x.numQPUs] ==
            IF q = 0 THEN [words |-> <<>>, pointers |-> <<>>]
            ELSE LET start == base + Len(block[q - 1].words) IN
                 [words |-> block[q - 1].words \o QPUUniforms(x, q, start),
                  pointers |-> Append(block[q - 1].pointers, start)]
    IN  block[x.numQPUs]

\* The launch messages: UNIFORMs and code of each QPU.
LaunchMessages(x, uniforms, code) ==
    LET uniformsPerQPU == Cardinality(x.info.uniformsUsed) + ExplicitUniformCount(x.info) IN
    FlattenSeq([q \in 1..x.numQPUs |-> <<Address(uniforms + (q - 1) * uniformsPerQPU), Address(code)>>])

Filled(x) ==
    LET data == Halves(globalData)
        stack == [n \in 1..(NumQPUs * moduleInfo.stackFrameSize * 2) |-> [info |-> "stack"]]
        code == Len(data) + Len(stack)
        instructions == Halves(SubSeq(binary, x.info.offset + 1, x.info.offset + x.info.length))
        qpu_uniform_0 == code + Len(instructions)
        block == Uniforms(x, qpu_uniform_0)
        qpu_uniform_1 == qpu_uniform_0 + Len(block.words)
        qpu_msg_0 == qpu_uniform_1 + Len(block.words)
        messages == <<LaunchMessages(x, qpu_uniform_0, code), LaunchMessages(x, qpu_uniform_1, code)>>
    IN  [execution |-> x, size |-> get_size(x),
         words |-> data \o stack \o instructions \o block.words \o block.words
                   \o messages[1] \o messages[2],
         uniformPointers |-> <<block.pointers, [q \in 1..x.numQPUs |-> block.pointers[q] + Len(block.words)]>>,
         messages |-> <<qpu_msg_0, qpu_msg_0 + Len(messages[1])>>]

\* executeKernel by the queue handler, as far as to the start of the QPUs.
executeKernel ==
    /\ queue # <<>>
    /\ queue' = Tail(queue)
    /\ device' \in {NULL, Filled(Head(queue))}   \* NULL: no memory
    /\ UNCHANGED <<programVars, kernel, asked, calls, result>>

---------------------------------------------------------------------------------
(* Queries *)

Attributes == {KERNEL_VECTOR_TYPE_HINT, KERNEL_WORK_GROUP_SIZE, KERNEL_WORK_GROUP_SIZE_HINT}

\* buildAttributeString, as the list of what it names.
buildAttributeString(metaData) ==
    LET shown == Selected(metaData, {n \in 1..Len(metaData) : getType(metaData[n]) \in Attributes}) IN
    [n \in 1..Len(shown) |-> [type |-> getType(shown[n]), value |-> getValue(shown[n])]]

getInfo(k) ==
    LET info == kernel[k].info IN
    [FUNCTION_NAME |-> info.name, NUM_ARGS |-> Len(info.parameters),
     ATTRIBUTES |-> buildAttributeString(info.metaData)]

SizeFromMetaData(list, type) ==
    LET found == findMetaData(list, type) IN IF found = {} THEN 0 ELSE getValue(list[FirstOf(found)])

getWorkGroupInfo(k) ==
    LET info == kernel[k].info
        mergeFactor == IF info.mergeFactor = 0 THEN 1 ELSE info.mergeFactor
    IN  [WORK_GROUP_SIZE |-> NumQPUs * mergeFactor,
         COMPILE_WORK_GROUP_SIZE |-> info.workGroupSize,
         LOCAL_MEM_SIZE |-> SizeFromMetaData(info.metaData, KERNEL_LOCAL_MEMORY_SIZE),
         PREFERRED_WORK_GROUP_SIZE_MULTIPLE |-> mergeFactor,
         PRIVATE_MEM_SIZE |-> SizeFromMetaData(info.metaData, KERNEL_PRIVATE_MEMORY_SIZE)]

\* OpenCL has no name for the generic address space.
AddressQualifier(space) == IF space \in {"CONSTANT", "GLOBAL", "LOCAL"} THEN space ELSE "PRIVATE"

getArgInfo(k, i) ==
    LET p == Parameters(k)[i] IN
    [ADDRESS_QUALIFIER |-> AddressQualifier(p.addressSpace), ACCESS_QUALIFIER |-> "NONE",
     TYPE_NAME |-> p.typeName, TYPE_QUALIFIER |-> p.flags \cap {"Constant", "Restricted", "Volatile"},
     NAME |-> p.name]

---------------------------------------------------------------------------------
(* The compiler, and the whole *)

Instructions(k) == [n \in 1..k.length |-> [instruction |-> n, kernel |-> k.name]]

\* The header of a kernel, with the metadata in its binary form.
Packed(k, offset) ==
    [offset |-> offset, length |-> k.length, workGroupSize |-> k.workGroupSize,
     mergeFactor |-> k.mergeFactor, uniformsUsed |-> k.uniformsUsed, name |-> k.name,
     parameters |-> k.parameters,
     metaData |-> [n \in 1..Len(k.metaData) |-> setValue(k.metaData[n].type, k.metaData[n].value)]]

HeadersAt(m, offsets) ==
    [kernels |-> [k \in 1..Len(m.kernels) |-> Packed(m.kernels[k], offsets[k])],
     globalData |-> m.globalData, stackWords |-> m.stackWords]

\* The code lies after everything else.
Headers(m) ==
    LET start == Len(writeModule(HeadersAt(m, [k \in 1..Len(m.kernels) |-> 0])))
        Before(k) == Len(FlattenSeq([i \in 1..(k - 1) |-> Instructions(m.kernels[i])]))
    IN  HeadersAt(m, [k \in 1..Len(m.kernels) |-> start + Before(k)])

Code(m) == FlattenSeq([k \in 1..Len(m.kernels) |-> Instructions(m.kernels[k])])

Compiled(m) == writeModule(Headers(m)) \o Code(m)

\* What clCreateProgramWithBinary may be given of it: all, a part, something else.
Stored(m) ==
    {Compiled(m), <<StackWord>> \o Tail(Compiled(m))}
        \cup {SubSeq(Compiled(m), 1, n) : n \in {l \in Truncations : l < Len(Compiled(m))}}

Init ==
    /\ module \in Modules
    /\ binary \in Stored(module)
    /\ moduleInfo = NULL
    /\ globalData = <<>>
    /\ kernel = [k \in Kernels |-> NULL]
    /\ asked = [k \in Kernels |-> NULL]
    /\ queue = <<>>
    /\ device = NULL
    /\ calls = 0
    /\ result = NULL

Names == {module.kernels[n].name : n \in 1..Len(module.kernels)} \cup {<<>>}
Lists == {list \in UNION {[1..n -> Kernels] : n \in 1..Cardinality(Kernels)} :
             \A i, j \in DOMAIN list : i # j => list[i] # list[j]}

ArgIndices(k) == IF kernel[k] = NULL THEN {} ELSE 1..(Len(Parameters(k)) + 1)

Next ==
    \/ extractModuleInfo
    \/ \E k \in Kernels : \E name \in Names : clCreateKernel(k, name)
    \/ \E list \in Lists : clCreateKernelsInProgram(list)
    \/ \E k, source \in Kernels : clCloneKernel(k, source)
    \/ \E k \in Kernels : \E i \in ArgIndices(k) : clSetKernelArg(k, i)
    \/ \E k \in Kernels : \E n \in LocalSizes : clEnqueueNDRangeKernel(k, n)
    \/ \E k \in Kernels : clEnqueueTask(k)
    \/ executeKernel

Spec == Init /\ [][Next]_vars

---------------------------------------------------------------------------------
(* What the compiler and the application may give *)

\* A word of 32 bits.
IsWord(value) == value \in Nat /\ Shifted(Shifted(Shifted(value))) < 256

MetaDataGiven(type, value) ==
    /\ type \in Nat
    /\ IF type \in SizesTypes THEN value \in [1..3 -> Nat] /\ \A d \in 1..3 : IsWord(value[d])
       ELSE IF type \in TextTypes THEN value \in Seq(Nat) /\ Shifted(Len(value) + 3) < 256
       ELSE IsWord(value)

IsList(s) == Len(s) \in Nat /\ s = [n \in 1..Len(s) |-> s[n]]

\* Every value fits where it is written, names are unique, pointers and structs are no
\* vectors.
ModulesAssumption ==
    \A m \in Modules :
        /\ IsList(m.kernels) /\ IsModule(Headers(m)) /\ ModuleFits(Headers(m))
        /\ \A k, l \in 1..Len(m.kernels) : m.kernels[k].name = m.kernels[l].name => k = l
        /\ \A k \in 1..Len(m.kernels) :
              /\ IsList(m.kernels[k].metaData)
              /\ \A n \in 1..Len(m.kernels[k].metaData) :
                    LET d == m.kernels[k].metaData[n] IN
                    d = [type |-> d.type, value |-> d.value] /\ MetaDataGiven(d.type, d.value)
              /\ \A i \in 1..Len(m.kernels[k].parameters) :
                    LET p == m.kernels[k].parameters[i] IN
                    Is(p, "Pointer") \/ Is(p, "ByValue") => p.vectorElements = 1
ASSUME ModulesAssumption

\* A scalar or vector is as long as its elements, and those of 8 bytes are two words.
ScalarsAssumption ==
    \A a \in Scalars :
        /\ a.element \in {1, 2, 4, 8}
        /\ a.value \in Seq(IF a.element = 8 THEN [1..2 -> Int] ELSE Int)
        /\ a.size = a.element * Len(a.value)
        /\ a.element < 4 => \A n \in 1..Len(a.value) : a.value[n] \in 0..(Values(a.element) - 1)
ASSUME ScalarsAssumption

\* NULL is no struct, no temporary buffer and no result.
NullAssumption ==
    /\ NULL \notin {"CL_SUCCESS", "CL_INVALID_BINARY", "CL_INVALID_PROGRAM"}
    /\ \A a \in Structs : a.value # NULL
    /\ \A a \in Structs \cup Handles : \A c \in {a.value, "zero", "undefined"} :
          [size |-> a.size, contents |-> c] # NULL
ASSUME NullAssumption

\* Bound: a binary is cut before the end of what the reader of a kernel asks for first;
\* the texts after it are read without a check.
TruncationsAssumption == Truncations \subseteq 0..5
ASSUME TruncationsAssumption

---------------------------------------------------------------------------------
(* Properties *)

\* The kernel as it was given to the compiler.
Original(name) ==
    module.kernels[FirstOf({n \in 1..Len(module.kernels) : module.kernels[n].name = name})]

SizeGiven(metaData, type) ==
    LET given == {n \in 1..Len(metaData) : metaData[n].type = type} IN
    IF given = {} THEN 0 ELSE metaData[FirstOf(given)].value

\* What the queries for a kernel report (Kernel.cpp:311-422) is what the compiler wrote
\* into the binary: names of any length, sizes, qualifiers and metadata survive the
\* conversion to 64-bit words and back; only the generic address space is reported as
\* the private one.
ObservedAsCompiled ==
    \A k \in Kernels : kernel[k] # NULL =>
        LET c == Original(kernel[k].info.name)
            group == getWorkGroupInfo(k)
        IN
        /\ getInfo(k).NUM_ARGS = Len(c.parameters)
        /\ getInfo(k).ATTRIBUTES = Selected(c.metaData, {n \in 1..Len(c.metaData) : c.metaData[n].type \in Attributes})
        /\ group.COMPILE_WORK_GROUP_SIZE = c.workGroupSize
        /\ group.LOCAL_MEM_SIZE = SizeGiven(c.metaData, KERNEL_LOCAL_MEMORY_SIZE)
        /\ group.PRIVATE_MEM_SIZE = SizeGiven(c.metaData, KERNEL_PRIVATE_MEMORY_SIZE)
        /\ group.WORK_GROUP_SIZE = NumQPUs * group.PREFERRED_WORK_GROUP_SIZE_MULTIPLE
        /\ \A i \in DOMAIN c.parameters :
              /\ getArgInfo(k, i).NAME = c.parameters[i].name
              /\ getArgInfo(k, i).TYPE_NAME = c.parameters[i].typeName
              /\ getArgInfo(k, i).ADDRESS_QUALIFIER
                    = IF c.parameters[i].addressSpace = "GENERIC" THEN "PRIVATE"
                      ELSE c.parameters[i].addressSpace
              /\ getArgInfo(k, i).TYPE_QUALIFIER
                    = c.parameters[i].flags \cap {"Constant", "Restricted", "Volatile"}

\* A number as its declared type reads it, in 32-bit words.
Number(p, element, bytes) ==
    IF bytes = 8 THEN element
    ELSE IF /\ bytes < 4 /\ Is(p, "Signed") /\ ~Is(p, "FloatingType")
            /\ element \in (Values(bytes) \div 2)..(Values(bytes) - 1)
    THEN <<element - Values(bytes)>>
    ELSE <<element>>

\* The words a kernel compiled with parameter p has to find for what was asked.
Wanted(p, i, a) ==
    IF ~Is(p, "Pointer") /\ ~Is(p, "ByValue")
    THEN LET words == FlattenSeq([n \in 1..p.vectorElements |-> Number(p, a.value[n], a.element)]) IN
         [n \in 1..Len(words) |-> Value(words[n])]
    ELSE IF Is(p, "ByValue") \/ p.addressSpace = "LOCAL"
    THEN IF Is(p, "Lowered") THEN <<Value(0)>> ELSE <<[tmpBuffer |-> i]>>
    ELSE <<Value(IF a.value = NULL THEN 0 ELSE Buffers[a.value].address)>>

\* A temporary buffer holds the struct that was passed, or, where the context asked for
\* it, zeros.
TemporaryHolds(x, p, i, a) ==
    (i \in DOMAIN x.tmpBuffers /\ x.tmpBuffers[i] # NULL) =>
        /\ x.tmpBuffers[i].size = a.size
        /\ Is(p, "ByValue") => x.tmpBuffers[i].contents = a.value
        /\ ~Is(p, "ByValue") /\ module.zeroLocal => x.tmpBuffers[i].contents = "zero"

WordsAt(at, n) ==
    [i \in 1..n |-> IF at + i <= Len(device.words) THEN device.words[at + i] ELSE [info |-> "beyond"]]

\* What a QPU finds from `at` on is the values of the work-item, then the arguments.
FindsArguments(x, qpu, at) ==
    LET c == Original(x.info.name)
        before == set_work_item_info(c, qpu)
        words == FlattenSeq([i \in 1..Len(c.parameters) |-> Wanted(c.parameters[i], i, x.asked[i])])
    IN  WordsAt(at, Len(before) + Len(words)) = before \o words

MessageOf(block, qpu) == device.messages[block] + 2 * (qpu - 1)
UniformsOf(block, qpu) == WordsAt(MessageOf(block, qpu), 1)[1].address
CodeOf(block, qpu) == WordsAt(MessageOf(block, qpu) + 1, 1)[1].address

\* Scalars and vectors of 64-bit elements, of three elements too.
LongScalars(c) ==
    \E i \in DOMAIN c.parameters :
        LET p == c.parameters[i] IN
        ~Is(p, "Pointer") /\ ~Is(p, "ByValue") /\ ElementSize(p, p.size) = 8

\* Every QPU started by a launch message, of either block, finds the code it was
\* compiled to and the arguments the application had set when it enqueued the kernel
\* (Kernel.cpp:648-655), whatever it has set since, cloned or truncated to 32 bits.  Of
\* a kernel with 64-bit scalars only the first QPU does (MessagesPointToUniforms).
ArgumentsArrive ==
    device # NULL =>
        LET x == device.execution
            c == Original(x.info.name)
        IN
        /\ \A i \in DOMAIN c.parameters : TemporaryHolds(x, c.parameters[i], i, x.asked[i])
        /\ \A block \in 1..2 : \A qpu \in 1..x.numQPUs :
              /\ WordsAt(CodeOf(block, qpu), 2 * c.length)
                    = Halves(Instructions(c))
              /\ (qpu = 1 \/ ~LongScalars(c)) => FindsArguments(x, qpu, UniformsOf(block, qpu))

\* What executeKernel writes (executor.cpp:278-435) fits into the buffer it allocated with
\* get_size (executor.cpp:42-54, 269-271), for kernels with as many hidden parameters as
\* MAX_HIDDEN_PARAMETERS allows for and without 64-bit scalars.
BufferHolds ==
    device # NULL =>
        LET x == device.execution IN
        (/\ Cardinality(x.info.uniformsUsed) <= MAX_HIDDEN_PARAMETERS
         /\ ~LongScalars(Original(x.info.name)))
            => 4 * Len(device.words) <= device.size

\* Documented (executor.cpp:377: "for 64-bit integer we need 2 UNIFORMs for every vector
\* element"): the launch messages point every QPU to the UNIFORMs set up for it.
MessagesPointToUniforms ==
    device # NULL =>
        \A block \in 1..2 : \A qpu \in 1..device.execution.numQPUs :
            UniformsOf(block, qpu) = device.uniformPointers[block][qpu]

================================================================================
