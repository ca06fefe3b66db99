------------------------------ MODULE ModuleBinary ------------------------------
(***************************************************************************)
(* The binary a program is compiled to (shared/BinaryHeader), which the     *)
(* compiler writes and Program::extractModuleInfo reads: 64-bit words that  *)
(* hold bit fields, text or metadata.  A word of bit fields is a record of  *)
(* their values, every other word its eight bytes.  A text is the sequence  *)
(* of its characters.                                                       *)
(***************************************************************************)
EXTENDS Integers, SequencesExt

BitField(value, bits) == value % 2^bits

\* The first of some indices, as the searches of the code find it.
FirstOf(indices) == CHOOSE i \in indices : \A j \in indices : i <= j

\* The elements of a sequence at some indices, in their order.
Selected(list, indices) ==
    LET select[i \in 0..Len(list)] ==
            IF i = 0 THEN <<>>
            ELSE IF i \in indices THEN Append(select[i - 1], list[i]) ELSE select[i - 1]
    IN  select[Len(list)]

Word(data, index) == data[index + 1]
Enough(data, index, n) == index < Len(data) /\ Len(data) - index >= n

\* A word read as a bit field that is none has no meaning; 0 stands for it.
Entry(word, field) == IF field \in DOMAIN word THEN word[field] ELSE 0
Flags(word, field) == IF field \in DOMAIN word THEN word[field] ELSE {}
Sizes(word, field) == IF field \in DOMAIN word THEN word[field] ELSE <<0, 0, 0>>

ByteOf(data, n) ==
    LET k == n \div 8 IN
    IF k < Len(data) /\ "bytes" \in DOMAIN Word(data, k) THEN Word(data, k).bytes[(n % 8) + 1] ELSE 0

\* Mutant: the last, partly filled word is forgotten.
WordsFor_RoundsDown(n) == n \div 8

WordsFor(n) == (n + 7) \div 8

writeByteContainer(input) ==
    [w \in 1..((Len(input) + 7) \div 8) |->
        [bytes |-> [b \in 1..8 |->
            LET n == 8 * (w - 1) + b IN IF n <= Len(input) THEN input[n] ELSE 0]]]

\* What a reader returns: the item and the index after it, unless the data is too
\* short.
Read(item, next) == [item |-> item, next |-> next, short |-> FALSE]
TooShort(index) == [item |-> <<>>, next |-> index, short |-> TRUE]

readByteContainer(data, index, numBytes) ==
    Read([b \in 1..numBytes |-> ByteOf(data, 8 * index + b - 1)], index + WordsFor(numBytes))

\* The loops of fromBinaryData: n items one after the other, where the reader gives
\* for each index what is read there.
ReadAll(reader, index, n) ==
    LET read[i \in 0..n] ==
            IF i = 0 THEN Read(<<>>, index)
            ELSE LET all == read[i - 1]
                     one == reader[all.next]
                 IN  IF all.short THEN all
                     ELSE [item |-> Append(all.item, one.item), next |-> one.next, short |-> one.short]
    IN  read[n]

---------------------------------------------------------------------------------
(* Metadata: length, type and value as bytes *)

KERNEL_WORK_GROUP_SIZE == 0
KERNEL_WORK_GROUP_SIZE_HINT == 1
KERNEL_VECTOR_TYPE_HINT == 2
KERNEL_LOCAL_MEMORY_SIZE == 3
KERNEL_PRIVATE_MEMORY_SIZE == 4

SizesTypes == {KERNEL_WORK_GROUP_SIZE, KERNEL_WORK_GROUP_SIZE_HINT}
TextTypes == {KERNEL_VECTOR_TYPE_HINT}

Shifted(value) == value \div 256
LittleEndian(value) ==
    <<value % 256, Shifted(value) % 256, Shifted(Shifted(value)) % 256,
      Shifted(Shifted(Shifted(value))) % 256>>
FromLittleEndian(payload, at) ==
    payload[at] + 256 * (payload[at + 1] + 256 * (payload[at + 2] + 256 * payload[at + 3]))

setString(type, text) ==
    LET numBytes == Len(text) + 3 IN <<numBytes % 256, Shifted(numBytes) % 256, type>> \o text
setSizes(type, sizes) ==
    <<16, 0, type, 0>> \o LittleEndian(sizes[1]) \o LittleEndian(sizes[2]) \o LittleEndian(sizes[3])
setInt(type, value) == <<8, 0, type, 0>> \o LittleEndian(value)

setValue(type, value) ==
    IF type \in SizesTypes THEN setSizes(type, value)
    ELSE IF type \in TextTypes THEN setString(type, value)
    ELSE setInt(type, value)

getType(payload) == payload[3]
getString(payload) == SubSeq(payload, 4, payload[1] + 256 * payload[2])
getSizes(payload) == [d \in 1..3 |-> FromLittleEndian(payload, 4 * d + 1)]
getInt(payload) == FromLittleEndian(payload, 5)

getValue(payload) ==
    IF getType(payload) \in SizesTypes THEN getSizes(payload)
    ELSE IF getType(payload) \in TextTypes THEN getString(payload)
    ELSE getInt(payload)

\* Where the entries of a type are, of which findMetaData returns the first.
findMetaData(list, type) == {n \in 1..Len(list) : getType(list[n]) = type}

readMetaData(data, index) ==
    IF ~Enough(data, index, 1) THEN TooShort(index)
    ELSE readByteContainer(data, index, ByteOf(data, 8 * index) + 256 * ByteOf(data, 8 * index + 1))

---------------------------------------------------------------------------------
(* Parameters, kernels and modules *)

ParameterWord(p) ==
    [size |-> BitField(p.size, 13), vectorElements |-> BitField(p.vectorElements, 5),
     nameLength |-> BitField(Len(p.name), 12), typeNameLength |-> BitField(Len(p.typeName), 12),
     addressSpace |-> p.addressSpace, flags |-> p.flags]

writeParameter(p) ==
    <<ParameterWord(p)>> \o writeByteContainer(p.name) \o writeByteContainer(p.typeName)

readParameter(data, index) ==
    IF ~Enough(data, index, 2) THEN TooShort(index)
    ELSE LET w == Word(data, index)
             name == readByteContainer(data, index + 1, Entry(w, "nameLength"))
             typeName == readByteContainer(data, name.next, Entry(w, "typeNameLength"))
         IN  Read([size |-> Entry(w, "size"), vectorElements |-> Entry(w, "vectorElements"),
                   addressSpace |-> Entry(w, "addressSpace"), flags |-> Flags(w, "flags"),
                   name |-> name.item, typeName |-> typeName.item], typeName.next)

KernelWords(k) ==
    << [offset |-> BitField(k.offset, 24), length |-> BitField(k.length, 22),
        nameLength |-> BitField(Len(k.name), 10), paramCount |-> BitField(Len(k.parameters), 8)],
       [workGroupSize |-> [d \in 1..3 |-> BitField(k.workGroupSize[d], 16)],
        mergeFactor |-> BitField(k.mergeFactor, 8)],
       [uniformsUsed |-> k.uniformsUsed, metaDataCount |-> Len(k.metaData)] >>

writeKernel(k) ==
    KernelWords(k) \o writeByteContainer(k.name)
        \o FlattenSeq([p \in 1..Len(k.parameters) |-> writeParameter(k.parameters[p])])
        \o FlattenSeq([m \in 1..Len(k.metaData) |-> writeByteContainer(k.metaData[m])])

readKernel(data, index) ==
    IF ~Enough(data, index, 4) THEN TooShort(index)
    ELSE LET first == Word(data, index)
             second == Word(data, index + 1)
             third == Word(data, index + 2)
             name == readByteContainer(data, index + 3, Entry(first, "nameLength"))
             parameters == ReadAll([at \in Nat |-> readParameter(data, at)], name.next,
                                   Entry(first, "paramCount"))
             metaData == ReadAll([at \in Nat |-> readMetaData(data, at)], parameters.next,
                                 Entry(third, "metaDataCount"))
         IN  [item |-> [offset |-> Entry(first, "offset"), length |-> Entry(first, "length"),
                        workGroupSize |-> Sizes(second, "workGroupSize"),
                        mergeFactor |-> Entry(second, "mergeFactor"),
                        uniformsUsed |-> Flags(third, "uniformsUsed"), name |-> name.item,
                        parameters |-> parameters.item, metaData |-> metaData.item],
              next |-> metaData.next, short |-> parameters.short \/ metaData.short]

Delimiter == [delimiter |-> 0]
MagicNumber == [magic |-> "DEADBEAF"]
StackWord == [data |-> 0]

\* The global data segment ends with room for one stack frame.
KernelSegment(m) == FlattenSeq([k \in 1..Len(m.kernels) |-> writeKernel(m.kernels[k])])
DataSegment(m) == m.globalData \o [w \in 1..m.stackWords |-> StackWord]

ModuleWord(m) ==
    [kernelCount |-> BitField(Len(m.kernels), 10),
     globalDataOffset |-> BitField(Len(KernelSegment(m)) + 3, 16),
     globalDataSize |-> BitField(Len(DataSegment(m)), 20),
     stackFrameSize |-> BitField(m.stackWords, 16)]

writeModule(m) ==
    <<MagicNumber, ModuleWord(m)>> \o KernelSegment(m) \o <<Delimiter>> \o DataSegment(m) \o <<Delimiter>>

readModule(data) ==
    IF Len(data) < 2 THEN TooShort(0)
    ELSE LET w == Word(data, 1)
             kernels == ReadAll([at \in Nat |-> readKernel(data, at)], 2, Entry(w, "kernelCount"))
         IN  [item |-> [kernels |-> kernels.item, stackFrameSize |-> Entry(w, "stackFrameSize"),
                        globalDataOffset |-> Entry(w, "globalDataOffset"),
                        globalDataSize |-> Entry(w, "globalDataSize")],
              next |-> kernels.next, short |-> kernels.short]

---------------------------------------------------------------------------------
(* What the compiler may write: every value fits the bits it is written to *)

AddressSpaces == {"GENERIC", "PRIVATE", "GLOBAL", "CONSTANT", "LOCAL"}
ParameterFlags ==
    {"Input", "Output", "ZeroExtend", "SignExtend", "Constant", "Restricted", "Volatile",
     "ByValue", "Lowered", "Image", "Pointer", "FloatingType", "Signed", "Unsigned"}
ParameterHeaders ==
    [size : Nat, vectorElements : Nat \ {0}, addressSpace : AddressSpaces,
     flags : SUBSET ParameterFlags, name : Seq(Nat), typeName : Seq(Nat)]

ParameterFits(p) ==
    /\ BitField(p.size, 13) = p.size
    /\ BitField(p.vectorElements, 5) = p.vectorElements
    /\ BitField(Len(p.name), 12) = Len(p.name)
    /\ BitField(Len(p.typeName), 12) = Len(p.typeName)

\* The bits of KernelUniforms.
UniformNames ==
    {"WorkDimensions", "LocalSizes", "LocalIDs", "NumGroupsX", "NumGroupsY", "NumGroupsZ",
     "GroupIDX", "GroupIDY", "GroupIDZ", "GlobalOffsetX", "GlobalOffsetY", "GlobalOffsetZ",
     "GlobalDataAddress", "UniformAddress", "MaxGroupIDX", "MaxGroupIDY", "MaxGroupIDZ"}
KernelHeaders ==
    [offset : Nat, length : Nat, workGroupSize : [1..3 -> Nat], mergeFactor : Nat,
     uniformsUsed : SUBSET UniformNames, name : Seq(Nat), parameters : Seq(ParameterHeaders),
     metaData : Seq(Seq(Nat))]

\* The length of the metadata is in its first bytes.
MetaDataFits(payload) == Len(payload) >= 2 /\ payload[1] + 256 * payload[2] = Len(payload)

KernelFits(k) ==
    /\ BitField(k.offset, 24) = k.offset
    /\ BitField(k.length, 22) = k.length
    /\ BitField(Len(k.name), 10) = Len(k.name)
    /\ BitField(Len(k.parameters), 8) = Len(k.parameters)
    /\ \A d \in 1..3 : BitField(k.workGroupSize[d], 16) = k.workGroupSize[d]
    /\ BitField(k.mergeFactor, 8) = k.mergeFactor
    /\ \A i \in 1..Len(k.parameters) : ParameterFits(k.parameters[i])
    /\ \A i \in 1..Len(k.metaData) : MetaDataFits(k.metaData[i])

DataWords == [data : Nat]
IsModule(m) ==
    /\ m.kernels \in Seq(KernelHeaders)
    /\ m.globalData \in Seq(DataWords)
    /\ m.stackWords \in Nat

ModuleFits(m) ==
    /\ BitField(Len(m.kernels), 10) = Len(m.kernels)
    /\ BitField(Len(KernelSegment(m)) + 3, 16) = Len(KernelSegment(m)) + 3
    /\ BitField(Len(DataSegment(m)), 20) = Len(DataSegment(m))
    /\ BitField(m.stackWords, 16) = m.stackWords
    /\ \A k \in 1..Len(m.kernels) : KernelFits(m.kernels[k])

\* getExplicitUniformCount.
ExplicitUniformCount(k) ==
    LET count[i \in 0..Len(k.parameters)] ==
            IF i = 0 THEN 0 ELSE count[i - 1] + k.parameters[i].vectorElements
    IN  count[Len(k.parameters)]

================================================================================
