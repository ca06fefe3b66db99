--------------------------------- MODULE Buffers ---------------------------------
(***************************************************************************)
(* Buffers, sub-buffers and the commands that move their bytes (Buffer.cpp) *)
(* on a flat memory: the device memory of each buffer and the application's *)
(* arrays are ranges of addresses.  A command is checked when it is         *)
(* enqueued and executed later.  What the lists of mappings are for is in   *)
(* BufferMapping; here mappings are pointers to bytes.                      *)
(*                                                                          *)
(* A size or an address is far below the limit of size_t.                   *)
(***************************************************************************)
EXTENDS BufferFlags, Sequences, SequencesExt

CONSTANTS
    Mains,       \* buffers made by clCreateBuffer
    Subs,        \* sub-buffers
    DeviceAt,    \* where the device memory of each of the Mains begins
    GPUMemory,   \* size of the largest buffer
    Alignment,   \* device_config::BUFFER_ALIGNMENT
    Addresses,   \* all of the memory
    Creations,   \* arguments the application gives to clCreateBuffer,
    Regions,     \* to clCreateSubBuffer
    Transfers,   \* to the commands it enqueues
    Rectangles,  \* and to copies and rectangles
    MaxMoves     \* bound on the commands that are not unmaps

\* Device memory is allocated apart for every buffer; sizes and addresses are numbers.
ASSUME BuffersAssumption ==
    /\ NULL \notin Int /\ NULL \notin Mains \cup Subs /\ Mains \cap Subs = {}
    /\ DeviceAt \in [Mains -> Nat]
    /\ \A b, c \in Mains : DeviceAt[b] = DeviceAt[c] => b = c
    /\ \A b \in Mains : \A c \in Creations[b] : c.host = NULL \/ c.host \in Nat
    /\ \A s \in Subs : \A r \in Regions[s] : r.origin \in Nat
    /\ \A t \in Transfers \cup Rectangles : t.buffer \in Mains \cup Subs

\* A mapping is for reading, for writing or for both.
ASSUME MapFlagsAssumption ==
    \A t \in Transfers : t.op = "map" =>
        /\ t.flags \in SUBSET {"READ", "WRITE", "INVALIDATE"} /\ t.flags # {}
        /\ t.offset \in Nat

VARIABLES
    buffer,   \* the Buffer objects
    memory,   \* the value at each address
    command,  \* the enqueued command, with what the application asked for
    mapped,   \* the mappings the application has
    moves,    \* number of commands that are not unmaps
    result    \* outcome of the last call

bufferVars == <<buffer, memory, command, mapped, moves, result>>

Handles == Mains \cup Subs

-----------------------------------------------------------------------------
(* Creating buffers *)

CreateRefusal(flags, size, host) ==
    IF MoreThanOne(flags, MemoryAccess) \/ MoreThanOne(flags, HostAccess) THEN "CL_INVALID_VALUE"
    ELSE IF size \notin 1..GPUMemory THEN "CL_INVALID_BUFFER_SIZE"
    ELSE IF (host = NULL) # (flags \cap {"USE_HOST_PTR", "COPY_HOST_PTR"} = {})
         THEN "CL_INVALID_HOST_PTR"
    ELSE "CL_SUCCESS"

clCreateBuffer(b, flags, size, host) ==
    /\ buffer[b] = NULL
    /\ result' = CreateRefusal(flags, size, host)
    /\ \/ /\ result' # "CL_SUCCESS"
          /\ UNCHANGED <<buffer, memory>>
       \/ /\ result' = "CL_SUCCESS"
          /\ buffer' = [buffer EXCEPT ![b] =
                 [NewBuffer(flags) EXCEPT
                      !.deviceBuffer = DeviceAt[b],
                      !.hostSize = size,
                      !.hostPtr = IF "USE_HOST_PTR" \in flags THEN host
                                  ELSE IF "ALLOC_HOST_PTR" \in flags THEN DeviceAt[b] ELSE NULL]]
          /\ memory' = IF host = NULL THEN memory ELSE Move(memory, DeviceAt[b], host, size)
    /\ UNCHANGED <<command, mapped, moves>>

SubBufferRefusal(p, flags, origin, size) ==
    IF p.parent # NULL THEN "CL_INVALID_MEM_OBJECT"
    ELSE IF \/ ~p.readable /\ flags \cap {"READ_WRITE", "READ_ONLY"} # {}
            \/ ~p.writeable /\ flags \cap {"READ_WRITE", "WRITE_ONLY"} # {}
            \/ flags \cap HostPointer # {}
            \/ ~p.hostReadable /\ "HOST_READ_ONLY" \in flags
            \/ ~p.hostWriteable /\ "HOST_WRITE_ONLY" \in flags
         THEN "CL_INVALID_VALUE"
    ELSE IF size = 0 THEN "CL_INVALID_BUFFER_SIZE"
    ELSE IF p.hostPtr # NULL /\ origin + size > p.hostSize THEN "CL_INVALID_VALUE"
    ELSE IF origin % Alignment # 0 THEN "CL_MISALIGNED_SUB_BUFFER_OFFSET"
    ELSE "CL_SUCCESS"

\* Mutant: the host's rights are not taken from the parent.
Inherited_NotHost(sub, p, flags) ==
    LET default == flags \cap MemoryAccess = {} IN
    [sub EXCEPT !.readable = IF default THEN p.readable ELSE @,
                !.writeable = IF default THEN p.writeable ELSE @]

\* What a sub-buffer takes from its parent when the flags do not say otherwise.
Inherited(sub, p, flags) ==
    LET default == flags \cap MemoryAccess = {}
        hostDefault == flags \cap HostAccess = {}
    IN  [sub EXCEPT !.readable = IF default THEN p.readable ELSE @,
                    !.writeable = IF default THEN p.writeable ELSE @,
                    !.hostReadable = IF hostDefault THEN p.hostReadable ELSE @,
                    !.hostWriteable = IF hostDefault THEN p.hostWriteable ELSE @]

SubHostPtr(p, origin) == IF p.hostPtr = NULL THEN NULL ELSE p.hostPtr + origin

createSubBuffer(s, b, flags, origin, size) ==
    LET p == buffer[b] IN
    /\ buffer[s] = NULL /\ p # NULL
    /\ result' = SubBufferRefusal(p, flags, origin, size)
    /\ buffer' = IF result' # "CL_SUCCESS" THEN buffer
                 ELSE [buffer EXCEPT ![s] =
                     [Inherited(NewBuffer(flags), p, flags) EXCEPT
                          !.parent = b,
                          !.useHostPtr = p.useHostPtr,
                          !.allocHostPtr = p.allocHostPtr,
                          !.copyHostPtr = p.copyHostPtr,
                          !.hostPtr = SubHostPtr(p, origin),
                          !.hostSize = size,
                          !.subBufferOffset = origin,
                          !.deviceBuffer = p.deviceBuffer]]
    /\ UNCHANGED <<memory, command, mapped, moves>>

DevicePointer(b) == DeviceStart(buffer[b])

-----------------------------------------------------------------------------
(* Enqueueing commands *)

\* A place a rectangle starts at: a pointer, an origin and two pitches.
Side(base, origin, row, slice) ==
    [base |-> base, origin |-> origin, row |-> row, slice |-> slice]

calculate_offset(origin, row, slice) == origin[3] * slice + origin[2] * row + origin[1]
calculate_size_bounds(region) == region[1] * region[2] * region[3]
Start(side) == side.base + calculate_offset(side.origin, side.row, side.slice)

Linear(base, offset) == Side(base, <<offset, 0, 0>>, 0, 0)

Enqueue(refusal, c) ==
    /\ command = NULL
    /\ result' = refusal
    /\ command' = IF refusal = "CL_SUCCESS" THEN c ELSE NULL

MoveCommand(type, dst, src, region, t) ==
    [type |-> type, dst |-> dst, src |-> src, region |-> region, asked |-> t]

OutOfRange(b, offset, size) == size = 0 \/ offset + size > buffer[b].hostSize

\* enqueueRead and enqueueWrite.
enqueueAccess(t) ==
    LET b == t.buffer
        device == Linear(DevicePointer(b), t.offset)
        host == Linear(t.ptr, 0)
        write == t.op = "write"
        right == IF write THEN buffer[b].hostWriteable ELSE buffer[b].hostReadable
    IN  Enqueue(IF OutOfRange(b, t.offset, t.size) \/ t.ptr = NULL THEN "CL_INVALID_VALUE"
                ELSE IF ~right THEN "CL_INVALID_OPERATION" ELSE "CL_SUCCESS",
                IF write THEN MoveCommand("access", device, host, <<t.size, 1, 1>>, t)
                ELSE MoveCommand("access", host, device, <<t.size, 1, 1>>, t))

\* enqueueReadRect and enqueueWriteRect: the pitches are taken as they are.
enqueueRect(t) ==
    LET b == t.buffer
        device == Side(DevicePointer(b), t.origin, t.row, t.slice)
        host == Side(t.ptr, t.hostOrigin, t.hostRow, t.hostSlice)
        offset == calculate_offset(t.origin, t.row, t.slice)
        write == t.op = "writeRect"
        right == IF write THEN buffer[b].hostWriteable ELSE buffer[b].hostReadable
    IN  Enqueue(IF OutOfRange(b, offset, calculate_size_bounds(t.region)) \/ t.ptr = NULL
                THEN "CL_INVALID_VALUE"
                ELSE IF ~right THEN "CL_INVALID_OPERATION" ELSE "CL_SUCCESS",
                IF write THEN MoveCommand("rect", device, host, t.region, t)
                ELSE MoveCommand("rect", host, device, t.region, t))

SameParent(s, d) == buffer[s].parent # NULL /\ buffer[s].parent = buffer[d].parent

enqueueCopyInto(t) ==
    LET src == Linear(DevicePointer(t.buffer), t.offset)
        dst == Linear(DevicePointer(t.into), t.intoOffset)
        apart == Start(src) > Start(dst) + t.size - 1 \/ Start(dst) > Start(src) + t.size - 1
    IN  Enqueue(IF OutOfRange(t.buffer, t.offset, t.size) \/ OutOfRange(t.into, t.intoOffset, t.size)
                THEN "CL_INVALID_VALUE"
                ELSE IF (t.buffer = t.into \/ SameParent(t.buffer, t.into)) /\ ~apart
                THEN "CL_MEM_COPY_OVERLAP" ELSE "CL_SUCCESS",
                MoveCommand("copy", dst, src, <<t.size, 1, 1>>, t))

\* Mutant: only the boxes are compared, not the bytes that wrap around a row.
check_copy_overlap_Boxes(src, dst, region, row, slice) ==
    \A i \in 1..3 : src[i] < dst[i] + region[i] /\ src[i] + region[i] > dst[i]

\* By how much an extent reaches over the limit it should stay within.
Excess(from, n, limit) == IF from + n > limit THEN from + n - limit ELSE 0

check_copy_overlap(src, dst, region, row, slice) ==
    LET box == \A i \in 1..3 : src[i] < dst[i] + region[i] /\ src[i] + region[i] > dst[i]
        length == calculate_offset(region, row, slice)
        s == calculate_offset(src, row, slice)
        d == calculate_offset(dst, row, slice)
        linear == (s <= d /\ d < s + length) \/ (d <= s /\ s < d + length)
        \* one of them wraps around dimension i into the other
        wraps(i, limit) ==
            LET fromSrc == Excess(src[i], region[i], limit)
                fromDst == Excess(dst[i], region[i], limit)
            IN  (fromSrc > 0 /\ fromSrc > dst[i]) \/ (fromDst > 0 /\ fromDst > src[i])
    IN  \/ box
        \/ wraps(1, row) /\ linear
        \/ region[3] > 1 /\ wraps(2, slice \div row) /\ linear

\* The pitches a copy of rectangles uses when they are given as 0.
Row(row, region) == IF row = 0 THEN region[1] ELSE row
Slice(row, slice, region) == IF slice = 0 THEN region[2] * Row(row, region) ELSE slice

BadPitches(row, slice, region) ==
    \/ row < region[1]
    \/ slice < region[2] * row
    \/ slice % row # 0

\* The ranges are checked with the pitches as given.
enqueueCopyIntoRect(t) ==
    LET size == calculate_size_bounds(t.region)
        row == Row(t.row, t.region)
        slice == Slice(t.row, t.slice, t.region)
        intoRow == Row(t.intoRow, t.region)
        intoSlice == Slice(t.intoRow, t.intoSlice, t.region)
        same == t.buffer = t.into
    IN  Enqueue(IF \/ OutOfRange(t.buffer, calculate_offset(t.origin, t.row, t.slice), size)
                   \/ OutOfRange(t.into, calculate_offset(t.intoOrigin, t.intoRow, t.intoSlice), size)
                   \/ BadPitches(row, slice, t.region) \/ BadPitches(intoRow, intoSlice, t.region)
                   \/ same /\ (row # intoRow \/ slice # intoSlice)
                THEN "CL_INVALID_VALUE"
                ELSE IF same /\ check_copy_overlap(t.origin, t.intoOrigin, t.region, row, slice)
                THEN "CL_MEM_COPY_OVERLAP" ELSE "CL_SUCCESS",
                MoveCommand("copyRect", Side(DevicePointer(t.into), t.intoOrigin, intoRow, intoSlice),
                            Side(DevicePointer(t.buffer), t.origin, row, slice), t.region, t))

enqueueFill(t) ==
    LET b == t.buffer
        n == Len(t.pattern)
    IN  Enqueue(IF OutOfRange(b, t.offset, t.size) \/ n = 0 THEN "CL_INVALID_VALUE"
                ELSE IF t.offset % n # 0 THEN "CL_INVALID_VALUE"
                ELSE IF ~buffer[b].hostWriteable THEN "CL_INVALID_OPERATION" ELSE "CL_SUCCESS",
                [type |-> "fill", dst |-> DevicePointer(b) + t.offset, asked |-> t])

\* Mutant: the offset of a sub-buffer is forgotten.
MapPointer_NoOffset(b, offset) ==
    IF buffer[b].useHostPtr /\ buffer[b].hostPtr # NULL THEN buffer[b].hostPtr + offset
    ELSE buffer[b].deviceBuffer + offset

\* The pointer enqueueMap returns.
MapPointer(b, offset) ==
    IF buffer[b].useHostPtr /\ buffer[b].hostPtr # NULL THEN buffer[b].hostPtr + offset
    ELSE DevicePointer(b) + offset

enqueueMap(t) ==
    LET b == t.buffer
        refusal == IF OutOfRange(b, t.offset, t.size) THEN "CL_INVALID_VALUE"
                   ELSE IF \/ ~buffer[b].hostReadable /\ "READ" \in t.flags
                           \/ ~buffer[b].hostWriteable /\ t.flags \cap {"WRITE", "INVALIDATE"} # {}
                   THEN "CL_INVALID_OPERATION" ELSE "CL_SUCCESS"
        m == [buffer |-> b, pointer |-> MapPointer(b, t.offset), offset |-> t.offset, size |-> t.size,
              flags |-> t.flags]
    IN  /\ Enqueue(refusal, [type |-> "map", mapping |-> m, asked |-> t])
        /\ mapped' = IF refusal = "CL_SUCCESS" THEN mapped \cup {m} ELSE mapped

enqueueUnmap(m) ==
    /\ m \in mapped /\ command = NULL
    /\ command' = [type |-> "unmap", mapping |-> m, asked |-> NULL]
    /\ result' = "CL_SUCCESS"
    /\ UNCHANGED <<buffer, memory, mapped, moves>>

\* Bound: MaxMoves commands and the unmaps; a rectangle is the only command of
\* its behaviour.
Counted(t) == IF t \in Rectangles THEN moves = 0 ELSE moves < MaxMoves

Asks(t, op) ==
    /\ t.op = op
    /\ buffer[t.buffer] # NULL
    /\ "into" \in DOMAIN t => buffer[t.into] # NULL
    /\ Counted(t)
    /\ moves' = IF t \in Rectangles THEN MaxMoves ELSE moves + 1
    /\ UNCHANGED <<buffer, memory>>

clEnqueueReadBuffer(t) == Asks(t, "read") /\ enqueueAccess(t) /\ UNCHANGED mapped
clEnqueueWriteBuffer(t) == Asks(t, "write") /\ enqueueAccess(t) /\ UNCHANGED mapped
clEnqueueReadBufferRect(t) == Asks(t, "readRect") /\ enqueueRect(t) /\ UNCHANGED mapped
clEnqueueWriteBufferRect(t) == Asks(t, "writeRect") /\ enqueueRect(t) /\ UNCHANGED mapped
clEnqueueCopyBuffer(t) == Asks(t, "copy") /\ enqueueCopyInto(t) /\ UNCHANGED mapped
clEnqueueCopyBufferRect(t) == Asks(t, "copyRect") /\ enqueueCopyIntoRect(t) /\ UNCHANGED mapped
clEnqueueFillBuffer(t) == Asks(t, "fill") /\ enqueueFill(t) /\ UNCHANGED mapped
clEnqueueMapBuffer(t) == Asks(t, "map") /\ enqueueMap(t)
clEnqueueUnmapMemObject(m) == enqueueUnmap(m)

-----------------------------------------------------------------------------
(* Executing commands *)

\* The rows of a region in the order they are moved.
Rows(region) ==
    [i \in 1..(region[2] * region[3]) |-> <<(i - 1) % region[2], (i - 1) \div region[2]>>]

\* The loops of the rectangular commands, one memmove per row.
MoveRows(m, c) ==
    FoldLeft(LAMBDA acc, yz : Move(acc, Start(c.dst) + yz[1] * c.dst.row + yz[2] * c.dst.slice,
                                   Start(c.src) + yz[1] * c.src.row + yz[2] * c.src.slice, c.region[1]),
             m, Rows(c.region))

\* The pattern is written until the end is reached.
Fill(m, c) ==
    LET n == Len(c.asked.pattern)
        times == (c.asked.size + n - 1) \div n
    IN  [a \in DOMAIN m |-> IF a \in c.dst..(c.dst + times * n - 1)
                            THEN c.asked.pattern[((a - c.dst) % n) + 1] ELSE m[a]]

Executed(m, c) ==
    CASE c.type \in {"access", "rect", "copy", "copyRect"} -> MoveRows(m, c)
      [] c.type = "fill" -> Fill(m, c)
      [] c.type = "map" ->
             IF "INVALIDATE" \in c.mapping.flags THEN m ELSE CopyIntoHost(m, buffer[c.mapping.buffer])
      [] c.type = "unmap" ->
             IF c.mapping.flags = {"READ"} THEN m ELSE CopyFromHost(m, buffer[c.mapping.buffer])

execute ==
    /\ command # NULL
    /\ memory' = Executed(memory, command)
    /\ mapped' = IF command.type = "unmap" THEN mapped \ {command.mapping} ELSE mapped
    /\ command' = NULL
    /\ UNCHANGED <<buffer, moves, result>>

Written == 100  \* a value no byte has at the beginning

\* The application writes through the pointer of a mapping for writing.
WriteMapped(m) ==
    /\ m \in mapped /\ m.flags # {"READ"} /\ command = NULL
    /\ memory' = [memory EXCEPT ![m.pointer] = Written]
    /\ UNCHANGED <<buffer, command, mapped, moves, result>>

-----------------------------------------------------------------------------

BuffersInit ==
    /\ buffer = [b \in Handles |-> NULL]
    /\ memory = [a \in Addresses |-> a]
    /\ command = NULL
    /\ mapped = {}
    /\ moves = 0
    /\ result = "CL_SUCCESS"

\* Creating a buffer touches nothing a command uses: buffers are created first.
Create ==
    /\ command = NULL /\ moves = 0 /\ mapped = {}
    /\ \/ \E b \in Mains : \E c \in Creations[b] : clCreateBuffer(b, c.flags, c.size, c.host)
       \/ \E s \in Subs, b \in Handles : \E r \in Regions[s] :
              createSubBuffer(s, b, r.flags, r.origin, r.size)

BuffersNext ==
    \/ Create
    \/ \E t \in Transfers :
          \/ clEnqueueReadBuffer(t) \/ clEnqueueWriteBuffer(t)
          \/ clEnqueueFillBuffer(t) \/ clEnqueueMapBuffer(t)
    \/ \E t \in Rectangles :
          \/ clEnqueueReadBufferRect(t) \/ clEnqueueWriteBufferRect(t)
          \/ clEnqueueCopyBuffer(t) \/ clEnqueueCopyBufferRect(t)
    \/ \E m \in mapped : clEnqueueUnmapMemObject(m) \/ WriteMapped(m)
    \/ execute

BuffersSpec == BuffersInit /\ [][BuffersNext]_bufferVars

-----------------------------------------------------------------------------
(* Properties *)

Elements(region) == (0..(region[1] - 1)) \X (0..(region[2] - 1)) \X (0..(region[3] - 1))
At(side, e) == Start(side) + calculate_offset(e, side.row, side.slice)

\* All the elements of the region are moved at once.
MovedAtOnce(m, dst, src, region) ==
    [a \in DOMAIN m |->
        LET es == {e \in Elements(region) : At(dst, e) = a}
        IN  IF es = {} THEN m[a] ELSE m[At(src, CHOOSE e \in es : TRUE)]]

\* The two sides of a rectangle as the document describes them.
DeviceSide(t) ==
    CASE t.op \in {"read", "write", "copy"} -> Side(DevicePointer(t.buffer), <<t.offset, 0, 0>>, 0, 0)
      [] OTHER -> Side(DevicePointer(t.buffer), t.origin, Row(t.row, t.region),
                       Slice(t.row, t.slice, t.region))

OtherSide(t) ==
    CASE t.op \in {"read", "write"} -> Side(t.ptr, <<0, 0, 0>>, 0, 0)
      [] t.op = "copy" -> Side(DevicePointer(t.into), <<t.intoOffset, 0, 0>>, 0, 0)
      [] t.op = "copyRect" -> Side(DevicePointer(t.into), t.intoOrigin, Row(t.intoRow, t.region),
                                   Slice(t.intoRow, t.intoSlice, t.region))
      [] OTHER -> Side(t.ptr, t.hostOrigin, Row(t.hostRow, t.region),
                       Slice(t.hostRow, t.hostSlice, t.region))

AskedRegion(t) == IF "region" \in DOMAIN t THEN t.region ELSE <<t.size, 1, 1>>

WithinSlice(side, region) == side.origin[2] + region[2] <= side.slice \div side.row

\* Commands the document describes: the code accepts others, with pitches of 0 or
\* too small for rectangles of host memory, patterns that do not fill the range,
\* overlapping rectangles of two sub-buffers, and flat ones that reach over the
\* end of a slice, where it does not see them overlap.
Regular(c) ==
    /\ c.type = "rect" =>
           /\ ~BadPitches(c.dst.row, c.dst.slice, c.region)
           /\ ~BadPitches(c.src.row, c.src.slice, c.region)
    /\ c.type = "fill" => c.asked.size % Len(c.asked.pattern) = 0
    /\ c.type = "copyRect" =>
           /\ c.asked.buffer = c.asked.into \/ ~SameParent(c.asked.buffer, c.asked.into)
           /\ c.region[3] = 1 => WithinSlice(c.src, c.region) /\ WithinSlice(c.dst, c.region)

\* A command of the application has exactly the effect that is documented for
\* it: although rows are moved one after the other, with overlaps refused by a
\* calculation, all bytes arrive as if they had been moved at once; mapping
\* shows the bytes of the buffer and unmapping puts them back.
EffectAsDocumented ==
    [][execute /\ Regular(command) =>
        LET t == command.asked
            m == command.mapping
            shown(mem) == \A i \in 0..(m.size - 1) :
                mem[m.pointer + i] = mem[DevicePointer(m.buffer) + m.offset + i]
        IN  CASE command.type = "fill" ->
                     memory' = [a \in Addresses |->
                         LET i == a - DevicePointer(t.buffer) - t.offset
                         IN  IF i \in 0..(t.size - 1) THEN t.pattern[(i % Len(t.pattern)) + 1]
                             ELSE memory[a]]
              [] command.type = "map" -> "INVALIDATE" \in m.flags \/ shown(memory')
              [] command.type = "unmap" -> m.flags = {"READ"} \/ shown(memory')
              [] t.op \in {"write", "writeRect"} ->
                     memory' = MovedAtOnce(memory, DeviceSide(t), OtherSide(t), AskedRegion(t))
              [] t.op \in {"read", "readRect"} ->
                     memory' = MovedAtOnce(memory, OtherSide(t), DeviceSide(t), AskedRegion(t))
              [] OTHER ->
                     memory' = MovedAtOnce(memory, OtherSide(t), DeviceSide(t), AskedRegion(t))
      ]_bufferVars

Whole(b) == IF buffer[b].parent = NULL THEN buffer[b] ELSE buffer[buffer[b].parent]

\* The host reads and writes a buffer only as the flags of the whole buffer
\* allow, also through its sub-buffers and through mappings.
HostRightsKept ==
    /\ command # NULL /\ command.type \in {"access", "rect", "fill"} =>
           LET whole == Whole(command.asked.buffer) IN
           IF command.asked.op \in {"read", "readRect"} THEN whole.hostReadable
           ELSE whole.hostWriteable
    /\ \A m \in mapped :
           /\ "READ" \in m.flags => Whole(m.buffer).hostReadable
           /\ "READ" \notin m.flags => Whole(m.buffer).hostWriteable

\* Mappings that share bytes of a buffer, directly or through its sub-buffers,
\* share the memory they point to.
MappedPointersAgree ==
    \A m, n \in mapped :
        buffer[m.buffer].deviceBuffer = buffer[n.buffer].deviceBuffer =>
            m.pointer - DevicePointer(m.buffer) - m.offset
                = n.pointer - DevicePointer(n.buffer) - n.offset

================================================================================
