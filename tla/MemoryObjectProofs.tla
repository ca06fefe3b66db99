--------------------------- MODULE MemoryObjectProofs ---------------------------
(***************************************************************************)
(* Proofs about the memory objects: buffers with their sub-buffers, for any *)
(* number of them and any calls of the application (Buffers), and images of *)
(* any size in the layouts of their pixels (Images).                        *)
(***************************************************************************)
EXTENDS Buffers, Images, TLAPS

-----------------------------------------------------------------------------
(* Buffers *)

\* A buffer of clCreateBuffer: where its device memory begins, and its host memory.
MainIs(b) ==
    /\ buffer[b].parent = NULL
    /\ buffer[b].subBufferOffset = 0
    /\ buffer[b].deviceBuffer = DeviceAt[b]
    /\ buffer[b].hostPtr = NULL \/ buffer[b].hostPtr \in Nat

\* A sub-buffer is a part of a buffer of clCreateBuffer, in device and in host memory,
\* and has no rights the whole does not have.
SubIs(s) ==
    /\ buffer[s].parent \in Mains
    /\ buffer[buffer[s].parent] # NULL
    /\ buffer[s].subBufferOffset \in Nat
    /\ buffer[s].deviceBuffer = DeviceAt[buffer[s].parent]
    /\ buffer[s].useHostPtr <=> buffer[buffer[s].parent].useHostPtr
    /\ buffer[s].hostPtr = SubHostPtr(buffer[buffer[s].parent], buffer[s].subBufferOffset)
    /\ buffer[s].hostReadable => buffer[buffer[s].parent].hostReadable
    /\ buffer[s].hostWriteable => buffer[buffer[s].parent].hostWriteable

BufferObjects ==
    /\ buffer = [b \in Handles |-> buffer[b]]
    /\ \A b \in Mains : buffer[b] # NULL => MainIs(b)
    /\ \A s \in Subs : buffer[s] # NULL => SubIs(s)

\* What the checks of enqueueMap let through.
MappingAllowed(m) ==
    /\ m.buffer \in Handles /\ buffer[m.buffer] # NULL
    /\ m.offset \in Nat
    /\ m.pointer = MapPointer(m.buffer, m.offset)
    /\ "READ" \in m.flags => buffer[m.buffer].hostReadable
    /\ "READ" \notin m.flags => buffer[m.buffer].hostWriteable

\* And those of the other commands of the host.
CommandAllowed ==
    command # NULL /\ command.type \in {"access", "rect", "fill"} =>
        /\ command.asked.buffer \in Handles /\ buffer[command.asked.buffer] # NULL
        /\ IF command.asked.op \in {"read", "readRect"} THEN buffer[command.asked.buffer].hostReadable
           ELSE buffer[command.asked.buffer].hostWriteable

BufferInv == BufferObjects /\ CommandAllowed /\ \A m \in mapped : MappingAllowed(m)

\* What a buffer of clCreateBuffer is.
LEMMA CreatedMain ==
    ASSUME BufferObjects, NEW b \in Mains, NEW flags, NEW size, NEW host,
           host = NULL \/ host \in Nat, clCreateBuffer(b, flags, size, host)
    PROVE  BufferObjects'
<1> USE BuffersAssumption DEF Handles
<1>1. CASE result' # "CL_SUCCESS"
  <2>1. buffer' = buffer
    BY <1>1 DEF clCreateBuffer
  <2> QED  BY <2>1 DEF BufferObjects, MainIs, SubIs
<1>2. CASE result' = "CL_SUCCESS"
  <2> DEFINE new == [NewBuffer(flags) EXCEPT
                         !.deviceBuffer = DeviceAt[b],
                         !.hostSize = size,
                         !.hostPtr = IF "USE_HOST_PTR" \in flags THEN host
                                     ELSE IF "ALLOC_HOST_PTR" \in flags THEN DeviceAt[b] ELSE NULL]
  <2>1. buffer[b] = NULL /\ buffer' = [buffer EXCEPT ![b] = new]
    BY <1>2 DEF clCreateBuffer
  <2>2. /\ new.parent = NULL /\ new.subBufferOffset = 0 /\ new.deviceBuffer = DeviceAt[b]
        /\ new.hostPtr = NULL \/ new.hostPtr \in Nat
    BY DEF NewBuffer
  <2> HIDE DEF new
  <2>3. buffer'[b] = new /\ \A c \in Handles : c # b => buffer'[c] = buffer[c]
    BY <2>1 DEF BufferObjects
  <2>4. buffer' = [c \in Handles |-> buffer'[c]]
    BY <2>1 DEF BufferObjects
  <2>5. \A c \in Mains : buffer'[c] # NULL => MainIs(c)'
    BY <2>2, <2>3 DEF BufferObjects, MainIs
  <2>6. ASSUME NEW s \in Subs, buffer'[s] # NULL
        PROVE  SubIs(s)'
    <3>1. buffer'[s] = buffer[s] /\ SubIs(s)
      BY <2>3, <2>6 DEF BufferObjects
    <3>2. buffer[s].parent # b /\ buffer'[buffer[s].parent] = buffer[buffer[s].parent]
      BY <2>1, <2>3, <3>1 DEF SubIs
    <3> QED  BY <3>1, <3>2 DEF SubIs
  <2> QED  BY <2>4, <2>5, <2>6 DEF BufferObjects
<1> QED  BY <1>1, <1>2

\* A sub-buffer is not given a right of the host that its parent does not have.
LEMMA RightsInherited ==
    ASSUME NEW p, NEW flags, NEW origin, NEW size,
           SubBufferRefusal(p, flags, origin, size) = "CL_SUCCESS"
    PROVE  /\ p.parent = NULL
           /\ Inherited(NewBuffer(flags), p, flags).hostReadable => p.hostReadable
           /\ Inherited(NewBuffer(flags), p, flags).hostWriteable => p.hostWriteable
<1> DEFINE new == NewBuffer(flags)
<1>1. /\ p.parent = NULL
      /\ "HOST_READ_ONLY" \in flags => p.hostReadable
      /\ "HOST_WRITE_ONLY" \in flags => p.hostWriteable
  BY DEF SubBufferRefusal
<1>2. /\ new.hostReadable <=> flags \cap {"HOST_WRITE_ONLY", "HOST_NO_ACCESS"} = {}
      /\ new.hostWriteable <=> flags \cap {"HOST_READ_ONLY", "HOST_NO_ACCESS"} = {}
  BY DEF NewBuffer
<1>3. CASE flags \cap HostAccess = {}
  <2>1. /\ Inherited(new, p, flags).hostReadable = p.hostReadable
        /\ Inherited(new, p, flags).hostWriteable = p.hostWriteable
    BY <1>3 DEF Inherited, NewBuffer
  <2> QED  BY <1>1, <2>1
<1>4. CASE flags \cap HostAccess # {}
  <2>1. /\ Inherited(new, p, flags).hostReadable = new.hostReadable
        /\ Inherited(new, p, flags).hostWriteable = new.hostWriteable
    BY <1>4 DEF Inherited, NewBuffer
  <2> HIDE DEF new
  <2>2. new.hostReadable => "HOST_READ_ONLY" \in flags
    BY <1>2, <1>4 DEF HostAccess
  <2>3. new.hostWriteable => "HOST_WRITE_ONLY" \in flags
    BY <1>2, <1>4 DEF HostAccess
  <2> QED  BY <1>1, <2>1, <2>2, <2>3 DEF new
<1> QED  BY <1>3, <1>4

LEMMA CreatedSub ==
    ASSUME BufferObjects, NEW s \in Subs, NEW b \in Handles, NEW flags, NEW origin \in Nat, NEW size,
           createSubBuffer(s, b, flags, origin, size)
    PROVE  BufferObjects'
<1> USE BuffersAssumption DEF Handles
<1>1. CASE result' # "CL_SUCCESS"
  <2>1. buffer' = buffer
    BY <1>1 DEF createSubBuffer
  <2> QED  BY <2>1 DEF BufferObjects, MainIs, SubIs
<1>2. CASE result' = "CL_SUCCESS"
  <2> DEFINE p == buffer[b]
             base == Inherited(NewBuffer(flags), p, flags)
             new == [base EXCEPT
                          !.parent = b,
                          !.useHostPtr = p.useHostPtr,
                          !.allocHostPtr = p.allocHostPtr,
                          !.copyHostPtr = p.copyHostPtr,
                          !.hostPtr = SubHostPtr(p, origin),
                          !.hostSize = size,
                          !.subBufferOffset = origin,
                          !.deviceBuffer = p.deviceBuffer]
  <2>1. /\ buffer[s] = NULL /\ p # NULL
        /\ buffer' = [buffer EXCEPT ![s] = new]
        /\ SubBufferRefusal(p, flags, origin, size) = "CL_SUCCESS"
    BY <1>2 DEF createSubBuffer
  <2>2. p.parent = NULL
    BY <2>1, RightsInherited
  <2>3. b \in Mains /\ MainIs(b)
    BY <2>1, <2>2 DEF BufferObjects, SubIs
  <2>4. base.hostReadable => p.hostReadable
    BY <2>1, RightsInherited
  <2>5. base.hostWriteable => p.hostWriteable
    BY <2>1, RightsInherited
  <2>6. /\ new.parent = b /\ new.useHostPtr = p.useHostPtr /\ new.hostPtr = SubHostPtr(p, origin)
        /\ new.subBufferOffset = origin /\ new.deviceBuffer = p.deviceBuffer
        /\ new.hostReadable = base.hostReadable /\ new.hostWriteable = base.hostWriteable
    BY DEF Inherited, NewBuffer
  <2> HIDE DEF new, base
  <2>7. buffer'[s] = new /\ \A c \in Handles : c # s => buffer'[c] = buffer[c]
    BY <2>1 DEF BufferObjects
  <2>8. buffer' = [c \in Handles |-> buffer'[c]]
    BY <2>1 DEF BufferObjects
  <2>9. \A c \in Mains : buffer'[c] # NULL => MainIs(c)'
    BY <2>7 DEF BufferObjects, MainIs
  <2>10. SubIs(s)'
    <3>1. buffer'[s].parent = b /\ buffer'[b] = p
      BY <2>3, <2>6, <2>7
    <3>2. p.deviceBuffer = DeviceAt[b]
      BY <2>3 DEF MainIs
    <3>3. buffer'[s].hostPtr = SubHostPtr(buffer'[b], origin) /\ buffer'[s].subBufferOffset = origin
      BY <2>6, <2>7, <3>1
    <3>4. /\ buffer'[s].hostReadable => p.hostReadable
          /\ buffer'[s].hostWriteable => p.hostWriteable
      BY <2>4, <2>5, <2>6, <2>7
    <3> QED  BY <2>1, <2>3, <2>6, <2>7, <3>1, <3>2, <3>3, <3>4 DEF SubIs
  <2>11. \A c \in Subs : c # s /\ buffer'[c] # NULL => SubIs(c)'
    BY <2>1, <2>7 DEF BufferObjects, SubIs
  <2> QED  BY <2>8, <2>9, <2>10, <2>11 DEF BufferObjects
<1> QED  BY <1>1, <1>2

\* Creating an object leaves no command and no mapping to speak of.
LEMMA CreatePreserves ==
    ASSUME BufferInv, Create
    PROVE  BufferInv'
<1>1. command' = NULL /\ mapped' = {}
  BY DEF Create, clCreateBuffer, createSubBuffer
<1>2. BufferObjects'
  <2>1. CASE \E b \in Mains : \E c \in Creations[b] : clCreateBuffer(b, c.flags, c.size, c.host)
    <3>0. PICK b \in Mains : \E c \in Creations[b] : clCreateBuffer(b, c.flags, c.size, c.host)
      BY <2>1
    <3>1. PICK c \in Creations[b] : clCreateBuffer(b, c.flags, c.size, c.host)
      BY <3>0
    <3>2. c.host = NULL \/ c.host \in Nat
      BY BuffersAssumption
    <3> QED  BY <3>1, <3>2, CreatedMain DEF BufferInv
  <2>2. CASE \E s \in Subs, b \in Handles : \E r \in Regions[s] :
                 createSubBuffer(s, b, r.flags, r.origin, r.size)
    <3>0. PICK s \in Subs, b \in Handles : \E r \in Regions[s] :
                 createSubBuffer(s, b, r.flags, r.origin, r.size)
      BY <2>2
    <3>1. PICK r \in Regions[s] : createSubBuffer(s, b, r.flags, r.origin, r.size)
      BY <3>0
    <3>2. r.origin \in Nat
      BY BuffersAssumption
    <3> QED  BY <3>1, <3>2, CreatedSub DEF BufferInv
  <2> QED  BY <2>1, <2>2 DEF Create
<1> QED  BY <1>1, <1>2 DEF BufferInv, CommandAllowed

\* A step that changes neither the buffers nor the mappings keeps what is said of them.
LEMMA UnchangedBuffers ==
    ASSUME BufferInv, UNCHANGED <<buffer, mapped>>, CommandAllowed'
    PROVE  BufferInv'
<1>1. buffer' = buffer /\ mapped' = mapped
  OBVIOUS
<1>2. BufferObjects'
  BY <1>1 DEF BufferInv, BufferObjects, MainIs, SubIs
<1>3. \A m \in mapped' : MappingAllowed(m)'
  BY <1>1 DEF BufferInv, MappingAllowed, MapPointer, DevicePointer
<1> QED  BY <1>2, <1>3 DEF BufferInv

\* A command with another type is none of the host's.
LEMMA OtherCommand ==
    ASSUME command' = NULL \/ command'.type \notin {"access", "rect", "fill"}
    PROVE  CommandAllowed'
  BY DEF CommandAllowed

LEMMA AccessPreserves ==
    ASSUME BufferInv, NEW t \in Transfers, NEW op \in {"read", "write"}, Asks(t, op), enqueueAccess(t),
           UNCHANGED mapped
    PROVE  BufferInv'
<1>1. /\ buffer' = buffer /\ t.op = op /\ t.buffer \in Handles /\ buffer[t.buffer] # NULL
  BY BuffersAssumption DEF Asks, Handles
<1>2. CASE command' = NULL
  BY <1>1, <1>2, OtherCommand, UnchangedBuffers
<1>3. CASE command' # NULL
  <2>1. command'.asked = t
    BY <1>3 DEF enqueueAccess, Enqueue, MoveCommand
  <2>2. IF op = "write" THEN buffer[t.buffer].hostWriteable ELSE buffer[t.buffer].hostReadable
    BY <1>1, <1>3 DEF enqueueAccess, Enqueue
  <2>3. CommandAllowed'
    BY <1>1, <2>1, <2>2 DEF CommandAllowed
  <2> QED  BY <1>1, <2>3, UnchangedBuffers
<1> QED  BY <1>2, <1>3

LEMMA RectPreserves ==
    ASSUME BufferInv, NEW t \in Rectangles, NEW op \in {"readRect", "writeRect"}, Asks(t, op),
           enqueueRect(t), UNCHANGED mapped
    PROVE  BufferInv'
<1>1. /\ buffer' = buffer /\ t.op = op /\ t.buffer \in Handles /\ buffer[t.buffer] # NULL
  BY BuffersAssumption DEF Asks, Handles
<1>2. CASE command' = NULL
  BY <1>1, <1>2, OtherCommand, UnchangedBuffers
<1>3. CASE command' # NULL
  <2>1. command'.asked = t
    BY <1>3 DEF enqueueRect, Enqueue, MoveCommand
  <2>2. IF op = "writeRect" THEN buffer[t.buffer].hostWriteable ELSE buffer[t.buffer].hostReadable
    BY <1>1, <1>3 DEF enqueueRect, Enqueue
  <2>3. CommandAllowed'
    BY <1>1, <2>1, <2>2 DEF CommandAllowed
  <2> QED  BY <1>1, <2>3, UnchangedBuffers
<1> QED  BY <1>2, <1>3

\* A copy needs no right of the host.
LEMMA CopyPreserves ==
    ASSUME BufferInv, NEW t, NEW op, Asks(t, op), enqueueCopyInto(t) \/ enqueueCopyIntoRect(t),
           UNCHANGED mapped
    PROVE  BufferInv'
<1>1. buffer' = buffer
  BY DEF Asks
<1>2. command' = NULL \/ command'.type \in {"copy", "copyRect"}
  BY DEF enqueueCopyInto, enqueueCopyIntoRect, Enqueue, MoveCommand
<1> QED  BY <1>1, <1>2, OtherCommand, UnchangedBuffers

LEMMA FillPreserves ==
    ASSUME BufferInv, NEW t \in Transfers, Asks(t, "fill"), enqueueFill(t), UNCHANGED mapped
    PROVE  BufferInv'
<1>1. /\ buffer' = buffer /\ t.op = "fill" /\ t.buffer \in Handles /\ buffer[t.buffer] # NULL
  BY BuffersAssumption DEF Asks, Handles
<1>2. CASE command' = NULL
  BY <1>1, <1>2, OtherCommand, UnchangedBuffers
<1>3. CASE command' # NULL
  <2>1. command'.asked = t
    BY <1>3 DEF enqueueFill, Enqueue
  <2>2. buffer[t.buffer].hostWriteable
    BY <1>1, <1>3 DEF enqueueFill, Enqueue
  <2>3. CommandAllowed'
    BY <1>1, <2>1, <2>2 DEF CommandAllowed
  <2> QED  BY <1>1, <2>3, UnchangedBuffers
<1> QED  BY <1>2, <1>3

LEMMA MapPreserves ==
    ASSUME BufferInv, NEW t \in Transfers, Asks(t, "map"), enqueueMap(t)
    PROVE  BufferInv'
<1>1. /\ buffer' = buffer /\ t.op = "map" /\ t.buffer \in Handles /\ buffer[t.buffer] # NULL
  BY BuffersAssumption DEF Asks, Handles
<1>2. CASE mapped' = mapped /\ command' = NULL
  BY <1>1, <1>2, OtherCommand, UnchangedBuffers
<1>3. CASE ~(mapped' = mapped /\ command' = NULL)
  <2> DEFINE m == [buffer |-> t.buffer, pointer |-> MapPointer(t.buffer, t.offset), offset |-> t.offset,
                   size |-> t.size, flags |-> t.flags]
  <2>1. mapped' = mapped \cup {m} /\ command'.type = "map"
    BY <1>3 DEF enqueueMap, Enqueue
  <2>2. /\ "READ" \in t.flags => buffer[t.buffer].hostReadable
        /\ t.flags \cap {"WRITE", "INVALIDATE"} # {} => buffer[t.buffer].hostWriteable
    BY <1>3 DEF enqueueMap, Enqueue
  <2>3. /\ t.flags \in SUBSET {"READ", "WRITE", "INVALIDATE"} /\ t.flags # {} /\ t.offset \in Nat
    BY <1>1, MapFlagsAssumption
  <2>4. /\ m.buffer = t.buffer /\ m.offset = t.offset /\ m.flags = t.flags
        /\ m.pointer = MapPointer(t.buffer, t.offset)
    OBVIOUS
  <2> HIDE DEF m
  <2>5. "READ" \notin t.flags => t.flags \cap {"WRITE", "INVALIDATE"} # {}
    BY <2>3
  <2>6. MappingAllowed(m)
    BY <1>1, <2>2, <2>3, <2>4, <2>5 DEF MappingAllowed
  <2>7. \A n \in mapped' : MappingAllowed(n)'
    BY <1>1, <2>1, <2>6 DEF BufferInv, MappingAllowed, MapPointer, DevicePointer
  <2>8. BufferObjects'
    BY <1>1 DEF BufferInv, BufferObjects, MainIs, SubIs
  <2> QED  BY <2>1, <2>7, <2>8, OtherCommand DEF BufferInv
<1> QED  BY <1>2, <1>3

LEMMA ExecutePreserves ==
    ASSUME BufferInv, execute
    PROVE  BufferInv'
<1>1. buffer' = buffer /\ command' = NULL /\ mapped' \subseteq mapped
  BY DEF execute
<1>2. BufferObjects'
  BY <1>1 DEF BufferInv, BufferObjects, MainIs, SubIs
<1>3. \A n \in mapped' : MappingAllowed(n)'
  BY <1>1 DEF BufferInv, MappingAllowed, MapPointer, DevicePointer
<1> QED  BY <1>1, <1>2, <1>3, OtherCommand DEF BufferInv

LEMMA BufferInvariant == BuffersSpec => []BufferInv
<1>1. BuffersInit => BufferInv
  BY BuffersAssumption
     DEF BuffersInit, BufferInv, BufferObjects, CommandAllowed, Handles
<1>2. BufferInv /\ [BuffersNext]_bufferVars => BufferInv'
  <2> SUFFICES ASSUME BufferInv, [BuffersNext]_bufferVars
               PROVE  BufferInv'
    OBVIOUS
  <2>1. CASE Create
    BY <2>1, CreatePreserves
  <2>2. ASSUME NEW t \in Transfers, clEnqueueReadBuffer(t) \/ clEnqueueWriteBuffer(t)
        PROVE  BufferInv'
    BY <2>2, AccessPreserves DEF clEnqueueReadBuffer, clEnqueueWriteBuffer
  <2>3. ASSUME NEW t \in Transfers, clEnqueueFillBuffer(t)
        PROVE  BufferInv'
    BY <2>3, FillPreserves DEF clEnqueueFillBuffer
  <2>4. ASSUME NEW t \in Transfers, clEnqueueMapBuffer(t)
        PROVE  BufferInv'
    BY <2>4, MapPreserves DEF clEnqueueMapBuffer
  <2>5. ASSUME NEW t \in Rectangles, clEnqueueReadBufferRect(t) \/ clEnqueueWriteBufferRect(t)
        PROVE  BufferInv'
    BY <2>5, RectPreserves DEF clEnqueueReadBufferRect, clEnqueueWriteBufferRect
  <2>6. ASSUME NEW t \in Rectangles, clEnqueueCopyBuffer(t) \/ clEnqueueCopyBufferRect(t)
        PROVE  BufferInv'
    BY <2>6, CopyPreserves DEF clEnqueueCopyBuffer, clEnqueueCopyBufferRect
  <2>7. ASSUME NEW m \in mapped, clEnqueueUnmapMemObject(m)
        PROVE  BufferInv'
    <3>1. UNCHANGED <<buffer, mapped>> /\ command'.type = "unmap"
      BY <2>7 DEF clEnqueueUnmapMemObject, enqueueUnmap
    <3> QED  BY <3>1, OtherCommand, UnchangedBuffers
  <2>8. ASSUME UNCHANGED <<buffer, command, mapped>>
        PROVE  BufferInv'
    <3>1. CommandAllowed'
      BY <2>8 DEF BufferInv, CommandAllowed
    <3> QED  BY <2>8, <3>1, UnchangedBuffers
  <2>9. ASSUME NEW m \in mapped, WriteMapped(m)
        PROVE  BufferInv'
    BY <2>8, <2>9 DEF WriteMapped
  <2>10. CASE execute
    BY <2>10, ExecutePreserves
  <2>11. CASE UNCHANGED bufferVars
    BY <2>8, <2>11 DEF bufferVars
  <2> QED  BY <2>1, <2>2, <2>3, <2>4, <2>5, <2>6, <2>7, <2>9, <2>10, <2>11 DEF BuffersNext
<1> QED  BY <1>1, <1>2, PTL DEF BuffersSpec

\* The host never reads or writes bytes of a buffer that was created without the right
\* for it: not through a sub-buffer created with other flags, nor through a mapping
\* (Buffer.cpp, the checks of the enqueue... methods and of createSubBuffer), for any
\* buffers, sub-buffers and commands.
THEOREM HostRightsAreKept == BuffersSpec => []HostRightsKept
<1>1. BufferInv => HostRightsKept
  <2> SUFFICES ASSUME BufferInv
               PROVE  HostRightsKept
    OBVIOUS
  <2>1. ASSUME NEW b \in Handles, buffer[b] # NULL
        PROVE  /\ buffer[b].hostReadable => Whole(b).hostReadable
               /\ buffer[b].hostWriteable => Whole(b).hostWriteable
    <3>1. CASE b \in Mains
      BY <2>1, <3>1 DEF BufferInv, BufferObjects, MainIs, Whole
    <3>2. CASE b \in Subs
      <4>1. SubIs(b) /\ buffer[b].parent # NULL
        BY <2>1, <3>2, BuffersAssumption DEF BufferInv, BufferObjects, SubIs
      <4> QED  BY <4>1 DEF SubIs, Whole
    <3> QED  BY <3>1, <3>2 DEF Handles
  <2>2. command # NULL /\ command.type \in {"access", "rect", "fill"} =>
            IF command.asked.op \in {"read", "readRect"} THEN Whole(command.asked.buffer).hostReadable
            ELSE Whole(command.asked.buffer).hostWriteable
    BY <2>1 DEF BufferInv, CommandAllowed
  <2>3. \A m \in mapped :
            /\ "READ" \in m.flags => Whole(m.buffer).hostReadable
            /\ "READ" \notin m.flags => Whole(m.buffer).hostWriteable
    BY <2>1 DEF BufferInv, MappingAllowed
  <2> QED  BY <2>2, <2>3 DEF HostRightsKept
<1> QED  BY <1>1, BufferInvariant, PTL

\* How far the memory a mapping shows is from the device memory of its buffer.
LEMMA MappingDistance ==
    ASSUME BufferInv, NEW m \in mapped
    PROVE  \E b \in Mains :
               /\ buffer[m.buffer].deviceBuffer = DeviceAt[b]
               /\ m.pointer - DevicePointer(m.buffer) - m.offset =
                      IF buffer[b].useHostPtr /\ buffer[b].hostPtr # NULL
                      THEN buffer[b].hostPtr - DeviceAt[b] ELSE 0
<1>1. MappingAllowed(m)
  BY DEF BufferInv
<1>2. PICK b \in Handles : b = m.buffer /\ buffer[b] # NULL
  BY <1>1 DEF MappingAllowed
<1>3. PICK n \in Nat : n = m.offset
  BY <1>1 DEF MappingAllowed
<1>4. m.pointer = IF buffer[b].useHostPtr /\ buffer[b].hostPtr # NULL THEN buffer[b].hostPtr + n
                  ELSE buffer[b].deviceBuffer + buffer[b].subBufferOffset + n
  BY <1>1, <1>2, <1>3 DEF MappingAllowed, MapPointer, DevicePointer, DeviceStart
<1>5. CASE b \in Mains
  <2>1. MainIs(b) /\ DeviceAt[b] \in Nat
    BY <1>2, <1>5, BuffersAssumption DEF BufferInv, BufferObjects
  <2>2. /\ buffer[b].deviceBuffer = DeviceAt[b] /\ buffer[b].subBufferOffset = 0
        /\ buffer[b].hostPtr = NULL \/ buffer[b].hostPtr \in Nat
    BY <2>1 DEF MainIs
  <2>3. DevicePointer(m.buffer) = DeviceAt[b]
    BY <1>2, <2>1, <2>2 DEF DevicePointer, DeviceStart
  <2>4. m.pointer - DeviceAt[b] - n = IF buffer[b].useHostPtr /\ buffer[b].hostPtr # NULL
                                      THEN buffer[b].hostPtr - DeviceAt[b] ELSE 0
    BY <1>4, <2>1, <2>2
  <2> QED  BY <1>2, <1>3, <1>5, <2>2, <2>3, <2>4
<1>6. CASE b \in Subs
  <2>1. SubIs(b)
    BY <1>2, <1>6 DEF BufferInv, BufferObjects
  <2>2. PICK p \in Mains : p = buffer[b].parent
    BY <2>1 DEF SubIs
  <2>3. MainIs(p) /\ DeviceAt[p] \in Nat
    BY <2>1, <2>2, BuffersAssumption DEF BufferInv, BufferObjects, SubIs
  <2>4. PICK origin \in Nat : origin = buffer[b].subBufferOffset
    BY <2>1 DEF SubIs
  <2>5. /\ buffer[b].deviceBuffer = DeviceAt[p]
        /\ buffer[b].useHostPtr <=> buffer[p].useHostPtr
        /\ buffer[b].hostPtr = IF buffer[p].hostPtr = NULL THEN NULL ELSE buffer[p].hostPtr + origin
        /\ buffer[p].hostPtr = NULL \/ buffer[p].hostPtr \in Nat
    BY <2>1, <2>2, <2>3, <2>4 DEF SubIs, MainIs, SubHostPtr
  <2>6. buffer[b].hostPtr # NULL <=> buffer[p].hostPtr # NULL
    BY <2>5, BuffersAssumption
  <2>7. DevicePointer(m.buffer) = DeviceAt[p] + origin
    BY <1>2, <2>4, <2>5 DEF DevicePointer, DeviceStart
  <2>8. m.pointer - (DeviceAt[p] + origin) - n =
            IF buffer[p].useHostPtr /\ buffer[p].hostPtr # NULL
            THEN buffer[p].hostPtr - DeviceAt[p] ELSE 0
    <3>1. CASE buffer[p].useHostPtr /\ buffer[p].hostPtr # NULL
      <4>1. m.pointer = buffer[p].hostPtr + origin + n
        BY <1>4, <2>5, <2>6, <3>1
      <4> QED  BY <2>3, <2>5, <3>1, <4>1
    <3>2. CASE ~(buffer[p].useHostPtr /\ buffer[p].hostPtr # NULL)
      <4>1. m.pointer = DeviceAt[p] + origin + n
        BY <1>4, <2>4, <2>5, <2>6, <3>2
      <4> QED  BY <2>3, <3>2, <4>1
    <3> QED  BY <3>1, <3>2
  <2> QED  BY <1>2, <1>3, <2>5, <2>7, <2>8
<1> QED  BY <1>5, <1>6 DEF Handles

\* The pointers enqueueMap returns (Buffer.cpp:601) for overlapping parts of one buffer,
\* directly or through its sub-buffers, point to the same memory, for any buffers.
THEOREM PointersOfMappingsAgree == BuffersSpec => []MappedPointersAgree
<1>1. BufferInv => MappedPointersAgree
  <2> SUFFICES ASSUME BufferInv, NEW m \in mapped, NEW n \in mapped,
                      buffer[m.buffer].deviceBuffer = buffer[n.buffer].deviceBuffer
               PROVE  m.pointer - DevicePointer(m.buffer) - m.offset
                          = n.pointer - DevicePointer(n.buffer) - n.offset
    BY DEF MappedPointersAgree
  <2>1. PICK b \in Mains :
               /\ buffer[m.buffer].deviceBuffer = DeviceAt[b]
               /\ m.pointer - DevicePointer(m.buffer) - m.offset =
                      IF buffer[b].useHostPtr /\ buffer[b].hostPtr # NULL
                      THEN buffer[b].hostPtr - DeviceAt[b] ELSE 0
    BY MappingDistance
  <2>2. PICK c \in Mains :
               /\ buffer[n.buffer].deviceBuffer = DeviceAt[c]
               /\ n.pointer - DevicePointer(n.buffer) - n.offset =
                      IF buffer[c].useHostPtr /\ buffer[c].hostPtr # NULL
                      THEN buffer[c].hostPtr - DeviceAt[c] ELSE 0
    BY MappingDistance
  <2>3. b = c
    BY <2>1, <2>2, BuffersAssumption
  <2> QED  BY <2>1, <2>2, <2>3
<1> QED  BY <1>1, BufferInvariant, PTL

-----------------------------------------------------------------------------
(* The layouts of images *)

\* A new image has what was described, and nothing yet of its pitches.
LEMMA NewImageFields ==
    ASSUME NEW d
    PROVE  LET i == NewImage(d) IN
           /\ i.format = d.format /\ i.type = d.type /\ i.width = d.width /\ i.height = d.height
           /\ i.depth = d.depth /\ i.arraySize = d.arraySize
           /\ i.accessor \in {"raster", "LT", "T"}
           /\ i.accessor = "raster" <=> isRasterFormat(d.format)
<1> DEFINE flags == IF d.buffer # NULL THEN InheritedFlags(d.flags, d.buffer)
                    ELSE IF d.flags = {} THEN {"READ_WRITE"} ELSE d.flags
           i == [format |-> d.format, type |-> d.type, width |-> d.width, height |-> d.height,
                 depth |-> d.depth, arraySize |-> d.arraySize, rowPitch |-> 0, slicePitch |-> 0]
           accessor == [accessor |-> AccessorOf(i)]
           base == NewBuffer(flags)
           new == Joined(Joined(i, accessor), base)
<1>1. NewImage(d) = new
  BY DEF NewImage
<1>2. /\ DOMAIN i = {"format", "type", "width", "height", "depth", "arraySize", "rowPitch", "slicePitch"}
      /\ DOMAIN accessor = {"accessor"}
      /\ i.format = d.format /\ i.type = d.type /\ i.width = d.width /\ i.height = d.height
      /\ i.depth = d.depth /\ i.arraySize = d.arraySize
      /\ accessor.accessor = AccessorOf(i)
  OBVIOUS
<1> HIDE DEF i, accessor, base
<1>3. /\ new.format = i.format /\ new.type = i.type /\ new.width = i.width /\ new.height = i.height
      /\ new.depth = i.depth /\ new.arraySize = i.arraySize
      /\ new.accessor = accessor.accessor
  BY <1>2 DEF Joined
<1>4. /\ AccessorOf(i) \in {"raster", "LT", "T"}
      /\ AccessorOf(i) = "raster" <=> isRasterFormat(d.format)
  BY <1>2 DEF AccessorOf
<1> HIDE DEF new
<1> QED  BY <1>1, <1>2, <1>3, <1>4

\* Pitches of whole micro-tiles of 2 by 4 pixels of 8 bytes.
WholeTiles(row, slice) ==
    \E tiles, rows \in Nat : row = 16 * tiles /\ slice = rows * (64 * tiles)

\* What the creation of an image leaves: sizes, and in tiles pitches of whole tiles.
ImageIs(i) ==
    /\ i.type \in ImageTypes
    /\ i.width \in Nat /\ i.height \in Nat /\ i.depth \in Nat /\ i.arraySize \in Nat
    /\ i.rowPitch \in Nat /\ i.slicePitch \in Nat
    /\ i.accessor = "raster" => ElementSize(i) = 4
    /\ i.accessor = "LT" =>
           ElementSize(i) = 8 /\ WholeTiles(i.rowPitch, i.slicePitch)

ImageObjects ==
    /\ image = [h \in ImageHandles |-> image[h]]
    /\ \A h \in ImageHandles : image[h] # NULL => ImageIs(image[h])

\* Completing an image fills in its pitches and its memory.
LEMMA CompleteFields ==
    ASSUME NEW h, NEW d
    PROVE  LET new == NewImage(d)
               i == CompleteImage(h, new, d)
           IN  /\ i.format = d.format /\ i.type = d.type /\ i.width = d.width /\ i.height = d.height
               /\ i.depth = d.depth /\ i.arraySize = d.arraySize /\ i.accessor = new.accessor
               /\ i.rowPitch = RowPitch(new, d.row)
               /\ i.slicePitch = SlicePitch(new, d.row, d.slice)
<1> DEFINE new == NewImage(d)
           i == CompleteImage(h, new, d)
           fields == {"format", "type", "width", "height", "depth", "arraySize", "accessor", "rowPitch",
                      "slicePitch"}
           pitched == [new EXCEPT !.rowPitch = RowPitch(new, d.row),
                                  !.slicePitch = SlicePitch(new, d.row, d.slice)]
<1>1. fields \subseteq DOMAIN new
  BY DEF NewImage, Joined
<1>2. /\ new.format = d.format /\ new.type = d.type /\ new.width = d.width /\ new.height = d.height
      /\ new.depth = d.depth /\ new.arraySize = d.arraySize
  BY NewImageFields
<1> HIDE DEF new
<1>3. /\ DOMAIN pitched = DOMAIN new
      /\ pitched.format = new.format /\ pitched.type = new.type /\ pitched.width = new.width
      /\ pitched.height = new.height /\ pitched.depth = new.depth
      /\ pitched.arraySize = new.arraySize /\ pitched.accessor = new.accessor
      /\ pitched.rowPitch = RowPitch(new, d.row)
      /\ pitched.slicePitch = SlicePitch(new, d.row, d.slice)
  BY <1>1
<1> HIDE DEF pitched
<1>4. \A f \in fields : i[f] = pitched[f]
  BY <1>1, <1>3 DEF CompleteImage, pitched
<1>5. /\ i.format = pitched.format /\ i.type = pitched.type /\ i.width = pitched.width
      /\ i.height = pitched.height /\ i.depth = pitched.depth
      /\ i.arraySize = pitched.arraySize /\ i.accessor = pitched.accessor
      /\ i.rowPitch = pitched.rowPitch /\ i.slicePitch = pitched.slicePitch
  BY <1>4
<1> HIDE DEF i
<1> QED  BY <1>2, <1>3, <1>5 DEF new, i

LEMMA PixelDivision ==
    ASSUME NEW n \in Nat, NEW m \in Nat \ {0}
    PROVE  /\ n \div m \in Nat /\ n % m \in 0..(m - 1)
           /\ n = m * (n \div m) + (n % m)
<1>1. n \div m \in Int /\ n % m \in 0..(m - 1)
  OBVIOUS
<1>2. n = m * (n \div m) + (n % m)
  OBVIOUS
<1>3. n \div m >= 0
  BY <1>1, <1>2
<1> QED  BY <1>1, <1>2, <1>3

LEMMA ElementSizes ==
    ASSUME NEW i
    PROVE  /\ ElementSize(i) \in {4, 8, 16}
           /\ isRasterFormat(i.format) <=> ElementSize(i) = 4
  BY DEF ElementSize, isRasterFormat, BytesPerComponent

\* The pitches checkAndApplyPitches gives to an image in micro-tiles of 2 by 4 pixels.
LEMMA TiledPitches ==
    ASSUME NEW i, NEW row \in Nat, NEW slice \in Nat, i.width \in Nat, i.height \in Nat,
           i.accessor = "LT", ElementSize(i) = 8,
           PitchesFit(i, row, slice), ~DividesByZero(i, row, slice)
    PROVE  WholeTiles(RowPitch(i, row), SlicePitch(i, row, slice))
<1>1. Units(i) = <<16, 4>>
  BY DEF Units, Microtile
<1>2. PICK w \in Nat : w = i.width
  OBVIOUS
<1>3. PICK h \in Nat : h = i.height
  OBVIOUS
<1>4. /\ RowPitch(i, row) = IF row # 0 THEN row ELSE ((w * 8 + 15) \div 16) * 16
      /\ row % 16 = 0
  BY <1>1, <1>2 DEF RowPitch, roundUp, PitchesFit
<1>5. PICK tiles \in Nat : RowPitch(i, row) = 16 * tiles
  BY <1>4
<1>6. CASE slice = 0
  <2>1. SlicePitch(i, row, slice) = (((h + 3) \div 4) * 4) * (16 * tiles)
    BY <1>1, <1>3, <1>5, <1>6 DEF SlicePitch, roundUp
  <2>2. PICK rows \in Nat : rows = (h + 3) \div 4
    OBVIOUS
  <2>3. SlicePitch(i, row, slice) = (rows * 4) * (16 * tiles)
    BY <2>1, <2>2
  <2>4. (rows * 4) * (16 * tiles) = rows * (64 * tiles)
    OBVIOUS
  <2> QED  BY <1>5, <2>3, <2>4 DEF WholeTiles
<1>7. CASE slice # 0
  <2>1. SlicePitch(i, row, slice) = slice /\ 16 * tiles # 0
    BY <1>1, <1>5, <1>7 DEF SlicePitch, DividesByZero
  <2>2. slice % (4 * (16 * tiles)) = 0
    BY <1>1, <1>5, <1>7 DEF PitchesFit
  <2>3. PICK m \in Nat \ {0} : m = 64 * tiles /\ m = 4 * (16 * tiles)
    BY <2>1
  <2>4. slice % m = 0
    BY <2>2, <2>3
  <2>5. PICK rows \in Nat : rows = slice \div m
    BY PixelDivision
  <2>6. slice = m * rows
    BY <2>4, <2>5, PixelDivision
  <2>7. slice = rows * (64 * tiles)
    BY <2>3, <2>6
  <2> QED  BY <1>5, <2>1, <2>7 DEF WholeTiles
<1> QED  BY <1>6, <1>7

LEMMA ImageCreated ==
    ASSUME ImageObjects, NEW h \in ImageHandles, NEW d \in Descriptions[h], clCreateImage(h, d)
    PROVE  ImageObjects'
<1> DEFINE new == NewImage(d)
           i == CompleteImage(h, new, d)
<1>1. CASE image' = image
  BY <1>1 DEF ImageObjects
<1>2. CASE image' # image
  <2>1. /\ image' = [image EXCEPT ![h] = i]
        /\ ~(new.accessor = "LT" /\ ~MicroTiled(new))
        /\ ~DividesByZero(new, d.row, d.slice)
        /\ PitchesFit(new, d.row, d.slice)
        /\ DescriptionRefusal(d) = "CL_SUCCESS"
    BY <1>2 DEF clCreateImage, MemoryRefusal
  <2>2. /\ new.format = d.format /\ new.type = d.type /\ new.width = d.width /\ new.height = d.height
        /\ new.accessor \in {"raster", "LT", "T"}
        /\ new.accessor = "raster" <=> isRasterFormat(d.format)
    BY NewImageFields
  <2>3. /\ i.format = d.format /\ i.type = d.type /\ i.width = d.width /\ i.height = d.height
        /\ i.depth = d.depth /\ i.arraySize = d.arraySize /\ i.accessor = new.accessor
        /\ i.rowPitch = RowPitch(new, d.row)
        /\ i.slicePitch = SlicePitch(new, d.row, d.slice)
    BY CompleteFields
  <2>4. /\ d.width \in Nat /\ d.height \in Nat /\ d.depth \in Nat /\ d.arraySize \in Nat
        /\ d.row \in Nat /\ d.slice \in Nat
    BY ImagesAssumption
  <2> HIDE DEF new, i
  <2>5. ElementSize(i) = ElementSize(new)
    BY <2>2, <2>3 DEF ElementSize
  <2>6. new.width \in Nat /\ new.height \in Nat
    BY <2>2, <2>4
  <2>7. RowPitch(new, d.row) \in Nat /\ SlicePitch(new, d.row, d.slice) \in Nat
    <3>1. CASE new.accessor = "LT"
      <4>1. ElementSize(new) = 8
        BY <2>1, <2>2, <3>1, ElementSizes DEF MicroTiled
      <4>2. WholeTiles(RowPitch(new, d.row), SlicePitch(new, d.row, d.slice))
        BY <2>1, <2>4, <2>6, <3>1, <4>1, TiledPitches
      <4> QED  BY <4>2 DEF WholeTiles
    <3>2. CASE new.accessor # "LT"
      <4>1. PICK u \in {1, 64} : Units(new) = <<u, u>>
        BY <2>2, <3>2 DEF Units
      <4>2. PICK w \in Nat : w = new.width * ElementSize(new)
        BY <2>2, <2>4, ElementSizes
      <4>3. RowPitch(new, d.row) = IF d.row # 0 THEN d.row ELSE ((w + u - 1) \div u) * u
        BY <4>1, <4>2 DEF RowPitch, roundUp
      <4>4. PICK r \in Nat : r = RowPitch(new, d.row)
        BY <4>3, <2>4
      <4>5. PICK n \in Nat : n = ((new.height + u - 1) \div u) * u
        BY <2>2, <2>4
      <4>6. SlicePitch(new, d.row, d.slice) = IF d.slice # 0 THEN d.slice ELSE n * r
        BY <4>1, <4>4, <4>5 DEF SlicePitch, roundUp
      <4> QED  BY <2>4, <4>4, <4>6
    <3> QED  BY <3>1, <3>2
  <2>8. i.accessor = "raster" => ElementSize(i) = 4
    BY <2>2, <2>3, ElementSizes
  <2>9. ASSUME i.accessor = "LT"
        PROVE  ElementSize(i) = 8 /\ WholeTiles(i.rowPitch, i.slicePitch)
    <3>1. ElementSize(new) = 8
      BY <2>1, <2>2, <2>3, <2>9, ElementSizes DEF MicroTiled
    <3>2. WholeTiles(RowPitch(new, d.row), SlicePitch(new, d.row, d.slice))
      BY <2>1, <2>3, <2>4, <2>6, <2>9, <3>1, TiledPitches
    <3> QED  BY <2>3, <2>5, <3>1, <3>2
  <2>10. ImageIs(i)
    <3>1. d.type \in ImageTypes
      BY <2>1 DEF DescriptionRefusal
    <3> QED  BY <2>3, <3>1, <2>4, <2>7, <2>8, <2>9 DEF ImageIs
  <2>11. /\ image' = [g \in ImageHandles |-> image'[g]]
         /\ image'[h] = i /\ \A g \in ImageHandles : g # h => image'[g] = image[g]
    BY <2>1 DEF ImageObjects
  <2> QED  BY <2>10, <2>11 DEF ImageObjects
<1> QED  BY <1>1, <1>2

LEMMA ImageInvariant == ImagesSpec => []ImageObjects
<1>1. ImagesInit => ImageObjects
  BY DEF ImagesInit, ImageObjects
<1>2. ImageObjects /\ [ImagesNext]_imageVars => ImageObjects'
  <2> SUFFICES ASSUME ImageObjects, [ImagesNext]_imageVars
               PROVE  ImageObjects'
    OBVIOUS
  <2>1. ASSUME NEW h \in ImageHandles, NEW d \in Descriptions[h], clCreateImage(h, d)
        PROVE  ImageObjects'
    BY <2>1, ImageCreated
  <2>2. ASSUME UNCHANGED image
        PROVE  ImageObjects'
    BY <2>2 DEF ImageObjects
  <2>3. ASSUME NEW t \in ImageCommands,
               \/ clEnqueueReadImage(t) \/ clEnqueueWriteImage(t) \/ clEnqueueCopyImage(t)
               \/ clEnqueueFillImage(t) \/ clEnqueueCopyImageToBuffer(t)
               \/ clEnqueueCopyBufferToImage(t) \/ clEnqueueMapImage(t)
        PROVE  UNCHANGED image
    BY <2>3 DEF clEnqueueReadImage, clEnqueueWriteImage, clEnqueueCopyImage, clEnqueueFillImage,
                clEnqueueCopyImageToBuffer, clEnqueueCopyBufferToImage, clEnqueueMapImage, AsksImage
  <2>4. ASSUME NEW v \in views, enqueueImageUnmap(v) \/ WriteView(v)
        PROVE  UNCHANGED image
    BY <2>4 DEF enqueueImageUnmap, WriteView
  <2>5. CASE executeImage
    BY <2>2, <2>5 DEF executeImage
  <2>6. CASE UNCHANGED imageVars
    BY <2>2, <2>6 DEF imageVars
  <2> QED  BY <2>1, <2>2, <2>3, <2>4, <2>5, <2>6 DEF ImagesNext
<1> QED  BY <1>1, <1>2, PTL DEF ImagesSpec

\* Two pieces of e bytes that do not overlap.
Far(x, y, e) == x - y >= e \/ -(x - y) >= e

LEMMA Grows ==
    ASSUME NEW m \in Nat, NEW a \in Nat, NEW b \in Nat, a <= b
    PROVE  m * a \in Nat /\ m * b \in Nat /\ m * a <= m * b
  OBVIOUS

\* A row (a slice) begins m bytes after the one before it.
LEMMA OneMore ==
    ASSUME NEW m \in Nat, NEW a \in Nat
    PROVE  m * (a + 1) = m * a + m /\ m * a \in Nat
  OBVIOUS

\* Pieces at a and c of the rows b and d do not overlap if the rows have room for them.
LEMMA FarInRows ==
    ASSUME NEW m \in Nat, NEW e \in Nat, NEW a \in Nat, NEW c \in Nat, a + e <= m, c + e <= m,
           NEW b \in Nat, NEW d \in Nat, b = d => Far(a, c, e)
    PROVE  Far(a + m * b, c + m * d, e)
<1>1. PICK mb \in Nat : mb = m * b
  BY OneMore
<1>2. PICK md \in Nat : md = m * d
  BY OneMore
<1>3. CASE b = d
  BY <1>1, <1>2, <1>3 DEF Far
<1>4. CASE b < d
  <2>1. m * (b + 1) <= m * d /\ m * (b + 1) = m * b + m
    BY <1>4, Grows, OneMore
  <2>2. mb + m <= md
    BY <1>1, <1>2, <2>1
  <2>3. Far(a + mb, c + md, e)
    BY <2>2 DEF Far
  <2> QED  BY <1>1, <1>2, <2>3
<1>5. CASE d < b
  <2>1. m * (d + 1) <= m * b /\ m * (d + 1) = m * d + m
    BY <1>5, Grows, OneMore
  <2>2. md + m <= mb
    BY <1>1, <1>2, <2>1
  <2>3. Far(a + mb, c + md, e)
    BY <2>2 DEF Far
  <2> QED  BY <1>1, <1>2, <2>3
<1> QED  BY <1>3, <1>4, <1>5

\* The last byte of a piece in row b lies before the end of row b.
LEMMA WithinRows ==
    ASSUME NEW m \in Nat, NEW e \in Nat, NEW a \in Nat, a + e <= m, NEW b \in Nat, NEW n \in Nat, b < n
    PROVE  a + m * b \in Nat /\ a + m * b + e <= m * n
<1>1. m * (b + 1) <= m * n /\ m * (b + 1) = m * b + m /\ m * b \in Nat
  BY Grows, OneMore
<1> QED  BY <1>1

\* The coordinates of a pixel.
LEMMA PixelCoordinates ==
    ASSUME NEW i, NEW p \in PixelsOf(i), i.width \in Nat, Lines(i) \in Nat, Layers(i) \in Nat
    PROVE  /\ p[1] \in Nat /\ p[2] \in Nat /\ p[3] \in Nat
           /\ p[1] < i.width /\ p[2] < Lines(i) /\ p[3] < Layers(i)
           /\ p = <<p[1], p[2], p[3]>>
  BY DEF PixelsOf

LEMMA ImageShape ==
    ASSUME NEW i, ImageIs(i)
    PROVE  i.width \in Nat /\ Lines(i) \in Nat /\ Layers(i) \in Nat
  BY DEF ImageIs, Lines, Layers

\* Rows of pixels, and slices of rows: pixels do not overlap.
LEMMA RasterFar ==
    ASSUME NEW i, ImageIs(i), HasLayout(i), i.accessor = "raster",
           NEW p \in PixelsOf(i), NEW q \in PixelsOf(i), p # q
    PROVE  Far(calculatePixelOffset(i, p), calculatePixelOffset(i, q), 4)
<1>0. /\ ElementSize(i) = 4 /\ i.width \in Nat
  BY DEF ImageIs
<1>1. PICK r \in Nat : r = i.rowPitch
  BY DEF ImageIs
<1>2. PICK s \in Nat : s = i.slicePitch
  BY DEF ImageIs
<1>3. /\ p[1] \in Nat /\ p[2] \in Nat /\ p[3] \in Nat /\ p = <<p[1], p[2], p[3]>>
      /\ p[1] < i.width /\ p[2] < Lines(i) /\ p[3] < Layers(i)
  BY PixelCoordinates, ImageShape
<1>4. /\ q[1] \in Nat /\ q[2] \in Nat /\ q[3] \in Nat /\ q = <<q[1], q[2], q[3]>>
      /\ q[1] < i.width /\ q[2] < Lines(i) /\ q[3] < Layers(i)
  BY PixelCoordinates, ImageShape
<1>5. PICK px, py, pz \in Nat : px = p[1] /\ py = p[2] /\ pz = p[3]
  BY <1>3
<1>6. PICK qx, qy, qz \in Nat : qx = q[1] /\ qy = q[2] /\ qz = q[3]
  BY <1>4
<1>7. px # qx \/ py # qy \/ pz # qz
  BY <1>3, <1>4, <1>5, <1>6
<1>8. /\ calculatePixelOffset(i, p) = (px * 4 + r * py) + s * pz
      /\ calculatePixelOffset(i, q) = (qx * 4 + r * qy) + s * qz
  BY <1>0, <1>1, <1>2, <1>5, <1>6 DEF calculatePixelOffset
<1>9. i.width * 4 <= r
  BY <1>0, <1>1 DEF HasLayout, RegularPitches
<1>10. PICK a \in Nat, c \in Nat : a = px * 4 /\ c = qx * 4
  OBVIOUS
<1>11. a + 4 <= r /\ c + 4 <= r
  BY <1>0, <1>3, <1>4, <1>5, <1>6, <1>9, <1>10
<1>12. px # qx => Far(a, c, 4)
  BY <1>10 DEF Far
<1>13. (px # qx \/ py # qy) => Far(a + r * py, c + r * qy, 4)
  <2>1. ASSUME px # qx \/ py # qy
        PROVE  Far(a + r * py, c + r * qy, 4)
    <3>1. py = qy => Far(a, c, 4)
      BY <1>12, <2>1
    <3> QED  BY <1>11, <3>1, FarInRows
  <2> QED  BY <2>1
<1>14. CASE i.type \in {"IMAGE3D", "IMAGE2D_ARRAY"}
  <2>1. PICK h \in Nat : h = i.height
    BY DEF ImageIs
  <2>2. r * h <= s /\ py < h /\ qy < h
    BY <1>1, <1>2, <1>3, <1>4, <1>5, <1>6, <1>14, <2>1
       DEF HasLayout, RegularPitches, Lines, numDimensions
  <2>3. /\ a + r * py \in Nat /\ a + r * py + 4 <= r * h
        /\ c + r * qy \in Nat /\ c + r * qy + 4 <= r * h
    BY <1>11, <2>2, WithinRows
  <2>4. r * h \in Nat
    BY OneMore
  <2>5. PICK v \in Nat, w \in Nat : v = a + r * py /\ w = c + r * qy
    BY <2>3
  <2>6. v + 4 <= s /\ w + 4 <= s
    BY <2>2, <2>3, <2>4, <2>5
  <2>7. pz = qz => Far(v, w, 4)
    BY <1>7, <1>13, <2>5
  <2>8. Far(v + s * pz, w + s * qz, 4)
    BY <2>6, <2>7, FarInRows
  <2> QED  BY <1>8, <1>10, <2>5, <2>8
<1>15. CASE i.type \notin {"IMAGE3D", "IMAGE2D_ARRAY"}
  <2>1. pz = 0 /\ qz = 0
    BY <1>3, <1>4, <1>5, <1>6, <1>15 DEF Layers
  <2>2. s * pz = 0 /\ s * qz = 0
    BY <2>1
  <2>3. px # qx \/ py # qy
    BY <1>7, <2>1
  <2>4. r * py \in Nat /\ r * qy \in Nat
    BY OneMore
  <2> QED  BY <1>8, <1>10, <1>13, <2>2, <2>3, <2>4
<1> QED  BY <1>14, <1>15

\* And they lie within the calculated size.
LEMMA RasterWithin ==
    ASSUME NEW i, ImageIs(i), HasLayout(i), i.accessor = "raster", NEW p \in PixelsOf(i)
    PROVE  /\ calculatePixelOffset(i, p) \in Nat
           /\ calculatePixelOffset(i, p) + 4 <= calculate_image_size(i)
           /\ calculate_image_size(i) \in Nat
<1>0. /\ ElementSize(i) = 4 /\ i.width \in Nat
  BY DEF ImageIs
<1>1. PICK r \in Nat : r = i.rowPitch
  BY DEF ImageIs
<1>2. PICK s \in Nat : s = i.slicePitch
  BY DEF ImageIs
<1>3. /\ p[1] \in Nat /\ p[2] \in Nat /\ p[3] \in Nat /\ p = <<p[1], p[2], p[3]>>
      /\ p[1] < i.width /\ p[2] < Lines(i) /\ p[3] < Layers(i)
  BY PixelCoordinates, ImageShape
<1>4. PICK x, y, z \in Nat : x = p[1] /\ y = p[2] /\ z = p[3]
  BY <1>3
<1>5. calculatePixelOffset(i, p) = (x * 4 + r * y) + s * z
  BY <1>0, <1>1, <1>2, <1>4 DEF calculatePixelOffset
<1>6. i.width * 4 <= r
  BY <1>0, <1>1 DEF HasLayout, RegularPitches
<1>7. x * 4 + 4 <= r
  BY <1>0, <1>3, <1>4, <1>6
<1>8. PICK h, d, n \in Nat : h = i.height /\ d = i.depth /\ n = i.arraySize
  BY DEF ImageIs
<1>9. r * y \in Nat /\ s * z \in Nat /\ r * h \in Nat /\ r * n \in Nat /\ s * d \in Nat /\ s * n \in Nat
  BY OneMore
<1>10. CASE i.type \in {"IMAGE3D", "IMAGE2D_ARRAY"}
  <2>1. r * h <= s /\ y < h
    BY <1>1, <1>2, <1>3, <1>4, <1>8, <1>10 DEF HasLayout, RegularPitches, Lines, numDimensions
  <2>2. x * 4 + r * y \in Nat /\ x * 4 + r * y + 4 <= r * h
    BY <1>7, <2>1, WithinRows
  <2>3. x * 4 + r * y + 4 <= s
    BY <1>9, <2>1, <2>2
  <2>4. CASE i.type = "IMAGE3D"
    <3>1. z < d /\ calculate_image_size(i) = s * d
      BY <1>2, <1>3, <1>4, <1>8, <2>4 DEF Layers, calculate_image_size
    <3>2. (x * 4 + r * y) + s * z \in Nat /\ (x * 4 + r * y) + s * z + 4 <= s * d
      BY <2>2, <2>3, <3>1, WithinRows
    <3> QED  BY <1>5, <1>9, <3>1, <3>2
  <2>5. CASE i.type = "IMAGE2D_ARRAY"
    <3>1. z < n /\ calculate_image_size(i) = s * n
      BY <1>2, <1>3, <1>4, <1>8, <2>5 DEF Layers, calculate_image_size
    <3>2. (x * 4 + r * y) + s * z \in Nat /\ (x * 4 + r * y) + s * z + 4 <= s * n
      BY <2>2, <2>3, <3>1, WithinRows
    <3> QED  BY <1>5, <1>9, <3>1, <3>2
  <2> QED  BY <1>10, <2>4, <2>5
<1>11. CASE i.type \notin {"IMAGE3D", "IMAGE2D_ARRAY"}
  <2>1. z = 0
    BY <1>3, <1>4, <1>11 DEF Layers
  <2>2. calculatePixelOffset(i, p) = x * 4 + r * y
    BY <1>5, <1>9, <2>1
  <2>3. CASE i.type = "IMAGE2D"
    <3>1. y < h /\ calculate_image_size(i) = r * h
      BY <1>1, <1>3, <1>4, <1>8, <2>3 DEF Lines, numDimensions, calculate_image_size
    <3>2. x * 4 + r * y \in Nat /\ x * 4 + r * y + 4 <= r * h
      BY <1>7, <3>1, WithinRows
    <3> QED  BY <1>9, <2>2, <3>1, <3>2
  <2>4. CASE i.type = "IMAGE1D_ARRAY"
    <3>1. y < n /\ calculate_image_size(i) = s * n /\ r <= s
      BY <1>1, <1>2, <1>3, <1>4, <1>8, <2>4
         DEF Lines, numDimensions, isImageArray, calculate_image_size, HasLayout, RegularPitches
    <3>2. x * 4 + r * y \in Nat /\ x * 4 + r * y + 4 <= r * n
      BY <1>7, <3>1, WithinRows
    <3>3. n * r <= n * s
      BY <3>1, Grows
    <3>4. n * r = r * n /\ n * s = s * n
      OBVIOUS
    <3> QED  BY <1>9, <2>2, <3>1, <3>2, <3>3, <3>4
  <2>5. CASE i.type = "IMAGE1D"
    <3>1. y = 0 /\ calculate_image_size(i) = r
      BY <1>1, <1>3, <1>4, <2>5 DEF Lines, numDimensions, isImageArray, calculate_image_size
    <3> QED  BY <1>7, <2>2, <3>1
  <2>6. i.type \in {"IMAGE1D", "IMAGE1D_ARRAY", "IMAGE2D"}
    BY <1>11 DEF HasLayout, ImageIs, ImageTypes
  <2> QED  BY <2>3, <2>4, <2>5, <2>6
<1> QED  BY <1>10, <1>11

\* The place of a pixel in rows of t tiles and slices of s bytes.
InTile(x, y) == ((y % 4) * 2 + (x % 2)) * 8
TileOf(t, x, y) == (x \div 2) + t * (y \div 4)
TiledOffset(t, s, x, y, z) == (InTile(x, y) + 64 * TileOf(t, x, y)) + s * z

LEMMA Halves ==
    ASSUME NEW x \in Nat, NEW y \in Nat
    PROVE  /\ x \div 2 \in Nat /\ x % 2 \in 0..1 /\ x = 2 * (x \div 2) + (x % 2)
           /\ y \div 4 \in Nat /\ y % 4 \in 0..3 /\ y = 4 * (y \div 4) + (y % 4)
<1>1. x \div 2 \in Nat /\ x % 2 \in 0..1
  OBVIOUS
<1>2. x = 2 * (x \div 2) + (x % 2)
  OBVIOUS
<1>3. y \div 4 \in Nat /\ y % 4 \in 0..3
  OBVIOUS
<1>4. y = 4 * (y \div 4) + (y % 4)
  OBVIOUS
<1> QED  BY <1>1, <1>2, <1>3, <1>4

LEMMA PlaceInTile ==
    ASSUME NEW x \in Nat, NEW y \in Nat
    PROVE  InTile(x, y) \in Nat /\ InTile(x, y) + 8 <= 64
  BY Halves DEF InTile

\* Two pixels in the same tile have places of their own.
LEMMA PlacesInTile ==
    ASSUME NEW x \in Nat, NEW y \in Nat, NEW u \in Nat, NEW v \in Nat, x # u \/ y # v,
           x \div 2 = u \div 2, y \div 4 = v \div 4
    PROVE  Far(InTile(x, y), InTile(u, v), 8)
<1>1. /\ x % 2 \in 0..1 /\ u % 2 \in 0..1 /\ y % 4 \in 0..3 /\ v % 4 \in 0..3
  BY Halves
<1>2. x % 2 # u % 2 \/ y % 4 # v % 4
  BY Halves
<1>3. PICK a, b \in 0..1 : a = x % 2 /\ b = u % 2
  BY <1>1
<1>4. PICK c, d \in 0..3 : c = y % 4 /\ d = v % 4
  BY <1>1
<1>5. a # b \/ c # d
  BY <1>2, <1>3, <1>4
<1>6. InTile(x, y) = (c * 2 + a) * 8 /\ InTile(u, v) = (d * 2 + b) * 8
  BY <1>3, <1>4 DEF InTile
<1>7. Far((c * 2 + a) * 8, (d * 2 + b) * 8, 8)
  BY <1>5 DEF Far
<1> QED  BY <1>6, <1>7

\* Pixels of a slice that are not in the same place do not overlap.
LEMMA TilesFar ==
    ASSUME NEW t \in Nat, NEW x \in Nat, NEW y \in Nat, NEW u \in Nat, NEW v \in Nat,
           x < 2 * t, u < 2 * t, x # u \/ y # v
    PROVE  Far(InTile(x, y) + 64 * TileOf(t, x, y), InTile(u, v) + 64 * TileOf(t, u, v), 8)
<1>1. PICK a, b \in Nat : a = x \div 2 /\ b = y \div 4
  BY Halves
<1>2. PICK c, d \in Nat : c = u \div 2 /\ d = v \div 4
  BY Halves
<1>3. a + 1 <= t /\ c + 1 <= t
  BY <1>1, <1>2, Halves
<1>4. PICK m, n \in Nat : m = InTile(x, y) /\ n = InTile(u, v)
  BY PlaceInTile
<1>5. m + 8 <= 64 /\ n + 8 <= 64
  BY <1>4, PlaceInTile
<1>6. t * b \in Nat /\ t * d \in Nat
  BY OneMore
<1>7. PICK e, f \in Nat : e = a + t * b /\ f = c + t * d
  BY <1>6
<1>8. ASSUME e = f
      PROVE  Far(m, n, 8)
  <2>1. CASE a = c /\ b = d
    BY <1>1, <1>2, <1>4, <2>1, PlacesInTile
  <2>2. CASE ~(a = c /\ b = d)
    <3>1. b = d => Far(a, c, 1)
      BY <2>2 DEF Far
    <3>2. Far(a + t * b, c + t * d, 1)
      BY <1>3, <3>1, FarInRows
    <3>3. FALSE
      BY <1>7, <1>8, <3>2 DEF Far
    <3> QED  BY <3>3
  <2> QED  BY <2>1, <2>2
<1>9. Far(m + 64 * e, n + 64 * f, 8)
  BY <1>5, <1>8, FarInRows
<1> QED  BY <1>1, <1>2, <1>4, <1>7, <1>9 DEF TileOf

\* The tiles of the rows of a slice are within the slice.
LEMMA TilesWithin ==
    ASSUME NEW t \in Nat, NEW n \in Nat, NEW x \in Nat, NEW y \in Nat, x < 2 * t, y < 4 * n
    PROVE  /\ InTile(x, y) + 64 * TileOf(t, x, y) \in Nat
           /\ InTile(x, y) + 64 * TileOf(t, x, y) + 8 <= n * (64 * t)
<1>1. PICK a, b \in Nat : a = x \div 2 /\ b = y \div 4
  BY Halves
<1>2. a + 1 <= t /\ b < n
  BY <1>1, Halves
<1>3. a + t * b \in Nat /\ a + t * b + 1 <= t * n
  BY <1>2, WithinRows
<1>4. PICK e \in Nat : e = a + t * b
  BY <1>3
<1>5. PICK k \in Nat : k = t * n
  BY OneMore
<1>6. PICK m \in Nat : m = InTile(x, y)
  BY PlaceInTile
<1>7. m + 8 <= 64 /\ e < k
  BY <1>3, <1>4, <1>5, <1>6, PlaceInTile
<1>8. m + 64 * e \in Nat /\ m + 64 * e + 8 <= 64 * k
  BY <1>7, WithinRows
<1>9. n * (64 * t) = 64 * k
  BY <1>5
<1> QED  BY <1>1, <1>4, <1>6, <1>8, <1>9 DEF TileOf

\* Pitches of t tiles and n rows of tiles that hold rows of w and slices of h pixels.
TiledPitchesOf(i, t, n) ==
    /\ i.rowPitch = 16 * t /\ i.slicePitch = n * (64 * t)
    /\ i.width <= 2 * t /\ i.height <= 4 * n

LEMMA RowsOfTiles ==
    ASSUME NEW t \in Nat, NEW n \in Nat, NEW h \in Nat, t # 0, (16 * t) * h <= n * (64 * t)
    PROVE  h <= 4 * n
<1>1. PICK k \in Nat : k = t * n
  BY OneMore
<1>2. PICK l \in Nat : l = t * h
  BY OneMore
<1>3. (16 * t) * h = 16 * l /\ n * (64 * t) = 64 * k
  BY <1>1, <1>2
<1>4. ASSUME 4 * n + 1 <= h
      PROVE  FALSE
  <2>1. t * (4 * n + 1) <= t * h
    BY <1>4, Grows
  <2>2. t * (4 * n + 1) = t * (4 * n) + t
    BY OneMore
  <2>3. t * (4 * n) = 4 * k
    BY <1>1
  <2> QED  BY <1>2, <1>3, <2>1, <2>2, <2>3
<1> QED  BY <1>4

LEMMA TiledImage ==
    ASSUME NEW i, ImageIs(i), HasLayout(i), i.accessor = "LT", NEW p \in PixelsOf(i)
    PROVE  \E t, n \in Nat : t # 0 /\ n # 0 /\ TiledPitchesOf(i, t, n)
<1>1. PICK t, n \in Nat : i.rowPitch = 16 * t /\ i.slicePitch = n * (64 * t)
  BY DEF ImageIs, WholeTiles
<1>2. PICK w, h \in Nat : w = i.width /\ h = i.height
  BY DEF ImageIs
<1>3. i.type \in {"IMAGE3D", "IMAGE2D_ARRAY"}
  BY DEF HasLayout, ImageIs, ImageTypes, Coordinates, numDimensions, isImageArray
<1>4. 0 < w /\ 0 < h
  BY <1>2, <1>3, PixelCoordinates, ImageShape DEF Lines, numDimensions
<1>5. w * 8 <= 16 * t
  BY <1>1, <1>2 DEF HasLayout, RegularPitches, ImageIs
<1>6. w <= 2 * t /\ t # 0
  BY <1>4, <1>5
<1>7. (16 * t) * h <= n * (64 * t)
  BY <1>1, <1>2, <1>3 DEF HasLayout, RegularPitches, numDimensions
<1>8. h <= 4 * n
  BY <1>6, <1>7, RowsOfTiles
<1> QED  BY <1>1, <1>2, <1>4, <1>6, <1>8 DEF TiledPitchesOf

LEMMA TiledPixel ==
    ASSUME NEW i, ImageIs(i), HasLayout(i), i.accessor = "LT", NEW p \in PixelsOf(i),
           NEW t \in Nat, NEW n \in Nat, t # 0, n # 0, TiledPitchesOf(i, t, n)
    PROVE  /\ p[1] \in Nat /\ p[2] \in Nat /\ p[3] \in Nat /\ p = <<p[1], p[2], p[3]>>
           /\ p[1] < 2 * t /\ p[2] < 4 * n /\ p[3] < Layers(i)
           /\ calculatePixelOffset(i, p) = TiledOffset(t, n * (64 * t), p[1], p[2], p[3])
<1>1. i.type \in {"IMAGE3D", "IMAGE2D_ARRAY"}
  BY DEF HasLayout, ImageIs, ImageTypes, Coordinates, numDimensions, isImageArray
<1>2. i.width \in Nat /\ i.height \in Nat /\ ElementSize(i) = 8
  BY DEF ImageIs
<1>3. /\ p[1] \in Nat /\ p[2] \in Nat /\ p[3] \in Nat /\ p = <<p[1], p[2], p[3]>>
      /\ p[1] < i.width /\ p[2] < i.height /\ p[3] < Layers(i)
  BY <1>1, PixelCoordinates, ImageShape DEF Lines, numDimensions
<1>4. p[1] < 2 * t /\ p[2] < 4 * n
  BY <1>2, <1>3 DEF TiledPitchesOf
<1>5. Microtile(i) = <<2, 4>>
  BY <1>2 DEF Microtile
<1>6. RowBytes(i) = 16 * t
  BY DEF TiledPitchesOf, RowBytes
<1>7. n * (64 * t) # 0
  <2>1. PICK k \in Nat : k = 64 * t
    OBVIOUS
  <2>2. k # 0
    BY <2>1
  <2>3. k * 1 <= k * n
    BY Grows
  <2> QED  BY <2>1, <2>2, <2>3
<1>8. SliceBytes(i) = n * (64 * t)
  BY <1>7 DEF TiledPitchesOf, SliceBytes
<1>9. (16 * t) \div 16 = t
  OBVIOUS
<1>10. PICK x, y, z \in Nat : x = p[1] /\ y = p[2] /\ z = p[3]
  BY <1>3
<1>11. PICK s \in Nat : s = n * (64 * t)
  BY OneMore
<1>12. calculatePixelOffset(i, p) =
          z * s + ((y \div 4) * t + (x \div 2)) * 64 + ((y % 4) * 2 + (x % 2)) * 8
  BY <1>2, <1>5, <1>6, <1>8, <1>9, <1>10, <1>11 DEF calculatePixelOffset, MicrotileBytes
<1>13. PICK a, b, c, d \in Nat : a = x \div 2 /\ b = y \div 4 /\ c = x % 2 /\ d = y % 4
  BY Halves
<1>14. z * s + (b * t + a) * 64 + (d * 2 + c) * 8 = ((d * 2 + c) * 8 + 64 * (a + t * b)) + s * z
  <2>1. PICK g \in Nat : g = t * b
    BY OneMore
  <2>2. PICK f \in Nat : f = s * z
    BY OneMore
  <2>3. b * t = g /\ z * s = f
    BY <2>1, <2>2
  <2> QED  BY <2>1, <2>2, <2>3
<1>15. calculatePixelOffset(i, p) = TiledOffset(t, s, x, y, z)
  <2>1. calculatePixelOffset(i, p) = z * s + (b * t + a) * 64 + (d * 2 + c) * 8
    BY <1>12, <1>13, Zenon
  <2>2. TiledOffset(t, s, x, y, z) = ((d * 2 + c) * 8 + 64 * (a + t * b)) + s * z
    BY <1>13, Zenon DEF TiledOffset, InTile, TileOf
  <2> QED  BY <1>14, <2>1, <2>2, Zenon
<1> QED  BY <1>3, <1>4, <1>10, <1>11, <1>15

LEMMA TiledFar ==
    ASSUME NEW i, ImageIs(i), HasLayout(i), i.accessor = "LT",
           NEW p \in PixelsOf(i), NEW q \in PixelsOf(i), p # q
    PROVE  Far(calculatePixelOffset(i, p), calculatePixelOffset(i, q), 8)
<1>1. PICK t, n \in Nat : t # 0 /\ n # 0 /\ TiledPitchesOf(i, t, n)
  BY TiledImage
<1>2. PICK s \in Nat : s = n * (64 * t)
  BY OneMore
<1>3. PICK x, y, z \in Nat : x = p[1] /\ y = p[2] /\ z = p[3]
  BY <1>1, TiledPixel
<1>4. PICK u, v, w \in Nat : u = q[1] /\ v = q[2] /\ w = q[3]
  BY <1>1, TiledPixel
<1>5. x # u \/ y # v \/ z # w
  <2>1. p = <<x, y, z>> /\ q = <<u, v, w>>
    BY <1>1, <1>3, <1>4, TiledPixel
  <2> QED  BY <2>1
<1>6. x < 2 * t /\ y < 4 * n /\ u < 2 * t /\ v < 4 * n
  BY <1>1, <1>3, <1>4, TiledPixel
<1>7. /\ calculatePixelOffset(i, p) = TiledOffset(t, s, x, y, z)
      /\ calculatePixelOffset(i, q) = TiledOffset(t, s, u, v, w)
  BY <1>1, <1>2, <1>3, <1>4, TiledPixel
<1>8. PICK a \in Nat : a = InTile(x, y) + 64 * TileOf(t, x, y)
  BY <1>6, TilesWithin
<1>9. PICK b \in Nat : b = InTile(u, v) + 64 * TileOf(t, u, v)
  BY <1>6, TilesWithin
<1>10. a + 8 <= s /\ b + 8 <= s
  BY <1>2, <1>6, <1>8, <1>9, TilesWithin
<1>11. z = w => Far(a, b, 8)
  BY <1>5, <1>6, <1>8, <1>9, TilesFar
<1>12. Far(a + s * z, b + s * w, 8)
  BY <1>10, <1>11, FarInRows
<1> QED  BY <1>7, <1>8, <1>9, <1>12 DEF TiledOffset

LEMMA TiledWithin ==
    ASSUME NEW i, ImageIs(i), HasLayout(i), i.accessor = "LT", NEW p \in PixelsOf(i)
    PROVE  /\ calculatePixelOffset(i, p) \in Nat
           /\ calculatePixelOffset(i, p) + 8 <= calculate_image_size(i)
           /\ calculate_image_size(i) \in Nat
<1>1. PICK t, n \in Nat : t # 0 /\ n # 0 /\ TiledPitchesOf(i, t, n)
  BY TiledImage
<1>2. PICK s \in Nat : s = n * (64 * t)
  BY OneMore
<1>3. PICK x, y, z \in Nat : x = p[1] /\ y = p[2] /\ z = p[3]
  BY <1>1, TiledPixel
<1>4. x < 2 * t /\ y < 4 * n /\ z < Layers(i)
  BY <1>1, <1>3, TiledPixel
<1>5. calculatePixelOffset(i, p) = TiledOffset(t, s, x, y, z)
  BY <1>1, <1>2, <1>3, TiledPixel
<1>6. PICK a \in Nat : a = InTile(x, y) + 64 * TileOf(t, x, y)
  BY <1>4, TilesWithin
<1>7. a + 8 <= s
  BY <1>2, <1>4, <1>6, TilesWithin
<1>8. PICK l \in Nat : l = Layers(i)
  BY ImageShape
<1>9. calculate_image_size(i) = s * l
  <2>1. i.type \in {"IMAGE3D", "IMAGE2D_ARRAY"}
    BY DEF HasLayout, ImageIs, ImageTypes, Coordinates, numDimensions, isImageArray
  <2>2. i.slicePitch = s
    BY <1>1, <1>2 DEF TiledPitchesOf
  <2> QED  BY <1>8, <2>1, <2>2 DEF calculate_image_size, Layers
<1>10. a + s * z \in Nat /\ a + s * z + 8 <= s * l
  BY <1>4, <1>7, <1>8, WithinRows
<1>11. s * l \in Nat
  BY OneMore
<1> QED  BY <1>5, <1>6, <1>9, <1>10, <1>11 DEF TiledOffset

\* PixelsApart for images of every size and pitch the application may ask for: no
\* two pixels share a byte, and none lies outside the memory that is allocated.
THEOREM PixelsHaveTheirOwnBytes == ImagesSpec => []PixelsApart
<1>1. ASSUME NEW i, ImageIs(i), HasLayout(i)
      PROVE  /\ \A p \in PixelsOf(i) :
                   calculatePixelOffset(i, p) \in 0..(calculate_image_size(i) - ElementSize(i))
             /\ \A p, q \in PixelsOf(i) : p # q =>
                   Far(calculatePixelOffset(i, p), calculatePixelOffset(i, q), ElementSize(i))
  <2>1. CASE i.accessor = "raster"
    <3>1. ElementSize(i) = 4
      BY <1>1, <2>1 DEF ImageIs
    <3>2. ASSUME NEW p \in PixelsOf(i)
          PROVE  calculatePixelOffset(i, p) \in 0..(calculate_image_size(i) - 4)
      BY <1>1, <2>1, RasterWithin
    <3>3. ASSUME NEW p \in PixelsOf(i), NEW q \in PixelsOf(i), p # q
          PROVE  Far(calculatePixelOffset(i, p), calculatePixelOffset(i, q), 4)
      BY <1>1, <2>1, <3>3, RasterFar
    <3> QED  BY <3>1, <3>2, <3>3
  <2>2. CASE i.accessor = "LT"
    <3>1. ElementSize(i) = 8
      BY <1>1, <2>2 DEF ImageIs
    <3>2. ASSUME NEW p \in PixelsOf(i)
          PROVE  calculatePixelOffset(i, p) \in 0..(calculate_image_size(i) - 8)
      BY <1>1, <2>2, TiledWithin
    <3>3. ASSUME NEW p \in PixelsOf(i), NEW q \in PixelsOf(i), p # q
          PROVE  Far(calculatePixelOffset(i, p), calculatePixelOffset(i, q), 8)
      BY <1>1, <2>2, <3>3, TiledFar
    <3> QED  BY <3>1, <3>2, <3>3
  <2> QED  BY <1>1, <2>1, <2>2 DEF HasLayout
<1>2. ImageObjects => PixelsApart
  BY <1>1 DEF ImageObjects, PixelsApart, Far
<1> QED  BY <1>2, ImageInvariant, PTL

================================================================================
