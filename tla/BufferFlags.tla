------------------------------- MODULE BufferFlags -------------------------------
(***************************************************************************)
(* The flags of memory objects (CL_MEM_... without the prefix), what the    *)
(* Buffer constructor makes of them, and the memory all of them share: a    *)
(* function from addresses to the values stored there.                      *)
(***************************************************************************)
EXTENDS Integers, FiniteSets

CONSTANT NULL

MemoryAccess == {"READ_WRITE", "READ_ONLY", "WRITE_ONLY"}
HostAccess == {"HOST_READ_ONLY", "HOST_WRITE_ONLY", "HOST_NO_ACCESS"}
HostPointer == {"USE_HOST_PTR", "ALLOC_HOST_PTR", "COPY_HOST_PTR"}

\* The Buffer constructor.
NewBuffer(flags) ==
    [readable |-> "WRITE_ONLY" \notin flags,
     writeable |-> "READ_ONLY" \notin flags,
     hostReadable |-> flags \cap {"HOST_WRITE_ONLY", "HOST_NO_ACCESS"} = {},
     hostWriteable |-> flags \cap {"HOST_READ_ONLY", "HOST_NO_ACCESS"} = {},
     useHostPtr |-> "USE_HOST_PTR" \in flags,
     allocHostPtr |-> "ALLOC_HOST_PTR" \in flags,
     copyHostPtr |-> "COPY_HOST_PTR" \in flags,
     hostPtr |-> NULL, hostSize |-> 0, deviceBuffer |-> NULL, subBufferOffset |-> 0,
     parent |-> NULL]

MoreThanOne(flags, group) == Cardinality(flags \cap group) > 1

\* memmove of n bytes.
Move(m, dst, src, n) ==
    [a \in DOMAIN m |-> IF a \in dst..(dst + n - 1) THEN m[src + (a - dst)] ELSE m[a]]

\* getDeviceHostPointerWithOffset of a memory object.
DeviceStart(object) == object.deviceBuffer + object.subBufferOffset

\* copyIntoHostBuffer and copyFromHostBuffer of a whole memory object.
CopyIntoHost(m, object) ==
    IF object.useHostPtr THEN Move(m, object.hostPtr, DeviceStart(object), object.hostSize) ELSE m
CopyFromHost(m, object) ==
    IF object.useHostPtr THEN Move(m, DeviceStart(object), object.hostPtr, object.hostSize) ELSE m

================================================================================
