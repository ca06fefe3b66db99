---------------------------- MODULE MCKernelArguments ----------------------------
(***************************************************************************)
(* Four modules that between them have parameters of every kind, names and  *)
(* texts that fill words exactly, in part and by one byte too much, and     *)
(* sizes of more than one byte; and one without kernels.                    *)
(***************************************************************************)
EXTENDS KernelArguments

Text(n) == [i \in 1..n |-> 96 + i]

Parameter(size, elements, space, flags, name, type) ==
    [size |-> size, vectorElements |-> elements, addressSpace |-> space, flags |-> flags,
     name |-> Text(name), typeName |-> Text(type)]

Kernel(length, group, merge, uniforms, name, parameters, metaData) ==
    [offset |-> 0, length |-> length, workGroupSize |-> group, mergeFactor |-> merge,
     uniformsUsed |-> uniforms, name |-> Text(name), parameters |-> parameters, metaData |-> metaData]

MostHidden == {WorkItemInfo[n] : n \in 1..13} \cup {"UniformAddress"}

\* char (signed) and ushort3, the latter of no known address space: exactly as many
\* hidden parameters as there is room for.
Numbers == Kernel(3, <<300, 2, 1>>, 2, MostHidden, 8,
    <<Parameter(1, 1, "PRIVATE", {"Signed", "Constant"}, 3, 4),
      Parameter(8, 3, "GENERIC", {}, 9, 7)>>,
    <<[type |-> KERNEL_LOCAL_MEMORY_SIZE, value |-> 70000],
      [type |-> KERNEL_WORK_GROUP_SIZE, value |-> <<300, 2, 1>>],
      [type |-> KERNEL_VECTOR_TYPE_HINT, value |-> Text(6)]>>)

\* A struct by value and a __local area.
Struct == Kernel(2, <<0, 0, 0>>, 0, {"LocalIDs", "GlobalDataAddress", "MaxGroupIDX"}, 5,
    <<Parameter(12, 1, "PRIVATE", {"Pointer", "ByValue", "Input"}, 1, 16),
      Parameter(4, 1, "LOCAL", {"Pointer", "Restricted", "Output"}, 4, 5)>>,
    <<[type |-> KERNEL_PRIVATE_MEMORY_SIZE, value |-> 256]>>)

\* A read-only image and a __local area the compiler lowered.
Image == Kernel(1, <<0, 0, 0>>, 0, {"GroupIDX", "GroupIDY"}, 6,
    <<Parameter(4, 1, "GLOBAL", {"Pointer", "Image", "Input", "Volatile"}, 2, 9),
      Parameter(4, 1, "LOCAL", {"Pointer", "Lowered"}, 3, 5)>>, <<>>)

\* A long3 and a pointer.
Long == Kernel(2, <<0, 0, 0>>, 1, MostHidden, 4,
    <<Parameter(32, 3, "PRIVATE", {"Signed"}, 1, 5),
      Parameter(4, 1, "GLOBAL", {"Pointer", "Input", "Output"}, 1, 4)>>,
    <<[type |-> KERNEL_WORK_GROUP_SIZE_HINT, value |-> <<4, 1, 1>>]>>)

Module(kernels, words, stack, zero) ==
    [kernels |-> kernels, globalData |-> [n \in 1..words |-> [data |-> n]], stackWords |-> stack,
     context |-> "c1", zeroLocal |-> zero]

MCModules ==
    {Module(<<Numbers>>, 2, 1, FALSE), Module(<<Struct>>, 0, 0, FALSE),
     Module(<<Image, Struct>>, 1, 2, TRUE), Module(<<Long>>, 0, 3, TRUE), Module(<<>>, 0, 0, FALSE)}

MCScalars ==
    {[size |-> 1, element |-> 1, value |-> <<200>>], [size |-> 1, element |-> 1, value |-> <<7>>],
     [size |-> 6, element |-> 2, value |-> <<65535, 1, 2>>],
     [size |-> 8, element |-> 2, value |-> <<3, 4, 5, 6>>],
     [size |-> 24, element |-> 8, value |-> << <<-1, 1>>, <<0, 2>>, <<5, 0>> >>],
     [size |-> 32, element |-> 8, value |-> << <<-1, 1>>, <<0, 2>>, <<5, 0>>, <<6, 6>> >>],
     [size |-> 4, element |-> 4, value |-> <<9>>]}

MCStructs == {[size |-> 12, value |-> "first"], [size |-> 12, value |-> "second"],
              [size |-> 8, value |-> "first"]}

MCBuffers == [b1 |-> [context |-> "c1", readable |-> TRUE, writeable |-> TRUE, address |-> 4096],
              b2 |-> [context |-> "c1", readable |-> FALSE, writeable |-> TRUE, address |-> 8192],
              other |-> [context |-> "c2", readable |-> TRUE, writeable |-> TRUE, address |-> 512]]

MCHandles == {[size |-> 4, value |-> b] : b \in DOMAIN MCBuffers}
    \cup {[size |-> 4, value |-> NULL], [size |-> 0, value |-> NULL], [size |-> 64, value |-> NULL],
          [size |-> 8, value |-> "b1"]}

================================================================================
