-------------------------------- MODULE MCBuffers --------------------------------
(***************************************************************************)
(* Calls for the model checker: two buffers of eight bytes, an array of    *)
(* the application, and room after each of them.                           *)
(***************************************************************************)
EXTENDS Buffers, TLC

CONSTANTS main, other, sub, sub2

Device == (main :> 0) @@ (other :> 16)
Host == 26
SomeAddresses == 0..39

Creation(flags, size, host) == [flags |-> flags, size |-> size, host |-> host]
Flags ==
    {Creation({}, 8, NULL), Creation({"READ_WRITE", "USE_HOST_PTR"}, 8, Host),
     Creation({"HOST_WRITE_ONLY", "READ_ONLY", "COPY_HOST_PTR"}, 8, Host),
     Creation({"HOST_NO_ACCESS", "HOST_READ_ONLY"}, 8, NULL), Creation({}, 9, NULL), Creation({}, 8, Host)}

SomeCreations == (main :> Flags) @@ (other :> {Creation({}, 8, NULL)})

Part(flags, origin, size) == [flags |-> flags, origin |-> origin, size |-> size]
Parts ==
    {Part({}, 4, 4), Part({"READ_ONLY"}, 4, 4), Part({"USE_HOST_PTR"}, 4, 4), Part({"HOST_READ_ONLY"}, 6, 4),
     Part({}, 1, 2), Part({}, 4, 0)}

SomeRegions == (sub :> Parts) @@ (sub2 :> {Part({}, 2, 4)})

Some == {main, sub}
Access == [op : {"read", "write"}, buffer : Some, offset : {2}, size : {0, 2, 5}, ptr : {Host}]
Map == [op : {"map"}, buffer : Some, offset : {1}, size : {2}, flags : {{"READ"}, {"READ", "WRITE"}}]
           \cup [op : {"map"}, buffer : {main}, offset : {0, 7}, size : {2}, flags : {{"INVALIDATE"}}]
Copy == [op : {"copy"}, buffer : {main, sub}, into : {main, sub2}, offset : {0, 1},
         intoOffset : {0, 2}, size : {2, 3}]
FillCommand == [op : {"fill"}, buffer : Some, offset : {1, 2}, size : {2, 3}, pattern : {<<101, 102>>}]

Origins == {<<0, 0, 0>>, <<1, 0, 0>>, <<0, 1, 0>>, <<2, 1, 0>>, <<0, 0, 1>>}
Boxes == {<<2, 1, 1>>, <<1, 2, 1>>, <<2, 2, 1>>, <<1, 2, 2>>}
Rect == [op : {"readRect", "writeRect"}, buffer : {main}, origin : {<<0, 0, 0>>, <<2, 1, 0>>}, row : {0, 2, 3},
         slice : {6}, region : Boxes, ptr : {Host}, hostOrigin : {<<0, 0, 0>>, <<1, 1, 0>>}, hostRow : {2},
         hostSlice : {4}]
CopyRect ==
    {[op |-> "copyRect", buffer |-> main, into |-> d, origin |-> o, intoOrigin |-> io, region |-> r,
      row |-> p[1], slice |-> p[2], intoRow |-> p[1], intoSlice |-> p[2]] :
        d \in {main, other}, o \in Origins, io \in Origins, r \in Boxes,
        p \in {<<0, 0>>, <<2, 4>>, <<3, 3>>}}

SomeTransfers == Access \cup Map \cup FillCommand
SomeRectangles == Copy \cup Rect \cup CopyRect
================================================================================
