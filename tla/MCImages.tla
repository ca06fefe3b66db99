-------------------------------- MODULE MCImages --------------------------------
(***************************************************************************)
(* Two images of a few pixels, in all formats, types and layouts, and an    *)
(* array of the application.                                                *)
(***************************************************************************)
EXTENDS Images, TLC

CONSTANTS one, two

DeviceMemory == (one :> 0) @@ (two :> 260)
Array == 520
Used == 590
Memory == 0..649

RGBA(type) == [order |-> "RGBA", type |-> type]
YUYV == [order |-> "YUYV", type |-> "UNORM_INT8"]

Described(type, format, size, n) ==
    [type |-> type, format |-> format, width |-> size[1], height |-> size[2], depth |-> size[3],
     arraySize |-> n, row |-> 0, slice |-> 0, host |-> NULL, flags |-> {}, buffer |-> NULL]
WithHost(d, flag, at, row, slice) ==
    [d EXCEPT !.flags = {flag}, !.host = at, !.row = row, !.slice = slice]
WithFlags(d, flags) == [d EXCEPT !.flags = flags]
WithBuffer(d, flags) == [d EXCEPT !.flags = flags, !.buffer = [flags |-> {"HOST_READ_ONLY"}, at |-> 260, size |-> 16]]

Raster == Described("IMAGE3D", RGBA("UNORM_INT8"), <<3, 2, 2>>, 1)
Tiled == Described("IMAGE3D", RGBA("HALF_FLOAT"), <<3, 2, 2>>, 1)
Flat == Described("IMAGE2D", RGBA("UNSIGNED_INT8"), <<3, 2, 1>>, 1)

\* With three coordinates.
Deep ==
    {Raster, Tiled, WithHost(Raster, "COPY_HOST_PTR", Array, 14, 30),
     WithHost(Raster, "COPY_HOST_PTR", Array, 8, 0),
     WithHost(Described("IMAGE2D_ARRAY", RGBA("SIGNED_INT8"), <<3, 2, 1>>, 2), "USE_HOST_PTR", Used, 0, 0),
     Described("IMAGE2D_ARRAY", RGBA("UNORM_INT16"), <<2, 5, 0>>, 2),
     WithFlags(Raster, {"HOST_WRITE_ONLY"}), WithFlags(Raster, {"ALLOC_HOST_PTR", "HOST_READ_ONLY"}),
     Described("IMAGE3D", YUYV, <<4, 1, 1>>, 0), Described("IMAGE3D", RGBA("SIGNED_INT16"), <<32, 16, 1>>, 0)}

OtherTypes ==
    {Flat, Described("IMAGE2D", RGBA("SIGNED_INT16"), <<2, 2, 1>>, 1),
     Described("IMAGE1D", RGBA("UNORM_INT8"), <<3, 0, 0>>, 0),
     Described("IMAGE1D_ARRAY", RGBA("UNORM_INT8"), <<3, 1, 0>>, 2),
     WithBuffer(Described("IMAGE1D_BUFFER", RGBA("UNORM_INT8"), <<3, 0, 0>>, 0), {})}

Refused ==
    {WithBuffer(Described("IMAGE1D_BUFFER", RGBA("UNORM_INT8"), <<3, 0, 0>>, 0), {"HOST_WRITE_ONLY"}),
     WithHost(Raster, "READ_WRITE", Array, 0, 0), WithHost(Tiled, "USE_HOST_PTR", Array, 20, 0),
     WithFlags(Raster, {"READ_ONLY", "WRITE_ONLY"}), Described("IMAGE3D", RGBA("SNORM_INT8"), <<3, 2, 2>>, 1),
     Described("IMAGE2D", RGBA("UNORM_INT8"), <<33, 2, 1>>, 1), Described("IMAGE2D", RGBA("UNORM_INT8"), <<3, 0, 1>>, 1),
     WithHost([Tiled EXCEPT !.width = 0], "COPY_HOST_PTR", Array, 0, 64), [Raster EXCEPT !.row = 12], Described("PIPE", RGBA("UNORM_INT8"), <<3, 2, 1>>, 1),
     Described("IMAGE1D_BUFFER", RGBA("UNORM_INT8"), <<3, 0, 0>>, 0),
     WithHost(Described("IMAGE3D", RGBA("SIGNED_INT16"), <<32, 16, 1>>, 0), "COPY_HOST_PTR", Array, 0, 0),
     Described("IMAGE3D", RGBA("FLOAT"), <<2, 2, 2>>, 1), Described("IMAGE3D", RGBA("FLOAT"), <<32, 32, 32>>, 1)}

SomeDescriptions == (one :> Deep \cup OtherTypes \cup Refused) @@ (two :> {Raster, Tiled, Described("IMAGE3D", RGBA("UNORM_INT8"), <<2, 2, 2>>, 1)})

Starts == {<<0, 0, 0>>, <<1, 0, 0>>, <<0, 1, 0>>, <<0, 0, 1>>}
Extents == {<<1, 1, 1>>, <<2, 1, 1>>, <<2, 2, 1>>, <<2, 1, 2>>}

Commands ==
    [op : {"read", "write"}, image : {one}, origin : Starts, region : Extents, row : {0, 17}, slice : {0, 34}, ptr : {Array}]
    \cup [op : {"fill"}, image : {one}, origin : Starts, region : Extents, ptr : {Array}]
    \cup [op : {"copy"}, image : {one}, into : {one, two}, origin : Starts, intoOrigin : Starts, region : Extents]
    \cup [op : {"copyToBuffer", "copyFromBuffer"}, image : {one}, origin : {<<0, 0, 0>>}, region : {<<1, 1, 1>>}]
    \cup [op : {"map"}, image : {one}, origin : {<<0, 0, 0>>, <<0, 0, 2>>}, region : {<<1, 1, 1>>},
          flags : {{"READ"}, {"READ", "WRITE"}, {"INVALIDATE"}}]
================================================================================
