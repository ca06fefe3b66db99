--------------------------------- MODULE Images ---------------------------------
(***************************************************************************)
(* Images (Image.cpp), the layouts of their pixels (TextureFormat.cpp) and   *)
(* the commands that move pixels.  The device memory of the images and the  *)
(* arrays of the application are ranges of one flat memory.                 *)
(*                                                                         *)
(* Where the code has no answer - the pixels of the T-format, the tiles of  *)
(* pixels of 16 bytes, pitches of an image without pixels - the process     *)
(* ends.                                                                    *)
(***************************************************************************)
EXTENDS BufferFlags, Sequences, SequencesExt

CONSTANTS
    ImageHandles,
    ImageAt,       \* where the device memory of each image begins
    ImageAddresses,
    MaxDimension,  \* kernel_config::MAX_IMAGE_DIMENSION
    Tile4K,        \* bytes of a tile of the T-format
    ImageMemory,   \* the largest image that can be allocated
    Descriptions,  \* arguments the application gives to clCreateImage
    ImageCommands, \* and to the commands it enqueues
    MaxCommands    \* bound on the commands

\* Sizes and pitches are unsigned numbers.
ASSUME ImagesAssumption ==
    \A h \in ImageHandles : \A d \in Descriptions[h] :
        /\ d.width \in Nat /\ d.height \in Nat /\ d.depth \in Nat /\ d.arraySize \in Nat
        /\ d.row \in Nat /\ d.slice \in Nat

VARIABLES
    image,     \* the Image objects
    pixels,    \* the memory
    pending,   \* the enqueued command
    views,     \* the mappings
    commands,  \* number of commands
    running,   \* the process has not ended
    outcome    \* outcome of the last call

imageVars == <<image, pixels, pending, views, commands, running, outcome>>

-----------------------------------------------------------------------------
(* Formats and types *)

BytesPerComponent(type) ==
    CASE type \in {"UNORM_INT8", "SIGNED_INT8", "UNSIGNED_INT8"} -> 1
      [] type \in {"UNORM_INT16", "SIGNED_INT16", "UNSIGNED_INT16", "HALF_FLOAT"} -> 2
      [] OTHER -> 4

ChannelTypes ==
    {"UNORM_INT8", "UNORM_INT16", "SIGNED_INT8", "SIGNED_INT16", "SIGNED_INT32", "UNSIGNED_INT8",
     "UNSIGNED_INT16", "UNSIGNED_INT32", "HALF_FLOAT", "FLOAT"}

\* The orders of the supported formats have four channels.
check_image_format(f) ==
    \/ f.order = "RGBA" /\ f.type \in ChannelTypes
    \/ f.order = "YUYV" /\ f.type = "UNORM_INT8"

\* The formats with components of a byte are RGBA32R and YUYV422R.
isRasterFormat(f) == BytesPerComponent(f.type) = 1

ImageTypes == {"IMAGE1D", "IMAGE1D_BUFFER", "IMAGE1D_ARRAY", "IMAGE2D", "IMAGE2D_ARRAY", "IMAGE3D"}
isImageArray(type) == type \in {"IMAGE1D_ARRAY", "IMAGE2D_ARRAY"}
numDimensions(type) ==
    CASE type = "IMAGE3D" -> 3
      [] type \in {"IMAGE2D", "IMAGE2D_ARRAY"} -> 2
      [] OTHER -> 1

Coordinates(type) == numDimensions(type) + IF isImageArray(type) THEN 1 ELSE 0

ElementSize(i) == BytesPerComponent(i.format.type) * 4

-----------------------------------------------------------------------------
(* Layouts *)

RowBytes(i) == IF i.rowPitch # 0 THEN i.rowPitch ELSE i.width * ElementSize(i)
SliceBytes(i) == IF i.slicePitch # 0 THEN i.slicePitch ELSE RowBytes(i) * i.height

AccessorOf(i) ==
    IF isRasterFormat(i.format) THEN "raster" ELSE IF SliceBytes(i) >= Tile4K THEN "T" ELSE "LT"

roundUp(n, multiple) == ((n + multiple - 1) \div multiple) * multiple

\* Microtile::getTileSize, in pixels; it throws for any other element size.
MicroTiled(i) == ElementSize(i) \in {1, 2, 4, 8}
Microtile(i) ==
    CASE ElementSize(i) = 8 -> <<2, 4>>
      [] ElementSize(i) = 4 -> <<4, 4>>
      [] ElementSize(i) = 2 -> <<8, 4>>
      [] ElementSize(i) = 1 -> <<8, 8>>
MicrotileBytes == 64

\* Mutant: slices are not padded to whole tiles.
Units_RowsOnly(i) ==
    CASE i.accessor = "T" -> <<64, 1>>
      [] i.accessor = "LT" -> <<Microtile(i)[1] * ElementSize(i), 1>>
      [] OTHER -> <<1, 1>>

\* Pitches are multiples of so many bytes and so many rows.
Units(i) ==
    CASE i.accessor = "T" -> <<64, 64>>
      [] i.accessor = "LT" -> <<Microtile(i)[1] * ElementSize(i), Microtile(i)[2]>>
      [] OTHER -> <<1, 1>>

\* checkAndApplyPitches: any pitch that is a multiple, also one that is too small.
RowPitch(i, row) == IF row # 0 THEN row ELSE roundUp(i.width * ElementSize(i), Units(i)[1])
SlicePitch(i, row, slice) ==
    IF slice # 0 THEN slice ELSE roundUp(i.height, Units(i)[2]) * RowPitch(i, row)
PitchesFit(i, row, slice) ==
    /\ row % Units(i)[1] = 0
    /\ i.accessor # "raster" /\ slice # 0 => slice % (Units(i)[2] * RowPitch(i, row)) = 0

\* The check of a slice pitch divides by the row pitch, also by that of no pixels.
DividesByZero(i, row, slice) == i.accessor # "raster" /\ slice # 0 /\ RowPitch(i, row) = 0

calculate_image_size(i) ==
    CASE i.type \in {"IMAGE1D", "IMAGE1D_BUFFER"} -> i.rowPitch
      [] i.type = "IMAGE2D" -> i.rowPitch * i.height
      [] i.type = "IMAGE3D" -> i.slicePitch * i.depth
      [] OTHER -> i.slicePitch * i.arraySize

\* calculatePixelOffset of the raster and the LT-format; the T-format has none.
calculatePixelOffset(i, p) ==
    IF i.accessor = "raster"
    THEN p[1] * ElementSize(i) + p[2] * i.rowPitch + p[3] * i.slicePitch
    ELSE LET mt == Microtile(i)
             tilesPerRow == RowBytes(i) \div (mt[1] * ElementSize(i))
             tile == (p[2] \div mt[2]) * tilesPerRow + (p[1] \div mt[1])
             inTile == (p[2] % mt[2]) * mt[1] + (p[1] % mt[1])
         IN  p[3] * SliceBytes(i) + tile * MicrotileBytes + inTile * ElementSize(i)

PixelAt(i, p) == i.deviceBuffer + calculatePixelOffset(i, p)

\* The pixels of a region in the order they are visited.
Visited(region) ==
    [n \in 1..(region[1] * region[2] * region[3]) |->
        <<(n - 1) % region[1], ((n - 1) \div region[1]) % region[2],
          (n - 1) \div (region[1] * region[2])>>]

Plus(origin, p) == <<origin[1] + p[1], origin[2] + p[2], origin[3] + p[3]>>

\* Moves the pixels one after the other, from and to the addresses given for them.
\* Where the code moves a row at once, the row is contiguous on both sides.
MovePixels(m, region, to(_), from(_), size) ==
    FoldLeft(LAMBDA acc, p : Move(acc, to(p), from(p), size), m, Visited(region))

HostAt(t, size, p) ==
    LET row == IF t.row # 0 THEN t.row ELSE t.region[1] * size
        slice == IF t.slice # 0 THEN t.slice ELSE row * t.region[2]
    IN  t.ptr + p[3] * slice + p[2] * row + p[1] * size

-----------------------------------------------------------------------------
(* Creating images *)

\* A record with the fields of both, as an object of a derived class has them.
Joined(r, s) == [x \in DOMAIN r \cup DOMAIN s |-> IF x \in DOMAIN r THEN r[x] ELSE s[x]]

InheritedFlags(flags, buffer) ==
    LET from == NewBuffer(buffer.flags)
        access == IF from.readable THEN IF from.writeable THEN "READ_WRITE" ELSE "READ_ONLY"
                  ELSE "WRITE_ONLY"
    IN  flags \cup (IF flags \cap MemoryAccess = {} THEN {access} ELSE {})
              \cup (IF flags \cap HostAccess = {} THEN buffer.flags \cap HostAccess ELSE {})

BufferMismatch(flags, buffer) ==
    \/ "WRITE_ONLY" \in buffer.flags /\ flags \cap {"READ_ONLY", "READ_WRITE"} # {}
    \/ "READ_ONLY" \in buffer.flags /\ flags \cap {"WRITE_ONLY", "READ_WRITE"} # {}
    \/ buffer.flags \cap HostPointer # {}
    \/ "HOST_WRITE_ONLY" \in buffer.flags /\ "HOST_READ_ONLY" \in flags
    \/ "HOST_READ_ONLY" \in buffer.flags /\ "HOST_WRITE_ONLY" \in flags
    \/ "HOST_NO_ACCESS" \in buffer.flags /\ flags \cap {"HOST_READ_ONLY", "HOST_WRITE_ONLY"} # {}

DescriptionRefusal(d) ==
    IF MoreThanOne(d.flags, MemoryAccess) \/ MoreThanOne(d.flags, HostAccess) THEN "CL_INVALID_VALUE"
    ELSE IF ~check_image_format(d.format) THEN "CL_IMAGE_FORMAT_NOT_SUPPORTED"
    ELSE IF d.type \notin ImageTypes THEN "CL_INVALID_IMAGE_DESCRIPTOR"
    ELSE IF \/ d.width > MaxDimension
            \/ isImageArray(d.type) /\ d.arraySize > MaxDimension
            \/ numDimensions(d.type) > 1 /\ d.height > MaxDimension
            \/ d.type = "IMAGE3D" /\ d.depth > MaxDimension
         THEN "CL_INVALID_IMAGE_SIZE"
    ELSE IF d.host = NULL /\ (d.row # 0 \/ d.slice # 0) THEN "CL_INVALID_IMAGE_DESCRIPTOR"
    ELSE IF (d.type = "IMAGE1D_BUFFER") # (d.buffer # NULL) THEN "CL_INVALID_IMAGE_DESCRIPTOR"
    ELSE IF d.buffer # NULL /\ BufferMismatch(d.flags, d.buffer) THEN "CL_INVALID_VALUE"
    ELSE IF (d.host = NULL) # (d.flags \cap {"USE_HOST_PTR", "COPY_HOST_PTR"} = {})
         THEN "CL_INVALID_HOST_PTR"
    ELSE "CL_SUCCESS"

\* The Image constructor and its accessor.
NewImage(d) ==
    LET flags == IF d.buffer # NULL THEN InheritedFlags(d.flags, d.buffer)
                 ELSE IF d.flags = {} THEN {"READ_WRITE"} ELSE d.flags
        i == [format |-> d.format, type |-> d.type, width |-> d.width, height |-> d.height,
              depth |-> d.depth, arraySize |-> d.arraySize, rowPitch |-> 0, slicePitch |-> 0]
    IN  Joined(Joined(i, [accessor |-> AccessorOf(i)]), NewBuffer(flags))

\* The image with its pitches, its memory and its host pointer.
CompleteImage(h, i, d) ==
    LET pitched == [i EXCEPT !.rowPitch = RowPitch(i, d.row), !.slicePitch = SlicePitch(i, d.row, d.slice)]
        memory == IF d.buffer # NULL THEN d.buffer.at ELSE ImageAt[h]
    IN  [pitched EXCEPT
            !.deviceBuffer = memory,
            !.hostSize = IF d.buffer # NULL THEN d.buffer.size ELSE calculate_image_size(pitched),
            !.hostPtr = IF i.useHostPtr THEN d.host ELSE IF i.allocHostPtr THEN memory ELSE NULL]

\* The copy of the data the application gives, first of all bytes and then of the
\* pixels.  Data that is only used is not copied.
WithHostData(m, i, d) ==
    IF ~i.copyHostPtr THEN m
    ELSE MovePixels(Move(m, i.deviceBuffer, d.host, i.hostSize), <<i.width, i.height, i.depth>>,
                    LAMBDA p : PixelAt(i, p),
                    LAMBDA p : d.host + p[3] * i.slicePitch + p[2] * i.rowPitch + p[1] * ElementSize(i),
                    ElementSize(i))

\* Why a described image has no memory.
MemoryRefusal(new, complete, d) ==
    IF ~PitchesFit(new, d.row, d.slice) \/ calculate_image_size(complete) = 0 THEN "CL_INVALID_VALUE"
    ELSE IF complete.hostSize > ImageMemory THEN "CL_OUT_OF_RESOURCES"
    ELSE "CL_SUCCESS"

\* Copying pixels into the T-format, which has no offsets yet.
CopyAborts(i) ==
    i.accessor = "T" /\ i.copyHostPtr /\ i.width # 0 /\ i.height # 0 /\ i.depth # 0

clCreateImage(h, d) ==
    LET refusal == DescriptionRefusal(d)
        new == NewImage(d)
        complete == CompleteImage(h, new, d)
        ends == \/ new.accessor = "LT" /\ ~MicroTiled(new)
                \/ DividesByZero(new, d.row, d.slice)
                \/ CopyAborts(new) /\ MemoryRefusal(new, complete, d) = "CL_SUCCESS"
    IN  /\ image[h] = NULL /\ pending = NULL /\ commands = 0
        /\ \/ /\ refusal # "CL_SUCCESS"
              /\ outcome' = refusal
              /\ UNCHANGED <<image, pixels, running>>
           \/ /\ refusal = "CL_SUCCESS" /\ ends
              /\ running' = FALSE
              /\ UNCHANGED <<image, pixels, outcome>>
           \/ /\ refusal = "CL_SUCCESS" /\ ~ends
              /\ outcome' = MemoryRefusal(new, complete, d)
              /\ image' = IF outcome' = "CL_SUCCESS" THEN [image EXCEPT ![h] = complete] ELSE image
              /\ pixels' = IF outcome' = "CL_SUCCESS" THEN WithHostData(pixels, complete, d) ELSE pixels
              /\ UNCHANGED running
        /\ UNCHANGED <<pending, views, commands>>

-----------------------------------------------------------------------------
(* Enqueueing commands *)

\* The region of an image with fewer dimensions should be 1, but it is the origin
\* that has to be 0 and 1: only images with three coordinates have accesses.
checkImageAccess(i, origin, region) ==
    LET n == Coordinates(i.type) IN
    /\ n < 3 => origin[3] = 0
    /\ n < 2 => origin[2] = 0
    /\ \A k \in 1..3 : region[k] # 0
    /\ n < 3 => origin[3] = 1
    /\ n < 2 => origin[2] = 1
    /\ origin[1] + region[1] <= i.width
    /\ numDimensions(i.type) > 1 => origin[2] + region[2] <= i.height
    /\ i.type = "IMAGE3D" => origin[3] + region[3] <= i.depth
    /\ i.type = "IMAGE2D_ARRAY" => origin[3] + region[3] <= i.arraySize
    /\ numDimensions(i.type) = 1 => origin[2] + region[2] \in 1..i.arraySize
    /\ i.format.order = "YUYV" => origin[1] % 2 = 0 /\ region[1] % 2 = 0

checkImageSlices(i, region, row, slice) ==
    /\ region[1] * ElementSize(i) <= row
    /\ numDimensions(i.type) < 3 /\ ~isImageArray(i.type) => slice = 0
    /\ numDimensions(i.type) >= 2 => region[2] * row <= slice

EnqueueImage(refusal, command) ==
    /\ pending = NULL
    /\ outcome' = refusal
    /\ pending' = IF refusal = "CL_SUCCESS" THEN command ELSE NULL

\* enqueueRead and enqueueWrite.
enqueueImageAccess(t) ==
    LET i == image[t.image]
        row == IF t.row # 0 THEN t.row ELSE t.region[1] * ElementSize(i)
        slice == IF t.slice # 0 THEN t.slice ELSE row * t.region[2]
    IN  EnqueueImage(
            IF ~checkImageAccess(i, t.origin, t.region) \/ ~checkImageSlices(i, t.region, row, slice)
            THEN "CL_INVALID_VALUE"
            ELSE IF ~(IF t.op = "write" THEN i.hostWriteable ELSE i.hostReadable)
            THEN "CL_INVALID_OPERATION" ELSE "CL_SUCCESS", t)

\* Mutant: an overlap is only seen when the destination comes first.
RegionsOverlap_IntoFirst(from, to, region) ==
    \A k \in 1..3 : to[k] <= from[k] /\ to[k] + region[k] > from[k]

\* The comparisons of enqueueCopyInto; an image with three coordinates makes all
\* of them, any other image has no overlaps.
RegionsOverlap(from, to, region) ==
    \A k \in 1..3 :
        \/ from[k] <= to[k] /\ from[k] + region[k] > to[k]
        \/ to[k] <= from[k] /\ to[k] + region[k] > from[k]

\* Both regions are checked against the source.
enqueueImageCopy(t) ==
    LET i == image[t.image]
        d == image[t.into]
    IN  EnqueueImage(
            IF i.format # d.format THEN "CL_INVALID_CONTEXT"
            ELSE IF \/ ~checkImageAccess(i, t.origin, t.region)
                    \/ ~checkImageAccess(i, t.intoOrigin, t.region)
                    \/ t.image = t.into /\ Coordinates(i.type) = 3
                       /\ RegionsOverlap(t.origin, t.intoOrigin, t.region)
            THEN "CL_INVALID_VALUE"
            ELSE IF ~i.hostReadable \/ ~d.hostWriteable THEN "CL_INVALID_OPERATION"
            ELSE "CL_SUCCESS", t)

\* The color is copied when the command is enqueued.
enqueueImageFill(t) ==
    LET i == image[t.image] IN
    EnqueueImage(IF checkImageAccess(i, t.origin, t.region) THEN "CL_SUCCESS" ELSE "CL_INVALID_VALUE",
                 Joined(t, [color |-> [k \in 0..(ElementSize(i) - 1) |-> pixels[t.ptr + k]]]))

\* An image and a buffer with memory, as all have, are taken for sharing it.
enqueueCopyFromToBuffer(t) == EnqueueImage("CL_INVALID_MEM_OBJECT", t)

ImageView(t) ==
    LET i == image[t.image] IN
    [image |-> t.image, flags |-> t.flags,
     pointer |-> IF i.useHostPtr THEN i.hostPtr ELSE i.deviceBuffer]

\* The image is copied into the application's memory twice: when the command is
\* enqueued and when it is executed.
enqueueImageMap(t) ==
    LET i == image[t.image]
        refusal == IF \/ ~i.hostReadable /\ "READ" \in t.flags
                      \/ ~i.hostWriteable /\ t.flags \cap {"WRITE", "INVALIDATE"} # {}
                   THEN "CL_INVALID_OPERATION"
                   ELSE IF checkImageAccess(i, t.origin, t.region) THEN "CL_SUCCESS"
                   ELSE "CL_INVALID_VALUE"
    IN  /\ EnqueueImage(refusal, [op |-> "map", view |-> ImageView(t)])
        /\ views' = IF refusal = "CL_SUCCESS" THEN views \cup {ImageView(t)} ELSE views
        /\ pixels' = IF refusal = "CL_SUCCESS" THEN CopyIntoHost(pixels, i) ELSE pixels

AsksImage(t, op) ==
    /\ t.op = op
    /\ running /\ commands < MaxCommands /\ image[t.image] # NULL
    /\ commands' = commands + 1
    /\ UNCHANGED <<image, running>>

NoView == UNCHANGED <<views, pixels>>

clEnqueueReadImage(t) == AsksImage(t, "read") /\ enqueueImageAccess(t) /\ NoView
clEnqueueWriteImage(t) == AsksImage(t, "write") /\ enqueueImageAccess(t) /\ NoView
clEnqueueCopyImage(t) ==
    AsksImage(t, "copy") /\ image[t.into] # NULL /\ enqueueImageCopy(t) /\ NoView
clEnqueueFillImage(t) == AsksImage(t, "fill") /\ enqueueImageFill(t) /\ NoView
clEnqueueCopyImageToBuffer(t) ==
    AsksImage(t, "copyToBuffer") /\ enqueueCopyFromToBuffer(t) /\ NoView
clEnqueueCopyBufferToImage(t) ==
    AsksImage(t, "copyFromBuffer") /\ enqueueCopyFromToBuffer(t) /\ NoView
clEnqueueMapImage(t) == AsksImage(t, "map") /\ enqueueImageMap(t)

\* Buffer::enqueueUnmap, which images inherit.
enqueueImageUnmap(v) ==
    /\ running /\ pending = NULL
    /\ outcome' = "CL_SUCCESS"
    /\ pending' = [op |-> "unmap", view |-> v]
    /\ UNCHANGED <<image, pixels, views, commands, running>>

-----------------------------------------------------------------------------
(* Executing commands *)

Device(i, origin, p) == PixelAt(i, Plus(origin, p))

Painted(m, i, t) ==
    FoldLeft(LAMBDA acc, p : LET a == Device(i, t.origin, p) IN
                             [x \in DOMAIN acc |-> IF x - a \in DOMAIN t.color THEN t.color[x - a] ELSE acc[x]],
             m, Visited(t.region))

ExecutedImage(m, t) ==
    LET i == IF t.op \in {"map", "unmap"} THEN image[t.view.image] ELSE image[t.image]
        size == ElementSize(i)
    IN  CASE t.op = "write" ->
                 MovePixels(m, t.region, LAMBDA p : Device(i, t.origin, p), LAMBDA p : HostAt(t, size, p), size)
          [] t.op = "read" ->
                 MovePixels(m, t.region, LAMBDA p : HostAt(t, size, p), LAMBDA p : Device(i, t.origin, p), size)
          [] t.op = "copy" ->
                 MovePixels(m, t.region, LAMBDA p : Device(image[t.into], t.intoOrigin, p),
                            LAMBDA p : Device(i, t.origin, p), size)
          [] t.op = "fill" -> Painted(m, i, t)
          [] t.op = "map" -> IF "INVALIDATE" \in t.view.flags THEN m ELSE CopyIntoHost(m, i)
          [] t.op = "unmap" -> IF t.view.flags = {"READ"} THEN m ELSE CopyFromHost(m, i)

\* The images whose pixels a command visits.
Visits(t) ==
    CASE t.op \in {"map", "unmap"} -> {}
      [] t.op = "copy" -> {t.image, t.into}
      [] OTHER -> {t.image}

executeImage ==
    /\ running /\ pending # NULL
    /\ \/ /\ \E h \in Visits(pending) : image[h].accessor = "T"
          /\ running' = FALSE
          /\ UNCHANGED <<pixels, pending, views>>
       \/ /\ \A h \in Visits(pending) : image[h].accessor # "T"
          /\ pixels' = ExecutedImage(pixels, pending)
          /\ views' = IF pending.op = "unmap" THEN views \ {pending.view} ELSE views
          /\ pending' = NULL
          /\ UNCHANGED running
    /\ UNCHANGED <<image, commands, outcome>>

PixelWritten == 10000  \* a value no byte has at the beginning

\* The application writes to the first byte of an image it has mapped for writing.
WriteView(v) ==
    /\ running /\ v.flags # {"READ"} /\ pending = NULL
    /\ pixels' = [pixels EXCEPT ![v.pointer] = PixelWritten]
    /\ UNCHANGED <<image, pending, views, commands, running, outcome>>

-----------------------------------------------------------------------------

ImagesInit ==
    /\ image = [h \in ImageHandles |-> NULL]
    /\ pixels = [a \in ImageAddresses |-> a]
    /\ pending = NULL
    /\ views = {}
    /\ commands = 0
    /\ running = TRUE
    /\ outcome = "CL_SUCCESS"

ImagesNext ==
    \/ \E h \in ImageHandles : \E d \in Descriptions[h] : running /\ clCreateImage(h, d)
    \/ \E t \in ImageCommands :
          \/ clEnqueueReadImage(t) \/ clEnqueueWriteImage(t) \/ clEnqueueCopyImage(t)
          \/ clEnqueueFillImage(t) \/ clEnqueueCopyImageToBuffer(t)
          \/ clEnqueueCopyBufferToImage(t) \/ clEnqueueMapImage(t)
    \/ \E v \in views : enqueueImageUnmap(v) \/ WriteView(v)
    \/ executeImage

ImagesSpec == ImagesInit /\ [][ImagesNext]_imageVars

-----------------------------------------------------------------------------
(* Properties *)

Layers(i) == IF i.type = "IMAGE3D" THEN i.depth ELSE IF i.type = "IMAGE2D_ARRAY" THEN i.arraySize ELSE 1
Lines(i) ==
    IF numDimensions(i.type) > 1 THEN i.height ELSE IF isImageArray(i.type) THEN i.arraySize ELSE 1
PixelsOf(i) == (0..(i.width - 1)) \X (0..(Lines(i) - 1)) \X (0..(Layers(i) - 1))

\* Pitches the document allows: the code also takes smaller ones.
RegularPitches(i) ==
    /\ i.rowPitch >= i.width * ElementSize(i)
    /\ i.type = "IMAGE1D_ARRAY" => i.slicePitch >= i.rowPitch
    /\ numDimensions(i.type) > 1 => i.slicePitch >= i.rowPitch * i.height

\* Images that have a layout; an image in tiles with fewer than three coordinates
\* is given too little memory for its tiles, but no command reaches its pixels.
HasLayout(i) ==
    /\ RegularPitches(i) /\ i.type # "IMAGE1D_BUFFER"
    /\ i.accessor = "raster" \/ (i.accessor = "LT" /\ Coordinates(i.type) = 3)

\* In either layout every pixel of an image has bytes of its own, within the
\* memory that was calculated and allocated for the image.
PixelsApart ==
    \A h \in ImageHandles : image[h] # NULL /\ HasLayout(image[h]) =>
        LET i == image[h] IN
        /\ \A p \in PixelsOf(i) :
               calculatePixelOffset(i, p) \in 0..(calculate_image_size(i) - ElementSize(i))
        /\ \A p, q \in PixelsOf(i) : p # q =>
               LET distance == calculatePixelOffset(i, p) - calculatePixelOffset(i, q)
               IN  distance >= ElementSize(i) \/ -distance >= ElementSize(i)

BytesAt(m, a, n) == [k \in 0..(n - 1) |-> m[a + k]]
Contents(m, i) == [p \in PixelsOf(i) |-> BytesAt(m, PixelAt(i, p), ElementSize(i))]

InRegion(p, origin, region) == \A k \in 1..3 : p[k] \in origin[k]..(origin[k] + region[k] - 1)
Minus(p, q) == <<p[1] - q[1], p[2] - q[2], p[3] - q[3]>>

Destination(t) == IF t.op = "copy" THEN t.into ELSE t.image
IntoOrigin(t) == IF t.op = "copy" THEN t.intoOrigin ELSE t.origin

\* The region a command writes lies inside the image it writes to, which the code
\* does not ensure for copies.
InsideDestination(t) ==
    \A k \in 1..3 :
        IntoOrigin(t)[k] + t.region[k]
            <= <<image[Destination(t)].width, Lines(image[Destination(t)]), Layers(image[Destination(t)])>>[k]

\* What a command that writes an image puts into the pixel at p of its region.
Expected(t, p) ==
    LET size == ElementSize(image[t.image])
    IN  CASE t.op = "write" -> BytesAt(pixels, HostAt(t, size, p), size)
          [] t.op = "fill" -> t.color
          [] t.op = "copy" -> BytesAt(pixels, Device(image[t.image], t.origin, p), size)

\* Commands act on images as on arrays of pixels, whatever their layout: a write,
\* a fill or a copy changes the pixels of its region to those that were at its
\* source before the command, and no other pixel of any image; a read changes none.
EffectOnPixels ==
    [][/\ executeImage /\ running' /\ pending.op \notin {"map", "unmap"}
       /\ \A h \in Visits(pending) : HasLayout(image[h])
       /\ InsideDestination(pending)
       => LET t == pending
              size == ElementSize(image[t.image])
          IN  /\ \A h \in ImageHandles : image[h] # NULL /\ HasLayout(image[h]) =>
                     Contents(pixels', image[h]) =
                         [p \in PixelsOf(image[h]) |->
                             IF /\ t.op # "read" /\ h = Destination(t)
                                /\ InRegion(p, IntoOrigin(t), t.region)
                             THEN Expected(t, Minus(p, IntoOrigin(t)))
                             ELSE Contents(pixels, image[h])[p]]
              /\ t.op = "read" =>
                     \A p \in PixelsOf(image[t.image]) : InRegion(p, t.origin, t.region) =>
                         BytesAt(pixels', HostAt(t, size, Minus(p, t.origin)), size)
                             = Contents(pixels, image[t.image])[p]
      ]_imageVars

================================================================================
