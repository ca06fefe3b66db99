------------------------------- MODULE WorkSizes -------------------------------
(***************************************************************************)
(* How Kernel.cpp checks and splits the sizes of an ND-range and how       *)
(* executor.cpp walks through its work-groups and work-items.              *)
(*                                                                         *)
(* Sizes, offsets and indices are triples of size_t values; a size_t has   *)
(* SizeMod values, so products, sums and increments wrap around.           *)
(*                                                                         *)
(* A request is a record with the arguments of clEnqueueNDRangeKernel and  *)
(* the properties of the kernel:                                           *)
(*   state           outcome of the checks that do not look at the sizes   *)
(*   dim             work_dim                                              *)
(*   offset, global, local  the sizes, NULL where no pointer is given      *)
(*   reqd            compile-time work-group size, zeros if there is none  *)
(*   merge           workItemMergeFactor                                   *)
(*   loop            the code loops over the work-groups by itself         *)
(***************************************************************************)
EXTENDS Naturals, FiniteSetsExt

CONSTANTS
    NumQPUs,    \* QPUs of the device
    SizeMod,    \* number of values of a size_t
    NULL        \* no pointer given

ASSUME WorkSizesAssumption ==
    /\ NumQPUs \in Nat \ {0}
    /\ SizeMod \in Nat /\ SizeMod > NumQPUs + 2

Dims == 1..3
Triple(S) == S \X S \X S
Sizes == 0..(SizeMod - 1)

MaxWorkItems == SizeMod - 2

\* The product as a number, and as the program computes it.
ExactProduct(v) == v[1] * v[2] * v[3]
Product(v) == ExactProduct(v) % SizeMod

MergeFactor(r) == Max({r.merge, 1})
MaxGroupSize(r) == NumQPUs * MergeFactor(r)

\* The dimensions that are not given are filled up.
Fill(v, dim, filler) == <<v[1], IF dim > 1 THEN v[2] ELSE filler,
                                IF dim > 2 THEN v[3] ELSE filler>>

Offsets(r) == IF r.offset = NULL THEN <<0, 0, 0>> ELSE Fill(r.offset, r.dim, 0)
GlobalSizes(r) == Fill(r.global, r.dim, 1)

-----------------------------------------------------------------------------
(* Splitting the global sizes when no local size is given *)

FitsCompileSize(r) ==
    /\ r.reqd # <<0, 0, 0>>
    /\ \A d \in Dims : GlobalSizes(r)[d] % r.reqd[d] = 0
    /\ ExactProduct(r.reqd) <= MaxGroupSize(r)

\* Only the first dimension is split, by its largest divisor that fits.
LargestDivisor(n, limit) == Max({k \in 1..limit : n % k = 0})

\* In one work-group if possible, else by splitting the first dimension.
split_global_work_size(r) ==
    IF Product(GlobalSizes(r)) <= MaxGroupSize(r)
    THEN GlobalSizes(r)
    ELSE <<LargestDivisor(GlobalSizes(r)[1], MaxGroupSize(r)), 1, 1>>

\* All given sizes have to differ from the compile-time size to be refused.
CompileSizeMismatch(r) ==
    /\ r.reqd[1] # 0
    /\ \A d \in 1..r.dim : r.local[d] # r.reqd[d]

\* The local sizes that are checked, and used if the checks pass.
LocalSizes(r) ==
    IF r.local # NULL THEN Fill(r.local, r.dim, 1)
    ELSE IF FitsCompileSize(r) THEN r.reqd
    ELSE split_global_work_size(r)

-----------------------------------------------------------------------------
(* Kernel::setWorkGroupSizes: its outcome *)

ExceedsLimit(v) == \E d \in Dims : v[d] > MaxWorkItems

OffsetExceedsLimit(r) ==
    \E d \in Dims : (GlobalSizes(r)[d] + Offsets(r)[d]) % SizeMod > MaxWorkItems

Divides(r) == \A d \in Dims :
    LocalSizes(r)[d] # 0 => GlobalSizes(r)[d] % LocalSizes(r)[d] = 0

setWorkGroupSizes(r) ==
    IF r.state # "CL_SUCCESS" THEN r.state
    ELSE IF r.dim \notin Dims THEN "CL_INVALID_WORK_DIMENSION"
    ELSE IF r.global = NULL THEN "CL_INVALID_GLOBAL_WORK_SIZE"
    ELSE IF r.local # NULL /\ CompileSizeMismatch(r) THEN "CL_INVALID_WORK_GROUP_SIZE"
    ELSE IF ExceedsLimit(GlobalSizes(r)) THEN "CL_INVALID_GLOBAL_WORK_SIZE"
    ELSE IF OffsetExceedsLimit(r) THEN "CL_INVALID_GLOBAL_OFFSET"
    ELSE IF Product(LocalSizes(r)) > MaxGroupSize(r) THEN "CL_INVALID_WORK_GROUP_SIZE"
    ELSE IF ~Divides(r) THEN "CL_INVALID_WORK_GROUP_SIZE"
    ELSE "CL_SUCCESS"

-----------------------------------------------------------------------------
(* executor.cpp *)

\* Mutant: one QPU more even if the work-items fill the QPUs.
QPUsNeeded_Plus1(r, local) == Product(local) \div MergeFactor(r) + 1

\* The QPUs that execute one work-group, each of them MergeFactor work-items.
QPUsNeeded(r, local) ==
    LET size == Product(local)
        rest == IF size % MergeFactor(r) = 0 THEN 0 ELSE 1
    IN  size \div MergeFactor(r) + rest

GroupLimits(r, local) == [d \in Dims |-> GlobalSizes(r)[d] \div local[d]]

\* Mutant: a carry forgets to set the second index back.
increment_NoReset(indices, limits) ==
    LET carry1 == indices[1] + 1 >= limits[1]
        second == IF carry1 THEN (indices[2] + 1) % SizeMod ELSE indices[2]
        carry2 == carry1 /\ second = limits[2]
    IN  <<IF carry1 THEN indices[1] + 1 - limits[1] ELSE indices[1] + 1,
          second,
          IF carry2 THEN indices[3] + 1 ELSE indices[3]>>

\* The second index carries into the third only if it equals its limit.
increment_index(indices, limits) ==
    LET carry1 == indices[1] + 1 >= limits[1]
        second == IF carry1 THEN (indices[2] + 1) % SizeMod ELSE indices[2]
        carry2 == carry1 /\ second = limits[2]
    IN  <<IF carry1 THEN indices[1] + 1 - limits[1] ELSE indices[1] + 1,
          IF carry2 THEN 0 ELSE second,
          IF carry2 THEN indices[3] + 1 ELSE indices[3]>>

InLimits(indices, limits) == indices[3] < limits[3]

\* local_indices of the QPU started as number i, counted from 0.
LocalIndices(local, i) ==
    LET f[n \in 0..i] == IF n = 0 THEN <<0, 0, 0>> ELSE increment_index(f[n - 1], local)
    IN  f[i]
================================================================================
