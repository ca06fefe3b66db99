------------------------- MODULE KernelExecutionProofs -------------------------
(***************************************************************************)
(* Proofs about the execution of kernels, for a device with any number of  *)
(* QPUs and a size_t of any width.  What Kernel::setWorkGroupSizes accepts *)
(* is what executeKernel can start; the QPUs work on one group at a time   *)
(* with memory that stays allocated; and the walk through the groups       *)
(* executes each work-item of the range once.                              *)
(***************************************************************************)
EXTENDS KernelExecution, FiniteSetTheorems, WellFoundedInduction, TLAPS

-----------------------------------------------------------------------------
(* Arithmetic *)

LEMMA Division ==
    ASSUME NEW n \in Nat, NEW m \in Nat \ {0}
    PROVE  /\ n \div m \in Nat /\ n % m \in 0..(m - 1)
           /\ n = m * (n \div m) + (n % m)
<1>1. n \div m \in Int /\ n % m \in 0..(m - 1)
  OBVIOUS
<1>2. n = m * (n \div m) + (n % m)
  OBVIOUS
<1>3. n \div m >= 0
  BY <1>1, <1>2
<1> QED
  BY <1>1, <1>2, <1>3

LEMMA SmallerFactor ==
    ASSUME NEW a \in Nat, NEW b \in Nat, NEW m \in Nat \ {0}, m * a <= b * m
    PROVE  a <= b
<1>1. SUFFICES ASSUME a >= b + 1 PROVE FALSE
  OBVIOUS
<1>2. m * a >= m * (b + 1)
  BY <1>1
<1> QED
  BY <1>2

LEMMA ModSmaller ==
    ASSUME NEW n \in Nat, NEW m \in Nat \ {0}
    PROVE  n % m \in Nat /\ n % m <= n /\ (n < m => n % m = n)
  BY Division

LEMMA ProductIsNat ==
    ASSUME NEW v \in Triple(Nat)
    PROVE  ExactProduct(v) \in Nat
  BY DEF Triple, ExactProduct

\* No factor is zero if the product is not.
LEMMA FactorsPositive ==
    ASSUME NEW v \in Triple(Nat), ExactProduct(v) > 0
    PROVE  \A d \in Dims : v[d] \in Nat \ {0}
<1>1. /\ v[1] \in Nat /\ v[2] \in Nat /\ v[3] \in Nat
      /\ v[1] * v[2] * v[3] > 0
  BY DEF Triple, ExactProduct
<1>2. v[1] # 0 /\ v[2] # 0 /\ v[3] # 0
  BY <1>1
<1> QED
  BY <1>1, <1>2 DEF Dims

\* The largest element of a set of numbers that has a bound.
LEMMA MaxFacts ==
    ASSUME NEW S, S \subseteq Nat, S # {}, NEW bound \in Nat, \A x \in S : x <= bound
    PROVE  Max(S) \in S /\ \A y \in S : Max(S) >= y
<1> DEFINE T == {bound - x : x \in S}
<1>1. T \subseteq Nat /\ T # {}
  <2>1. ASSUME NEW x \in S
        PROVE  bound - x \in Nat
    <3>1. x \in Nat /\ x <= bound
      OBVIOUS
    <3> QED
      BY <3>1
  <2> QED
    BY <2>1
<1>2. PICK t \in T : \A u \in T : ~ (<<u, t>> \in OpToRel(<, Nat))
  BY <1>1, NatLessThanWellFounded, WFMin
<1>3. PICK x \in S : t = bound - x
  OBVIOUS
<1>4. ASSUME NEW y \in S
      PROVE  x >= y
  <2>1. bound - y \in T /\ bound - y \in Nat /\ t \in Nat
    BY <1>1
  <2>2. ~ (bound - y < t)
    BY <1>2, <2>1 DEF OpToRel
  <2> QED
    BY <1>3, <2>2
<1> QED
  BY <1>4 DEF Max

-----------------------------------------------------------------------------
(* The sizes of a request *)

LEMMA MergeFactorFacts ==
    ASSUME NEW r \in Requests
    PROVE  MergeFactor(r) \in Nat \ {0} /\ MaxGroupSize(r) \in Nat \ {0}
<1>1. r.merge \in Nat
  BY RequestsAssumption
<1>2. Max({r.merge, 1}) \in {r.merge, 1} /\ Max({r.merge, 1}) >= 1
  <2>1. \A x \in {r.merge, 1} : x \in Nat /\ x <= r.merge + 1
    BY <1>1
  <2> QED
    BY <1>1, <2>1, MaxFacts
<1>3. MergeFactor(r) \in Nat \ {0}
  BY <1>1, <1>2 DEF MergeFactor
<1> QED
  BY <1>3, WorkSizesAssumption DEF MaxGroupSize

LEMMA FilledSizes ==
    ASSUME NEW v \in Triple(Sizes), NEW dim \in Nat, NEW filler \in Nat
    PROVE  Fill(v, dim, filler) \in Triple(Nat)
  BY DEF Triple, Sizes, Fill

\* Without a local size, one of dimension 1 that divides the range is found.
LEMMA LargestDivisorFacts ==
    ASSUME NEW n \in Nat, NEW limit \in Nat \ {0}
    PROVE  LargestDivisor(n, limit) \in 1..limit
<1> DEFINE S == {k \in 1..limit : n % k = 0}
<1>1. 1 \in S
  OBVIOUS
<1>2. S \subseteq Nat /\ \A x \in S : x <= limit
  OBVIOUS
<1>3. Max(S) \in S
  BY <1>1, <1>2, MaxFacts
<1> QED
  BY <1>3 DEF LargestDivisor

LEMMA AcceptedFacts ==
    ASSUME NEW r \in Requests, setWorkGroupSizes(r) = "CL_SUCCESS"
    PROVE  /\ r.global \in Triple(Sizes) /\ (r.local # NULL => r.local \in Triple(Sizes))
           /\ ~ (Product(LocalSizes(r)) > MaxGroupSize(r)) /\ Divides(r)
<1>1. /\ r.global # NULL
      /\ ~ (Product(LocalSizes(r)) > MaxGroupSize(r)) /\ Divides(r)
  BY DEF setWorkGroupSizes
<1>2. r.global \in Triple(Sizes) /\ (r.local # NULL => r.local \in Triple(Sizes))
  BY <1>1, RequestsAssumption
<1> QED
  BY <1>1, <1>2

\* What is split off by any of the three ways has no more work-items than the
\* QPUs can execute at once, although the check is made on a wrapped product.
LEMMA LocalSizesFit ==
    ASSUME NEW r \in Requests, setWorkGroupSizes(r) = "CL_SUCCESS", Countable(r)
    PROVE  /\ LocalSizes(r) \in Triple(Nat) /\ GlobalSizes(r) \in Triple(Nat)
           /\ ExactProduct(LocalSizes(r)) <= MaxGroupSize(r)
<1>1. r.dim \in Nat /\ r.reqd \in Triple(Sizes)
  BY RequestsAssumption
<1>2. GlobalSizes(r) \in Triple(Nat)
  BY <1>1, AcceptedFacts, FilledSizes DEF GlobalSizes
<1>3. CASE r.local # NULL
  <2> DEFINE l == Fill(r.local, r.dim, 1)
  <2>1. LocalSizes(r) = l /\ l \in Triple(Nat)
    BY <1>1, <1>3, AcceptedFacts, FilledSizes DEF LocalSizes
  <2>2. ExactProduct(l) \in Nat /\ ExactProduct(l) < SizeMod
    BY <1>3, <2>1, ProductIsNat DEF Countable
  <2>3. Product(l) = ExactProduct(l)
    BY <2>2, WorkSizesAssumption, ModSmaller DEF Product
  <2> QED
    BY <1>2, <2>1, <2>2, <2>3, AcceptedFacts, MergeFactorFacts
<1>4. CASE r.local = NULL /\ FitsCompileSize(r)
  <2>1. LocalSizes(r) = r.reqd /\ ExactProduct(r.reqd) <= MaxGroupSize(r)
    BY <1>4 DEF LocalSizes, FitsCompileSize
  <2>2. r.reqd \in Triple(Nat)
    BY <1>1 DEF Triple, Sizes
  <2> QED
    BY <1>2, <2>1, <2>2
<1>5. CASE r.local = NULL /\ ~FitsCompileSize(r)
  <2>1. LocalSizes(r) = split_global_work_size(r)
    BY <1>5 DEF LocalSizes
  <2>2. CASE Product(GlobalSizes(r)) <= MaxGroupSize(r)
    <3>1. ExactProduct(GlobalSizes(r)) \in Nat /\ ExactProduct(GlobalSizes(r)) < SizeMod
      BY <1>2, ProductIsNat DEF Countable
    <3>2. Product(GlobalSizes(r)) = ExactProduct(GlobalSizes(r))
      BY <3>1, WorkSizesAssumption, ModSmaller DEF Product
    <3> QED
      BY <1>2, <2>1, <2>2, <3>2 DEF split_global_work_size
  <2>3. CASE ~ (Product(GlobalSizes(r)) <= MaxGroupSize(r))
    <3> DEFINE k == LargestDivisor(GlobalSizes(r)[1], MaxGroupSize(r))
    <3>1. LocalSizes(r) = <<k, 1, 1>>
      BY <2>1, <2>3 DEF split_global_work_size
    <3>2. GlobalSizes(r)[1] \in Nat /\ MaxGroupSize(r) \in Nat \ {0}
      BY <1>2, MergeFactorFacts DEF Triple
    <3>3. k \in 1..MaxGroupSize(r)
      BY <3>2, LargestDivisorFacts
    <3> HIDE DEF k
    <3>4. k \in Nat /\ ExactProduct(<<k, 1, 1>>) = k /\ <<k, 1, 1>> \in Triple(Nat)
      BY <3>2, <3>3 DEF ExactProduct, Triple
    <3> QED
      BY <1>2, <3>1, <3>2, <3>3, <3>4
  <2> QED
    BY <2>2, <2>3
<1> QED
  BY <1>3, <1>4, <1>5

\* A group that fits is executed by QPUs the device has.
LEMMA QPUsSuffice ==
    ASSUME NEW r \in Requests, NEW v \in Triple(Nat), ExactProduct(v) <= MaxGroupSize(r)
    PROVE  QPUsNeeded(r, v) \in 0..NumQPUs
<1> DEFINE size == Product(v)
           m == MergeFactor(r)
<1>1. m \in Nat \ {0} /\ MaxGroupSize(r) = NumQPUs * m /\ NumQPUs \in Nat
  BY MergeFactorFacts, WorkSizesAssumption DEF MaxGroupSize
<1>2. size \in Nat /\ size <= NumQPUs * m
  <2>1. ExactProduct(v) \in Nat /\ SizeMod \in Nat \ {0}
    BY ProductIsNat, WorkSizesAssumption
  <2>2. size \in Nat /\ size <= ExactProduct(v)
    BY <2>1, ModSmaller DEF Product
  <2> QED
    BY <1>1, <2>1, <2>2
<1> HIDE DEF size, m
<1>3. /\ size \div m \in Nat /\ size % m \in Nat
      /\ size = m * (size \div m) + (size % m)
  <2>1. size \div m \in Nat /\ size % m \in 0..(m - 1)
    BY <1>1, <1>2, Division
  <2>2. size = m * (size \div m) + (size % m)
    BY <1>1, <1>2, Division
  <2> QED
    BY <1>1, <2>1, <2>2
<1>4. size \div m <= NumQPUs
  <2>1. m * (size \div m) <= NumQPUs * m
    BY <1>1, <1>2, <1>3
  <2> QED
    BY <1>1, <1>3, <2>1, SmallerFactor
<1>5. size % m # 0 => size \div m < NumQPUs
  <2>1. ASSUME size % m # 0
        PROVE  size \div m < NumQPUs
    <3>1. m * (size \div m) < NumQPUs * m
      BY <1>1, <1>2, <1>3, <2>1
    <3>2. size \div m # NumQPUs
      BY <1>1, <3>1
    <3>3. size \div m \in Nat /\ NumQPUs \in Nat
      BY <1>1, <1>3
    <3> QED
      BY <1>4, <3>2, <3>3
  <2> QED
    BY <2>1
<1>6. QPUsNeeded(r, v) = size \div m + (IF size % m = 0 THEN 0 ELSE 1)
  BY DEF QPUsNeeded, size, m
<1> QED
  BY <1>1, <1>3, <1>4, <1>5, <1>6

-----------------------------------------------------------------------------
(* Accepted sizes *)

\* A kernel that is executed has the sizes that were checked.
SizesInv ==
    /\ pc \in {"idle", "ready", "launch", "prepare", "wait", "finish"}
    /\ pc # "idle" =>
        /\ request \in Requests /\ setWorkGroupSizes(request) = "CL_SUCCESS"
        /\ localSizes = LocalSizes(request)

LEMMA SizesInit == Init => SizesInv
  BY DEF Init, SizesInv

LEMMA SizesStep == SizesInv /\ [Next]_vars => SizesInv'
<1> SUFFICES ASSUME SizesInv, [Next]_vars PROVE SizesInv'
  OBVIOUS
<1>1. ASSUME NEW r \in Requests, enqueueNDRange(r)
      PROVE  SizesInv'
  BY <1>1 DEF enqueueNDRange, SizesInv
<1>2. ASSUME UNCHANGED <<request, localSizes>>, pc' # "idle" => pc # "idle",
             pc' \in {"idle", "ready", "launch", "prepare", "wait", "finish"}
      PROVE  SizesInv'
  BY <1>2 DEF SizesInv
<1>3. CASE ReleaseMemObject \/ QPUStep \/ UNCHANGED vars
  BY <1>2, <1>3 DEF SizesInv, ReleaseMemObject, QPUStep, StartProgram, EndProgram, StartStray, EndStray,
     hostVars, vars
<1>4. CASE executeKernel
  <2>1. /\ UNCHANGED <<request, localSizes>> /\ pc # "idle"
        /\ pc' \in {"idle", "launch", "prepare", "wait", "finish"}
    BY <1>4 DEF executeKernel, executeKernel_Refuse, executeKernel_Begin, executeQPU,
           PrepareNext, WaitForGroup, WaitForLast, Return
  <2> QED
    BY <1>2, <2>1
<1> QED
  BY <1>1, <1>3, <1>4 DEF Next

\* The limits times the local sizes are the global sizes: the groups tile the range.
LEMMA GroupsTile ==
    ASSUME NEW r \in Requests, setWorkGroupSizes(r) = "CL_SUCCESS", Countable(r),
           ExactProduct(LocalSizes(r)) > 0, NEW d \in Dims
    PROVE  GroupLimits(r, LocalSizes(r))[d] * LocalSizes(r)[d] = GlobalSizes(r)[d]
<1> DEFINE g == GlobalSizes(r)[d]
           l == LocalSizes(r)[d]
<1>1. l \in Nat \ {0} /\ g \in Nat
  BY LocalSizesFit, FactorsPositive DEF Triple, Dims
<1>2. g % l = 0
  BY <1>1, AcceptedFacts DEF Divides
<1>3. GroupLimits(r, LocalSizes(r))[d] = g \div l
  BY DEF GroupLimits
<1> HIDE DEF g, l
<1>4. g = l * (g \div l) + (g % l) /\ g \div l \in Nat
  BY <1>1, Division
<1>5. (g \div l) * l = g
  BY <1>1, <1>2, <1>4
<1> QED
  BY <1>3, <1>5 DEF g, l

\* The executor never has to refuse a kernel for its sizes after the enqueue call
\* accepted them, and the work-groups it walks through make up the whole range,
\* on a device with any number of QPUs and for a size_t of any width.
THEOREM AcceptedKernelsFit == Spec => []AcceptedFitsDevice
<1>1. SizesInv => AcceptedFitsDevice
  <2> SUFFICES ASSUME SizesInv, pc = "ready", Countable(request)
               PROVE  /\ ExactProduct(localSizes) <= MaxGroupSize(request)
                      /\ QPUsNeeded(request, localSizes) <= NumQPUs
                      /\ ExactProduct(localSizes) > 0 =>
                             \A d \in Dims : Limits[d] * localSizes[d] = GlobalSizes(request)[d]
    BY DEF AcceptedFitsDevice
  <2>1. /\ request \in Requests /\ setWorkGroupSizes(request) = "CL_SUCCESS"
        /\ localSizes = LocalSizes(request)
    BY DEF SizesInv
  <2>2. localSizes \in Triple(Nat) /\ ExactProduct(localSizes) <= MaxGroupSize(request)
    BY <2>1, LocalSizesFit
  <2>3. QPUsNeeded(request, localSizes) \in 0..NumQPUs
    BY <2>1, <2>2, QPUsSuffice
  <2>4. ExactProduct(localSizes) > 0 =>
            \A d \in Dims : Limits[d] * localSizes[d] = GlobalSizes(request)[d]
    BY <2>1, GroupsTile DEF Limits
  <2>5. NumQPUs \in Nat
    BY WorkSizesAssumption
  <2> QED
    BY <2>2, <2>3, <2>4, <2>5
<1> QED
  BY <1>1, SizesInit, SizesStep, PTL DEF Spec

-----------------------------------------------------------------------------
(* One group at a time *)

\* The QPUs have been started for a work-group and not yet been waited for.
Launched == {"prepare", "wait", "finish"}

\* The work-group they have been started for, or are next, and its block.
CurrentBlock == IF pc = "wait" THEN 1 - block ELSE block
CurrentGroup == IF pc = "wait" THEN uniforms[1 - block][0].group ELSE group

\* The QPUs whose programs are still to end, and those whose programs have ended.
PendingQPUs == {p.qpu : p \in Busy}
EndedQPUs == IF pc \in Launched THEN UsedQPUs \ PendingQPUs ELSE {}

\* What QPU number i executes for the current work-group.
ItemsOf(i) == WorkItems(uniforms[CurrentBlock][i])

\* What is allocated is let go of when executeKernel returns.
OwnedInv ==
    /\ pc # "idle" => Tracked \subseteq owned
    /\ pc \in Launched \cup {"launch"} => "kernel" \in owned

\* A work-group that is started or prepared has its UNIFORMs in its own block.
BlocksInv ==
    pc \in Launched \cup {"launch"} =>
        /\ QPUsNeeded(request, localSizes) \in 1..NumQPUs
        /\ block \in {0, 1} /\ DOMAIN uniforms = {0, 1}
        /\ uniforms[block] = WorkItemInfo(group)
        /\ uniforms[CurrentBlock] = WorkItemInfo(CurrentGroup)

\* Every QPU of the work-group has one program, which is requested, runs or has
\* ended and been counted, and which finds or has found the group's UNIFORMs.
ProgramsInv ==
    /\ strays = [queued |-> 0, running |-> 0]
    /\ pc \notin Launched => Busy = {}
    /\ pc \in Launched =>
        /\ \A p \in queued : p.qpu \in UsedQPUs
              /\ p = [kernel |-> kernel, qpu |-> p.qpu, block |-> CurrentBlock]
        /\ \A p \in running : p.qpu \in UsedQPUs
              /\ p = [kernel |-> kernel, qpu |-> p.qpu, group |-> CurrentGroup,
                      items |-> ItemsOf(p.qpu)]
        /\ \A p \in queued, q \in running : p.qpu # q.qpu
        /\ completed = Cardinality(EndedQPUs)

DeviceInv == late \in Nat /\ (late = 0 => ProgramsInv)

LEMMA OwnedInit == Init => OwnedInv
  BY DEF Init, OwnedInv, Launched

LEMMA OwnedStep == OwnedInv /\ [Next]_vars => OwnedInv'
<1> SUFFICES ASSUME OwnedInv, [Next]_vars PROVE OwnedInv'
  OBVIOUS
<1>1. ASSUME NEW r \in Requests, enqueueNDRange(r)
      PROVE  OwnedInv'
  BY <1>1 DEF enqueueNDRange, OwnedInv, Launched
<1>2. CASE ReleaseMemObject \/ QPUStep \/ UNCHANGED vars
  BY <1>2 DEF OwnedInv, Launched, ReleaseMemObject, QPUStep, StartProgram, EndProgram, StartStray,
     EndStray, hostVars, vars
<1>3. CASE executeKernel
  BY <1>3 DEF OwnedInv, Launched, executeKernel, executeKernel_Refuse, executeKernel_Begin,
     executeQPU, PrepareNext, WaitForGroup, WaitForLast, Return
<1> QED
  BY <1>1, <1>2, <1>3 DEF Next

\* The first QPU has the group it works for in its UNIFORMs, as all others.
LEMMA InfoFacts ==
    ASSUME NEW g, QPUsNeeded(request, localSizes) \in 1..NumQPUs
    PROVE  /\ 0 \in UsedQPUs /\ UsedQPUs \subseteq QPUs
           /\ \A i \in UsedQPUs : WorkItemInfo(g)[i].group = g
<1>1. NumQPUs \in Nat
  BY WorkSizesAssumption
<1>2. 0 \in UsedQPUs /\ UsedQPUs \subseteq QPUs
  BY <1>1 DEF UsedQPUs, QPUs
<1>3. ASSUME NEW i \in UsedQPUs
      PROVE  WorkItemInfo(g)[i].group = g
  BY <1>2 DEF WorkItemInfo
<1> QED
  BY <1>2, <1>3

LEMMA BlocksInit == Init => BlocksInv
  BY DEF Init, BlocksInv, Launched

LEMMA BlocksStep == BlocksInv /\ [Next]_vars => BlocksInv'
<1> SUFFICES ASSUME BlocksInv, [Next]_vars PROVE BlocksInv'
  OBVIOUS
<1>1. CASE pc' \notin Launched \cup {"launch"}
  BY <1>1 DEF BlocksInv
<1>2. ASSUME UNCHANGED hostVars
      PROVE  BlocksInv'
  BY <1>2 DEF BlocksInv, hostVars, CurrentBlock, CurrentGroup, WorkItemInfo, UsedQPUs
<1>3. CASE ReleaseMemObject \/ QPUStep \/ UNCHANGED vars
  BY <1>2, <1>3 DEF ReleaseMemObject, QPUStep, StartProgram, EndProgram, StartStray, EndStray, vars
<1>4. ASSUME UNCHANGED <<request, localSizes>>, NEW g
      PROVE  /\ QPUsNeeded(request, localSizes)' = QPUsNeeded(request, localSizes)
             /\ WorkItemInfo(g)' = WorkItemInfo(g)
  BY <1>4 DEF WorkItemInfo, UsedQPUs
<1>5. ASSUME NEW r \in Requests, enqueueNDRange(r)
      PROVE  BlocksInv'
  BY <1>1, <1>5 DEF enqueueNDRange, Launched
<1>6. CASE executeKernel_Refuse \/ WaitForLast
  BY <1>1, <1>6 DEF executeKernel_Refuse, WaitForLast, Return, Launched
<1>7. CASE executeKernel_Begin
  BY <1>4, <1>7 DEF executeKernel_Begin, BlocksInv, CurrentBlock, CurrentGroup
<1>8. CASE executeQPU
  BY <1>4, <1>8 DEF executeQPU, BlocksInv, CurrentBlock, CurrentGroup, Launched
<1>9. CASE PrepareNext
  <2>1. pc = "prepare" /\ UNCHANGED <<request, localSizes>>
    BY <1>9 DEF PrepareNext
  <2>2. /\ QPUsNeeded(request, localSizes) \in 1..NumQPUs
        /\ block \in {0, 1} /\ DOMAIN uniforms = {0, 1}
        /\ uniforms[block] = WorkItemInfo(group)
    BY <2>1 DEF BlocksInv, Launched
  <2>3. CASE pc' = "finish" /\ UNCHANGED <<group, block, uniforms>>
    BY <1>4, <2>1, <2>2, <2>3 DEF BlocksInv, CurrentBlock, CurrentGroup
  <2>4. CASE ~ (pc' = "finish" /\ UNCHANGED <<group, block, uniforms>>)
    <3>1. PICK next : next = increment_index(group, Limits)
      OBVIOUS
    <3>2. /\ pc' = "wait" /\ group' = next /\ block' = 1 - block
          /\ uniforms' = [uniforms EXCEPT ![1 - block] = WorkItemInfo(next)]
      BY <1>9, <2>4, <3>1 DEF PrepareNext
    <3>3. block' \in {0, 1} /\ 1 - block' = block /\ block # 1 - block /\ 1 - block \in {0, 1}
      BY <2>2, <3>2
    <3>4. /\ DOMAIN uniforms' = {0, 1} /\ uniforms'[block'] = WorkItemInfo(next)
          /\ uniforms'[block] = WorkItemInfo(group)
      BY <2>2, <3>2, <3>3
    <3>5. PICK g : g = group
      OBVIOUS
    <3>6. WorkItemInfo(g)[0].group = g
      BY <2>2, InfoFacts
    <3>7. CurrentBlock' = block /\ CurrentGroup' = g
      BY <3>2, <3>3, <3>4, <3>5, <3>6 DEF CurrentBlock, CurrentGroup
    <3>8. WorkItemInfo(next)' = WorkItemInfo(next) /\ WorkItemInfo(g)' = WorkItemInfo(g)
      BY <1>4, <2>1
    <3>9. uniforms'[block'] = WorkItemInfo(group)'
      BY <3>2, <3>4, <3>8
    <3>10. uniforms'[CurrentBlock'] = WorkItemInfo(CurrentGroup)'
      BY <3>4, <3>5, <3>7, <3>8
    <3> QED
      BY <1>4, <2>1, <2>2, <3>3, <3>4, <3>9, <3>10 DEF BlocksInv
  <2> QED
    BY <2>3, <2>4
<1>10. CASE WaitForGroup
  <2>1. pc = "wait" /\ UNCHANGED <<request, localSizes>>
    BY <1>10 DEF WaitForGroup
  <2>2. CASE pc' = "launch" /\ UNCHANGED <<group, block, uniforms>>
    BY <1>4, <2>1, <2>2 DEF BlocksInv, CurrentBlock, CurrentGroup, Launched
  <2>3. CASE pc' = "idle"
    BY <1>1, <2>3 DEF Launched
  <2> QED
    BY <1>10, <2>2, <2>3 DEF WaitForGroup, Return
<1> QED
  BY <1>1, <1>3, <1>5, <1>6, <1>7, <1>8, <1>9, <1>10 DEF Next, executeKernel

\* While programs are followed the counter tells how many QPUs have ended.
LEMMA CounterFacts ==
    ASSUME BlocksInv, ProgramsInv, pc \in Launched
    PROVE  /\ IsFiniteSet(UsedQPUs) /\ PendingQPUs \subseteq UsedQPUs
           /\ completed \in Nat /\ completed <= QPUsNeeded(request, localSizes)
           /\ Passed => Busy = {} /\ EndedQPUs = UsedQPUs
<1>1. QPUsNeeded(request, localSizes) \in 1..NumQPUs /\ NumQPUs \in Nat
  BY WorkSizesAssumption DEF BlocksInv
<1>2. IsFiniteSet(UsedQPUs) /\ Cardinality(UsedQPUs) = QPUsNeeded(request, localSizes)
  <2> DEFINE n == QPUsNeeded(request, localSizes)
  <2>1. n \in Nat /\ n >= 1
    BY <1>1
  <2> HIDE DEF n
  <2>2. 0 \in Int /\ n - 1 \in Int /\ ~ (0 > n - 1) /\ (n - 1) - 0 + 1 = n
    BY <2>1
  <2>3. IsFiniteSet(0..(n - 1)) /\ Cardinality(0..(n - 1)) = n
    BY <2>2, FS_Interval
  <2> QED
    BY <2>3 DEF UsedQPUs, n
<1>3. PendingQPUs \subseteq UsedQPUs
  BY DEF ProgramsInv, PendingQPUs, Busy
<1>4. EndedQPUs = UsedQPUs \ PendingQPUs /\ completed = Cardinality(EndedQPUs)
  BY DEF ProgramsInv, EndedQPUs
<1>5. EndedQPUs \subseteq UsedQPUs
  BY <1>4
<1>6. IsFiniteSet(EndedQPUs) /\ completed \in Nat
  BY <1>2, <1>4, <1>5, FS_Subset, FS_CardinalityType
<1>7. completed <= QPUsNeeded(request, localSizes)
  BY <1>2, <1>4, <1>5, FS_Subset
<1>8. ASSUME Passed
      PROVE  Busy = {} /\ EndedQPUs = UsedQPUs
  <2>1. Cardinality(EndedQPUs) = Cardinality(UsedQPUs)
    BY <1>2, <1>4, <1>8 DEF Passed
  <2>2. EndedQPUs = UsedQPUs
    BY <1>2, <1>5, <2>1, FS_Subset
  <2>3. PendingQPUs = {}
    BY <1>3, <1>4, <2>2
  <2> QED
    BY <2>2, <2>3 DEF PendingQPUs
<1> QED
  BY <1>2, <1>3, <1>6, <1>7, <1>8

\* The programs depend on the executor only by these.
LEMMA SameLaunch ==
    ASSUME UNCHANGED hostVars
    PROVE  /\ UNCHANGED <<kernel, CurrentBlock, CurrentGroup, UsedQPUs>>
           /\ (pc \in Launched)' <=> pc \in Launched
           /\ \A i : ItemsOf(i)' = ItemsOf(i)
<1>1. UNCHANGED <<kernel, CurrentBlock, CurrentGroup, UsedQPUs>>
  BY DEF hostVars, CurrentBlock, CurrentGroup, UsedQPUs
<1>2. (pc \in Launched)' <=> pc \in Launched
  BY DEF hostVars, Launched
<1>3. ASSUME NEW i
      PROVE  ItemsOf(i)' = ItemsOf(i)
  BY <1>1 DEF hostVars, ItemsOf, WorkItems, Limits
<1> QED
  BY <1>1, <1>2, <1>3

LEMMA ProgramsInit == Init => ProgramsInv
  BY DEF Init, ProgramsInv, Busy, Launched

\* While the QPUs work, the executor prepares the next group in the other block.
LEMMA PrepareKeepsLaunch ==
    ASSUME BlocksInv, PrepareNext
    PROVE  /\ pc \in Launched /\ pc' \in Launched
           /\ UNCHANGED <<kernel, CurrentBlock, CurrentGroup, UsedQPUs>>
           /\ \A i : ItemsOf(i)' = ItemsOf(i)
<1>1. pc = "prepare" /\ UNCHANGED <<kernel, request, localSizes>>
  BY DEF PrepareNext
<1>2. /\ QPUsNeeded(request, localSizes) \in 1..NumQPUs
      /\ block \in {0, 1} /\ DOMAIN uniforms = {0, 1}
      /\ uniforms[block] = WorkItemInfo(group)
  BY <1>1 DEF BlocksInv, Launched
<1>3. UsedQPUs' = UsedQPUs
  BY <1>1 DEF UsedQPUs
<1>4. /\ pc' \in Launched
      /\ CurrentBlock' = CurrentBlock /\ CurrentGroup' = CurrentGroup
      /\ uniforms'[CurrentBlock] = uniforms[CurrentBlock]
  <2>1. CASE pc' = "finish" /\ UNCHANGED <<group, block, uniforms>>
    BY <1>1, <2>1 DEF CurrentBlock, CurrentGroup, Launched
  <2>2. CASE ~ (pc' = "finish" /\ UNCHANGED <<group, block, uniforms>>)
    <3>1. PICK u : /\ pc' = "wait" /\ block' = 1 - block
                   /\ uniforms' = [uniforms EXCEPT ![1 - block] = u]
      BY <2>2 DEF PrepareNext
    <3>2. 1 - block' = block /\ block # 1 - block /\ CurrentBlock = block
      BY <1>1, <1>2, <3>1 DEF CurrentBlock
    <3>3. uniforms'[block] = uniforms[block]
      BY <1>2, <3>1, <3>2
    <3>4. uniforms[block][0].group = group
      BY <1>2, InfoFacts
    <3> QED
      BY <1>1, <3>1, <3>2, <3>3, <3>4 DEF CurrentBlock, CurrentGroup, Launched
  <2> QED
    BY <2>1, <2>2
<1>5. ASSUME NEW i
      PROVE  ItemsOf(i)' = ItemsOf(i)
  BY <1>1, <1>4 DEF ItemsOf, WorkItems, Limits
<1> QED
  BY <1>1, <1>3, <1>4, <1>5 DEF Launched

\* How the QPUs whose programs have ended change: none when a group is started,
LEMMA LaunchEnded ==
    ASSUME ProgramsInv, late = 0, executeQPU
    PROVE  EndedQPUs' = {}
<1>1. /\ pc' = "prepare" /\ pc = "launch" /\ running' = {}
      /\ UsedQPUs' = UsedQPUs
      /\ queued' = {[kernel |-> kernel, qpu |-> i, block |-> block] : i \in UsedQPUs}
  BY DEF executeQPU, ProgramsInv, Busy, Launched, UsedQPUs
<1>2. PendingQPUs' = UsedQPUs
  <2>1. Busy' = queued'
    BY <1>1 DEF Busy
  <2>2. PendingQPUs' = {p.qpu : p \in queued'}
    BY <2>1 DEF PendingQPUs
  <2>3. ASSUME NEW i \in UsedQPUs
        PROVE  \E p \in queued' : p.qpu = i
    <3>1. [kernel |-> kernel, qpu |-> i, block |-> block] \in queued'
      BY <1>1
    <3> QED
      BY <3>1
  <2>4. \A p \in queued' : p.qpu \in UsedQPUs
    BY <1>1
  <2> QED
    BY <2>2, <2>3, <2>4
<1> QED
  BY <1>1, <1>2 DEF EndedQPUs, Launched

\* none when a program starts, which is then pending still,
LEMMA StartEnded ==
    ASSUME ProgramsInv, NEW p \in queued, StartProgram(p)
    PROVE  EndedQPUs' = EndedQPUs /\ \A s \in queued' : s.qpu # p.qpu
<1>1. pc \in Launched /\ UNCHANGED hostVars /\ queued' = queued \ {p}
  BY DEF StartProgram, ProgramsInv, Busy
<1>2. PICK q : q.qpu = p.qpu /\ running' = running \cup {q}
  BY DEF StartProgram
<1>3. \A s \in queued : s = [kernel |-> kernel, qpu |-> s.qpu, block |-> CurrentBlock]
  BY <1>1 DEF ProgramsInv
<1>4. ASSUME NEW s \in queued'
      PROVE  s.qpu # p.qpu
  <2>1. s \in queued /\ s # p
    BY <1>1
  <2> QED
    BY <1>3, <2>1
<1>5. PendingQPUs' = PendingQPUs
  BY <1>1, <1>2, <1>4 DEF PendingQPUs, Busy
<1> QED
  BY <1>1, <1>4, <1>5, SameLaunch DEF EndedQPUs

\* and the QPU of a program that ends, which had not ended before.
LEMMA EndEnded ==
    ASSUME ProgramsInv, NEW p \in running, EndProgram(p)
    PROVE  EndedQPUs' = EndedQPUs \cup {p.qpu} /\ p.qpu \notin EndedQPUs
<1>1. pc \in Launched /\ UNCHANGED hostVars /\ UNCHANGED queued /\ running' = running \ {p}
  BY DEF EndProgram, ProgramsInv, Busy
<1>2. PendingQPUs' = PendingQPUs \ {p.qpu}
  <2>1. \A s \in running : s = [kernel |-> kernel, qpu |-> s.qpu, group |-> CurrentGroup,
                                items |-> ItemsOf(s.qpu)]
    BY <1>1 DEF ProgramsInv
  <2>2. \A s \in queued : s.qpu # p.qpu
    BY <1>1 DEF ProgramsInv
  <2>3. ASSUME NEW s \in running'
        PROVE  s \in running /\ s.qpu # p.qpu
    <3>1. s \in running /\ s # p
      BY <1>1
    <3> QED
      BY <2>1, <3>1
  <2>4. \A s \in Busy : s \in Busy' \/ s = p
    BY <1>1 DEF Busy
  <2>5. \A s \in Busy' : s \in Busy /\ s.qpu # p.qpu
    BY <1>1, <2>2, <2>3 DEF Busy
  <2> QED
    BY <2>4, <2>5 DEF PendingQPUs
<1>3. p.qpu \in PendingQPUs /\ p.qpu \in UsedQPUs
  BY <1>1 DEF ProgramsInv, PendingQPUs, Busy
<1> QED
  BY <1>1, <1>2, <1>3, SameLaunch DEF EndedQPUs

LEMMA ProgramsStep ==
    ASSUME BlocksInv, ProgramsInv, Next, late = 0, late' = 0
    PROVE  ProgramsInv'
<1>1. /\ strays = [queued |-> 0, running |-> 0]
      /\ pc \notin Launched => Busy = {}
  BY DEF ProgramsInv
<1>2. ASSUME pc \notin Launched, pc' \notin Launched, UNCHANGED <<queued, running, strays>>
      PROVE  ProgramsInv'
  BY <1>1, <1>2 DEF ProgramsInv, Busy, Launched
<1>3. ASSUME NEW r \in Requests, enqueueNDRange(r)
      PROVE  ProgramsInv'
  BY <1>2, <1>3 DEF enqueueNDRange, Launched
<1>4. CASE executeKernel_Refuse \/ executeKernel_Begin
  BY <1>2, <1>4 DEF executeKernel_Refuse, executeKernel_Begin, Return, Launched, deviceVars
<1>5. CASE executeQPU
  <2>1. /\ pc' = "prepare" /\ pc = "launch" /\ queued = {} /\ running = {}
        /\ UNCHANGED <<kernel, request, localSizes, running, strays>>
    BY <1>1, <1>5 DEF executeQPU, Busy, Launched
  <2>2. CurrentBlock' = block /\ UsedQPUs' = UsedQPUs
    BY <1>5, <2>1 DEF executeQPU, CurrentBlock, UsedQPUs
  <2>3. queued' = {[kernel |-> kernel, qpu |-> i, block |-> block] : i \in UsedQPUs}
    BY <1>5, <2>1 DEF executeQPU
  <2>4. EndedQPUs' = {}
    BY <1>5, LaunchEnded
  <2>5. completed' = Cardinality(EndedQPUs')
    BY <1>5, <2>4, FS_EmptySet DEF executeQPU
  <2> QED
    BY <1>1, <2>1, <2>2, <2>3, <2>5 DEF ProgramsInv, Launched
<1>6. CASE PrepareNext
  <2>1. UNCHANGED <<queued, running, strays, completed>>
    BY <1>6 DEF PrepareNext, deviceVars
  <2>2. PendingQPUs' = PendingQPUs /\ EndedQPUs' = EndedQPUs
    BY <1>6, <2>1, PrepareKeepsLaunch DEF PendingQPUs, Busy, EndedQPUs
  <2> QED
    BY <1>6, <2>1, <2>2, PrepareKeepsLaunch DEF ProgramsInv
<1>7. CASE WaitForGroup \/ WaitForLast
  <2>1. pc \in Launched /\ pc' \notin Launched
    BY <1>7 DEF WaitForGroup, WaitForLast, Return, Launched
  <2>2. completed \in Nat /\ completed <= QPUsNeeded(request, localSizes)
    BY <2>1, CounterFacts
  <2>3. ~TimesOut
    <3>1. QPUsNeeded(request, localSizes) \in Nat
      BY <2>1 DEF BlocksInv
    <3> QED
      BY <2>2, <3>1 DEF TimesOut
  <2>4. Passed /\ UNCHANGED <<queued, running, strays>>
    BY <1>7, <2>3 DEF WaitForGroup, WaitForLast
  <2>5. Busy = {}
    BY <2>1, <2>4, CounterFacts
  <2> QED
    BY <1>1, <2>1, <2>4, <2>5 DEF ProgramsInv, Busy
<1>8. CASE ReleaseMemObject
  <2>1. UNCHANGED hostVars /\ UNCHANGED <<queued, running, strays, completed>>
    BY <1>8 DEF ReleaseMemObject, deviceVars
  <2>2. PendingQPUs' = PendingQPUs /\ EndedQPUs' = EndedQPUs /\ Busy' = Busy
    BY <2>1, SameLaunch DEF PendingQPUs, Busy, EndedQPUs
  <2> QED
    BY <2>1, <2>2, SameLaunch DEF ProgramsInv
<1>9. ASSUME NEW p \in queued, StartProgram(p)
      PROVE  ProgramsInv'
  <2>1. /\ pc \in Launched /\ UNCHANGED hostVars /\ UNCHANGED <<strays, completed>>
        /\ queued' = queued \ {p}
    BY <1>1, <1>9 DEF StartProgram, Busy
  <2>2. PICK q : /\ q.qpu = p.qpu /\ running' = running \cup {q}
                 /\ q = [kernel |-> kernel, qpu |-> q.qpu, group |-> CurrentGroup,
                         items |-> ItemsOf(q.qpu)]
    <3>1. /\ p.qpu \in UsedQPUs /\ p.kernel = kernel /\ p.block = CurrentBlock
      BY <2>1 DEF ProgramsInv
    <3>2. uniforms[CurrentBlock] = WorkItemInfo(CurrentGroup)
          /\ QPUsNeeded(request, localSizes) \in 1..NumQPUs
      BY <2>1 DEF BlocksInv
    <3>3. uniforms[p.block][p.qpu].group = CurrentGroup
      BY <3>1, <3>2, InfoFacts
    <3>4. running' = running \cup {[kernel |-> kernel, qpu |-> p.qpu, group |-> CurrentGroup,
                                    items |-> ItemsOf(p.qpu)]}
      <4>1. PICK u : u = uniforms[p.block][p.qpu]
        OBVIOUS
      <4>2. running' = running \cup {[kernel |-> p.kernel, qpu |-> p.qpu, group |-> u.group,
                                      items |-> WorkItems(u)]}
        BY <1>9, <4>1 DEF StartProgram
      <4>3. WorkItems(u) = ItemsOf(p.qpu)
        BY <3>1, <4>1 DEF ItemsOf
      <4>4. p.kernel = kernel /\ u.group = CurrentGroup
        BY <3>1, <3>3, <4>1
      <4> QED
        BY <4>2, <4>3, <4>4
    <3> DEFINE q == [kernel |-> kernel, qpu |-> p.qpu, group |-> CurrentGroup,
                     items |-> ItemsOf(p.qpu)]
    <3>5. q.qpu = p.qpu /\ running' = running \cup {q}
      BY <3>4
    <3>6. q = [kernel |-> kernel, qpu |-> q.qpu, group |-> CurrentGroup,
               items |-> ItemsOf(q.qpu)]
      BY <3>5
    <3> HIDE DEF q
    <3> QED
      BY <3>5, <3>6
  <2>3. EndedQPUs' = EndedQPUs /\ \A s \in queued' : s.qpu # p.qpu
    BY <1>9, StartEnded
  <2>4. /\ \A s \in queued' : s.qpu \in UsedQPUs
              /\ s = [kernel |-> kernel, qpu |-> s.qpu, block |-> CurrentBlock]
        /\ \A s \in running' : s.qpu \in UsedQPUs
              /\ s = [kernel |-> kernel, qpu |-> s.qpu, group |-> CurrentGroup,
                      items |-> ItemsOf(s.qpu)]
        /\ \A s \in queued', t \in running' : s.qpu # t.qpu
    BY <2>1, <2>2, <2>3 DEF ProgramsInv
  <2> QED
    BY <1>1, <2>1, <2>3, <2>4, SameLaunch DEF ProgramsInv
<1>10. ASSUME NEW p \in running, EndProgram(p)
       PROVE  ProgramsInv'
  <2>1. /\ pc \in Launched /\ UNCHANGED hostVars /\ UNCHANGED <<strays, queued>>
        /\ running' = running \ {p} /\ completed' = completed + 1
    BY <1>1, <1>10 DEF EndProgram, Busy
  <2>2. EndedQPUs' = EndedQPUs \cup {p.qpu} /\ p.qpu \notin EndedQPUs
    BY <1>10, EndEnded
  <2>3. completed' = Cardinality(EndedQPUs')
    <3>1. IsFiniteSet(EndedQPUs)
      <4>1. IsFiniteSet(UsedQPUs) /\ EndedQPUs \subseteq UsedQPUs
        BY <2>1, CounterFacts DEF EndedQPUs
      <4> QED
        BY <4>1, FS_Subset
    <3>2. Cardinality(EndedQPUs \cup {p.qpu}) = Cardinality(EndedQPUs) + 1
      BY <2>2, <3>1, FS_AddElement
    <3> QED
      BY <2>1, <2>2, <3>2 DEF ProgramsInv
  <2>4. /\ \A s \in queued' : s \in queued
        /\ \A s \in running' : s \in running
    BY <2>1
  <2> QED
    BY <1>1, <2>1, <2>3, <2>4, SameLaunch DEF ProgramsInv
<1>11. ~ (StartStray \/ EndStray)
  BY <1>1 DEF StartStray, EndStray
<1> QED
  BY <1>3, <1>4, <1>5, <1>6, <1>7, <1>8, <1>9, <1>10, <1>11 DEF Next, executeKernel, QPUStep

LEMMA LateStep ==
    ASSUME DeviceInv, [Next]_vars
    PROVE  late' \in Nat /\ (late' = 0 => late = 0)
<1>1. late' = late \/ TimesOut
  BY DEF Next, enqueueNDRange, ReleaseMemObject, executeKernel, executeKernel_Refuse,
     executeKernel_Begin, executeQPU, PrepareNext, WaitForGroup, WaitForLast, QPUStep,
     StartProgram, EndProgram, StartStray, EndStray, deviceVars, vars
<1>2. late' \in {late, late + 1}
  BY <1>1 DEF TimesOut
<1> QED
  BY <1>2 DEF DeviceInv

LEMMA DeviceInit == Init => DeviceInv
  BY ProgramsInit DEF Init, DeviceInv

LEMMA DeviceStep == BlocksInv /\ DeviceInv /\ [Next]_vars => DeviceInv'
<1> SUFFICES ASSUME BlocksInv, DeviceInv, [Next]_vars PROVE DeviceInv'
  OBVIOUS
<1>1. CASE UNCHANGED vars
  <2>1. UNCHANGED hostVars /\ UNCHANGED <<queued, running, strays, completed, late>>
    BY <1>1 DEF vars, deviceVars
  <2>2. PendingQPUs' = PendingQPUs /\ EndedQPUs' = EndedQPUs /\ Busy' = Busy
    BY <2>1, SameLaunch DEF PendingQPUs, Busy, EndedQPUs
  <2> QED
    BY <2>1, <2>2, SameLaunch DEF DeviceInv, ProgramsInv
<1>2. CASE Next
  BY <1>2, LateStep, ProgramsStep DEF DeviceInv
<1> QED
  BY <1>1, <1>2

\* Whatever the QPUs and the executor interleave, until a wait times out all
\* programs that are requested or run work for one work-group of one kernel:
\* executeKernel waits for all QPUs it has used before it uses them again.
THEOREM GroupsOneAtATime == Spec => []OneGroupAtATime
<1>1. BlocksInv /\ DeviceInv => OneGroupAtATime
  <2> SUFFICES ASSUME BlocksInv, DeviceInv, late = 0, NEW p \in Busy, NEW q \in Busy
               PROVE  p.kernel = q.kernel /\ GroupOf(p) = GroupOf(q)
    BY DEF OneGroupAtATime
  <2>1. pc \in Launched
    BY DEF DeviceInv, ProgramsInv
  <2>2. /\ QPUsNeeded(request, localSizes) \in 1..NumQPUs
        /\ uniforms[CurrentBlock] = WorkItemInfo(CurrentGroup)
    BY <2>1 DEF BlocksInv
  <2>3. ASSUME NEW s \in Busy
        PROVE  s.kernel = kernel /\ GroupOf(s) = CurrentGroup
    <3>1. CASE s \in running
      <4>1. s = [kernel |-> kernel, qpu |-> s.qpu, group |-> CurrentGroup,
                 items |-> ItemsOf(s.qpu)]
        BY <2>1, <3>1 DEF DeviceInv, ProgramsInv
      <4>2. s.kernel = kernel /\ s.group = CurrentGroup
        BY <4>1
      <4> QED
        BY <3>1, <4>2 DEF GroupOf
    <3>2. CASE s \notin running
      <4>1. /\ s = [kernel |-> kernel, qpu |-> s.qpu, block |-> CurrentBlock]
            /\ s.qpu \in UsedQPUs
        BY <2>1, <2>3, <3>2 DEF DeviceInv, ProgramsInv, Busy
      <4>2. s.kernel = kernel /\ s.block = CurrentBlock
        BY <4>1
      <4>3. uniforms[s.block][s.qpu].group = CurrentGroup
        BY <2>2, <4>1, <4>2, InfoFacts
      <4> QED
        BY <3>2, <4>2, <4>3 DEF GroupOf
    <3> QED
      BY <3>1, <3>2
  <2> QED
    BY <2>3
<1> QED
  BY <1>1, BlocksInit, BlocksStep, DeviceInit, DeviceStep, PTL DEF Spec

\* No QPU is left with memory that has been freed while no wait has timed out:
\* the code, the UNIFORMs and the temporary buffers are kept until the last QPU
\* has ended, and so are the buffers set as arguments, which the application may
\* release meanwhile.
THEOREM ExecutionKeepsBuffers == Spec => []BuffersOutliveExecution
<1>1. DeviceInv /\ OwnedInv => BuffersOutliveExecution
  BY DEF DeviceInv, ProgramsInv, OwnedInv, Launched, Tracked, BuffersOutliveExecution
<1> QED
  BY <1>1, BlocksInit, BlocksStep, DeviceInit, DeviceStep, OwnedInit, OwnedStep, PTL DEF Spec

-----------------------------------------------------------------------------
(* Positions and their numbers *)

\* Positions in a box with sides of the given lengths, and their numbers in the
\* order in which increment_index counts.
Box(v) == {g \in Triple(Nat) : \A d \in Dims : g[d] < v[d]}
Number(g, v) == g[1] + v[1] * (g[2] + v[2] * g[3])

LEMMA Multiply ==
    ASSUME NEW m \in Nat, NEW a \in Nat, NEW b \in Nat, a <= b
    PROVE  m * a \in Nat /\ m * b \in Nat /\ m * a <= m * b
  OBVIOUS

LEMMA Distribute ==
    ASSUME NEW m \in Nat, NEW a \in Nat
    PROVE  m * (a + 1) = m * a + m /\ m * a \in Nat
  OBVIOUS

\* A number has one quotient and one remainder.
LEMMA Positional ==
    ASSUME NEW m \in Nat, NEW a \in Nat, NEW c \in Nat, a < m, c < m,
           NEW b \in Nat, NEW d \in Nat, a + m * b = c + m * d
    PROVE  a = c /\ b = d
<1>1. ASSUME b < d
      PROVE  FALSE
  <2>1. m * (b + 1) <= m * d /\ m * (b + 1) = m * b + m
    BY <1>1, Multiply
  <2> QED
    BY <2>1
<1>2. ASSUME d < b
      PROVE  FALSE
  <2>1. m * (d + 1) <= m * b /\ m * (d + 1) = m * d + m
    BY <1>2, Multiply
  <2> QED
    BY <2>1
<1>3. b = d
  BY <1>1, <1>2
<1> QED
  BY <1>3

LEMMA BoxFacts ==
    ASSUME NEW v, NEW g
    PROVE  g \in Box(v) <=> /\ g = <<g[1], g[2], g[3]>>
                            /\ g[1] \in Nat /\ g[2] \in Nat /\ g[3] \in Nat
                            /\ g[1] < v[1] /\ g[2] < v[2] /\ g[3] < v[3]
  BY DEF Box, Triple, Dims

\* All positions have different numbers, less than the product of the sides.
LEMMA NumberFacts ==
    ASSUME NEW v, v[1] \in Nat, v[2] \in Nat, v[3] \in Nat, NEW g \in Box(v)
    PROVE  /\ Number(g, v) \in Nat /\ Number(g, v) < ExactProduct(v)
           /\ \A h \in Box(v) : Number(g, v) = Number(h, v) => g = h
<1>1. /\ g = <<g[1], g[2], g[3]>>
      /\ g[1] \in Nat /\ g[2] \in Nat /\ g[3] \in Nat
      /\ g[1] < v[1] /\ g[2] < v[2] /\ g[3] < v[3]
  BY BoxFacts
<1>2. PICK q \in Nat : q = g[2] + v[2] * g[3]
  BY <1>1
<1>3. Number(g, v) = g[1] + v[1] * q
  BY <1>2 DEF Number
<1>4. q + 1 <= v[2] * v[3] /\ v[2] * v[3] \in Nat
  <2>1. v[2] * (g[3] + 1) <= v[2] * v[3] /\ v[2] * (g[3] + 1) = v[2] * g[3] + v[2]
    BY <1>1, Multiply
  <2> QED
    BY <1>1, <1>2, <2>1
<1>5. Number(g, v) \in Nat /\ Number(g, v) < ExactProduct(v)
  <2>1. v[1] * (q + 1) <= v[1] * (v[2] * v[3])
    BY <1>4, Multiply
  <2>2. v[1] * (q + 1) = v[1] * q + v[1] /\ v[1] * q \in Nat
    BY <1>2, Distribute
  <2>3. v[1] * (v[2] * v[3]) = ExactProduct(v)
    BY DEF ExactProduct
  <2> QED
    BY <1>1, <1>3, <1>4, <2>1, <2>2, <2>3
<1>6. ASSUME NEW h \in Box(v), Number(g, v) = Number(h, v)
      PROVE  g = h
  <2>1. /\ h = <<h[1], h[2], h[3]>>
        /\ h[1] \in Nat /\ h[2] \in Nat /\ h[3] \in Nat
        /\ h[1] < v[1] /\ h[2] < v[2] /\ h[3] < v[3]
    BY BoxFacts
  <2>2. PICK s \in Nat : s = h[2] + v[2] * h[3]
    BY <2>1
  <2>3. g[1] + v[1] * q = h[1] + v[1] * s
    BY <1>3, <1>6, <2>2 DEF Number
  <2>4. g[1] = h[1] /\ q = s
    BY <1>1, <2>1, <2>3, Positional
  <2>5. g[2] = h[2] /\ g[3] = h[3]
    BY <1>1, <1>2, <2>1, <2>2, <2>4, Positional
  <2> QED
    BY <1>1, <2>1, <2>4, <2>5
<1> QED
  BY <1>5, <1>6

LEMMA FirstPosition ==
    ASSUME NEW v, v[1] \in Nat, v[2] \in Nat, v[3] \in Nat, v[1] # 0, v[2] # 0, v[3] # 0
    PROVE  <<0, 0, 0>> \in Box(v) /\ Number(<<0, 0, 0>>, v) = 0
<1>1. <<0, 0, 0>> \in Box(v)
  <2>1. 0 < v[1] /\ 0 < v[2] /\ 0 < v[3]
    OBVIOUS
  <2> QED
    BY <2>1 DEF Box, Triple, Dims
<1>2. Number(<<0, 0, 0>>, v) = 0 + v[1] * (0 + v[2] * 0)
  BY DEF Number
<1> QED
  BY <1>1, <1>2

\* increment_index steps to the position with the next number, and out of the
\* limits after the last one.
LEMMA IncrementFacts ==
    ASSUME NEW v, v[1] \in Nat, v[2] \in Nat, v[3] \in Nat, v[2] < SizeMod, NEW g \in Box(v)
    PROVE  /\ InLimits(increment_index(g, v), v) =>
                 /\ increment_index(g, v) \in Box(v)
                 /\ Number(increment_index(g, v), v) = Number(g, v) + 1
           /\ ~InLimits(increment_index(g, v), v) => Number(g, v) + 1 = ExactProduct(v)
<1>1. /\ g = <<g[1], g[2], g[3]>>
      /\ g[1] \in Nat /\ g[2] \in Nat /\ g[3] \in Nat
      /\ g[1] < v[1] /\ g[2] < v[2] /\ g[3] < v[3]
  BY BoxFacts
<1>2. SizeMod \in Nat \ {0} /\ (g[2] + 1) % SizeMod = g[2] + 1
  <2>1. SizeMod \in Nat \ {0} /\ g[2] + 1 < SizeMod /\ g[2] + 1 \in Nat
    BY <1>1, WorkSizesAssumption
  <2> QED
    BY <2>1, ModSmaller
<1> DEFINE n == increment_index(g, v)
<1>3. CASE ~ (g[1] + 1 >= v[1])
  <2>1. n = <<g[1] + 1, g[2], g[3]>>
    BY <1>3 DEF increment_index
  <2>2. n \in Box(v) /\ InLimits(n, v)
    BY <1>1, <1>3, <2>1, BoxFacts DEF InLimits
  <2>3. Number(n, v) = Number(g, v) + 1
    BY <1>1, <2>1 DEF Number
  <2> QED
    BY <2>2, <2>3
<1>4. CASE g[1] + 1 >= v[1] /\ g[2] + 1 # v[2]
  <2>1. n = <<0, g[2] + 1, g[3]>>
    BY <1>1, <1>2, <1>4 DEF increment_index
  <2>2. n \in Box(v) /\ InLimits(n, v)
    BY <1>1, <1>4, <2>1, BoxFacts DEF InLimits
  <2>3. Number(n, v) = v[1] * ((g[2] + v[2] * g[3]) + 1)
    BY <1>1, <2>1 DEF Number
  <2>4. v[1] = g[1] + 1
    BY <1>1, <1>4
  <2>5. v[1] * ((g[2] + v[2] * g[3]) + 1) = v[1] * (g[2] + v[2] * g[3]) + v[1]
    BY <1>1
  <2>6. v[1] * (g[2] + v[2] * g[3]) \in Nat
    BY <1>1
  <2>7. Number(n, v) = Number(g, v) + 1
    BY <1>1, <2>3, <2>4, <2>5, <2>6 DEF Number
  <2> QED
    BY <2>2, <2>7
<1>5. CASE g[1] + 1 >= v[1] /\ g[2] + 1 = v[2]
  <2>1. n = <<0, 0, g[3] + 1>>
    BY <1>1, <1>2, <1>5 DEF increment_index
  <2>2. PICK j \in Nat : j = g[2] + v[2] * g[3]
    BY <1>1
  <2>3. v[1] = g[1] + 1 /\ v[2] = g[2] + 1
    BY <1>1, <1>5
  <2>4. v[2] * (g[3] + 1) = j + 1
    BY <1>1, <2>2, <2>3, Distribute
  <2>5. Number(g, v) + 1 = v[1] * (j + 1)
    <3>1. v[1] * (j + 1) = v[1] * j + v[1] /\ v[1] * j \in Nat
      BY <2>2, Distribute
    <3>2. Number(g, v) = g[1] + v[1] * j
      BY <2>2 DEF Number
    <3> QED
      BY <1>1, <2>3, <3>1, <3>2
  <2>6. CASE g[3] + 1 < v[3]
    <3>1. n \in Box(v) /\ InLimits(n, v)
      BY <1>1, <1>5, <2>1, <2>6, BoxFacts DEF InLimits
    <3>2. Number(n, v) = v[1] * (j + 1)
      <4>1. Number(n, v) = 0 + v[1] * (0 + v[2] * (g[3] + 1))
        BY <2>1 DEF Number
      <4>2. v[1] * (j + 1) \in Nat /\ j + 1 \in Nat
        BY <2>2
      <4> QED
        BY <2>4, <4>1, <4>2
    <3> QED
      BY <2>5, <3>1, <3>2
  <2>7. CASE ~ (g[3] + 1 < v[3])
    <3>1. ~InLimits(n, v)
      BY <2>1, <2>7 DEF InLimits
    <3>2. g[3] + 1 = v[3]
      BY <1>1, <2>7
    <3>3. v[1] * (j + 1) = ExactProduct(v)
      <4>1. ExactProduct(v) = v[1] * (v[2] * v[3])
        BY DEF ExactProduct
      <4> QED
        BY <2>4, <3>2, <4>1
    <3> QED
      BY <2>5, <3>1, <3>3
  <2> QED
    BY <2>6, <2>7
<1> QED
  BY <1>3, <1>4, <1>5

LEMMA Induction ==
    ASSUME NEW S, 0 \in S, \A n \in Nat : n \in S => n + 1 \in S, NEW k \in Nat
    PROVE  k \in S
<1> SUFFICES ASSUME k \notin S PROVE FALSE
  OBVIOUS
<1> DEFINE T == {n \in Nat : n \notin S}
<1>1. T \subseteq Nat /\ T # {}
  OBVIOUS
<1>2. PICK t \in T : \A u \in T : ~ (<<u, t>> \in OpToRel(<, Nat))
  BY <1>1, NatLessThanWellFounded, WFMin
<1>3. t \in Nat /\ t # 0 /\ t - 1 \in Nat /\ (t - 1) + 1 = t
  OBVIOUS
<1>4. t - 1 \in T
  <2>1. t - 1 \in S => (t - 1) + 1 \in S
    BY <1>3
  <2> QED
    BY <1>2, <1>3, <2>1
<1>5. ~ (t - 1 < t)
  BY <1>2, <1>3, <1>4 DEF OpToRel
<1> QED
  BY <1>3, <1>5

\* f is the walk through the first positions, up to number n.
Walk(f, v, n) ==
    f = [k \in 0..n |-> IF k = 0 THEN <<0, 0, 0>> ELSE increment_index(f[k - 1], v)]

LEMMA WalkExists ==
    ASSUME NEW v, NEW i \in Nat
    PROVE  \E f : Walk(f, v, i)
<1> DEFINE S == {n \in Nat : \E f : Walk(f, v, n)}
<1>1. 0 \in S
  <2> DEFINE f == [k \in 0..0 |-> <<0, 0, 0>>]
  <2>1. f = [k \in 0..0 |-> IF k = 0 THEN <<0, 0, 0>> ELSE increment_index(f[k - 1], v)]
    OBVIOUS
  <2> HIDE DEF f
  <2> QED
    BY <2>1 DEF Walk
<1>2. ASSUME NEW n \in Nat, n \in S
      PROVE  n + 1 \in S
  <2>1. PICK f : Walk(f, v, n)
    BY <1>2
  <2> DEFINE g == [k \in 0..(n + 1) |-> IF k = n + 1 THEN increment_index(f[n], v) ELSE f[k]]
  <2>2. ASSUME NEW k \in 0..(n + 1)
        PROVE  g[k] = IF k = 0 THEN <<0, 0, 0>> ELSE increment_index(g[k - 1], v)
    <3>1. CASE k = n + 1
      <4>1. g[k] = increment_index(f[n], v) /\ g[k - 1] = f[n] /\ k # 0
        BY <3>1
      <4> QED
        BY <4>1
    <3>2. CASE k # n + 1
      <4>1. k \in 0..n /\ g[k] = f[k] /\ (k # 0 => k - 1 \in 0..n /\ g[k - 1] = f[k - 1])
        BY <3>2
      <4>2. f[k] = IF k = 0 THEN <<0, 0, 0>> ELSE increment_index(f[k - 1], v)
        BY <2>1, <4>1 DEF Walk
      <4> QED
        BY <4>1, <4>2
    <3> QED
      BY <3>1, <3>2
  <2>3. g = [k \in 0..(n + 1) |-> g[k]]
    OBVIOUS
  <2> HIDE DEF g
  <2>4. Walk(g, v, n + 1)
    BY <2>2, <2>3 DEF Walk
  <2> QED
    BY <2>4
<1>3. \A n \in Nat : n \in S => n + 1 \in S
  BY <1>2
<1> HIDE DEF S
<1>4. i \in S
  BY <1>1, <1>3, Induction
<1> QED
  BY <1>4 DEF S

\* The QPU with number i starts at the position with number i.
LEMMA LocalIndicesFacts ==
    ASSUME NEW v, v[1] \in Nat, v[2] \in Nat, v[3] \in Nat, v[2] < SizeMod,
           NEW i \in Nat, i < ExactProduct(v)
    PROVE  LocalIndices(v, i) \in Box(v) /\ Number(LocalIndices(v, i), v) = i
<1> DEFINE F == CHOOSE f : Walk(f, v, i)
<1>1. Walk(F, v, i)
  BY WalkExists
<1>2. LocalIndices(v, i) = F[i]
  BY DEF LocalIndices, Walk
<1> HIDE DEF F
<1>3. v[1] # 0 /\ v[2] # 0 /\ v[3] # 0
  BY DEF ExactProduct
<1> DEFINE S == {n \in Nat : n <= i => F[n] \in Box(v) /\ Number(F[n], v) = n}
<1>4. 0 \in S
  <2>1. F[0] = <<0, 0, 0>>
    BY <1>1 DEF Walk
  <2>2. <<0, 0, 0>> \in Box(v) /\ Number(<<0, 0, 0>>, v) = 0
    BY <1>3, FirstPosition
  <2> QED
    BY <2>1, <2>2
<1>5. ASSUME NEW n \in Nat, n \in S
      PROVE  n + 1 \in S
  <2> SUFFICES ASSUME n + 1 <= i
               PROVE  F[n + 1] \in Box(v) /\ Number(F[n + 1], v) = n + 1
    OBVIOUS
  <2>1. F[n + 1] = increment_index(F[n], v)
    <3>1. n + 1 \in 0..i /\ n + 1 # 0 /\ (n + 1) - 1 = n
      OBVIOUS
    <3> QED
      BY <1>1, <3>1 DEF Walk
  <2>2. F[n] \in Box(v) /\ Number(F[n], v) = n
    BY <1>5
  <2>3. InLimits(increment_index(F[n], v), v)
    <3>1. ExactProduct(v) \in Nat
      BY DEF ExactProduct
    <3>2. n + 1 # ExactProduct(v)
      BY <3>1
    <3> QED
      BY <2>2, <3>2, IncrementFacts
  <2> QED
    BY <2>1, <2>2, <2>3, IncrementFacts
<1>6. \A n \in Nat : n \in S => n + 1 \in S
  BY <1>5
<1> HIDE DEF S
<1>7. i \in S
  BY <1>4, <1>6, Induction
<1> QED
  BY <1>2, <1>7 DEF S

-----------------------------------------------------------------------------
(* The work-items of a kernel *)

\* The current request is one whose walk is right.
Walkable == /\ request \in Requests /\ setWorkGroupSizes(request) = "CL_SUCCESS"
            /\ localSizes = LocalSizes(request) /\ Regular

LEMMA LargerProduct ==
    ASSUME NEW a \in Nat, NEW b \in Nat, NEW c \in Nat,
           NEW x \in Nat, NEW y \in Nat, NEW z \in Nat, a <= x, b <= y, c <= z
    PROVE  a * b * c \in Nat /\ a * b * c <= x * y * z
<1>1. a * b <= a * y /\ y * a <= y * x /\ a * b \in Nat /\ x * y \in Nat
  BY Multiply
<1>2. a * b <= x * y
  BY <1>1
<1>3. (a * b) * c <= (a * b) * z /\ z * (a * b) <= z * (x * y)
  BY <1>1, <1>2, Multiply
<1>4. (a * b) * z = z * (a * b) /\ (x * y) * z = z * (x * y)
  OBVIOUS
<1>5. (a * b) * c \in Nat /\ (a * b) * z \in Nat /\ (x * y) * z \in Nat
  BY <1>1
<1> QED
  BY <1>3, <1>4, <1>5

LEMMA SizesFacts ==
    ASSUME Walkable
    PROVE  /\ \A d \in Dims : /\ localSizes[d] \in Nat \ {0} /\ localSizes[d] < SizeMod
                              /\ Limits[d] \in Nat \ {0} /\ Limits[d] < SizeMod
                              /\ Limits[d] * localSizes[d] = GlobalSizes(request)[d]
           /\ Product(localSizes) = ExactProduct(localSizes)
           /\ ExactProduct(localSizes) \in Nat \ {0}
<1>1. /\ request \in Requests /\ setWorkGroupSizes(request) = "CL_SUCCESS"
      /\ localSizes = LocalSizes(request) /\ Countable(request)
      /\ ExactProduct(GlobalSizes(request)) > 0 /\ ExactProduct(localSizes) > 0
  BY DEF Walkable, Regular
<1>2. localSizes \in Triple(Nat) /\ GlobalSizes(request) \in Triple(Nat)
  BY <1>1, LocalSizesFit
<1>3. ASSUME NEW d \in Dims
      PROVE  /\ localSizes[d] \in Nat \ {0} /\ localSizes[d] < SizeMod
             /\ Limits[d] \in Nat \ {0} /\ Limits[d] < SizeMod
             /\ Limits[d] * localSizes[d] = GlobalSizes(request)[d]
             /\ localSizes[d] <= GlobalSizes(request)[d]
  <2> DEFINE l == localSizes[d]
             n == Limits[d]
             g == GlobalSizes(request)[d]
  <2>1. l \in Nat \ {0} /\ g \in Nat \ {0}
    BY <1>1, <1>2, FactorsPositive
  <2>2. n * l = g
    BY <1>1, GroupsTile DEF Limits
  <2>3. g < SizeMod
    <3>1. ~ ExceedsLimit(GlobalSizes(request))
      BY <1>1 DEF setWorkGroupSizes
    <3>2. ~ (g > SizeMod - 2)
      BY <3>1 DEF ExceedsLimit, MaxWorkItems
    <3> HIDE DEF g
    <3> QED
      BY <2>1, <3>2, WorkSizesAssumption
  <2>4. n \in Nat
    <3>1. n = g \div l
      BY <1>1 DEF Limits, GroupLimits
    <3> HIDE DEF n, g, l
    <3> QED
      BY <2>1, <3>1, Division
  <2> HIDE DEF n, g, l
  <2>5. n # 0
    BY <2>1, <2>2
  <2>6. l <= g /\ n <= g
    <3>1. l * 1 <= l * n /\ n * 1 <= n * l
      BY <2>1, <2>4, <2>5, Multiply
    <3>2. l * n = g
      BY <2>1, <2>2, <2>4
    <3> QED
      BY <2>1, <2>2, <2>4, <3>1, <3>2
  <2>7. l < SizeMod /\ n < SizeMod
    BY <2>1, <2>3, <2>4, <2>6, WorkSizesAssumption
  <2> QED
    BY <2>1, <2>2, <2>4, <2>5, <2>6, <2>7 DEF n, g, l
<1>4. ExactProduct(localSizes) \in Nat \ {0}
  BY <1>1, <1>2, ProductIsNat
<1>5. ExactProduct(localSizes) < SizeMod
  <2>1. ExactProduct(localSizes) <= ExactProduct(GlobalSizes(request))
    <3>1. /\ localSizes[1] \in Nat /\ localSizes[2] \in Nat /\ localSizes[3] \in Nat
          /\ GlobalSizes(request)[1] \in Nat /\ GlobalSizes(request)[2] \in Nat
          /\ GlobalSizes(request)[3] \in Nat
      BY <1>2 DEF Triple
    <3>2. /\ localSizes[1] <= GlobalSizes(request)[1]
          /\ localSizes[2] <= GlobalSizes(request)[2]
          /\ localSizes[3] <= GlobalSizes(request)[3]
      BY <1>3 DEF Dims
    <3> QED
      BY <3>1, <3>2, LargerProduct DEF ExactProduct
  <2>2. ExactProduct(GlobalSizes(request)) < SizeMod /\ ExactProduct(GlobalSizes(request)) \in Nat
    BY <1>1, <1>2, ProductIsNat DEF Countable
  <2> QED
    BY <1>4, <2>1, <2>2, WorkSizesAssumption
<1>6. Product(localSizes) = ExactProduct(localSizes)
  BY <1>4, <1>5, WorkSizesAssumption, ModSmaller DEF Product
<1> QED
  BY <1>3, <1>4, <1>6

\* Enough QPUs for all work-items of a work-group, and none without any.
LEMMA QPUsFacts ==
    ASSUME Walkable
    PROVE  \E m \in Nat \ {0}, n \in Nat \ {0} :
               /\ m = MergeFactor(request) /\ n = QPUsNeeded(request, localSizes)
               /\ ExactProduct(localSizes) <= n * m /\ (n - 1) * m < ExactProduct(localSizes)
<1> DEFINE m == MergeFactor(request)
           size == ExactProduct(localSizes)
<1>1. m \in Nat \ {0} /\ size \in Nat \ {0}
  BY SizesFacts, MergeFactorFacts DEF Walkable
<1>2. QPUsNeeded(request, localSizes) = size \div m + (IF size % m = 0 THEN 0 ELSE 1)
  BY SizesFacts DEF QPUsNeeded
<1> HIDE DEF m, size
<1>3. PICK q \in Nat, t \in 0..(m - 1) : q = size \div m /\ t = size % m /\ size = m * q + t
  BY <1>1, Division
<1>4. m * q \in Nat /\ m * (q + 1) = m * q + m
  BY <1>1, Distribute
<1>5. CASE t = 0
  <2>1. QPUsNeeded(request, localSizes) = q
    BY <1>2, <1>3, <1>5
  <2>2. q # 0
    BY <1>1, <1>3, <1>5
  <2>3. q * m = m * q /\ (q - 1) * m = m * q - m
    BY <1>1, <1>3
  <2>4. size <= q * m /\ (q - 1) * m < size
    BY <1>1, <1>3, <1>4, <1>5, <2>3
  <2> QED
    BY <1>1, <2>1, <2>2, <2>4 DEF m, size
<1>6. CASE t # 0
  <2>1. QPUsNeeded(request, localSizes) = q + 1
    BY <1>2, <1>3, <1>6
  <2>2. (q + 1) * m = m * (q + 1) /\ ((q + 1) - 1) * m = m * q
    BY <1>1, <1>3
  <2>3. size <= (q + 1) * m /\ ((q + 1) - 1) * m < size
    BY <1>1, <1>3, <1>4, <1>6, <2>2
  <2>4. q + 1 \in Nat \ {0}
    OBVIOUS
  <2> QED
    BY <1>1, <2>1, <2>3, <2>4 DEF m, size
<1> QED
  BY <1>5, <1>6

\* The positions in a work-group that are executed by QPU number i.
Part(i) == {b \in Box(localSizes) :
               /\ i * MergeFactor(request) <= Number(b, localSizes)
               /\ Number(b, localSizes) < i * MergeFactor(request) + MergeFactor(request)}

LEMMA PartsFacts ==
    ASSUME Walkable
    PROVE  /\ \A b \in Box(localSizes) : \E i \in UsedQPUs : b \in Part(i)
           /\ \A i, j \in UsedQPUs : \A b : b \in Part(i) /\ b \in Part(j) => i = j
<1>1. PICK m \in Nat \ {0}, n \in Nat \ {0} :
               /\ m = MergeFactor(request) /\ n = QPUsNeeded(request, localSizes)
               /\ ExactProduct(localSizes) <= n * m
  BY QPUsFacts
<1>2. localSizes[1] \in Nat /\ localSizes[2] \in Nat /\ localSizes[3] \in Nat
      /\ ExactProduct(localSizes) \in Nat
  BY SizesFacts DEF Dims
<1>3. ASSUME NEW b \in Box(localSizes)
      PROVE  \E i \in UsedQPUs : b \in Part(i)
  <2>1. PICK k \in Nat : k = Number(b, localSizes) /\ k < ExactProduct(localSizes)
    BY <1>2, NumberFacts
  <2>2. PICK q \in Nat, t \in 0..(m - 1) : k = m * q + t
    BY Division
  <2>3. m * q = q * m /\ n * m = m * n /\ m * n \in Nat /\ m * q \in Nat
    OBVIOUS
  <2>4. ~ (n <= q)
    <3>1. ASSUME n <= q
          PROVE  FALSE
      <4>1. m * n <= m * q
        BY <3>1, Multiply
      <4>2. k < m * n
        BY <1>1, <1>2, <2>1, <2>3
      <4> QED
        BY <2>2, <2>3, <4>1, <4>2
    <3> QED
      BY <3>1
  <2>5. q \in UsedQPUs
    BY <1>1, <2>4 DEF UsedQPUs
  <2>6. q * m <= k /\ k < q * m + m
    BY <2>2, <2>3
  <2> QED
    BY <1>1, <2>1, <2>5, <2>6 DEF Part
<1>4. ASSUME NEW i \in Nat, NEW j \in Nat, NEW k \in Nat, i < j, j * m <= k, k < i * m + m
      PROVE  FALSE
  <2>1. m * (i + 1) <= m * j /\ m * (i + 1) = m * i + m
    BY <1>4, Multiply, Distribute
  <2>2. m * j = j * m /\ m * i = i * m /\ m * i \in Nat /\ m * j \in Nat
    OBVIOUS
  <2> QED
    BY <1>4, <2>1, <2>2
<1>5. ASSUME NEW i \in UsedQPUs, NEW j \in UsedQPUs, NEW b, b \in Part(i), b \in Part(j)
      PROVE  i = j
  <2>1. i \in Nat /\ j \in Nat
    BY DEF UsedQPUs
  <2>2. PICK k \in Nat : k = Number(b, localSizes)
    BY <1>2, <1>5, NumberFacts DEF Part
  <2>3. /\ i * m <= k /\ k < i * m + m
        /\ j * m <= k /\ k < j * m + m
    BY <1>1, <1>5, <2>2 DEF Part
  <2>4. ~ (i < j) /\ ~ (j < i)
    BY <1>4, <2>1, <2>3
  <2> QED
    BY <2>1, <2>4
<1> QED
  BY <1>3, <1>5

LEMMA MinOfTwo ==
    ASSUME NEW a \in Nat, NEW b \in Nat
    PROVE  Min({a, b}) = IF a <= b THEN a ELSE b
<1>1. PICK c \in {a, b} : c = (IF a <= b THEN a ELSE b) /\ \A y \in {a, b} : c <= y
  OBVIOUS
<1>2. \A d \in {a, b} : (\A y \in {a, b} : d <= y) => d = c
  BY <1>1
<1>3. Min({a, b}) \in {a, b} /\ \A y \in {a, b} : Min({a, b}) <= y
  BY <1>1 DEF Min
<1> QED
  BY <1>1, <1>2, <1>3

\* A QPU executes its part: one work-item if none are merged, else a run of
\* them in the only dimension there is.
LEMMA PartOfQPU ==
    ASSUME Walkable, NEW i \in UsedQPUs, NEW l, l = LocalIndices(localSizes, i),
           NEW m, m = MergeFactor(request)
    PROVE  Part(i) = {<<x, l[2], l[3]>> :
                      x \in (l[1] * m)..(Min({l[1] * m + m, localSizes[1]}) - 1)}
<1>1. /\ localSizes[1] \in Nat \ {0} /\ localSizes[2] \in Nat \ {0} /\ localSizes[3] \in Nat \ {0}
      /\ localSizes[2] < SizeMod
  BY SizesFacts DEF Dims
<1>2. i \in Nat /\ m \in Nat \ {0} /\ i < ExactProduct(localSizes)
  <2>1. PICK n \in Nat \ {0} :
                 /\ m \in Nat \ {0} /\ n = QPUsNeeded(request, localSizes)
                 /\ (n - 1) * m < ExactProduct(localSizes)
    BY QPUsFacts
  <2>2. i \in Nat /\ i <= n - 1 /\ n - 1 \in Nat
    BY <2>1 DEF UsedQPUs
  <2>3. (n - 1) * 1 <= (n - 1) * m /\ (n - 1) * m \in Nat
    BY <2>1, <2>2, Multiply
  <2>4. ExactProduct(localSizes) \in Nat
    BY SizesFacts
  <2> QED
    BY <2>1, <2>2, <2>3, <2>4
<1>3. l \in Box(localSizes) /\ Number(l, localSizes) = i
  BY <1>1, <1>2, LocalIndicesFacts
<1>4. /\ l = <<l[1], l[2], l[3]>> /\ l[1] \in Nat /\ l[2] \in Nat /\ l[3] \in Nat
      /\ l[1] < localSizes[1]
  BY <1>3, BoxFacts
<1>5. CASE m = 1
  <2>1. Min({l[1] * m + m, localSizes[1]}) = l[1] + 1 /\ l[1] * m = l[1]
    <3>1. l[1] * m + m = l[1] + 1
      BY <1>4, <1>5
    <3>2. l[1] + 1 <= localSizes[1] /\ l[1] + 1 \in Nat
      BY <1>1, <1>4
    <3>3. Min({l[1] + 1, localSizes[1]}) = l[1] + 1
      BY <1>1, <3>2, MinOfTwo
    <3>4. l[1] * m = l[1]
      BY <1>4, <1>5
    <3> QED
      BY <3>1, <3>3, <3>4
  <2>2. {<<x, l[2], l[3]>> : x \in (l[1] * m)..(Min({l[1] * m + m, localSizes[1]}) - 1)} = {l}
    <3>1. (l[1] * m)..(Min({l[1] * m + m, localSizes[1]}) - 1) = {l[1]}
      BY <1>4, <2>1
    <3> QED
      BY <1>4, <3>1
  <2>3. Part(i) = {l}
    <3>1. ASSUME NEW b \in Box(localSizes)
          PROVE  b \in Part(i) <=> b = l
      <4>1. Number(b, localSizes) \in Nat /\ (Number(b, localSizes) = i => b = l)
        BY <1>1, <1>3, NumberFacts
      <4>2. b \in Part(i) <=> i * 1 <= Number(b, localSizes) /\ Number(b, localSizes) < i * 1 + 1
        BY <1>5 DEF Part
      <4>3. b \in Part(i) <=> Number(b, localSizes) = i
        BY <1>2, <4>1, <4>2
      <4> QED
        BY <1>3, <4>1, <4>3
    <3>2. Part(i) \subseteq Box(localSizes)
      BY DEF Part
    <3> QED
      BY <1>3, <3>1, <3>2
  <2> QED
    BY <2>2, <2>3
<1>6. CASE m # 1
  <2>1. localSizes[2] = 1 /\ localSizes[3] = 1
    <3>1. localSizes[2] * localSizes[3] = 1
      BY <1>2, <1>6 DEF Walkable, Regular
    <3> QED
      BY <1>1, <3>1
  <2>2. ASSUME NEW b \in Box(localSizes)
        PROVE  /\ b = <<b[1], 0, 0>> /\ b[1] \in Nat /\ b[1] < localSizes[1]
               /\ Number(b, localSizes) = b[1]
    <3>1. b = <<b[1], b[2], b[3]>> /\ b[1] \in Nat /\ b[1] < localSizes[1] /\ b[2] = 0 /\ b[3] = 0
      BY <2>1, BoxFacts
    <3>2. Number(b, localSizes) = b[1] + localSizes[1] * (0 + 1 * 0)
      BY <2>1, <3>1 DEF Number
    <3>3. Number(b, localSizes) = b[1]
      BY <1>1, <3>1, <3>2
    <3> QED
      BY <3>1, <3>3
  <2>3. l[1] = i /\ l[2] = 0 /\ l[3] = 0
    BY <1>3, <1>4, <2>2
  <2>4. PICK k \in Nat : k = i * m /\ m \in Nat /\ localSizes[1] \in Nat
    BY <1>1, <1>2
  <2>5. PICK last \in Nat : last = Min({k + m, localSizes[1]})
                            /\ last = IF k + m <= localSizes[1] THEN k + m ELSE localSizes[1]
    <3>1. k + m \in Nat
      BY <2>4
    <3>2. Min({k + m, localSizes[1]}) = IF k + m <= localSizes[1] THEN k + m ELSE localSizes[1]
      BY <2>4, <3>1, MinOfTwo
    <3> QED
      BY <2>4, <3>1, <3>2
  <2>6. ASSUME NEW b \in Part(i)
        PROVE  b[1] \in k..(last - 1) /\ b = <<b[1], 0, 0>>
    <3>1. /\ b \in Box(localSizes) /\ k <= Number(b, localSizes)
          /\ Number(b, localSizes) < k + m
      BY <2>4, <2>6 DEF Part
    <3>2. /\ b = <<b[1], 0, 0>> /\ b[1] \in Nat /\ b[1] < localSizes[1]
          /\ k <= b[1] /\ b[1] < k + m
      BY <2>2, <3>1
    <3>3. b[1] < last
      BY <2>5, <3>2
    <3> QED
      BY <3>2, <3>3
  <2>7. ASSUME NEW x \in k..(last - 1)
        PROVE  <<x, 0, 0>> \in Part(i)
    <3>1. x \in Nat /\ k <= x /\ x < k + m /\ x < localSizes[1]
      BY <2>4, <2>5
    <3>2. <<x, 0, 0>> \in Box(localSizes)
      BY <2>1, <3>1 DEF Box, Triple, Dims
    <3>3. Number(<<x, 0, 0>>, localSizes) = x
      BY <2>2, <3>2
    <3> QED
      BY <2>4, <3>1, <3>2, <3>3 DEF Part
  <2>8. Part(i) = {<<x, 0, 0>> : x \in k..(last - 1)}
    BY <2>6, <2>7
  <2> QED
    BY <2>3, <2>4, <2>5, <2>8
<1> QED
  BY <1>5, <1>6

\* The work-item at position b of the work-group g.
Item(g, b) == <<g[1] * localSizes[1] + b[1], g[2] * localSizes[2] + b[2],
                g[3] * localSizes[3] + b[3]>>

\* The groups a program started for g works on, and the work-items of QPU number i.
GroupsFor(g) == IF request.loop THEN Box(Limits) ELSE {g}
ItemsFor(g, i) == WorkItems(WorkItemInfo(g)[i])

LEMMA GroupsAreBox == Walkable => GroupsUpTo(Limits) = Box(Limits)
<1> SUFFICES ASSUME Walkable PROVE GroupsUpTo(Limits) = Box(Limits)
  OBVIOUS
<1>1. PICK a \in Nat, b \in Nat, c \in Nat : a = Limits[1] /\ b = Limits[2] /\ c = Limits[3]
  BY SizesFacts DEF Dims
<1> DEFINE S == {Limits[d] : d \in Dims}
<1>2. S = {a, b, c}
  BY <1>1 DEF Dims
<1> HIDE DEF S
<1>3. S \subseteq Nat /\ S # {} /\ \A x \in S : x <= a + b + c
  BY <1>2
<1>4. Max(S) \in S /\ \A y \in S : Max(S) >= y
  <2>1. a + b + c \in Nat
    OBVIOUS
  <2> QED
    BY <1>3, <2>1, MaxFacts
<1>5. PICK n \in Nat : n = Max(S) /\ n >= a /\ n >= b /\ n >= c
  BY <1>2, <1>3, <1>4
<1>6. GroupsUpTo(Limits) = {g \in Triple(0..n) : \A d \in Dims : g[d] < Limits[d]}
  BY <1>5 DEF GroupsUpTo, S
<1>7. ASSUME NEW g \in Box(Limits)
      PROVE  g \in Triple(0..n) /\ \A d \in Dims : g[d] < Limits[d]
  <2>1. /\ g = <<g[1], g[2], g[3]>> /\ g[1] \in Nat /\ g[2] \in Nat /\ g[3] \in Nat
        /\ g[1] < Limits[1] /\ g[2] < Limits[2] /\ g[3] < Limits[3]
    BY BoxFacts
  <2>2. g[1] \in 0..n /\ g[2] \in 0..n /\ g[3] \in 0..n
    BY <1>1, <1>5, <2>1
  <2> QED
    BY <2>1, <2>2 DEF Triple, Dims
<1>8. ASSUME NEW g \in Triple(0..n), \A d \in Dims : g[d] < Limits[d]
      PROVE  g \in Box(Limits)
  BY <1>8 DEF Box, Triple
<1> QED
  BY <1>6, <1>7, <1>8

\* What a QPU executes for a group are the work-items at the positions of its part.
LEMMA ItemsForFacts ==
    ASSUME Walkable, UsedQPUs \subseteq QPUs, NEW i \in UsedQPUs, NEW g
    PROVE  \A w : w \in ItemsFor(g, i) <=> \E h \in GroupsFor(g), b \in Part(i) : w = Item(h, b)
<1>1. PICK l : l = LocalIndices(localSizes, i)
  OBVIOUS
<1>2. PICK m : m = MergeFactor(request)
  OBVIOUS
<1> DEFINE u == [group |-> g, local |-> <<l[1] * m, l[2], l[3]>>]
           X == (l[1] * m)..(Min({l[1] * m + m, localSizes[1]}) - 1)
<1>3. WorkItemInfo(g)[i] = u
  BY <1>1, <1>2 DEF WorkItemInfo
<1>4. /\ u.group = g /\ u.local[1] = l[1] * m /\ u.local[2] = l[2] /\ u.local[3] = l[3]
  OBVIOUS
<1>5. Part(i) = {<<x, l[2], l[3]>> : x \in X}
  BY <1>1, <1>2, PartOfQPU
<1>6. (IF request.loop THEN GroupsUpTo(Limits) ELSE {g}) = GroupsFor(g)
  BY GroupsAreBox DEF GroupsFor
<1>7. WorkItems(u) = {<<h[1] * localSizes[1] + x, h[2] * localSizes[2] + l[2],
                        h[3] * localSizes[3] + l[3]>> : h \in GroupsFor(g), x \in X}
  <2> HIDE DEF u, X
  <2> DEFINE I(h, x, b, c) == <<h[1] * localSizes[1] + x, h[2] * localSizes[2] + b,
                                h[3] * localSizes[3] + c>>
             H == IF request.loop THEN GroupsUpTo(Limits) ELSE {u.group}
             Y == u.local[1]..(Min({u.local[1] + MergeFactor(request), localSizes[1]}) - 1)
  <2>1. WorkItems(u) = {I(h, x, u.local[2], u.local[3]) : h \in H, x \in Y}
    BY DEF WorkItems
  <2>2. Y = X
    BY <1>2, <1>4 DEF X
  <2>3. H = GroupsFor(g)
    BY <1>4, <1>6
  <2>4. u.local[2] = l[2] /\ u.local[3] = l[3]
    BY <1>4
  <2> HIDE DEF I, H, Y
  <2>5. WorkItems(u) = {I(h, x, l[2], l[3]) : h \in GroupsFor(g), x \in X}
    BY <2>1, <2>2, <2>3, <2>4
  <2> QED
    BY <2>5 DEF I
<1> HIDE DEF u, X
<1>8. ASSUME NEW w, w \in WorkItems(u)
      PROVE  \E h \in GroupsFor(g), b \in Part(i) : w = Item(h, b)
  <2>1. PICK h \in GroupsFor(g), x \in X :
              w = <<h[1] * localSizes[1] + x, h[2] * localSizes[2] + l[2],
                    h[3] * localSizes[3] + l[3]>>
    BY <1>7, <1>8
  <2>2. <<x, l[2], l[3]>> \in Part(i)
    BY <1>5
  <2>3. w = Item(h, <<x, l[2], l[3]>>)
    BY <2>1 DEF Item
  <2> QED
    BY <2>2, <2>3
<1>9. ASSUME NEW h \in GroupsFor(g), NEW b \in Part(i)
      PROVE  Item(h, b) \in WorkItems(u)
  <2>1. PICK x \in X : b = <<x, l[2], l[3]>>
    BY <1>5
  <2>2. Item(h, b) = <<h[1] * localSizes[1] + x, h[2] * localSizes[2] + l[2],
                       h[3] * localSizes[3] + l[3]>>
    BY <2>1 DEF Item
  <2> QED
    BY <1>7, <2>2
<1> QED
  BY <1>3, <1>8, <1>9 DEF ItemsFor

\* A work-item belongs to one group and one position in it.
LEMMA ItemUnique ==
    ASSUME Walkable, NEW g \in Box(Limits), NEW h \in Box(Limits),
           NEW b \in Box(localSizes), NEW c \in Box(localSizes), Item(g, b) = Item(h, c)
    PROVE  g = h /\ b = c
<1>1. /\ g = <<g[1], g[2], g[3]>> /\ g[1] \in Nat /\ g[2] \in Nat /\ g[3] \in Nat
      /\ h = <<h[1], h[2], h[3]>> /\ h[1] \in Nat /\ h[2] \in Nat /\ h[3] \in Nat
  BY BoxFacts
<1>2. /\ b = <<b[1], b[2], b[3]>> /\ b[1] \in Nat /\ b[2] \in Nat /\ b[3] \in Nat
      /\ b[1] < localSizes[1] /\ b[2] < localSizes[2] /\ b[3] < localSizes[3]
  BY BoxFacts
<1>3. /\ c = <<c[1], c[2], c[3]>> /\ c[1] \in Nat /\ c[2] \in Nat /\ c[3] \in Nat
      /\ c[1] < localSizes[1] /\ c[2] < localSizes[2] /\ c[3] < localSizes[3]
  BY BoxFacts
<1>4. ASSUME NEW d \in Dims
      PROVE  g[d] = h[d] /\ b[d] = c[d]
  <2>1. PICK n \in Nat, p \in Nat, q \in Nat, x \in Nat, y \in Nat :
              /\ n = localSizes[d] /\ p = g[d] /\ q = h[d] /\ x = b[d] /\ y = c[d]
              /\ x < n /\ y < n
    BY <1>1, <1>2, <1>3, SizesFacts DEF Dims
  <2>2. p * n + x = q * n + y
    BY <2>1 DEF Item, Dims
  <2>3. p * n = n * p /\ q * n = n * q /\ n * p \in Nat /\ n * q \in Nat
    OBVIOUS
  <2>4. x + n * p = y + n * q
    BY <2>2, <2>3
  <2>5. x < n /\ y < n
    BY <2>1
  <2>6. x = y /\ p = q
    BY <2>4, <2>5, Positional
  <2> QED
    BY <2>1, <2>6
<1>5. /\ g[1] = h[1] /\ g[2] = h[2] /\ g[3] = h[3]
      /\ b[1] = c[1] /\ b[2] = c[2] /\ b[3] = c[3]
  BY <1>4 DEF Dims
<1> QED
  BY <1>1, <1>2, <1>3, <1>5

\* The groups and positions make up the range the application asked for.
LEMMA RangeFacts ==
    ASSUME Walkable
    PROVE  \A w : w \in NDRange(request) <=>
                      \E g \in Box(Limits), b \in Box(localSizes) : w = Item(g, b)
<1>1. PICK G : G = GlobalSizes(request)
  OBVIOUS
<1>2. \A d \in Dims : /\ localSizes[d] \in Nat \ {0} /\ Limits[d] \in Nat
                      /\ Limits[d] * localSizes[d] = G[d]
  BY <1>1, SizesFacts
<1>3. NDRange(request) = {<<x, y, z>> : x \in 0..(G[1] - 1), y \in 0..(G[2] - 1),
                                        z \in 0..(G[3] - 1)}
  BY <1>1 DEF NDRange
<1>4. ASSUME NEW d \in Dims, NEW x \in 0..(G[d] - 1)
      PROVE  \E p \in Nat, q \in Nat : /\ p < Limits[d] /\ q < localSizes[d]
                                       /\ x = p * localSizes[d] + q
  <2>1. PICK l \in Nat \ {0}, n \in Nat : l = localSizes[d] /\ n = Limits[d] /\ n * l = G[d]
    BY <1>2
  <2>2. PICK p \in Nat, q \in 0..(l - 1) : x = l * p + q
    <3>1. x \in Nat
      OBVIOUS
    <3> QED
      BY <3>1, Division
  <2>3. l * p = p * l /\ p * l \in Nat /\ n * l = l * n /\ l * n \in Nat
    OBVIOUS
  <2>4. ~ (n <= p)
    <3>1. ASSUME n <= p
          PROVE  FALSE
      <4>1. l * n <= l * p
        BY <3>1, Multiply
      <4>2. x < l * n
        BY <2>1, <2>3
      <4> QED
        BY <2>2, <2>3, <4>1, <4>2
    <3> QED
      BY <3>1
  <2>5. x = p * l + q /\ p < n /\ q < l /\ q \in Nat
    BY <2>2, <2>3, <2>4
  <2> QED
    BY <2>1, <2>5
<1>5. ASSUME NEW d \in Dims, NEW p \in Nat, NEW q \in Nat, p < Limits[d], q < localSizes[d]
      PROVE  p * localSizes[d] + q \in 0..(G[d] - 1)
  <2>1. PICK l \in Nat \ {0}, n \in Nat : l = localSizes[d] /\ n = Limits[d] /\ n * l = G[d]
    BY <1>2
  <2>2. l * (p + 1) <= l * n /\ l * (p + 1) = l * p + l
    BY <1>5, <2>1, Multiply, Distribute
  <2>3. l * p = p * l /\ p * l \in Nat /\ n * l = l * n /\ l * n \in Nat
    OBVIOUS
  <2>4. p * l + q \in Nat /\ p * l + q < n * l
    BY <1>5, <2>1, <2>2, <2>3
  <2> QED
    BY <2>1, <2>3, <2>4
<1>6. ASSUME NEW w \in NDRange(request)
      PROVE  \E g \in Box(Limits), b \in Box(localSizes) : w = Item(g, b)
  <2>1. PICK x \in 0..(G[1] - 1), y \in 0..(G[2] - 1), z \in 0..(G[3] - 1) : w = <<x, y, z>>
    BY <1>3
  <2>2. PICK p1 \in Nat, q1 \in Nat : /\ p1 < Limits[1] /\ q1 < localSizes[1]
                                      /\ x = p1 * localSizes[1] + q1
    BY <1>4 DEF Dims
  <2>3. PICK p2 \in Nat, q2 \in Nat : /\ p2 < Limits[2] /\ q2 < localSizes[2]
                                      /\ y = p2 * localSizes[2] + q2
    BY <1>4 DEF Dims
  <2>4. PICK p3 \in Nat, q3 \in Nat : /\ p3 < Limits[3] /\ q3 < localSizes[3]
                                      /\ z = p3 * localSizes[3] + q3
    BY <1>4 DEF Dims
  <2>5. <<p1, p2, p3>> \in Box(Limits) /\ <<q1, q2, q3>> \in Box(localSizes)
    BY <2>2, <2>3, <2>4 DEF Box, Triple, Dims
  <2>6. w = Item(<<p1, p2, p3>>, <<q1, q2, q3>>)
    BY <2>1, <2>2, <2>3, <2>4 DEF Item
  <2> QED
    BY <2>5, <2>6
<1>7. ASSUME NEW g \in Box(Limits), NEW b \in Box(localSizes)
      PROVE  Item(g, b) \in NDRange(request)
  <2>1. /\ g[1] \in Nat /\ g[2] \in Nat /\ g[3] \in Nat
        /\ g[1] < Limits[1] /\ g[2] < Limits[2] /\ g[3] < Limits[3]
    BY BoxFacts
  <2>2. /\ b[1] \in Nat /\ b[2] \in Nat /\ b[3] \in Nat
        /\ b[1] < localSizes[1] /\ b[2] < localSizes[2] /\ b[3] < localSizes[3]
    BY BoxFacts
  <2>3. /\ g[1] * localSizes[1] + b[1] \in 0..(G[1] - 1)
        /\ g[2] * localSizes[2] + b[2] \in 0..(G[2] - 1)
        /\ g[3] * localSizes[3] + b[3] \in 0..(G[3] - 1)
    BY <1>5, <2>1, <2>2 DEF Dims
  <2> QED
    BY <1>3, <2>3 DEF Item
<1> QED
  BY <1>6, <1>7

\* No two programs of the walk execute the same work-item.
LEMMA ItemsApart ==
    ASSUME Walkable, UsedQPUs \subseteq QPUs, NEW g \in Box(Limits), NEW h \in Box(Limits),
           request.loop => g = h, NEW i \in UsedQPUs, NEW j \in UsedQPUs,
           NEW w, w \in ItemsFor(g, i), w \in ItemsFor(h, j)
    PROVE  g = h /\ i = j
<1>1. PICK s \in GroupsFor(g), b \in Part(i) : w = Item(s, b)
  BY ItemsForFacts
<1>2. PICK t \in GroupsFor(h), c \in Part(j) : w = Item(t, c)
  BY ItemsForFacts
<1>3. s \in Box(Limits) /\ t \in Box(Limits) /\ (~request.loop => s = g /\ t = h)
  BY DEF GroupsFor
<1>4. b \in Box(localSizes) /\ c \in Box(localSizes)
  BY DEF Part
<1>5. s = t /\ b = c
  <2>1. Item(s, b) = Item(t, c)
    BY <1>1, <1>2
  <2> QED
    BY <1>3, <1>4, <2>1, ItemUnique
<1>6. i = j
  BY <1>5, PartsFacts
<1> QED
  BY <1>3, <1>5, <1>6

\* All programs of the walk together execute the range: with a loop over the
\* groups in the code, those of one group.
LEMMA ItemsCover ==
    ASSUME Walkable, UsedQPUs \subseteq QPUs
    PROVE  /\ \A g \in Box(Limits), i \in UsedQPUs : ItemsFor(g, i) \subseteq NDRange(request)
           /\ \A w \in NDRange(request) : \E g \in Box(Limits), i \in UsedQPUs :
                  w \in ItemsFor(g, i)
           /\ request.loop => \A w \in NDRange(request), g \in Box(Limits) :
                  \E i \in UsedQPUs : w \in ItemsFor(g, i)
<1>1. ASSUME NEW g \in Box(Limits), NEW i \in UsedQPUs, NEW w \in ItemsFor(g, i)
      PROVE  w \in NDRange(request)
  <2>1. PICK h \in GroupsFor(g), b \in Part(i) : w = Item(h, b)
    BY ItemsForFacts
  <2>2. h \in Box(Limits) /\ b \in Box(localSizes)
    BY DEF GroupsFor, Part
  <2> QED
    BY <2>1, <2>2, RangeFacts
<1>2. ASSUME NEW w \in NDRange(request)
      PROVE  /\ \E g \in Box(Limits), i \in UsedQPUs : w \in ItemsFor(g, i)
             /\ request.loop => \A g \in Box(Limits) : \E i \in UsedQPUs : w \in ItemsFor(g, i)
  <2>1. PICK h \in Box(Limits), b \in Box(localSizes) : w = Item(h, b)
    BY RangeFacts
  <2>2. PICK i \in UsedQPUs : b \in Part(i)
    BY PartsFacts
  <2>3. ASSUME NEW g \in Box(Limits), request.loop \/ g = h
        PROVE  w \in ItemsFor(g, i)
    <3>1. h \in GroupsFor(g)
      BY <2>3 DEF GroupsFor
    <3> QED
      BY <2>1, <2>2, <3>1, ItemsForFacts
  <2> QED
    BY <2>3
<1> QED
  BY <1>1, <1>2

-----------------------------------------------------------------------------
(* The walk through the work-groups *)

\* Adding the elements of a set to a bag of other ones.
LEMMA BagOfUnion ==
    ASSUME NEW S, NEW T, S \cap T = {}
    PROVE  SetToBag(S) (+) SetToBag(T) = SetToBag(S \cup T)
<1> DEFINE B == SetToBag(S)
           C == SetToBag(T)
<1>1. /\ DOMAIN B = S /\ DOMAIN C = T
      /\ \A e \in S : B[e] = 1
      /\ \A e \in T : C[e] = 1
  BY DEF SetToBag
<1> HIDE DEF B, C
<1>2. B (+) C = [e \in S \cup T |-> (IF e \in S THEN B[e] ELSE 0)
                                        + (IF e \in T THEN C[e] ELSE 0)]
  BY <1>1 DEF (+)
<1>3. \A e \in S \cup T : (IF e \in S THEN B[e] ELSE 0) + (IF e \in T THEN C[e] ELSE 0) = 1
  BY <1>1
<1>4. B (+) C = [e \in S \cup T |-> 1]
  BY <1>2, <1>3
<1> QED
  BY <1>4 DEF SetToBag, B, C

\* The program of QPU number i has ended for the group g.
Worked(g, i) == \/ Number(g, Limits) < Number(CurrentGroup, Limits)
                \/ g = CurrentGroup /\ i \in EndedQPUs

\* The work-items executed so far.
Done == {w \in NDRange(request) : \E g \in Box(Limits), i \in UsedQPUs :
             Worked(g, i) /\ w \in ItemsFor(g, i)}

\* The groups are walked through each once and in order, and what has been
\* executed is what the programs that have ended should execute.
WalkInv ==
    /\ pc = "ready" => executed = EmptyBag
    /\ pc \in Launched \cup {"launch"} =>
        /\ CurrentGroup \in Box(Limits)
        /\ request.loop => CurrentGroup = <<0, 0, 0>> /\ pc # "wait"
        /\ executed = SetToBag(Done)
    /\ pc = "wait" =>
        group \in Box(Limits) /\ Number(group, Limits) = Number(CurrentGroup, Limits) + 1
    /\ pc = "finish" /\ ~request.loop =>
        Number(CurrentGroup, Limits) + 1 = ExactProduct(Limits)

\* While no wait has timed out, for the ranges the walk is right for.
ExecutedInv ==
    late = 0 /\ Regular =>
        /\ pc # "idle" => WalkInv
        /\ pc = "idle" /\ result = "CL_COMPLETE" => executed = SetToBag(NDRange(request))

LEMMA ExecutedInit == Init => ExecutedInv
  BY DEF Init, ExecutedInv

LEMMA SameRange ==
    ASSUME UNCHANGED <<request, localSizes>>
    PROVE  /\ Limits' = Limits /\ UsedQPUs' = UsedQPUs
           /\ NDRange(request)' = NDRange(request)
           /\ Regular' <=> Regular
           /\ \A g, i : ItemsFor(g, i)' = ItemsFor(g, i)
<1>1. Limits' = Limits /\ UsedQPUs' = UsedQPUs
  BY DEF Limits, UsedQPUs
<1>2. NDRange(request)' = NDRange(request)
  BY DEF NDRange
<1>3. Regular' <=> Regular
  BY DEF Regular, Countable
<1>4. ASSUME NEW g, NEW i
      PROVE  ItemsFor(g, i)' = ItemsFor(g, i)
  BY <1>1 DEF ItemsFor, WorkItems, WorkItemInfo
<1> QED
  BY <1>1, <1>2, <1>3, <1>4

LEMMA SameDone ==
    ASSUME UNCHANGED <<request, localSizes, CurrentGroup, EndedQPUs>>
    PROVE  Done' = Done
<1>1. ASSUME NEW g, NEW i
      PROVE  Worked(g, i)' <=> Worked(g, i)
  <2>1. Number(g, Limits)' = Number(g, Limits) /\ Number(CurrentGroup, Limits)' = Number(CurrentGroup, Limits)
    BY SameRange DEF Number
  <2> QED
    BY <2>1 DEF Worked
<1>2. Box(Limits)' = Box(Limits)
  BY SameRange DEF Box
<1> QED
  BY <1>1, <1>2, SameRange DEF Done

\* Before the first group has been started nothing is done.
LEMMA FirstDone ==
    ASSUME Walkable, UNCHANGED <<request, localSizes>>,
           CurrentGroup' = <<0, 0, 0>>, EndedQPUs' = {}
    PROVE  Done' = {} /\ (CurrentGroup \in Box(Limits))'
<1>1. PICK v : v = Limits /\ v = Limits'
  BY SameRange
<1>2. v[1] \in Nat \ {0} /\ v[2] \in Nat \ {0} /\ v[3] \in Nat \ {0}
  BY <1>1, SizesFacts DEF Dims
<1>3. <<0, 0, 0>> \in Box(v) /\ Number(<<0, 0, 0>>, v) = 0
  BY <1>2, FirstPosition
<1>4. Box(Limits)' = Box(v) /\ Number(CurrentGroup, Limits)' = 0
  BY <1>1, <1>3 DEF Box, Number
<1>5. ASSUME NEW g \in Box(v), NEW i
      PROVE  ~ Worked(g, i)'
  <2>1. Number(g, v) \in Nat
    BY <1>2, NumberFacts
  <2>2. Number(g, Limits)' = Number(g, v)
    BY <1>1 DEF Number
  <2> QED
    BY <1>4, <2>1, <2>2 DEF Worked
<1> QED
  BY <1>3, <1>4, <1>5 DEF Done

\* When all QPUs have ended and the next group is up, this one is done.
LEMMA NextDone ==
    ASSUME Walkable, UNCHANGED <<request, localSizes>>,
           CurrentGroup \in Box(Limits), EndedQPUs = UsedQPUs, EndedQPUs' = {},
           Number(CurrentGroup', Limits) = Number(CurrentGroup, Limits) + 1
    PROVE  Done' = Done
<1>1. PICK v : v = Limits /\ v = Limits'
  BY SameRange
<1>2. PICK c : c = CurrentGroup
  OBVIOUS
<1>3. v[1] \in Nat /\ v[2] \in Nat /\ v[3] \in Nat /\ c \in Box(v)
  BY <1>1, <1>2, SizesFacts DEF Dims
<1>4. Box(Limits)' = Box(Limits) /\ Number(CurrentGroup, Limits)' = Number(c, v) + 1
  <2>1. Number(CurrentGroup, Limits)' = Number(CurrentGroup', Limits)
    BY <1>1 DEF Number
  <2> QED
    BY <1>1, <1>2, <2>1 DEF Box
<1>5. ASSUME NEW g \in Box(Limits), NEW i \in UsedQPUs
      PROVE  Worked(g, i)' <=> Worked(g, i)
  <2>1. /\ Number(g, v) \in Nat /\ Number(c, v) \in Nat
        /\ Number(g, v) = Number(c, v) <=> g = c
    BY <1>1, <1>3, NumberFacts
  <2>2. Number(g, Limits)' = Number(g, v)
    BY <1>1 DEF Number
  <2>3. Worked(g, i)' <=> Number(g, v) < Number(c, v) + 1
    BY <1>4, <2>2 DEF Worked
  <2>4. Worked(g, i) <=> Number(g, v) < Number(c, v) \/ g = c
    BY <1>1, <1>2 DEF Worked
  <2> QED
    BY <2>1, <2>3, <2>4
<1> QED
  BY <1>4, <1>5, SameRange DEF Done

\* After the last group everything is done.
LEMMA LastDone ==
    ASSUME Walkable, UsedQPUs \subseteq QPUs, CurrentGroup \in Box(Limits), EndedQPUs = UsedQPUs,
           ~request.loop => Number(CurrentGroup, Limits) + 1 = ExactProduct(Limits)
    PROVE  Done = NDRange(request)
<1>1. PICK v, c : v = Limits /\ c = CurrentGroup
  OBVIOUS
<1>2. v[1] \in Nat /\ v[2] \in Nat /\ v[3] \in Nat /\ c \in Box(v)
  BY <1>1, SizesFacts DEF Dims
<1>3. ASSUME NEW w \in NDRange(request)
      PROVE  \E g \in Box(Limits), i \in UsedQPUs : Worked(g, i) /\ w \in ItemsFor(g, i)
  <2>1. CASE request.loop
    <3>1. PICK i \in UsedQPUs : w \in ItemsFor(c, i)
      BY <1>1, <1>2, <2>1, ItemsCover
    <3>2. Worked(c, i)
      BY <1>1 DEF Worked
    <3> QED
      BY <1>1, <3>1, <3>2
  <2>2. CASE ~request.loop
    <3>1. PICK g \in Box(Limits), i \in UsedQPUs : w \in ItemsFor(g, i)
      BY ItemsCover
    <3>2. /\ Number(g, v) \in Nat /\ Number(c, v) \in Nat /\ Number(g, v) < ExactProduct(v)
          /\ Number(g, v) = Number(c, v) => g = c
      BY <1>1, <1>2, NumberFacts
    <3>3. ExactProduct(v) = Number(c, v) + 1
      BY <1>1, <2>2
    <3>4. Number(g, v) < Number(c, v) \/ g = c
      BY <3>2, <3>3
    <3>5. Worked(g, i)
      BY <1>1, <3>4 DEF Worked
    <3> QED
      BY <3>1, <3>5
  <2> QED
    BY <2>1, <2>2
<1> QED
  BY <1>3 DEF Done

\* The end of a program adds the work-items of its QPU, none of which was done.
LEMMA EndDone ==
    ASSUME Walkable, UsedQPUs \subseteq QPUs, UNCHANGED <<request, localSizes, CurrentGroup>>,
           CurrentGroup \in Box(Limits), request.loop => CurrentGroup = <<0, 0, 0>>,
           NEW i \in UsedQPUs, i \notin EndedQPUs, EndedQPUs' = EndedQPUs \cup {i}
    PROVE  /\ Done' = Done \cup ItemsFor(CurrentGroup, i)
           /\ Done \cap ItemsFor(CurrentGroup, i) = {}
<1>1. PICK v, c : v = Limits /\ v = Limits' /\ c = CurrentGroup
  BY SameRange
<1>2. v[1] \in Nat /\ v[2] \in Nat /\ v[3] \in Nat /\ c \in Box(v)
  BY <1>1, SizesFacts DEF Dims
<1>3. Box(Limits)' = Box(Limits)
  BY <1>1 DEF Box
<1>4. ASSUME NEW g, NEW j
      PROVE  Worked(g, j)' <=> Worked(g, j) \/ (g = c /\ j = i)
  <2>1. /\ Number(g, Limits)' = Number(g, Limits)
        /\ Number(CurrentGroup, Limits)' = Number(CurrentGroup, Limits)
    BY SameRange DEF Number
  <2> QED
    BY <1>1, <2>1 DEF Worked
<1>5. Done' = Done \cup ItemsFor(CurrentGroup, i)
  <2>1. ItemsFor(c, i) \subseteq NDRange(request)
    BY <1>1, <1>2, ItemsCover
  <2>2. Done' = {w \in NDRange(request) : \E g \in Box(Limits), j \in UsedQPUs :
                    (Worked(g, j) \/ (g = c /\ j = i)) /\ w \in ItemsFor(g, j)}
    BY <1>3, <1>4, SameRange DEF Done
  <2> QED
    BY <1>1, <1>2, <2>1, <2>2 DEF Done
<1>6. ASSUME NEW w \in Done, w \in ItemsFor(CurrentGroup, i)
      PROVE  FALSE
  <2>1. PICK g \in Box(Limits), j \in UsedQPUs : Worked(g, j) /\ w \in ItemsFor(g, j)
    BY DEF Done
  <2>2. /\ Number(g, v) \in Nat /\ Number(c, v) \in Nat
        /\ Number(g, v) < Number(c, v) \/ (g = c /\ j \in EndedQPUs)
    BY <1>1, <1>2, <2>1, NumberFacts DEF Worked
  <2>3. request.loop => g = c
    <3>1. ASSUME request.loop
          PROVE  g = c
      <4>1. Number(c, v) = 0
        <5>1. v[1] # 0 /\ v[2] # 0 /\ v[3] # 0 /\ c = <<0, 0, 0>>
          BY <1>1, <3>1, SizesFacts DEF Dims
        <5> QED
          BY <1>2, <5>1, FirstPosition
      <4> QED
        BY <2>2, <4>1
    <3> QED
      BY <3>1
  <2>4. g = c /\ j = i
    BY <1>1, <1>2, <1>6, <2>1, <2>3, ItemsApart
  <2> QED
    BY <2>2, <2>4
<1> QED
  BY <1>5, <1>6

LEMMA ExecuteStep ==
    ASSUME Walkable, BlocksInv, ProgramsInv, WalkInv, executeKernel, late = 0, late' = 0
    PROVE  /\ (pc # "idle" => WalkInv)'
           /\ (pc = "idle" /\ result = "CL_COMPLETE" => executed = SetToBag(NDRange(request)))'
<1>1. UNCHANGED <<request, localSizes, executed>>
  BY DEF executeKernel, executeKernel_Refuse, executeKernel_Begin, executeQPU, PrepareNext,
     WaitForGroup, WaitForLast, deviceVars
<1>2. pc \in Launched \cup {"launch"} =>
          /\ UsedQPUs \subseteq QPUs /\ CurrentGroup \in Box(Limits)
          /\ request.loop => CurrentGroup = <<0, 0, 0>> /\ pc # "wait"
          /\ executed = SetToBag(Done)
  BY InfoFacts DEF BlocksInv, WalkInv
<1>3. PICK v : v = Limits /\ v = Limits'
  BY <1>1, SameRange
<1>4. /\ v[1] \in Nat /\ v[2] \in Nat /\ v[3] \in Nat /\ v[2] < SizeMod
  BY <1>3, SizesFacts DEF Dims
<1>5. \A g : (g \in Box(Limits))' <=> g \in Box(Limits)
  BY <1>3 DEF Box
<1>6. CASE executeKernel_Refuse
  <2>1. pc' = "idle" /\ result' = Refusal
    BY <1>6 DEF executeKernel_Refuse, Return
  <2>2. QPUsNeeded(request, localSizes) # 0
    BY QPUsFacts
  <2>3. Refusal # "CL_COMPLETE"
    BY <2>2 DEF Refusal
  <2> QED
    BY <2>1, <2>3
<1>7. CASE executeKernel_Begin
  <2>1. /\ pc = "ready" /\ pc' = "launch" /\ group' = <<0, 0, 0>>
    BY <1>7 DEF executeKernel_Begin
  <2>2. CurrentGroup' = <<0, 0, 0>> /\ EndedQPUs' = {}
    BY <2>1 DEF CurrentGroup, EndedQPUs, Launched
  <2>3. Done' = {} /\ (CurrentGroup \in Box(Limits))'
    BY <1>1, <2>2, FirstDone
  <2>4. executed' = SetToBag(Done')
    BY <1>1, <2>1, <2>3 DEF WalkInv, EmptyBag
  <2> QED
    BY <2>1, <2>2, <2>3, <2>4 DEF WalkInv
<1>8. CASE executeQPU
  <2>1. pc = "launch" /\ pc' = "prepare" /\ UNCHANGED group
    BY <1>8 DEF executeQPU
  <2>2. CurrentGroup' = CurrentGroup /\ EndedQPUs = {} /\ EndedQPUs' = {}
    BY <1>8, <2>1, LaunchEnded DEF CurrentGroup, EndedQPUs, Launched
  <2>3. Done' = Done
    BY <1>1, <2>2, SameDone
  <2>4. /\ (CurrentGroup \in Box(Limits))'
        /\ (request.loop => CurrentGroup = <<0, 0, 0>>)'
        /\ executed' = SetToBag(Done')
    BY <1>1, <1>2, <1>5, <2>1, <2>2, <2>3
  <2> QED
    BY <2>1, <2>4 DEF WalkInv
<1>9. CASE PrepareNext
  <2>1. pc = "prepare" /\ UNCHANGED <<queued, running>>
    BY <1>9 DEF PrepareNext, deviceVars
  <2>2. CurrentGroup' = CurrentGroup /\ UsedQPUs' = UsedQPUs /\ pc \in Launched /\ pc' \in Launched
    BY <1>9, PrepareKeepsLaunch
  <2>3. EndedQPUs' = EndedQPUs
    BY <2>1, <2>2 DEF EndedQPUs, PendingQPUs, Busy
  <2>4. Done' = Done
    BY <1>1, <2>2, <2>3, SameDone
  <2>5. /\ (CurrentGroup \in Box(Limits))'
        /\ (request.loop => CurrentGroup = <<0, 0, 0>>)'
        /\ executed' = SetToBag(Done')
    BY <1>1, <1>2, <1>5, <2>2, <2>4
  <2>6. PICK c, next : c = CurrentGroup /\ c = group /\ next = increment_index(c, v)
    BY <2>1 DEF CurrentGroup
  <2>7. c \in Box(v)
    BY <1>2, <1>3, <2>2, <2>6
  <2>8. /\ InLimits(next, v) => next \in Box(v) /\ Number(next, v) = Number(c, v) + 1
        /\ ~InLimits(next, v) => Number(c, v) + 1 = ExactProduct(v)
    BY <1>4, <2>6, <2>7, IncrementFacts
  <2>9. CASE ~request.loop /\ InLimits(next, v)
    <3>1. pc' = "wait" /\ group' = next
      BY <1>3, <1>9, <2>6, <2>9 DEF PrepareNext
    <3>2. (group \in Box(Limits))'
      BY <1>3, <2>8, <2>9, <3>1 DEF Box
    <3>3. Number(group, Limits)' = Number(next, v) /\ Number(CurrentGroup, Limits)' = Number(c, v)
      BY <1>3, <2>2, <2>6, <3>1 DEF Number
    <3>4. ~request'.loop
      BY <1>1, <2>9
    <3> QED
      BY <2>5, <2>8, <2>9, <3>1, <3>2, <3>3, <3>4 DEF WalkInv
  <2>10. CASE ~ (~request.loop /\ InLimits(next, v))
    <3>1. pc' = "finish"
      BY <1>3, <1>9, <2>6, <2>10 DEF PrepareNext
    <3>2. Number(CurrentGroup, Limits)' = Number(c, v) /\ ExactProduct(Limits)' = ExactProduct(v)
      BY <1>3, <2>2, <2>6 DEF Number, ExactProduct
    <3>3. ~request'.loop => Number(c, v) + 1 = ExactProduct(v)
      BY <1>1, <2>8, <2>10
    <3> QED
      BY <2>5, <3>1, <3>2, <3>3 DEF WalkInv
  <2> QED
    BY <2>9, <2>10
<1>10. CASE WaitForGroup
  <2>1. pc = "wait" /\ pc \in Launched
    BY <1>10 DEF WaitForGroup, Launched
  <2>2. CASE pc' = "idle"
    <3>1. result' # "CL_COMPLETE"
      BY <1>10, <2>2 DEF WaitForGroup, Return
    <3> QED
      BY <2>2, <3>1
  <2>3. CASE pc' # "idle"
    <3>1. Passed /\ pc' = "launch" /\ UNCHANGED group
      BY <1>10, <2>3 DEF WaitForGroup, Return
    <3>2. EndedQPUs = UsedQPUs
      BY <2>1, <3>1, CounterFacts
    <3>3. CurrentGroup' = group /\ EndedQPUs' = {}
      BY <3>1 DEF CurrentGroup, EndedQPUs, Launched
    <3>4. group \in Box(Limits) /\ Number(group, Limits) = Number(CurrentGroup, Limits) + 1
      BY <2>1 DEF WalkInv
    <3>5. Done' = Done
      <4>1. Number(CurrentGroup', Limits) = Number(CurrentGroup, Limits) + 1
        BY <3>3, <3>4
      <4> QED
        BY <1>1, <1>2, <2>1, <3>2, <3>3, <4>1, NextDone
    <3>6. (CurrentGroup \in Box(Limits))' /\ executed' = SetToBag(Done') /\ ~request'.loop
      BY <1>1, <1>2, <1>5, <2>1, <3>3, <3>4, <3>5
    <3> QED
      BY <3>1, <3>6 DEF WalkInv
  <2> QED
    BY <2>2, <2>3
<1>11. CASE WaitForLast
  <2>1. pc = "finish" /\ pc \in Launched /\ pc' = "idle"
    BY <1>11 DEF WaitForLast, Launched, Return
  <2>2. CASE ~Passed
    <3>1. result' = "CL_OUT_OF_RESOURCES"
      BY <1>11, <2>2 DEF WaitForLast, Return
    <3> QED
      BY <2>1, <3>1
  <2>3. CASE Passed
    <3>1. EndedQPUs = UsedQPUs
      BY <2>1, <2>3, CounterFacts
    <3>2. Done = NDRange(request)
      <4>1. ~request.loop => Number(CurrentGroup, Limits) + 1 = ExactProduct(Limits)
        BY <2>1 DEF WalkInv
      <4> QED
        BY <1>2, <2>1, <3>1, <4>1, LastDone
    <3>3. executed' = SetToBag(NDRange(request)')
      BY <1>1, <1>2, <2>1, <3>2, SameRange
    <3> QED
      BY <2>1, <3>3
  <2> QED
    BY <2>2, <2>3
<1> QED
  BY <1>6, <1>7, <1>8, <1>9, <1>10, <1>11 DEF executeKernel

\* A step of the executor's state only by its programs.
LEMMA SameWalk ==
    ASSUME WalkInv, UNCHANGED hostVars,
           pc \in Launched \cup {"launch"} => executed' = SetToBag(Done'),
           pc = "ready" => UNCHANGED executed
    PROVE  WalkInv'
<1>1. UNCHANGED <<pc, request, localSizes, group, CurrentGroup>>
  BY SameLaunch DEF hostVars
<1>2. PICK v, c, n : v = Limits /\ v = Limits' /\ c = CurrentGroup /\ n = group
  BY <1>1, SameRange
<1>3. /\ (CurrentGroup \in Box(Limits))' <=> CurrentGroup \in Box(Limits)
      /\ (group \in Box(Limits))' <=> group \in Box(Limits)
  BY <1>1, <1>2 DEF Box
<1>4. /\ Number(group, Limits)' = Number(group, Limits)
      /\ Number(CurrentGroup, Limits)' = Number(CurrentGroup, Limits)
      /\ ExactProduct(Limits)' = ExactProduct(Limits)
  BY <1>1, <1>2 DEF Number, ExactProduct
<1> QED
  BY <1>1, <1>3, <1>4 DEF WalkInv, Launched

LEMMA ExecutedStep ==
    ASSUME SizesInv, BlocksInv, DeviceInv, ExecutedInv, [Next]_vars
    PROVE  ExecutedInv'
<1> SUFFICES ASSUME late' = 0, Regular'
             PROVE  /\ (pc # "idle" => WalkInv)'
                    /\ (pc = "idle" /\ result = "CL_COMPLETE" =>
                            executed = SetToBag(NDRange(request)))'
  BY DEF ExecutedInv
<1>1. late = 0 /\ ProgramsInv
  BY LateStep DEF DeviceInv
<1>2. ASSUME NEW r \in Requests, enqueueNDRange(r)
      PROVE  /\ (pc # "idle" => WalkInv)'
             /\ (pc = "idle" /\ result = "CL_COMPLETE" => executed = SetToBag(NDRange(request)))'
  <2>1. pc' \in {"idle", "ready"} /\ executed' = EmptyBag
    BY <1>2 DEF enqueueNDRange
  <2>2. setWorkGroupSizes(r) # "CL_COMPLETE"
    BY RequestsAssumption DEF setWorkGroupSizes
  <2>3. result' # "CL_COMPLETE"
    BY <1>2, <2>2 DEF enqueueNDRange
  <2> QED
    BY <2>1, <2>3 DEF WalkInv, Launched
<1>3. ASSUME UNCHANGED <<request, localSizes>>, pc # "idle"
      PROVE  Walkable /\ WalkInv
  BY <1>1, <1>3, SameRange DEF Walkable, SizesInv, ExecutedInv
<1>4. CASE executeKernel
  <2>1. UNCHANGED <<request, localSizes>> /\ pc # "idle"
    BY <1>4 DEF executeKernel, executeKernel_Refuse, executeKernel_Begin, executeQPU, PrepareNext,
       WaitForGroup, WaitForLast
  <2> QED
    BY <1>1, <1>3, <1>4, <2>1, ExecuteStep
<1>5. ASSUME UNCHANGED hostVars, UNCHANGED <<executed, EndedQPUs>>
      PROVE  /\ (pc # "idle" => WalkInv)'
             /\ (pc = "idle" /\ result = "CL_COMPLETE" => executed = SetToBag(NDRange(request)))'
  <2>1. UNCHANGED <<pc, request, localSizes, result, CurrentGroup>>
    BY <1>5, SameLaunch DEF hostVars
  <2>2. Done' = Done
    BY <1>5, <2>1, SameDone
  <2>3. CASE pc = "idle"
    BY <1>1, <1>5, <2>1, <2>3, SameRange DEF ExecutedInv
  <2>4. CASE pc # "idle"
    <3>1. WalkInv
      BY <1>3, <2>1, <2>4
    <3>2. pc \in Launched \cup {"launch"} => executed' = SetToBag(Done')
      BY <1>5, <2>2, <3>1 DEF WalkInv
    <3>3. WalkInv'
      BY <1>5, <3>1, <3>2, SameWalk
    <3> QED
      BY <2>1, <2>4, <3>3
  <2> QED
    BY <2>3, <2>4
<1>6. CASE ReleaseMemObject \/ UNCHANGED vars
  <2>1. UNCHANGED hostVars /\ UNCHANGED <<executed, queued, running>>
    BY <1>6 DEF ReleaseMemObject, vars, deviceVars
  <2>2. EndedQPUs' = EndedQPUs
    BY <2>1, SameLaunch DEF EndedQPUs, PendingQPUs, Busy
  <2> QED
    BY <1>5, <2>1, <2>2
<1>7. ASSUME NEW p \in queued, StartProgram(p)
      PROVE  /\ (pc # "idle" => WalkInv)'
             /\ (pc = "idle" /\ result = "CL_COMPLETE" => executed = SetToBag(NDRange(request)))'
  <2>1. UNCHANGED hostVars /\ UNCHANGED executed
    BY <1>7 DEF StartProgram
  <2>2. EndedQPUs' = EndedQPUs
    BY <1>1, <1>7, StartEnded
  <2> QED
    BY <1>5, <2>1, <2>2
<1>8. ASSUME NEW p \in running, EndProgram(p)
      PROVE  /\ (pc # "idle" => WalkInv)'
             /\ (pc = "idle" /\ result = "CL_COMPLETE" => executed = SetToBag(NDRange(request)))'
  <2>1. pc \in Launched /\ UNCHANGED hostVars /\ executed' = executed (+) SetToBag(p.items)
    BY <1>1, <1>8 DEF EndProgram, ProgramsInv, Busy
  <2>2. UNCHANGED <<pc, request, localSizes, CurrentGroup>>
    BY <2>1, SameLaunch DEF hostVars
  <2>3. Walkable /\ WalkInv
    BY <1>3, <2>1, <2>2 DEF Launched
  <2>4. /\ p.qpu \in UsedQPUs /\ p.items = ItemsOf(p.qpu)
        /\ EndedQPUs' = EndedQPUs \cup {p.qpu} /\ p.qpu \notin EndedQPUs
    <3>1. /\ p.qpu \in UsedQPUs
          /\ p = [kernel |-> kernel, qpu |-> p.qpu, group |-> CurrentGroup,
                  items |-> ItemsOf(p.qpu)]
      BY <1>1, <2>1 DEF ProgramsInv
    <3>2. p.items = ItemsOf(p.qpu)
      BY <3>1
    <3> QED
      BY <1>1, <1>8, <3>1, <3>2, EndEnded
  <2>5. /\ uniforms[CurrentBlock] = WorkItemInfo(CurrentGroup) /\ UsedQPUs \subseteq QPUs
        /\ CurrentGroup \in Box(Limits) /\ (request.loop => CurrentGroup = <<0, 0, 0>>)
        /\ executed = SetToBag(Done)
    BY <2>1, <2>3, InfoFacts DEF BlocksInv, WalkInv
  <2>6. p.items = ItemsFor(CurrentGroup, p.qpu)
    BY <2>4, <2>5 DEF ItemsOf, ItemsFor
  <2>7. /\ Done' = Done \cup p.items
        /\ Done \cap p.items = {}
    BY <2>2, <2>3, <2>4, <2>5, <2>6, EndDone
  <2>8. executed' = SetToBag(Done')
    <3>1. SetToBag(Done) (+) SetToBag(p.items) = SetToBag(Done \cup p.items)
      BY <2>7, BagOfUnion
    <3> QED
      BY <2>1, <2>5, <2>7, <3>1
  <2>9. WalkInv'
    BY <2>1, <2>3, <2>8, SameWalk DEF Launched
  <2> QED
    BY <2>1, <2>2, <2>9 DEF Launched
<1>9. ~ (StartStray \/ EndStray)
  BY <1>1 DEF StartStray, EndStray, ProgramsInv
<1> QED
  BY <1>2, <1>4, <1>6, <1>7, <1>8, <1>9 DEF Next, QPUStep

\* Until a wait times out, the QPUs execute no work-item twice and none outside
\* the range, however they interleave with the executor: for the ranges of any
\* size, with work-items merged or not and with groups looped over by the host
\* or by the code.
THEOREM WorkItemsExecutedOnce == Spec => []NoWorkItemTwice
<1>1. SizesInv /\ BlocksInv /\ ExecutedInv => NoWorkItemTwice
  <2> SUFFICES ASSUME SizesInv, BlocksInv, ExecutedInv, late = 0, pc # "idle", Regular
               PROVE  executed \sqsubseteq SetToBag(NDRange(request))
    BY DEF NoWorkItemTwice
  <2>1. WalkInv
    BY DEF ExecutedInv
  <2>2. PICK S : S \subseteq NDRange(request) /\ executed = SetToBag(S)
    <3>1. executed = SetToBag({}) \/ executed = SetToBag(Done)
      BY <2>1 DEF SizesInv, WalkInv, Launched, EmptyBag
    <3>2. Done \subseteq NDRange(request)
      BY DEF Done
    <3> QED
      BY <3>1, <3>2
  <2> QED
    BY <2>2 DEF SetToBag, \sqsubseteq
<1> QED
  BY <1>1, SizesInit, SizesStep, BlocksInit, BlocksStep, DeviceInit, DeviceStep, ExecutedInit,
     ExecutedStep, PTL DEF Spec

\* A kernel whose event is completed without a timeout has executed every
\* work-item of the range the application asked for, each once: executeKernel
\* walks through all groups and waits for the last of them too.
THEOREM CompleteKernelsExecuted == Spec => []CompleteMeansExecuted
<1>1. ExecutedInv => CompleteMeansExecuted
  BY DEF ExecutedInv, CompleteMeansExecuted
<1> QED
  BY <1>1, SizesInit, SizesStep, BlocksInit, BlocksStep, DeviceInit, DeviceStep, ExecutedInit,
     ExecutedStep, PTL DEF Spec
================================================================================
