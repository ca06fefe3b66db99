--------------------------- MODULE MCKernelExecution ---------------------------
(***************************************************************************)
(* Requests for the model checker: a device with three QPUs whose size_t   *)
(* has 16 values.                                                          *)
(***************************************************************************)
EXTENDS KernelExecution

NoReqd == <<0, 0, 0>>

Request(state, dim, offset, global, local, reqd, merge, loop) ==
    [state |-> state, dim |-> dim, offset |-> offset, global |-> global,
     local |-> local, reqd |-> reqd, merge |-> merge, loop |-> loop]

Plain(dim, global, local, reqd, merge, loop) ==
    Request("CL_SUCCESS", dim, NULL, global, local, reqd, merge, loop)

\* Ranges split by the code: in one group, by the largest divisor, by the
\* compile-time size, which may not fit; and merged or looping kernels.
SplitByCode ==
    {Plain(3, <<x, y, z>>, NULL, NoReqd, 0, FALSE) : x \in {2, 5}, y \in {1, 2}, z \in {1, 2}}
    \cup {Plain(2, <<x, 2, 1>>, NULL, <<2, 1, 1>>, 0, FALSE) : x \in {3, 4}}
    \cup {Plain(2, <<4, 2, 1>>, NULL, NoReqd, 0, TRUE)}
    \cup {Plain(1, <<x, 1, 1>>, NULL, NoReqd, 2, FALSE) : x \in {5, 8}}

\* Local sizes chosen by the application, fitting and not.
SplitByCaller ==
    {Plain(2, <<4, 2, 1>>, <<lx, ly, 1>>, NoReqd, 0, FALSE) : lx \in 0..2, ly \in 1..2}
    \cup {Plain(1, <<4, 1, 1>>, <<lx, 1, 1>>, <<2, 1, 1>>, 0, FALSE) : lx \in {1, 2}}
    \cup {Plain(1, <<4, 1, 1>>, <<4, 1, 1>>, NoReqd, 2, FALSE)}

\* Refused calls, an empty range, and ranges whose product or sum overflows.
Irregular ==
    {Request("CL_INVALID_KERNEL_ARGS", 1, NULL, <<1, 1, 1>>, NULL, NoReqd, 0, FALSE),
     Plain(0, <<1, 1, 1>>, NULL, NoReqd, 0, FALSE),
     Plain(1, NULL, NULL, NoReqd, 0, FALSE),
     Plain(1, <<15, 1, 1>>, NULL, NoReqd, 0, FALSE),
     Plain(2, <<0, 1, 1>>, NULL, NoReqd, 0, FALSE),
     Plain(2, <<0, 1, 1>>, <<1, 1, 1>>, NoReqd, 0, FALSE),
     Plain(2, <<4, 4, 1>>, NULL, NoReqd, 0, FALSE),
     Plain(2, <<2, 2, 1>>, <<2, 2, 1>>, NoReqd, 2, FALSE)}
    \cup {Request("CL_SUCCESS", 1, <<o, 0, 0>>, <<2, 1, 1>>, NULL, NoReqd, 0, FALSE) : o \in {1, 13, 15}}

AllRequests == SplitByCode \cup SplitByCaller \cup Irregular
================================================================================
