# A verification of VC4CL in TLA+

VC4CL implements OpenCL 1.2 for the VideoCore IV of the Raspberry Pi. Its C++
library answers the OpenCL calls of any number of application threads and
executes the enqueued commands in one thread of its own. This directory holds
TLA+ modules of that library, TLC configurations that check them on small
instances, and proofs that TLAPS checks for every size. `PROJECT.json` relates
every definition to the source lines it models and lists runs, hazards and
findings. Paths below are relative to the repository.

## The system

| part | state | operations | interacts with |
|---|---|---|---|
| event queue (`src/queue_handler.cpp`) | `eventBuffer`, the handler thread, two condition variables | `pushEvent`, `peek`, `waitForEvent`, `runEventQueue` | runs the actions of events, notifies waiting threads |
| events (`src/Event.cpp`) | status, queue, wait list, callbacks, user status | enqueue preparation, `updateStatus`, callbacks, `setUserEventStatus`, `waitFor` | read by every other thread under their own `statusLock` |
| command queues, markers, barriers (`src/CommandQueue.cpp`, `src/barriers.cpp`) | the shared event queue, flags | `enqueueEvent`, `finish` | all command queues share one event queue |
| objects (`src/Object.h`, `src/ObjectTracker.cpp`, `src/Context.cpp`) | reference count, list of live objects | retain, release, `object_wrapper` | every object references its context, events their queue and wait list |
| buffers (`src/Buffer.cpp`) | device memory, host pointer, `mappings` | map, unmap, read, write, copy, fill, sub-buffers | commands executed by the event queue; arguments of kernels |
| images (`src/Image.cpp`, `src/TextureFormat.cpp`) | texture layout | transfers, address calculation | specialised buffers |
| kernels (`src/Kernel.cpp`) | arguments, work sizes | `setArg`, `enqueueNDRange`, clone | create the commands the executor runs |
| executor (`src/executor.cpp`) | uniforms, messages and code in device memory | the loop over work-groups | runs as an event's action, starts the QPUs |
| hardware access (`src/hal/`) | components, device memory, the current job | creation, allocation, execution, queries | called by buffers, executor, counters |
| programs (`src/Program.cpp`) | source, intermediate code, binary, kernels, build status | build, compile, link, extract kernels | build in a detached thread; kernels hold them |
| module headers (`src/shared/BinaryHeader.cpp`) | none | write, read | between the compiler, programs and kernels |
| performance counters (`src/PerformanceCounter.cpp`) | counters in use | start, collect | V3D registers, executor |
| platform, device, extensions, ICD (`src/Device.cpp` and others) | constants | queries | nothing to check |

What is hard here:

* **one handler for everything.** Commands of all command queues run in the
  order of `pushEvent`, which is not the order in which events are created. The
  handler never skips a command that has to wait, so one that waits for a
  command behind it would stop the process. Wake-ups can be missed, because the
  condition variables are not tied to the mutex of the buffer
  (`queue_handler.cpp:171`).
* **statuses without a common lock.** Each event has its lock, a wait list is
  read one event at a time, and user events change meanwhile.
* **references.** The application, the call that enqueues, the buffer, the
  handler, `clFinish` and other events each hold references and drop them in
  any order; the handler itself uses plain pointers.
* **split calls.** A call changes an object under one lock and pushes its
  command under another. Buffer mappings do this with a list iterator.
* **failures.** A command whose wait list failed is terminated without its
  action; what the call had prepared for the action stays.
* **the device.** Double-buffered uniforms, timeouts after which the QPUs may
  still run, work-group arithmetic.
* **builds.** A detached thread writes the build status while others query it.

What makes each part correct: commands execute as if one by one in the order of
acceptance, after what they wait for, and every one ends; a status never goes
back; every callback is called once; a blocking call returns, and only when what
it promises holds; reference counts equal the holders, nothing in use is freed
and nothing unused is kept; map and unmap commands find their entries and both
copies of a buffer agree; every work-item runs once with its own ids; a program
that is built has the kernels of its last successful build.

## Modules

| module | models | builds on |
|---|---|---|
| `EventStatus` | the status numbers and `isFinished` | |
| `OrderedExecution` | abstract: what is promised about the execution of commands | |
| `EventQueue` | event queue, handler thread, events, user events, callbacks | `EventStatus`; implements `OrderedExecution` |
| `EventQueueProofs` | theorems about `EventQueue`, and that it implements `OrderedExecution` | `EventQueue` |
| `EventWaiters` | threads that block on events and command queues | `EventQueue` |
| `ObjectLifetime` | reference counts of events, command queues, context | `EventQueue` |
| `EventClientsProofs` | theorems about both: what the returns of blocking calls mean, exact counts, nothing freed in use | `EventWaiters`, `ObjectLifetime`, `EventQueueProofs` |
| `BufferMapping` | mappings of a `CL_MEM_USE_HOST_PTR` buffer and its two copies | what `OrderedExecution` promises |
| `BufferMappingProofs` | theorems about entries, iterators and the copies | `BufferMapping` |
| `WorkSizes` | checking and splitting of work sizes, walking through work-groups, in `size_t` arithmetic | |
| `KernelExecution` | `enqueueNDRange`, `executeKernel`, the QPUs and the V3D's counter | `WorkSizes`, what `OrderedExecution` promises |
| `KernelExecutionProofs` | theorems: accepted sizes, one group at a time, memory, each work-item once | `KernelExecution` |
| `ProgramBuild` | build, compile and link of programs in several threads, kernels that hold a program | |
| `ProgramBuildProofs` | theorems about it | `ProgramBuild` |
| `BufferFlags` | the flags of memory objects, the flat memory | |
| `Buffers` | buffers, sub-buffers and every command that moves their bytes | `BufferFlags` |
| `Images` | images, the layout of their pixels and every command on them | `BufferFlags` |
| `MemoryObjectProofs` | theorems about both: host rights, mapped pointers, pixels | `Buffers`, `Images` |
| `ModuleBinary` | writing and reading the compiled module | |
| `KernelArguments` | kernels, their arguments, and what `executeKernel` lays out in memory | `ModuleBinary` |
| `KernelArgumentsProofs` | theorems: the round trip through the binary, queries, the size of the device buffer, what every QPU finds | `KernelArguments` |
| `SystemAccess` | the hardware components, device memory, queries, end of the process | |
| `QPUJobs` | jobs over VCHI, mailbox, V3D and emulator; performance counters | `SystemAccess` |
| `QPUJobsProofs` | theorems about both | `QPUJobs` |
| `MCKernelExecution`, `MCProgramBuild`, `MCBuffers`, `MCImages`, `MCKernelArguments`, `MCQPUJobs` | the inputs for the model checker | |

### EventQueue

The grain is one action for each block the code runs under `bufferMutex` or an
event's `statusLock`. The handler thread is the program counter `hpc` with its
locals: `Peek`, `Submit`, one `Scan` for each event of the wait list, then
`Run` and `Action`, or `Abort`, or back to `Sleep`; after a command
`ClearWaitList`, `NotifyProcessed`, `Pop`. `Sleep` is separate from the check it
follows, so a push can fall in between and its notification is lost, as in the
code; `Timeout` is `wait_for` running out.

An enqueue call is two steps: `Enqueue` (a new event with its wait list, up to
`prepareToQueue`) and `Push` (`pushEvent` and the result). Between them the event
is in `prepared`. Any number of calls may be between the two at once, so the
number of application threads needs no bound. A wait list holds events the
application knows: those returned by finished calls and user events.

Abstracted: what an action does (it ends in a status: complete or an error that
stands for every negative value), profiling times, info queries, `retain` and
`release` (in `ObjectLifetime`). Callbacks return and do nothing else. `setUserEventStatus`
is called with user events only; the code does not check that.

### OrderedExecution

Knows no threads, locks or buffer: commands are accepted, start one at a time in
that order when what they depend on is complete, end, or fail unstarted when a
dependency failed. `EventQueue` implements it under a mapping that reads the
state of an event off its status and drops the head of the buffer once it has
finished, since the handler pops it later.

### EventWaiters

`clWaitForEvents`, `clFinish` and the recursion of `Event::waitFor` as a stack of
frames per thread. A frame copies the wait list when it is entered, which is
what the range-for does with the storage of the vector (`clear` keeps it). That
is the benign outcome of the race reported below. A thread reads a status under
`statusLock`, then sleeps under `listenMutex`: two steps, so a notification can
come too early.

### ObjectLifetime

Every step of `EventQueue` conjoined with the references it takes and drops. A
release that reaches zero destroys the object and releases what it references,
in the same step. The application has released its context at the start and
releases command queues and events at any later moment; it does not use what it
has released.

### BufferMapping

A session is one use of mapped memory by the application: map, access, unmap.
`AddMapping` and `FindMapping` are the parts under `mappingsLock`, `PushMap` and
`PushUnmap` the commands. Contents are version numbers per region; `latest` is a
history of what was last written. The application keeps the rules of OpenCL: a
region is mapped twice only for reading, kernels do not write mapped regions,
and a mapping whose command failed is neither used nor unmapped. A command that
is aborted for its wait list runs no action (`MayAbort`).

### WorkSizes and KernelExecution

`WorkSizes` holds the functions of `Kernel.cpp` and `executor.cpp` on sizes as
operators over triples; products, sums and increments wrap at `SizeMod`, because
`size_t` has 32 bits on the Raspberry Pi. A request is the arguments of
`clEnqueueNDRangeKernel` with what the kernel's binary says about it.

`KernelExecution` follows one kernel after the other, as the single queue handler
thread executes them. `executeKernel` goes through the program counters `ready`,
`launch`, `prepare` (the next UNIFORMs are written while the QPUs run), `wait` and
`finish`. The QPUs are external: a requested program starts on a free QPU in any
order, reads its UNIFORMs then, ends at any time and is counted in `completed`,
whichever kernel it belongs to, as the V3D does. The mailbox waits inside its
call and VCHI reports through a callback; the order of host steps they allow is
among those of the V3D. A UNIFORM block is written in one step: a QPU
that reads the block between two writes would also be seen reading it before or
after. The compiled code is external too: a QPU executes the merged work-items
next to each other in the first dimension, and with loops those of all groups.

A program is a record in `queued`, then in `running`, and the history `executed` says
what the programs of the current kernel have executed. That is so until a wait times
out: what is left of the QPUs' work then, and all that comes after, is kept as the two
counts of `strays`. Three behaviours of the code
are kept out of the properties by `Regular`, though their requests are in the run:

* a global size of 0 with a local size of 1: the first work-group is executed
  before anything is compared, and with a second dimension of 0 its index only
  meets its limit again after 2^32 groups. The comment at `executor.cpp:240` has
  executions without work-items in mind, which only works if the local size is 0;
* a local size of 0 given by the application passes all checks and the kernel is
  complete without having executed its range;
* with merged work-items the local indices count up to the unmerged local size
  (`executor.cpp:401`), so a group of several dimensions is not covered.

A range whose product wraps in `size_t`, like 65536 x 65536 work-items where it
has 32 bits, is taken for a single small group (`Kernel.cpp:460`), accepted by the
same wrapped product at line 611 and reported as complete without being executed
(`executor.cpp:234`). `AcceptedFitsDevice` is stated in the arithmetic of the code.

After a timeout on the V3D, programs of the timed-out kernel are counted for the
next one, which can then be complete too early. `VCHI.cpp:48` guards against the
same for its job callbacks. No property says more than that kernels still end.

### ProgramBuild

A program is its kind, intermediate code, binary, kernels, globals and build
status. Intermediate code is the set of compilation units it was made of and a
binary names the code and options it was compiled from, so that the properties can
say whose code it is. `clBuildProgram`, `clCompileProgram` and `clLinkProgram` set
the status and start a job, in the caller's thread or in a detached one if there
is a callback; a job goes through `buildInner`, `compile`, `precompile_program`,
`link`, `compile_program`, `extractModuleInfo`, `setStatus` and `callback`, and
the compiler may fail at each. The application is one thread; `Rules` lists what
OpenCL asks of it and the code does not check: it starts no second build of a
program while one runs (`"idle"`), and builds none that is being linked as an input
(`"inputs"`). It does build programs again whose kernels it holds or has queued.
`clBuildProgram` and `clCompileProgram` do not refuse that, though `Program.cpp:980`
and `1076` list it as `CL_INVALID_OPERATION`.

What a queued kernel then finds is `ExecutesOwnCode`. A program created from
intermediate code or a binary keeps its code, since `link` leaves a binary that is
there, and the kernel's global data stay the first. A program with a source is
compiled again and loses its code at `Program.cpp:327`: a kernel that is still
queued executes the new code, or none. The property claims its code only as long as
no build was asked for since the kernel was created (the history `rebuilt`). Nor does
it speak of the global data while a detached build appends to them
(`Program.cpp:556`): that is a data race with the executor (`Appending`).

Two things the model shows and no passing property covers: `clCompileProgram`
sets the status to in progress before it checks its arguments, and an error leaves
it there (`Program.cpp:1094`); `extractModuleInfo` appends the globals to those of
the last build (`Program.cpp:552`, the field `globals`), so that after a second
`clBuildProgram` they no longer lie where the binary expects them.

### Buffers and Images

Both work on one flat memory: the device memory of each object and the arrays of
the application are ranges of it. `Enqueue` and the operators it is given are the
checks of one call; `execute` is the action the queue handler runs later. The
commands move rows one after the other, as the code does; the properties say
what the document says, in one step for the whole region.

What the code accepts and OpenCL does not is in the model and outside the
premises `Regular` and `InsideDestination`: host rectangles with pitches of 0,
fills whose size is no multiple of the pattern, overlaps of two sub-buffers of one
buffer or over the end of a slice, copies of images outside the destination
(`Image.cpp:238` checks the source only). The bounds of rectangles are checked
without their pitches (`Buffer.cpp:227`), so a region may lie behind the end of the
buffer; `EffectAsDocumented` then says which bytes move, not that they are its own.

An access to an image needs an origin that is 0 and 1 at once in the coordinates the
image does not have (`Image.cpp:474` and `478`; the second was meant for the
region). So every command on a 1D, 2D or 1D-array image is refused, and only 3D
images and 2D arrays are ever reached by one. Copies between images and buffers are
refused whenever both have device memory (`Image.cpp:313`), which is always. The
model has these refusals; `EffectOnPixels` says nothing about what they prevent.
T-format addresses are unfinished in the code; an image that needs them ends the
process when its pixels are touched, already in `clCreateImage` if that copies the
application's (`CopyAborts`). One with pixels of 16 bytes ends it too.

### ModuleBinary and KernelArguments

A binary is a sequence of 64-bit words: bit fields as records cut to their widths,
or eight bytes. `KernelArguments` starts with modules the compiler may have
made, writes and reads them, creates and clones kernels, sets arguments of every
kind, enqueues, and lays out the memory of the execution word by word. A snapshot
(`asked`) keeps what the application set at the enqueue. A binary may have been
cut to at most five words (`TruncationsAssumption`); it is then refused. A longer part may end within a text, which `readByteContainer` would read beyond the end
of the binary (`BinaryHeader.cpp:71`, unchecked): what it finds there is undefined, so
no property speaks of it. The queries know no generic address space and report it as
private (`Kernel.cpp:393-398`); `ObservedAsCompiled` says so.

### SystemAccess and QPUJobs

The environment variables and root rights choose the execution and memory modes;
components that are missing or refuse lead to the fallbacks of `hal.cpp`. Each
request to firmware or driver may fail. `Exit` drops the static reference of
`system()`; device buffers alive then keep the object. `QPUJobs` adds the
thread that runs kernels: a job per work-group, whose programs end at any time,
also after the wait for it has timed out; `ProgramEnds` includes the callback of
VCHI. Counters are set up and read around a kernel.

Outside the properties, since the code does nothing about it: after a timeout the
V3D's register counts programs of the old job for the next one; an allocation over
the mailbox whose lock or mapping fails returns a buffer without memory and keeps
its handle (`Mailbox.cpp:105-113`); queries that throw inside a `noexcept` function
end the process (`VCHI.cpp:128`).

## Runs

All bounds are in the `.cfg` files and MC modules.

| run | bounds | shows |
|---|---|---|
| `event_queue` | 3 commands, 1 user event, wait lists of up to 2 | order, respect for wait lists, statuses that only advance, refinement of `OrderedExecution` with its liveness, every command finishes |
| `event_callbacks` | 2 commands, 1 user event, 2 callbacks, wait lists of up to 1 | a callback on a command is called exactly once |
| `event_waiters` | 2 commands, 1 user event, 2 command queues, 1 blocking thread | what the return of `clWaitForEvents` and `clFinish` means, and that they return |
| `object_lifetime` | 2 commands, 1 user event, 1 command queue, wait lists of up to 1 | exact counts, nothing freed in use, everything destroyed at last |
| `buffer_mapping` | 3 mappings by one thread, 1 region, all flags, aborts, 1 write | entries and commands match, copies coherent, marked entries erased |
| `kernel_execution` | 3 QPUs, `size_t` of 16 values, 2 kernels, 33 requests, 1 timeout | accepted sizes fit the device; each work-item once, one group at a time, memory stays allocated while in use; kernels end |
| `program_build` | 4 programs, 2 input lists, 2 options, 2 builds, 2 threads, 2 kernels | kernels fit their binary, success means complete, a queued kernel keeps its code when a program without a source is built again, builds end |
| `transfers` | 2 buffers of 8 bytes, 2 sub-buffers, 2 commands besides unmaps | the host's rights, one memory for shared bytes, the documented effect of each command |
| `images` | 2 images, 28 descriptions of all shapes, 1 command besides unmaps | pixels have bytes of their own, the effect of each command on pixels |
| `kernel_setup` | 5 modules, 3 truncations, 2 kernels, 6 calls, 4 QPUs | what was compiled and set is what the QPUs find, in the memory allocated for it |
| `hardware` | 8 environments, 2 buffers, 2 handles, 2 QPUs, 2 counters, 3 jobs, 4 calls | no leak, no early end of the system, results and counters of the right job |
| `launch_messages` | the kernel with 64-bit elements, 4 calls | expected violation, below |

Why these are enough: the handler works on one command at a time, so three
commands give a running one, one it waits for and one behind; a wait list of two
is the first whose scan can be interrupted; one user event changes at any moment
of it. The proofs below remove the bounds for the safety properties of
`EventQueue`, `EventWaiters`, `ObjectLifetime`, `BufferMapping`, `KernelExecution`,
`ProgramBuild`, `KernelArguments` and `QPUJobs`. Two commands let one
event hold the last reference to another. A third mapping is the first that can
meet both a scheduled and an unscheduled entry with its pointer; one write is
enough for a copy to be stale. Callbacks are a run of their own because they
multiply the states. There is no symmetry set, because of the
temporal properties.

`kernel_execution` needs three QPUs for a group that fills them, one that leaves
some idle and a prime that fits neither; ranges of up to twenty groups carry
through all three dimensions. The second kernel meets the programs a timeout left
running. Sixteen values of `size_t` leave the ranges that matter untouched and
make one of 4 x 4 wrap to 0, an offset of 15 wrap to 1.

`program_build` has a program of each origin and one that linking creates. Two
calls are a compilation and a link of its result, or a build and, while its kernels
are held or queued, another with other options; two threads let them run at the
same time. Three calls, with one option and one kernel, were checked once. In `transfers` two commands after each other
are a mapping with a write through it, or a copy of what was written. The boxes of
`MCBuffers` include each kind of overlap. One command is enough for `images`, since
the memory holds different values everywhere from the start. The kernels of
`kernel_setup` have every kind of parameter, the most hidden parameters there is
room for and names on both sides of a word's end. `hardware` has every mode, every
fallback, and a job after one that timed out twice.

The application may stop calling in every module but those of the event queue, so
deadlock is checked only there; that the executor and builds do not stop is
`KernelEnds` and `BuildEnds`.

`launch_messages` shows a disagreement of the code with itself: of a parameter
with 64-bit elements `executor.cpp:379` writes two UNIFORMs per element, but the
launch messages count one (`executor.cpp:423`, `BinaryHeader.cpp:264`), so every
QPU but the first reads its UNIFORMs from the wrong place.

More disagreements met while modelling, each checked by a run of its own at the
time and now described only:

* `setUserEventStatus` sets the status without firing callbacks (`Event.cpp:31-45`):
  a callback on a user event is never called if it was registered before, though
  `Event.cpp:89` says all must be;
* the handler clears a wait list a thread in `Event::waitFor` iterates over
  (`Event.cpp:148`), though `Event.h:180` says only the handler accesses it;
* `clWaitForEvents` returns an error while an event it was given is unfinished
  (`Event.cpp:150`), though `Event.cpp:378` says it waits for all;
* an unmap takes the entry of another thread's map whose command is not enqueued
  yet (`Buffer.cpp:641`); that command then uses an erased iterator. Therefore
  `buffer_mapping` has a single thread;
* mapping a second region replaces what the application wrote to the first
  (`Buffer.cpp:858`). Therefore it has a single region;
* the wrapped product of a global size (`Kernel.cpp:460`), the appended globals
  (`Program.cpp:552`), the replaced code of queued kernels (`Program.cpp:327`) and the
  unchecked destination of an image copy (`Image.cpp:238`), all described above.

## Fairness

* The handler takes a step whenever it can: it is a thread, its mutexes are held
  for bounded blocks, `wait_for` times out. This includes that actions return.
* A call that began goes on: `Push`, the return of enqueue calls, the steps of
  blocked threads (each sleeps with a timeout), the second half of map and unmap.
* The application sets each of its user events. The comment in `runEventQueue`
  (`queue_handler.cpp:114`) makes avoiding deadlocks with user events its duty.
* A build goes on: its thread, detached or the caller's, is run by the system and
  the compiler it calls returns.
* A requested QPU program is started and ends. This is what the kernel timeout is
  chosen for (`executor.cpp:26`), and a program that does not end meets it.
* Nothing else: the application need not enqueue, wait, map, unmap or release.

All of it is weak fairness: none of these steps is disabled by another thread
once it is enabled, except where the step is the wait's own condition.

## What is proved

Every theorem holds for all values of the constants under the named assumptions
of the modules (`EventQueueAssumption` and so on), which TLC evaluates in the runs.

### The event queue

`EventQueueProofs`, for every set of commands, user events, command queues and
callbacks and every bound on wait lists: `TypeCorrect`, `ExecutionInOrder`,
`NoCircularWait`, `WaitListRespected`, `StatusOnlyAdvances`, `CallbacksCalledOnce`.

None of the invariants is inductive alone. That a running command's wait list is
complete depends on where the handler was when it looked; that it does not wait
for a command behind it depends on wait lists naming only events that were
pushed before. `IndInv` says what is needed, in named parts:

* `HandlerInv`: what the status of the head of the buffer is at each program
  counter, and that everything behind the head is still queued;
* `PlaceInv`: every event is new, prepared, once in the buffer, or finished;
* `UserInv`: a user event stays submitted until its status is set;
* `WaitListInv`: what is in a wait list is a user event, finished, or earlier in
  the buffer, and a finished command's list matters no more;
* `ScanInv`: the events of the wait list before `hidx` are complete, and stay so
  because a finished status is final. This is why reading one by one is enough.

`IndInit` and one lemma per action (`IndEnqueue` to `IndPop`, put together in
`IndStep`) prove that it is invariant. `StatusStep` and `CallbackStep` use it for
the two theorems that are not consequences of it. TLC checked `IndInv` on the
instance of `event_queue` before it was proved.

### Its refinement

`ImplementsOrder`: every behaviour of `EventQueue` is, under the mapping `Ordered`,
one of the safety part of `OrderedExecution`. `Push` is `Accept`,
`SetUserEventStatus` is `Signal`, `Run` is `Start`, `Action` and `Abort` are `End`;
every other step is a stutter. `Enqueue` is one because a prepared event is not
accepted yet, `Submit` because both statuses mean waiting, `ClearWaitList` because
only the lists of active events are seen, `Pop` because the mapping dropped the head
when it finished. The invariant is `IndInv` and `UserLists` (user events have no
wait list); `ScanInv` is what gives `Start` and the failing `End` their guards.

### Blocking calls

`SuccessfulWaits` and `FinishedQueues` in `EventClientsProofs`, for any number of
blocked threads. `WaitersInv` adds two parts to `IndInv`: `WaitProgress`, each event
given to `clWaitForEvents` is still to be waited for, or is that of the outermost
`waitFor`, or is complete, unless the call has failed already; `FinishProgress`, the
commands `clFinish` saw at its start stay pushed commands of its queue, so
`PlaceInv` says that those it no longer finds have finished.

### Reference counts

`CountsExact` and `NothingFreed` in `EventClientsProofs`, for any number of commands,
user events and command queues and wait lists of any length. `ObjectLifetimeAssumption`
asks that queues and user events are finitely many, that there is one of them (it
holds the context the application has released) and that names differ; there may be
infinitely many commands, since the live objects stay finite.

`CountsMatch` is not inductive alone: a release is right only if whoever makes it
holds the object, and destroying an event is right only if its wait list is empty,
because `~Event` does not release what is in it. `LifetimeInv` adds to `IndInv`

* `HandInv`: an event the application has was returned by its call, an unfinished
  call's event is neither prepared nor owned, the event `clFinish` looks at is
  pushed, a wait list that is not empty belongs to a prepared or buffered event, and
  names no event twice;
* `LiveInv`: the live objects are finitely many and are those with a positive count.

`ReleaseFacts` says what `Object::release` and the destructors it calls do to all
counts at once, `ReleaseStep` that a holder that lets go keeps them exact: a command
that still has a wait list is held by its call or the buffer, so it survives, and no
entry of a wait list disappears with its owner. Each step of the handler and of the
calls is then an instance of `CountsSame`, `CountsRetain` or `ReleaseStep`;
`ClearWaitList` is the one that releases many objects at once, each as often as the
list names it. `NothingFreedInUse` follows from the exact counts (`HeldIsLive`).

### Buffer mappings

Three theorems in `BufferMappingProofs`, for any number of mappings, kernels, writes and
aborted commands and all flags.

`UnmapsFindTheirMapping` has no premise. `CountInv` compares two sets that need not be
equal: of each region there are at least as many unmarked entries as mappings still to
be unmapped, whichever entries the calls of different threads have picked.

`IteratorsStayValid` has the premise `OneThread`, since with two the code does not
guarantee it (`Buffer.cpp:641`, above). `CommandInv` says what commands an entry can
still have: at most a map and then an unmap, none while its call has not pushed it,
and that it is in the list as long as it has one.

`CopiesStayCoherent` also has the premise `OneRegion`, since mapping a second region
replaces what was written to the first (`Buffer.cpp:858`, above). Its invariant
`CoherenceInv` has three parts: `WriterInv`, a mapping that writes is the only one of
the region and is unmapped through its own entry, while those that only read may swap
theirs; `OrderInv`, nothing comes between the map and the unmap of one that writes, and
only readers' commands while one that reads is mapped; `ContentsInv`, which of the two
copies is the newer one in between. TLC checked all of these invariants before they
were proved.

### Programs

`KernelsAreOfBinary`, `KernelsExecuteOwnCode` and `SuccessfulBuildsAreComplete`, for any
number of programs, kernels, threads and builds. What the application must keep to is a
premise: each assumes of `Rules` only the rules it needs, `"idle"` in all of them. Builds
of programs whose kernels are held or queued are included. `BuildInv` says that the programs of running builds exist,
each is built by one thread, one that is being linked is no input of another, and
that kernels are those of the binary. `KernelInv` is about the kernels
somebody still has: only a build that was asked for after their creation can run on their
program, and without a source neither its binary nor its first global data change, which
holds because those data are always that binary's (`GlobalsMatch`); `ProgressInv` says for each program
counter what the build has made so far, which is the same for every way through
`buildInner`. One lemma per step of a build proves its part of `BuildStep` and
`ProgressStep`, which the three invariants use.

### Hardware access and jobs

All four properties of the run `hardware`, for every environment, any number of
buffers, handles, QPUs and counters: `DeviceMemoryAccounted`, `SystemLivesLongEnough`,
`PassedJobsHaveEnded`, `CountersOfKernel`. `MemoryInv` has a part for each allocator:
for VCSM, what is allocated is in use by one buffer or was refused, never both; for
the emulator, that the handle is the index of the entry and one. `JobInv` has one
for each way of execution: with VCHI the id that counts is that of the last job
(`CallbackInv`), on the V3D the register and what is left of the last job make up
the job as long as no foreign one runs (`RegisterInv`). `CounterInv`: while a kernel
is measured, the counters have counted exactly what has ended since it began.

### Kernel execution

All five invariants of the run `kernel_execution`, for any requests, any number of QPUs,
kernels and timeouts and any width of `size_t`.

`AcceptedKernelsFit`: the three ways to choose local sizes give groups that fit the
QPUs (`LocalSizesFit`, `QPUsSuffice`) and tile the range (`GroupsTile`), although the
checks compare wrapped products. Its premise `Countable` is the one of the run: the
products must not wrap. The invariant `SizesInv` keeps the sizes that were checked.

`GroupsOneAtATime` and `ExecutionKeepsBuffers`: `BlocksInv` says that the group that is
started and the one that is prepared have their UNIFORMs in different blocks;
`ProgramsInv`, until a wait times out, that each QPU of the group has one program,
which is requested, runs or has ended, that it finds or has found the group's
UNIFORMs, and that the counter is the number of QPUs that have ended. So a wait that
passes, which only compares the counter, leaves no program behind (`CounterFacts`).

`WorkItemsExecutedOnce` and `CompleteKernelsExecuted`: `ExecutedInv` gives the bag of
executed work-items exactly, as those of all groups before the current one and of
the QPUs that have ended for this one. The rest is about the operators of `WorkSizes`:
`increment_index` goes from one position to the next, in the order of their numbers,
and leaves the limits after the last (`IncrementFacts`); so QPU number `i` starts at
position number `i` (`LocalIndicesFacts`, by induction over a set of numbers), the
parts of the QPUs make up the group (`PartOfQPU`, `PartsFacts`), and groups and
positions make up the range (`RangeFacts`), each work-item once (`ItemUnique`). The
premise `Regular` is that of the properties and excludes only the three behaviours and
the wrapped products described above. TLC checked these invariants, in the form of
one conjunction, before they were proved.

### Buffers and images

`HostRightsAreKept` and `PointersOfMappingsAgree`, for any buffers, sub-buffers, flags,
regions and commands. `BuffersAssumption` says that offsets and addresses are numbers, that
handles differ and that buffers are allocated at different addresses, `MapFlagsAssumption`
that a mapping is for reading, writing or both. Neither property is inductive: a command was accepted for the
rights of the sub-buffer it names, a pointer was calculated from the offset stored in it.
`BufferInv` therefore says what `createSubBuffer` leaves: a sub-buffer has the device memory
of its parent, the parent's host pointer moved by its offset, and no host right its parent
does not have (`RightsInherited`, which is about the flags the code adds
when the application gives none). TLC checked `BufferInv` before it was proved.

`PixelsHaveTheirOwnBytes`, for every size, pitch and format the application may ask for
(`ImagesAssumption`: they are unsigned). The invariant `ImageObjects` says what
`checkAndApplyPitches` leaves, for linear tiles that a row is a whole number of tiles and
a slice a whole number of rows of tiles (`TiledPitches`). The rest is arithmetic: a pixel
has its place in a tile, the tile in a row of tiles, that in a slice, and each level has
room for the one below (`FarInRows`, `WithinRows`). That is proved with products as
numbers of their own, because the provers know little about products of two variables.

The attempt to prove it corrected the model twice. The pitches that the property calls
regular were too few for one-dimensional arrays, whose slices are rows; and for a tiled
image without pixels `checkAndApplyPitches` divides by a pitch of 0.

### Kernels and their binary

`QueriesReportTheCompiled`, `WritesFitTheBuffer` and `ArgumentsReachTheQPUs` in
`KernelArgumentsProofs`, for any modules, kernel objects, buffers, arguments and calls
and any number of QPUs.

The constants are limited to what there can be. `ModulesAssumption`: what the compiler
writes fits the bit fields it is written to, names of kernels differ, a pointer or
struct is no vector. `ScalarsAssumption`: what the application passes is as long as its
elements. `NullAssumption`: `NULL` is none of the other values. `TruncationsAssumption`
is the bound named above.

First the round trip. Each reader, started where the writer began, returns what was
written and the index behind it, whatever follows: a text (`TextIsRead`), then metadata,
a parameter, a kernel and the module (`ModuleIsRead`); a binary that was cut is refused
(`TruncatedIsRefused`), and the code of every kernel lies where its
header points to (`CodeIsThere`). The lists of the binary are concatenations; `Places` gives
each part its offset, and a list of n items is read in n steps by induction over a set
of numbers.

Then the invariant `ArgumentsInv`: `ProgramRead`, once there are headers they are those
the compiler wrote; `KernelsSet`, the arguments of a kernel object are what
`NewArgument` makes of what the application asked for, and exactly those in
`argsSetMask` are set; `ExecutionsSet`, the same of each snapshot in the queue, with the
temporary and persistent buffers made from it, and the device buffer is laid out for
the snapshot it belongs to. The three properties are consequences of it. For the last two
the length of each part of the buffer is calculated: a QPU's UNIFORMs are as many as
the bits in use and the elements of the parameters (`HiddenWordsAre`, `UniformsDoFit`), which is
what the launch messages and `get_size` count, except for 64-bit elements. That is where
the premise `~LongScalars` is needed, and `launch_messages` shows that it cannot be dropped.

For the proof the modules define the loops of the code as recursive functions.

### Only model-checked

Liveness under fairness, that of `OrderedSpec` included, and `ENABLED` are outside the
prover's reach. So are the effects of commands on memory (`EffectAsDocumented` of
`Buffers`, `EffectOnPixels` of `Images`): they are calculated by folds over boxes of bytes
and pixels, for which the prover would need induction over data. Every invariant
that a passing run checks is a theorem.

## Not modelled

Profiling times and info queries (read-only), except where a property reads them;
the device query functions, the ICD loader, tools and tests (no state). The end of
the process, except for the `SystemAccess`. Allocation failures of the host
(`CL_OUT_OF_HOST_MEMORY`) and most argument errors that return before anything
changed. Release callbacks of contexts and programs and the counts of kernels,
programs and buffers. Samplers, texture setup words, T-format addresses. Cache
flushes, clock rates, register and message formats. The text form of module
headers. The compiled code and the compiler, which are not in the repository. The
leak of an aborted command's reference is in `ObjectLifetime`, as an exception to
`ReleasedAtLast`.

Smaller omissions. A wait list names an event at most once; one named twice is
accepted (`common.h:225`) and would be read twice. `clEnqueueNDRangeKernel` refuses a
kernel whose buffer is gone (`Kernel.cpp:758`) and changes nothing then; no
buffer is released in `KernelArguments`. When `VCSM::allocateBuffer` fails half-way it
undoes the steps before (`VCSM.cpp:71-87`), which the model has as one outcome without
a change; that its last unlock succeeds, which line 84 does not look at, is assumed.

## Plan

1. More of `ObjectLifetime`: buffers, programs and kernels, contexts with release
   callbacks.
2. Proofs: the effects of commands on memory.
3. A mapping run in which failed maps leave entries that later unmaps find.
