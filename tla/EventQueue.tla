------------------------------ MODULE EventQueue ------------------------------
(***************************************************************************)
(* The command execution core of VC4CL: the one EventQueue all command     *)
(* queues of a process share (queue_handler.cpp), the events it executes   *)
(* (Event.cpp) and the calls through which any number of application       *)
(* threads create, enqueue, signal and observe them (CommandQueue.cpp,     *)
(* barriers.cpp).                                                          *)
(*                                                                         *)
(* Every block the code runs under bufferMutex or an event's statusLock is *)
(* one action; between two such blocks any other thread may run.  The      *)
(* queue handler thread is the program counter hpc with its two locals.    *)
(* An application thread that enqueues is the membership of its event in   *)
(* "prepared", so the number of threads is not bounded.                    *)
(*                                                                         *)
(* Left to other modules: the blocking calls clWaitForEvents and clFinish  *)
(* (EventWaiters) and the reference counts.                                *)
(***************************************************************************)
EXTENDS EventStatus, Sequences, Functions

CONSTANTS
    Commands,     \* command events: every clEnqueue... call creates one
    UserEvents,   \* events of clCreateUserEvent
    Queues,       \* command queues
    Callbacks,    \* event callbacks the application may register, once each
    MaxWaitList,  \* longest wait list an enqueue call passes
    NONE

Events == Commands \cup UserEvents

ASSUME EventQueueAssumption ==
    /\ Commands \cap UserEvents = {}
    /\ NONE \notin Events \cup Queues
    /\ MaxWaitList \in Nat

VARIABLES
    status,      \* Event::status
    queue,       \* Event::queue, NONE until prepareToQueue
    waitList,    \* Event::waitList
    userSet,     \* Event::userStatusSet
    registered,  \* what each callback is registered for (Event::callbacks)
    calls,       \* the statuses each callback was called with, in order
    handles,     \* command events returned to the application
    prepared,    \* events of enqueue calls between prepareToQueue and pushEvent
    buffer,      \* EventQueue::eventBuffer
    hpc,         \* where the queue handler thread is in runEventQueue
    hevent,      \* its local "event"
    hidx         \* its position in the wait list it checks

handlerVars == <<hpc, hevent, hidx>>
callbackVars == <<registered, calls>>
vars == <<status, queue, waitList, userSet, registered, calls, handles,
          prepared, buffer, hpc, hevent, hidx>>

\* "idle" is between the decision to wait and wait_for, "asleep" in wait_for,
\* "awake" after it.
HandlerPCs == {"peek", "submit", "scan", "abort", "run", "action", "clear",
               "notify", "pop", "idle", "asleep", "awake"}

Finished(e) == IsFinished(status[e])

\* What the application can name in a wait list, a callback or a wait.
Known == handles \cup UserEvents

\* An event is named at most once; one named twice would only be read twice.
WaitLists == UNION {Injection(1..n, Known) : n \in 0..MaxWaitList}

\* Every variable has its type; in particular the handler never reads before
\* the beginning of a wait list and never pops an event it does not have.
TypeOK ==
    /\ status \in [Events -> Statuses]
    /\ queue \in [Events -> Queues \cup {NONE}]
    /\ waitList \in [Events -> Seq(Events)]
    /\ userSet \in [Events -> BOOLEAN]
    /\ registered \in [Callbacks -> [event : Events \cup {NONE}, type : CallbackTypes]]
    /\ calls \in [Callbacks -> Seq(Statuses)]
    /\ handles \subseteq Commands
    /\ prepared \subseteq Commands
    /\ buffer \in Seq(Commands)
    /\ hpc \in HandlerPCs
    /\ hevent \in Commands \cup {NONE}
    /\ hidx \in Nat \ {0}

-----------------------------------------------------------------------------
(* Operations of Event *)

\* Mutant: calls what is at or below the new status, whatever the old one was.
FireCallbacks_NoPrevious(e, previous, st) ==
    [c \in Callbacks |->
        IF registered[c].event = e /\ st <= registered[c].type
        THEN Append(calls[c], st)
        ELSE calls[c]]

\* Event::fireCallbacks: those whose type is passed by the change to st.
FireCallbacks(e, previous, st) ==
    [c \in Callbacks |->
        IF /\ registered[c].event = e
           /\ previous > registered[c].type
           /\ st <= registered[c].type
        THEN Append(calls[c], st)
        ELSE calls[c]]

\* Event::updateStatus.  Its early return for an unchanged status is the case
\* in which nothing changes and no callback's type is passed.
UpdateStatus(e, st) ==
    /\ status' = [status EXCEPT ![e] = st]
    /\ calls' = FireCallbacks(e, status[e], st)
    /\ UNCHANGED registered

-----------------------------------------------------------------------------
(* Calls of the application *)

\* Event::setEventWaitList
SetEventWaitList(e, list) == waitList' = [waitList EXCEPT ![e] = list]

\* Event::prepareToQueue
PrepareToQueue(e, q) ==
    /\ queue[e] = NONE
    /\ queue' = [queue EXCEPT ![e] = q]

\* CommandQueue::enqueueEvent up to its call of pushEvent.
EnqueueEvent(e, q) ==
    /\ ~Finished(e)
    /\ PrepareToQueue(e, q)
    /\ prepared' = prepared \cup {e}

\* new Event: an object nobody has seen yet; which one makes no difference.
NewEvent(e) == queue[e] = NONE /\ e = CHOOSE d \in Commands : queue[d] = NONE

\* The start of every clEnqueue... call: a new event takes its wait list and is
\* given to the command queue.
Enqueue(e, q) ==
    /\ NewEvent(e)
    /\ \E list \in WaitLists : SetEventWaitList(e, list)
    /\ EnqueueEvent(e, q)
    /\ UNCHANGED <<status, userSet, handles, buffer, callbackVars, handlerVars>>

\* Mutant: the newest event goes to the front.
PushEvent_Front(e) ==
    /\ buffer' = <<e>> \o buffer
    /\ hpc' = IF hpc = "asleep" THEN "awake" ELSE hpc

\* EventQueue::pushEvent, which wakes up the handler if it waits.
PushEvent(e) ==
    /\ buffer' = Append(buffer, e)
    /\ hpc' = IF hpc = "asleep" THEN "awake" ELSE hpc

\* Event::setAsResultOrRelease: the caller asked for the event or did not.
SetAsResultOrRelease(e) == handles' \in {handles, handles \cup {e}}

\* The end of the clEnqueue... call.
Push(e) ==
    /\ e \in prepared
    /\ prepared' = prepared \ {e}
    /\ PushEvent(e)
    /\ SetAsResultOrRelease(e)
    /\ UNCHANGED <<status, queue, waitList, userSet, callbackVars, hevent, hidx>>

\* Mutant: the status can be set again.
SetUserEventStatus_Again(e, st) ==
    /\ e \in UserEvents
    /\ IsFinished(st)
    /\ status' = [status EXCEPT ![e] = st]
    /\ userSet' = [userSet EXCEPT ![e] = TRUE]
    /\ UNCHANGED <<queue, waitList, callbackVars, handles, prepared, buffer, handlerVars>>

\* clSetUserEventStatus.  No callback is called and nobody is notified.  The code
\* does not check that e is a user event: the application has to pass one.
SetUserEventStatus(e, st) ==
    /\ e \in UserEvents
    /\ IsFinished(st)
    /\ ~userSet[e]
    /\ status' = [status EXCEPT ![e] = st]
    /\ userSet' = [userSet EXCEPT ![e] = TRUE]
    /\ UNCHANGED <<queue, waitList, callbackVars, handles, prepared, buffer, handlerVars>>

\* clSetEventCallback: stores the callback, or calls it at once if the event
\* has already reached the status.
SetEventCallback(c, e, type) ==
    /\ e \in Known
    /\ registered[c].event = NONE
    /\ registered' = [registered EXCEPT ![c] = [event |-> e, type |-> type]]
    /\ calls' = IF status[e] > type
                THEN calls
                ELSE [calls EXCEPT ![c] = Append(@, IF status[e] < 0 THEN status[e] ELSE type)]
    /\ UNCHANGED <<status, queue, waitList, userSet, handles, prepared, buffer, handlerVars>>

-----------------------------------------------------------------------------
(* The queue handler thread: one iteration of EventQueue::runEventQueue *)

HandlerStep(from, to) == hpc = from /\ hpc' = to

\* peekQueue
Peek ==
    /\ \/ /\ buffer # <<>>
          /\ HandlerStep("peek", "submit")
          /\ hevent' = Head(buffer)
       \/ /\ buffer = <<>>
          /\ HandlerStep("peek", "idle")
          /\ hevent' = NONE
    /\ UNCHANGED <<status, queue, waitList, userSet, callbackVars, handles, prepared, buffer, hidx>>

\* Mutant: the wait list is counted from zero.
Submit_FromZero ==
    /\ HandlerStep("submit", "scan")
    /\ UpdateStatus(hevent, SUBMITTED)
    /\ hidx' = 0
    /\ UNCHANGED <<queue, waitList, userSet, handles, prepared, buffer, hevent>>

Submit ==
    /\ HandlerStep("submit", "scan")
    /\ UpdateStatus(hevent, SUBMITTED)
    /\ hidx' = 1
    /\ UNCHANGED <<queue, waitList, userSet, handles, prepared, buffer, hevent>>

\* Mutant: a failed event in the wait list counts as done.
Scan_AnyFinished ==
    /\ hpc = "scan"
    /\ \/ /\ hidx > Len(waitList[hevent])
          /\ hpc' = "run"
          /\ UNCHANGED hidx
       \/ /\ hidx <= Len(waitList[hevent])
          /\ \/ Finished(waitList[hevent][hidx]) /\ hidx' = hidx + 1 /\ UNCHANGED hpc
             \/ ~Finished(waitList[hevent][hidx]) /\ hpc' = "idle" /\ UNCHANGED hidx
    /\ UNCHANGED <<status, queue, waitList, userSet, callbackVars, handles, prepared, buffer, hevent>>

\* Mutant: a command that has to wait is put behind the others.
Scan_Skips ==
    /\ hpc = "scan"
    /\ \/ hidx > Len(waitList[hevent]) /\ hpc' = "run" /\ UNCHANGED <<hidx, buffer>>
       \/ /\ hidx <= Len(waitList[hevent])
          /\ LET st == status[waitList[hevent][hidx]] IN
             \/ st < 0 /\ hpc' = "abort" /\ UNCHANGED <<hidx, buffer>>
             \/ st > COMPLETE /\ hpc' = "idle" /\ buffer' = Append(Tail(buffer), hevent) /\ UNCHANGED hidx
             \/ st = COMPLETE /\ hidx' = hidx + 1 /\ UNCHANGED <<hpc, buffer>>
    /\ UNCHANGED <<status, queue, waitList, userSet, callbackVars, handles, prepared, hevent>>

\* Event::getWaitListStatus, which locks and reads one event's status at a time.
Scan ==
    /\ hpc = "scan"
    /\ \/ /\ hidx > Len(waitList[hevent])
          /\ hpc' = "run"
          /\ UNCHANGED hidx
       \/ /\ hidx <= Len(waitList[hevent])
          /\ LET st == status[waitList[hevent][hidx]] IN
             \/ st < 0 /\ hpc' = "abort" /\ UNCHANGED hidx
             \/ st > COMPLETE /\ hpc' = "idle" /\ UNCHANGED hidx
             \/ st = COMPLETE /\ hidx' = hidx + 1 /\ UNCHANGED hpc
    /\ UNCHANGED <<status, queue, waitList, userSet, callbackVars, handles, prepared, buffer, hevent>>

\* Mutant: the command is run although an event it waited for failed.
Abort_Runs ==
    /\ HandlerStep("abort", "action")
    /\ UpdateStatus(hevent, RUNNING)
    /\ UNCHANGED <<queue, waitList, userSet, handles, prepared, buffer, hevent, hidx>>

\* A waited-for event failed: the command is terminated without being run.
Abort ==
    /\ HandlerStep("abort", "clear")
    /\ UpdateStatus(hevent, ERROR_FOR_EVENTS_IN_WAIT_LIST)
    /\ UNCHANGED <<queue, waitList, userSet, handles, prepared, buffer, hevent, hidx>>

Run ==
    /\ HandlerStep("run", "action")
    /\ UpdateStatus(hevent, RUNNING)
    /\ UNCHANGED <<queue, waitList, userSet, handles, prepared, buffer, hevent, hidx>>

\* The action returns CL_SUCCESS or an error, or throws.
Action ==
    /\ HandlerStep("action", "clear")
    /\ \E st \in Results : UpdateStatus(hevent, st)
    /\ UNCHANGED <<queue, waitList, userSet, handles, prepared, buffer, hevent, hidx>>

ClearWaitList ==
    /\ HandlerStep("clear", "notify")
    /\ waitList' = [waitList EXCEPT ![hevent] = <<>>]
    /\ UNCHANGED <<status, queue, userSet, callbackVars, handles, prepared, buffer, hevent, hidx>>

\* eventProcessed.notify_all()
NotifyProcessed ==
    /\ HandlerStep("notify", "pop") \/ HandlerStep("awake", "peek")
    /\ UNCHANGED <<status, queue, waitList, userSet, callbackVars, handles, prepared, buffer,
                   hevent, hidx>>

\* popFromEventQueue
Pop ==
    /\ HandlerStep("pop", "peek")
    /\ buffer' = Tail(buffer)
    /\ UNCHANGED <<status, queue, waitList, userSet, callbackVars, handles, prepared, hevent, hidx>>

\* Mutant: the wait has no timeout.
Timeout_Never == FALSE

\* eventAvailable.wait_for: a push that comes before the handler waits is not
\* noticed, which the timeout of WAIT_DURATION makes up for.
Sleep ==
    /\ HandlerStep("idle", "asleep")
    /\ UNCHANGED <<status, queue, waitList, userSet, callbackVars, handles, prepared, buffer,
                   hevent, hidx>>

Timeout ==
    /\ HandlerStep("asleep", "awake")
    /\ UNCHANGED <<status, queue, waitList, userSet, callbackVars, handles, prepared, buffer,
                   hevent, hidx>>

Handler == \/ Peek \/ Submit \/ Scan \/ Abort \/ Run \/ Action
           \/ ClearWaitList \/ NotifyProcessed \/ Pop \/ Sleep \/ Timeout

-----------------------------------------------------------------------------
Init ==
    /\ status = [e \in Events |-> IF e \in UserEvents THEN SUBMITTED ELSE QUEUED]
    /\ queue = [e \in Events |-> NONE]
    /\ waitList = [e \in Events |-> <<>>]
    /\ userSet = [e \in Events |-> FALSE]
    /\ registered = [c \in Callbacks |-> [event |-> NONE, type |-> COMPLETE]]
    /\ calls = [c \in Callbacks |-> <<>>]
    /\ handles = {}
    /\ prepared = {}
    /\ buffer = <<>>
    /\ hpc = "peek"
    /\ hevent = NONE
    /\ hidx = 1

Application ==
    \/ \E e \in Commands, q \in Queues : Enqueue(e, q)
    \/ \E e \in Commands : Push(e)
    \/ \E e \in Events, st \in Results : SetUserEventStatus(e, st)
    \/ \E c \in Callbacks, e \in Events, type \in CallbackTypes : SetEventCallback(c, e, type)

Next == Application \/ Handler

\* The handler thread runs and its actions terminate, a thread that began an
\* enqueue call ends it, and the application sets each of its user events, as
\* the comment in runEventQueue requires of it.
Fairness ==
    /\ WF_vars(Handler)
    /\ \A e \in Commands : WF_vars(Push(e))
    /\ \A e \in UserEvents : WF_vars(\E st \in Results : SetUserEventStatus(e, st))

Spec == Init /\ [][Next]_vars /\ Fairness

-----------------------------------------------------------------------------
(* Properties *)

WaitsFor(e) == Range(waitList[e])

\* Commands finish in the order in which they were pushed, over all command
\* queues: a command whose predecessor in the event buffer has not finished has
\* not even been submitted, and what left the buffer is finished.
InOrder ==
    /\ \A i, j \in DOMAIN buffer : i < j =>
           /\ buffer[i] # buffer[j]
           /\ status[buffer[j]] = QUEUED
    /\ \A e \in Commands : queue[e] # NONE =>
           e \in prepared \cup Range(buffer) \/ Finished(e)

\* A command in the event buffer only waits for user events, for finished
\* commands and for commands ahead of it, so that the single handler thread,
\* which never skips a waiting command, cannot wait for itself.
WaitListsPointBackwards ==
    \A i \in DOMAIN buffer : \A w \in WaitsFor(buffer[i]) :
        \/ w \in UserEvents
        \/ Finished(w)
        \/ \E j \in DOMAIN buffer : j < i /\ buffer[j] = w

\* "In order for the execution status of an enqueued command to change from
\* CL_SUBMITTED to CL_RUNNING, all events that this command is waiting on must
\* have completed successfully" (the comment in runEventQueue), although the
\* handler reads their statuses one by one.
RunsAfterWaitList ==
    \A e \in Commands : status[e] = RUNNING =>
        \A w \in WaitsFor(e) : status[w] = COMPLETE

\* A status only moves forward, and once an event finished it is final.
StatusAdvances ==
    [][\A e \in Events : status'[e] # status[e] =>
           ~Finished(e) /\ status'[e] < status[e]]_vars

\* A callback on a command event is called once its status is reached, and
\* never twice, whether registering it or the status change comes first.
CallbackCalledOnce ==
    \A c \in Callbacks : registered[c].event \in Commands =>
        Len(calls[c]) = IF status[registered[c].event] <= registered[c].type THEN 1 ELSE 0

\* Every enqueued command is finished at last: no wake-up the handler misses
\* and no order of enqueueing makes it wait forever.
CommandsFinish == \A e \in Commands : queue[e] # NONE ~> Finished(e)

\* EventQueue implements OrderedExecution.  The head of the buffer has ended
\* already while the handler cleans up behind it.
AbstractState(e) ==
    IF status[e] = COMPLETE THEN "complete"
    ELSE IF status[e] < 0 THEN "failed"
    ELSE IF status[e] = RUNNING THEN "running"
    ELSE IF e \in Commands /\ (queue[e] = NONE \/ e \in prepared) THEN "fresh"
    ELSE "waiting"

Ordered == INSTANCE OrderedExecution WITH
    state   <- [e \in Events |-> AbstractState(e)],
    deps    <- [e \in Events |->
                   IF AbstractState(e) \in {"waiting", "running"} THEN WaitsFor(e) ELSE {}],
    pending <- IF buffer # <<>> /\ Finished(Head(buffer)) THEN Tail(buffer) ELSE buffer

\* Whatever the threads do, the statuses of the events change as if the commands
\* were executed one by one in the order of acceptance, and they are executed.
OrderedSpec == Ordered!Spec

=============================================================================
