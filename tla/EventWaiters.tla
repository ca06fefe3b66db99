----------------------------- MODULE EventWaiters -----------------------------
(***************************************************************************)
(* Application threads that block on the event queue: clWaitForEvents and  *)
(* the blocking clEnqueue... calls (Event::waitFor on a list of events),   *)
(* and clFinish (CommandQueue::finish).  They change nothing of EventQueue *)
(* but read it without a common lock, and sleep on eventProcessed.         *)
(*                                                                         *)
(* Event::waitFor first waits, recursively, for the wait list of the event *)
(* it was called on.  The recursion is the stack "frames" of a thread.  A  *)
(* frame copies the wait list when the loop begins: the range-for keeps    *)
(* its bounds, and std::vector::clear leaves the storage where it was.     *)
(***************************************************************************)
EXTENDS EventQueue

CONSTANTS Waiters  \* application threads that may block

VARIABLES
    wpc,      \* where the thread is: "wait" runs waitFor, "blocking" has found the event
              \* unfinished and is about to sleep, "asleep" is in wait_for, "finish" at
              \* the loop of clFinish, and "idle"
    target,   \* what its call is about: the events, or the command queue
    rest,     \* events the call has still to wait for, in order
    frames,   \* the active calls of Event::waitFor, outermost first
    failed,   \* waitListError of clWaitForEvents
    before    \* history: commands in the buffer for the queue when clFinish began

waiterVars == <<wpc, target, rest, frames, failed, before>>
allVars == <<vars, waiterVars>>

Nothing == [events |-> <<>>, queue |-> NONE]

-----------------------------------------------------------------------------
Top(t) == frames[t][Len(frames[t])]
Below(t) == SubSeq(frames[t], 1, Len(frames[t]) - 1)

\* The call of Event::waitFor on e, at the beginning of its loop.
Call(e) == [event |-> e, rest |-> waitList[e]]

\* The loop of clWaitForEvents, or of one active waitFor, takes its next event.
Enter(t) ==
    /\ wpc[t] = "wait"
    /\ \/ /\ frames[t] = <<>> /\ rest[t] # <<>>
          /\ frames' = [frames EXCEPT ![t] = <<Call(Head(rest[t]))>>]
          /\ rest' = [rest EXCEPT ![t] = Tail(@)]
       \/ /\ frames[t] # <<>> /\ Top(t).rest # <<>>
          /\ frames' = [frames EXCEPT ![t] =
                 Below(t) \o <<[Top(t) EXCEPT !.rest = Tail(@)], Call(Head(Top(t).rest))>>]
          /\ UNCHANGED rest
    /\ UNCHANGED <<wpc, target, failed, before>>

\* waitFor is through with the wait list of its event.
WaitListDone(t) == wpc[t] = "wait" /\ frames[t] # <<>> /\ Top(t).rest = <<>>

\* Mutant: the error is not remembered.
Leave_ForgetsError(t) ==
    /\ WaitListDone(t)
    /\ Finished(Top(t).event)
    /\ frames' = [frames EXCEPT ![t] =
           IF status[Top(t).event] = COMPLETE THEN Below(t) ELSE <<>>]
    /\ UNCHANGED <<wpc, target, rest, failed, before>>

\* The event is finished: waitFor returns.  An error makes every waitFor below
\* it return an error at once, whether its own event is finished or not.
Leave(t) ==
    /\ WaitListDone(t)
    /\ Finished(Top(t).event)
    /\ \/ /\ status[Top(t).event] = COMPLETE
          /\ frames' = [frames EXCEPT ![t] = Below(t)]
          /\ UNCHANGED failed
       \/ /\ status[Top(t).event] # COMPLETE
          /\ frames' = [frames EXCEPT ![t] = <<>>]
          /\ failed' = [failed EXCEPT ![t] = TRUE]
    /\ UNCHANGED <<wpc, target, rest, before>>

\* EventQueue::waitForEvent: the status is read under another lock than the one
\* the handler changes it under, so it may change before the thread sleeps.
Block(t) ==
    /\ \/ /\ WaitListDone(t)
          /\ ~Finished(Top(t).event)
          /\ wpc' = [wpc EXCEPT ![t] = "blocking"]
       \/ /\ wpc[t] = "blocking"
          /\ wpc' = [wpc EXCEPT ![t] = "asleep"]
    /\ UNCHANGED <<target, rest, frames, failed, before>>

\* eventProcessed.wait_for times out.
WaitTimeout(t) ==
    /\ wpc[t] = "asleep"
    /\ wpc' = [wpc EXCEPT ![t] = "wait"]
    /\ UNCHANGED <<target, rest, frames, failed, before>>

-----------------------------------------------------------------------------
\* The call returns and its locals are gone.
EndCall(t) ==
    /\ wpc' = [wpc EXCEPT ![t] = "idle"]
    /\ target' = [target EXCEPT ![t] = Nothing]
    /\ failed' = [failed EXCEPT ![t] = FALSE]
    /\ before' = [before EXCEPT ![t] = {}]

\* clWaitForEvents
WaitForEvents(t, events) ==
    /\ wpc[t] = "idle"
    /\ events # <<>>
    /\ wpc' = [wpc EXCEPT ![t] = "wait"]
    /\ target' = [target EXCEPT ![t] = [events |-> events, queue |-> NONE]]
    /\ rest' = [rest EXCEPT ![t] = events]
    /\ UNCHANGED <<frames, failed, before>>

\* clFinish
Finish(t, q) ==
    /\ wpc[t] = "idle"
    /\ wpc' = [wpc EXCEPT ![t] = "finish"]
    /\ target' = [target EXCEPT ![t] = [events |-> <<>>, queue |-> q]]
    /\ before' = [before EXCEPT ![t] = {e \in Range(buffer) : queue[e] = q}]
    /\ UNCHANGED <<rest, frames, failed>>

\* EventQueue::peek looks for the oldest event of the command queue in the
\* buffer, which clFinish then waits for, until there is none.
Peeked(q) == {n \in DOMAIN buffer : queue[buffer[n]] = q}

FinishPeek(t) ==
    /\ wpc[t] = "finish"
    /\ LET found == Peeked(target[t].queue) IN
       \/ \E n \in found :
             /\ \A m \in found : n <= m
             /\ wpc' = [wpc EXCEPT ![t] = "wait"]
             /\ rest' = [rest EXCEPT ![t] = <<buffer[n]>>]
             /\ UNCHANGED <<target, failed, before>>
       \/ /\ found = {}
          /\ EndCall(t)
          /\ UNCHANGED rest
    /\ UNCHANGED frames

\* Mutant: clFinish waits for one event only.
Return_NoLoop(t) ==
    /\ wpc[t] = "wait" /\ frames[t] = <<>> /\ rest[t] = <<>>
    /\ EndCall(t)
    /\ UNCHANGED <<rest, frames>>

\* All events of the call are waited for: clWaitForEvents returns, clFinish
\* looks at the event queue again.
Return(t) ==
    /\ wpc[t] = "wait" /\ frames[t] = <<>> /\ rest[t] = <<>>
    /\ \/ target[t].queue = NONE /\ EndCall(t)
       \/ /\ target[t].queue # NONE
          /\ wpc' = [wpc EXCEPT ![t] = "finish"]
          /\ UNCHANGED <<target, failed, before>>
    /\ UNCHANGED <<rest, frames>>

WaiterStep(t) ==
    Enter(t) \/ Leave(t) \/ Block(t) \/ WaitTimeout(t) \/ FinishPeek(t) \/ Return(t)

Waiter(t) ==
    \/ \E events \in WaitLists : WaitForEvents(t, events)
    \/ \E q \in Queues : Finish(t, q)
    \/ WaiterStep(t)

-----------------------------------------------------------------------------
\* A step of EventQueue; eventProcessed.notify_all() wakes up the sleepers.
QueueStep ==
    /\ Next
    /\ wpc' = [t \in Waiters |->
                  IF hpc \in {"notify", "awake"} /\ hpc' # hpc /\ wpc[t] = "asleep"
                  THEN "wait" ELSE wpc[t]]
    /\ UNCHANGED <<target, rest, frames, failed, before>>

WaitersInit ==
    /\ Init
    /\ wpc = [t \in Waiters |-> "idle"]
    /\ target = [t \in Waiters |-> Nothing]
    /\ rest = [t \in Waiters |-> <<>>]
    /\ frames = [t \in Waiters |-> <<>>]
    /\ failed = [t \in Waiters |-> FALSE]
    /\ before = [t \in Waiters |-> {}]

WaitersNext ==
    \/ QueueStep
    \/ (\E t \in Waiters : Waiter(t)) /\ UNCHANGED vars

WaitersSpec ==
    /\ WaitersInit
    /\ [][WaitersNext]_allVars
    /\ Fairness
    /\ \A t \in Waiters : WF_allVars(WaiterStep(t) /\ UNCHANGED vars)

-----------------------------------------------------------------------------
(* Properties *)

Returns(t) == wpc[t] # "idle" /\ wpc'[t] = "idle"

\* "clWaitForEvents returns CL_SUCCESS if the execution status of all events in
\* event_list is CL_COMPLETE" (Event.cpp): it returns success only then.
SuccessMeansComplete ==
    [][\A t \in Waiters : Returns(t) /\ target[t].queue = NONE /\ ~failed[t] =>
           \A e \in Range(target[t].events) : status[e] = COMPLETE]_allVars

\* clFinish "blocks until all previously queued OpenCL commands in
\* command_queue [...] have completed" (CommandQueue::finish), whatever the
\* waits it makes on the way return.
FinishMeansFinished ==
    [][\A t \in Waiters : Returns(t) /\ target[t].queue # NONE =>
           \A e \in before[t] : Finished(e)]_allVars

\* Every blocking call returns: no notification a sleeping thread misses and no
\* chain of wait lists keeps it forever.
CallsReturn == \A t \in Waiters : wpc[t] # "idle" ~> wpc[t] = "idle"

=============================================================================
