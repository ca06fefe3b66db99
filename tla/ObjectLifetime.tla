---------------------------- MODULE ObjectLifetime ----------------------------
(***************************************************************************)
(* The lifetime of the objects the event queue works on: events, command   *)
(* queues and their context.  Every object is counted by hand              *)
(* (Object::retain and release) or through an object_wrapper, by the       *)
(* application, by enqueue calls in progress, by the event buffer, by the  *)
(* queue handler, by clFinish and by other objects.  Which of them drops   *)
(* the last reference, and so destroys the object, depends on the order of *)
(* their steps.                                                            *)
(*                                                                         *)
(* A step of EventQueue is taken together with the references it takes and *)
(* drops.  The decrement and the removal of Object::release are one step:  *)
(* that nobody can come between is what CountsMatch says.                  *)
(***************************************************************************)
EXTENDS EventQueue, FiniteSets

CONSTANTS Ctx  \* the context of all command queues and events

Objects == Events \cup Queues \cup {Ctx}

\* Commands need not be finite: only so many are created at a time.  Somebody
\* has to hold the context the application has released.
ASSUME ObjectLifetimeAssumption ==
    /\ IsFiniteSet(UserEvents) /\ IsFiniteSet(Queues) /\ UserEvents \cup Queues # {}
    /\ Events \cap Queues = {}
    /\ Ctx \notin Events \cup Queues \cup {NONE}

VARIABLES
    refs,      \* BaseObject::referenceCount
    live,      \* ObjectTracker::liveObjects
    owned,     \* the objects the application has a reference to
    calling,   \* events of enqueue calls after pushEvent that have not returned
    peeked     \* the event clFinish waits for

lifetimeVars == <<refs, live, owned, calling, peeked>>
everything == <<vars, lifetimeVars>>

-----------------------------------------------------------------------------
(* Object and ObjectTracker *)

\* How often o occurs in the wait list of e.
InWaitList(o, e) == Cardinality({i \in DOMAIN waitList[e] : waitList[e][i] = o})

\* How often each object is referenced by one holder of the given object.
Once(object) == [o \in Objects |-> IF o = object THEN 1 ELSE 0]

\* Object::retain
Retain(object) ==
    /\ refs' = [refs EXCEPT ![object] = @ + 1]
    /\ UNCHANGED live

\* Mutant: an event does not release its command queue.
Release_KeepsQueue(n) ==
    LET deadEvents == {e \in Events \cap live : n[e] > 0 /\ refs[e] = n[e]}
        left == [o \in Objects |-> refs[o] - n[o] - IF o = Ctx THEN Cardinality(deadEvents) ELSE 0]
    IN  /\ refs' = left
        /\ live' = {o \in live : left[o] > 0}

\* Object::release, n[o] times for every o.  ObjectTracker::removeObject destroys
\* an object at its last release: an event releases its command queue and its
\* context (its wait list is empty then), a command queue its context.
Release(n) ==
    LET deadEvents == {e \in Events \cap live : n[e] > 0 /\ refs[e] = n[e]}
        fromEvents(q) == Cardinality({e \in deadEvents : queue[e] = q})
        deadQueues == {q \in Queues \cap live : refs[q] = n[q] + fromEvents(q)}
        left == [o \in Objects |->
                    refs[o] - n[o] - IF o \in Queues THEN fromEvents(o)
                                     ELSE IF o = Ctx
                                     THEN Cardinality(deadEvents) + Cardinality(deadQueues)
                                     ELSE 0]
    IN  /\ refs' = left
        /\ live' = {o \in live : left[o] > 0}

-----------------------------------------------------------------------------
(* The steps of EventQueue, with their references *)

\* The new event is referenced by the call and by prepareToQueue, and itself
\* references its context, its command queue and what is in its wait list.
CallEnqueue(e, q) ==
    /\ q \in owned
    /\ Enqueue(e, q)
    /\ Range(waitList'[e]) \subseteq owned
    /\ refs' = [o \in Objects |->
                   IF o = e THEN 2
                   ELSE refs[o] + (IF o \in {q, Ctx} THEN 1 ELSE 0)
                                + InWaitList(o, e)']
    /\ live' = live \cup {e}
    /\ UNCHANGED <<owned, calling, peeked>>

\* Mutant: the event buffer holds a plain pointer.
CallPush_PlainPointer(e) ==
    /\ Push(e)
    /\ calling' = calling \cup {e}
    /\ UNCHANGED <<refs, live, owned, peeked>>

\* pushEvent: the event buffer holds an object_wrapper.
CallPush(e) ==
    /\ Push(e)
    /\ Retain(e)
    /\ calling' = calling \cup {e}
    /\ UNCHANGED <<owned, peeked>>

\* Mutant: the call's reference is kept although nobody asked for the event.
CallReturn_KeepsReference(e) ==
    /\ e \in calling
    /\ calling' = calling \ {e}
    /\ owned' = IF e \in handles THEN owned \cup {e} ELSE owned
    /\ UNCHANGED <<refs, live, peeked, vars>>

\* Event::setAsResultOrRelease: the call's reference becomes the application's,
\* or is dropped.
CallReturn(e) ==
    /\ e \in calling
    /\ calling' = calling \ {e}
    /\ \/ e \in handles /\ owned' = owned \cup {e} /\ UNCHANGED <<refs, live>>
       \/ e \notin handles /\ Release(Once(e)) /\ UNCHANGED owned
    /\ UNCHANGED <<peeked, vars>>

\* clReleaseEvent, clReleaseCommandQueue
ReleaseObject(o) ==
    /\ o \in owned
    /\ owned' = owned \ {o}
    /\ Release(Once(o))
    /\ UNCHANGED <<calling, peeked, vars>>

SignalUserEvent(e, st) ==
    /\ e \in owned
    /\ SetUserEventStatus(e, st)
    /\ UNCHANGED lifetimeVars

RegisterCallback(c, e, type) ==
    /\ e \in owned
    /\ SetEventCallback(c, e, type)
    /\ UNCHANGED lifetimeVars

\* EventQueue::peek gives clFinish a reference of its own to the event it then
\* waits for; when it is done, it may be the last one.
FinishTakes(q) ==
    /\ q \in owned /\ peeked = NONE
    /\ \E n \in DOMAIN buffer :
        /\ queue[buffer[n]] = q
        /\ \A m \in DOMAIN buffer : m < n => queue[buffer[m]] # q
        /\ peeked' = buffer[n]
        /\ Retain(buffer[n])
    /\ UNCHANGED <<owned, calling, vars>>

FinishDrops ==
    /\ peeked # NONE /\ Finished(peeked)
    /\ peeked' = NONE
    /\ Release(Once(peeked))
    /\ UNCHANGED <<owned, calling, vars>>

\* The queue handler drops prepareToQueue's reference after the action, but not
\* if it aborts the command, the wait list's references when it clears the list
\* and the event buffer's when it pops.
HandlerReferences ==
    \/ (Action \/ Pop) /\ Release(Once(hevent))
    \/ ClearWaitList /\ Release([o \in Objects |-> InWaitList(o, hevent)])
    \/ /\ Peek \/ Submit \/ Scan \/ Abort \/ Run \/ NotifyProcessed \/ Sleep \/ Timeout
       /\ UNCHANGED <<refs, live>>

HandlerAct == HandlerReferences /\ UNCHANGED <<owned, calling, peeked>>

-----------------------------------------------------------------------------
\* The application has created its context, command queues and user events, and
\* has released the context, which lives on through the others.
LifetimeInit ==
    /\ Init
    /\ live = UserEvents \cup Queues \cup {Ctx}
    /\ owned = UserEvents \cup Queues
    /\ refs = [o \in Objects |->
                  IF o \in Commands THEN 0
                  ELSE IF o = Ctx THEN Cardinality(UserEvents \cup Queues)
                  ELSE 1]
    /\ calling = {}
    /\ peeked = NONE

LifetimeNext ==
    \/ \E e \in Commands, q \in Queues : CallEnqueue(e, q)
    \/ \E e \in Commands : CallPush(e) \/ CallReturn(e)
    \/ \E o \in Objects : ReleaseObject(o)
    \/ \E e \in UserEvents, st \in Results : SignalUserEvent(e, st)
    \/ \E c \in Callbacks, e \in Events, type \in CallbackTypes : RegisterCallback(c, e, type)
    \/ \E q \in Queues : FinishTakes(q)
    \/ FinishDrops
    \/ HandlerAct

\* As for EventQueue; clFinish, too, goes on.
LifetimeFairness ==
    /\ WF_everything(HandlerAct)
    /\ WF_everything(FinishDrops)
    /\ \A e \in Commands : WF_everything(CallPush(e)) /\ WF_everything(CallReturn(e))

LifetimeSpec == LifetimeInit /\ [][LifetimeNext]_everything /\ LifetimeFairness

-----------------------------------------------------------------------------
(* Properties *)

Indicator(b) == IF b THEN 1 ELSE 0

\* prepareToQueue's reference: dropped by the queue handler, except for the
\* command it aborts.
QueuedReference(e) ==
    queue[e] # NONE /\ (Finished(e) => status[e] = ERROR_FOR_EVENTS_IN_WAIT_LIST)

\* The threads and lists that hold an event.
HeldDirectly(e) ==
    Indicator(e \in owned) + Indicator(e \in prepared \cup calling) + Indicator(QueuedReference(e))
    + Indicator(e \in Range(buffer)) + Indicator(peeked = e)

\* Where the wait lists of commands name it.
WaitListEntries(e) ==
    {x \in live \X (1..MaxWaitList) :
        x[1] \in Commands /\ x[2] \in DOMAIN waitList[x[1]] /\ waitList[x[1]][x[2]] = e}

\* Who references an event, counted one by one.
EventHolders(e) == HeldDirectly(e) + Cardinality(WaitListEntries(e))

\* The reference count of every object is the number of those who hold it, at
\* every moment of every call: no release is missing and none is one too many.
CountsMatch ==
    /\ \A e \in Events : refs[e] = EventHolders(e)
    /\ \A q \in Queues :
           refs[q] = Indicator(q \in owned) + Cardinality({e \in Events \cap live : queue[e] = q})
    /\ refs[Ctx] = Indicator(Ctx \in owned) + Cardinality(live \ {Ctx})

\* Nothing is destroyed that a thread or another object can still reach: the
\* handler's event until it has been popped, the events of unfinished calls, the
\* wait list the handler reads and the command queue of each of them.
NothingFreedInUse ==
    /\ owned \cup prepared \cup calling \cup Range(buffer) \subseteq live
    /\ hpc \in {"submit", "scan", "abort", "run", "action", "clear", "notify", "pop"} =>
           hevent \in live
    /\ peeked # NONE => peeked \in live
    /\ \A e \in Events \cap live :
           WaitsFor(e) \subseteq live /\ Ctx \in live /\ (queue[e] # NONE => queue[e] \in live)

\* A finished command's event is destroyed at last, unless the application or a
\* waiting command still wants it or the queue handler aborted the command: no
\* order in which its holders let go of it keeps it forever.
ReleasedAtLast ==
    \A e \in Commands :
        Finished(e) ~> \/ e \notin live \/ e \in owned
                       \/ \E d \in Commands : e \in WaitsFor(d)
                       \/ status[e] = ERROR_FOR_EVENTS_IN_WAIT_LIST
=============================================================================
