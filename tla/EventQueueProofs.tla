--------------------------- MODULE EventQueueProofs ---------------------------
(***************************************************************************)
(* Proofs about EventQueue, for any number of commands, user events,       *)
(* command queues and callbacks and for wait lists of any length.          *)
(***************************************************************************)
EXTENDS EventQueue, SequenceTheorems, TLAPS

\* The handler has taken the head of the buffer and not yet popped it.
Busy == {"submit", "scan", "abort", "run", "action", "clear", "notify", "pop"}

\* The handler's event is the head of the buffer, whose status tells how far
\* the handler is with it; nothing behind the head has been touched.
HandlerInv ==
    /\ hpc \in Busy => buffer # <<>> /\ hevent = buffer[1]
    /\ hpc \notin Busy /\ buffer # <<>> => status[buffer[1]] \in {QUEUED, SUBMITTED}
    /\ hpc = "submit" => status[hevent] \in {QUEUED, SUBMITTED}
    /\ hpc \in {"scan", "abort", "run"} => status[hevent] = SUBMITTED
    /\ hpc = "action" => status[hevent] = RUNNING
    /\ hpc \in {"clear", "notify", "pop"} => Finished(hevent)
    /\ \A j \in DOMAIN buffer : j # 1 => status[buffer[j]] = QUEUED

\* Where a command event can be: not enqueued, with a thread that enqueues it,
\* once in the buffer, or finished.
PlaceInv ==
    /\ \A i, j \in DOMAIN buffer : buffer[i] = buffer[j] => i = j
    /\ \A i \in DOMAIN buffer : buffer[i] \notin prepared /\ queue[buffer[i]] # NONE
    /\ \A e \in prepared : queue[e] # NONE /\ status[e] = QUEUED
    /\ \A e \in handles : queue[e] # NONE /\ e \notin prepared
    /\ \A e \in Commands : queue[e] = NONE => status[e] = QUEUED
    /\ \A e \in Commands : queue[e] # NONE =>
           \/ e \in prepared
           \/ \E i \in DOMAIN buffer : buffer[i] = e
           \/ Finished(e)

\* A user event has the status it was created with until it is set.
UserInv == \A u \in UserEvents : ~userSet[u] => status[u] = SUBMITTED

\* Wait lists hold what the application could name, and for a command in the
\* buffer that is nothing behind it.
WaitListInv ==
    /\ \A e \in Commands : \A k \in DOMAIN waitList[e] : waitList[e][k] \in Known
    /\ \A i \in DOMAIN buffer : \A k \in DOMAIN waitList[buffer[i]] :
           LET w == waitList[buffer[i]][k] IN
           \/ w \in UserEvents
           \/ Finished(w)
           \/ \E j \in DOMAIN buffer : j < i /\ buffer[j] = w

\* The part of its wait list the handler has passed is complete.
ScanInv ==
    /\ hpc = "scan" => \A k \in DOMAIN waitList[hevent] :
           k < hidx => status[waitList[hevent][k]] = COMPLETE
    /\ hpc \in {"run", "action"} => \A k \in DOMAIN waitList[hevent] :
           status[waitList[hevent][k]] = COMPLETE
    /\ hpc = "abort" => \E k \in DOMAIN waitList[hevent] : status[waitList[hevent][k]] < 0

IndInv == TypeOK /\ HandlerInv /\ PlaceInv /\ UserInv /\ WaitListInv /\ ScanInv

-----------------------------------------------------------------------------
(* Type correctness *)

\* popFromEventQueue is only reached with something to pop.
TypeInv == TypeOK /\ (hpc \in Busy => buffer # <<>>)

\* A wait list an enqueue call passes is a sequence of known events.
LEMMA WaitListIsSeq ==
    ASSUME TypeOK, NEW list \in WaitLists
    PROVE  /\ list \in Seq(Events)
           /\ \A k \in DOMAIN list : list[k] \in Known
<1>1. PICK n \in 0..MaxWaitList : list \in Injection(1..n, Known)
  BY DEF WaitLists
<1>2. n \in Nat /\ list \in [1..n -> Known]
  BY <1>1, EventQueueAssumption DEF Injection
<1>3. Known \subseteq Events
  BY DEF TypeOK, Known, Events
<1>4. list \in [1..n -> Events]
  BY <1>2, <1>3
<1> QED
  BY <1>2, <1>4, IsASeq

\* Whatever status an event is given, the callbacks' calls stay sequences.
LEMMA UpdateStatusType ==
    ASSUME TypeOK, NEW e, NEW st \in Statuses, UpdateStatus(e, st)
    PROVE  /\ status' \in [Events -> Statuses]
           /\ calls' \in [Callbacks -> Seq(Statuses)]
           /\ registered' = registered
<1>1. status' \in [Events -> Statuses]
  BY DEF TypeOK, UpdateStatus
<1>2. calls' = FireCallbacks(e, status[e], st)
  BY DEF UpdateStatus
<1>3. \A c \in Callbacks : Append(calls[c], st) \in Seq(Statuses)
  BY AppendProperties DEF TypeOK
<1>4. calls' \in [Callbacks -> Seq(Statuses)]
  BY <1>2, <1>3 DEF TypeOK, FireCallbacks
<1> QED
  BY <1>1, <1>4 DEF UpdateStatus

LEMMA StatusFacts ==
    /\ QUEUED \in Statuses /\ SUBMITTED \in Statuses /\ RUNNING \in Statuses
    /\ COMPLETE \in Statuses /\ Results \subseteq Statuses
    /\ ERROR_FOR_EVENTS_IN_WAIT_LIST \in Statuses
    /\ CallbackTypes \subseteq Statuses
    /\ Statuses \subseteq Int
  BY DEF Statuses, Errors, Results, CallbackTypes, QUEUED, SUBMITTED, RUNNING, COMPLETE,
         OUT_OF_RESOURCES, ERROR_FOR_EVENTS_IN_WAIT_LIST

LEMMA TypeInit == Init => TypeInv
  BY StatusFacts DEF Init, TypeInv, TypeOK, HandlerPCs, Busy, CallbackTypes, Known, Events

LEMMA TypeStep == TypeInv /\ [Next]_vars => TypeInv'
<1> SUFFICES ASSUME TypeInv, [Next]_vars
             PROVE  TypeInv'
  OBVIOUS
<1> USE DEF TypeInv
<1>1. CASE Application
  <2>1. ASSUME NEW e \in Commands, NEW q \in Queues, Enqueue(e, q)
        PROVE  TypeInv'
    <3>1. PICK list \in WaitLists : waitList' = [waitList EXCEPT ![e] = list]
      BY <2>1 DEF Enqueue, SetEventWaitList
    <3>2. waitList' \in [Events -> Seq(Events)]
      BY <3>1, WaitListIsSeq DEF TypeOK
    <3>3. queue' \in [Events -> Queues \cup {NONE}] /\ prepared' \subseteq Commands
      BY <2>1 DEF TypeOK, Enqueue, EnqueueEvent, PrepareToQueue
    <3>4. /\ UNCHANGED <<status, userSet, handles, buffer>>
          /\ UNCHANGED <<registered, calls>> /\ UNCHANGED <<hpc, hevent, hidx>>
      BY <2>1 DEF Enqueue, callbackVars, handlerVars
    <3> QED
      BY <3>2, <3>3, <3>4 DEF TypeOK, Busy
  <2>2. ASSUME NEW e \in Commands, Push(e)
        PROVE  TypeInv'
    <3>0. buffer \in Seq(Commands) /\ buffer' = Append(buffer, e)
      BY <2>2 DEF TypeOK, Push, PushEvent
    <3>1. buffer' \in Seq(Commands) /\ buffer' # <<>>
      BY <3>0, AppendProperties
    <3>2. handles' \subseteq Commands /\ prepared' \subseteq Commands
      BY <2>2 DEF TypeOK, Push, SetAsResultOrRelease
    <3>3. hpc' \in HandlerPCs
      BY <2>2 DEF TypeOK, Push, PushEvent, HandlerPCs
    <3> QED
      BY <2>2, <3>1, <3>2, <3>3 DEF TypeOK, Push, callbackVars
  <2>3. ASSUME NEW e \in Events, NEW st \in Results, SetUserEventStatus(e, st)
        PROVE  TypeInv'
    BY <2>3, StatusFacts DEF TypeOK, SetUserEventStatus, callbackVars, handlerVars, Busy
  <2>4. ASSUME NEW c \in Callbacks, NEW e \in Events, NEW type \in CallbackTypes,
               SetEventCallback(c, e, type)
        PROVE  TypeInv'
    <3>1. registered' \in [Callbacks -> [event : Events \cup {NONE}, type : CallbackTypes]]
      BY <2>4 DEF TypeOK, SetEventCallback
    <3>2. status[e] \in Statuses /\ type \in Statuses
      BY StatusFacts DEF TypeOK
    <3>3. calls' \in [Callbacks -> Seq(Statuses)]
      BY <2>4, <3>2 DEF TypeOK, SetEventCallback
    <3> QED
      BY <2>4, <3>1, <3>3 DEF TypeOK, SetEventCallback, handlerVars, Busy
  <2> QED
    BY <1>1, <2>1, <2>2, <2>3, <2>4 DEF Application
<1>2. CASE Handler
  <2>1. CASE Peek
    <3>1. buffer # <<>> => Head(buffer) \in Commands
      BY DEF TypeOK
    <3> QED
      BY <2>1, <3>1 DEF TypeOK, Peek, HandlerStep, callbackVars, HandlerPCs, Busy
  <2>2. CASE Submit
    BY <2>2, StatusFacts, UpdateStatusType DEF TypeOK, Submit, HandlerStep, HandlerPCs, Busy
  <2>3. CASE Scan
    <3>1. hidx' \in Nat \ {0} /\ hpc' \in HandlerPCs
      BY <2>3 DEF TypeOK, Scan, HandlerPCs
    <3>2. hpc \in Busy
      BY <2>3 DEF Scan, Busy
    <3> QED
      BY <2>3, <3>1, <3>2 DEF TypeOK, Scan, callbackVars
  <2>4. CASE Abort
    BY <2>4, StatusFacts, UpdateStatusType DEF TypeOK, Abort, HandlerStep, HandlerPCs, Busy
  <2>5. CASE Run
    BY <2>5, StatusFacts, UpdateStatusType DEF TypeOK, Run, HandlerStep, HandlerPCs, Busy
  <2>6. CASE Action
    <3>1. PICK st \in Results : UpdateStatus(hevent, st)
      BY <2>6 DEF Action
    <3> QED
      BY <2>6, <3>1, StatusFacts, UpdateStatusType
      DEF TypeOK, Action, HandlerStep, HandlerPCs, Busy
  <2>7. CASE ClearWaitList
    <3>1. waitList' \in [Events -> Seq(Events)]
      BY <2>7, EmptySeq DEF TypeOK, ClearWaitList
    <3> QED
      BY <2>7, <3>1 DEF TypeOK, ClearWaitList, HandlerStep, callbackVars, HandlerPCs, Busy
  <2>8. CASE NotifyProcessed
    <3>1. (hpc = "notify" /\ hpc' = "pop") \/ (hpc = "awake" /\ hpc' = "peek")
      BY <2>8 DEF NotifyProcessed, HandlerStep
    <3> QED
      BY <2>8, <3>1 DEF TypeOK, NotifyProcessed, callbackVars, HandlerPCs, Busy
  <2>9. CASE Pop
    <3>1. Tail(buffer) \in Seq(Commands)
      BY <2>9 DEF TypeOK, Pop, HandlerStep, Busy
    <3> QED
      BY <2>9, <3>1 DEF TypeOK, Pop, HandlerStep, callbackVars, HandlerPCs, Busy
  <2>10. CASE Sleep \/ Timeout
    BY <2>10 DEF TypeOK, Sleep, Timeout, HandlerStep, callbackVars, HandlerPCs, Busy
  <2> QED
    BY <1>2, <2>1, <2>2, <2>3, <2>4, <2>5, <2>6, <2>7, <2>8, <2>9, <2>10 DEF Handler
<1>3. CASE UNCHANGED vars
  BY <1>3 DEF TypeOK, vars, Busy
<1> QED
  BY <1>1, <1>2, <1>3 DEF Next

\* Every variable keeps its type; in particular the handler always has an event
\* of the buffer in hand when it pops.
THEOREM TypeCorrect == Spec => []TypeOK
<1>1. TypeInv => TypeOK
  BY DEF TypeInv
<1> QED
  BY <1>1, TypeInit, TypeStep, PTL DEF Spec

-----------------------------------------------------------------------------
(* The inductive invariant *)

\* Positions of the buffer and their events.
LEMMA BufferFacts ==
    ASSUME TypeOK
    PROVE  /\ Len(buffer) \in Nat
           /\ DOMAIN buffer = 1..Len(buffer)
           /\ \A i \in DOMAIN buffer : buffer[i] \in Commands /\ buffer[i] \in Events
           /\ buffer # <<>> <=> 1 \in DOMAIN buffer
  BY EmptySeq DEF TypeOK, Events

\* The event in the handler's hands is the head of the buffer and nothing else.
LEMMA HeadFacts ==
    ASSUME IndInv, hpc \in Busy
    PROVE  /\ hevent \in Commands /\ hevent \in Events
           /\ 1 \in DOMAIN buffer /\ buffer[1] = hevent
           /\ hevent \notin prepared /\ hevent \notin UserEvents
           /\ queue[hevent] # NONE
           /\ \A j \in DOMAIN buffer : j # 1 => buffer[j] # hevent
  BY BufferFacts, EventQueueAssumption DEF IndInv, HandlerInv, PlaceInv

\* What finished stays as it is if the status of something unfinished changes.
LEMMA FinishedStays ==
    ASSUME TypeOK, NEW e \in Events, NEW st \in Statuses, ~Finished(e),
           status' = [status EXCEPT ![e] = st]
    PROVE  /\ status'[e] = st
           /\ \A w \in Events : w # e => status'[w] = status[w]
           /\ \A w \in Events : Finished(w) => w # e /\ Finished(w)'
  BY DEF TypeOK, Finished

\* A change of the status of the handler's event disturbs nothing but what the
\* handler itself relies on.
LEMMA HeadStatusChange ==
    ASSUME IndInv, hpc \in Busy, ~Finished(hevent), NEW st \in Statuses,
           UpdateStatus(hevent, st),
           UNCHANGED <<queue, waitList, userSet, handles, prepared, buffer, hevent>>
    PROVE  /\ PlaceInv' /\ UserInv' /\ WaitListInv'
           /\ status'[hevent] = st
           /\ \A w \in Events : w # hevent => status'[w] = status[w]
<1>1. TypeOK
  BY DEF IndInv
<1>2. status' = [status EXCEPT ![hevent] = st]
  BY DEF UpdateStatus
<1>3. /\ status'[hevent] = st
      /\ \A w \in Events : w # hevent => status'[w] = status[w]
      /\ \A w \in Events : Finished(w) => w # hevent /\ Finished(w)'
  BY <1>1, <1>2, HeadFacts, FinishedStays
<1>4. PlaceInv'
  BY <1>1, <1>3, HeadFacts DEF IndInv, PlaceInv, TypeOK, Events
<1>5. UserInv'
  BY <1>3, HeadFacts DEF IndInv, UserInv, Events
<1>6. WaitListInv'
  <2>1. \A i \in DOMAIN buffer : \A k \in DOMAIN waitList[buffer[i]] :
            waitList[buffer[i]][k] \in Events
    BY <1>1, BufferFacts DEF IndInv, WaitListInv, Known, TypeOK, Events
  <2> QED
    BY <1>3, <2>1 DEF IndInv, WaitListInv, Known
<1> QED
  BY <1>3, <1>4, <1>5, <1>6

LEMMA IndInit == Init => IndInv
<1> SUFFICES ASSUME Init PROVE IndInv
  OBVIOUS
<1>1. TypeOK
  BY TypeInit DEF TypeInv
<1>2. buffer = <<>> /\ DOMAIN buffer = {}
  BY DEF Init
<1>3. HandlerInv
  BY <1>2 DEF Init, HandlerInv, Busy
<1>4. PlaceInv
  BY <1>2, EventQueueAssumption DEF Init, PlaceInv, Events
<1>5. UserInv
  BY DEF Init, UserInv, Events
<1>6. WaitListInv
  BY <1>2 DEF Init, WaitListInv, Events
<1>7. ScanInv
  BY DEF Init, ScanInv
<1> QED
  BY <1>1, <1>3, <1>4, <1>5, <1>6, <1>7 DEF IndInv

LEMMA IndEnqueue ==
    ASSUME IndInv, NEW e \in Commands, NEW q \in Queues, Enqueue(e, q)
    PROVE  HandlerInv' /\ PlaceInv' /\ UserInv' /\ WaitListInv' /\ ScanInv'
<1>1. TypeOK /\ e \in Events /\ q # NONE
  BY EventQueueAssumption DEF IndInv, Events
<1>2. PICK list \in WaitLists : waitList' = [waitList EXCEPT ![e] = list]
  BY DEF Enqueue, SetEventWaitList
<1>3. /\ queue[e] = NONE /\ queue' = [queue EXCEPT ![e] = q]
      /\ prepared' = prepared \cup {e}
      /\ UNCHANGED <<status, userSet, handles, buffer, hpc, hevent, hidx>>
  BY DEF Enqueue, EnqueueEvent, PrepareToQueue, handlerVars
<1>4. /\ \A i \in DOMAIN buffer : buffer[i] # e
      /\ hpc \in Busy => hevent # e
      /\ status[e] = QUEUED
  BY <1>3, HeadFacts DEF IndInv, PlaceInv
<1>5. /\ waitList'[e] = list /\ \A k \in DOMAIN list : list[k] \in Known
      /\ \A d \in Events : d # e => waitList'[d] = waitList[d] /\ queue'[d] = queue[d]
      /\ queue'[e] = q
  BY <1>1, <1>2, <1>3, WaitListIsSeq DEF TypeOK
<1>6. HandlerInv'
  BY <1>3 DEF IndInv, HandlerInv, Finished
<1>7. PlaceInv'
  BY <1>1, <1>3, <1>4, <1>5, BufferFacts DEF IndInv, PlaceInv, Finished, TypeOK, Events
<1>8. UserInv'
  BY <1>3 DEF IndInv, UserInv
<1>9. WaitListInv'
  <2>1. \A d \in Commands : \A k \in DOMAIN waitList'[d] : waitList'[d][k] \in Known'
    BY <1>3, <1>5 DEF IndInv, WaitListInv, Known, Events
  <2>2. \A i \in DOMAIN buffer : waitList'[buffer[i]] = waitList[buffer[i]]
    BY <1>1, <1>4, <1>5, BufferFacts
  <2> QED
    BY <1>3, <2>1, <2>2 DEF IndInv, WaitListInv, Finished
<1>10. ScanInv'
  <2>1. hpc \in Busy => waitList'[hevent] = waitList[hevent]
    BY <1>4, <1>5, HeadFacts
  <2> QED
    BY <1>3, <2>1 DEF IndInv, ScanInv, Busy
<1> QED
  BY <1>6, <1>7, <1>8, <1>9, <1>10

LEMMA IndPush ==
    ASSUME IndInv, NEW e \in Commands, Push(e)
    PROVE  HandlerInv' /\ PlaceInv' /\ UserInv' /\ WaitListInv' /\ ScanInv'
<1>1. TypeOK /\ e \in Events
  BY DEF IndInv, Events
<1>2. /\ e \in prepared /\ prepared' = prepared \ {e}
      /\ handles' \in {handles, handles \cup {e}}
      /\ buffer' = Append(buffer, e)
      /\ hpc' = hpc \/ (hpc = "asleep" /\ hpc' = "awake")
      /\ UNCHANGED <<status, queue, waitList, userSet, hevent, hidx>>
  BY DEF Push, PushEvent, SetAsResultOrRelease
<1>3. /\ status[e] = QUEUED /\ queue[e] # NONE
      /\ \A i \in DOMAIN buffer : buffer[i] # e
  BY <1>2 DEF IndInv, PlaceInv
<1>4. /\ Len(buffer) \in Nat /\ DOMAIN buffer = 1..Len(buffer)
      /\ DOMAIN buffer' = 1..(Len(buffer) + 1)
      /\ \A i \in DOMAIN buffer : buffer'[i] = buffer[i]
      /\ buffer'[Len(buffer) + 1] = e
      /\ buffer' # <<>>
  BY <1>1, <1>2, BufferFacts, AppendProperties DEF TypeOK
<1>5. HandlerInv'
  <2>1. hpc' \in Busy <=> hpc \in Busy
    BY <1>2 DEF Busy
  <2>2. hpc' \in Busy => buffer' # <<>> /\ hevent' = buffer'[1]
    BY <1>2, <1>4, <2>1, HeadFacts
  <2>3. hpc' \notin Busy => status'[buffer'[1]] \in {QUEUED, SUBMITTED}
    <3>1. CASE buffer = <<>>
      BY <1>2, <1>3, <1>4, <3>1
    <3>2. CASE buffer # <<>>
      BY <1>2, <1>4, <2>1, <3>2, <1>1, BufferFacts DEF IndInv, HandlerInv
    <3> QED
      BY <3>1, <3>2
  <2>4. \A j \in DOMAIN buffer' : j # 1 => status'[buffer'[j]] = QUEUED
    BY <1>2, <1>3, <1>4 DEF IndInv, HandlerInv
  <2>5. /\ hpc' = "submit" => status'[hevent'] \in {QUEUED, SUBMITTED}
        /\ hpc' \in {"scan", "abort", "run"} => status'[hevent'] = SUBMITTED
        /\ hpc' = "action" => status'[hevent'] = RUNNING
        /\ hpc' \in {"clear", "notify", "pop"} => Finished(hevent)'
    BY <1>2 DEF IndInv, HandlerInv, Finished
  <2> QED
    BY <2>2, <2>3, <2>4, <2>5 DEF HandlerInv
<1>6. PlaceInv'
  <2>1. \A i, j \in DOMAIN buffer' : buffer'[i] = buffer'[j] => i = j
    BY <1>3, <1>4 DEF IndInv, PlaceInv
  <2>2. \A i \in DOMAIN buffer' : buffer'[i] \notin prepared' /\ queue'[buffer'[i]] # NONE
    BY <1>2, <1>3, <1>4 DEF IndInv, PlaceInv
  <2>3. \A d \in handles' : queue'[d] # NONE /\ d \notin prepared'
    BY <1>2, <1>3 DEF IndInv, PlaceInv
  <2>4. \A d \in Commands : queue'[d] # NONE =>
            \/ d \in prepared'
            \/ \E i \in DOMAIN buffer' : buffer'[i] = d
            \/ Finished(d)'
    <3> SUFFICES ASSUME NEW d \in Commands, queue'[d] # NONE, d \notin prepared',
                        ~Finished(d)'
                 PROVE  \E i \in DOMAIN buffer' : buffer'[i] = d
      OBVIOUS
    <3>1. CASE d = e
      BY <1>4, <3>1
    <3>2. CASE d # e
      BY <1>2, <1>4, <3>2 DEF IndInv, PlaceInv, Finished
    <3> QED
      BY <3>1, <3>2
  <2> QED
    BY <1>2, <2>1, <2>2, <2>3, <2>4 DEF IndInv, PlaceInv
<1>7. UserInv'
  BY <1>2 DEF IndInv, UserInv
<1>8. WaitListInv'
  <2>0. waitList' = waitList /\ status' = status
    BY <1>2
  <2>1. \A d \in Commands : \A k \in DOMAIN waitList'[d] : waitList'[d][k] \in Known'
    BY <1>2 DEF IndInv, WaitListInv, Known
  <2>2. ASSUME NEW i \in DOMAIN buffer', NEW k \in DOMAIN waitList[buffer'[i]],
               waitList[buffer'[i]][k] \notin UserEvents,
               ~Finished(waitList[buffer'[i]][k])
        PROVE  \E j \in DOMAIN buffer' : j < i /\ buffer'[j] = waitList[buffer'[i]][k]
    <3>1. CASE i \in DOMAIN buffer
      <4>1. PICK j \in DOMAIN buffer : j < i /\ buffer[j] = waitList[buffer[i]][k]
        BY <1>2, <1>4, <2>2, <3>1 DEF IndInv, WaitListInv, Finished
      <4>2. j \in DOMAIN buffer' /\ buffer'[j] = buffer[j] /\ buffer'[i] = buffer[i]
        BY <1>4, <3>1
      <4> QED
        BY <2>0, <4>1, <4>2
    <3>2. CASE i = Len(buffer) + 1
      <4>1. waitList[e][k] \in handles
        BY <1>2, <1>4, <2>2, <3>2 DEF IndInv, WaitListInv, Known
      <4>2. PICK j \in DOMAIN buffer : buffer[j] = waitList[e][k]
        BY <1>1, <1>2, <1>4, <2>2, <3>2, <4>1 DEF IndInv, PlaceInv, Finished, TypeOK
      <4>3. j \in DOMAIN buffer' /\ buffer'[j] = buffer[j] /\ buffer'[i] = e /\ j < i
        BY <1>4, <3>2
      <4> QED
        BY <2>0, <4>2, <4>3
    <3> QED
      BY <1>4, <3>1, <3>2
  <2> QED
    BY <2>0, <2>1, <2>2 DEF WaitListInv, Finished
<1>9. ScanInv'
  BY <1>2 DEF IndInv, ScanInv
<1> QED
  BY <1>5, <1>6, <1>7, <1>8, <1>9

\* clSetUserEventStatus on a user event changes the status of nothing the
\* handler is working on.
LEMMA IndSetUserEventStatus ==
    ASSUME IndInv, NEW e \in Events, NEW st \in Results,
           SetUserEventStatus(e, st)
    PROVE  HandlerInv' /\ PlaceInv' /\ UserInv' /\ WaitListInv' /\ ScanInv'
<1>1. TypeOK /\ st \in Statuses /\ e \in UserEvents /\ e \notin Commands
  BY StatusFacts, EventQueueAssumption DEF IndInv, SetUserEventStatus
<1>2. /\ status' = [status EXCEPT ![e] = st]
      /\ userSet' = [userSet EXCEPT ![e] = TRUE] /\ ~userSet[e]
      /\ UNCHANGED <<queue, waitList, handles, prepared, buffer, hpc, hevent, hidx>>
  BY DEF SetUserEventStatus, handlerVars
<1>3. status[e] = SUBMITTED /\ ~Finished(e)
  BY <1>1, <1>2 DEF IndInv, UserInv, Finished, IsFinished, SUBMITTED, COMPLETE
<1>4. /\ \A w \in Events : w # e => status'[w] = status[w]
      /\ \A w \in Events : Finished(w) => w # e /\ Finished(w)'
      /\ \A w \in Events : status[w] = COMPLETE \/ status[w] < 0 => status'[w] = status[w]
  BY <1>1, <1>2, <1>3, FinishedStays DEF Finished, IsFinished
<1>5. \A c \in Commands : c \in Events /\ status'[c] = status[c]
  BY <1>1, <1>4 DEF Events
<1>6. \A i \in DOMAIN buffer : status'[buffer[i]] = status[buffer[i]]
  BY <1>1, <1>5, BufferFacts
<1>7. hpc \in Busy => status'[hevent] = status[hevent]
  BY <1>5, HeadFacts
<1>8. HandlerInv'
  BY <1>1, <1>2, <1>6, <1>7, BufferFacts DEF IndInv, HandlerInv, Finished, Busy
<1>9. PlaceInv'
  BY <1>1, <1>2, <1>5, BufferFacts DEF IndInv, PlaceInv, Finished, TypeOK
<1>10. UserInv'
  BY <1>1, <1>2, <1>4 DEF IndInv, UserInv, Events, TypeOK
<1>11. \A d \in Commands : \A k \in DOMAIN waitList[d] : waitList[d][k] \in Events
  BY <1>1 DEF IndInv, WaitListInv, Known, TypeOK, Events
<1>12. WaitListInv'
  BY <1>1, <1>2, <1>4, <1>11, BufferFacts DEF IndInv, WaitListInv, Known
<1>13. ScanInv'
  BY <1>2, <1>4, <1>11, HeadFacts DEF IndInv, ScanInv, Busy
<1> QED
  BY <1>8, <1>9, <1>10, <1>12, <1>13

\* The steps that change nothing but where the handler is between two events.
LEMMA IndBetweenEvents ==
    ASSUME IndInv, hpc \notin Busy, hpc' \notin Busy,
           UNCHANGED <<status, queue, waitList, userSet, handles, prepared, buffer>>
    PROVE  HandlerInv' /\ PlaceInv' /\ UserInv' /\ WaitListInv' /\ ScanInv'
<1>1. HandlerInv'
  BY DEF IndInv, HandlerInv, Busy
<1>2. PlaceInv' /\ UserInv' /\ WaitListInv'
  BY DEF IndInv, PlaceInv, UserInv, WaitListInv, Finished, Known
<1>3. ScanInv'
  BY DEF ScanInv, Busy
<1> QED
  BY <1>1, <1>2, <1>3

\* The steps on an event that leave its status alone keep what does not depend
\* on the position of the handler.
LEMMA IndSameStatus ==
    ASSUME IndInv, UNCHANGED <<status, queue, waitList, userSet, handles, prepared, buffer>>
    PROVE  PlaceInv' /\ UserInv' /\ WaitListInv'
  BY DEF IndInv, PlaceInv, UserInv, WaitListInv, Finished, Known

LEMMA IndPeek ==
    ASSUME IndInv, Peek
    PROVE  HandlerInv' /\ PlaceInv' /\ UserInv' /\ WaitListInv' /\ ScanInv'
<1>1. UNCHANGED <<status, queue, waitList, userSet, handles, prepared, buffer>>
  BY DEF Peek
<1>2. CASE buffer = <<>>
  <2>1. hpc \notin Busy /\ hpc' \notin Busy
    BY <1>2 DEF Peek, HandlerStep, Busy
  <2> QED
    BY <1>1, <2>1, IndBetweenEvents
<1>3. CASE buffer # <<>>
  <2>1. hpc = "peek" /\ hpc' = "submit" /\ hevent' = buffer[1]
    BY <1>3 DEF Peek, HandlerStep, IndInv, TypeOK
  <2>2. status[buffer[1]] \in {QUEUED, SUBMITTED}
    BY <1>3, <2>1 DEF IndInv, HandlerInv, Busy
  <2>3. HandlerInv'
    BY <1>1, <1>3, <2>1, <2>2 DEF IndInv, HandlerInv, Busy
  <2>4. ScanInv'
    BY <2>1 DEF ScanInv
  <2> QED
    BY <1>1, <2>3, <2>4, IndSameStatus
<1> QED
  BY <1>2, <1>3

LEMMA IndSubmit ==
    ASSUME IndInv, Submit
    PROVE  HandlerInv' /\ PlaceInv' /\ UserInv' /\ WaitListInv' /\ ScanInv'
<1>1. /\ hpc = "submit" /\ hpc' = "scan" /\ hidx' = 1
      /\ UpdateStatus(hevent, SUBMITTED)
      /\ UNCHANGED <<queue, waitList, userSet, handles, prepared, buffer, hevent>>
  BY DEF Submit, HandlerStep
<1>2. hpc \in Busy /\ ~Finished(hevent) /\ SUBMITTED \in Statuses
  BY <1>1, StatusFacts
  DEF Busy, IndInv, HandlerInv, Finished, IsFinished, QUEUED, SUBMITTED, COMPLETE
<1>3. PlaceInv' /\ UserInv' /\ WaitListInv'
  BY <1>1, <1>2, HeadStatusChange
<1>4. /\ status'[hevent] = SUBMITTED
      /\ \A w \in Events : w # hevent => status'[w] = status[w]
  BY <1>1, <1>2, HeadStatusChange
<1>5. HandlerInv'
  BY <1>1, <1>2, <1>4, HeadFacts, BufferFacts DEF IndInv, HandlerInv, Busy
<1>6. ScanInv'
  <2>1. waitList[hevent] \in Seq(Events)
    BY <1>2, HeadFacts DEF IndInv, TypeOK
  <2>2. \A k \in DOMAIN waitList[hevent] : ~(k < 1)
    BY <2>1
  <2> QED
    BY <1>1, <2>2 DEF ScanInv
<1> QED
  BY <1>3, <1>5, <1>6

LEMMA IndScan ==
    ASSUME IndInv, Scan
    PROVE  HandlerInv' /\ PlaceInv' /\ UserInv' /\ WaitListInv' /\ ScanInv'
<1>1. /\ hpc = "scan"
      /\ UNCHANGED <<status, queue, waitList, userSet, handles, prepared, buffer, hevent>>
  BY DEF Scan
<1>2. /\ hpc \in Busy /\ status[hevent] = SUBMITTED /\ hidx \in Nat \ {0}
      /\ \A k \in DOMAIN waitList[hevent] : k < hidx => status[waitList[hevent][k]] = COMPLETE
  BY <1>1 DEF IndInv, HandlerInv, ScanInv, TypeOK, Busy
<1>3. Len(waitList[hevent]) \in Nat /\ DOMAIN waitList[hevent] = 1..Len(waitList[hevent])
  BY <1>2, HeadFacts DEF IndInv, TypeOK
<1>4. PlaceInv' /\ UserInv' /\ WaitListInv'
  BY <1>1, IndSameStatus
<1>5. CASE hidx > Len(waitList[hevent])
  <2>1. hpc' = "run" /\ \A k \in DOMAIN waitList[hevent] : k < hidx
    BY <1>2, <1>3, <1>5 DEF Scan
  <2>2. HandlerInv'
    BY <1>1, <1>2, <2>1 DEF IndInv, HandlerInv, Busy
  <2>3. ScanInv'
    BY <1>1, <1>2, <2>1 DEF ScanInv
  <2> QED
    BY <1>4, <2>2, <2>3
<1>6. CASE hidx <= Len(waitList[hevent])
  <2>0. hidx \in DOMAIN waitList[hevent]
    BY <1>2, <1>3, <1>6
  <2>1. CASE status[waitList[hevent][hidx]] < 0 /\ hpc' = "abort"
    <3>1. HandlerInv'
      BY <1>1, <1>2, <2>1 DEF IndInv, HandlerInv, Busy
    <3>2. ScanInv'
      BY <1>1, <2>0, <2>1 DEF ScanInv
    <3> QED
      BY <1>4, <3>1, <3>2
  <2>2. CASE hpc' = "idle"
    <3>1. HandlerInv'
      BY <1>1, <1>2, <2>2, HeadFacts DEF IndInv, HandlerInv, Busy
    <3>2. ScanInv'
      BY <2>2 DEF ScanInv
    <3> QED
      BY <1>4, <3>1, <3>2
  <2>3. CASE status[waitList[hevent][hidx]] = COMPLETE /\ hidx' = hidx + 1 /\ hpc' = hpc
    <3>1. HandlerInv'
      BY <1>1, <1>2, <2>3 DEF IndInv, HandlerInv, Busy
    <3>2. \A k \in DOMAIN waitList[hevent] : k < hidx + 1 => k < hidx \/ k = hidx
      BY <1>2, <1>3
    <3>3. ScanInv'
      BY <1>1, <1>2, <2>3, <3>2 DEF ScanInv
    <3> QED
      BY <1>4, <3>1, <3>3
  <2> QED
    BY <1>2, <1>3, <1>6, <2>1, <2>2, <2>3 DEF Scan
<1> QED
  BY <1>2, <1>3, <1>5, <1>6

LEMMA IndAbort ==
    ASSUME IndInv, Abort
    PROVE  HandlerInv' /\ PlaceInv' /\ UserInv' /\ WaitListInv' /\ ScanInv'
<1>1. /\ hpc = "abort" /\ hpc' = "clear"
      /\ UpdateStatus(hevent, ERROR_FOR_EVENTS_IN_WAIT_LIST)
      /\ UNCHANGED <<queue, waitList, userSet, handles, prepared, buffer, hevent>>
  BY DEF Abort, HandlerStep
<1>2. hpc \in Busy /\ ~Finished(hevent) /\ ERROR_FOR_EVENTS_IN_WAIT_LIST \in Statuses
  BY <1>1, StatusFacts DEF Busy, IndInv, HandlerInv, Finished, IsFinished, SUBMITTED, COMPLETE
<1>3. PlaceInv' /\ UserInv' /\ WaitListInv'
  BY <1>1, <1>2, HeadStatusChange
<1>4. /\ status'[hevent] = ERROR_FOR_EVENTS_IN_WAIT_LIST
      /\ \A w \in Events : w # hevent => status'[w] = status[w]
  BY <1>1, <1>2, HeadStatusChange
<1>5. Finished(hevent)'
  BY <1>1, <1>4 DEF Finished, IsFinished, ERROR_FOR_EVENTS_IN_WAIT_LIST
<1>6. HandlerInv'
  BY <1>1, <1>2, <1>4, <1>5, HeadFacts, BufferFacts DEF IndInv, HandlerInv, Busy
<1>7. ScanInv'
  BY <1>1 DEF ScanInv
<1> QED
  BY <1>3, <1>6, <1>7

LEMMA IndRun ==
    ASSUME IndInv, Run
    PROVE  HandlerInv' /\ PlaceInv' /\ UserInv' /\ WaitListInv' /\ ScanInv'
<1>1. /\ hpc = "run" /\ hpc' = "action"
      /\ UpdateStatus(hevent, RUNNING)
      /\ UNCHANGED <<queue, waitList, userSet, handles, prepared, buffer, hevent>>
  BY DEF Run, HandlerStep
<1>2. hpc \in Busy /\ ~Finished(hevent) /\ RUNNING \in Statuses /\ status[hevent] # COMPLETE
  BY <1>1, StatusFacts DEF Busy, IndInv, HandlerInv, Finished, IsFinished, SUBMITTED, COMPLETE
<1>3. PlaceInv' /\ UserInv' /\ WaitListInv'
  BY <1>1, <1>2, HeadStatusChange
<1>4. /\ status'[hevent] = RUNNING
      /\ \A w \in Events : w # hevent => status'[w] = status[w]
  BY <1>1, <1>2, HeadStatusChange
<1>5. HandlerInv'
  BY <1>1, <1>2, <1>4, HeadFacts, BufferFacts DEF IndInv, HandlerInv, Busy
<1>6. ScanInv'
  <2>1. \A k \in DOMAIN waitList[hevent] :
            waitList[hevent][k] \in Events /\ status[waitList[hevent][k]] = COMPLETE
    BY <1>1, <1>2, HeadFacts DEF IndInv, ScanInv, WaitListInv, Known, TypeOK, Events
  <2> QED
    BY <1>1, <1>2, <1>4, <2>1 DEF ScanInv
<1> QED
  BY <1>3, <1>5, <1>6

LEMMA IndAction ==
    ASSUME IndInv, Action
    PROVE  HandlerInv' /\ PlaceInv' /\ UserInv' /\ WaitListInv' /\ ScanInv'
<1>1. PICK st \in Results : UpdateStatus(hevent, st)
  BY DEF Action
<1>2. /\ hpc = "action" /\ hpc' = "clear"
      /\ UNCHANGED <<queue, waitList, userSet, handles, prepared, buffer, hevent>>
  BY DEF Action, HandlerStep
<1>3. hpc \in Busy /\ ~Finished(hevent) /\ st \in Statuses
  BY <1>2, StatusFacts DEF Busy, IndInv, HandlerInv, Finished, IsFinished, RUNNING, COMPLETE
<1>4. PlaceInv' /\ UserInv' /\ WaitListInv'
  BY <1>1, <1>2, <1>3, HeadStatusChange
<1>5. /\ status'[hevent] = st
      /\ \A w \in Events : w # hevent => status'[w] = status[w]
  BY <1>1, <1>2, <1>3, HeadStatusChange
<1>6. Finished(hevent)'
  BY <1>2, <1>5 DEF Finished, IsFinished, Results, OUT_OF_RESOURCES, COMPLETE
<1>7. HandlerInv'
  BY <1>2, <1>3, <1>5, <1>6, HeadFacts, BufferFacts DEF IndInv, HandlerInv, Busy
<1>8. ScanInv'
  BY <1>2 DEF ScanInv
<1> QED
  BY <1>4, <1>7, <1>8

LEMMA IndClearWaitList ==
    ASSUME IndInv, ClearWaitList
    PROVE  HandlerInv' /\ PlaceInv' /\ UserInv' /\ WaitListInv' /\ ScanInv'
<1>1. /\ hpc = "clear" /\ hpc' = "notify"
      /\ waitList' = [waitList EXCEPT ![hevent] = <<>>]
      /\ UNCHANGED <<status, queue, userSet, handles, prepared, buffer, hevent>>
  BY DEF ClearWaitList, HandlerStep
<1>2. hpc \in Busy /\ DOMAIN <<>> = {}
  BY <1>1 DEF Busy
<1>3. \A d \in Events : waitList'[d] = IF d = hevent THEN <<>> ELSE waitList[d]
  BY <1>1, <1>2, HeadFacts DEF IndInv, TypeOK
<1>4. HandlerInv'
  BY <1>1, <1>2 DEF IndInv, HandlerInv, Finished, Busy
<1>5. PlaceInv' /\ UserInv'
  BY <1>1 DEF IndInv, PlaceInv, UserInv, Finished
<1>6. WaitListInv'
  <2>1. \A d \in Commands : \A k \in DOMAIN waitList'[d] :
            k \in DOMAIN waitList[d] /\ waitList'[d][k] = waitList[d][k]
    BY <1>2, <1>3 DEF Events
  <2>2. \A i \in DOMAIN buffer : buffer[i] \in Commands
    BY BufferFacts DEF IndInv
  <2> QED
    BY <1>1, <2>1, <2>2 DEF IndInv, WaitListInv, Known, Finished
<1>7. ScanInv'
  BY <1>1 DEF ScanInv
<1> QED
  BY <1>4, <1>5, <1>6, <1>7

LEMMA IndNotifyProcessed ==
    ASSUME IndInv, NotifyProcessed
    PROVE  HandlerInv' /\ PlaceInv' /\ UserInv' /\ WaitListInv' /\ ScanInv'
<1>1. UNCHANGED <<status, queue, waitList, userSet, handles, prepared, buffer, hevent>>
  BY DEF NotifyProcessed
<1>2. CASE hpc = "notify" /\ hpc' = "pop"
  <2>1. HandlerInv'
    BY <1>1, <1>2 DEF IndInv, HandlerInv, Finished, Busy
  <2>2. ScanInv'
    BY <1>2 DEF ScanInv
  <2> QED
    BY <1>1, <2>1, <2>2, IndSameStatus
<1>3. CASE hpc = "awake" /\ hpc' = "peek"
  BY <1>1, <1>3, IndBetweenEvents DEF Busy
<1> QED
  BY <1>2, <1>3 DEF NotifyProcessed, HandlerStep

LEMMA IndPop ==
    ASSUME IndInv, Pop
    PROVE  HandlerInv' /\ PlaceInv' /\ UserInv' /\ WaitListInv' /\ ScanInv'
<1>1. /\ hpc = "pop" /\ hpc' = "peek" /\ hpc \in Busy
      /\ buffer' = Tail(buffer)
      /\ UNCHANGED <<status, queue, waitList, userSet, handles, prepared, hevent>>
  BY DEF Pop, HandlerStep, Busy
<1>2. Finished(buffer[1])
  BY <1>1, HeadFacts DEF IndInv, HandlerInv
<1>3. /\ buffer \in Seq(Commands) /\ buffer # <<>>
      /\ Len(buffer) \in Nat \ {0} /\ DOMAIN buffer = 1..Len(buffer)
  BY <1>1, BufferFacts DEF IndInv, TypeOK, HandlerInv
<1>4. /\ DOMAIN buffer' = 1..(Len(buffer) - 1)
      /\ \A i \in DOMAIN buffer' : i + 1 \in DOMAIN buffer /\ buffer'[i] = buffer[i + 1]
  BY <1>1, <1>3
<1>5. HandlerInv'
  <2>1. \A i \in DOMAIN buffer' : status'[buffer'[i]] = QUEUED
    BY <1>1, <1>3, <1>4 DEF IndInv, HandlerInv
  <2>2. buffer' # <<>> => 1 \in DOMAIN buffer'
    BY <1>1, <1>3
  <2> QED
    BY <1>1, <2>1, <2>2 DEF HandlerInv, Busy
<1>6. PlaceInv'
  <2>1. \A i, j \in DOMAIN buffer' : buffer'[i] = buffer'[j] => i = j
    BY <1>3, <1>4 DEF IndInv, PlaceInv
  <2>2. ASSUME NEW d \in Commands, queue[d] # NONE, d \notin prepared, ~Finished(d)
        PROVE  \E i \in DOMAIN buffer' : buffer'[i] = d
    <3>1. PICK j \in DOMAIN buffer : buffer[j] = d
      BY <2>2 DEF IndInv, PlaceInv
    <3>2. j # 1
      BY <1>2, <2>2, <3>1
    <3>3. j - 1 \in DOMAIN buffer' /\ buffer'[j - 1] = d
      BY <1>3, <1>4, <3>1, <3>2
    <3> QED
      BY <3>3
  <2> QED
    BY <1>1, <1>4, <2>1, <2>2 DEF IndInv, PlaceInv, Finished
<1>7. UserInv'
  BY <1>1 DEF IndInv, UserInv
<1>8. WaitListInv'
  <2>1. ASSUME NEW i \in DOMAIN buffer', NEW k \in DOMAIN waitList[buffer'[i]],
               waitList[buffer'[i]][k] \notin UserEvents,
               ~Finished(waitList[buffer'[i]][k])
        PROVE  \E j \in DOMAIN buffer' : j < i /\ buffer'[j] = waitList[buffer'[i]][k]
    <3>1. PICK j \in DOMAIN buffer : j < i + 1 /\ buffer[j] = waitList[buffer[i + 1]][k]
      BY <1>4, <2>1 DEF IndInv, WaitListInv
    <3>2. j # 1
      BY <1>2, <1>4, <2>1, <3>1
    <3>3. j - 1 \in DOMAIN buffer' /\ j - 1 < i /\ buffer'[j - 1] = buffer[j]
      BY <1>3, <1>4, <3>1, <3>2
    <3> QED
      BY <1>4, <3>1, <3>3
  <2> QED
    BY <1>1, <2>1 DEF IndInv, WaitListInv, Known, Finished
<1>9. ScanInv'
  BY <1>1 DEF ScanInv
<1> QED
  BY <1>5, <1>6, <1>7, <1>8, <1>9

LEMMA IndStep == IndInv /\ [Next]_vars => IndInv'
<1> SUFFICES ASSUME IndInv, [Next]_vars
             PROVE  IndInv'
  OBVIOUS
<1>1. TypeOK'
  <2>1. TypeInv
    BY DEF IndInv, HandlerInv, TypeInv
  <2> QED
    BY <2>1, TypeStep DEF TypeInv
<1> SUFFICES HandlerInv' /\ PlaceInv' /\ UserInv' /\ WaitListInv' /\ ScanInv'
  BY <1>1 DEF IndInv
<1>2. CASE Application
  <2>1. ASSUME NEW c \in Callbacks, NEW e \in Events, NEW type \in CallbackTypes,
               SetEventCallback(c, e, type)
        PROVE  HandlerInv' /\ PlaceInv' /\ UserInv' /\ WaitListInv' /\ ScanInv'
    <3>1. UNCHANGED <<status, queue, waitList, userSet, handles, prepared, buffer>>
      BY <2>1 DEF SetEventCallback
    <3>2. UNCHANGED <<hpc, hevent, hidx>>
      BY <2>1 DEF SetEventCallback, handlerVars
    <3>3. HandlerInv' /\ ScanInv'
      BY <3>1, <3>2 DEF IndInv, HandlerInv, ScanInv, Finished
    <3> QED
      BY <3>1, <3>3, IndSameStatus
  <2> QED
    BY <1>2, <2>1, IndEnqueue, IndPush, IndSetUserEventStatus DEF Application
<1>3. CASE Handler
  <2>1. CASE Sleep \/ Timeout
    BY <2>1, IndBetweenEvents DEF Sleep, Timeout, HandlerStep, Busy
  <2> QED
    BY <1>3, <2>1, IndPeek, IndSubmit, IndScan, IndAbort, IndRun, IndAction,
       IndClearWaitList, IndNotifyProcessed, IndPop
    DEF Handler
<1>4. CASE UNCHANGED vars
  <2>1. UNCHANGED <<status, queue, waitList, userSet, handles, prepared, buffer>>
    BY <1>4 DEF vars
  <2>2. UNCHANGED <<hpc, hevent, hidx>>
    BY <1>4 DEF vars
  <2>3. HandlerInv' /\ ScanInv'
    BY <2>1, <2>2 DEF IndInv, HandlerInv, ScanInv, Finished
  <2> QED
    BY <2>1, <2>3, IndSameStatus
<1> QED
  BY <1>2, <1>3, <1>4 DEF Next

\* What all safety theorems rest on: the invariant holds in every state.
LEMMA Invariance == Spec => []IndInv
  BY IndInit, IndStep, PTL DEF Spec

-----------------------------------------------------------------------------
(* Safety *)

\* Commands finish in the order they were pushed to the one event buffer.
THEOREM ExecutionInOrder == Spec => []InOrder
<1>1. IndInv => InOrder
  <2> SUFFICES ASSUME IndInv PROVE InOrder
    OBVIOUS
  <2>1. DOMAIN buffer = 1..Len(buffer) /\ Len(buffer) \in Nat
    BY BufferFacts DEF IndInv
  <2>2. \A i, j \in DOMAIN buffer : i < j =>
            buffer[i] # buffer[j] /\ status[buffer[j]] = QUEUED
    BY <2>1 DEF IndInv, PlaceInv, HandlerInv
  <2>3. \A e \in Commands : queue[e] # NONE => e \in prepared \cup Range(buffer) \/ Finished(e)
    BY DEF IndInv, PlaceInv, Range
  <2> QED
    BY <2>2, <2>3 DEF InOrder
<1> QED
  BY <1>1, Invariance, PTL

\* No command waits for one behind it, so waiting cannot be circular.
THEOREM NoCircularWait == Spec => []WaitListsPointBackwards
<1>1. IndInv => WaitListsPointBackwards
  BY DEF IndInv, WaitListInv, WaitListsPointBackwards, WaitsFor, Range
<1> QED
  BY <1>1, Invariance, PTL

\* While a command runs, all it waited for is complete.
THEOREM WaitListRespected == Spec => []RunsAfterWaitList
<1>1. IndInv => RunsAfterWaitList
  <2> SUFFICES ASSUME IndInv, NEW e \in Commands, status[e] = RUNNING,
                      NEW w \in WaitsFor(e)
               PROVE  status[w] = COMPLETE
    BY DEF RunsAfterWaitList
  <2>1. status[e] \notin {QUEUED, SUBMITTED} /\ ~Finished(e)
    BY DEF QUEUED, SUBMITTED, RUNNING, COMPLETE, Finished, IsFinished
  <2>2. PICK i \in DOMAIN buffer : buffer[i] = e
    BY <2>1 DEF IndInv, PlaceInv
  <2>3. i = 1 /\ buffer # <<>>
    BY <2>1, <2>2, BufferFacts DEF IndInv, HandlerInv
  <2>4. hpc \in Busy /\ hevent = e
    BY <2>1, <2>2, <2>3 DEF IndInv, HandlerInv
  <2>5. hpc = "action"
    BY <2>1, <2>4 DEF IndInv, HandlerInv, Busy
  <2> QED
    BY <2>4, <2>5 DEF IndInv, ScanInv, WaitsFor, Range
<1> QED
  BY <1>1, Invariance, PTL

\* No step changes the status of a finished event, or moves a status back.
LEMMA StatusStep ==
    ASSUME IndInv, [Next]_vars
    PROVE  \A e \in Events : status'[e] # status[e] => ~Finished(e) /\ status'[e] < status[e]
<1> SUFFICES ASSUME NEW e \in Events, status'[e] # status[e]
             PROVE  ~Finished(e) /\ status'[e] < status[e]
  OBVIOUS
<1> USE DEF Finished, IsFinished, QUEUED, SUBMITTED, RUNNING, COMPLETE
<1>0. TypeOK
  BY DEF IndInv
<1>1. ASSUME NEW d \in Events, NEW st \in Results, SetUserEventStatus(d, st)
      PROVE  ~Finished(e) /\ status'[e] < status[e]
  <2>1. d \in UserEvents /\ ~userSet[d] /\ status' = [status EXCEPT ![d] = st]
    BY <1>1 DEF SetUserEventStatus
  <2>2. status[d] = SUBMITTED
    BY <2>1 DEF IndInv, UserInv
  <2> QED
    BY <1>0, <2>1, <2>2 DEF TypeOK, Results, OUT_OF_RESOURCES
<1>2. ASSUME hpc \in Busy, NEW st \in Statuses, UpdateStatus(hevent, st),
             st # status[hevent] => ~Finished(hevent) /\ st < status[hevent]
      PROVE  ~Finished(e) /\ status'[e] < status[e]
  BY <1>0, <1>2 DEF TypeOK, UpdateStatus
<1>3. CASE Submit
  <2>1. hpc = "submit" /\ status[hevent] \in {QUEUED, SUBMITTED} /\ UpdateStatus(hevent, SUBMITTED)
    BY <1>3 DEF Submit, HandlerStep, IndInv, HandlerInv
  <2> QED
    BY <1>2, <2>1, StatusFacts DEF Busy
<1>4. CASE Abort
  <2>1. hpc = "abort" /\ status[hevent] = SUBMITTED
        /\ UpdateStatus(hevent, ERROR_FOR_EVENTS_IN_WAIT_LIST)
    BY <1>4 DEF Abort, HandlerStep, IndInv, HandlerInv
  <2> QED
    BY <1>2, <2>1, StatusFacts DEF Busy, ERROR_FOR_EVENTS_IN_WAIT_LIST
<1>5. CASE Run
  <2>1. hpc = "run" /\ status[hevent] = SUBMITTED /\ UpdateStatus(hevent, RUNNING)
    BY <1>5 DEF Run, HandlerStep, IndInv, HandlerInv
  <2> QED
    BY <1>2, <2>1, StatusFacts DEF Busy
<1>6. CASE Action
  <2>1. PICK st \in Results : hpc = "action" /\ status[hevent] = RUNNING /\ UpdateStatus(hevent, st)
    BY <1>6 DEF Action, HandlerStep, IndInv, HandlerInv
  <2> QED
    BY <1>2, <2>1, StatusFacts DEF Busy, Results, OUT_OF_RESOURCES
<1>7. CASE Peek \/ Scan \/ ClearWaitList \/ NotifyProcessed \/ Pop \/ Sleep \/ Timeout
  BY <1>7 DEF Peek, Scan, ClearWaitList, NotifyProcessed, Pop, Sleep, Timeout
<1>8. CASE UNCHANGED vars
  BY <1>8 DEF vars
<1>9. CASE Application
  <2>1. ASSUME NEW d \in Commands, NEW q \in Queues, Enqueue(d, q)
        PROVE  FALSE
    BY <2>1 DEF Enqueue
  <2>2. ASSUME NEW d \in Commands, Push(d)
        PROVE  FALSE
    BY <2>2 DEF Push
  <2>3. ASSUME NEW c \in Callbacks, NEW d \in Events, NEW type \in CallbackTypes,
               SetEventCallback(c, d, type)
        PROVE  FALSE
    BY <2>3 DEF SetEventCallback
  <2> QED
    BY <1>1, <1>9, <2>1, <2>2, <2>3 DEF Application
<1> QED
  BY <1>3, <1>4, <1>5, <1>6, <1>7, <1>8, <1>9 DEF Next, Handler

\* A status only moves forward and an end is final, for command events and user
\* events alike.
THEOREM StatusOnlyAdvances == Spec => StatusAdvances
<1>1. IndInv /\ [Next]_vars =>
          [\A e \in Events : status'[e] # status[e] => ~Finished(e) /\ status'[e] < status[e]]_vars
  BY StatusStep
<1> QED
  BY <1>1, Invariance, PTL DEF Spec, StatusAdvances

\* CallbackCalledOnce with what registering a callback relies on.
CallbackInv ==
    /\ CallbackCalledOnce
    /\ \A c \in Callbacks : registered[c].event = NONE => calls[c] = <<>>

\* The type of a callback is passed at most once by a status that only decreases.
LEMMA CallbackUpdate ==
    ASSUME TypeOK, CallbackInv, NEW e \in Events, NEW st \in Statuses,
           UpdateStatus(e, st), st <= status[e]
    PROVE  CallbackInv'
<1>1. /\ status' = [status EXCEPT ![e] = st]
      /\ calls' = FireCallbacks(e, status[e], st) /\ registered' = registered
  BY DEF UpdateStatus
<1>2. e # NONE /\ st \in Int /\ status[e] \in Int
  BY StatusFacts, EventQueueAssumption DEF TypeOK
<1> SUFFICES ASSUME NEW c \in Callbacks
             PROVE  /\ registered[c].event \in Commands =>
                         Len(calls'[c]) =
                             IF status'[registered[c].event] <= registered[c].type THEN 1 ELSE 0
                    /\ registered[c].event = NONE => calls'[c] = <<>>
  BY <1>1 DEF CallbackInv, CallbackCalledOnce
<1>3. calls[c] \in Seq(Statuses) /\ Len(Append(calls[c], st)) = Len(calls[c]) + 1
  BY AppendProperties DEF TypeOK
<1>4. registered[c].type \in Int
  BY StatusFacts DEF TypeOK
<1>5. calls'[c] = IF registered[c].event = e /\ status[e] > registered[c].type
                     /\ st <= registered[c].type
                  THEN Append(calls[c], st) ELSE calls[c]
  BY <1>1 DEF FireCallbacks
<1>6. CASE registered[c].event = e
  <2>1. status'[e] = st
    BY <1>1 DEF TypeOK
  <2>2. e \in Commands =>
            Len(calls[c]) = IF status[e] <= registered[c].type THEN 1 ELSE 0
    BY <1>6 DEF CallbackInv, CallbackCalledOnce
  <2> QED
    BY <1>2, <1>3, <1>4, <1>5, <1>6, <2>1, <2>2
<1>7. CASE registered[c].event # e
  <2>1. calls'[c] = calls[c]
    BY <1>5, <1>7
  <2>2. registered[c].event \in Commands => status'[registered[c].event] = status[registered[c].event]
    BY <1>1, <1>7 DEF TypeOK, Events
  <2> QED
    BY <2>1, <2>2 DEF CallbackInv, CallbackCalledOnce
<1> QED
  BY <1>6, <1>7

LEMMA CallbackStep == IndInv /\ CallbackInv /\ [Next]_vars => CallbackInv'
<1> SUFFICES ASSUME IndInv, CallbackInv, [Next]_vars
             PROVE  CallbackInv'
  OBVIOUS
<1>1. TypeOK
  BY DEF IndInv
<1>2. ASSUME NEW st \in Statuses, hpc \in Busy, UpdateStatus(hevent, st)
      PROVE  CallbackInv'
  <2>1. hevent \in Events /\ status'[hevent] = st
    BY <1>1, <1>2, HeadFacts DEF UpdateStatus, TypeOK
  <2>2. st <= status[hevent]
    <3>1. st \in Int /\ status[hevent] \in Int
      BY <1>1, <2>1, StatusFacts DEF TypeOK
    <3>2. status'[hevent] # status[hevent] => status'[hevent] < status[hevent]
      BY <2>1, StatusStep
    <3> QED
      BY <2>1, <3>1, <3>2
  <2> QED
    BY <1>1, <1>2, <2>1, <2>2, CallbackUpdate
<1>3. CASE Submit \/ Abort \/ Run \/ Action
  <2>1. hpc \in Busy /\ \E st \in Statuses : UpdateStatus(hevent, st)
    BY <1>3, StatusFacts DEF Submit, Abort, Run, Action, HandlerStep, Busy
  <2> QED
    BY <1>2, <2>1
<1>4. ASSUME UNCHANGED <<registered, calls>>, \A e \in Commands : status'[e] = status[e]
      PROVE  CallbackInv'
  BY <1>4 DEF CallbackInv, CallbackCalledOnce
<1>5. ASSUME NEW d \in Events, NEW st \in Results, SetUserEventStatus(d, st)
      PROVE  CallbackInv'
  <2>1. /\ d \in UserEvents /\ status' = [status EXCEPT ![d] = st]
        /\ UNCHANGED <<registered, calls>>
    BY <1>5 DEF SetUserEventStatus, callbackVars
  <2>2. \A e \in Commands : status'[e] = status[e]
    BY <1>1, <2>1, EventQueueAssumption DEF TypeOK, Events
  <2> QED
    BY <1>4, <2>1, <2>2
<1>6. ASSUME NEW c \in Callbacks, NEW e \in Events, NEW type \in CallbackTypes,
             SetEventCallback(c, e, type)
      PROVE  CallbackInv'
  <2>1. /\ registered[c].event = NONE /\ calls[c] = <<>> /\ status' = status
        /\ registered' = [registered EXCEPT ![c] = [event |-> e, type |-> type]]
        /\ e # NONE
    BY <1>6, EventQueueAssumption DEF SetEventCallback, CallbackInv
  <2>2. \A d \in Callbacks : d # c =>
            registered'[d] = registered[d] /\ calls'[d] = calls[d]
    BY <1>1, <1>6 DEF SetEventCallback, TypeOK
  <2>3. registered'[c].event = e /\ registered'[c].type = type
    BY <1>1, <2>1 DEF TypeOK
  <2>4. Len(calls'[c]) = IF status[e] <= type THEN 1 ELSE 0
    <3>1. status[e] \in Int /\ type \in Int
      BY <1>1, StatusFacts DEF TypeOK
    <3>2. CASE status[e] > type
      BY <1>6, <2>1, <3>1, <3>2 DEF SetEventCallback
    <3>3. CASE status[e] <= type
      <4> DEFINE st == IF status[e] < 0 THEN status[e] ELSE type
      <4>1. calls' = [calls EXCEPT ![c] = Append(calls[c], st)]
        BY <1>6, <3>1, <3>3 DEF SetEventCallback
      <4>2. calls'[c] = Append(<<>>, st)
        BY <1>1, <2>1, <4>1 DEF TypeOK
      <4> QED
        BY <3>3, <4>2
    <3> QED
      BY <3>1, <3>2, <3>3
  <2> QED
    BY <2>1, <2>2, <2>3, <2>4 DEF CallbackInv, CallbackCalledOnce
<1>7. CASE Peek \/ Scan \/ ClearWaitList \/ NotifyProcessed \/ Pop \/ Sleep \/ Timeout
  BY <1>4, <1>7 DEF Peek, Scan, ClearWaitList, NotifyProcessed, Pop, Sleep, Timeout, callbackVars
<1>8. CASE UNCHANGED vars
  BY <1>4, <1>8 DEF vars
<1>9. ASSUME NEW e \in Commands, (\E q \in Queues : Enqueue(e, q)) \/ Push(e)
      PROVE  CallbackInv'
  BY <1>4, <1>9 DEF Enqueue, Push, callbackVars
<1> QED
  BY <1>3, <1>5, <1>6, <1>7, <1>8, <1>9 DEF Next, Application, Handler

\* A callback on a command event is called exactly once when its status is
\* reached, in whatever order it is registered and the command proceeds.
THEOREM CallbacksCalledOnce == Spec => []CallbackCalledOnce
<1>1. Init => CallbackInv
  BY EventQueueAssumption DEF Init, CallbackInv, CallbackCalledOnce, Events
<1>2. CallbackInv => CallbackCalledOnce
  BY DEF CallbackInv
<1> QED
  BY <1>1, <1>2, CallbackStep, Invariance, PTL DEF Spec

-----------------------------------------------------------------------------
(***************************************************************************)
(* The event queue, with its threads, its locks and its wait lists read    *)
(* one status at a time, only does what OrderedExecution allows: the       *)
(* safety half of the refinement Ordered of EventQueue.                    *)
(***************************************************************************)


Pending == IF buffer # <<>> /\ Finished(Head(buffer)) THEN Tail(buffer) ELSE buffer

Active(e) == AbstractState(e) \in {"waiting", "running"}

\* Only commands have wait lists.
UserLists == \A u \in UserEvents : waitList[u] = <<>>

RefInv == IndInv /\ UserLists

-----------------------------------------------------------------------------
(* The abstract state of an event *)

LEMMA Numbers ==
    /\ QUEUED = 3 /\ SUBMITTED = 2 /\ RUNNING = 1 /\ COMPLETE = 0
    /\ ERROR_FOR_EVENTS_IN_WAIT_LIST < 0
    /\ \A st \in Results : st = COMPLETE \/ st < 0
    /\ \A st \in Statuses : st \in Int
  BY DEF QUEUED, SUBMITTED, RUNNING, COMPLETE, ERROR_FOR_EVENTS_IN_WAIT_LIST, Results,
         Statuses, Errors, OUT_OF_RESOURCES

\* What the abstract state of an event says of its status, and the other way.
LEMMA AbstractFacts ==
    ASSUME TypeOK, NEW e \in Events
    PROVE  /\ AbstractState(e) = "complete" <=> status[e] = COMPLETE
           /\ AbstractState(e) = "failed" <=> status[e] < 0
           /\ AbstractState(e) = "running" <=> status[e] = RUNNING
           /\ Finished(e) <=> AbstractState(e) \in {"complete", "failed"}
           /\ Finished(e) => ~Active(e)
           /\ ~Finished(e) <=> AbstractState(e) \in {"fresh", "waiting", "running"}
<1>1. status[e] \in {QUEUED, SUBMITTED, RUNNING, COMPLETE} \cup Errors
  BY DEF TypeOK, Statuses
<1>2. status[e] \in Int
  BY StatusFacts DEF TypeOK
<1> QED
  BY <1>1, <1>2, Numbers DEF AbstractState, Active, Finished, IsFinished

\* A command nobody has pushed is fresh, and nothing the application can name is.
LEMMA FreshFacts ==
    ASSUME IndInv
    PROVE  /\ \A e \in prepared : AbstractState(e) = "fresh"
           /\ \A e \in Commands : queue[e] = NONE => AbstractState(e) = "fresh"
           /\ \A e \in Known : e \in Events /\ AbstractState(e) # "fresh"
<1>1. TypeOK
  BY DEF IndInv
<1>2. \A e \in prepared : e \in Commands /\ status[e] = QUEUED
  BY <1>1 DEF IndInv, PlaceInv, TypeOK
<1>3. \A e \in Commands : queue[e] = NONE => status[e] = QUEUED
  BY DEF IndInv, PlaceInv
<1>4. \A e \in handles : e \in Commands /\ queue[e] # NONE /\ e \notin prepared
  BY <1>1 DEF IndInv, PlaceInv, TypeOK
<1>5. \A e \in Known : e \in Events /\ ~(e \in Commands /\ (queue[e] = NONE \/ e \in prepared))
  BY <1>4, EventQueueAssumption DEF Known, Events
<1> QED
  BY <1>2, <1>3, <1>5, Numbers DEF AbstractState

\* The head of the buffer is waiting until it is run.
LEMMA HeadState ==
    ASSUME IndInv, hpc \in Busy
    PROVE  /\ Head(buffer) = hevent /\ buffer # <<>>
           /\ status[hevent] \in {QUEUED, SUBMITTED} => AbstractState(hevent) = "waiting"
<1>1. TypeOK /\ buffer \in Seq(Commands) /\ buffer # <<>>
  BY HeadFacts, BufferFacts DEF IndInv, TypeOK
<1>2. Head(buffer) = hevent
  BY <1>1, HeadFacts, HeadTailProperties
<1> QED
  BY <1>1, <1>2, HeadFacts, Numbers DEF AbstractState

\* Events whose status and place stay the same keep their abstract state.
LEMMA SameState ==
    ASSUME NEW e \in Events, status'[e] = status[e], queue'[e] = queue[e],
           e \in prepared' <=> e \in prepared
    PROVE  AbstractState(e)' = AbstractState(e)
  BY DEF AbstractState

\* A step that changes nothing the mapping looks at is a stuttering step.
LEMMA Stutters ==
    ASSUME \A e \in Events : AbstractState(e)' = AbstractState(e),
           \A e \in Events : Active(e) => waitList'[e] = waitList[e],
           Pending' = Pending
    PROVE  UNCHANGED Ordered!vars
<1>1. [e \in Events |-> AbstractState(e)]' = [e \in Events |-> AbstractState(e)]
  OBVIOUS
<1>2. \A e \in Events : (IF Active(e) THEN WaitsFor(e) ELSE {})'
                          = IF Active(e) THEN WaitsFor(e) ELSE {}
  BY DEF Active, WaitsFor, Range
<1> QED
  BY <1>1, <1>2 DEF Ordered!vars, Pending, Active

-----------------------------------------------------------------------------
(* The invariant of the mapping *)

LEMMA RefInit == Init => RefInv /\ Ordered!Init
<1> SUFFICES ASSUME Init PROVE RefInv /\ Ordered!Init
  OBVIOUS
<1>1. IndInv /\ TypeOK
  BY IndInit DEF IndInv
<1>2. UserLists
  BY DEF Init, UserLists, Events
<1>3. \A e \in Events : AbstractState(e) = IF e \in UserEvents THEN "waiting" ELSE "fresh"
  BY Numbers, EventQueueAssumption DEF Init, AbstractState, Events
<1>4. \A e \in Events : (IF Active(e) THEN WaitsFor(e) ELSE {}) = {}
  BY DEF Init, WaitsFor, Range
<1>5. Pending = <<>>
  BY DEF Init, Pending
<1> QED
  BY <1>1, <1>2, <1>3, <1>4, <1>5 DEF RefInv, Ordered!Init, Ordered!Events, Events, Pending, Active

LEMMA UserListsStep == IndInv /\ UserLists /\ [Next]_vars => UserLists'
<1> SUFFICES ASSUME IndInv, UserLists, [Next]_vars
             PROVE  UserLists'
  OBVIOUS
<1>1. ASSUME NEW e \in Commands, NEW q \in Queues, Enqueue(e, q)
      PROVE  UserLists'
  <2>1. PICK list \in WaitLists : waitList' = [waitList EXCEPT ![e] = list]
    BY <1>1 DEF Enqueue, SetEventWaitList
  <2> QED
    BY <2>1, EventQueueAssumption DEF UserLists, IndInv, TypeOK, Events
<1>2. CASE ClearWaitList
  <2>1. waitList' = [waitList EXCEPT ![hevent] = <<>>]
    BY <1>2 DEF ClearWaitList
  <2> QED
    BY <2>1 DEF UserLists, IndInv, TypeOK, Events
<1>3. CASE waitList' = waitList
  BY <1>3 DEF UserLists
<1>4. ASSUME NEW e \in Events, \/ Push(e)
                               \/ \E st \in Results : SetUserEventStatus(e, st)
                               \/ \E c \in Callbacks, type \in CallbackTypes :
                                      SetEventCallback(c, e, type)
      PROVE  UserLists'
  BY <1>3, <1>4 DEF Push, SetUserEventStatus, SetEventCallback
<1>5. CASE Peek \/ Submit \/ Scan \/ Abort \/ Run \/ Action \/ NotifyProcessed \/ Pop
           \/ Sleep \/ Timeout \/ UNCHANGED vars
  BY <1>3, <1>5 DEF Peek, Submit, Scan, Abort, Run, Action, NotifyProcessed, Pop, Sleep,
                    Timeout, vars
<1> QED
  BY <1>1, <1>2, <1>4, <1>5 DEF Next, Application, Handler, Events

-----------------------------------------------------------------------------
(* Calls of the application *)

\* An event that is prepared for a queue stays fresh until it is pushed.
LEMMA RefEnqueue ==
    ASSUME RefInv, NEW e \in Commands, NEW q \in Queues, Enqueue(e, q)
    PROVE  UNCHANGED Ordered!vars
<1>1. IndInv /\ TypeOK /\ e \in Events
  BY DEF RefInv, IndInv, Events
<1>2. PICK list \in WaitLists : waitList' = [waitList EXCEPT ![e] = list]
  BY DEF Enqueue, SetEventWaitList
<1>3. /\ queue[e] = NONE /\ queue' = [queue EXCEPT ![e] = q]
      /\ prepared' = prepared \cup {e}
      /\ UNCHANGED <<status, buffer>>
  BY DEF Enqueue, EnqueueEvent, PrepareToQueue
<1>4. AbstractState(e) = "fresh" /\ AbstractState(e)' = "fresh"
  <2>1. status[e] = QUEUED
    BY <1>1, <1>3 DEF IndInv, PlaceInv
  <2> QED
    BY <1>3, <2>1, Numbers DEF AbstractState
<1>5. \A d \in Events : d # e => AbstractState(d)' = AbstractState(d)
  BY <1>1, <1>3, SameState DEF TypeOK
<1>6. \A d \in Events : Active(d) => waitList'[d] = waitList[d]
  BY <1>1, <1>2, <1>4 DEF TypeOK, Active
<1>7. Pending' = Pending
  BY <1>3 DEF Pending, Finished
<1> QED
  BY <1>4, <1>5, <1>6, <1>7, Stutters

\* A push accepts the command, which depends on what its wait list names.
LEMMA RefPush ==
    ASSUME RefInv, NEW e \in Commands, Push(e)
    PROVE  Ordered!Accept(e, WaitsFor(e)) /\ WaitsFor(e) \subseteq Events
<1>1. IndInv /\ TypeOK /\ e \in Events /\ buffer \in Seq(Commands)
  BY DEF RefInv, IndInv, TypeOK, Events
<1>2. /\ e \in prepared /\ prepared' = prepared \ {e}
      /\ buffer' = Append(buffer, e)
      /\ UNCHANGED <<status, queue, waitList>>
  BY DEF Push, PushEvent
<1>3. status[e] = QUEUED /\ queue[e] # NONE
  BY <1>1, <1>2 DEF IndInv, PlaceInv
<1>4. AbstractState(e) = "fresh" /\ AbstractState(e)' = "waiting"
  BY <1>2, <1>3, Numbers DEF AbstractState
<1>5. \A d \in Events : d # e => AbstractState(d)' = AbstractState(d)
  BY <1>2, SameState
<1>6. \A d \in WaitsFor(e) : d \in Events /\ AbstractState(d) # "fresh"
  <2>1. \A d \in WaitsFor(e) : d \in Known
    BY <1>1 DEF WaitsFor, Range, IndInv, WaitListInv
  <2> QED
    BY <1>1, <2>1, FreshFacts
<1>7. Pending' = Append(Pending, e)
  <2>1. CASE buffer = <<>>
    <3>1. Head(buffer') = e /\ ~Finished(e)'
      BY <1>1, <1>2, <1>3, <2>1, Numbers, HeadTailAppend DEF Finished, IsFinished
    <3> QED
      BY <1>2, <2>1, <3>1 DEF Pending
  <2>2. CASE buffer # <<>>
    <3>1. /\ Head(buffer') = Head(buffer) /\ buffer' # <<>>
          /\ Tail(buffer') = Append(Tail(buffer), e)
      BY <1>1, <1>2, <2>2, HeadTailAppend, AppendProperties
    <3>2. Finished(Head(buffer))' <=> Finished(Head(buffer))
      BY <1>2, <3>1 DEF Finished
    <3> QED
      BY <1>2, <2>2, <3>1, <3>2 DEF Pending
  <2> QED
    BY <2>1, <2>2
<1>8. [d \in Events |-> AbstractState(d)]'
        = [[d \in Events |-> AbstractState(d)] EXCEPT ![e] = "waiting"]
  BY <1>1, <1>4, <1>5
<1>9. [d \in Events |-> IF Active(d) THEN WaitsFor(d) ELSE {}]'
        = [[d \in Events |-> IF Active(d) THEN WaitsFor(d) ELSE {}] EXCEPT ![e] = WaitsFor(e)]
  <2>1. \A d \in Events : WaitsFor(d)' = WaitsFor(d)
    BY <1>2 DEF WaitsFor, Range
  <2>2. Active(e)' /\ \A d \in Events : d # e => (Active(d)' <=> Active(d))
    BY <1>4, <1>5 DEF Active
  <2> QED
    BY <1>1, <2>1, <2>2
<1> QED
  BY <1>1, <1>4, <1>6, <1>7, <1>8, <1>9 DEF Ordered!Accept, Pending, Active

\* The application ends a user event that has not ended.
LEMMA RefSetUserEventStatus ==
    ASSUME RefInv, NEW u \in Events, NEW st \in Results, SetUserEventStatus(u, st)
    PROVE  u \in UserEvents /\ \E outcome \in Ordered!Outcomes : Ordered!Signal(u, outcome)
<1> DEFINE outcome == IF st = COMPLETE THEN "complete" ELSE "failed"
<1>1. IndInv /\ TypeOK /\ buffer \in Seq(Commands)
  BY DEF RefInv, IndInv, TypeOK
<1>2. /\ u \in UserEvents /\ ~userSet[u]
      /\ status' = [status EXCEPT ![u] = st]
      /\ UNCHANGED <<queue, waitList, prepared, buffer>>
  BY DEF SetUserEventStatus
<1>3. status[u] = SUBMITTED /\ u \notin Commands /\ waitList[u] = <<>>
  BY <1>1, <1>2, EventQueueAssumption DEF RefInv, IndInv, UserInv, UserLists
<1>4. status'[u] = st /\ \A d \in Events : d # u => status'[d] = status[d]
  BY <1>1, <1>2 DEF TypeOK
<1>5. AbstractState(u) = "waiting" /\ AbstractState(u)' = outcome
  BY <1>3, <1>4, Numbers DEF AbstractState
<1>6. \A d \in Events : d # u => AbstractState(d)' = AbstractState(d)
  BY <1>2, <1>4, SameState
<1>7. Pending' = Pending
  <2>1. buffer # <<>> => Head(buffer) \in Commands /\ Head(buffer) \in Events
    BY <1>1, HeadTailProperties DEF Events
  <2> QED
    BY <1>2, <1>3, <1>4, <2>1 DEF Pending, Finished
<1>8. \A d \in Events : (IF Active(d) THEN WaitsFor(d) ELSE {})'
                          = IF Active(d) THEN WaitsFor(d) ELSE {}
  <2>1. \A d \in Events : WaitsFor(d)' = WaitsFor(d)
    BY <1>2 DEF WaitsFor, Range
  <2>2. WaitsFor(u) = {}
    BY <1>3 DEF WaitsFor, Range
  <2>3. \A d \in Events : d # u => (Active(d)' <=> Active(d))
    BY <1>6 DEF Active
  <2> QED
    BY <2>1, <2>2, <2>3
<1>9. [d \in Events |-> AbstractState(d)]'
        = [[d \in Events |-> AbstractState(d)] EXCEPT ![u] = outcome]
  BY <1>5, <1>6
<1>10. outcome \in Ordered!Outcomes
  BY DEF Ordered!Outcomes
<1>11. Ordered!Signal(u, outcome)
  BY <1>5, <1>7, <1>8, <1>9 DEF Ordered!Signal, Pending, Active
<1> QED
  BY <1>2, <1>10, <1>11

-----------------------------------------------------------------------------
(* Steps of the queue handler *)

\* What all steps have in common that change the status of the handler's event
\* and nothing else the mapping looks at.
LEMMA HandlerStatus ==
    ASSUME RefInv, hpc \in Busy, ~Finished(hevent), NEW st \in Statuses,
           UpdateStatus(hevent, st), UNCHANGED <<queue, waitList, prepared, buffer, hevent>>
    PROVE  /\ hevent \in Commands /\ buffer # <<>> /\ Head(buffer) = hevent
           /\ status'[hevent] = st
           /\ \A d \in Events : d # hevent => AbstractState(d)' = AbstractState(d)
           /\ \A d \in Events : WaitsFor(d)' = WaitsFor(d)
           /\ Pending = buffer
           /\ Pending' = IF IsFinished(st) THEN Tail(buffer) ELSE buffer
           /\ queue[hevent] # NONE /\ hevent \notin prepared
<1>1. IndInv /\ TypeOK
  BY DEF RefInv, IndInv
<1>2. status' = [status EXCEPT ![hevent] = st]
  BY DEF UpdateStatus
<1>3. /\ hevent \in Commands /\ hevent \in Events /\ hevent \notin prepared
      /\ queue[hevent] # NONE /\ buffer # <<>> /\ Head(buffer) = hevent
  BY <1>1, HeadFacts, HeadState
<1>4. status'[hevent] = st /\ \A d \in Events : d # hevent => status'[d] = status[d]
  BY <1>1, <1>2, <1>3 DEF TypeOK
<1>5. \A d \in Events : d # hevent => AbstractState(d)' = AbstractState(d)
  BY <1>4, SameState
<1>6. \A d \in Events : WaitsFor(d)' = WaitsFor(d)
  BY DEF WaitsFor, Range
<1>7. Pending = buffer /\ Pending' = IF IsFinished(st) THEN Tail(buffer) ELSE buffer
  BY <1>3, <1>4 DEF Pending, Finished
<1> QED
  BY <1>3, <1>4, <1>5, <1>6, <1>7

\* A submitted command was and is waiting.
LEMMA RefSubmit ==
    ASSUME RefInv, Submit
    PROVE  UNCHANGED Ordered!vars
<1>1. IndInv /\ hpc = "submit" /\ hpc \in Busy
  BY DEF RefInv, Submit, HandlerStep, Busy
<1>2. status[hevent] \in {QUEUED, SUBMITTED} /\ ~Finished(hevent)
  BY <1>1, Numbers DEF IndInv, HandlerInv, Finished, IsFinished
<1>3. UpdateStatus(hevent, SUBMITTED) /\ UNCHANGED <<queue, waitList, prepared, buffer, hevent>>
  BY DEF Submit
<1>4. /\ hevent \in Commands /\ status'[hevent] = SUBMITTED
      /\ queue[hevent] # NONE /\ hevent \notin prepared
      /\ \A d \in Events : d # hevent => AbstractState(d)' = AbstractState(d)
      /\ Pending' = Pending
  BY <1>1, <1>2, <1>3, HandlerStatus, StatusFacts, Numbers DEF IsFinished
<1>5. AbstractState(hevent) = "waiting" /\ AbstractState(hevent)' = "waiting"
  BY <1>1, <1>2, <1>3, <1>4, HeadState, Numbers DEF AbstractState
<1> QED
  BY <1>3, <1>4, <1>5, Stutters

\* A command is started when everything it depends on is complete.
LEMMA RefRun ==
    ASSUME RefInv, Run
    PROVE  hevent \in Commands /\ Ordered!Start(hevent)
<1>1. IndInv /\ TypeOK /\ hpc = "run" /\ hpc \in Busy
  BY DEF RefInv, IndInv, Run, HandlerStep, Busy
<1>2. status[hevent] = SUBMITTED /\ ~Finished(hevent)
  BY <1>1, Numbers DEF IndInv, HandlerInv, Finished, IsFinished
<1>3. UpdateStatus(hevent, RUNNING) /\ UNCHANGED <<queue, waitList, prepared, buffer, hevent>>
  BY DEF Run
<1>4. /\ hevent \in Commands /\ hevent \in Events /\ buffer # <<>> /\ Head(buffer) = hevent
      /\ status'[hevent] = RUNNING
      /\ \A d \in Events : d # hevent => AbstractState(d)' = AbstractState(d)
      /\ \A d \in Events : WaitsFor(d)' = WaitsFor(d)
      /\ Pending = buffer /\ Pending' = Pending
  BY <1>1, <1>2, <1>3, HandlerStatus, StatusFacts, Numbers DEF IsFinished, Events
<1>5. AbstractState(hevent) = "waiting" /\ AbstractState(hevent)' = "running"
  BY <1>1, <1>2, <1>3, <1>4, HeadState, AbstractFacts, Numbers DEF AbstractState
<1>6. \A d \in WaitsFor(hevent) : d \in Events /\ AbstractState(d) = "complete"
  <2>1. \A d \in WaitsFor(hevent) : status[d] = COMPLETE /\ d \in Known
    BY <1>1, <1>4 DEF WaitsFor, Range, IndInv, ScanInv, WaitListInv
  <2> QED
    BY <1>1, <2>1, FreshFacts, AbstractFacts
<1>7. [d \in Events |-> AbstractState(d)]'
        = [[d \in Events |-> AbstractState(d)] EXCEPT ![hevent] = "running"]
  BY <1>3, <1>4, <1>5
<1>8. \A d \in Events : (IF Active(d) THEN WaitsFor(d) ELSE {})'
                          = IF Active(d) THEN WaitsFor(d) ELSE {}
  BY <1>3, <1>4, <1>5 DEF Active
<1>9. Active(hevent)
  BY <1>5 DEF Active
<1> QED
  BY <1>4, <1>5, <1>6, <1>7, <1>8, <1>9 DEF Ordered!Start, Pending, Active

\* However a command ends, it leaves the pending commands and depends on nothing.
LEMMA RefEnds ==
    ASSUME RefInv, hpc \in Busy, ~Finished(hevent), NEW st \in Statuses, IsFinished(st),
           UpdateStatus(hevent, st), UNCHANGED <<queue, waitList, prepared, buffer, hevent>>,
           NEW outcome, outcome = IF st = COMPLETE THEN "complete" ELSE "failed",
           \/ AbstractState(hevent) = "running"
           \/ /\ AbstractState(hevent) = "waiting" /\ outcome = "failed"
              /\ \E d \in WaitsFor(hevent) : d \in Events /\ AbstractState(d) = "failed"
    PROVE  hevent \in Commands /\ outcome \in Ordered!Outcomes /\ Ordered!End(hevent, outcome)
<1>1. /\ hevent \in Commands /\ hevent \in Events /\ buffer # <<>> /\ Head(buffer) = hevent
      /\ status'[hevent] = st
      /\ \A d \in Events : d # hevent => AbstractState(d)' = AbstractState(d)
      /\ \A d \in Events : WaitsFor(d)' = WaitsFor(d)
      /\ Pending = buffer /\ Pending' = Tail(buffer)
  BY HandlerStatus DEF Events
<1>2. AbstractState(hevent)' = outcome /\ ~Active(hevent)'
  BY <1>1, Numbers DEF AbstractState, Active, IsFinished
<1>3. [d \in Events |-> AbstractState(d)]'
        = [[d \in Events |-> AbstractState(d)] EXCEPT ![hevent] = outcome]
  BY <1>1, <1>2
<1>4. [d \in Events |-> IF Active(d) THEN WaitsFor(d) ELSE {}]'
        = [[d \in Events |-> IF Active(d) THEN WaitsFor(d) ELSE {}] EXCEPT ![hevent] = {}]
  BY <1>1, <1>2 DEF Active
<1>5. Active(hevent)
  BY DEF Active
<1>6. outcome \in Ordered!Outcomes
  BY DEF Ordered!Outcomes
<1> QED
  BY <1>1, <1>3, <1>4, <1>5, <1>6 DEF Ordered!End, Pending, Active

\* A command is failed without being run because something it depends on failed.
LEMMA RefAbort ==
    ASSUME RefInv, Abort
    PROVE  hevent \in Commands /\ Ordered!End(hevent, "failed")
<1>1. IndInv /\ TypeOK /\ hpc = "abort" /\ hpc \in Busy
  BY DEF RefInv, IndInv, Abort, HandlerStep, Busy
<1>2. status[hevent] = SUBMITTED /\ ~Finished(hevent)
  BY <1>1, Numbers DEF IndInv, HandlerInv, Finished, IsFinished
<1>3. /\ UpdateStatus(hevent, ERROR_FOR_EVENTS_IN_WAIT_LIST)
      /\ UNCHANGED <<queue, waitList, prepared, buffer, hevent>>
      /\ ERROR_FOR_EVENTS_IN_WAIT_LIST \in Statuses
      /\ IsFinished(ERROR_FOR_EVENTS_IN_WAIT_LIST)
      /\ ERROR_FOR_EVENTS_IN_WAIT_LIST # COMPLETE
  BY StatusFacts, Numbers DEF Abort, IsFinished
<1>4. AbstractState(hevent) = "waiting"
  BY <1>1, <1>2, HeadState
<1>5. \E d \in WaitsFor(hevent) : d \in Events /\ AbstractState(d) = "failed"
  <2>1. \E d \in WaitsFor(hevent) : status[d] < 0 /\ d \in Known
    BY <1>1, HeadFacts DEF WaitsFor, Range, IndInv, ScanInv, WaitListInv
  <2> QED
    BY <1>1, <2>1, FreshFacts, AbstractFacts
<1> QED
  BY <1>1, <1>2, <1>3, <1>4, <1>5, RefEnds

\* A running command ends with what its action returned.
LEMMA RefAction ==
    ASSUME RefInv, Action
    PROVE  hevent \in Commands /\ \E outcome \in Ordered!Outcomes : Ordered!End(hevent, outcome)
<1>1. IndInv /\ TypeOK /\ hpc = "action" /\ hpc \in Busy
  BY DEF RefInv, IndInv, Action, HandlerStep, Busy
<1>2. status[hevent] = RUNNING /\ ~Finished(hevent) /\ hevent \in Events
  BY <1>1, Numbers, HeadFacts DEF IndInv, HandlerInv, Finished, IsFinished
<1>3. PICK st \in Results : UpdateStatus(hevent, st)
  BY DEF Action
<1>4. st \in Statuses /\ IsFinished(st) /\ UNCHANGED <<queue, waitList, prepared, buffer, hevent>>
  BY <1>3, StatusFacts, Numbers DEF Action, IsFinished
<1>5. AbstractState(hevent) = "running"
  BY <1>1, <1>2, AbstractFacts
<1> QED
  BY <1>1, <1>2, <1>3, <1>4, <1>5, RefEnds

\* The wait list of a finished command is not looked at any more.
LEMMA RefClearWaitList ==
    ASSUME RefInv, ClearWaitList
    PROVE  UNCHANGED Ordered!vars
<1>1. IndInv /\ TypeOK /\ hpc = "clear" /\ hpc \in Busy
  BY DEF RefInv, IndInv, ClearWaitList, HandlerStep, Busy
<1>2. Finished(hevent) /\ hevent \in Events
  BY <1>1, HeadFacts DEF IndInv, HandlerInv
<1>3. /\ waitList' = [waitList EXCEPT ![hevent] = <<>>]
      /\ UNCHANGED <<status, queue, prepared, buffer>>
  BY DEF ClearWaitList
<1>4. \A d \in Events : Active(d) => waitList'[d] = waitList[d]
  BY <1>1, <1>2, <1>3, AbstractFacts DEF TypeOK
<1>5. \A d \in Events : AbstractState(d)' = AbstractState(d)
  BY <1>3, SameState
<1>6. Pending' = Pending
  BY <1>3 DEF Pending, Finished
<1> QED
  BY <1>4, <1>5, <1>6, Stutters

\* The finished head of the buffer has left the pending commands before.
LEMMA RefPop ==
    ASSUME RefInv, Pop
    PROVE  UNCHANGED Ordered!vars
<1>1. IndInv /\ TypeOK /\ hpc = "pop" /\ hpc \in Busy /\ buffer \in Seq(Commands)
  BY DEF RefInv, IndInv, TypeOK, Pop, HandlerStep, Busy
<1>2. buffer' = Tail(buffer) /\ UNCHANGED <<status, queue, waitList, prepared>>
  BY DEF Pop
<1>3. buffer # <<>> /\ Finished(Head(buffer))
  BY <1>1, HeadState DEF IndInv, HandlerInv
<1>4. buffer' # <<>> => ~Finished(Head(buffer))'
  <2> SUFFICES ASSUME buffer' # <<>> PROVE ~Finished(Head(buffer))'
    OBVIOUS
  <2>1. 2 \in DOMAIN buffer /\ Head(buffer') = buffer[2]
    BY <1>1, <1>2, <1>3, HeadTailProperties, EmptySeq
  <2>2. status[buffer[2]] = QUEUED
    BY <1>1, <2>1 DEF IndInv, HandlerInv
  <2> QED
    BY <1>2, <2>1, <2>2, Numbers DEF Finished, IsFinished
<1>5. Pending' = Pending
  BY <1>2, <1>3, <1>4 DEF Pending
<1>6. \A d \in Events : AbstractState(d)' = AbstractState(d)
  BY <1>2, SameState
<1> QED
  BY <1>2, <1>5, <1>6, Stutters

\* Steps that only concern the threads or the callbacks.
LEMMA RefSame ==
    ASSUME UNCHANGED <<status, queue, waitList, prepared, buffer>>
    PROVE  UNCHANGED Ordered!vars
<1>1. \A d \in Events : AbstractState(d)' = AbstractState(d)
  BY SameState
<1>2. Pending' = Pending
  BY DEF Pending, Finished
<1> QED
  BY <1>1, <1>2, Stutters

-----------------------------------------------------------------------------
(* The refinement *)

\* Every step of the event queue is a step of OrderedExecution or changes
\* nothing of it.
LEMMA RefStep == RefInv /\ [Next]_vars => [Ordered!Next]_(Ordered!vars)
<1> SUFFICES ASSUME RefInv, [Next]_vars
             PROVE  [Ordered!Next]_(Ordered!vars)
  OBVIOUS
<1>1. ASSUME NEW e \in Commands, NEW q \in Queues, Enqueue(e, q)
      PROVE  UNCHANGED Ordered!vars
  BY <1>1, RefEnqueue DEF RefInv
<1>2. ASSUME NEW e \in Commands, Push(e)
      PROVE  Ordered!Next
  BY <1>2, RefPush DEF Ordered!Next, Ordered!Events, Events
<1>3. ASSUME NEW u \in Events, NEW st \in Results, SetUserEventStatus(u, st)
      PROVE  Ordered!Next
  BY <1>3, RefSetUserEventStatus DEF Ordered!Next
<1>4. ASSUME NEW c \in Callbacks, NEW e \in Events, NEW type \in CallbackTypes,
             SetEventCallback(c, e, type)
      PROVE  UNCHANGED Ordered!vars
  BY <1>4, RefSame DEF SetEventCallback
<1>5. CASE Run
  BY <1>5, RefRun DEF Ordered!Next, Ordered!Execute
<1>6. CASE Abort
  <2>1. "failed" \in Ordered!Outcomes
    BY DEF Ordered!Outcomes
  <2> QED
    BY <1>6, <2>1, RefAbort DEF Ordered!Next, Ordered!Execute
<1>7. CASE Action
  BY <1>7, RefAction DEF Ordered!Next, Ordered!Execute
<1>8. CASE Submit \/ ClearWaitList \/ Pop
  BY <1>8, RefSubmit, RefClearWaitList, RefPop
<1>9. CASE Peek \/ Scan \/ NotifyProcessed \/ Sleep \/ Timeout \/ UNCHANGED vars
  BY <1>9, RefSame DEF Peek, Scan, NotifyProcessed, Sleep, Timeout, vars
<1> QED
  BY <1>1, <1>2, <1>3, <1>4, <1>5, <1>6, <1>7, <1>8, <1>9 DEF Next, Application, Handler

\* Whatever the application and the handler thread do, the statuses of the
\* events change as if the commands were accepted, started and ended one by one
\* in the order of acceptance.
THEOREM ImplementsOrder == Spec => Ordered!Init /\ [][Ordered!Next]_(Ordered!vars)
<1>1. Init => UserLists
  BY RefInit DEF RefInv
<1>2. Spec => []UserLists
  BY <1>1, UserListsStep, Invariance, PTL DEF Spec
<1>3. Spec => []RefInv
  BY <1>2, Invariance, PTL DEF RefInv
<1>4. Init => Ordered!Init
  BY RefInit
<1> QED
  BY <1>3, <1>4, RefStep, PTL DEF Spec

=============================================================================
