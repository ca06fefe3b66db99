-------------------------- MODULE EventClientsProofs --------------------------
(***************************************************************************)
(* Proofs about what uses the events of EventQueue: the threads that block *)
(* on events and command queues (EventWaiters), for any number of them,    *)
(* what the return of clWaitForEvents and of clFinish promises; and the    *)
(* references to events and queues (ObjectLifetime), for any number of     *)
(* commands, user events, queues and callbacks and wait lists of any       *)
(* length: the counts are exact, and nothing still in use is destroyed.    *)
(***************************************************************************)
EXTENDS EventWaiters, ObjectLifetime, EventQueueProofs, FiniteSetTheorems

-----------------------------------------------------------------------------
(* Threads that wait *)

Frame == [event : Events, rest : Seq(Events)]

WaiterTypeInv ==
    /\ wpc \in [Waiters -> {"idle", "wait", "blocking", "asleep", "finish"}]
    /\ target \in [Waiters -> [events : Seq(Events), queue : Queues \cup {NONE}]]
    /\ rest \in [Waiters -> Seq(Events)]
    /\ frames \in [Waiters -> Seq(Frame)]
    /\ failed \in [Waiters -> BOOLEAN]
    /\ before \in [Waiters -> SUBSET Commands]

\* Of the events a call of clWaitForEvents was given, each has still to be waited
\* for, or is being waited for by the outermost waitFor, or is complete.
WaitProgress(t) ==
    wpc[t] # "idle" /\ target[t].queue = NONE /\ ~failed[t] =>
        \A e \in Range(target[t].events) :
            \/ e \in Range(rest[t])
            \/ frames[t] # <<>> /\ frames[t][1].event = e
            \/ status[e] = COMPLETE

\* The commands clFinish found when it began stay commands of its queue that were
\* pushed; so those it does not find any more have finished.
FinishProgress(t) ==
    /\ wpc[t] = "finish" => target[t].queue # NONE
    /\ wpc[t] # "idle" /\ target[t].queue # NONE =>
           \A e \in before[t] : queue[e] = target[t].queue /\ e \notin prepared

WaitersInv ==
    /\ IndInv /\ WaiterTypeInv
    /\ \A t \in Waiters : WaitProgress(t) /\ FinishProgress(t)

-----------------------------------------------------------------------------
(* What the steps of the event queue leave alone *)

LEMMA CompleteStays ==
    ASSUME IndInv, [Next]_vars, NEW e \in Events, status[e] = COMPLETE
    PROVE  status'[e] = COMPLETE
<1>1. Finished(e)
  BY DEF Finished, IsFinished, COMPLETE
<1> QED
  BY <1>1, StatusStep

LEMMA PushedStays ==
    ASSUME IndInv, [Next]_vars, NEW e \in Commands, queue[e] # NONE
    PROVE  queue'[e] = queue[e] /\ (e \notin prepared => e \notin prepared')
<1>1. TypeOK /\ e \in Events
  BY DEF IndInv, Events
<1>2. ASSUME NEW d \in Commands, NEW q \in Queues, Enqueue(d, q)
      PROVE  queue'[e] = queue[e] /\ (e \notin prepared => e \notin prepared')
  <2>1. /\ queue[d] = NONE /\ queue' = [queue EXCEPT ![d] = q]
        /\ prepared' = prepared \cup {d}
    BY <1>2 DEF Enqueue, EnqueueEvent, PrepareToQueue
  <2> QED
    BY <1>1, <2>1 DEF TypeOK
<1>3. ASSUME NEW d \in Commands, Push(d)
      PROVE  queue'[e] = queue[e] /\ (e \notin prepared => e \notin prepared')
  BY <1>3 DEF Push
<1>4. ASSUME UNCHANGED <<queue, prepared>>
      PROVE  queue'[e] = queue[e] /\ (e \notin prepared => e \notin prepared')
  BY <1>4
<1>5. CASE \/ \E d \in Events, st \in Results : SetUserEventStatus(d, st)
           \/ \E c \in Callbacks, d \in Events, type \in CallbackTypes :
                 SetEventCallback(c, d, type)
  BY <1>4, <1>5 DEF SetUserEventStatus, SetEventCallback
<1>6. CASE Handler \/ UNCHANGED vars
  BY <1>4, <1>6 DEF Handler, Peek, Submit, Scan, Abort, Run, Action, ClearWaitList,
         NotifyProcessed, Pop, Sleep, Timeout, vars
<1> QED
  BY <1>2, <1>3, <1>5, <1>6 DEF Next, Application

LEMMA QueueStepKeeps ==
    ASSUME WaitersInv, QueueStep
    PROVE  WaitersInv'
<1>1. /\ IndInv /\ [Next]_vars /\ IndInv' /\ WaiterTypeInv
      /\ UNCHANGED <<target, rest, frames, failed, before>>
      /\ wpc' = [t \in Waiters |->
                    IF hpc \in {"notify", "awake"} /\ hpc' # hpc /\ wpc[t] = "asleep"
                    THEN "wait" ELSE wpc[t]]
  BY IndStep DEF WaitersInv, QueueStep
<1>2. \A t \in Waiters : (wpc'[t] = "idle" <=> wpc[t] = "idle")
                           /\ (wpc'[t] = "finish" <=> wpc[t] = "finish")
  BY <1>1
<1>3. WaiterTypeInv'
  BY <1>1 DEF WaiterTypeInv
<1>4. ASSUME NEW t \in Waiters
      PROVE  WaitProgress(t)' /\ FinishProgress(t)'
  <2>1. Range(target[t].events) \subseteq Events
    BY <1>1 DEF WaiterTypeInv, Range
  <2>2. WaitProgress(t)'
    BY <1>1, <1>2, <2>1, CompleteStays DEF WaitersInv, WaitProgress
  <2>3. \A e \in before[t] : e \in Commands
    BY <1>1 DEF WaiterTypeInv
  <2>4. FinishProgress(t)'
    BY <1>1, <1>2, <2>3, PushedStays DEF WaitersInv, FinishProgress
  <2> QED
    BY <2>2, <2>4
<1> QED
  BY <1>1, <1>3, <1>4 DEF WaitersInv

-----------------------------------------------------------------------------
(* The steps of a thread *)

LEMMA SeqFacts ==
    ASSUME NEW S, NEW s \in Seq(S)
    PROVE  /\ Range(s) \subseteq S
           /\ s # <<>> => /\ Head(s) \in S /\ Tail(s) \in Seq(S)
                          /\ Range(s) = {Head(s)} \cup Range(Tail(s))
<1>1. Len(s) \in Nat /\ DOMAIN s = 1..Len(s) /\ \A i \in 1..Len(s) : s[i] \in S
  BY LenProperties, ElementOfSeq
<1>2. ASSUME s # <<>>
      PROVE  Head(s) \in S /\ Tail(s) \in Seq(S) /\ Range(s) = {Head(s)} \cup Range(Tail(s))
  <2>1. /\ Head(s) \in S /\ Head(s) = s[1] /\ 1 \in 1..Len(s)
        /\ Tail(s) \in Seq(S) /\ Len(Tail(s)) = Len(s) - 1
        /\ \A i \in 1..Len(Tail(s)) : Tail(s)[i] = s[i + 1]
    BY <1>1, <1>2, HeadTailProperties, EmptySeq
  <2>2. DOMAIN Tail(s) = 1..(Len(s) - 1)
    BY <2>1, LenProperties
  <2>3. ASSUME NEW x \in Range(s)
        PROVE  x \in {Head(s)} \cup Range(Tail(s))
    <3>1. PICK i \in 1..Len(s) : x = s[i]
      BY <1>1 DEF Range
    <3>2. CASE i # 1
      <4>1. i - 1 \in DOMAIN Tail(s) /\ Tail(s)[i - 1] = x
        BY <1>1, <2>1, <2>2, <3>1, <3>2
      <4> QED
        BY <4>1 DEF Range
    <3> QED
      BY <2>1, <3>1, <3>2
  <2>4. ASSUME NEW x \in Range(Tail(s))
        PROVE  x \in Range(s)
    <3>1. PICK i \in 1..(Len(s) - 1) : x = Tail(s)[i]
      BY <2>2 DEF Range
    <3>2. i + 1 \in DOMAIN s /\ s[i + 1] = x
      BY <1>1, <2>1, <3>1
    <3> QED
      BY <3>2 DEF Range
  <2> QED
    BY <1>1, <2>1, <2>3, <2>4 DEF Range
<1> QED
  BY <1>1, <1>2 DEF Range

\* The innermost active waitFor and those it was called from.
LEMMA FrameFacts ==
    ASSUME WaiterTypeInv, NEW t \in Waiters, frames[t] # <<>>
    PROVE  /\ Top(t) \in Frame /\ Below(t) \in Seq(Frame)
           /\ Len(frames[t]) \in Nat \ {0} /\ Len(Below(t)) = Len(frames[t]) - 1
           /\ Below(t) = <<>> => frames[t][1] = Top(t)
           /\ Below(t) # <<>> => Below(t)[1] = frames[t][1]
<1>1. frames[t] \in Seq(Frame) /\ Len(frames[t]) \in Nat \ {0}
  BY EmptySeq DEF WaiterTypeInv
<1>2. Top(t) \in Frame
  BY <1>1, ElementOfSeq DEF Top
<1>3. /\ Below(t) \in Seq(Frame) /\ Len(Below(t)) = Len(frames[t]) - 1
      /\ \A i \in 1..(Len(frames[t]) - 1) : Below(t)[i] = frames[t][i]
  <2>1. 1 \in 1..(Len(frames[t]) + 1) /\ Len(frames[t]) - 1 \in 0..Len(frames[t])
    BY <1>1
  <2>2. \A i \in 1..(Len(frames[t]) - 1) : frames[t][i] \in Frame
    BY <1>1, ElementOfSeq
  <2> QED
    BY <1>1, <2>1, <2>2, SubSeqProperties DEF Below
<1>4. Below(t) = <<>> => Len(frames[t]) = 1
  BY <1>1, <1>3, EmptySeq
<1>5. Below(t) # <<>> => Len(Below(t)) # 0
  BY <1>3, EmptySeq
<1> QED
  BY <1>1, <1>2, <1>3, <1>4, <1>5 DEF Top

LEMMA CallFacts ==
    ASSUME WaitersInv, NEW e \in Events
    PROVE  Call(e) \in Frame /\ Call(e).event = e
  BY DEF WaitersInv, IndInv, TypeOK, Call, Frame

\* The step of one thread concerns no other thread.
OthersKeep(t) ==
    \A u \in Waiters : u # t =>
        /\ wpc'[u] = wpc[u] /\ target'[u] = target[u] /\ rest'[u] = rest[u]
        /\ frames'[u] = frames[u] /\ failed'[u] = failed[u] /\ before'[u] = before[u]

LEMMA OneThread ==
    ASSUME WaitersInv, UNCHANGED vars, NEW t \in Waiters, OthersKeep(t), WaiterTypeInv',
           WaitProgress(t)', FinishProgress(t)'
    PROVE  WaitersInv'
<1>1. IndInv'
  BY IndStep DEF WaitersInv
<1>2. \A u \in Waiters : WaitProgress(u)' /\ FinishProgress(u)'
  BY DEF WaitersInv, OthersKeep, WaitProgress, FinishProgress, vars
<1> QED
  BY <1>1, <1>2 DEF WaitersInv

LEMMA EnterKeeps ==
    ASSUME WaitersInv, UNCHANGED vars, NEW t \in Waiters, Enter(t)
    PROVE  WaitersInv'
<1>1. WaiterTypeInv /\ UNCHANGED <<wpc, target, failed, before>> /\ status' = status
  BY DEF WaitersInv, Enter, vars
<1>2. FinishProgress(t)'
  BY <1>1 DEF WaitersInv, FinishProgress, vars
<1>3. CASE /\ frames[t] = <<>> /\ rest[t] # <<>>
           /\ frames' = [frames EXCEPT ![t] = <<Call(Head(rest[t]))>>]
           /\ rest' = [rest EXCEPT ![t] = Tail(rest[t])]
  <2>1. rest[t] \in Seq(Events)
    BY <1>1 DEF WaiterTypeInv
  <2>2. /\ Head(rest[t]) \in Events /\ Tail(rest[t]) \in Seq(Events)
        /\ Range(rest[t]) = {Head(rest[t])} \cup Range(Tail(rest[t]))
    BY <1>3, <2>1, SeqFacts
  <2>3. Call(Head(rest[t])) \in Frame /\ Call(Head(rest[t])).event = Head(rest[t])
    BY <2>2, CallFacts
  <2>4. /\ <<Call(Head(rest[t]))>> \in Seq(Frame)
        /\ <<Call(Head(rest[t]))>> # <<>> /\ <<Call(Head(rest[t]))>>[1] = Call(Head(rest[t]))
    BY <2>3
  <2>5. WaiterTypeInv' /\ OthersKeep(t)
    BY <1>1, <1>3, <2>2, <2>4 DEF WaiterTypeInv, OthersKeep
  <2>6. frames'[t] = <<Call(Head(rest[t]))>> /\ rest'[t] = Tail(rest[t])
    BY <1>1, <1>3 DEF WaiterTypeInv
  <2>7. WaitProgress(t)'
    BY <1>1, <1>3, <2>2, <2>3, <2>4, <2>6 DEF WaitersInv, WaitProgress
  <2> QED
    BY <1>2, <2>5, <2>7, OneThread
<1>4. CASE /\ frames[t] # <<>> /\ Top(t).rest # <<>> /\ rest' = rest
           /\ frames' = [frames EXCEPT ![t] =
                  Below(t) \o <<[Top(t) EXCEPT !.rest = Tail(@)], Call(Head(Top(t).rest))>>]
  <2> DEFINE loop == [Top(t) EXCEPT !.rest = Tail(@)]
             call == Call(Head(Top(t).rest))
  <2>1. /\ Top(t) \in Frame /\ Below(t) \in Seq(Frame)
        /\ Below(t) = <<>> => frames[t][1] = Top(t)
        /\ Below(t) # <<>> => Below(t)[1] = frames[t][1]
    BY <1>1, <1>4, FrameFacts
  <2>2. Head(Top(t).rest) \in Events /\ Tail(Top(t).rest) \in Seq(Events)
    BY <1>4, <2>1, SeqFacts DEF Frame
  <2>3. loop \in Frame /\ loop.event = Top(t).event /\ call \in Frame
    BY <2>1, <2>2, CallFacts DEF Frame
  <2> HIDE DEF loop, call
  <2>4. <<loop, call>> \in Seq(Frame) /\ Len(<<loop, call>>) = 2 /\ <<loop, call>>[1] = loop
    BY <2>3
  <2>5. /\ Below(t) \o <<loop, call>> \in Seq(Frame)
        /\ Below(t) \o <<loop, call>> # <<>>
        /\ (Below(t) \o <<loop, call>>)[1] = IF Below(t) = <<>> THEN loop ELSE Below(t)[1]
    <3>1. Len(Below(t)) \in Nat /\ (Below(t) = <<>> <=> Len(Below(t)) = 0)
      BY <2>1, EmptySeq, LenProperties
    <3> QED
      BY <2>1, <2>4, <3>1, ConcatProperties, EmptySeq
  <2>6. frames' = [frames EXCEPT ![t] = Below(t) \o <<loop, call>>]
    BY <1>4 DEF loop, call
  <2>7. WaiterTypeInv' /\ OthersKeep(t)
    BY <1>1, <1>4, <2>5, <2>6 DEF WaiterTypeInv, OthersKeep
  <2>8. frames'[t] # <<>> /\ frames'[t][1].event = frames[t][1].event
    BY <1>1, <2>1, <2>3, <2>5, <2>6 DEF WaiterTypeInv
  <2>9. WaitProgress(t)'
    BY <1>1, <1>4, <2>8 DEF WaitersInv, WaitProgress
  <2> QED
    BY <1>2, <2>7, <2>9, OneThread
<1> QED
  BY <1>3, <1>4 DEF Enter

LEMMA LeaveKeeps ==
    ASSUME WaitersInv, UNCHANGED vars, NEW t \in Waiters, Leave(t)
    PROVE  WaitersInv'
<1>1. /\ WaiterTypeInv /\ UNCHANGED <<wpc, target, rest, before>> /\ status' = status
      /\ frames[t] # <<>>
  BY DEF WaitersInv, Leave, WaitListDone, vars
<1>2. FinishProgress(t)'
  BY <1>1 DEF WaitersInv, FinishProgress, vars
<1>3. CASE /\ status[Top(t).event] = COMPLETE /\ failed' = failed
           /\ frames' = [frames EXCEPT ![t] = Below(t)]
  <2>1. /\ Below(t) \in Seq(Frame)
        /\ Below(t) = <<>> => frames[t][1] = Top(t)
        /\ Below(t) # <<>> => Below(t)[1] = frames[t][1]
    BY <1>1, FrameFacts
  <2>2. frames'[t] = Below(t) /\ WaiterTypeInv' /\ OthersKeep(t)
    BY <1>1, <1>3, <2>1 DEF WaiterTypeInv, OthersKeep
  <2>3. WaitProgress(t)'
    BY <1>1, <1>3, <2>1, <2>2 DEF WaitersInv, WaitProgress
  <2> QED
    BY <1>2, <2>2, <2>3, OneThread
<1>4. CASE frames' = [frames EXCEPT ![t] = <<>>] /\ failed' = [failed EXCEPT ![t] = TRUE]
  <2>1. <<>> \in Seq(Frame)
    OBVIOUS
  <2>2. failed'[t] /\ WaiterTypeInv' /\ OthersKeep(t)
    BY <1>1, <1>4, <2>1 DEF WaiterTypeInv, OthersKeep
  <2>3. WaitProgress(t)'
    BY <2>2 DEF WaitProgress
  <2> QED
    BY <1>2, <2>2, <2>3, OneThread
<1> QED
  BY <1>3, <1>4 DEF Leave

\* Sleeping and waking up changes nothing but where the thread is.
LEMMA SleepKeeps ==
    ASSUME WaitersInv, UNCHANGED vars, NEW t \in Waiters, Block(t) \/ WaitTimeout(t)
    PROVE  WaitersInv'
<1>1. /\ WaiterTypeInv /\ UNCHANGED <<target, rest, frames, failed, before>>
      /\ wpc[t] # "idle" /\ UNCHANGED <<status, queue, prepared>>
      /\ \/ wpc' = [wpc EXCEPT ![t] = "blocking"]
         \/ wpc' = [wpc EXCEPT ![t] = "asleep"]
         \/ wpc' = [wpc EXCEPT ![t] = "wait"]
  BY DEF WaitersInv, Block, WaitTimeout, WaitListDone, vars
<1>2. WaiterTypeInv' /\ OthersKeep(t) /\ wpc'[t] \notin {"idle", "finish"}
  BY <1>1 DEF WaiterTypeInv, OthersKeep
<1>3. WaitProgress(t)' /\ FinishProgress(t)'
  BY <1>1, <1>2 DEF WaitersInv, WaitProgress, FinishProgress
<1> QED
  BY <1>2, <1>3, OneThread

LEMMA WaitForEventsKeeps ==
    ASSUME WaitersInv, UNCHANGED vars, NEW t \in Waiters, NEW events \in WaitLists,
           WaitForEvents(t, events)
    PROVE  WaitersInv'
<1>1. WaiterTypeInv /\ events \in Seq(Events)
  BY WaitListIsSeq DEF WaitersInv, IndInv
<1>2. /\ wpc' = [wpc EXCEPT ![t] = "wait"]
      /\ target' = [target EXCEPT ![t] = [events |-> events, queue |-> NONE]]
      /\ rest' = [rest EXCEPT ![t] = events]
      /\ UNCHANGED <<frames, failed, before>>
  BY DEF WaitForEvents
<1>3. /\ WaiterTypeInv' /\ OthersKeep(t) /\ wpc'[t] = "wait"
      /\ target'[t].events = events /\ target'[t].queue = NONE /\ rest'[t] = events
  BY <1>1, <1>2 DEF WaiterTypeInv, OthersKeep
<1>4. WaitProgress(t)' /\ FinishProgress(t)'
  BY <1>3 DEF WaitProgress, FinishProgress
<1> QED
  BY <1>3, <1>4, OneThread

LEMMA FinishKeeps ==
    ASSUME WaitersInv, UNCHANGED vars, NEW t \in Waiters, NEW q \in Queues, Finish(t, q)
    PROVE  WaitersInv'
<1>1. WaiterTypeInv /\ IndInv /\ TypeOK /\ q # NONE /\ UNCHANGED <<queue, prepared>>
  BY EventQueueAssumption DEF WaitersInv, IndInv, vars
<1>2. /\ wpc' = [wpc EXCEPT ![t] = "finish"]
      /\ target' = [target EXCEPT ![t] = [events |-> <<>>, queue |-> q]]
      /\ before' = [before EXCEPT ![t] = {e \in Range(buffer) : queue[e] = q}]
      /\ UNCHANGED <<rest, frames, failed>>
  BY DEF Finish
<1>3. Range(buffer) \subseteq Commands /\ \A e \in Range(buffer) : e \notin prepared
  BY <1>1, BufferFacts DEF Range, IndInv, PlaceInv
<1>4. /\ wpc'[t] = "finish" /\ target'[t].queue = q
      /\ before'[t] = {e \in Range(buffer) : queue[e] = q}
  BY <1>1, <1>2 DEF WaiterTypeInv
<1>5. <<>> \in Seq(Events)
  OBVIOUS
<1>6. WaiterTypeInv' /\ OthersKeep(t)
  BY <1>1, <1>2, <1>3, <1>5 DEF WaiterTypeInv, OthersKeep
<1>7. WaitProgress(t)' /\ FinishProgress(t)'
  BY <1>1, <1>3, <1>4 DEF WaitProgress, FinishProgress
<1> QED
  BY <1>6, <1>7, OneThread

LEMMA EndCallKeeps ==
    ASSUME WaitersInv, UNCHANGED vars, NEW t \in Waiters, EndCall(t), UNCHANGED <<rest, frames>>
    PROVE  WaitersInv'
<1>1. WaiterTypeInv /\ <<>> \in Seq(Events)
  BY DEF WaitersInv
<1>2. WaiterTypeInv' /\ OthersKeep(t) /\ wpc'[t] = "idle"
  BY <1>1 DEF EndCall, WaiterTypeInv, OthersKeep, Nothing
<1>3. WaitProgress(t)' /\ FinishProgress(t)'
  BY <1>2 DEF WaitProgress, FinishProgress
<1> QED
  BY <1>2, <1>3, OneThread

LEMMA FinishPeekKeeps ==
    ASSUME WaitersInv, UNCHANGED vars, NEW t \in Waiters, FinishPeek(t)
    PROVE  WaitersInv'
<1>1. WaiterTypeInv /\ IndInv /\ TypeOK /\ wpc[t] = "finish" /\ target[t].queue # NONE
  BY DEF WaitersInv, IndInv, FinishPeek, FinishProgress
<1>2. ASSUME NEW n \in Peeked(target[t].queue), wpc' = [wpc EXCEPT ![t] = "wait"],
             rest' = [rest EXCEPT ![t] = <<buffer[n]>>],
             UNCHANGED <<target, failed, before, frames>>
      PROVE  WaitersInv'
  <2>1. buffer[n] \in Events
    BY <1>1, BufferFacts DEF Peeked
  <2>2. <<buffer[n]>> \in Seq(Events)
    BY <2>1
  <2>3. WaiterTypeInv' /\ OthersKeep(t) /\ wpc'[t] = "wait" /\ target'[t].queue # NONE
    BY <1>1, <1>2, <2>2 DEF WaiterTypeInv, OthersKeep
  <2>4. WaitProgress(t)' /\ FinishProgress(t)'
    BY <1>1, <1>2, <2>3 DEF WaitersInv, WaitProgress, FinishProgress, vars
  <2> QED
    BY <2>3, <2>4, OneThread
<1> QED
  BY <1>2, EndCallKeeps DEF FinishPeek

LEMMA ReturnKeeps ==
    ASSUME WaitersInv, UNCHANGED vars, NEW t \in Waiters, Return(t)
    PROVE  WaitersInv'
<1>1. ASSUME target[t].queue # NONE, wpc' = [wpc EXCEPT ![t] = "finish"], wpc[t] # "idle",
             UNCHANGED <<target, failed, before, rest, frames>>
      PROVE  WaitersInv'
  <2>1. WaiterTypeInv' /\ OthersKeep(t)
    BY <1>1 DEF WaitersInv, WaiterTypeInv, OthersKeep
  <2>2. WaitProgress(t)' /\ FinishProgress(t)'
    BY <1>1 DEF WaitersInv, WaitProgress, FinishProgress, vars
  <2> QED
    BY <2>1, <2>2, OneThread
<1> QED
  BY <1>1, EndCallKeeps DEF Return

LEMMA WaitersInit_Inv == WaitersInit => WaitersInv
<1> SUFFICES ASSUME WaitersInit PROVE WaitersInv
  OBVIOUS
<1>1. IndInv /\ <<>> \in Seq(Events) /\ <<>> \in Seq(Frame)
  BY IndInit DEF WaitersInit
<1>2. WaiterTypeInv
  BY <1>1 DEF WaitersInit, WaiterTypeInv, Nothing
<1> QED
  BY <1>1, <1>2 DEF WaitersInit, WaitersInv, WaitProgress, FinishProgress

LEMMA WaitersStep == WaitersInv /\ [WaitersNext]_allVars => WaitersInv'
<1> SUFFICES ASSUME WaitersInv, [WaitersNext]_allVars
             PROVE  WaitersInv'
  OBVIOUS
<1>1. CASE QueueStep
  BY <1>1, QueueStepKeeps
<1>2. ASSUME NEW t \in Waiters, Waiter(t), UNCHANGED vars
      PROVE  WaitersInv'
  BY <1>2, EnterKeeps, LeaveKeeps, SleepKeeps, WaitForEventsKeeps, FinishKeeps,
     FinishPeekKeeps, ReturnKeeps DEF Waiter, WaiterStep
<1>3. CASE UNCHANGED allVars
  <2>1. UNCHANGED vars /\ UNCHANGED <<wpc, target, rest, frames, failed, before>>
    BY <1>3 DEF allVars, waiterVars
  <2>2. IndInv'
    BY <2>1, IndStep DEF WaitersInv
  <2>3. WaiterTypeInv'
    BY <2>1 DEF WaitersInv, WaiterTypeInv
  <2>4. \A t \in Waiters : WaitProgress(t)' /\ FinishProgress(t)'
    BY <2>1 DEF WaitersInv, WaitProgress, FinishProgress, vars
  <2> QED
    BY <2>2, <2>3, <2>4 DEF WaitersInv
<1> QED
  BY <1>1, <1>2, <1>3 DEF WaitersNext

LEMMA WaitersInvariance == WaitersSpec => []WaitersInv
  BY WaitersInit_Inv, WaitersStep, PTL DEF WaitersSpec

-----------------------------------------------------------------------------
(* What a return promises *)

\* The steps by which a call can return.
LEMMA ReturnSteps ==
    ASSUME WaitersInv, WaitersNext, NEW t \in Waiters, Returns(t)
    PROVE  \/ wpc[t] = "finish" /\ Peeked(target[t].queue) = {}
           \/ frames[t] = <<>> /\ rest[t] = <<>> /\ target[t].queue = NONE
<1>1. WaiterTypeInv /\ wpc[t] # "idle" /\ wpc'[t] = "idle"
  BY DEF WaitersInv, Returns
<1>2. ~QueueStep
  BY <1>1 DEF QueueStep
<1>3. PICK u \in Waiters : Waiter(u)
  BY <1>2 DEF WaitersNext
<1>4. \A v \in Waiters : v # u => wpc'[v] = wpc[v]
  BY <1>1, <1>3 DEF WaiterTypeInv, Waiter, WaiterStep, Enter, Leave, Block, WaitTimeout, FinishPeek,
         Return, EndCall, WaitForEvents, Finish
<1>5. u = t
  BY <1>1, <1>4
<1>6. CASE WaiterStep(t)
  BY <1>1, <1>6 DEF WaiterTypeInv, WaiterStep, Enter, Leave, Block, WaitTimeout, FinishPeek, Return
<1>7. ~ \E events \in WaitLists : WaitForEvents(t, events)
  BY <1>1 DEF WaitForEvents
<1>8. ~ \E q \in Queues : Finish(t, q)
  BY <1>1 DEF Finish
<1> QED
  BY <1>3, <1>5, <1>6, <1>7, <1>8 DEF Waiter

\* clWaitForEvents returns success only when all its events are complete, however
\* the handler, other threads and the recursion through wait lists interleave.
THEOREM SuccessfulWaits == WaitersSpec => SuccessMeansComplete
<1> DEFINE Promise == \A t \in Waiters : Returns(t) /\ target[t].queue = NONE /\ ~failed[t] =>
                          \A e \in Range(target[t].events) : status[e] = COMPLETE
<1>1. WaitersInv /\ [WaitersNext]_allVars => [Promise]_allVars
  <2> SUFFICES ASSUME WaitersInv, WaitersNext, NEW t \in Waiters, Returns(t),
                      target[t].queue = NONE, ~failed[t], NEW e \in Range(target[t].events)
               PROVE  status[e] = COMPLETE
    OBVIOUS
  <2>1. frames[t] = <<>> /\ rest[t] = <<>>
    BY ReturnSteps DEF WaitersInv, FinishProgress
  <2>2. Range(rest[t]) = {}
    BY <2>1 DEF Range
  <2> QED
    BY <2>1, <2>2 DEF WaitersInv, WaitProgress, Returns
<1> QED
  BY <1>1, WaitersInvariance, PTL DEF WaitersSpec, SuccessMeansComplete

\* clFinish returns only when every command it found in its queue has finished.
THEOREM FinishedQueues == WaitersSpec => FinishMeansFinished
<1> DEFINE Promise == \A t \in Waiters : Returns(t) /\ target[t].queue # NONE =>
                          \A e \in before[t] : Finished(e)
<1>1. WaitersInv /\ [WaitersNext]_allVars => [Promise]_allVars
  <2> SUFFICES ASSUME WaitersInv, WaitersNext, NEW t \in Waiters, Returns(t),
                      target[t].queue # NONE, NEW e \in before[t]
               PROVE  Finished(e)
    OBVIOUS
  <2>1. Peeked(target[t].queue) = {}
    BY ReturnSteps
  <2>2. e \in Commands /\ queue[e] = target[t].queue /\ e \notin prepared
    BY DEF WaitersInv, WaiterTypeInv, FinishProgress, Returns
  <2>3. ~ \E i \in DOMAIN buffer : buffer[i] = e
    BY <2>1, <2>2 DEF Peeked
  <2> QED
    BY <2>2, <2>3 DEF WaitersInv, IndInv, PlaceInv
<1> QED
  BY <1>1, WaitersInvariance, PTL DEF WaitersSpec, FinishMeansFinished

-----------------------------------------------------------------------------
(* References *)

\* Who can have an event in hand, and how long a wait list is kept.
HandInv ==
    /\ owned \subseteq Events \cup Queues
    /\ owned \cap Commands \subseteq handles
    /\ calling \subseteq Commands
    /\ \A e \in calling : queue[e] # NONE /\ e \notin prepared /\ e \notin owned
    /\ peeked \in Commands \cup {NONE}
    /\ peeked # NONE => queue[peeked] # NONE
    /\ \A e \in Commands : waitList[e] # <<>> => e \in prepared \cup Range(buffer)
    /\ hpc \in {"notify", "pop"} => waitList[hevent] = <<>>
    /\ \A e \in Events : IsInjective(waitList[e]) /\ Len(waitList[e]) <= MaxWaitList
    /\ \A u \in UserEvents : queue[u] = NONE /\ waitList[u] = <<>>

\* An object is alive while it has a reference.
LiveInv ==
    /\ live \subseteq Objects /\ IsFiniteSet(live)
    /\ refs \in [Objects -> Nat]
    /\ \A o \in Objects : o \in live <=> refs[o] > 0

LifetimeInv == HandInv /\ LiveInv /\ CountsMatch

-----------------------------------------------------------------------------
(* Sequences without repetitions *)

LEMMA AppendRange ==
    ASSUME NEW S, NEW s \in Seq(S), NEW e \in S
    PROVE  Range(Append(s, e)) = Range(s) \cup {e}
<1> DEFINE a == Append(s, e)
<1>1. /\ DOMAIN s = 1..Len(s) /\ Len(s) \in Nat /\ DOMAIN a = 1..(Len(s) + 1)
      /\ \A i \in 1..Len(s) : i \in DOMAIN a /\ a[i] = s[i]
      /\ Len(s) + 1 \in DOMAIN a /\ a[Len(s) + 1] = e
      /\ \A i \in DOMAIN a : i \in 1..Len(s) \/ i = Len(s) + 1
  BY AppendProperties
<1> HIDE DEF a
<1>2. Range(a) = Range(s) \cup {e}
  BY <1>1 DEF Range
<1> QED
  BY <1>2 DEF a

LEMMA TailRange ==
    ASSUME NEW S, NEW s \in Seq(S), s # <<>>,
           \A i, j \in DOMAIN s : s[i] = s[j] => i = j
    PROVE  Range(Tail(s)) = Range(s) \ {s[1]}
<1> DEFINE t == Tail(s)
<1>1. /\ DOMAIN s = 1..Len(s) /\ Len(s) \in Nat \ {0} /\ DOMAIN t = 1..(Len(s) - 1)
      /\ \A i \in 1..(Len(s) - 1) : t[i] = s[i + 1]
  BY HeadTailProperties
<1> HIDE DEF t
<1>2. ASSUME NEW i \in DOMAIN s, s[i] # s[1]
      PROVE  s[i] \in Range(t)
  <2>1. i # 1
    BY <1>2
  <2>2. i - 1 \in DOMAIN t /\ (i - 1) + 1 = i
    BY <1>1, <2>1
  <2>3. t[i - 1] = s[i]
    BY <1>1, <2>2
  <2> QED
    BY <2>2, <2>3 DEF Range
<1>3. ASSUME NEW i \in DOMAIN t
      PROVE  t[i] \in Range(s) /\ t[i] # s[1]
  <2>1. i + 1 \in DOMAIN s /\ i + 1 # 1 /\ 1 \in DOMAIN s /\ t[i] = s[i + 1]
    BY <1>1
  <2> QED
    BY <2>1 DEF Range
<1>4. Range(t) = Range(s) \ {s[1]}
  BY <1>2, <1>3 DEF Range
<1> QED
  BY <1>4 DEF t

\* A wait list that an enqueue call passes.
LEMMA WaitListFacts ==
    ASSUME TypeOK, NEW list \in WaitLists
    PROVE  /\ list \in Seq(Events) /\ IsInjective(list) /\ Len(list) <= MaxWaitList
           /\ \A k \in DOMAIN list : list[k] \in Known
<1>1. PICK n \in 0..MaxWaitList : list \in Injection(1..n, Known)
  BY DEF WaitLists
<1>2. n \in Nat /\ n <= MaxWaitList /\ DOMAIN list = 1..n /\ IsInjective(list)
  BY <1>1, EventQueueAssumption DEF Injection
<1>3. /\ list \in Seq(Events) /\ \A k \in DOMAIN list : list[k] \in Known
  BY WaitListIsSeq
<1>4. DOMAIN list = 1..Len(list) /\ Len(list) \in Nat
  BY <1>3
<1>5. Len(list) <= n
  <2>1. CASE Len(list) = 0
    BY <1>2, <2>1
  <2>2. CASE Len(list) # 0
    <3>1. Len(list) \in 1..n
      BY <1>2, <1>4, <2>2
    <3> QED
      BY <1>2, <3>1
  <2> QED
    BY <2>1, <2>2
<1> QED
  BY <1>2, <1>3, <1>4, <1>5, EventQueueAssumption

-----------------------------------------------------------------------------
(* The steps of EventQueue *)

LEMMA StepOfEventQueue == [LifetimeNext]_everything => [Next]_vars
<1> SUFFICES ASSUME [LifetimeNext]_everything PROVE [Next]_vars
  OBVIOUS
<1>1. CASE UNCHANGED everything
  BY <1>1 DEF everything
<1>2. CASE \E e \in Commands, q \in Queues : CallEnqueue(e, q)
  BY <1>2 DEF CallEnqueue, Next, Application
<1>3. CASE \E e \in Commands : CallPush(e) \/ CallReturn(e)
  BY <1>3 DEF CallPush, CallReturn, Next, Application
<1>4. CASE \E o \in Objects : ReleaseObject(o)
  BY <1>4 DEF ReleaseObject
<1>5. CASE \E e \in UserEvents, st \in Results : SignalUserEvent(e, st)
  BY <1>5 DEF SignalUserEvent, Next, Application, Events
<1>6. CASE \E c \in Callbacks, e \in Events, type \in CallbackTypes : RegisterCallback(c, e, type)
  BY <1>6 DEF RegisterCallback, Next, Application
<1>7. CASE (\E q \in Queues : FinishTakes(q)) \/ FinishDrops
  BY <1>7 DEF FinishTakes, FinishDrops
<1>8. CASE HandlerAct
  BY <1>8 DEF HandlerAct, HandlerReferences, Next, Handler
<1> QED
  BY <1>1, <1>2, <1>3, <1>4, <1>5, <1>6, <1>7, <1>8 DEF LifetimeNext

LEMMA EventQueueInit == LifetimeInit => IndInv
  BY IndInit DEF LifetimeInit

LEMMA EventQueueStep == IndInv /\ [LifetimeNext]_everything => IndInv'
  BY StepOfEventQueue, IndStep

-----------------------------------------------------------------------------
(* Who has what in hand *)

LEMMA HandInit == LifetimeInit => HandInv
<1> SUFFICES ASSUME LifetimeInit PROVE HandInv
  OBVIOUS
<1>1. /\ owned = UserEvents \cup Queues /\ calling = {} /\ peeked = NONE /\ hpc = "peek"
      /\ \A e \in Events : waitList[e] = <<>> /\ queue[e] = NONE
  BY DEF LifetimeInit, Init
<1>2. \A e \in Events : IsInjective(waitList[e]) /\ Len(waitList[e]) <= MaxWaitList
  <2>1. DOMAIN <<>> = {} /\ Len(<<>>) = 0
    BY EmptySeq
  <2> QED
    BY <1>1, <2>1, EventQueueAssumption DEF IsInjective
<1> QED
  BY <1>1, <1>2, EventQueueAssumption, ObjectLifetimeAssumption DEF HandInv, Events

LEMMA HandStep == IndInv /\ HandInv /\ [LifetimeNext]_everything => HandInv'
<1> SUFFICES ASSUME IndInv, HandInv, [LifetimeNext]_everything
             PROVE  HandInv'
  OBVIOUS
<1>0. /\ TypeOK /\ buffer \in Seq(Commands) /\ NONE \notin Commands
      /\ Commands \subseteq Events /\ UserEvents \subseteq Events
      /\ Commands \cap UserEvents = {} /\ Events = Commands \cup UserEvents
      /\ hpc \in Busy => hevent \in Commands /\ queue[hevent] # NONE
      /\ \A e \in Range(buffer) : e \in Commands /\ queue[e] # NONE
  BY HeadFacts, BufferFacts, EventQueueAssumption DEF IndInv, TypeOK, Events, PlaceInv, Range
<1>1. ASSUME NEW e \in Commands, NEW q \in Queues, CallEnqueue(e, q)
      PROVE  HandInv'
  <2>1. PICK list \in WaitLists : waitList' = [waitList EXCEPT ![e] = list]
    BY <1>1 DEF CallEnqueue, Enqueue, SetEventWaitList
  <2>2. /\ queue[e] = NONE /\ queue' = [queue EXCEPT ![e] = q] /\ prepared' = prepared \cup {e}
        /\ UNCHANGED <<owned, calling, peeked, handles, buffer, hpc, hevent>>
    BY <1>1 DEF CallEnqueue, Enqueue, EnqueueEvent, PrepareToQueue, handlerVars
  <2>3. /\ queue'[e] # NONE /\ \A f \in Events : f # e => queue'[f] = queue[f]
        /\ waitList'[e] = list /\ \A f \in Events : f # e => waitList'[f] = waitList[f]
    BY <1>0, <2>1, <2>2, EventQueueAssumption DEF TypeOK
  <2>4. \A f \in Events : IsInjective(waitList'[f]) /\ Len(waitList'[f]) <= MaxWaitList
    BY <1>0, <2>3, WaitListFacts DEF HandInv
  <2>5. \A f \in Commands : waitList'[f] # <<>> => f \in prepared' \cup Range(buffer')
    BY <1>0, <2>2, <2>3 DEF HandInv
  <2>6. hpc' \in {"notify", "pop"} => waitList'[hevent'] = <<>>
    BY <1>0, <2>2, <2>3 DEF HandInv, Busy
  <2>7. \A f \in calling' : queue'[f] # NONE /\ f \notin prepared' /\ f \notin owned'
    BY <1>0, <2>2, <2>3 DEF HandInv
  <2>8. peeked' # NONE => queue'[peeked'] # NONE
    BY <1>0, <2>2, <2>3 DEF HandInv
  <2>9. \A u \in UserEvents : queue'[u] = NONE /\ waitList'[u] = <<>>
    BY <1>0, <2>3 DEF HandInv
  <2> QED
    BY <2>2, <2>4, <2>5, <2>6, <2>7, <2>8, <2>9 DEF HandInv
<1>2. ASSUME NEW e \in Commands, CallPush(e)
      PROVE  HandInv'
  <2>1. /\ e \in prepared /\ prepared' = prepared \ {e} /\ calling' = calling \cup {e}
        /\ buffer' = Append(buffer, e) /\ (hpc' = hpc \/ hpc' = "awake")
        /\ handles \subseteq handles'
        /\ UNCHANGED <<queue, waitList, hevent, owned, peeked>>
    BY <1>2 DEF CallPush, Push, PushEvent, SetAsResultOrRelease
  <2>2. Range(buffer') = Range(buffer) \cup {e}
    BY <1>0, <2>1, AppendRange
  <2>3. queue[e] # NONE /\ e \notin owned
    BY <2>1 DEF IndInv, PlaceInv, HandInv
  <2> QED
    BY <2>1, <2>2, <2>3 DEF HandInv
<1>3. ASSUME NEW e \in Commands, CallReturn(e)
      PROVE  HandInv'
  <2>1. /\ e \in calling /\ calling' = calling \ {e}
        /\ owned' = owned \/ (e \in handles /\ owned' = owned \cup {e})
        /\ UNCHANGED <<queue, waitList, prepared, buffer, handles, hpc, hevent, peeked>>
    BY <1>3 DEF CallReturn, vars
  <2> QED
    BY <1>0, <2>1 DEF HandInv
<1>4. ASSUME owned' \subseteq owned, UNCHANGED <<calling, queue, waitList, prepared, buffer,
                                               handles, hpc, hevent>>,
             \/ UNCHANGED peeked
             \/ peeked' = NONE
             \/ peeked' \in Range(buffer)
      PROVE  HandInv'
  BY <1>0, <1>4 DEF HandInv
<1>5. CASE \E o \in Objects : ReleaseObject(o)
  BY <1>4, <1>5 DEF ReleaseObject, vars
<1>6. CASE \E e \in UserEvents, st \in Results : SignalUserEvent(e, st)
  BY <1>4, <1>6 DEF SignalUserEvent, SetUserEventStatus, lifetimeVars, handlerVars
<1>7. CASE \E c \in Callbacks, e \in Events, type \in CallbackTypes : RegisterCallback(c, e, type)
  BY <1>4, <1>7 DEF RegisterCallback, SetEventCallback, lifetimeVars, handlerVars
<1>8. CASE (\E q \in Queues : FinishTakes(q)) \/ FinishDrops
  BY <1>4, <1>8 DEF FinishTakes, FinishDrops, vars, Range
<1>9. ASSUME UNCHANGED <<owned, calling, peeked, queue, waitList, prepared, buffer, handles>>,
             hpc' \notin {"notify", "pop"} \/ (hpc = "notify" /\ hpc' = "pop" /\ hevent' = hevent)
      PROVE  HandInv'
  BY <1>9 DEF HandInv
<1>10. CASE HandlerAct
  <2>0. UNCHANGED <<owned, calling, peeked>>
    BY <1>10 DEF HandlerAct
  <2>1. CASE ClearWaitList
    <3>1. /\ hpc = "clear" /\ hpc' = "notify"
          /\ waitList' = [waitList EXCEPT ![hevent] = <<>>]
          /\ UNCHANGED <<queue, prepared, buffer, handles, hevent>>
      BY <2>1 DEF ClearWaitList, HandlerStep
    <3>2. /\ waitList'[hevent] = <<>>
          /\ \A f \in Events : f # hevent => waitList'[f] = waitList[f]
      BY <1>0, <3>1 DEF TypeOK, Busy
    <3>3. IsInjective(<<>>) /\ Len(<<>>) <= MaxWaitList
      <4>1. DOMAIN <<>> = {} /\ Len(<<>>) = 0
        BY EmptySeq
      <4> QED
        BY <4>1, EventQueueAssumption DEF IsInjective
    <3> QED
      BY <1>0, <2>0, <3>1, <3>2, <3>3 DEF HandInv
  <2>2. CASE Pop
    <3>1. /\ hpc = "pop" /\ hpc' = "peek" /\ buffer' = Tail(buffer)
          /\ UNCHANGED <<queue, waitList, prepared, handles, hevent>>
      BY <2>2 DEF Pop, HandlerStep
    <3>2. buffer # <<>> /\ buffer[1] = hevent
      BY <3>1 DEF IndInv, HandlerInv, Busy
    <3>3. Range(buffer') = Range(buffer) \ {hevent}
      BY <1>0, <3>1, <3>2, TailRange DEF IndInv, PlaceInv
    <3>4. waitList[hevent] = <<>>
      BY <3>1 DEF HandInv
    <3> QED
      BY <2>0, <3>1, <3>3, <3>4 DEF HandInv
  <2>3. CASE Peek \/ Submit \/ Scan \/ Abort \/ Run \/ NotifyProcessed \/ Sleep \/ Timeout \/ Action
    BY <1>9, <2>0, <2>3 DEF Peek, Submit, Scan, Abort, Run, NotifyProcessed, Sleep, Timeout,
                            Action, HandlerStep
  <2> QED
    BY <1>10, <2>1, <2>2, <2>3 DEF HandlerAct, HandlerReferences
<1>11. CASE UNCHANGED everything
  BY <1>4, <1>11 DEF everything, vars, lifetimeVars
<1> QED
  BY <1>1, <1>2, <1>3, <1>5, <1>6, <1>7, <1>8, <1>10, <1>11 DEF LifetimeNext

-----------------------------------------------------------------------------
(* References *)

\* The events that hold a command queue.
EventsOf(q) == {e \in Events \cap live : queue[e] = q}

LEMMA CountFacts ==
    ASSUME LiveInv
    PROVE  /\ \A e \in Events : IsFiniteSet(WaitListEntries(e)) /\ Cardinality(WaitListEntries(e)) \in Nat
           /\ \A q : IsFiniteSet(EventsOf(q)) /\ Cardinality(EventsOf(q)) \in Nat
           /\ IsFiniteSet(live \ {Ctx}) /\ Cardinality(live \ {Ctx}) \in Nat
           /\ \A e : HeldDirectly(e) \in Nat
           /\ \A o \in Objects : refs[o] \in Nat
<1>1. IsFiniteSet(live)
  BY DEF LiveInv
<1>2. ASSUME NEW e \in Events
      PROVE  IsFiniteSet(WaitListEntries(e)) /\ Cardinality(WaitListEntries(e)) \in Nat
  <2>1. IsFiniteSet(1..MaxWaitList)
    BY FS_Interval, EventQueueAssumption
  <2>2. IsFiniteSet(live \X (1..MaxWaitList))
    BY <1>1, <2>1, FS_Product
  <2>3. WaitListEntries(e) \in SUBSET (live \X (1..MaxWaitList))
    BY DEF WaitListEntries
  <2>4. IsFiniteSet(WaitListEntries(e))
    BY <2>2, <2>3, FS_Subset
  <2> QED
    BY <2>4, FS_CardinalityType
<1>3. ASSUME NEW q
      PROVE  IsFiniteSet(EventsOf(q)) /\ Cardinality(EventsOf(q)) \in Nat
  <2>1. EventsOf(q) \in SUBSET live
    BY DEF EventsOf
  <2>2. IsFiniteSet(EventsOf(q))
    BY <1>1, <2>1, FS_Subset
  <2> QED
    BY <2>2, FS_CardinalityType
<1>4. IsFiniteSet(live \ {Ctx})
  BY <1>1, FS_RemoveElement
<1>5. Cardinality(live \ {Ctx}) \in Nat
  BY <1>4, FS_CardinalityType
<1>6. \A e : HeldDirectly(e) \in Nat
  BY DEF HeldDirectly, Indicator
<1> QED
  BY <1>2, <1>3, <1>4, <1>5, <1>6 DEF LiveInv

\* What the counts say of one object.
LEMMA CountsOf ==
    ASSUME CountsMatch
    PROVE  /\ \A e \in Events : refs[e] = HeldDirectly(e) + Cardinality(WaitListEntries(e))
           /\ \A q \in Queues : refs[q] = Indicator(q \in owned) + Cardinality(EventsOf(q))
           /\ refs[Ctx] = Indicator(Ctx \in owned) + Cardinality(live \ {Ctx})
  BY DEF CountsMatch, EventHolders, EventsOf

LEMMA ObjectFacts ==
    /\ Events \subseteq Objects /\ Queues \subseteq Objects /\ Ctx \in Objects
    /\ \A o \in Objects : o \in Events \/ o \in Queues \/ o = Ctx
    /\ \A e \in Events : e \notin Queues /\ e # Ctx
    /\ \A q \in Queues : q \notin Events /\ q # Ctx
    /\ Commands \subseteq Events /\ NONE \notin Events /\ NONE \notin Queues
  BY EventQueueAssumption, ObjectLifetimeAssumption DEF Objects, Events

\* What somebody holds is alive.
LEMMA HeldIsLive ==
    ASSUME IndInv, HandInv, LiveInv, CountsMatch
    PROVE  NothingFreedInUse
<1>0. TypeOK
  BY DEF IndInv
<1>1. \A e \in Events : HeldDirectly(e) # 0 => e \in live
  BY CountFacts, CountsOf, ObjectFacts DEF LiveInv
<1>2. ASSUME NEW e \in Events, e \in owned \cup prepared \cup calling \cup Range(buffer) \/ peeked = e
      PROVE  e \in live
  BY <1>1, <1>2 DEF HeldDirectly, Indicator
<1>3. \A q \in Queues : q \in owned => q \in live
  BY CountFacts, CountsOf, ObjectFacts DEF LiveInv, Indicator
<1>4. prepared \cup calling \cup Range(buffer) \subseteq Events
  BY <1>0, ObjectFacts DEF TypeOK, HandInv, Range
<1>5. owned \cup prepared \cup calling \cup Range(buffer) \subseteq live
  BY <1>2, <1>3, <1>4 DEF HandInv
<1>6. hpc \in Busy => hevent \in live
  BY <1>5, HeadFacts DEF Range
<1>7. peeked # NONE => peeked \in live
  BY <1>2, ObjectFacts DEF HandInv
<1>8. ASSUME NEW e \in Events \cap live
      PROVE  WaitsFor(e) \subseteq live /\ Ctx \in live /\ (queue[e] # NONE => queue[e] \in live)
  <2>1. ASSUME NEW k \in DOMAIN waitList[e]
        PROVE  waitList[e][k] \in live
    <3> DEFINE w == waitList[e][k]
    <3>1. /\ waitList[e] \in Seq(Events) /\ DOMAIN waitList[e] = 1..Len(waitList[e])
          /\ Len(waitList[e]) <= MaxWaitList /\ Len(waitList[e]) \in Nat
      BY <1>0 DEF TypeOK, HandInv
    <3>2. w \in Events /\ k \in 1..MaxWaitList
      BY <3>1, EventQueueAssumption
    <3>3. e \in Commands
      <4>1. DOMAIN <<>> = {}
        BY EmptySeq
      <4> QED
        BY <4>1 DEF HandInv, Events
    <3>4. <<e, k>> \in WaitListEntries(w)
      BY <3>2, <3>3 DEF WaitListEntries
    <3>5. Cardinality(WaitListEntries(w)) # 0
      BY <3>2, <3>4, CountFacts, FS_EmptySet
    <3>6. refs[w] > 0
      BY <3>2, <3>5, CountFacts, CountsOf
    <3> QED
      BY <3>2, <3>6, ObjectFacts DEF LiveInv
  <2>2. Ctx \in live
    <3>1. e \in live \ {Ctx}
      BY ObjectFacts
    <3>2. Cardinality(live \ {Ctx}) # 0
      BY <3>1, CountFacts, FS_EmptySet
    <3> QED
      BY <3>2, CountFacts, CountsOf, ObjectFacts DEF LiveInv, Indicator
  <2>3. ASSUME queue[e] # NONE PROVE queue[e] \in live
    <3>1. queue[e] \in Queues
      BY <1>0, <2>3 DEF TypeOK
    <3>2. e \in EventsOf(queue[e])
      BY DEF EventsOf
    <3>3. Cardinality(EventsOf(queue[e])) # 0
      BY <3>2, CountFacts, FS_EmptySet
    <3> QED
      BY <3>1, <3>3, CountFacts, CountsOf, ObjectFacts DEF LiveInv, Indicator
  <2> QED
    BY <2>1, <2>2, <2>3 DEF WaitsFor, Range
<1> QED
  BY <1>5, <1>6, <1>7, <1>8 DEF NothingFreedInUse, Busy

\* Nobody gains or loses a reference.
LEMMA CountsSame ==
    ASSUME LiveInv, CountsMatch, UNCHANGED <<refs, live, queue, waitList>>,
           \A e \in Events : HeldDirectly(e)' = HeldDirectly(e),
           \A o \in Queues \cup {Ctx} : o \in owned' <=> o \in owned
    PROVE  LiveInv' /\ CountsMatch'
<1>1. \A e : WaitListEntries(e)' = WaitListEntries(e)
  BY DEF WaitListEntries
<1>2. CountsMatch'
  BY <1>1 DEF CountsMatch, EventHolders, Indicator
<1> QED
  BY <1>2 DEF LiveInv

\* An event gets one more reference.
LEMMA CountsRetain ==
    ASSUME LiveInv, CountsMatch, NEW x \in Events, x \in live, Retain(x),
           UNCHANGED <<queue, waitList>>,
           HeldDirectly(x)' = HeldDirectly(x) + 1,
           \A e \in Events : e # x => HeldDirectly(e)' = HeldDirectly(e),
           \A o \in Queues \cup {Ctx} : o \in owned' <=> o \in owned
    PROVE  LiveInv' /\ CountsMatch'
<1>0. x \in Objects
  BY ObjectFacts
<1>1. /\ live' = live /\ refs' = [refs EXCEPT ![x] = refs[x] + 1]
      /\ refs'[x] = refs[x] + 1 /\ \A o \in Objects : o # x => refs'[o] = refs[o]
  BY <1>0 DEF Retain, LiveInv
<1>2. \A e : WaitListEntries(e)' = WaitListEntries(e)
  BY <1>1 DEF WaitListEntries
<1>3. \A e \in Events : refs'[e] = EventHolders(e)'
  BY <1>1, <1>2, CountFacts, CountsOf, ObjectFacts DEF EventHolders
<1>4. /\ \A q \in Queues : refs'[q] = Indicator(q \in owned') + Cardinality({e \in Events \cap live : queue[e] = q})
      /\ refs'[Ctx] = Indicator(Ctx \in owned') + Cardinality(live \ {Ctx})
  BY <1>1, ObjectFacts DEF CountsMatch, Indicator
<1>5. CountsMatch'
  BY <1>1, <1>3, <1>4 DEF CountsMatch
<1>6. LiveInv'
  BY <1>0, <1>1 DEF LiveInv
<1> QED
  BY <1>5, <1>6

\* What Object::release does to the counts, the destructors it calls included.
LEMMA ReleaseFacts ==
    ASSUME LiveInv, NEW n \in [Objects -> Nat], Release(n), n[Ctx] = 0, UNCHANGED queue,
           \A e \in Events : n[e] <= refs[e],
           \A q \in Queues : n[q] + Cardinality(EventsOf(q)) <= refs[q],
           Cardinality(live \ {Ctx}) <= refs[Ctx]
    PROVE  /\ LiveInv' /\ live' \subseteq live
           /\ \A e \in Events : refs'[e] = refs[e] - n[e]
           /\ \A q \in Queues : refs'[q] =
                refs[q] - n[q] - Cardinality(EventsOf(q)) + Cardinality(EventsOf(q)')
           /\ refs'[Ctx] = refs[Ctx] - Cardinality(live \ {Ctx}) + Cardinality((live \ {Ctx})')
<1> DEFINE D == {e \in Events \cap live : n[e] > 0 /\ refs[e] = n[e]}
           F(q) == Cardinality({e \in D : queue[e] = q})
           DQ == {q \in Queues \cap live : refs[q] = n[q] + F(q)}
           left == [o \in Objects |->
                        refs[o] - n[o] - IF o \in Queues THEN F(o)
                                         ELSE IF o = Ctx
                                         THEN Cardinality(D) + Cardinality(DQ)
                                         ELSE 0]
<1>1. refs' = left /\ live' = {o \in live : left[o] > 0}
  BY DEF Release
<1>2. IsFiniteSet(live) /\ live \subseteq Objects
  BY DEF LiveInv
<1>3. \A o \in Objects : refs[o] \in Nat /\ n[o] \in Nat /\ (o \in live <=> refs[o] > 0)
  BY DEF LiveInv
<1>4. D \subseteq Events /\ \A e \in Events \cap live : e \in D <=> refs[e] = n[e]
  BY <1>3, ObjectFacts
<1>5. /\ \A e \in Events : left[e] = refs[e] - n[e]
      /\ \A q \in Queues : left[q] = refs[q] - n[q] - F(q)
      /\ left[Ctx] = refs[Ctx] - (Cardinality(D) + Cardinality(DQ))
  <2>1. \A e \in Events : left[e] = refs[e] - n[e]
    BY <1>3, ObjectFacts
  <2>2. \A q \in Queues : left[q] = refs[q] - n[q] - F(q)
    BY ObjectFacts
  <2>3. left[Ctx] = refs[Ctx] - 0 - (Cardinality(D) + Cardinality(DQ))
    BY ObjectFacts
  <2>4. refs[Ctx] - 0 = refs[Ctx]
    BY <1>3, ObjectFacts
  <2> QED
    BY <2>1, <2>2, <2>3, <2>4
<1>6. DQ \subseteq Queues \cap live /\ D \subseteq live
      /\ DOMAIN left = Objects
      /\ \A q \in Queues \cap live : q \in DQ <=> refs[q] = n[q] + F(q)
  OBVIOUS
<1>7. IsFiniteSet(D) /\ IsFiniteSet(DQ) /\ Cardinality(D) \in Nat /\ Cardinality(DQ) \in Nat
  <2>1. IsFiniteSet(D) /\ IsFiniteSet(DQ)
    BY <1>2, <1>6, FS_Subset
  <2> QED
    BY <2>1, FS_CardinalityType
<1> DEFINE dead(q) == {e \in D : queue[e] = q}
<1>8. ASSUME NEW q \in Queues
      PROVE  /\ F(q) \in Nat /\ F(q) <= Cardinality(EventsOf(q))
             /\ Cardinality(EventsOf(q) \ dead(q)) = Cardinality(EventsOf(q)) - F(q)
  <2>1. dead(q) \subseteq EventsOf(q)
    BY <1>4, <1>6 DEF EventsOf
  <2>2. IsFiniteSet(EventsOf(q)) /\ Cardinality(EventsOf(q)) \in Nat
    BY CountFacts
  <2>3. F(q) = Cardinality(dead(q))
    OBVIOUS
  <2> HIDE DEF D, F, dead
  <2>4. IsFiniteSet(dead(q)) /\ Cardinality(dead(q)) <= Cardinality(EventsOf(q))
    BY <2>1, <2>2, FS_Subset
  <2>5. Cardinality(dead(q)) \in Nat
    BY <2>4, FS_CardinalityType
  <2>6. EventsOf(q) \cap dead(q) = dead(q)
    BY <2>1
  <2>7. Cardinality(EventsOf(q) \ dead(q)) = Cardinality(EventsOf(q)) - Cardinality(EventsOf(q) \cap dead(q))
    BY <2>2, FS_Difference
  <2> QED
    BY <2>2, <2>3, <2>4, <2>5, <2>6, <2>7
<1>9. /\ Cardinality(D) + Cardinality(DQ) <= Cardinality(live \ {Ctx})
      /\ Cardinality((live \ {Ctx}) \ (D \cup DQ)) =
            Cardinality(live \ {Ctx}) - (Cardinality(D) + Cardinality(DQ))
  <2>1. D \cap DQ = {}
    BY <1>4, <1>6, ObjectFacts
  <2>2. D \cup DQ \subseteq live \ {Ctx}
    BY <1>4, <1>6, ObjectFacts
  <2>3. IsFiniteSet(live \ {Ctx}) /\ Cardinality(live \ {Ctx}) \in Nat
    BY CountFacts
  <2> HIDE DEF D, DQ
  <2> DEFINE B == D \cup DQ
  <2>4. Cardinality(B) = Cardinality(D) + Cardinality(DQ) - Cardinality(D \cap DQ)
    BY <1>7, FS_Union
  <2>10. Cardinality(D \cap DQ) = 0
    BY <2>1, FS_EmptySet
  <2> HIDE DEF B
  <2>5. Cardinality(B) = Cardinality(D) + Cardinality(DQ)
    BY <1>7, <2>4, <2>10
  <2> USE DEF B
  <2>6. (live \ {Ctx}) \cap B = B
    BY <2>2
  <2>7. Cardinality((live \ {Ctx}) \ B) = Cardinality(live \ {Ctx}) - Cardinality((live \ {Ctx}) \cap B)
    BY <2>3, FS_Difference
  <2>8. Cardinality(B) <= Cardinality(live \ {Ctx})
    BY <2>2, <2>3, FS_Subset
  <2> QED
    BY <1>7, <2>3, <2>5, <2>6, <2>7, <2>8
<1> HIDE DEF D, F, DQ, left, dead
\* Nobody's count falls below zero.
<1>10. \A o \in Objects : left[o] \in Nat /\ left[o] <= refs[o]
  <2>1. \A e \in Events : left[e] \in Nat /\ left[e] <= refs[e]
    BY <1>3, <1>5, ObjectFacts
  <2>2. ASSUME NEW q \in Queues PROVE left[q] \in Nat /\ left[q] <= refs[q]
    <3>1. F(q) \in Nat /\ F(q) <= Cardinality(EventsOf(q)) /\ Cardinality(EventsOf(q)) \in Nat
      BY <1>8, CountFacts
    <3> QED
      BY <1>3, <1>5, <3>1, ObjectFacts
  <2>3. left[Ctx] \in Nat /\ left[Ctx] <= refs[Ctx]
    <3>1. Cardinality(live \ {Ctx}) \in Nat /\ refs[Ctx] \in Nat
      BY <1>3, CountFacts, ObjectFacts
    <3> QED
      BY <1>5, <1>7, <1>9, <3>1
  <2> QED
    BY <2>1, <2>2, <2>3, ObjectFacts
<1>11. LiveInv' /\ live' \subseteq live
  <2>1. IsFiniteSet(live') /\ live' \subseteq live
    BY <1>1, <1>2, FS_Subset
  <2>2. refs' \in [Objects -> Nat]
    BY <1>1, <1>6, <1>10 DEF left
  <2>3. \A o \in Objects : o \in live' <=> refs'[o] > 0
    BY <1>1, <1>3, <1>10
  <2> QED
    BY <1>2, <2>1, <2>2, <2>3 DEF LiveInv
<1>12. \A e \in Events \cap live : e \in live' <=> e \notin D
  BY <1>1, <1>3, <1>4, <1>5, ObjectFacts
<1>13. \A q \in Queues \cap live : q \in live' <=> q \notin DQ
  <2> SUFFICES ASSUME NEW q \in Queues \cap live
               PROVE  q \in live' <=> q \notin DQ
    OBVIOUS
  <2>1. left[q] = refs[q] - n[q] - F(q) /\ left[q] \in Nat /\ F(q) \in Nat
        /\ refs[q] \in Nat /\ n[q] \in Nat
    BY <1>3, <1>5, <1>8, <1>10, ObjectFacts
  <2>2. left[q] > 0 <=> refs[q] # n[q] + F(q)
    BY <2>1
  <2> QED
    BY <1>1, <1>6, <2>2
<1>14. \A q \in Queues : EventsOf(q)' = EventsOf(q) \ dead(q)
  <2>1. \A q : \A e \in Events \cap live : e \in dead(q) <=> e \in D /\ queue[e] = q
    BY DEF dead
  <2> QED
    BY <1>11, <1>12, <2>1 DEF EventsOf
<1>15. (live \ {Ctx})' = (live \ {Ctx}) \ (D \cup DQ)
  <2>1. \A o \in live \ {Ctx} : o \in live' <=> o \notin D \cup DQ
    BY <1>2, <1>4, <1>6, <1>12, <1>13, ObjectFacts
  <2> QED
    BY <1>11, <2>1
<1>16. ASSUME NEW q \in Queues
       PROVE  refs'[q] = refs[q] - n[q] - Cardinality(EventsOf(q)) + Cardinality(EventsOf(q)')
  <2>1. Cardinality(EventsOf(q)') = Cardinality(EventsOf(q)) - F(q)
    BY <1>8, <1>14
  <2>2. /\ refs'[q] = refs[q] - n[q] - F(q)
        /\ refs[q] \in Nat /\ n[q] \in Nat /\ F(q) \in Nat /\ Cardinality(EventsOf(q)) \in Nat
    BY <1>1, <1>3, <1>5, <1>8, CountFacts, ObjectFacts
  <2> QED
    BY <2>1, <2>2
<1>17. refs'[Ctx] = refs[Ctx] - Cardinality(live \ {Ctx}) + Cardinality((live \ {Ctx})')
  <2>1. Cardinality((live \ {Ctx})') = Cardinality(live \ {Ctx}) - (Cardinality(D) + Cardinality(DQ))
    BY <1>9, <1>15
  <2>2. refs'[Ctx] = refs[Ctx] - (Cardinality(D) + Cardinality(DQ))
    BY <1>1, <1>5
  <2>3. refs[Ctx] \in Nat /\ Cardinality(live \ {Ctx}) \in Nat
    BY <1>3, CountFacts, ObjectFacts
  <2> QED
    BY <1>7, <2>1, <2>2, <2>3
<1> QED
  BY <1>1, <1>5, <1>11, <1>16, <1>17

\* What is left of the entries naming e when a command's wait list is cleared.
EntriesLeft(e) == {x \in WaitListEntries(e) : waitList'[x[1]] # <<>>}

\* Who lets go of an object releases it as often as it held it.
LEMMA ReleaseStep ==
    ASSUME IndInv, HandInv, HandInv', LiveInv, CountsMatch,
           NEW n \in [Objects -> Nat], Release(n), n[Ctx] = 0, UNCHANGED queue,
           \A e \in Events : waitList'[e] = waitList[e] \/ waitList'[e] = <<>>,
           \A e \in Events : n[e] = HeldDirectly(e) - HeldDirectly(e)'
                                    + Cardinality(WaitListEntries(e)) - Cardinality(EntriesLeft(e)),
           \A q \in Queues : n[q] = Indicator(q \in owned) - Indicator(q \in owned')
    PROVE  LiveInv' /\ CountsMatch'
<1>1. \A e : HeldDirectly(e)' \in Nat
  BY DEF HeldDirectly, Indicator
<1>2. \A e \in Events : Cardinality(EntriesLeft(e)) \in Nat
  <2> SUFFICES ASSUME NEW e \in Events PROVE Cardinality(EntriesLeft(e)) \in Nat
    OBVIOUS
  <2>1. EntriesLeft(e) \subseteq WaitListEntries(e)
    BY DEF EntriesLeft
  <2>2. IsFiniteSet(EntriesLeft(e))
    BY <2>1, CountFacts, FS_Subset
  <2> QED
    BY <2>2, FS_CardinalityType
<1>3. \A e \in Events : refs[e] - n[e] = HeldDirectly(e)' + Cardinality(EntriesLeft(e)) /\ n[e] <= refs[e]
  <2> SUFFICES ASSUME NEW e \in Events
               PROVE  refs[e] - n[e] = HeldDirectly(e)' + Cardinality(EntriesLeft(e)) /\ n[e] <= refs[e]
    OBVIOUS
  <2>1. /\ refs[e] = HeldDirectly(e) + Cardinality(WaitListEntries(e))
        /\ n[e] = HeldDirectly(e) - HeldDirectly(e)'
                  + Cardinality(WaitListEntries(e)) - Cardinality(EntriesLeft(e))
    BY CountsOf
  <2>2. /\ HeldDirectly(e) \in Nat /\ HeldDirectly(e)' \in Nat
        /\ Cardinality(WaitListEntries(e)) \in Nat /\ Cardinality(EntriesLeft(e)) \in Nat
    BY <1>1, <1>2, CountFacts
  <2> QED
    BY <2>1, <2>2
<1>4. /\ \A q \in Queues : n[q] + Cardinality(EventsOf(q)) <= refs[q]
      /\ Cardinality(live \ {Ctx}) <= refs[Ctx]
  BY CountFacts, CountsOf DEF Indicator
<1>5. /\ LiveInv' /\ live' \subseteq live
      /\ \A e \in Events : refs'[e] = refs[e] - n[e]
      /\ \A q \in Queues : refs'[q] =
           refs[q] - n[q] - Cardinality(EventsOf(q)) + Cardinality(EventsOf(q)')
      /\ refs'[Ctx] = refs[Ctx] - Cardinality(live \ {Ctx}) + Cardinality((live \ {Ctx})')
  BY <1>3, <1>4, ReleaseFacts
\* A command that waits is held by its enqueue call or by the event buffer.
<1>6. \A d \in Commands : waitList'[d] # <<>> => d \in live'
  <2> SUFFICES ASSUME NEW d \in Commands, waitList'[d] # <<>> PROVE d \in live'
    OBVIOUS
  <2>1. HeldDirectly(d)' # 0
    BY DEF HandInv, HeldDirectly, Indicator
  <2>2. refs'[d] > 0
    BY <1>1, <1>2, <1>3, <1>5, <2>1, ObjectFacts
  <2> QED
    BY <1>5, <2>2, ObjectFacts DEF LiveInv
<1>7. \A e \in Events : WaitListEntries(e)' = EntriesLeft(e)
  <2>1. DOMAIN <<>> = {}
    BY EmptySeq
  <2>2. \A d \in Commands : d \in live' /\ waitList'[d] # <<>> <=> d \in live /\ waitList'[d] # <<>>
    BY <1>5, <1>6
  <2>3. \A d \in Commands : waitList'[d] # <<>> => waitList'[d] = waitList[d]
    BY ObjectFacts
  <2> SUFFICES ASSUME NEW e \in Events, NEW x
               PROVE  x \in WaitListEntries(e)' <=> x \in EntriesLeft(e)
    OBVIOUS
  <2>4. x \in WaitListEntries(e)' <=>
          /\ x \in live' \X (1..MaxWaitList) /\ x[1] \in Commands
          /\ x[2] \in DOMAIN waitList'[x[1]] /\ waitList'[x[1]][x[2]] = e
    BY DEF WaitListEntries
  <2>5. x \in EntriesLeft(e) <=>
          /\ x \in live \X (1..MaxWaitList) /\ x[1] \in Commands /\ waitList'[x[1]] # <<>>
          /\ x[2] \in DOMAIN waitList[x[1]] /\ waitList[x[1]][x[2]] = e
    BY DEF WaitListEntries, EntriesLeft
  <2> QED
    BY <2>1, <2>2, <2>3, <2>4, <2>5
<1>8. /\ \A e \in Events : refs'[e] = EventHolders(e)'
      /\ \A q \in Queues : refs'[q] = Indicator(q \in owned') + Cardinality(EventsOf(q)')
  <2>1. \A e \in Events : refs'[e] = EventHolders(e)'
    BY <1>3, <1>5, <1>7 DEF EventHolders
  <2>2. ASSUME NEW q \in Queues
        PROVE  refs'[q] = Indicator(q \in owned') + Cardinality(EventsOf(q)')
    <3>1. IsFiniteSet(EventsOf(q)')
      <4>1. EventsOf(q)' \subseteq live' /\ IsFiniteSet(live')
        BY <1>5 DEF EventsOf, LiveInv
      <4> QED
        BY <4>1, FS_Subset
    <3>2. Cardinality(EventsOf(q)') \in Nat
      BY <3>1, FS_CardinalityType
    <3>3. /\ refs[q] = Indicator(q \in owned) + Cardinality(EventsOf(q))
          /\ Cardinality(EventsOf(q)) \in Nat
          /\ n[q] = Indicator(q \in owned) - Indicator(q \in owned')
      BY CountFacts, CountsOf
    <3>4. Indicator(q \in owned) \in Nat /\ Indicator(q \in owned') \in Nat
      BY DEF Indicator
    <3> QED
      BY <1>5, <3>2, <3>3, <3>4
  <2> QED
    BY <2>1, <2>2
<1>9. refs'[Ctx] = Indicator(Ctx \in owned') + Cardinality((live \ {Ctx})')
  <2>1. Ctx \notin owned /\ Ctx \notin owned'
    BY ObjectFacts DEF HandInv
  <2>2. IsFiniteSet(live')
    BY <1>5 DEF LiveInv
  <2>3. IsFiniteSet((live \ {Ctx})')
    BY <2>2, FS_RemoveElement
  <2>4. Cardinality((live \ {Ctx})') \in Nat
    BY <2>3, FS_CardinalityType
  <2> QED
    BY <1>5, <2>1, <2>4, CountFacts, CountsOf DEF Indicator
<1>10. CountsMatch'
  BY <1>8, <1>9 DEF CountsMatch, EventsOf
<1> QED
  BY <1>5, <1>10

\* One reference to one object is dropped.
LEMMA ReleaseOnce ==
    ASSUME IndInv, HandInv, HandInv', LiveInv, CountsMatch,
           NEW o \in Events \cup Queues, Release(Once(o)), UNCHANGED <<queue, waitList>>,
           \A e \in Events : HeldDirectly(e)' = HeldDirectly(e) - (IF e = o THEN 1 ELSE 0),
           \A q \in Queues : Indicator(q \in owned') = Indicator(q \in owned) - (IF q = o THEN 1 ELSE 0)
    PROVE  LiveInv' /\ CountsMatch'
<1>1. /\ Once(o) \in [Objects -> Nat] /\ Once(o)[Ctx] = 0
      /\ \A p \in Objects : Once(o)[p] = IF p = o THEN 1 ELSE 0
  BY ObjectFacts DEF Once
<1>2. \A e \in Events : EntriesLeft(e) = WaitListEntries(e)
  <2>1. DOMAIN <<>> = {}
    BY EmptySeq
  <2> QED
    BY <2>1 DEF EntriesLeft, WaitListEntries
<1>3. ASSUME NEW e \in Events
      PROVE  Once(o)[e] = HeldDirectly(e) - HeldDirectly(e)'
                          + Cardinality(WaitListEntries(e)) - Cardinality(EntriesLeft(e))
  <2>1. HeldDirectly(e) \in Nat /\ HeldDirectly(e)' \in Nat /\ Cardinality(WaitListEntries(e)) \in Nat
    BY CountFacts DEF HeldDirectly, Indicator
  <2>2. Cardinality(EntriesLeft(e)) = Cardinality(WaitListEntries(e))
    BY <1>2
  <2>3. HeldDirectly(e)' = HeldDirectly(e) - Once(o)[e] /\ Once(o)[e] \in Nat
    BY <1>1, ObjectFacts
  <2> QED
    BY <2>1, <2>2, <2>3
<1>4. ASSUME NEW q \in Queues
      PROVE  Once(o)[q] = Indicator(q \in owned) - Indicator(q \in owned')
  BY <1>1, ObjectFacts DEF Indicator
<1> HIDE DEF Once
<1> QED
  BY <1>1, <1>3, <1>4, ReleaseStep

\* The calls of the application and clFinish, but for those that enqueue.
LEMMA CallsKeepCounts ==
    ASSUME IndInv, HandInv, HandInv', LiveInv, CountsMatch,
           \/ \E e \in Commands : CallPush(e) \/ CallReturn(e)
           \/ \E o \in Objects : ReleaseObject(o)
           \/ \E e \in UserEvents, st \in Results : SignalUserEvent(e, st)
           \/ \E c \in Callbacks, e \in Events, type \in CallbackTypes : RegisterCallback(c, e, type)
           \/ \E q \in Queues : FinishTakes(q)
           \/ FinishDrops
    PROVE  LiveInv' /\ CountsMatch'
<1>0. /\ TypeOK /\ buffer \in Seq(Commands) /\ Commands \subseteq Events /\ NONE \notin Events
      /\ NothingFreedInUse
  BY HeldIsLive, ObjectFacts DEF IndInv, TypeOK
<1>1. ASSUME NEW e \in Commands, CallPush(e)
      PROVE  LiveInv' /\ CountsMatch'
  <2>1. /\ e \in prepared /\ prepared' = prepared \ {e} /\ calling' = calling \cup {e}
        /\ buffer' = Append(buffer, e) /\ Retain(e)
        /\ UNCHANGED <<queue, waitList, status, owned, peeked>>
    BY <1>1 DEF CallPush, Push, PushEvent
  <2>2. Range(buffer') = Range(buffer) \cup {e}
    BY <1>0, <2>1, AppendRange
  <2>3. e \notin Range(buffer) /\ e \in live
    BY <1>0, <2>1 DEF IndInv, PlaceInv, NothingFreedInUse, Range
  <2>4. HeldDirectly(e)' = HeldDirectly(e) + 1
    BY <2>1, <2>2, <2>3 DEF HeldDirectly, Indicator, QueuedReference, Finished
  <2>5. \A f \in Events : f # e => HeldDirectly(f)' = HeldDirectly(f)
    BY <2>1, <2>2 DEF HeldDirectly, Indicator, QueuedReference, Finished
  <2> QED
    BY <1>0, <2>1, <2>3, <2>4, <2>5, CountsRetain
<1>2. ASSUME NEW e \in Commands, CallReturn(e)
      PROVE  LiveInv' /\ CountsMatch'
  <2>1. /\ e \in calling /\ calling' = calling \ {e} /\ e \notin prepared /\ e \notin owned
        /\ UNCHANGED <<queue, waitList, status, prepared, buffer, peeked>>
    BY <1>2 DEF CallReturn, vars, HandInv
  <2>2. CASE owned' = owned \cup {e} /\ UNCHANGED <<refs, live>>
    <3>1. \A f \in Events : HeldDirectly(f)' = HeldDirectly(f)
      BY <2>1, <2>2 DEF HeldDirectly, Indicator, QueuedReference, Finished
    <3> QED
      BY <1>0, <2>1, <2>2, <3>1, ObjectFacts, CountsSame
  <2>3. CASE owned' = owned /\ Release(Once(e))
    <3>1. \A f \in Events : HeldDirectly(f)' = HeldDirectly(f) - (IF f = e THEN 1 ELSE 0)
      BY <2>1, <2>3 DEF HeldDirectly, Indicator, QueuedReference, Finished
    <3>2. \A q \in Queues : Indicator(q \in owned') = Indicator(q \in owned) - (IF q = e THEN 1 ELSE 0)
      BY <1>0, <2>3, ObjectFacts DEF Indicator
    <3> QED
      BY <1>0, <2>1, <2>3, <3>1, <3>2, ReleaseOnce
  <2> QED
    BY <1>2, <2>2, <2>3 DEF CallReturn
<1>3. ASSUME NEW o \in Objects, ReleaseObject(o)
      PROVE  LiveInv' /\ CountsMatch'
  <2>1. /\ o \in owned /\ owned' = owned \ {o} /\ Release(Once(o))
        /\ UNCHANGED <<queue, waitList, status, prepared, calling, buffer, peeked>>
    BY <1>3 DEF ReleaseObject, vars
  <2>2. \A f \in Events : HeldDirectly(f)' = HeldDirectly(f) - (IF f = o THEN 1 ELSE 0)
    BY <2>1 DEF HeldDirectly, Indicator, QueuedReference, Finished
  <2>3. \A q \in Queues : Indicator(q \in owned') = Indicator(q \in owned) - (IF q = o THEN 1 ELSE 0)
    BY <2>1 DEF Indicator
  <2>4. o \in Events \cup Queues
    BY <2>1 DEF HandInv
  <2> QED
    BY <2>1, <2>2, <2>3, <2>4, ReleaseOnce
<1>4. ASSUME NEW e \in UserEvents, NEW st \in Results, SignalUserEvent(e, st)
      PROVE  LiveInv' /\ CountsMatch'
  <2>1. /\ \A f \in Events : f # e => status'[f] = status[f]
        /\ UNCHANGED <<refs, live, queue, waitList, owned, prepared, calling, buffer, peeked>>
    BY <1>0, <1>4 DEF SignalUserEvent, SetUserEventStatus, lifetimeVars, TypeOK
  <2>2. queue[e] = NONE
    BY DEF HandInv
  <2>3. \A f \in Events : QueuedReference(f)' <=> QueuedReference(f)
    BY <2>1, <2>2 DEF QueuedReference, Finished
  <2>4. \A f \in Events : HeldDirectly(f)' = HeldDirectly(f)
    BY <2>1, <2>3 DEF HeldDirectly, Indicator
  <2> QED
    BY <2>1, <2>4, CountsSame
<1>5. ASSUME NEW c \in Callbacks, NEW e \in Events, NEW type \in CallbackTypes,
             RegisterCallback(c, e, type)
      PROVE  LiveInv' /\ CountsMatch'
  <2>1. UNCHANGED <<refs, live, queue, waitList, owned, prepared, calling, buffer, peeked, status>>
    BY <1>5 DEF RegisterCallback, SetEventCallback, lifetimeVars
  <2>2. \A f \in Events : HeldDirectly(f)' = HeldDirectly(f)
    BY <2>1 DEF HeldDirectly, Indicator, QueuedReference, Finished
  <2> QED
    BY <2>1, <2>2, CountsSame
<1>6. ASSUME NEW q \in Queues, FinishTakes(q)
      PROVE  LiveInv' /\ CountsMatch'
  <2>1. PICK i \in DOMAIN buffer : peeked' = buffer[i] /\ Retain(buffer[i])
    BY <1>6 DEF FinishTakes
  <2>2. /\ peeked = NONE
        /\ UNCHANGED <<queue, waitList, status, owned, prepared, calling, buffer>>
    BY <1>6 DEF FinishTakes, vars
  <2>3. buffer[i] \in Commands /\ buffer[i] \in live
    BY <1>0 DEF NothingFreedInUse, Range
  <2>4. HeldDirectly(buffer[i])' = HeldDirectly(buffer[i]) + 1
    <3>1. PICK x : x = buffer[i]
      OBVIOUS
    <3>2. HeldDirectly(x)' = HeldDirectly(x) + 1
      BY <1>0, <2>1, <2>2, <2>3, <3>1 DEF HeldDirectly, Indicator, QueuedReference, Finished
    <3> QED
      BY <2>2, <3>1, <3>2
  <2>5. \A f \in Events : f # buffer[i] => HeldDirectly(f)' = HeldDirectly(f)
    BY <1>0, <2>1, <2>2 DEF HeldDirectly, Indicator, QueuedReference, Finished
  <2> QED
    BY <1>0, <2>1, <2>2, <2>3, <2>4, <2>5, CountsRetain
<1>7. ASSUME FinishDrops
      PROVE  LiveInv' /\ CountsMatch'
  <2>1. /\ peeked # NONE /\ peeked' = NONE /\ Release(Once(peeked))
        /\ UNCHANGED <<queue, waitList, status, owned, prepared, calling, buffer>>
    BY <1>7 DEF FinishDrops, vars
  <2>2. PICK x \in Commands : x = peeked
    BY <2>1 DEF HandInv
  <2>3. \A f \in Events : HeldDirectly(f)' = HeldDirectly(f) - (IF f = x THEN 1 ELSE 0)
    BY <1>0, <2>1, <2>2 DEF HeldDirectly, Indicator, QueuedReference, Finished
  <2>4. \A q \in Queues : Indicator(q \in owned') = Indicator(q \in owned) - (IF q = x THEN 1 ELSE 0)
    BY <1>0, <2>1, ObjectFacts DEF Indicator
  <2> QED
    BY <1>0, <2>1, <2>2, <2>3, <2>4, ReleaseOnce
<1> QED
  BY <1>1, <1>2, <1>3, <1>4, <1>5, <1>6, <1>7

\* The wait list of the handler's event is cleared: each event in it was named
\* there once.
LEMMA ClearKeepsCounts ==
    ASSUME IndInv, HandInv, HandInv', LiveInv, CountsMatch, ClearWaitList,
           Release([o \in Objects |-> InWaitList(o, hevent)]),
           UNCHANGED <<owned, calling, peeked>>
    PROVE  LiveInv' /\ CountsMatch'
<1> DEFINE list == waitList[hevent]
           n == [o \in Objects |-> InWaitList(o, hevent)]
<1>0. /\ hpc = "clear" /\ waitList' = [waitList EXCEPT ![hevent] = <<>>]
      /\ UNCHANGED <<queue, status, prepared, buffer>>
  BY DEF ClearWaitList, HandlerStep
<1>1. /\ TypeOK /\ hevent \in Commands /\ hevent \in Events /\ hevent \in live
      /\ list \in Seq(Events) /\ DOMAIN list = 1..Len(list) /\ Len(list) \in Nat
      /\ Len(list) <= MaxWaitList /\ IsInjective(list)
      /\ DOMAIN <<>> = {}
  BY <1>0, HeldIsLive, HeadFacts, EmptySeq
  DEF IndInv, TypeOK, HandInv, Busy, NothingFreedInUse
<1>2. /\ waitList'[hevent] = <<>>
      /\ \A d \in Events : d # hevent => waitList'[d] = waitList[d]
  BY <1>0, <1>1 DEF TypeOK
<1>3. \A e : HeldDirectly(e)' = HeldDirectly(e)
  BY <1>0 DEF HeldDirectly, Indicator, QueuedReference, Finished
<1>4. \A o : {i \in DOMAIN list : list[i] = o} = {} \/ \E k \in DOMAIN list :
          list[k] = o /\ {i \in DOMAIN list : list[i] = o} = {k}
  BY <1>1 DEF IsInjective
<1>5. \A o : (\A i \in DOMAIN list : list[i] # o) => InWaitList(o, hevent) = 0
  <2>1. \A o : (\A i \in DOMAIN list : list[i] # o) => {i \in DOMAIN list : list[i] = o} = {}
    OBVIOUS
  <2>2. Cardinality({}) = 0
    BY FS_EmptySet
  <2> QED
    BY <2>1, <2>2 DEF InWaitList
<1>6. ASSUME NEW o, NEW k \in DOMAIN list, list[k] = o
      PROVE  InWaitList(o, hevent) = 1
  <2>1. {i \in DOMAIN list : list[i] = o} = {k}
    BY <1>4, <1>6
  <2>2. Cardinality({k}) = 1
    BY FS_Singleton
  <2> QED
    BY <2>1, <2>2 DEF InWaitList
<1>7. n \in [Objects -> Nat]
  BY <1>5, <1>6
<1>8. n[Ctx] = 0 /\ \A q \in Queues : n[q] = 0
  <2>1. \A i \in DOMAIN list : list[i] \in Events
    BY <1>1
  <2> QED
    BY <1>5, <2>1, ObjectFacts
<1>9. ASSUME NEW e \in Events
      PROVE  /\ IsFiniteSet(EntriesLeft(e))
             /\ n[e] = Cardinality(WaitListEntries(e)) - Cardinality(EntriesLeft(e))
  <2>0. /\ IsFiniteSet(WaitListEntries(e)) /\ Cardinality(WaitListEntries(e)) \in Nat
        /\ n[e] = InWaitList(e, hevent)
    BY CountFacts, ObjectFacts
  <2>1. \A x \in WaitListEntries(e) : x \in EntriesLeft(e) <=> x[1] # hevent
    BY <1>1, <1>2, ObjectFacts DEF WaitListEntries, EntriesLeft
  <2>2. EntriesLeft(e) \subseteq WaitListEntries(e)
    BY DEF EntriesLeft
  <2>3. IsFiniteSet(EntriesLeft(e))
    BY <2>0, <2>2, FS_Subset
  <2>4. CASE \A i \in DOMAIN list : list[i] # e
    <3>1. EntriesLeft(e) = WaitListEntries(e)
      BY <2>1, <2>2, <2>4 DEF WaitListEntries
    <3> QED
      BY <1>5, <2>0, <2>3, <2>4, <3>1
  <2>5. ASSUME NEW k \in DOMAIN list, list[k] = e
        PROVE  n[e] = Cardinality(WaitListEntries(e)) - Cardinality(EntriesLeft(e))
    <3>1. k \in 1..MaxWaitList
      BY <1>1, EventQueueAssumption
    <3>2. <<hevent, k>> \in WaitListEntries(e)
      BY <1>1, <2>5, <3>1 DEF WaitListEntries
    <3>3. \A x \in WaitListEntries(e) : x[1] = hevent => x = <<hevent, k>>
      BY <1>1, <2>5 DEF WaitListEntries, IsInjective
    <3>4. EntriesLeft(e) = WaitListEntries(e) \ {<<hevent, k>>}
      BY <2>1, <2>2, <3>2, <3>3
    <3>5. Cardinality(WaitListEntries(e) \ {<<hevent, k>>}) = Cardinality(WaitListEntries(e)) - 1
      BY <2>0, <3>2, FS_RemoveElement
    <3> QED
      BY <1>6, <2>0, <2>5, <3>4, <3>5
  <2> QED
    BY <2>3, <2>4, <2>5
<1>10. \A e \in Events : n[e] = HeldDirectly(e) - HeldDirectly(e)'
                          + Cardinality(WaitListEntries(e)) - Cardinality(EntriesLeft(e))
  <2> SUFFICES ASSUME NEW e \in Events
               PROVE  n[e] = HeldDirectly(e) - HeldDirectly(e)'
                             + Cardinality(WaitListEntries(e)) - Cardinality(EntriesLeft(e))
    OBVIOUS
  <2>1. HeldDirectly(e) \in Nat /\ Cardinality(WaitListEntries(e)) \in Nat
    BY CountFacts
  <2>2. Cardinality(EntriesLeft(e)) \in Nat
    BY <1>9, FS_CardinalityType
  <2>3. HeldDirectly(e)' = HeldDirectly(e)
    BY <1>3
  <2>4. n[e] = Cardinality(WaitListEntries(e)) - Cardinality(EntriesLeft(e))
    BY <1>9
  <2> HIDE DEF n
  <2> QED
    BY <2>1, <2>2, <2>3, <2>4
<1>11. \A q \in Queues : n[q] = Indicator(q \in owned) - Indicator(q \in owned')
  BY <1>8 DEF Indicator
<1>12. Release(n)
  OBVIOUS
<1> HIDE DEF n
<1> QED
  BY <1>0, <1>1, <1>2, <1>7, <1>8, <1>10, <1>11, <1>12, ReleaseStep

\* The steps of the queue handler.
LEMMA HandlerKeepsCounts ==
    ASSUME IndInv, HandInv, HandInv', LiveInv, CountsMatch, HandlerAct
    PROVE  LiveInv' /\ CountsMatch'
<1>0. /\ TypeOK /\ buffer \in Seq(Commands) /\ Commands \subseteq Events
      /\ UNCHANGED <<owned, calling, peeked>>
      /\ hpc \in Busy => hevent \in Events /\ hevent \notin Queues /\ queue[hevent] # NONE
      /\ \A q \in Queues : Indicator(q \in owned') = Indicator(q \in owned)
  BY HeadFacts, ObjectFacts DEF IndInv, TypeOK, HandlerAct, Indicator
<1>1. CASE Action /\ Release(Once(hevent))
  <2>1. PICK st \in Results : UpdateStatus(hevent, st)
    BY <1>1 DEF Action
  <2>2. /\ hpc = "action" /\ hevent \in Events /\ hevent \notin Queues /\ queue[hevent] # NONE
        /\ status[hevent] = RUNNING
        /\ UNCHANGED <<queue, waitList, prepared, buffer>>
    BY <1>0, <1>1 DEF Action, HandlerStep, Busy, IndInv, HandlerInv
  <2>3. status'[hevent] = st /\ \A f \in Events : f # hevent => status'[f] = status[f]
    BY <1>0, <2>1, <2>2 DEF UpdateStatus, TypeOK
  <2>4. QueuedReference(hevent)
    BY <2>2 DEF QueuedReference, Finished, IsFinished, RUNNING, COMPLETE
  <2>5. ~(queue'[hevent] # NONE /\ (IsFinished(st) => st = ERROR_FOR_EVENTS_IN_WAIT_LIST))
    BY <2>2 DEF IsFinished, Results, COMPLETE, OUT_OF_RESOURCES, ERROR_FOR_EVENTS_IN_WAIT_LIST
  <2>6. \A f \in Events : f # hevent => (QueuedReference(f)' <=> QueuedReference(f))
    BY <2>2, <2>3 DEF QueuedReference, Finished
  <2>7. PICK x \in Events : x = hevent
    BY <2>2
  <2>8. ~QueuedReference(x)'
    BY <2>3, <2>5, <2>7 DEF QueuedReference, Finished
  <2>9. \A f \in Events : HeldDirectly(f)' = HeldDirectly(f) - (IF f = x THEN 1 ELSE 0)
    BY <1>0, <2>2, <2>4, <2>6, <2>7, <2>8 DEF HeldDirectly, Indicator
  <2> QED
    BY <1>0, <1>1, <2>2, <2>7, <2>9, ReleaseOnce DEF Indicator
<1>2. CASE Pop /\ Release(Once(hevent))
  <2>1. /\ hpc = "pop" /\ buffer' = Tail(buffer)
        /\ UNCHANGED <<queue, waitList, status, prepared>>
    BY <1>2 DEF Pop, HandlerStep
  <2>2. /\ hevent \in Events /\ hevent \notin Queues
        /\ buffer # <<>> /\ buffer[1] = hevent /\ hevent \in Range(buffer)
    BY <1>0, <2>1, HeadFacts DEF Busy, IndInv, HandlerInv, Range
  <2>3. Range(buffer') = Range(buffer) \ {hevent}
    BY <1>0, <2>1, <2>2, TailRange DEF IndInv, PlaceInv
  <2>4. PICK x \in Events : x = hevent
    BY <2>2
  <2>5. \A f \in Events : HeldDirectly(f)' = HeldDirectly(f) - (IF f = x THEN 1 ELSE 0)
    BY <1>0, <2>1, <2>2, <2>3, <2>4 DEF HeldDirectly, Indicator, QueuedReference, Finished
  <2> QED
    BY <1>0, <1>2, <2>1, <2>2, <2>4, <2>5, ReleaseOnce DEF Indicator
<1>3. CASE ClearWaitList /\ Release([o \in Objects |-> InWaitList(o, hevent)])
  BY <1>0, <1>3, ClearKeepsCounts
<1>4. CASE /\ Submit \/ Abort \/ Run
           /\ UNCHANGED <<refs, live>>
  <2>1. PICK st \in {SUBMITTED, ERROR_FOR_EVENTS_IN_WAIT_LIST, RUNNING} : UpdateStatus(hevent, st)
    BY <1>4 DEF Submit, Abort, Run
  <2>2. /\ hpc \in {"submit", "abort", "run"}
        /\ UNCHANGED <<queue, waitList, prepared, buffer>>
    BY <1>4 DEF Submit, Abort, Run, HandlerStep
  <2>3. /\ hevent \in Events /\ queue[hevent] # NONE /\ status[hevent] \in {QUEUED, SUBMITTED}
    BY <1>0, <2>2 DEF Busy, IndInv, HandlerInv
  <2>4. status'[hevent] = st /\ \A f \in Events : f # hevent => status'[f] = status[f]
    BY <1>0, <2>1, <2>3 DEF UpdateStatus, TypeOK
  <2>5. IsFinished(st) => st = ERROR_FOR_EVENTS_IN_WAIT_LIST
    BY DEF IsFinished, SUBMITTED, RUNNING, COMPLETE
  <2>6. \A f \in Events : QueuedReference(f)' <=> QueuedReference(f)
    BY <2>2, <2>3, <2>4, <2>5 DEF QueuedReference, Finished, IsFinished, QUEUED, SUBMITTED, COMPLETE
  <2>7. \A f \in Events : HeldDirectly(f)' = HeldDirectly(f)
    BY <1>0, <2>2, <2>6 DEF HeldDirectly, Indicator
  <2> QED
    BY <1>0, <1>4, <2>2, <2>7, CountsSame
<1>5. CASE /\ Peek \/ Scan \/ NotifyProcessed \/ Sleep \/ Timeout
           /\ UNCHANGED <<refs, live>>
  <2>1. UNCHANGED <<status, queue, waitList, prepared, buffer>>
    BY <1>5 DEF Peek, Scan, NotifyProcessed, Sleep, Timeout
  <2>2. \A f \in Events : HeldDirectly(f)' = HeldDirectly(f)
    BY <1>0, <2>1 DEF HeldDirectly, Indicator, QueuedReference, Finished
  <2> QED
    BY <1>0, <1>5, <2>1, <2>2, CountsSame
<1> QED
  BY <1>1, <1>2, <1>3, <1>4, <1>5 DEF HandlerAct, HandlerReferences

\* A new event is nowhere yet; what it takes with it is alive.
LEMMA EnqueueKeepsCounts ==
    ASSUME IndInv, HandInv, LiveInv, CountsMatch,
           NEW e \in Commands, NEW q \in Queues, CallEnqueue(e, q)
    PROVE  LiveInv' /\ CountsMatch'
<1>1. PICK list \in WaitLists : waitList' = [waitList EXCEPT ![e] = list]
  BY DEF CallEnqueue, Enqueue, SetEventWaitList
<1>2. /\ q \in owned /\ queue[e] = NONE /\ queue' = [queue EXCEPT ![e] = q]
      /\ prepared' = prepared \cup {e} /\ live' = live \cup {e}
      /\ Range(waitList'[e]) \subseteq owned
      /\ UNCHANGED <<owned, calling, peeked, handles, buffer, status>>
      /\ refs' = [o \in Objects |->
                     IF o = e THEN 2
                     ELSE refs[o] + (IF o \in {q, Ctx} THEN 1 ELSE 0) + InWaitList(o, e)']
  BY DEF CallEnqueue, Enqueue, EnqueueEvent, PrepareToQueue
<1>3. /\ TypeOK /\ e \in Events /\ e \in Objects /\ NONE \notin Events /\ NothingFreedInUse
      /\ e \notin Queues /\ e # Ctx /\ q # NONE /\ q \notin Events /\ q # Ctx
      /\ Commands \subseteq Events /\ buffer \in Seq(Commands)
  BY HeldIsLive, ObjectFacts DEF IndInv, TypeOK
<1>4. /\ queue'[e] = q /\ \A f \in Events : f # e => queue'[f] = queue[f]
      /\ waitList'[e] = list /\ \A f \in Events : f # e => waitList'[f] = waitList[f]
  BY <1>1, <1>2, <1>3 DEF TypeOK
<1>5. /\ list \in Seq(Events) /\ DOMAIN list = 1..Len(list) /\ Len(list) \in Nat
      /\ Len(list) <= MaxWaitList /\ IsInjective(list)
      /\ \A k \in DOMAIN list : list[k] \in Known /\ list[k] \in owned /\ list[k] \in Events
  BY <1>2, <1>3, <1>4, WaitListFacts DEF Range
\* Nobody knows the new event.
<1>6. e \notin Known
  BY <1>2, <1>3, EventQueueAssumption DEF Known, IndInv, PlaceInv
<1>7. /\ e \notin owned /\ e \notin prepared /\ e \notin calling /\ e \notin Range(buffer)
      /\ peeked # e /\ status[e] = QUEUED
  BY <1>2, <1>3, <1>6 DEF HandInv, Known, IndInv, PlaceInv, Range
<1>8. HeldDirectly(e) = 0
  BY <1>2, <1>7 DEF HeldDirectly, Indicator, QueuedReference
<1>9. WaitListEntries(e) = {}
  BY <1>6 DEF WaitListEntries, IndInv, WaitListInv
<1>10. refs[e] = 0 /\ e \notin live
  <2>1. Cardinality(WaitListEntries(e)) = 0
    BY <1>9, FS_EmptySet
  <2> QED
    BY <1>3, <1>8, <2>1, CountsOf DEF LiveInv
<1>11. HeldDirectly(e)' = 2
  BY <1>2, <1>3, <1>4, <1>7
  DEF HeldDirectly, Indicator, QueuedReference, Finished, IsFinished, QUEUED, COMPLETE
<1>12. \A f \in Events : f # e => HeldDirectly(f)' = HeldDirectly(f)
  BY <1>2, <1>3, <1>4 DEF HeldDirectly, Indicator, QueuedReference, Finished
<1>13. \A o : InWaitList(o, e)' = Cardinality({i \in DOMAIN list : list[i] = o})
  BY <1>4 DEF InWaitList
<1>14. \A o : (\A i \in DOMAIN list : list[i] # o) => InWaitList(o, e)' = 0
  <2>1. \A o : (\A i \in DOMAIN list : list[i] # o) => {i \in DOMAIN list : list[i] = o} = {}
    OBVIOUS
  <2> QED
    BY <1>13, <2>1, FS_EmptySet
<1>15. ASSUME NEW o, NEW k \in DOMAIN list, list[k] = o
       PROVE  InWaitList(o, e)' = 1
  <2>1. {i \in DOMAIN list : list[i] = o} = {k}
    BY <1>5, <1>15 DEF IsInjective
  <2>2. Cardinality({k}) = 1
    BY FS_Singleton
  <2> QED
    BY <1>13, <2>1, <2>2
<1>16. \A o : InWaitList(o, e)' \in {0, 1}
  BY <1>14, <1>15
<1>17. \A o : o \notin Events => InWaitList(o, e)' = 0
  BY <1>5, <1>14
<1>18. \A o \in Objects : o # e => refs'[o] = refs[o] + (IF o \in {q, Ctx} THEN 1 ELSE 0) + InWaitList(o, e)'
  BY <1>2
<1>19. refs'[e] = 2
  BY <1>2, <1>3
\* The entries of the new wait list.
<1>20. ASSUME NEW f \in Events
       PROVE  Cardinality(WaitListEntries(f)') = Cardinality(WaitListEntries(f)) + InWaitList(f, e)'
  <2>1. \A x : x[1] # e => (x \in WaitListEntries(f)' <=> x \in WaitListEntries(f))
    BY <1>2, <1>3, <1>4 DEF WaitListEntries
  <2>2. \A x \in WaitListEntries(f) : x[1] # e
    BY <1>10 DEF WaitListEntries
  <2>3. \A x : x[1] = e => (x \in WaitListEntries(f)' <=>
              x \in {e} \X (1..MaxWaitList) /\ x[2] \in DOMAIN list /\ list[x[2]] = f)
    BY <1>2, <1>4 DEF WaitListEntries
  <2>4. CASE \A i \in DOMAIN list : list[i] # f
    <3>1. WaitListEntries(f)' = WaitListEntries(f)
      BY <2>1, <2>2, <2>3, <2>4
    <3> QED
      BY <1>14, <2>4, <3>1, CountFacts
  <2>5. ASSUME NEW k \in DOMAIN list, list[k] = f
        PROVE  Cardinality(WaitListEntries(f)') = Cardinality(WaitListEntries(f)) + InWaitList(f, e)'
    <3>1. k \in 1..MaxWaitList
      BY <1>5, EventQueueAssumption
    <3>2. \A x : x[1] = e => (x \in WaitListEntries(f)' <=> x = <<e, k>>)
      BY <1>5, <2>3, <2>5, <3>1 DEF IsInjective
    <3>3. WaitListEntries(f)' = WaitListEntries(f) \cup {<<e, k>>}
      <4>1. <<e, k>>[1] = e
        OBVIOUS
      <4> QED
        BY <2>1, <2>2, <3>2, <4>1
    <3>4. <<e, k>> \notin WaitListEntries(f)
      BY <1>10 DEF WaitListEntries
    <3>5. Cardinality(WaitListEntries(f) \cup {<<e, k>>}) = Cardinality(WaitListEntries(f)) + 1
      BY <3>4, CountFacts, FS_AddElement
    <3> QED
      BY <1>15, <2>5, <3>3, <3>5
  <2> QED
    BY <2>4, <2>5
<1>21. \A f \in Events : refs'[f] = EventHolders(f)'
  <2>1. refs'[e] = EventHolders(e)'
    <3>1. InWaitList(e, e)' = 0
      BY <1>5, <1>6, <1>14
    <3>2. Cardinality(WaitListEntries(e)) = 0
      BY <1>9, FS_EmptySet
    <3>3. Cardinality(WaitListEntries(e)') = 0
      BY <1>3, <1>20, <3>1, <3>2
    <3> QED
      BY <1>11, <1>19, <3>3 DEF EventHolders
  <2>2. ASSUME NEW f \in Events, f # e
        PROVE  refs'[f] = EventHolders(f)'
    <3>1. f \in Objects /\ f \notin {q, Ctx}
      BY <1>3, ObjectFacts
    <3>2. refs'[f] = refs[f] + 0 + InWaitList(f, e)'
      BY <1>18, <2>2, <3>1
    <3>3. /\ HeldDirectly(f) \in Nat /\ Cardinality(WaitListEntries(f)) \in Nat
          /\ InWaitList(f, e)' \in Nat
          /\ refs[f] = HeldDirectly(f) + Cardinality(WaitListEntries(f))
      BY <1>16, CountFacts, CountsOf
    <3>4. EventHolders(f)' = HeldDirectly(f) + (Cardinality(WaitListEntries(f)) + InWaitList(f, e)')
      BY <1>12, <1>20, <2>2 DEF EventHolders
    <3> QED
      BY <3>2, <3>3, <3>4
  <2> QED
    BY <2>1, <2>2
<1>22. ASSUME NEW p \in Queues
       PROVE  refs'[p] = Indicator(p \in owned') + Cardinality(EventsOf(p)')
  <2>0. /\ refs'[p] = refs[p] + (IF p = q THEN 1 ELSE 0) + 0
        /\ refs[p] = Indicator(p \in owned) + Cardinality(EventsOf(p))
        /\ Indicator(p \in owned) \in Nat /\ Cardinality(EventsOf(p)) \in Nat
        /\ IsFiniteSet(EventsOf(p)) /\ p \notin Events
    BY <1>3, <1>17, <1>18, CountFacts, CountsOf, ObjectFacts DEF Indicator
  <2>1. owned' = owned
    BY <1>2
  <2>2. CASE p = q
    <3>1. EventsOf(p)' = EventsOf(p) \cup {e} /\ e \notin EventsOf(p)
      BY <1>2, <1>3, <1>4, <1>10, <2>2 DEF EventsOf
    <3>2. Cardinality(EventsOf(p) \cup {e}) = Cardinality(EventsOf(p)) + 1
      BY <2>0, <3>1, FS_AddElement
    <3>3. refs'[p] = refs[p] + 1 + 0
      BY <2>0, <2>2
    <3> QED
      BY <2>0, <2>1, <3>1, <3>2, <3>3
  <2>3. CASE p # q
    <3>1. EventsOf(p)' = EventsOf(p)
      BY <1>2, <1>3, <1>4, <1>10, <2>3 DEF EventsOf
    <3>2. refs'[p] = refs[p] + 0 + 0
      BY <2>0, <2>3
    <3> QED
      BY <2>0, <2>1, <3>1, <3>2
  <2> QED
    BY <2>2, <2>3
<1>23. refs'[Ctx] = Indicator(Ctx \in owned') + Cardinality((live \ {Ctx})')
  <2>0. /\ IsFiniteSet(live \ {Ctx}) /\ Cardinality(live \ {Ctx}) \in Nat
        /\ refs[Ctx] = Indicator(Ctx \in owned) + Cardinality(live \ {Ctx})
        /\ Indicator(Ctx \in owned) \in Nat /\ Indicator(Ctx \in owned') = Indicator(Ctx \in owned)
    BY <1>2, CountFacts, CountsOf DEF Indicator
  <2>1. (live \ {Ctx})' = (live \ {Ctx}) \cup {e} /\ e \notin live \ {Ctx}
    BY <1>2, <1>3, <1>10
  <2>2. Cardinality((live \ {Ctx}) \cup {e}) = Cardinality(live \ {Ctx}) + 1
    BY <2>0, <2>1, FS_AddElement
  <2>3. Ctx \in Objects /\ Ctx # e /\ Ctx \notin Events
    BY <1>3, ObjectFacts
  <2>4. InWaitList(Ctx, e)' = 0
    BY <1>17, <2>3
  <2>5. refs'[Ctx] = refs[Ctx] + 1 + 0
    BY <1>18, <2>3, <2>4
  <2>6. Cardinality((live \ {Ctx})') = Cardinality(live \ {Ctx}) + 1
    BY <2>1, <2>2
  <2> QED
    BY <2>0, <2>5, <2>6
<1>24. CountsMatch'
  BY <1>21, <1>22, <1>23 DEF CountsMatch, EventsOf
<1>25. ASSUME NEW o \in Objects
       PROVE  refs'[o] \in Nat /\ (o \in live' <=> refs'[o] > 0)
  <2>1. q \in live
    BY <1>2, <1>3 DEF NothingFreedInUse
  <2>2. Ctx \in live
    <3>1. q \in live \ {Ctx}
      BY <1>3, <2>1
    <3>2. Cardinality(live \ {Ctx}) # 0
      BY <3>1, CountFacts, FS_EmptySet
    <3> QED
      BY <3>2, CountFacts, CountsOf, ObjectFacts DEF LiveInv, Indicator
  <2>3. InWaitList(o, e)' # 0 => o \in live
    BY <1>3, <1>5, <1>14 DEF NothingFreedInUse
  <2>4. refs[o] \in Nat /\ (o \in live <=> refs[o] > 0) /\ InWaitList(o, e)' \in Nat
    BY <1>16 DEF LiveInv
  <2>5. CASE o = e
    BY <1>2, <1>19, <2>5
  <2>6. CASE o # e
    BY <1>2, <1>18, <2>1, <2>2, <2>3, <2>4, <2>6
  <2> QED
    BY <2>5, <2>6
<1>26. LiveInv'
  <2>1. refs' \in [Objects -> Nat]
    BY <1>2, <1>25
  <2>2. IsFiniteSet(live') /\ live' \subseteq Objects
    BY <1>2, <1>3, FS_AddElement DEF LiveInv
  <2> QED
    BY <1>25, <2>1, <2>2 DEF LiveInv
<1> QED
  BY <1>24, <1>26

LEMMA CountsInit == LifetimeInit => LiveInv /\ CountsMatch
<1> SUFFICES ASSUME LifetimeInit PROVE LiveInv /\ CountsMatch
  OBVIOUS
<1> DEFINE U == UserEvents \cup Queues
<1>1. /\ live = U \cup {Ctx} /\ owned = U /\ calling = {} /\ peeked = NONE
      /\ prepared = {} /\ buffer = <<>>
      /\ \A e \in Events : queue[e] = NONE /\ waitList[e] = <<>>
      /\ refs = [o \in Objects |-> IF o \in Commands THEN 0 ELSE IF o = Ctx THEN Cardinality(U) ELSE 1]
  BY DEF LifetimeInit, Init
<1>2. /\ Ctx \notin U /\ U \subseteq Objects /\ U \cap Commands = {} /\ NONE \notin U
      /\ Commands \cap Queues = {}
  BY EventQueueAssumption, ObjectLifetimeAssumption, ObjectFacts DEF Events
<1>3. IsFiniteSet(U)
  BY ObjectLifetimeAssumption, FS_Union
<1>4. Cardinality(U) \in Nat
  BY <1>3, FS_CardinalityType
<1>5. IsFiniteSet(live) /\ live \ {Ctx} = U
  BY <1>1, <1>2, <1>3, FS_AddElement
<1>6. /\ \A e \in Commands : refs[e] = 0
      /\ \A o \in U : refs[o] = 1
      /\ refs[Ctx] = Cardinality(U)
  <2>1. Ctx \notin Commands /\ Commands \subseteq Objects /\ Ctx \in Objects
    BY ObjectFacts
  <2> HIDE DEF U
  <2> QED
    BY <1>1, <1>2, <2>1
<1>7. \A o \in Objects : o \in Commands \/ o \in U \/ o = Ctx
  BY DEF Objects, Events
<1>8. Ctx \in live /\ refs[Ctx] = Cardinality(U)
  BY <1>1, <1>6
<1>9. \A e \in Events : WaitListEntries(e) = {}
  <2>1. DOMAIN <<>> = {}
    BY EmptySeq
  <2> QED
    BY <1>1, <2>1, ObjectFacts DEF WaitListEntries
<1>10. \A q \in Queues : {e \in Events \cap live : queue[e] = q} = {}
  BY <1>1, ObjectFacts
<1>11. LiveInv
  <2>1. Cardinality(U) > 0
    BY <1>3, <1>4, ObjectLifetimeAssumption, FS_EmptySet
  <2>2. refs \in [Objects -> Nat]
    BY <1>1, <1>4
  <2>3. \A o \in Objects : o \in live <=> refs[o] > 0
    BY <1>1, <1>2, <1>6, <1>7, <2>1, ObjectFacts
  <2>4. live \subseteq Objects
    BY <1>1, <1>2, ObjectFacts
  <2> QED
    BY <1>5, <2>2, <2>3, <2>4 DEF LiveInv
<1>12. \A e \in Events : refs[e] = EventHolders(e)
  <2>1. Cardinality({}) = 0
    BY FS_EmptySet
  <2>2. Range(buffer) = {}
    BY <1>1, EmptySeq DEF Range
  <2>3. ASSUME NEW e \in Events
        PROVE  HeldDirectly(e) = refs[e]
    <3>1. /\ e \notin prepared \cup calling /\ peeked # e /\ ~QueuedReference(e)
          /\ e \notin Range(buffer) /\ (e \in owned <=> e \notin Commands)
      BY <1>1, <1>2, <2>2, <2>3, ObjectFacts DEF QueuedReference, Events
    <3>2. refs[e] = IF e \in Commands THEN 0 ELSE 1
      BY <1>6, <2>3 DEF Events
    <3> QED
      BY <3>1, <3>2 DEF HeldDirectly, Indicator
  <2>4. \A e \in Events : refs[e] \in Nat
    BY <1>11, CountFacts, ObjectFacts
  <2> QED
    BY <1>9, <2>1, <2>3, <2>4 DEF EventHolders
<1>13. ASSUME NEW q \in Queues
       PROVE  refs[q] = Indicator(q \in owned) + Cardinality({e \in Events \cap live : queue[e] = q})
  <2>1. Cardinality({e \in Events \cap live : queue[e] = q}) = 0
    BY <1>10, FS_EmptySet
  <2>2. q \in owned /\ refs[q] = 1
    BY <1>1, <1>6
  <2> QED
    BY <2>1, <2>2 DEF Indicator
<1>14. refs[Ctx] = Indicator(Ctx \in owned) + Cardinality(live \ {Ctx})
  <2>1. Ctx \notin owned
    BY <1>1, <1>2
  <2>2. Cardinality(live \ {Ctx}) = Cardinality(U)
    BY <1>5
  <2> HIDE DEF U
  <2> QED
    BY <1>4, <1>6, <2>1, <2>2 DEF Indicator
<1> QED
  BY <1>11, <1>12, <1>13, <1>14 DEF CountsMatch

LEMMA CountsStep ==
    IndInv /\ LifetimeInv /\ [LifetimeNext]_everything => LifetimeInv'
<1> SUFFICES ASSUME IndInv, LifetimeInv, [LifetimeNext]_everything
             PROVE  LifetimeInv'
  OBVIOUS
<1>0. HandInv /\ LiveInv /\ CountsMatch
  BY DEF LifetimeInv
<1>1. HandInv'
  BY <1>0, HandStep
<1>2. CASE \E e \in Commands, q \in Queues : CallEnqueue(e, q)
  BY <1>0, <1>1, <1>2, EnqueueKeepsCounts DEF LifetimeInv
<1>3. CASE HandlerAct
  BY <1>0, <1>1, <1>3, HandlerKeepsCounts DEF LifetimeInv
<1>4. CASE UNCHANGED everything
  <2>1. /\ UNCHANGED <<refs, live, owned, calling, peeked>>
        /\ UNCHANGED <<status, queue, waitList, prepared, buffer>>
    BY <1>4 DEF everything, lifetimeVars, vars
  <2>2. \A e \in Events : HeldDirectly(e)' = HeldDirectly(e)
    BY <2>1 DEF HeldDirectly, Indicator, QueuedReference, Finished
  <2>3. LiveInv' /\ CountsMatch'
    BY <1>0, <2>1, <2>2, CountsSame
  <2> QED
    BY <1>1, <2>3 DEF LifetimeInv
<1>5. CASE \/ \E e \in Commands : CallPush(e) \/ CallReturn(e)
           \/ \E o \in Objects : ReleaseObject(o)
           \/ \E e \in UserEvents, st \in Results : SignalUserEvent(e, st)
           \/ \E c \in Callbacks, e \in Events, type \in CallbackTypes : RegisterCallback(c, e, type)
           \/ \E q \in Queues : FinishTakes(q)
           \/ FinishDrops
  BY <1>0, <1>1, <1>5, CallsKeepCounts DEF LifetimeInv
<1> QED
  BY <1>2, <1>3, <1>4, <1>5 DEF LifetimeNext

LEMMA LifetimeInvariance == LifetimeSpec => [](IndInv /\ LifetimeInv)
<1>1. LifetimeInit => IndInv /\ LifetimeInv
  BY EventQueueInit, HandInit, CountsInit DEF LifetimeInv
<1>2. IndInv /\ LifetimeInv /\ [LifetimeNext]_everything => (IndInv /\ LifetimeInv)'
  BY EventQueueStep, CountsStep
<1> QED
  BY <1>1, <1>2, PTL DEF LifetimeSpec

\* The reference count of every event, command queue and context is at every
\* moment the number of those who hold it: the retain and release calls that
\* clEnqueue..., Event::prepareToQueue, EventQueue, clFinish, the destructors and
\* the application make one by one add up, in whatever order their threads come.
THEOREM CountsExact == LifetimeSpec => []CountsMatch
<1>1. IndInv /\ LifetimeInv => CountsMatch
  BY DEF LifetimeInv
<1> QED
  BY <1>1, LifetimeInvariance, PTL

\* ObjectTracker::removeObject never destroys an object that an application
\* thread, an enqueue call, the event buffer, the queue handler, clFinish or a
\* wait list still refers to.
THEOREM NothingFreed == LifetimeSpec => []NothingFreedInUse
<1>1. IndInv /\ LifetimeInv => NothingFreedInUse
  BY HeldIsLive DEF LifetimeInv
<1> QED
  BY <1>1, LifetimeInvariance, PTL

==============================================================================
