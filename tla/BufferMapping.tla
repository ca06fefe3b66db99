----------------------------- MODULE BufferMapping -----------------------------
(***************************************************************************)
(* Mapping a buffer into host memory: clEnqueueMapBuffer and               *)
(* clEnqueueUnmapMemObject (Buffer.cpp), their BufferMapping actions in    *)
(* the event queue, and the contents of the two copies of a buffer that    *)
(* was created with CL_MEM_USE_HOST_PTR.                                   *)
(*                                                                         *)
(* A call changes the list of mappings under mappingsLock and later pushes *)
(* its command under the event queue's lock; between the two, other        *)
(* threads act.  The event queue is what OrderedExecution says: commands   *)
(* execute one by one in the order they were pushed, or are aborted.       *)
(*                                                                         *)
(* A mapping is named after the application's use of it: a session maps a  *)
(* region, accesses it and unmaps it.  Whose entry of the list the unmap   *)
(* then picks is up to the code.                                           *)
(***************************************************************************)
EXTENDS Naturals, Sequences, SequencesExt, FiniteSetsExt

CONSTANTS
    Sessions,   \* uses of mapped memory
    Threads,    \* application threads
    Regions,    \* parts of the buffer; a mapped pointer identifies its region
    Modes,      \* map flags the application uses
    MayAbort,   \* kinds of commands whose wait list may fail
    MaxWrites,  \* bound on the writes of host and kernels
    NONE

ASSUME BufferMappingAssumption ==
    /\ NONE \notin Sessions \cup Regions
    /\ Modes \subseteq {"read", "write", "invalidate"}
    /\ MayAbort \subseteq {"map", "unmap"}
    /\ MaxWrites \in Nat

VARIABLES
    mappings,   \* Buffer::mappings, the entries named after their sessions
    entry,      \* the MappingInfo of each session's entry
    phase,      \* how far each session is
    caller,     \* the session whose map or unmap call each thread is in
    chosen,     \* the entry the session's unmap call has found
    pending,    \* commands pushed to the event queue and not yet executed
    device,     \* contents of the device buffer, by region
    host,       \* contents of the application's buffer at host_ptr
    latest,     \* history: what was last written to each region
    spoiled     \* history: regions of aborted map and unmap commands

vars == <<mappings, entry, phase, caller, chosen, pending, device, host, latest, spoiled>>

Phases == {"new", "mapping", "pushed", "mapped", "unmapping", "over"}

MappingInfo == [hostPointer : Regions \cup {NONE}, unmapScheduled : BOOLEAN,
                skipPopulatingBuffer : BOOLEAN, skipWritingBack : BOOLEAN]

Command == [kind : {"map", "unmap", "kernel"}, entry : Sessions \cup {NONE},
            region : Regions]

\* Every variable has its type, and a mapping is in the list once.
MappingTypeOK ==
    /\ mappings \in Seq(Sessions) /\ IsInjective(mappings)
    /\ entry \in [Sessions -> MappingInfo]
    /\ phase \in [Sessions -> Phases]
    /\ caller \in [Threads -> Sessions \cup {NONE}]
    /\ chosen \in [Sessions -> Sessions \cup {NONE}]
    /\ pending \in Seq(Command)
    /\ device \in [Regions -> Nat]
    /\ host \in [Regions -> Nat]
    /\ latest \in [Regions -> Nat]
    /\ spoiled \subseteq Regions

-----------------------------------------------------------------------------
(* What the application may do *)

RegionOf(s) == entry[s].hostPointer

\* From the map call on until the unmap call the region belongs to the session.
Active(r) == {s \in Sessions : RegionOf(s) = r /\ phase[s] \notin {"new", "over"}}

\* A region is mapped more than once only for reading.
MayMap(r, mode) ==
    \A s \in Active(r) : mode = "read" /\ entry[s].skipWritingBack

\* Contents that no copy of the buffer has yet.
Version == 1 + Max(UNION {{device[r], host[r], latest[r]} : r \in Regions})

-----------------------------------------------------------------------------
(* clEnqueueMapBuffer *)

\* Buffer::enqueueMap enters the mapping under mappingsLock.
AddMapping(t, s, r, mode) ==
    /\ caller[t] = NONE /\ phase[s] = "new"
    /\ MayMap(r, mode)
    /\ mappings' = Append(mappings, s)
    /\ entry' = [entry EXCEPT ![s] =
           [hostPointer |-> r, unmapScheduled |-> FALSE,
            skipPopulatingBuffer |-> mode = "invalidate",
            skipWritingBack |-> mode = "read"]]
    /\ phase' = [phase EXCEPT ![s] = "mapping"]
    /\ caller' = [caller EXCEPT ![t] = s]
    /\ UNCHANGED <<chosen, pending, device, host, latest, spoiled>>

Push(kind, s, r) == pending' = Append(pending, [kind |-> kind, entry |-> s, region |-> r])

\* It then enqueues its command and returns the pointer.
PushMap(t) ==
    /\ caller[t] # NONE /\ phase[caller[t]] = "mapping"
    /\ Push("map", caller[t], RegionOf(caller[t]))
    /\ phase' = [phase EXCEPT ![caller[t]] = "pushed"]
    /\ caller' = [caller EXCEPT ![t] = NONE]
    /\ UNCHANGED <<mappings, entry, chosen, device, host, latest, spoiled>>

-----------------------------------------------------------------------------
(* clEnqueueUnmapMemObject *)

\* The entries an unmap of a pointer to r may be for.
Unscheduled(r) ==
    {s \in Range(mappings) : RegionOf(s) = r /\ ~entry[s].unmapScheduled}

\* The loop over the list breaks off at the first of them.
IsFirst(n, r) ==
    /\ mappings[n] \in Unscheduled(r)
    /\ \A m \in DOMAIN mappings : m < n => mappings[m] \notin Unscheduled(r)

\* Mutant: the entry is not marked.
FindMapping_Unmarked(t, s) ==
    /\ caller[t] = NONE /\ phase[s] \in {"pushed", "mapped"}
    /\ \E n \in DOMAIN mappings :
        IsFirst(n, RegionOf(s)) /\ chosen' = [chosen EXCEPT ![s] = mappings[n]]
    /\ phase' = [phase EXCEPT ![s] = "unmapping"]
    /\ caller' = [caller EXCEPT ![t] = s]
    /\ UNCHANGED <<mappings, entry, pending, device, host, latest, spoiled>>

\* Mutant: every entry with the pointer is marked.
FindMapping_MarksAll(t, s) ==
    /\ caller[t] = NONE /\ phase[s] \in {"pushed", "mapped"}
    /\ \E n \in DOMAIN mappings :
        IsFirst(n, RegionOf(s)) /\ chosen' = [chosen EXCEPT ![s] = mappings[n]]
    /\ entry' = [e \in Sessions |-> [entry[e] EXCEPT
                    !.unmapScheduled = @ \/ RegionOf(e) = RegionOf(s)]]
    /\ phase' = [phase EXCEPT ![s] = "unmapping"]
    /\ caller' = [caller EXCEPT ![t] = s]
    /\ UNCHANGED <<mappings, pending, device, host, latest, spoiled>>

\* Buffer::enqueueUnmap takes the first entry with the given pointer that no
\* unmap has been enqueued for, and marks it, under mappingsLock.
FindMapping(t, s) ==
    /\ caller[t] = NONE /\ phase[s] \in {"pushed", "mapped"}
    /\ \E n \in DOMAIN mappings :
        /\ IsFirst(n, RegionOf(s))
        /\ entry' = [entry EXCEPT ![mappings[n]].unmapScheduled = TRUE]
        /\ chosen' = [chosen EXCEPT ![s] = mappings[n]]
    /\ phase' = [phase EXCEPT ![s] = "unmapping"]
    /\ caller' = [caller EXCEPT ![t] = s]
    /\ UNCHANGED <<mappings, pending, device, host, latest, spoiled>>

PushUnmap(t) ==
    /\ caller[t] # NONE /\ phase[caller[t]] = "unmapping"
    /\ Push("unmap", chosen[caller[t]], RegionOf(caller[t]))
    /\ phase' = [phase EXCEPT ![caller[t]] = "over"]
    /\ chosen' = [chosen EXCEPT ![caller[t]] = NONE]
    /\ caller' = [caller EXCEPT ![t] = NONE]
    /\ UNCHANGED <<mappings, entry, device, host, latest, spoiled>>

-----------------------------------------------------------------------------
(* Other accesses *)

\* The application writes through the pointer of a completed map command.
HostWrite(s) ==
    /\ phase[s] = "mapped" /\ ~entry[s].skipWritingBack
    /\ Version <= MaxWrites
    /\ host' = [host EXCEPT ![RegionOf(s)] = Version]
    /\ latest' = [latest EXCEPT ![RegionOf(s)] = Version]
    /\ UNCHANGED <<mappings, entry, phase, caller, chosen, pending, device, spoiled>>

\* A kernel that writes a region may be enqueued while the region is not mapped.
PushKernel(r) ==
    /\ Active(r) = {}
    /\ \A i \in DOMAIN pending : pending[i].kind # "kernel"
    /\ Version <= MaxWrites
    /\ Push("kernel", NONE, r)
    /\ UNCHANGED <<mappings, entry, phase, caller, chosen, device, host, latest, spoiled>>

-----------------------------------------------------------------------------
(* The queue handler thread *)

Take(kind) == pending # <<>> /\ Head(pending).kind = kind /\ pending' = Tail(pending)

\* The application sees the outcome of a map it has not already unmapped.
MapEnds(s, as) == phase' = [phase EXCEPT ![s] = IF @ = "pushed" THEN as ELSE @]

\* BufferMapping::operator() for a map: the whole device buffer is copied into
\* the host buffer, unless the application overwrites the region anyway.
ExecuteMap ==
    /\ Take("map")
    /\ LET s == Head(pending).entry IN
       /\ MapEnds(s, "mapped")
       /\ \/ /\ entry[s].skipPopulatingBuffer
             /\ latest' = [latest EXCEPT ![RegionOf(s)] = host[RegionOf(s)]]
             /\ UNCHANGED host
          \/ /\ ~entry[s].skipPopulatingBuffer
             /\ host' = device
             /\ UNCHANGED latest
    /\ UNCHANGED <<mappings, entry, caller, chosen, device, spoiled>>

\* Mutant: nothing is written back.
ExecuteUnmap_NoWriteBack ==
    /\ Take("unmap")
    /\ mappings' = RemoveFirst(mappings, Head(pending).entry)
    /\ UNCHANGED <<entry, phase, caller, chosen, device, host, latest, spoiled>>

\* Mutant: the mapping stays in the list.
ExecuteUnmap_KeepsEntry ==
    /\ Take("unmap")
    /\ device' = IF entry[Head(pending).entry].skipWritingBack THEN device ELSE host
    /\ UNCHANGED <<mappings, entry, phase, caller, chosen, host, latest, spoiled>>

\* And for an unmap: the whole host buffer is copied into the device buffer,
\* unless the mapping was read-only, and the entry is erased.
ExecuteUnmap ==
    /\ Take("unmap")
    /\ device' = IF entry[Head(pending).entry].skipWritingBack THEN device ELSE host
    /\ mappings' = RemoveFirst(mappings, Head(pending).entry)
    /\ UNCHANGED <<entry, phase, caller, chosen, host, latest, spoiled>>

ExecuteKernel ==
    /\ Take("kernel")
    /\ LET r == Head(pending).region IN
       /\ device' = [device EXCEPT ![r] = Version]
       /\ latest' = [latest EXCEPT ![r] = Version]
    /\ UNCHANGED <<mappings, entry, phase, caller, chosen, host, spoiled>>

\* The command is terminated for a failed event in its wait list: no action
\* runs and the list keeps the entry.  The application does not use, and does
\* not unmap, a mapping that failed.
AbortCommand ==
    /\ \E kind \in MayAbort : Take(kind)
    /\ spoiled' = spoiled \cup {Head(pending).region}
    /\ IF Head(pending).kind = "map" THEN MapEnds(Head(pending).entry, "over")
                                   ELSE UNCHANGED phase
    /\ UNCHANGED <<mappings, entry, caller, chosen, device, host, latest>>

Execute == ExecuteMap \/ ExecuteUnmap \/ ExecuteKernel \/ AbortCommand

-----------------------------------------------------------------------------

\* clCreateBuffer has copied the host buffer into the device buffer.
Init ==
    /\ mappings = <<>>
    /\ entry = [s \in Sessions |-> [hostPointer |-> NONE, unmapScheduled |-> FALSE,
                     skipPopulatingBuffer |-> FALSE, skipWritingBack |-> FALSE]]
    /\ phase = [s \in Sessions |-> "new"]
    /\ caller = [t \in Threads |-> NONE]
    /\ chosen = [s \in Sessions |-> NONE]
    /\ pending = <<>>
    /\ device = [r \in Regions |-> 0]
    /\ host = device
    /\ latest = device
    /\ spoiled = {}

Next ==
    \/ \E t \in Threads :
        \/ \E s \in Sessions, r \in Regions, mode \in Modes : AddMapping(t, s, r, mode)
        \/ PushMap(t)
        \/ \E s \in Sessions : FindMapping(t, s)
        \/ PushUnmap(t)
    \/ \E s \in Sessions : HostWrite(s)
    \/ \E r \in Regions : PushKernel(r)
    \/ Execute

\* A call that was made goes on, and the queue handler executes what is pending.
\* The application need not make another call.
Fairness == /\ \A t \in Threads : WF_vars(PushMap(t) \/ PushUnmap(t))
            /\ WF_vars(Execute)

Spec == Init /\ [][Next]_vars /\ Fairness

-----------------------------------------------------------------------------
(* Properties *)

Pending(kind, r) == {i \in DOMAIN pending : pending[i].kind = kind /\ pending[i].region = r}

\* A map or unmap command holds an iterator into the list (BufferMapping::
\* mappingInfo).  When the command runs, the entry has not been erased by
\* the unmap of another mapping with the same pointer.
IteratorsValid ==
    \A i \in DOMAIN pending :
        pending[i].kind # "kernel" => Contains(mappings, pending[i].entry)

\* Every mapping that the application has yet to unmap has an entry of its own
\* to be found: clEnqueueUnmapMemObject never answers CL_INVALID_VALUE for a
\* pointer that is mapped, however many mappings share it.
UnmapFindsMapping ==
    \A r \in Regions :
        Cardinality({s \in Active(r) : phase[s] # "unmapping"}) <= Cardinality(Unscheduled(r))

\* The two copies are kept coherent: through a mapped pointer the application
\* sees what kernels and the host last wrote to the region, and once every
\* mapping of the region is unmapped the kernels do.
Coherent ==
    \A r \in Regions \ spoiled :
        /\ \A s \in Active(r) : phase[s] = "mapped" => host[r] = latest[r]
        /\ Active(r) = {} /\ Pending("unmap", r) \cup Pending("map", r) = {}
               => device[r] = latest[r]

\* What was marked for unmapping is erased from the list, unless a command for
\* the region was aborted.
MarkedIsErased ==
    \A s \in Sessions :
        entry[s].unmapScheduled
            ~> (~Contains(mappings, s) \/ RegionOf(s) \in spoiled)
=============================================================================
