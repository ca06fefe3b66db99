-------------------------- MODULE BufferMappingProofs --------------------------
(***************************************************************************)
(* Proofs about BufferMapping, for any number of mappings, flags, aborted  *)
(* commands and writes.  What the code guarantees only while one thread    *)
(* maps and unmaps, or while one region is mapped, has that as a premise.  *)
(***************************************************************************)
EXTENDS BufferMapping, FiniteSetTheorems, SequenceTheorems, TLAPS

\* One application thread maps and unmaps the buffer.
OneThread == \A t, u \in Threads : t = u

\* The buffer is always mapped as a whole.
OneRegion == \A r, q \in Regions : r = q

\* A mapping that has not been unmapped: its unmap call has yet to find an entry.
Live(r) == {s \in Active(r) : phase[s] # "unmapping"}

IsMap(i, s) == pending[i].kind = "map" /\ pending[i].entry = s
IsUnmap(i, s) == pending[i].kind = "unmap" /\ pending[i].entry = s

MapPending(s) == \E i \in DOMAIN pending : IsMap(i, s)
UnmapPending(s) == \E i \in DOMAIN pending : IsUnmap(i, s)

\* The list, the sessions and the commands fit together.  An entry of a new
\* session is in no use, and what an unmap was enqueued for is marked.
EntryInv ==
    /\ mappings \in Seq(Sessions) /\ IsInjective(mappings)
    /\ entry \in [Sessions -> MappingInfo]
    /\ phase \in [Sessions -> Phases]
    /\ caller \in [Threads -> Sessions \cup {NONE}]
    /\ chosen \in [Sessions -> Sessions \cup {NONE}]
    /\ pending \in Seq(Command)
    /\ spoiled \subseteq Regions
    /\ \A s \in Range(mappings) : phase[s] # "new"
    /\ \A s \in Sessions :
        /\ phase[s] = "new" => ~entry[s].unmapScheduled
        /\ phase[s] # "new" => RegionOf(s) \in Regions
        /\ phase[s] # "unmapping" => chosen[s] = NONE
        /\ phase[s] = "unmapping" => chosen[s] # NONE /\ entry[chosen[s]].unmapScheduled
        /\ UnmapPending(s) => entry[s].unmapScheduled
    /\ \A i \in DOMAIN pending : pending[i].kind # "kernel" => pending[i].entry # NONE

\* There is an entry for every mapping that has yet to be unmapped.
CountInv ==
    \A r \in Regions :
        /\ IsFiniteSet(Live(r)) /\ IsFiniteSet(Unscheduled(r))
        /\ Cardinality(Live(r)) <= Cardinality(Unscheduled(r))

\* With one thread: which commands an entry can still have, and that it is in
\* the list as long as it has one.
CommandInv ==
    /\ \A s \in Sessions : phase[s] = "mapping" => \E t \in Threads : caller[t] = s
    /\ \A s \in Sessions : phase[s] \in {"new", "mapping"} =>
        ~entry[s].unmapScheduled /\ ~MapPending(s)
    /\ \A s \in Sessions : phase[s] = "mapping" \/ MapPending(s) \/ UnmapPending(s)
        => s \in Range(mappings)
    /\ \A i, j \in DOMAIN pending :
        /\ i < j /\ pending[i].kind # "kernel" /\ pending[j].kind # "kernel"
        /\ pending[i].entry = pending[j].entry
        => pending[i].kind = "map" /\ pending[j].kind = "unmap"
    /\ \A s, u \in Sessions : chosen[s] = u =>
        /\ u \in Range(mappings) /\ ~UnmapPending(u)
        /\ \A v \in Sessions : chosen[v] = u => v = s

-----------------------------------------------------------------------------
(* The contents, as long as no command has been aborted *)

Writer(s) == ~entry[s].skipWritingBack

\* A map or unmap of a read-only mapping.
ReaderCommand(i) == pending[i].kind # "kernel" /\ ~Writer(pending[i].entry)

\* The host's copy is the newer one: the map of w was executed, its unmap not.
Open(w) ==
    /\ w \in Range(mappings) /\ phase[w] \notin {"new", "mapping"}
    /\ Writer(w) /\ ~MapPending(w)

\* Entries of mappings that write are unmapped by their own sessions.
WriterInv ==
    /\ \A r \in Regions : Cardinality(Live(r)) = Cardinality(Unscheduled(r))
    /\ \A r \in Regions : \A s, u \in Active(r) : s # u => ~Writer(s) /\ ~Writer(u)
    /\ \A r \in Regions : \A s \in Live(r) : Writer(s) => s \in Unscheduled(r)
    /\ \A r \in Regions : \A s \in Unscheduled(r) : Writer(s) => s \in Live(r)
    /\ \A s, u \in Sessions : chosen[s] = u /\ (Writer(s) \/ Writer(u)) => s = u
    /\ \A s \in Range(mappings) : entry[s].unmapScheduled =>
        UnmapPending(s) \/ \E u \in Sessions : chosen[u] = s
    /\ \A s \in Sessions : entry[s].skipPopulatingBuffer => Writer(s)

\* The order of the commands: nothing comes between the map and the unmap of a
\* mapping that writes, and nothing but other readers while one that reads is
\* mapped.
OrderInv ==
    /\ \A s \in Sessions : phase[s] = "pushed" =>
        \E i \in DOMAIN pending :
            IsMap(i, s) /\ \A j \in DOMAIN pending : i < j => ReaderCommand(j)
    /\ \A s \in Sessions : phase[s] = "mapped" =>
        ~MapPending(s) /\ \A j \in DOMAIN pending : ReaderCommand(j)
    /\ \A w \in Sessions : Open(w) => pending = <<>> \/ IsUnmap(1, w)
    /\ \A i \in DOMAIN pending :
        pending[i].kind = "map" /\ Writer(pending[i].entry) =>
            \/ i = Len(pending) /\ phase[pending[i].entry] \in {"pushed", "unmapping"}
            \/ i + 1 \in DOMAIN pending /\ IsUnmap(i + 1, pending[i].entry)

\* Which copy holds what was written last.
ContentsInv ==
    /\ DOMAIN device = Regions /\ DOMAIN host = Regions /\ DOMAIN latest = Regions
    /\ \A r \in Regions :
        /\ \A s \in Sessions : Open(s) \/ phase[s] = "mapped" => host[r] = latest[r]
        /\ device[r] = latest[r] \/ \E w \in Sessions : Open(w)

CoherenceInv == spoiled = {} => WriterInv /\ OrderInv /\ ContentsInv

-----------------------------------------------------------------------------
(* Sequences *)

LEMMA PendingFacts ==
    ASSUME EntryInv
    PROVE  /\ Len(pending) \in Nat /\ DOMAIN pending = 1..Len(pending)
           /\ \A i \in DOMAIN pending : pending[i] \in Command
           /\ pending = <<>> <=> Len(pending) = 0
           /\ pending # <<>> => 1 \in DOMAIN pending /\ Head(pending) = pending[1]
  BY DEF EntryInv

\* A command is pushed behind the others.
LEMMA PushFacts ==
    ASSUME EntryInv, NEW c \in Command, pending' = Append(pending, c)
    PROVE  /\ pending' \in Seq(Command)
           /\ Len(pending') = Len(pending) + 1
           /\ DOMAIN pending' = 1..(Len(pending) + 1)
           /\ \A i \in DOMAIN pending : i \in DOMAIN pending' /\ pending'[i] = pending[i]
           /\ \A i \in DOMAIN pending' : i \in DOMAIN pending \/ i = Len(pending) + 1
           /\ pending'[Len(pending) + 1] = c
           /\ \A s : MapPending(s)' <=> MapPending(s) \/ (c.kind = "map" /\ c.entry = s)
           /\ \A s : UnmapPending(s)' <=> UnmapPending(s) \/ (c.kind = "unmap" /\ c.entry = s)
<1>1. /\ pending' \in Seq(Command)
      /\ Len(pending') = Len(pending) + 1
      /\ DOMAIN pending' = 1..(Len(pending) + 1)
      /\ DOMAIN pending = 1..Len(pending) /\ Len(pending) \in Nat
      /\ \A i \in 1..Len(pending) : pending'[i] = pending[i]
      /\ pending'[Len(pending) + 1] = c
  BY AppendProperties DEF EntryInv
<1>2. /\ \A i \in DOMAIN pending : i \in DOMAIN pending' /\ pending'[i] = pending[i]
      /\ \A i \in DOMAIN pending' : i \in DOMAIN pending \/ i = Len(pending) + 1
      /\ Len(pending) + 1 \in DOMAIN pending'
  BY <1>1
<1>3. \A s : MapPending(s)' <=> MapPending(s) \/ (c.kind = "map" /\ c.entry = s)
  BY <1>1, <1>2 DEF MapPending, IsMap
<1>4. \A s : UnmapPending(s)' <=> UnmapPending(s) \/ (c.kind = "unmap" /\ c.entry = s)
  BY <1>1, <1>2 DEF UnmapPending, IsUnmap
<1> QED
  BY <1>1, <1>2, <1>3, <1>4

\* The handler takes the first one.
LEMMA TakeFacts ==
    ASSUME EntryInv, NEW kind, Take(kind)
    PROVE  /\ pending' \in Seq(Command)
           /\ 1 \in DOMAIN pending /\ Head(pending) = pending[1] /\ pending[1].kind = kind
           /\ Len(pending') = Len(pending) - 1 /\ DOMAIN pending' = 1..(Len(pending) - 1)
           /\ \A i \in DOMAIN pending' : i + 1 \in DOMAIN pending /\ pending'[i] = pending[i + 1]
           /\ \A i \in DOMAIN pending : i = 1 \/ (i - 1 \in DOMAIN pending' /\ pending'[i - 1] = pending[i])
           /\ \A s : MapPending(s)' => MapPending(s)
           /\ \A s : UnmapPending(s)' => UnmapPending(s)
           /\ \A s : MapPending(s) => MapPending(s)' \/ IsMap(1, s)
           /\ \A s : UnmapPending(s) => UnmapPending(s)' \/ IsUnmap(1, s)
<1>1. /\ pending \in Seq(Command) /\ pending # <<>>
      /\ pending' = Tail(pending) /\ Head(pending).kind = kind
  BY DEF EntryInv, Take
<1>2. /\ pending' \in Seq(Command)
      /\ 1 \in DOMAIN pending /\ Head(pending) = pending[1] /\ pending[1].kind = kind
      /\ Len(pending) \in Nat \ {0} /\ DOMAIN pending = 1..Len(pending)
      /\ Len(pending') = Len(pending) - 1 /\ DOMAIN pending' = 1..(Len(pending) - 1)
      /\ \A i \in 1..(Len(pending) - 1) : pending'[i] = pending[i + 1]
  BY <1>1, HeadTailProperties
<1>3. /\ \A i \in DOMAIN pending' : i + 1 \in DOMAIN pending /\ pending'[i] = pending[i + 1]
      /\ \A i \in DOMAIN pending : i = 1 \/ (i - 1 \in DOMAIN pending' /\ pending'[i - 1] = pending[i])
  <2>1. ASSUME NEW i \in DOMAIN pending, i # 1
        PROVE  i - 1 \in DOMAIN pending' /\ pending'[i - 1] = pending[i]
    <3>1. i \in Int /\ i - 1 \in 1..(Len(pending) - 1) /\ (i - 1) + 1 = i
      BY <1>2, <2>1
    <3> QED
      BY <1>2, <3>1
  <2> QED
    BY <1>2, <2>1
<1>4. \A s : /\ MapPending(s)' => MapPending(s)
             /\ UnmapPending(s)' => UnmapPending(s)
  BY <1>3 DEF MapPending, UnmapPending, IsMap, IsUnmap
<1>5. \A s : /\ MapPending(s) => MapPending(s)' \/ IsMap(1, s)
             /\ UnmapPending(s) => UnmapPending(s)' \/ IsUnmap(1, s)
  BY <1>3 DEF MapPending, UnmapPending, IsMap, IsUnmap
<1> QED
  BY <1>2, <1>3, <1>4, <1>5

\* The erased element is gone and the others are still there, once each.
LEMMA RemoveFirstFacts ==
    ASSUME NEW S, NEW s \in Seq(S), IsInjective(s), NEW e
    PROVE  /\ RemoveFirst(s, e) \in Seq(S) /\ IsInjective(RemoveFirst(s, e))
           /\ Range(RemoveFirst(s, e)) = Range(s) \ {e}
<1>0. /\ Len(s) \in Nat /\ DOMAIN s = 1..Len(s) /\ \A i \in 1..Len(s) : s[i] \in S
      /\ \A i, j \in 1..Len(s) : s[i] = s[j] => i = j
  BY DEF IsInjective
<1>1. CASE \A i \in 1..Len(s) : s[i] # e
  BY <1>0, <1>1 DEF RemoveFirst, Range
<1>2. CASE \E i \in 1..Len(s) : s[i] = e
  <2>1. PICK k \in 1..Len(s) : s[k] = e
    BY <1>2
  <2> DEFINE P == {i \in 1..Len(s) : s[i] = e}
  <2>2. P = {k}
    BY <1>0, <2>1
  <2>3. Min(P) = k
    <3>1. k \in P /\ \A y \in P : k <= y
      BY <1>0, <2>1, <2>2
    <3> QED
      BY <2>2, <3>1 DEF Min
  <2>4. SelectInSeq(s, LAMBDA v : v = e) = k
    BY <2>2, <2>3 DEF SelectInSeq
  <2>5. RemoveFirst(s, e) = SubSeq(s, 1, k - 1) \o SubSeq(s, k + 1, Len(s))
    BY <1>2, <2>4 DEF RemoveFirst, RemoveAt
  <2> DEFINE a == SubSeq(s, 1, k - 1)
             b == SubSeq(s, k + 1, Len(s))
  <2>6. /\ a \in Seq(S) /\ Len(a) = k - 1
        /\ \A i \in 1..(k - 1) : a[i] = s[i]
    BY <1>0, SubSeqProperties
  <2>7. /\ b \in Seq(S) /\ Len(b) = Len(s) - k
        /\ \A i \in 1..(Len(s) - k) : b[i] = s[i + k]
    <3> DEFINE m == k + 1
    <3>0. k \in Int /\ k >= 1 /\ k <= Len(s) /\ Len(s) \in Int
      BY <1>0
    <3>1. /\ m \in Int /\ Len(s) - m + 1 = Len(s) - k
          /\ m <= Len(s) \/ Len(s) - k = 0
          /\ \A i \in m..Len(s) : i \in 1..Len(s)
          /\ \A i \in 1..(Len(s) - k) : m + i - 1 = i + k
      BY <3>0
    <3> HIDE DEF m
    <3>2. /\ SubSeq(s, m, Len(s)) \in Seq(S)
          /\ Len(SubSeq(s, m, Len(s))) = IF m <= Len(s) THEN Len(s) - m + 1 ELSE 0
          /\ \A i \in 1..(Len(s) - m + 1) : SubSeq(s, m, Len(s))[i] = s[m + i - 1]
      <4>1. \A i \in m..Len(s) : s[i] \in S
        BY <1>0, <3>1
      <4>2. \A n \in Int : (\A i \in m..n : s[i] \in S) =>
                /\ SubSeq(s, m, n) \in Seq(S)
                /\ Len(SubSeq(s, m, n)) = IF m <= n THEN n - m + 1 ELSE 0
                /\ \A i \in 1..(n - m + 1) : SubSeq(s, m, n)[i] = s[m + i - 1]
        BY <3>1, SubSeqProperties
      <4> QED
        BY <3>0, <4>1, <4>2
    <3>3. b = SubSeq(s, m, Len(s))
      BY DEF m
    <3> HIDE DEF b
    <3> QED
      BY <3>1, <3>2, <3>3
  <2> HIDE DEF a, b
  <2> DEFINE c == a \o b
  <2>8. /\ c \in Seq(S) /\ Len(c) = Len(s) - 1 /\ DOMAIN c = 1..(Len(s) - 1)
        /\ \A i \in 1..(Len(s) - 1) : c[i] = IF i < k THEN s[i] ELSE s[i + 1]
    <3>1. /\ c \in Seq(S) /\ Len(c) = Len(a) + Len(b)
          /\ \A i \in 1..(Len(a) + Len(b)) : c[i] = IF i <= Len(a) THEN a[i] ELSE b[i - Len(a)]
      BY <2>6, <2>7, ConcatProperties
    <3> HIDE DEF c
    <3>2. Len(c) = Len(s) - 1 /\ Len(a) + Len(b) = Len(s) - 1
      BY <1>0, <2>6, <2>7, <3>1
    <3>3. ASSUME NEW i \in 1..(Len(s) - 1)
          PROVE  c[i] = IF i < k THEN s[i] ELSE s[i + 1]
      <4>1. CASE i < k
        BY <1>0, <2>6, <3>1, <3>2, <4>1
      <4>2. CASE i >= k
        <5>1. /\ i - Len(a) \in 1..(Len(s) - k) /\ i > Len(a)
              /\ (i - Len(a)) + k = i + 1
          BY <1>0, <2>6, <4>2
        <5>2. c[i] = b[i - Len(a)]
          BY <1>0, <2>6, <3>1, <3>2, <5>1
        <5>3. b[i - Len(a)] = s[(i - Len(a)) + k]
          BY <2>7, <5>1
        <5> QED
          BY <1>0, <4>2, <5>1, <5>2, <5>3
      <4> QED
        BY <1>0, <4>1, <4>2
    <3>4. DOMAIN c = 1..Len(c)
      BY <3>1
    <3> QED
      BY <3>1, <3>2, <3>3, <3>4
  <2> HIDE DEF c
  <2>9. IsInjective(c)
    <3>1. ASSUME NEW i \in 1..(Len(s) - 1), NEW j \in 1..(Len(s) - 1), c[i] = c[j]
          PROVE  i = j
      BY <1>0, <2>8, <3>1
    <3> QED
      BY <2>8, <3>1 DEF IsInjective
  <2>10. Range(c) \subseteq Range(s) \ {e}
    <3>1. ASSUME NEW i \in 1..(Len(s) - 1)
          PROVE  c[i] \in Range(s) \ {e}
      <4>1. /\ i \in 1..Len(s) /\ i + 1 \in 1..Len(s) /\ k \in Int /\ i \in Int
            /\ c[i] = IF i < k THEN s[i] ELSE s[i + 1]
        BY <1>0, <2>8
      <4>2. \A j \in 1..Len(s) : s[j] \in Range(s) /\ (j # k => s[j] # e)
        BY <1>0, <2>1 DEF Range
      <4> QED
        BY <4>1, <4>2
    <3> QED
      BY <2>8, <3>1 DEF Range
  <2>11. Range(s) \ {e} \subseteq Range(c)
    <3>1. ASSUME NEW i \in 1..Len(s), i # k
          PROVE  s[i] \in Range(c)
      <4>1. CASE i < k
        <5>1. i \in 1..(Len(s) - 1) /\ c[i] = s[i]
          BY <1>0, <2>8, <4>1
        <5> QED
          BY <2>8, <5>1 DEF Range
      <4>2. CASE i > k
        <5>1. i - 1 \in 1..(Len(s) - 1) /\ c[i - 1] = s[i]
          BY <1>0, <2>8, <4>2
        <5> QED
          BY <2>8, <5>1 DEF Range
      <4> QED
        BY <1>0, <3>1, <4>1, <4>2
    <3> QED
      BY <1>0, <2>1, <3>1 DEF Range
  <2> QED
    BY <2>5, <2>8, <2>9, <2>10, <2>11 DEF c, a, b
<1> QED
  BY <1>1, <1>2

-----------------------------------------------------------------------------
(* Entries *)

LEMMA EntryInit == Init => EntryInv
<1> SUFFICES ASSUME Init PROVE EntryInv
  OBVIOUS
<1>1. mappings \in Seq(Sessions) /\ pending \in Seq(Command)
      /\ DOMAIN pending = {} /\ Range(mappings) = {} /\ IsInjective(mappings)
  BY EmptySeq DEF Init, Range, IsInjective
<1>2. entry \in [Sessions -> MappingInfo] /\ phase \in [Sessions -> Phases]
  BY DEF Init, MappingInfo, Phases
<1> QED
  BY <1>1, <1>2 DEF Init, EntryInv, UnmapPending

LEMMA AppendFacts ==
    ASSUME NEW S, NEW s \in Seq(S), IsInjective(s), NEW e \in S, e \notin Range(s)
    PROVE  /\ Append(s, e) \in Seq(S) /\ IsInjective(Append(s, e))
           /\ Range(Append(s, e)) = Range(s) \cup {e}
<1> DEFINE a == Append(s, e)
<1>1. /\ a \in Seq(S) /\ DOMAIN s = 1..Len(s) /\ Len(s) \in Nat
      /\ DOMAIN a = 1..(Len(s) + 1)
      /\ \A i \in 1..Len(s) : a[i] = s[i]
      /\ a[Len(s) + 1] = e
  BY AppendProperties
<1>2. \A i \in DOMAIN s : s[i] # e
  BY DEF Range
<1> HIDE DEF a
<1>3. IsInjective(a)
  BY <1>1, <1>2 DEF IsInjective
<1>4. Range(a) = Range(s) \cup {e}
  <2>1. Range(a) \subseteq Range(s) \cup {e}
    BY <1>1 DEF Range
  <2>2. \A i \in 1..Len(s) : i \in DOMAIN a
    BY <1>1
  <2>3. Len(s) + 1 \in DOMAIN a
    BY <1>1
  <2> QED
    BY <1>1, <2>1, <2>2, <2>3 DEF Range
<1> QED
  BY <1>1, <1>3, <1>4 DEF a

\* What the calls in progress have in hand.
LEMMA CallerFacts ==
    ASSUME EntryInv, NEW t \in Threads, caller[t] # NONE
    PROVE  /\ caller[t] \in Sessions
           /\ phase[caller[t]] = "mapping" =>
                /\ RegionOf(caller[t]) \in Regions
                /\ [kind |-> "map", entry |-> caller[t], region |-> RegionOf(caller[t])] \in Command
           /\ phase[caller[t]] = "unmapping" =>
                /\ chosen[caller[t]] \in Sessions /\ RegionOf(caller[t]) \in Regions
                /\ entry[chosen[caller[t]]].unmapScheduled
                /\ [kind |-> "unmap", entry |-> chosen[caller[t]], region |-> RegionOf(caller[t])] \in Command
  BY DEF EntryInv, Command

LEMMA RangeFacts ==
    ASSUME EntryInv
    PROVE  Range(mappings) \subseteq Sessions
  BY DEF EntryInv, Range

LEMMA EntryStep == EntryInv /\ [Next]_vars => EntryInv'
<1> SUFFICES ASSUME EntryInv, [Next]_vars
             PROVE  EntryInv'
  OBVIOUS
<1>0. Range(mappings) \subseteq Sessions /\ NONE \notin Sessions
  BY RangeFacts, BufferMappingAssumption
<1>1. ASSUME NEW t \in Threads, NEW s \in Sessions, NEW r \in Regions, NEW mode \in Modes,
             AddMapping(t, s, r, mode)
      PROVE  EntryInv'
  <2>1. s \notin Range(mappings) /\ phase[s] = "new"
    BY <1>1 DEF EntryInv, AddMapping
  <2>2. /\ mappings' \in Seq(Sessions) /\ IsInjective(mappings')
        /\ Range(mappings') = Range(mappings) \cup {s}
    BY <1>1, <2>1, AppendFacts DEF EntryInv, AddMapping
  <2>3. entry' \in [Sessions -> MappingInfo] /\ phase' \in [Sessions -> Phases]
    BY <1>1 DEF EntryInv, AddMapping, MappingInfo, Phases
  <2>4. /\ \A u \in Sessions : u # s => entry'[u] = entry[u] /\ phase'[u] = phase[u]
        /\ phase'[s] = "mapping" /\ entry'[s].hostPointer = r
        /\ caller' \in [Threads -> Sessions \cup {NONE}]
        /\ UNCHANGED <<chosen, pending, spoiled>>
    BY <1>1 DEF EntryInv, AddMapping
  <2>5. \A u \in Sessions : chosen[u] # s
    BY <1>0, <2>1 DEF EntryInv
  <2>6. ~UnmapPending(s)
    BY <2>1 DEF EntryInv
  <2>7. \A u \in Sessions :
        /\ phase'[u] = "new" => ~entry'[u].unmapScheduled
        /\ phase'[u] # "new" => RegionOf(u)' \in Regions
        /\ phase'[u] # "unmapping" => chosen'[u] = NONE
        /\ phase'[u] = "unmapping" => chosen'[u] # NONE /\ entry'[chosen'[u]].unmapScheduled
        /\ UnmapPending(u)' => entry'[u].unmapScheduled
    <3>1. \A u \in Sessions : chosen[u] # NONE => chosen[u] \in Sessions
      BY DEF EntryInv
    <3> QED
      BY <2>1, <2>4, <2>5, <2>6, <3>1 DEF EntryInv, RegionOf, UnmapPending, IsUnmap
  <2> QED
    BY <1>0, <2>2, <2>3, <2>4, <2>7 DEF EntryInv
<1>2. ASSUME NEW t \in Threads, PushMap(t)
      PROVE  EntryInv'
  <2> DEFINE s == caller[t]
             c == [kind |-> "map", entry |-> s, region |-> RegionOf(s)]
  <2>1. s \in Sessions /\ c \in Command /\ phase[s] = "mapping" /\ pending' = Append(pending, c)
    BY <1>2, CallerFacts DEF PushMap, Push
  <2> HIDE DEF c
  <2>2. /\ pending' \in Seq(Command) /\ \A u : UnmapPending(u)' <=> UnmapPending(u)
        /\ \A i \in DOMAIN pending' : pending'[i].kind # "kernel" => pending'[i].entry # NONE
    <3>1. c.kind = "map" /\ c.entry # NONE
      BY <1>0, <2>1 DEF c
    <3> QED
      BY <2>1, <3>1, PushFacts DEF EntryInv
  <2>3. /\ phase' = [phase EXCEPT ![s] = "pushed"] /\ caller' \in [Threads -> Sessions \cup {NONE}]
        /\ UNCHANGED <<mappings, entry, chosen, spoiled>>
    BY <1>2 DEF EntryInv, PushMap
  <2> HIDE DEF s
  <2> QED
    BY <1>0, <2>1, <2>2, <2>3 DEF EntryInv, RegionOf, Phases
<1>3. ASSUME NEW t \in Threads, NEW s \in Sessions, FindMapping(t, s)
      PROVE  EntryInv'
  <2>1. PICK n \in DOMAIN mappings :
            /\ IsFirst(n, RegionOf(s))
            /\ entry' = [entry EXCEPT ![mappings[n]].unmapScheduled = TRUE]
            /\ chosen' = [chosen EXCEPT ![s] = mappings[n]]
    BY <1>3 DEF FindMapping
  <2> DEFINE x == mappings[n]
  <2>2. x \in Range(mappings) /\ x \in Sessions /\ ~entry[x].unmapScheduled /\ phase[x] # "new"
    BY <1>0, <2>1 DEF IsFirst, Unscheduled, EntryInv, Range
  <2>3. /\ phase[s] \in {"pushed", "mapped"}
        /\ phase' = [phase EXCEPT ![s] = "unmapping"]
        /\ caller' \in [Threads -> Sessions \cup {NONE}]
        /\ UNCHANGED <<mappings, pending, spoiled>>
    BY <1>3 DEF FindMapping, EntryInv
  <2> HIDE DEF x
  <2>4. /\ entry' = [entry EXCEPT ![x].unmapScheduled = TRUE] /\ chosen' = [chosen EXCEPT ![s] = x]
    BY <2>1 DEF x
  <2>5. /\ entry' \in [Sessions -> MappingInfo] /\ phase' \in [Sessions -> Phases]
        /\ chosen' \in [Sessions -> Sessions \cup {NONE}]
        /\ entry'[x].unmapScheduled
        /\ \A u \in Sessions : u # x => entry'[u] = entry[u]
        /\ \A u \in Sessions : entry'[u].hostPointer = entry[u].hostPointer
        /\ \A u \in Sessions : entry[u].unmapScheduled => entry'[u].unmapScheduled
    BY <2>2, <2>3, <2>4 DEF EntryInv, MappingInfo, Phases
  <2>6. \A u \in Sessions :
        /\ phase'[u] = "new" => ~entry'[u].unmapScheduled
        /\ phase'[u] # "new" => RegionOf(u)' \in Regions
        /\ phase'[u] # "unmapping" => chosen'[u] = NONE
        /\ UnmapPending(u)' => entry'[u].unmapScheduled
    BY <2>2, <2>3, <2>4, <2>5 DEF EntryInv, RegionOf, UnmapPending, IsUnmap
  <2>7. \A u \in Sessions : phase'[u] = "unmapping" =>
            chosen'[u] # NONE /\ entry'[chosen'[u]].unmapScheduled
    <3>1. \A u \in Sessions : chosen[u] # NONE => chosen[u] \in Sessions
      BY DEF EntryInv
    <3> QED
      BY <1>0, <2>2, <2>3, <2>4, <2>5, <3>1 DEF EntryInv
  <2> QED
    BY <1>0, <2>2, <2>3, <2>5, <2>6, <2>7 DEF EntryInv
<1>4. ASSUME NEW t \in Threads, PushUnmap(t)
      PROVE  EntryInv'
  <2> DEFINE s == caller[t]
             c == [kind |-> "unmap", entry |-> chosen[s], region |-> RegionOf(s)]
  <2>1. /\ s \in Sessions /\ c \in Command /\ phase[s] = "unmapping"
        /\ chosen[s] \in Sessions /\ entry[chosen[s]].unmapScheduled
        /\ pending' = Append(pending, c)
    BY <1>4, CallerFacts DEF PushUnmap, Push
  <2>2. c.kind = "unmap" /\ c.entry = chosen[s] /\ c.entry # NONE
    BY <1>0, <2>1
  <2> HIDE DEF c
  <2>3. /\ pending' \in Seq(Command) /\ \A u : UnmapPending(u)' <=> UnmapPending(u) \/ u = chosen[s]
        /\ \A i \in DOMAIN pending' : pending'[i].kind # "kernel" => pending'[i].entry # NONE
    BY <2>1, <2>2, PushFacts DEF EntryInv
  <2>4. /\ phase' = [phase EXCEPT ![s] = "over"] /\ chosen' = [chosen EXCEPT ![s] = NONE]
        /\ caller' \in [Threads -> Sessions \cup {NONE}]
        /\ UNCHANGED <<mappings, entry, spoiled>>
    BY <1>4 DEF EntryInv, PushUnmap
  <2> HIDE DEF s
  <2> QED
    BY <1>0, <2>1, <2>3, <2>4 DEF EntryInv, RegionOf, Phases
<1>5. ASSUME NEW s \in Sessions, HostWrite(s)
      PROVE  EntryInv'
  BY <1>5 DEF HostWrite, EntryInv, RegionOf, UnmapPending, IsUnmap
<1>6. ASSUME NEW r \in Regions, PushKernel(r)
      PROVE  EntryInv'
  <2> DEFINE c == [kind |-> "kernel", entry |-> NONE, region |-> r]
  <2>1. c \in Command /\ pending' = Append(pending, c) /\ c.kind = "kernel"
    BY <1>6 DEF PushKernel, Push, Command
  <2> HIDE DEF c
  <2>2. /\ pending' \in Seq(Command) /\ \A u : UnmapPending(u)' <=> UnmapPending(u)
        /\ \A i \in DOMAIN pending' : pending'[i].kind # "kernel" => pending'[i].entry # NONE
    BY <2>1, PushFacts DEF EntryInv
  <2>3. UNCHANGED <<mappings, entry, phase, caller, chosen, spoiled>>
    BY <1>6 DEF PushKernel
  <2> QED
    BY <2>2, <2>3 DEF EntryInv, RegionOf
<1>7. ASSUME NEW kind \in {"map", "unmap", "kernel"}, Take(kind),
             \/ UNCHANGED phase
             \/ \E as \in {"mapped", "over"} : kind = "map" /\ MapEnds(Head(pending).entry, as),
             \/ UNCHANGED mappings
             \/ mappings' = RemoveFirst(mappings, Head(pending).entry),
             spoiled' \subseteq Regions,
             UNCHANGED <<entry, caller, chosen>>
      PROVE  EntryInv'
  <2>1. /\ pending' \in Seq(Command) /\ \A u : UnmapPending(u)' => UnmapPending(u)
        /\ \A i \in DOMAIN pending' : pending'[i].kind # "kernel" => pending'[i].entry # NONE
    BY <1>7, TakeFacts DEF EntryInv
  <2>2. /\ mappings' \in Seq(Sessions) /\ IsInjective(mappings')
        /\ Range(mappings') \subseteq Range(mappings)
    BY <1>7, RemoveFirstFacts DEF EntryInv
  <2>3. /\ phase' \in [Sessions -> Phases]
        /\ \A u \in Sessions :
            \/ phase'[u] = phase[u]
            \/ phase[u] = "pushed" /\ phase'[u] \in {"mapped", "over"}
    <3>1. CASE UNCHANGED phase
      BY <3>1 DEF EntryInv
    <3>2. ASSUME NEW as \in {"mapped", "over"}, MapEnds(Head(pending).entry, as)
          PROVE  <2>3!1 /\ <2>3!2
      <4> DEFINE s == Head(pending).entry
      <4>1. phase' = [phase EXCEPT ![s] = IF phase[s] = "pushed" THEN as ELSE phase[s]]
        BY <3>2 DEF MapEnds
      <4> HIDE DEF s
      <4> QED
        BY <3>2, <4>1 DEF EntryInv, Phases
    <3> QED
      BY <1>7, <3>1, <3>2
  <2> QED
    BY <1>0, <1>7, <2>1, <2>2, <2>3 DEF EntryInv, RegionOf
<1>8. CASE Execute
  <2>1. CASE ExecuteMap
    BY <1>7, <2>1 DEF ExecuteMap, EntryInv
  <2>2. CASE ExecuteUnmap
    BY <1>7, <2>2 DEF ExecuteUnmap, EntryInv
  <2>3. CASE ExecuteKernel
    BY <1>7, <2>3 DEF ExecuteKernel, EntryInv
  <2>4. CASE AbortCommand
    <3>1. PICK kind \in MayAbort : Take(kind)
      BY <2>4 DEF AbortCommand
    <3>2. kind \in {"map", "unmap", "kernel"} /\ Head(pending).kind = kind
      BY <3>1, BufferMappingAssumption DEF Take
    <3>3. Head(pending).region \in Regions
      <4>1. 1 \in DOMAIN pending /\ Head(pending) = pending[1]
        BY <3>1, TakeFacts
      <4> QED
        BY <4>1, PendingFacts DEF Command
    <3> QED
      BY <1>7, <2>4, <3>1, <3>2, <3>3 DEF AbortCommand, EntryInv
  <2> QED
    BY <1>8, <2>1, <2>2, <2>3, <2>4 DEF Execute
<1>9. CASE UNCHANGED vars
  BY <1>9 DEF vars, EntryInv, RegionOf, UnmapPending, IsUnmap
<1> QED
  BY <1>1, <1>2, <1>3, <1>4, <1>5, <1>6, <1>8, <1>9 DEF Next

-----------------------------------------------------------------------------
(* Mappings and the entries an unmap can find *)

\* A map call adds a mapping and an entry for it.
LEMMA AddMappingFacts ==
    ASSUME EntryInv, NEW t \in Threads, NEW s \in Sessions, NEW r \in Regions,
           NEW mode \in Modes, AddMapping(t, s, r, mode)
    PROVE  /\ s \notin Range(mappings) /\ Range(mappings') = Range(mappings) \cup {s}
           /\ \A u \in Sessions : u # s => entry'[u] = entry[u] /\ phase'[u] = phase[u]
           /\ phase[s] = "new" /\ phase'[s] = "mapping"
           /\ entry'[s].hostPointer = r /\ ~entry'[s].unmapScheduled
           /\ entry'[s].skipPopulatingBuffer <=> mode = "invalidate"
           /\ entry'[s].skipWritingBack <=> mode = "read"
<1>1. s \notin Range(mappings) /\ phase[s] = "new"
  BY DEF EntryInv, AddMapping
<1>2. Range(mappings') = Range(mappings) \cup {s}
  BY <1>1, AppendFacts DEF EntryInv, AddMapping
<1>3. /\ \A u \in Sessions : u # s => entry'[u] = entry[u] /\ phase'[u] = phase[u]
      /\ phase'[s] = "mapping"
      /\ entry'[s].hostPointer = r /\ ~entry'[s].unmapScheduled
      /\ entry'[s].skipPopulatingBuffer <=> mode = "invalidate"
      /\ entry'[s].skipWritingBack <=> mode = "read"
  BY DEF EntryInv, AddMapping
<1> QED
  BY <1>1, <1>2, <1>3

LEMMA AddMappingSets ==
    ASSUME EntryInv, NEW t \in Threads, NEW s \in Sessions, NEW r \in Regions,
           NEW mode \in Modes, AddMapping(t, s, r, mode), NEW q \in Regions
    PROVE  /\ s \notin Active(q) /\ s \notin Live(q) /\ s \notin Unscheduled(q)
           /\ q = r => /\ Active(q)' = Active(q) \cup {s}
                       /\ Live(q)' = Live(q) \cup {s}
                       /\ Unscheduled(q)' = Unscheduled(q) \cup {s}
           /\ q # r => /\ Active(q)' = Active(q)
                       /\ Live(q)' = Live(q)
                       /\ Unscheduled(q)' = Unscheduled(q)
<1>1. /\ s \notin Range(mappings) /\ phase[s] = "new"
      /\ phase'[s] = "mapping" /\ entry'[s].hostPointer = r /\ ~entry'[s].unmapScheduled
      /\ Range(mappings') = Range(mappings) \cup {s}
      /\ \A u \in Sessions : u # s => entry'[u] = entry[u] /\ phase'[u] = phase[u]
  BY AddMappingFacts
<1>2. s \notin Active(q) /\ s \notin Live(q) /\ s \notin Unscheduled(q)
  BY <1>1 DEF Active, Live, Unscheduled
<1>3. /\ q = r => Active(q)' = Active(q) \cup {s}
      /\ q # r => Active(q)' = Active(q)
  BY <1>1 DEF Active, RegionOf
<1>4. /\ q = r => Live(q)' = Live(q) \cup {s}
      /\ q # r => Live(q)' = Live(q)
  BY <1>1 DEF Live, Active, RegionOf
<1>5. /\ q = r => Unscheduled(q)' = Unscheduled(q) \cup {s}
      /\ q # r => Unscheduled(q)' = Unscheduled(q)
  BY <1>1, RangeFacts DEF Unscheduled, RegionOf
<1> QED
  BY <1>2, <1>3, <1>4, <1>5

\* An unmap call takes one of each.
LEMMA FindMappingSets ==
    ASSUME EntryInv, NEW t \in Threads, NEW s \in Sessions, FindMapping(t, s)
    PROVE  \E x \in Unscheduled(RegionOf(s)) :
           /\ x \in Sessions /\ RegionOf(x) = RegionOf(s) /\ RegionOf(s) \in Regions
           /\ s \in Live(RegionOf(s)) /\ ~entry[x].unmapScheduled /\ x \in Range(mappings)
           /\ phase[x] # "new"
           /\ \A u \in Sessions : u # s => phase'[u] = phase[u] /\ chosen'[u] = chosen[u]
           /\ phase'[s] = "unmapping" /\ chosen'[s] = x
           /\ \A u \in Sessions : u # x => entry'[u] = entry[u]
           /\ entry'[x] = [entry[x] EXCEPT !.unmapScheduled = TRUE]
           /\ \A u \in Sessions : Writer(u)' <=> Writer(u)
           /\ \A q \in Regions : Active(q)' = Active(q)
           /\ \A q \in Regions : Live(q)' = Live(q) \ {s}
           /\ \A q \in Regions : Unscheduled(q)' = Unscheduled(q) \ {x}
           /\ \A q \in Regions : q # RegionOf(s) => s \notin Live(q) /\ x \notin Unscheduled(q)
<1>1. PICK n \in DOMAIN mappings :
            /\ IsFirst(n, RegionOf(s))
            /\ entry' = [entry EXCEPT ![mappings[n]].unmapScheduled = TRUE]
            /\ chosen' = [chosen EXCEPT ![s] = mappings[n]]
  BY DEF FindMapping
<1> DEFINE x == mappings[n]
<1>2. x \in Unscheduled(RegionOf(s)) /\ entry' = [entry EXCEPT ![x].unmapScheduled = TRUE]
      /\ chosen' = [chosen EXCEPT ![s] = x]
  BY <1>1 DEF IsFirst
<1> HIDE DEF x
<1>3. /\ x \in Sessions /\ x \in Range(mappings) /\ RegionOf(x) = RegionOf(s)
      /\ ~entry[x].unmapScheduled /\ phase[x] # "new"
  BY <1>2, RangeFacts DEF Unscheduled, EntryInv
<1>4. /\ phase[s] \in {"pushed", "mapped"} /\ phase' = [phase EXCEPT ![s] = "unmapping"]
      /\ UNCHANGED mappings
  BY DEF FindMapping
<1>5. RegionOf(s) \in Regions /\ s \in Live(RegionOf(s))
  BY <1>4 DEF EntryInv, Live, Active
<1>6. /\ \A u \in Sessions : u # s => phase'[u] = phase[u] /\ chosen'[u] = chosen[u]
      /\ phase'[s] = "unmapping" /\ chosen'[s] = x
      /\ \A u \in Sessions : u # x => entry'[u] = entry[u]
      /\ entry'[x] = [entry[x] EXCEPT !.unmapScheduled = TRUE]
      /\ \A u \in Sessions : entry'[u].hostPointer = entry[u].hostPointer
      /\ \A u \in Sessions : entry'[u].skipWritingBack = entry[u].skipWritingBack
      /\ entry'[x].unmapScheduled
  BY <1>2, <1>3, <1>4 DEF EntryInv, MappingInfo
<1>7. \A u \in Sessions : Writer(u)' <=> Writer(u)
  BY <1>6 DEF Writer
<1>8. \A q \in Regions : Active(q)' = Active(q)
  BY <1>4, <1>6 DEF Active, RegionOf
<1>9. \A q \in Regions : Live(q)' = Live(q) \ {s}
  BY <1>4, <1>6 DEF Live, Active, RegionOf
<1>10. \A q \in Regions : Unscheduled(q)' = Unscheduled(q) \ {x}
  <2> SUFFICES ASSUME NEW q \in Regions, NEW u
               PROVE  u \in Unscheduled(q)' <=> u \in Unscheduled(q) \ {x}
    OBVIOUS
  <2>1. u \in Unscheduled(q)' <=>
            /\ u \in Range(mappings)
            /\ entry'[u].hostPointer = q
            /\ ~entry'[u].unmapScheduled
    BY <1>4 DEF Unscheduled, RegionOf
  <2>2. u \in Unscheduled(q) <=>
            /\ u \in Range(mappings)
            /\ entry[u].hostPointer = q
            /\ ~entry[u].unmapScheduled
    BY DEF Unscheduled, RegionOf
  <2>3. CASE u = x
    BY <1>6, <2>1, <2>3
  <2>4. CASE u # x
    BY <1>6, <2>1, <2>2, <2>4, RangeFacts
  <2> QED
    BY <2>3, <2>4
<1>11. \A q \in Regions : q # RegionOf(s) => s \notin Live(q) /\ x \notin Unscheduled(q)
  BY <1>3 DEF Live, Active, Unscheduled
<1> QED
  BY <1>2, <1>3, <1>5, <1>6, <1>7, <1>8, <1>9, <1>10, <1>11

\* Nothing else changes them, but that a mapping whose map was aborted is gone
\* and leaves its entry behind.
LEMMA OtherSets ==
    ASSUME EntryInv,
           \/ \E t \in Threads : PushMap(t) \/ PushUnmap(t)
           \/ \E s \in Sessions : HostWrite(s)
           \/ \E r \in Regions : PushKernel(r)
           \/ Execute
           \/ UNCHANGED vars
    PROVE  /\ entry' = entry
           /\ \A q \in Regions : Unscheduled(q)' = Unscheduled(q)
           /\ \A q \in Regions : Live(q)' \subseteq Live(q)
           /\ ~AbortCommand => \A q \in Regions : Live(q)' = Live(q)
           /\ \A q \in Regions : Active(q)' \subseteq Active(q)
<1>1. entry' = entry
  BY DEF PushMap, PushUnmap, HostWrite, PushKernel, Execute, ExecuteMap, ExecuteUnmap,
         ExecuteKernel, AbortCommand, vars
<1>2. \A q \in Regions : Unscheduled(q)' = Unscheduled(q)
  <2>1. CASE UNCHANGED mappings
    BY <1>1, <2>1 DEF Unscheduled, RegionOf
  <2>2. CASE ExecuteUnmap
    <3>1. Head(pending) = pending[1] /\ 1 \in DOMAIN pending /\ pending[1].kind = "unmap"
      BY <2>2, TakeFacts DEF ExecuteUnmap
    <3>2. mappings' = RemoveFirst(mappings, pending[1].entry)
      BY <2>2, <3>1 DEF ExecuteUnmap
    <3>3. Range(mappings') = Range(mappings) \ {pending[1].entry}
      BY <3>2, RemoveFirstFacts DEF EntryInv
    <3>4. pending[1].entry \in Sessions => entry[pending[1].entry].unmapScheduled
      BY <3>1 DEF EntryInv, UnmapPending, IsUnmap
    <3> QED
      BY <1>1, <3>3, <3>4, RangeFacts DEF Unscheduled, RegionOf
  <2> QED
    BY <2>1, <2>2 DEF PushMap, PushUnmap, HostWrite, PushKernel, Execute, ExecuteMap,
                      ExecuteKernel, AbortCommand, vars
<1>3. ASSUME UNCHANGED phase
      PROVE  \A q \in Regions : Live(q)' = Live(q) /\ Active(q)' = Active(q)
  BY <1>1, <1>3 DEF Live, Active, RegionOf
<1>4. ASSUME NEW s \in Sessions, NEW from \in Phases \ {"new", "over"}, NEW to \in Phases \ {"new"},
             phase[s] = from, phase' = [phase EXCEPT ![s] = to],
             (from = "unmapping" <=> to \in {"unmapping", "over"}) \/ to = "over"
      PROVE  \A q \in Regions :
                 /\ Live(q)' \subseteq Live(q) /\ Active(q)' \subseteq Active(q)
                 /\ (from = "unmapping" <=> to \in {"unmapping", "over"}) => Live(q)' = Live(q)
  <2>1. /\ \A u \in Sessions : u # s => phase'[u] = phase[u]
        /\ phase'[s] = to
    BY <1>4 DEF EntryInv
  <2> QED
    BY <1>1, <1>4, <2>1 DEF Live, Active, RegionOf, Phases
<1>5. CASE \E t \in Threads : PushMap(t) \/ PushUnmap(t)
  <2>1. PICK t \in Threads : PushMap(t) \/ PushUnmap(t)
    BY <1>5
  <2> DEFINE s == caller[t]
  <2>2. s \in Sessions
    BY <2>1, CallerFacts DEF PushMap, PushUnmap
  <2>3. \/ phase[s] = "mapping" /\ phase' = [phase EXCEPT ![s] = "pushed"]
        \/ phase[s] = "unmapping" /\ phase' = [phase EXCEPT ![s] = "over"]
    BY <2>1 DEF PushMap, PushUnmap
  <2> HIDE DEF s
  <2>4. CASE phase[s] = "mapping" /\ phase' = [phase EXCEPT ![s] = "pushed"]
    <3>1. /\ "mapping" \in Phases \ {"new", "over"} /\ "pushed" \in Phases \ {"new"}
          /\ "mapping" = "unmapping" <=> "pushed" \in {"unmapping", "over"}
      BY DEF Phases
    <3> QED
      BY <1>1, <1>2, <1>4, <2>2, <2>4, <3>1
  <2>5. CASE phase[s] = "unmapping" /\ phase' = [phase EXCEPT ![s] = "over"]
    <3>1. /\ "unmapping" \in Phases \ {"new", "over"} /\ "over" \in Phases \ {"new"}
          /\ "unmapping" = "unmapping" <=> "over" \in {"unmapping", "over"}
      BY DEF Phases
    <3> QED
      BY <1>1, <1>2, <1>4, <2>2, <2>5, <3>1
  <2> QED
    BY <2>3, <2>4, <2>5
<1>6. ASSUME NEW as \in {"mapped", "over"}, MapEnds(Head(pending).entry, as)
      PROVE  \A q \in Regions :
                 /\ Live(q)' \subseteq Live(q) /\ Active(q)' \subseteq Active(q)
                 /\ as = "mapped" => Live(q)' = Live(q)
  <2> DEFINE s == Head(pending).entry
  <2>1. phase' = [phase EXCEPT ![s] = IF phase[s] = "pushed" THEN as ELSE phase[s]]
    BY <1>6 DEF MapEnds
  <2> HIDE DEF s
  <2>2. CASE s \in Sessions /\ phase[s] = "pushed"
    BY <1>4, <1>6, <2>1, <2>2 DEF Phases
  <2>3. CASE ~(s \in Sessions /\ phase[s] = "pushed")
    <3>1. \A u \in Sessions : phase'[u] = phase[u]
      BY <2>1, <2>3 DEF EntryInv
    <3> QED
      BY <1>1, <3>1 DEF Live, Active, RegionOf
  <2> QED
    BY <2>2, <2>3
<1>7. CASE Execute
  BY <1>1, <1>2, <1>3, <1>6, <1>7 DEF Execute, ExecuteMap, ExecuteUnmap, ExecuteKernel, AbortCommand
<1>8. CASE ~Execute /\ UNCHANGED phase
  BY <1>1, <1>2, <1>3, <1>8
<1> QED
  BY <1>5, <1>7, <1>8 DEF HostWrite, PushKernel, vars

LEMMA CountInit == Init => CountInv
<1> SUFFICES ASSUME Init, NEW r \in Regions
             PROVE  Live(r) = {} /\ Unscheduled(r) = {}
  BY FS_EmptySet DEF CountInv
<1>1. Live(r) = {}
  BY DEF Init, Live, Active
<1>2. Unscheduled(r) = {}
  BY DEF Init, Unscheduled, Range
<1> QED
  BY <1>1, <1>2

LEMMA CountStep == EntryInv /\ CountInv /\ [Next]_vars => CountInv'
<1> SUFFICES ASSUME EntryInv, CountInv, [Next]_vars, NEW q \in Regions
             PROVE  /\ IsFiniteSet(Live(q)') /\ IsFiniteSet(Unscheduled(q)')
                    /\ Cardinality(Live(q)') <= Cardinality(Unscheduled(q)')
  BY DEF CountInv
<1>0. /\ IsFiniteSet(Live(q)) /\ IsFiniteSet(Unscheduled(q))
      /\ Cardinality(Live(q)) <= Cardinality(Unscheduled(q))
      /\ Cardinality(Live(q)) \in Nat /\ Cardinality(Unscheduled(q)) \in Nat
  BY FS_CardinalityType DEF CountInv
<1>1. ASSUME NEW t \in Threads, NEW s \in Sessions, NEW r \in Regions, NEW mode \in Modes,
             AddMapping(t, s, r, mode)
      PROVE  /\ IsFiniteSet(Live(q)') /\ IsFiniteSet(Unscheduled(q)')
             /\ Cardinality(Live(q)') <= Cardinality(Unscheduled(q)')
  <2>1. CASE q # r
    <3>1. Live(q)' = Live(q) /\ Unscheduled(q)' = Unscheduled(q)
      BY <1>1, <2>1, AddMappingSets
    <3> QED
      BY <1>0, <3>1
  <2>2. CASE q = r
    <3>1. /\ Live(q)' = Live(q) \cup {s} /\ s \notin Live(q)
          /\ Unscheduled(q)' = Unscheduled(q) \cup {s} /\ s \notin Unscheduled(q)
      BY <1>1, <2>2, AddMappingSets
    <3>2. /\ IsFiniteSet(Live(q)') /\ Cardinality(Live(q)') = Cardinality(Live(q)) + 1
      BY <1>0, <3>1, FS_AddElement
    <3>3. /\ IsFiniteSet(Unscheduled(q)')
          /\ Cardinality(Unscheduled(q)') = Cardinality(Unscheduled(q)) + 1
      BY <1>0, <3>1, FS_AddElement
    <3> QED
      BY <1>0, <3>2, <3>3
  <2> QED
    BY <2>1, <2>2
<1>2. ASSUME NEW t \in Threads, NEW s \in Sessions, FindMapping(t, s)
      PROVE  /\ IsFiniteSet(Live(q)') /\ IsFiniteSet(Unscheduled(q)')
             /\ Cardinality(Live(q)') <= Cardinality(Unscheduled(q)')
  <2>1. PICK x \in Unscheduled(RegionOf(s)) :
            /\ s \in Live(RegionOf(s))
            /\ Live(q)' = Live(q) \ {s} /\ Unscheduled(q)' = Unscheduled(q) \ {x}
            /\ q # RegionOf(s) => s \notin Live(q) /\ x \notin Unscheduled(q)
    BY <1>2, FindMappingSets
  <2>2. s \in Live(q) <=> x \in Unscheduled(q)
    BY <2>1
  <2>3. /\ IsFiniteSet(Live(q)')
        /\ Cardinality(Live(q)') = IF s \in Live(q) THEN Cardinality(Live(q)) - 1
                                                     ELSE Cardinality(Live(q))
    BY <1>0, <2>1, FS_RemoveElement
  <2>4. /\ IsFiniteSet(Unscheduled(q)')
        /\ Cardinality(Unscheduled(q)') = IF x \in Unscheduled(q)
                                             THEN Cardinality(Unscheduled(q)) - 1
                                             ELSE Cardinality(Unscheduled(q))
    BY <1>0, <2>1, FS_RemoveElement
  <2> QED
    BY <1>0, <2>2, <2>3, <2>4
<1>3. CASE \/ \E t \in Threads : PushMap(t) \/ PushUnmap(t)
           \/ \E s \in Sessions : HostWrite(s)
           \/ \E r \in Regions : PushKernel(r)
           \/ Execute
           \/ UNCHANGED vars
  <2>1. Live(q)' \in SUBSET Live(q) /\ Unscheduled(q)' = Unscheduled(q)
    BY <1>3, OtherSets
  <2>2. /\ IsFiniteSet(Live(q)') /\ Cardinality(Live(q)') <= Cardinality(Live(q))
        /\ Cardinality(Live(q)') \in Nat
    BY <1>0, <2>1, FS_Subset, FS_CardinalityType
  <2> QED
    BY <1>0, <2>1, <2>2
<1> QED
  BY <1>1, <1>2, <1>3 DEF Next

\* Every mapping that has yet to be unmapped finds an entry, whatever threads
\* map and unmap at the same time, which pointers they share and which commands
\* are aborted: clEnqueueUnmapMemObject does not refuse a pointer that is mapped.
THEOREM UnmapsFindTheirMapping == Spec => []UnmapFindsMapping
<1>1. CountInv => UnmapFindsMapping
  <2> SUFFICES ASSUME CountInv, NEW r \in Regions
               PROVE  Cardinality({s \in Active(r) : phase[s] # "unmapping"})
                          <= Cardinality(Unscheduled(r))
    BY DEF UnmapFindsMapping
  <2>1. Live(r) = {s \in Active(r) : phase[s] # "unmapping"}
    BY DEF Live
  <2> QED
    BY <2>1 DEF CountInv
<1> QED
  BY <1>1, EntryInit, EntryStep, CountInit, CountStep, PTL DEF Spec

-----------------------------------------------------------------------------
(* Commands, with one thread *)

LEMMA CommandInit == Init => CommandInv
<1> SUFFICES ASSUME Init PROVE CommandInv
  OBVIOUS
<1>1. DOMAIN pending = {} /\ NONE \notin Sessions
  BY BufferMappingAssumption DEF Init
<1>2. /\ \A s \in Sessions : phase[s] = "new" /\ ~entry[s].unmapScheduled /\ chosen[s] = NONE
      /\ \A s : ~MapPending(s) /\ ~UnmapPending(s)
  BY <1>1 DEF Init, MapPending, UnmapPending
<1> QED
  BY <1>1, <1>2 DEF CommandInv

\* A command leaves the queue, and an unmap takes its entry out of the list.
LEMMA CommandTake ==
    ASSUME EntryInv, CommandInv, NEW kind, Take(kind),
           \A u \in Sessions : phase'[u] \in {"new", "mapping"} => phase[u] = phase'[u],
           \/ UNCHANGED mappings
           \/ kind = "unmap" /\ mappings' = RemoveFirst(mappings, Head(pending).entry),
           UNCHANGED <<entry, caller, chosen>>
    PROVE  CommandInv'
<1>0. PICK x : x = pending[1].entry
  OBVIOUS
<1>1. /\ 1 \in DOMAIN pending /\ Head(pending) = pending[1] /\ pending[1].kind = kind
      /\ DOMAIN pending = 1..Len(pending) /\ Len(pending) \in Nat
      /\ \A i \in DOMAIN pending' : i + 1 \in DOMAIN pending /\ pending'[i] = pending[i + 1]
      /\ DOMAIN pending' = 1..(Len(pending) - 1)
      /\ \A s : MapPending(s)' => MapPending(s)
      /\ \A s : UnmapPending(s)' => UnmapPending(s)
  BY TakeFacts, PendingFacts
<1>2. \/ Range(mappings') = Range(mappings)
      \/ kind = "unmap" /\ Range(mappings') = Range(mappings) \ {x}
  BY <1>0, <1>1, RemoveFirstFacts DEF EntryInv
<1>3. ASSUME kind = "unmap", x \in Sessions
      PROVE  /\ phase[x] # "mapping" /\ UnmapPending(x)
             /\ ~MapPending(x)' /\ ~UnmapPending(x)'
  <2>1. UnmapPending(x) /\ entry[x].unmapScheduled
    BY <1>0, <1>1, <1>3 DEF UnmapPending, IsUnmap, EntryInv
  <2>2. phase[x] # "mapping"
    BY <1>3, <2>1 DEF CommandInv
  <2>3. ASSUME NEW i \in DOMAIN pending', IsMap(i, x)' \/ IsUnmap(i, x)'
        PROVE  FALSE
    <3>1. /\ i + 1 \in DOMAIN pending /\ 1 < i + 1
          /\ pending[i + 1].kind # "kernel" /\ pending[i + 1].entry = pending[1].entry
      BY <1>0, <1>1, <2>3 DEF IsMap, IsUnmap
    <3> QED
      BY <1>1, <1>3, <3>1 DEF CommandInv
  <2> QED
    BY <2>1, <2>2, <2>3 DEF MapPending, UnmapPending
<1>4. \A s \in Sessions : phase'[s] = "mapping" => \E t \in Threads : caller'[t] = s
  BY DEF CommandInv
<1>5. \A s \in Sessions : phase'[s] \in {"new", "mapping"} =>
        ~entry'[s].unmapScheduled /\ ~MapPending(s)'
  BY <1>1 DEF CommandInv
<1>6. \A s \in Sessions : phase'[s] = "mapping" \/ MapPending(s)' \/ UnmapPending(s)'
        => s \in Range(mappings')
  BY <1>1, <1>2, <1>3 DEF CommandInv
<1>7. \A i, j \in DOMAIN pending' :
        /\ i < j /\ pending'[i].kind # "kernel" /\ pending'[j].kind # "kernel"
        /\ pending'[i].entry = pending'[j].entry
        => pending'[i].kind = "map" /\ pending'[j].kind = "unmap"
  <2> SUFFICES ASSUME NEW i \in DOMAIN pending', NEW j \in DOMAIN pending', i < j,
                      pending'[i].kind # "kernel", pending'[j].kind # "kernel",
                      pending'[i].entry = pending'[j].entry
               PROVE  pending'[i].kind = "map" /\ pending'[j].kind = "unmap"
    OBVIOUS
  <2>1. /\ i + 1 \in DOMAIN pending /\ j + 1 \in DOMAIN pending /\ i + 1 < j + 1
        /\ pending'[i] = pending[i + 1] /\ pending'[j] = pending[j + 1]
    BY <1>1
  <2> QED
    BY <2>1 DEF CommandInv
<1>8. \A s, u \in Sessions : chosen'[s] = u =>
        /\ u \in Range(mappings') /\ ~UnmapPending(u)'
        /\ \A v \in Sessions : chosen'[v] = u => v = s
  BY <1>1, <1>2, <1>3 DEF CommandInv
<1> QED
  BY <1>4, <1>5, <1>6, <1>7, <1>8 DEF CommandInv

\* Nothing but a pushed map or unmap command takes part in the invariant.
LEMMA CommandSame ==
    ASSUME EntryInv, CommandInv,
           \/ UNCHANGED pending
           \/ \E r \in Regions : Push("kernel", NONE, r),
           UNCHANGED <<mappings, entry, phase, caller, chosen>>
    PROVE  CommandInv'
<1>1. CASE UNCHANGED pending
  BY <1>1 DEF CommandInv, MapPending, UnmapPending, IsMap, IsUnmap
<1>2. CASE \E r \in Regions : Push("kernel", NONE, r)
  <2>1. PICK c \in Command : pending' = Append(pending, c) /\ c.kind = "kernel"
    BY <1>2 DEF Push, Command
  <2>2. /\ \A i \in DOMAIN pending : pending'[i] = pending[i]
        /\ \A i \in DOMAIN pending' : pending'[i].kind # "kernel" => i \in DOMAIN pending
        /\ \A s : (MapPending(s)' <=> MapPending(s)) /\ (UnmapPending(s)' <=> UnmapPending(s))
    BY <2>1, PushFacts
  <2> QED
    BY <2>2 DEF CommandInv
<1> QED
  BY <1>1, <1>2

LEMMA CommandStep == OneThread /\ EntryInv /\ CommandInv /\ [Next]_vars => CommandInv'
<1> SUFFICES ASSUME OneThread, EntryInv, CommandInv, [Next]_vars
             PROVE  CommandInv'
  OBVIOUS
<1>0. NONE \notin Sessions
  BY BufferMappingAssumption
<1>1. ASSUME NEW t \in Threads, NEW s \in Sessions, NEW r \in Regions, NEW mode \in Modes,
             AddMapping(t, s, r, mode)
      PROVE  CommandInv'
  <2>1. /\ Range(mappings') = Range(mappings) \cup {s}
        /\ \A u \in Sessions : u # s => entry'[u] = entry[u] /\ phase'[u] = phase[u]
        /\ phase[s] = "new" /\ phase'[s] = "mapping" /\ ~entry'[s].unmapScheduled
    BY <1>1, AddMappingFacts
  <2>2. caller[t] = NONE /\ caller'[t] = s /\ UNCHANGED <<chosen, pending>>
    BY <1>1 DEF AddMapping, EntryInv
  <2>3. \A u : (MapPending(u)' <=> MapPending(u)) /\ (UnmapPending(u)' <=> UnmapPending(u))
    BY <2>2 DEF MapPending, UnmapPending, IsMap, IsUnmap
  <2>4. \A u \in Sessions : phase'[u] = "mapping" => \E v \in Threads : caller'[v] = u
    BY <1>0, <2>1, <2>2 DEF CommandInv, OneThread
  <2>5. \A u \in Sessions : phase'[u] \in {"new", "mapping"} =>
            ~entry'[u].unmapScheduled /\ ~MapPending(u)'
    BY <2>1, <2>3 DEF CommandInv
  <2>6. \A u \in Sessions : phase'[u] = "mapping" \/ MapPending(u)' \/ UnmapPending(u)'
            => u \in Range(mappings')
    BY <2>1, <2>3 DEF CommandInv
  <2> QED
    BY <2>1, <2>2, <2>3, <2>4, <2>5, <2>6 DEF CommandInv
<1>2. ASSUME NEW t \in Threads, PushMap(t)
      PROVE  CommandInv'
  <2> DEFINE s == caller[t]
             c == [kind |-> "map", entry |-> s, region |-> RegionOf(s)]
  <2>1. s \in Sessions /\ c \in Command /\ phase[s] = "mapping" /\ pending' = Append(pending, c)
    BY <1>2, CallerFacts DEF PushMap, Push
  <2>2. c.kind = "map" /\ c.entry = s
    OBVIOUS
  <2>3. /\ phase' = [phase EXCEPT ![s] = "pushed"] /\ caller[t] = s
        /\ UNCHANGED <<mappings, entry, chosen>>
    BY <1>2 DEF PushMap
  <2> HIDE DEF c, s
  <2>4. /\ Len(pending) \in Nat /\ DOMAIN pending = 1..Len(pending)
        /\ DOMAIN pending' = 1..(Len(pending) + 1)
        /\ \A i \in DOMAIN pending : pending'[i] = pending[i]
        /\ pending'[Len(pending) + 1] = c
        /\ \A u : MapPending(u)' <=> MapPending(u) \/ u = s
        /\ \A u : UnmapPending(u)' <=> UnmapPending(u)
    BY <2>1, <2>2, PushFacts, PendingFacts
  <2>5. phase'[s] = "pushed" /\ \A u \in Sessions : u # s => phase'[u] = phase[u]
    BY <2>1, <2>3 DEF EntryInv
  <2>6. \A u \in Sessions : phase'[u] # "mapping"
    BY <2>3, <2>5 DEF CommandInv, OneThread
  <2>7. ~MapPending(s) /\ ~UnmapPending(s) /\ s \in Range(mappings)
    BY <2>1 DEF CommandInv, EntryInv
  <2>8. \A u \in Sessions : phase'[u] \in {"new", "mapping"} =>
            ~entry'[u].unmapScheduled /\ ~MapPending(u)'
    BY <2>3, <2>4, <2>5, <2>6 DEF CommandInv
  <2>9. \A u \in Sessions : phase'[u] = "mapping" \/ MapPending(u)' \/ UnmapPending(u)'
            => u \in Range(mappings')
    BY <2>3, <2>4, <2>6, <2>7 DEF CommandInv
  <2>10. ASSUME NEW i \in DOMAIN pending', NEW j \in DOMAIN pending', i < j,
                pending'[i].kind # "kernel", pending'[j].kind # "kernel",
                pending'[i].entry = pending'[j].entry
         PROVE  pending'[i].kind = "map" /\ pending'[j].kind = "unmap"
    <3>1. i \in DOMAIN pending /\ pending'[i] = pending[i] /\ pending[i] \in Command
      BY <2>4, <2>10, PendingFacts
    <3>2. CASE j \in DOMAIN pending
      BY <2>4, <2>10, <3>1, <3>2 DEF CommandInv
    <3>3. CASE j = Len(pending) + 1
      <4>1. pending[i].entry = s /\ pending[i].kind \in {"map", "unmap"}
        BY <2>2, <2>4, <2>10, <3>1, <3>3 DEF Command
      <4> QED
        BY <2>7, <3>1, <4>1 DEF MapPending, UnmapPending, IsMap, IsUnmap
    <3> QED
      BY <2>4, <3>2, <3>3
  <2>11. \A v, u \in Sessions : chosen'[v] = u =>
            /\ u \in Range(mappings') /\ ~UnmapPending(u)'
            /\ \A w \in Sessions : chosen'[w] = u => w = v
    BY <2>3, <2>4 DEF CommandInv
  <2> QED
    BY <2>6, <2>8, <2>9, <2>10, <2>11 DEF CommandInv
<1>3. ASSUME NEW t \in Threads, NEW s \in Sessions, FindMapping(t, s)
      PROVE  CommandInv'
  <2>1. PICK x \in Unscheduled(RegionOf(s)) :
            /\ x \in Sessions /\ ~entry[x].unmapScheduled /\ x \in Range(mappings)
            /\ phase[x] # "new"
            /\ \A u \in Sessions : u # s => phase'[u] = phase[u] /\ chosen'[u] = chosen[u]
            /\ phase'[s] = "unmapping" /\ chosen'[s] = x
            /\ \A u \in Sessions : u # x => entry'[u] = entry[u]
    BY <1>3, ZenonT(30), FindMappingSets
  <2>2. /\ caller[t] = NONE /\ UNCHANGED <<mappings, pending>>
    BY <1>3 DEF FindMapping
  <2>3. \A u : (MapPending(u)' <=> MapPending(u)) /\ (UnmapPending(u)' <=> UnmapPending(u))
    BY <2>2 DEF MapPending, UnmapPending, IsMap, IsUnmap
  <2>4. \A u \in Sessions : phase[u] # "mapping" /\ phase'[u] # "mapping"
    BY <1>0, <2>1, <2>2 DEF CommandInv, OneThread
  <2>5. \A u \in Sessions : phase'[u] \in {"new", "mapping"} =>
            ~entry'[u].unmapScheduled /\ ~MapPending(u)'
    BY <2>1, <2>3, <2>4 DEF CommandInv
  <2>6. ~UnmapPending(x) /\ \A u \in Sessions : chosen[u] # x
    <3>1. \A u \in Sessions : chosen[u] = x => entry[x].unmapScheduled
      BY <1>0, <2>1 DEF EntryInv
    <3> QED
      BY <2>1, <3>1 DEF EntryInv
  <2>7. \A v, u \in Sessions : chosen'[v] = u =>
            /\ u \in Range(mappings') /\ ~UnmapPending(u)'
            /\ \A w \in Sessions : chosen'[w] = u => w = v
    BY <2>1, <2>2, <2>3, <2>6 DEF CommandInv
  <2> QED
    BY <2>2, <2>3, <2>4, <2>5, <2>7 DEF CommandInv
<1>4. ASSUME NEW t \in Threads, PushUnmap(t)
      PROVE  CommandInv'
  <2> DEFINE s == caller[t]
             x == chosen[s]
             c == [kind |-> "unmap", entry |-> x, region |-> RegionOf(s)]
  <2>1. /\ s \in Sessions /\ x \in Sessions /\ c \in Command
        /\ phase[s] = "unmapping" /\ pending' = Append(pending, c)
    BY <1>4, CallerFacts DEF PushUnmap, Push
  <2>2. c.kind = "unmap" /\ c.entry = x
    OBVIOUS
  <2>3. /\ phase' = [phase EXCEPT ![s] = "over"] /\ chosen' = [chosen EXCEPT ![s] = NONE]
        /\ caller[t] = s /\ chosen[s] = x
        /\ UNCHANGED <<mappings, entry>>
    BY <1>4 DEF PushUnmap
  <2> HIDE DEF c, x, s
  <2>4. /\ Len(pending) \in Nat /\ DOMAIN pending = 1..Len(pending)
        /\ DOMAIN pending' = 1..(Len(pending) + 1)
        /\ \A i \in DOMAIN pending : pending'[i] = pending[i]
        /\ pending'[Len(pending) + 1] = c
        /\ \A u : MapPending(u)' <=> MapPending(u)
        /\ \A u : UnmapPending(u)' <=> UnmapPending(u) \/ u = x
    BY <2>1, <2>2, PushFacts, PendingFacts
  <2>5. /\ phase'[s] = "over" /\ chosen'[s] = NONE
        /\ \A u \in Sessions : u # s => phase'[u] = phase[u] /\ chosen'[u] = chosen[u]
    BY <2>1, <2>3 DEF EntryInv
  <2>6. \A u \in Sessions : phase'[u] # "mapping"
    BY <2>1, <2>3, <2>5 DEF CommandInv, OneThread
  <2>7. /\ x \in Range(mappings) /\ ~UnmapPending(x)
        /\ \A u \in Sessions : chosen[u] = x => u = s
    BY <2>1, <2>3 DEF CommandInv
  <2>8. \A u \in Sessions : phase'[u] \in {"new", "mapping"} =>
            ~entry'[u].unmapScheduled /\ ~MapPending(u)'
    BY <2>3, <2>4, <2>5, <2>6 DEF CommandInv
  <2>9. \A u \in Sessions : phase'[u] = "mapping" \/ MapPending(u)' \/ UnmapPending(u)'
            => u \in Range(mappings')
    BY <2>3, <2>4, <2>6, <2>7 DEF CommandInv
  <2>10. ASSUME NEW i \in DOMAIN pending', NEW j \in DOMAIN pending', i < j,
                pending'[i].kind # "kernel", pending'[j].kind # "kernel",
                pending'[i].entry = pending'[j].entry
         PROVE  pending'[i].kind = "map" /\ pending'[j].kind = "unmap"
    <3>1. i \in DOMAIN pending /\ pending'[i] = pending[i] /\ pending[i] \in Command
      BY <2>4, <2>10, PendingFacts
    <3>2. CASE j \in DOMAIN pending
      BY <2>4, <2>10, <3>1, <3>2 DEF CommandInv
    <3>3. CASE j = Len(pending) + 1
      <4>1. pending[i].entry = x /\ pending[i].kind \in {"map", "unmap"}
        BY <2>2, <2>4, <2>10, <3>1, <3>3 DEF Command
      <4>2. pending[i].kind # "unmap"
        BY <2>7, <3>1, <4>1 DEF UnmapPending, IsUnmap
      <4> QED
        BY <2>2, <2>4, <3>1, <3>3, <4>1, <4>2
    <3> QED
      BY <2>4, <3>2, <3>3
  <2>11. \A v, u \in Sessions : chosen'[v] = u =>
            /\ u \in Range(mappings') /\ ~UnmapPending(u)'
            /\ \A w \in Sessions : chosen'[w] = u => w = v
    BY <1>0, <2>3, <2>4, <2>5, <2>7 DEF CommandInv
  <2> QED
    BY <2>6, <2>8, <2>9, <2>10, <2>11 DEF CommandInv
<1>5. CASE (\E s \in Sessions : HostWrite(s)) \/ (\E r \in Regions : PushKernel(r)) \/ UNCHANGED vars
  BY <1>5, CommandSame DEF HostWrite, PushKernel, vars
<1>6. CASE Execute
  <2>1. ASSUME NEW as \in {"mapped", "over"}, MapEnds(Head(pending).entry, as)
        PROVE  \A u \in Sessions : phase'[u] \in {"new", "mapping"} => phase[u] = phase'[u]
    BY <2>1 DEF MapEnds, EntryInv
  <2>2. CASE ExecuteMap
    BY <2>1, <2>2, CommandTake DEF ExecuteMap
  <2>3. CASE ExecuteUnmap
    BY <2>3, CommandTake DEF ExecuteUnmap
  <2>4. CASE ExecuteKernel
    BY <2>4, CommandTake DEF ExecuteKernel
  <2>5. CASE AbortCommand
    BY <2>1, <2>5, CommandTake DEF AbortCommand
  <2> QED
    BY <1>6, <2>2, <2>3, <2>4, <2>5 DEF Execute
<1> QED
  BY <1>1, <1>2, <1>3, <1>4, <1>5, <1>6 DEF Next

\* While one thread maps and unmaps, the iterator in a command is valid when the
\* command runs: the entry of a mapping is erased by its own last command.
THEOREM IteratorsStayValid == ASSUME OneThread PROVE Spec => []IteratorsValid
<1>1. EntryInv /\ CommandInv => IteratorsValid
  <2> SUFFICES ASSUME EntryInv, CommandInv, NEW i \in DOMAIN pending, pending[i].kind # "kernel"
               PROVE  Contains(mappings, pending[i].entry)
    BY DEF IteratorsValid
  <2> DEFINE s == pending[i].entry
  <2>1. s \in Sessions /\ pending[i].kind \in {"map", "unmap"}
    BY PendingFacts DEF EntryInv, Command
  <2>2. MapPending(s) \/ UnmapPending(s)
    BY <2>1 DEF MapPending, UnmapPending, IsMap, IsUnmap
  <2>3. s \in Range(mappings)
    BY <2>1, <2>2 DEF CommandInv
  <2> QED
    BY <2>3 DEF Contains, Range
<1> QED
  BY <1>1, EntryInit, EntryStep, CommandInit, CommandStep, PTL DEF Spec

-----------------------------------------------------------------------------
(* Mappings that write, with one thread and one region *)

\* A mapping that writes shares its region with no other.
LEMMA Alone ==
    ASSUME OneRegion, EntryInv, WriterInv, NEW s \in Sessions, NEW u \in Sessions,
           phase[s] \notin {"new", "over"}, phase[u] \notin {"new", "over"},
           Writer(s) \/ Writer(u)
    PROVE  s = u
<1>1. RegionOf(s) \in Regions /\ RegionOf(u) = RegionOf(s)
  BY DEF EntryInv, OneRegion
<1>2. s \in Active(RegionOf(s)) /\ u \in Active(RegionOf(s))
  BY <1>1 DEF Active
<1> QED
  BY <1>1, <1>2 DEF WriterInv

\* After its unmap call its entry is in the list until the command has run.
LEMMA WriterOver ==
    ASSUME EntryInv, WriterInv, NEW w \in Range(mappings), Writer(w), phase[w] = "over"
    PROVE  UnmapPending(w)
<1>1. w \in Sessions /\ RegionOf(w) \in Regions /\ NONE \notin Sessions
  BY RangeFacts, BufferMappingAssumption DEF EntryInv
<1>2. w \notin Live(RegionOf(w))
  BY DEF Live, Active
<1>3. entry[w].unmapScheduled
  BY <1>1, <1>2 DEF WriterInv, Unscheduled
<1>4. \A u \in Sessions : chosen[u] # w
  BY <1>1 DEF WriterInv, EntryInv
<1> QED
  BY <1>3, <1>4 DEF WriterInv

\* It is unmapped by its own session.
LEMMA WriterFound ==
    ASSUME OneRegion, EntryInv, CountInv, WriterInv, NEW s \in Sessions,
           phase[s] \in {"pushed", "mapped"},
           NEW x \in Unscheduled(RegionOf(s)), Writer(s) \/ Writer(x)
    PROVE  x = s
<1> DEFINE r == RegionOf(s)
<1>1. r \in Regions /\ s \in Live(r)
  BY DEF EntryInv, Live, Active
<1>2. CASE Writer(s)
  <2>1. s \in Unscheduled(r)
    BY <1>1, <1>2 DEF WriterInv
  <2>2. \A u \in Live(r) : u = s
    BY <1>1, <1>2 DEF WriterInv, Live
  <2>3. Live(r) = {s}
    BY <1>1, <2>2
  <2>4. Cardinality(Live(r)) = 1
    BY <2>3, FS_Singleton
  <2>5. Cardinality(Unscheduled(r)) = 1 /\ IsFiniteSet(Unscheduled(r))
    BY <1>1, <2>4 DEF WriterInv, CountInv
  <2>6. PICK y : Unscheduled(r) = {y}
    BY <2>5, FS_Singleton
  <2> QED
    BY <2>1, <2>6
<1>3. CASE Writer(x)
  <2>1. x \in Live(r)
    BY <1>1, <1>3 DEF WriterInv
  <2> QED
    BY <1>1, <1>3, <2>1 DEF WriterInv, Live
<1> QED
  BY <1>2, <1>3

LEMMA WriterStep ==
    ASSUME OneRegion, EntryInv, CountInv, CommandInv, WriterInv, [Next]_vars, ~AbortCommand
    PROVE  WriterInv'
<1>0. /\ NONE \notin Sessions /\ Range(mappings) \subseteq Sessions
      /\ \A r \in Regions :
            /\ IsFiniteSet(Live(r)) /\ IsFiniteSet(Unscheduled(r))
            /\ Cardinality(Live(r)) = Cardinality(Unscheduled(r))
            /\ \A s \in Live(r) : s \in Active(r) /\ s \in Sessions
            /\ \A s \in Active(r) : s \in Sessions
            /\ \A s \in Unscheduled(r) : s \in Range(mappings)
  BY RangeFacts, BufferMappingAssumption DEF WriterInv, CountInv, Live, Active, Unscheduled
<1>1. ASSUME NEW t \in Threads, NEW s \in Sessions, NEW r \in Regions, NEW mode \in Modes,
             AddMapping(t, s, r, mode)
      PROVE  WriterInv'
  <2>1. /\ Range(mappings') = Range(mappings) \cup {s} /\ s \notin Range(mappings)
        /\ \A u \in Sessions : u # s => entry'[u] = entry[u] /\ phase'[u] = phase[u]
        /\ phase[s] = "new" /\ ~entry'[s].unmapScheduled
        /\ entry'[s].skipPopulatingBuffer <=> mode = "invalidate"
        /\ entry'[s].skipWritingBack <=> mode = "read"
    BY <1>1, AddMappingFacts
  <2>2. /\ \A u \in Sessions : u # s => (Writer(u)' <=> Writer(u))
        /\ Writer(s)' <=> mode # "read"
    BY <2>1 DEF Writer
  <2>3. /\ UNCHANGED <<chosen, pending>>
        /\ \A u \in Active(r) : mode = "read" /\ ~Writer(u)
    BY <1>1 DEF AddMapping, MayMap, Writer
  <2>4. \A q \in Regions : Cardinality(Live(q)') = Cardinality(Unscheduled(q)')
    <3> SUFFICES ASSUME NEW q \in Regions
                 PROVE  Cardinality(Live(q)') = Cardinality(Unscheduled(q)')
      OBVIOUS
    <3>1. CASE q # r
      <4>1. Live(q)' = Live(q) /\ Unscheduled(q)' = Unscheduled(q)
        BY <1>1, <3>1, AddMappingSets
      <4> QED
        BY <1>0, <4>1
    <3>2. CASE q = r
      <4>1. /\ Live(q)' = Live(q) \cup {s} /\ s \notin Live(q)
            /\ Unscheduled(q)' = Unscheduled(q) \cup {s} /\ s \notin Unscheduled(q)
        BY <1>1, <3>2, AddMappingSets
      <4>2. Cardinality(Live(q)') = Cardinality(Live(q)) + 1
        BY <1>0, <4>1, FS_AddElement
      <4>3. Cardinality(Unscheduled(q)') = Cardinality(Unscheduled(q)) + 1
        BY <1>0, <4>1, FS_AddElement
      <4> QED
        BY <1>0, <4>2, <4>3
    <3> QED
      BY <3>1, <3>2
  <2>5. ASSUME NEW q \in Regions
        PROVE  /\ \A u, v \in Active(q)' : u # v => ~Writer(u)' /\ ~Writer(v)'
               /\ \A u \in Live(q)' : Writer(u)' => u \in Unscheduled(q)'
               /\ \A u \in Unscheduled(q)' : Writer(u)' => u \in Live(q)'
    <3>1. q = r
      BY DEF OneRegion
    <3>2. /\ Active(q)' = Active(q) \cup {s} /\ s \notin Active(q)
          /\ Live(q)' = Live(q) \cup {s} /\ s \notin Live(q)
          /\ Unscheduled(q)' = Unscheduled(q) \cup {s} /\ s \notin Unscheduled(q)
      BY <1>1, <3>1, AddMappingSets
    <3>3. \A u, v \in Active(q)' : u # v => ~Writer(u)' /\ ~Writer(v)'
      BY <1>0, <2>2, <2>3, <3>1, <3>2 DEF WriterInv
    <3>4. \A u \in Live(q)' : Writer(u)' => u \in Unscheduled(q)'
      BY <1>0, <2>2, <3>2 DEF WriterInv
    <3>5. \A u \in Unscheduled(q)' : Writer(u)' => u \in Live(q)'
      BY <1>0, <2>2, <3>2 DEF WriterInv
    <3> QED
      BY <3>3, <3>4, <3>5
  <2>6. \A v, u \in Sessions : chosen'[v] = u /\ (Writer(v)' \/ Writer(u)') => v = u
    <3>1. \A v, u \in Sessions : chosen[v] = u => u # s /\ v # s
      BY <1>0, <2>1 DEF CommandInv, EntryInv
    <3> QED
      BY <2>2, <2>3, <3>1 DEF WriterInv
  <2>7. \A u \in Range(mappings') : entry'[u].unmapScheduled =>
            UnmapPending(u)' \/ \E v \in Sessions : chosen'[v] = u
    BY <1>0, <2>1, <2>3 DEF WriterInv, UnmapPending, IsUnmap
  <2>8. \A u \in Sessions : entry'[u].skipPopulatingBuffer => Writer(u)'
    BY <2>1, <2>2 DEF WriterInv
  <2> QED
    BY <2>4, <2>5, <2>6, <2>7, <2>8 DEF WriterInv
<1>2. ASSUME NEW t \in Threads, NEW s \in Sessions, FindMapping(t, s)
      PROVE  WriterInv'
  <2>1. PICK x \in Unscheduled(RegionOf(s)) :
            /\ x \in Sessions /\ RegionOf(x) = RegionOf(s) /\ RegionOf(s) \in Regions
            /\ s \in Live(RegionOf(s)) /\ ~entry[x].unmapScheduled /\ x \in Range(mappings)
            /\ \A u \in Sessions : u # s => phase'[u] = phase[u] /\ chosen'[u] = chosen[u]
            /\ phase'[s] = "unmapping" /\ chosen'[s] = x
            /\ \A u \in Sessions : u # x => entry'[u] = entry[u]
            /\ entry'[x] = [entry[x] EXCEPT !.unmapScheduled = TRUE]
            /\ \A u \in Sessions : Writer(u)' <=> Writer(u)
            /\ \A q \in Regions : Active(q)' = Active(q)
            /\ \A q \in Regions : Live(q)' = Live(q) \ {s}
            /\ \A q \in Regions : Unscheduled(q)' = Unscheduled(q) \ {x}
    BY <1>2, FindMappingSets
  <2>2. phase[s] \in {"pushed", "mapped"} /\ UNCHANGED <<mappings, pending>>
    BY <1>2 DEF FindMapping
  <2>3. Writer(s) \/ Writer(x) => x = s
    BY <2>1, <2>2, WriterFound
  <2>4. ASSUME NEW q \in Regions
        PROVE  /\ Cardinality(Live(q)') = Cardinality(Unscheduled(q)')
               /\ \A u, v \in Active(q)' : u # v => ~Writer(u)' /\ ~Writer(v)'
               /\ \A u \in Live(q)' : Writer(u)' => u \in Unscheduled(q)'
               /\ \A u \in Unscheduled(q)' : Writer(u)' => u \in Live(q)'
    <3>1. /\ q = RegionOf(s) /\ s \in Live(q) /\ x \in Unscheduled(q)
          /\ Active(q)' = Active(q)
          /\ Live(q)' = Live(q) \ {s} /\ Unscheduled(q)' = Unscheduled(q) \ {x}
      BY <2>1 DEF OneRegion
    <3>2. Cardinality(Live(q)') = Cardinality(Live(q)) - 1
      BY <1>0, <3>1, FS_RemoveElement
    <3>3. Cardinality(Unscheduled(q)') = Cardinality(Unscheduled(q)) - 1
      <4>1. IsFiniteSet(Unscheduled(q))
        BY <1>0
      <4>2. Cardinality(Unscheduled(q) \ {x}) = Cardinality(Unscheduled(q)) - 1
        BY <3>1, <4>1, FS_RemoveElement
      <4> QED
        BY <3>1, <4>2
    <3>4. \A u, v \in Active(q)' : u # v => ~Writer(u)' /\ ~Writer(v)'
      BY <1>0, <2>1, <3>1 DEF WriterInv
    <3>5. \A u \in Live(q)' : Writer(u)' => u \in Unscheduled(q)'
      BY <1>0, <2>1, <2>3, <3>1 DEF WriterInv
    <3>6. \A u \in Unscheduled(q)' : Writer(u)' => u \in Live(q)'
      BY <1>0, <2>1, <2>3, <3>1 DEF WriterInv
    <3> QED
      BY <1>0, <3>2, <3>3, <3>4, <3>5, <3>6
  <2>5. \A v, u \in Sessions : chosen'[v] = u /\ (Writer(v)' \/ Writer(u)') => v = u
    BY <2>1, <2>3 DEF WriterInv
  <2>6. \A u \in Range(mappings') : entry'[u].unmapScheduled =>
            UnmapPending(u)' \/ \E v \in Sessions : chosen'[v] = u
    <3>1. chosen[s] = NONE
      BY <2>2 DEF EntryInv
    <3> QED
      BY <1>0, <2>1, <2>2, <3>1 DEF WriterInv, UnmapPending, IsUnmap
  <2>7. \A u \in Sessions : entry'[u].skipPopulatingBuffer => Writer(u)'
    <3>1. entry'[x].skipPopulatingBuffer = entry[x].skipPopulatingBuffer
      BY <2>1
    <3> QED
      BY <2>1, <3>1 DEF WriterInv
  <2> QED
    BY <2>4, <2>5, <2>6, <2>7 DEF WriterInv
<1>3. ASSUME \/ \E t \in Threads : PushMap(t) \/ PushUnmap(t)
             \/ \E s \in Sessions : HostWrite(s)
             \/ \E r \in Regions : PushKernel(r)
             \/ Execute
             \/ UNCHANGED vars,
             \A v, u \in Sessions : chosen'[v] = u => chosen[v] = u,
             \A u \in Range(mappings') : u \in Range(mappings) /\
                (UnmapPending(u) \/ (\E v \in Sessions : chosen[v] = u) =>
                    UnmapPending(u)' \/ \E v \in Sessions : chosen'[v] = u)
      PROVE  WriterInv'
  <2>1. /\ entry' = entry
        /\ \A q \in Regions : Unscheduled(q)' = Unscheduled(q)
        /\ \A q \in Regions : Live(q)' = Live(q)
        /\ \A q \in Regions : Active(q)' \subseteq Active(q)
    BY <1>3, OtherSets
  <2>2. \A u : Writer(u)' <=> Writer(u)
    BY <2>1 DEF Writer
  <2>3. ASSUME NEW q \in Regions
        PROVE  /\ Cardinality(Live(q)') = Cardinality(Unscheduled(q)')
               /\ \A u, v \in Active(q)' : u # v => ~Writer(u)' /\ ~Writer(v)'
               /\ \A u \in Live(q)' : Writer(u)' => u \in Unscheduled(q)'
               /\ \A u \in Unscheduled(q)' : Writer(u)' => u \in Live(q)'
    <3>1. Live(q)' = Live(q) /\ Unscheduled(q)' = Unscheduled(q) /\ Active(q)' \subseteq Active(q)
      BY <2>1
    <3> QED
      BY <1>0, <2>2, <3>1 DEF WriterInv
  <2>4. \A v, u \in Sessions : chosen'[v] = u /\ (Writer(v)' \/ Writer(u)') => v = u
    BY <1>3, <2>2 DEF WriterInv
  <2>5. \A u \in Range(mappings') : entry'[u].unmapScheduled =>
            UnmapPending(u)' \/ \E v \in Sessions : chosen'[v] = u
    BY <1>3, <2>1 DEF WriterInv
  <2>6. \A u \in Sessions : entry'[u].skipPopulatingBuffer => Writer(u)'
    BY <2>1, <2>2 DEF WriterInv
  <2> QED
    BY <2>3, <2>4, <2>5, <2>6 DEF WriterInv
<1>4. ASSUME NEW t \in Threads, PushMap(t)
      PROVE  WriterInv'
  <2>1. PICK c \in Command : pending' = Append(pending, c)
    BY <1>4, CallerFacts DEF PushMap, Push
  <2>2. \A u : UnmapPending(u) => UnmapPending(u)'
    BY <2>1, PushFacts
  <2> QED
    BY <1>3, <1>4, <2>2 DEF PushMap
<1>5. ASSUME NEW t \in Threads, PushUnmap(t)
      PROVE  WriterInv'
  <2> DEFINE s == caller[t]
             x == chosen[s]
             c == [kind |-> "unmap", entry |-> x, region |-> RegionOf(s)]
  <2>1. /\ s \in Sessions /\ x \in Sessions /\ c \in Command /\ pending' = Append(pending, c)
        /\ c.kind = "unmap" /\ c.entry = x
    BY <1>5, CallerFacts DEF PushUnmap, Push
  <2>2. chosen' = [chosen EXCEPT ![s] = NONE] /\ UNCHANGED mappings /\ chosen[s] = x
    BY <1>5 DEF PushUnmap
  <2> HIDE DEF c, x, s
  <2>3. \A u : UnmapPending(u)' <=> UnmapPending(u) \/ u = x
    BY <2>1, PushFacts
  <2>4. chosen'[s] = NONE /\ \A v \in Sessions : v # s => chosen'[v] = chosen[v]
    BY <2>1, <2>2 DEF EntryInv
  <2>5. \A v, u \in Sessions : chosen'[v] = u => chosen[v] = u
    BY <1>0, <2>4
  <2>6. \A u \in Range(mappings') : u \in Range(mappings) /\
            (UnmapPending(u) \/ (\E v \in Sessions : chosen[v] = u) =>
                UnmapPending(u)' \/ \E v \in Sessions : chosen'[v] = u)
    BY <2>2, <2>3, <2>4
  <2> QED
    BY <1>3, <1>5, <2>5, <2>6
<1>6. CASE \E s \in Sessions : HostWrite(s)
  BY <1>3, <1>6 DEF HostWrite, UnmapPending, IsUnmap
<1>7. ASSUME NEW r \in Regions, PushKernel(r)
      PROVE  WriterInv'
  <2>1. PICK c \in Command : pending' = Append(pending, c)
    BY <1>7 DEF PushKernel, Push, Command
  <2>2. \A u : UnmapPending(u) => UnmapPending(u)'
    BY <2>1, PushFacts
  <2> QED
    BY <1>3, <1>7, <2>2 DEF PushKernel
<1>8. ASSUME NEW kind \in {"map", "kernel"}, Take(kind), Execute, UNCHANGED <<mappings, chosen>>
      PROVE  WriterInv'
  <2>1. \A u : UnmapPending(u) => UnmapPending(u)'
    BY <1>8, TakeFacts DEF IsUnmap
  <2> QED
    BY <1>3, <1>8, <2>1
<1>9. CASE ExecuteUnmap
  <2>1. PICK x : x = pending[1].entry
    OBVIOUS
  <2>2. /\ Head(pending) = pending[1]
        /\ \A s : UnmapPending(s) => UnmapPending(s)' \/ IsUnmap(1, s)
    BY <1>9, TakeFacts DEF ExecuteUnmap
  <2>3. Range(mappings') = Range(mappings) \ {x} /\ chosen' = chosen
    BY <1>9, <2>1, <2>2, RemoveFirstFacts DEF ExecuteUnmap, EntryInv
  <2>4. \A u \in Range(mappings') : UnmapPending(u) => UnmapPending(u)'
    BY <2>1, <2>2, <2>3 DEF IsUnmap
  <2>5. Execute
    BY <1>9 DEF Execute
  <2> QED
    BY <1>3, <2>3, <2>4, <2>5
<1>10. CASE UNCHANGED vars
  BY <1>3, <1>10 DEF vars, UnmapPending, IsUnmap
<1>11. CASE Execute
  BY <1>8, <1>9, <1>11 DEF Execute, ExecuteMap, ExecuteKernel
<1> QED
  BY <1>1, <1>2, <1>4, <1>5, <1>6, <1>7, <1>10, <1>11 DEF Next

\* A mapping whose copy in the host's buffer is the newer one is still mapped,
\* or its unmap command is next.
LEMMA OpenFacts ==
    ASSUME EntryInv, WriterInv, OrderInv, NEW w \in Sessions, Open(w)
    PROVE  /\ w \in Range(mappings) /\ Writer(w) /\ ~MapPending(w)
           /\ phase[w] \in {"pushed", "mapped", "unmapping", "over"}
           /\ pending # <<>> => IsUnmap(1, w)
           /\ pending = <<>> => phase[w] # "over"
<1>1. /\ w \in Range(mappings) /\ Writer(w) /\ ~MapPending(w)
      /\ phase[w] \in {"pushed", "mapped", "unmapping", "over"}
  BY DEF Open, EntryInv, Phases
<1>2. pending # <<>> => IsUnmap(1, w)
  BY DEF OrderInv
<1>3. pending = <<>> => ~UnmapPending(w)
  BY PendingFacts DEF UnmapPending
<1> QED
  BY <1>1, <1>2, <1>3, WriterOver

LEMMA OrderTake ==
    ASSUME EntryInv, CommandInv, WriterInv, OrderInv, NEW kind, Take(kind),
           \/ kind # "map" /\ UNCHANGED phase
           \/ kind = "map" /\ MapEnds(Head(pending).entry, "mapped"),
           \/ kind # "unmap" /\ Range(mappings') = Range(mappings)
           \/ kind = "unmap" /\ Range(mappings') = Range(mappings) \ {Head(pending).entry},
           UNCHANGED entry
    PROVE  OrderInv'
<1>0. PICK x : x = pending[1].entry
  OBVIOUS
<1>1. /\ 1 \in DOMAIN pending /\ Head(pending) = pending[1] /\ pending[1].kind = kind
      /\ pending # <<>> /\ pending' \in Seq(Command)
      /\ Len(pending) \in Nat /\ DOMAIN pending = 1..Len(pending)
      /\ Len(pending') = Len(pending) - 1 /\ DOMAIN pending' = 1..(Len(pending) - 1)
      /\ \A i \in DOMAIN pending' : i + 1 \in DOMAIN pending /\ pending'[i] = pending[i + 1]
      /\ \A s : MapPending(s)' => MapPending(s)
      /\ \A s : MapPending(s) => MapPending(s)' \/ IsMap(1, s)
      /\ \A i \in DOMAIN pending : pending[i] \in Command
  BY TakeFacts, PendingFacts DEF Take
<1>2. \A u : Writer(u)' <=> Writer(u)
  BY DEF Writer
<1>3. /\ \A j \in DOMAIN pending' : /\ ReaderCommand(j)' <=> ReaderCommand(j + 1)
                                    /\ \A u : IsMap(j, u)' <=> IsMap(j + 1, u)
                                    /\ \A u : IsUnmap(j, u)' <=> IsUnmap(j + 1, u)
  BY <1>1, <1>2 DEF ReaderCommand, IsMap, IsUnmap
\* The session of the command, and how the others are left.
<1>4. /\ \A u \in Sessions : kind # "map" \/ u # x => phase'[u] = phase[u]
      /\ kind = "map" => x \in Sessions /\ phase'[x] = IF phase[x] = "pushed" THEN "mapped" ELSE phase[x]
  <2>1. kind = "map" => x \in Sessions
    BY <1>0, <1>1 DEF EntryInv, Command
  <2> QED
    BY <1>0, <1>1, <2>1 DEF MapEnds, EntryInv
<1>5. ASSUME kind = "map"
      PROVE  \A j \in DOMAIN pending' : ~IsMap(j, x)'
  <2> SUFFICES ASSUME NEW j \in DOMAIN pending', IsMap(j + 1, x)
               PROVE  FALSE
    BY <1>3
  <2>1. j + 1 \in DOMAIN pending /\ 1 < j + 1
    BY <1>1
  <2> QED
    BY <1>0, <1>1, <1>5, <2>1 DEF CommandInv, IsMap
<1>6. ASSUME NEW s \in Sessions, phase'[s] = "pushed"
      PROVE  \E i \in DOMAIN pending' :
                IsMap(i, s)' /\ \A j \in DOMAIN pending' : i < j => ReaderCommand(j)'
  <2>1. phase[s] = "pushed" /\ (kind = "map" => s # x)
    BY <1>4, <1>6
  <2>2. PICK i \in DOMAIN pending :
            IsMap(i, s) /\ \A j \in DOMAIN pending : i < j => ReaderCommand(j)
    BY <2>1 DEF OrderInv
  <2>3. i # 1
    BY <1>0, <1>1, <2>1, <2>2 DEF IsMap
  <2>4. i - 1 \in DOMAIN pending' /\ i = (i - 1) + 1
    BY <1>1, <2>3
  <2>5. IsMap(i - 1, s)'
    BY <1>3, <2>2, <2>4
  <2>6. \A j \in DOMAIN pending' : i - 1 < j => i < j + 1
    BY <1>1
  <2> QED
    BY <1>1, <1>3, <2>2, <2>4, <2>5, <2>6
<1>7. ASSUME NEW s \in Sessions, phase'[s] = "mapped"
      PROVE  ~MapPending(s)' /\ \A j \in DOMAIN pending' : ReaderCommand(j)'
  <2>1. CASE phase[s] = "mapped"
    BY <1>1, <1>3, <2>1 DEF OrderInv
  <2>2. CASE phase[s] # "mapped"
    <3>1. kind = "map" /\ s = x /\ phase[s] = "pushed"
      BY <1>4, <1>7, <2>2
    <3>2. PICK i \in DOMAIN pending :
              IsMap(i, s) /\ \A j \in DOMAIN pending : i < j => ReaderCommand(j)
      BY <3>1 DEF OrderInv
    <3>3. i = 1
      <4>1. ASSUME i # 1 PROVE FALSE
        <5>1. i - 1 \in DOMAIN pending' /\ i = (i - 1) + 1
          BY <1>1, <4>1
        <5> QED
          BY <1>3, <1>5, <3>1, <3>2, <5>1
      <4> QED
        BY <4>1
    <3>4. \A j \in DOMAIN pending' : ReaderCommand(j)'
      BY <1>1, <1>3, <3>2, <3>3
    <3> QED
      BY <1>5, <3>1, <3>4 DEF MapPending
  <2> QED
    BY <2>1, <2>2
<1>8. ASSUME NEW w \in Sessions, Open(w)'
      PROVE  pending' = <<>> \/ IsUnmap(1, w)'
  <2>1. /\ w \in Range(mappings') /\ w \in Range(mappings) /\ Writer(w) /\ ~MapPending(w)'
        /\ phase[w] \notin {"new", "mapping"}
    BY <1>2, <1>4, <1>8 DEF Open
  <2>2. CASE MapPending(w)
    <3>1. IsMap(1, w)
      BY <1>1, <2>1, <2>2
    <3>2. \/ Len(pending) = 1
          \/ 1 + 1 \in DOMAIN pending /\ IsUnmap(1 + 1, w)
      BY <1>1, <2>1, <3>1 DEF OrderInv, IsMap
    <3>3. CASE Len(pending) = 1
      <4>1. Len(pending') = 0
        BY <1>1, <3>3
      <4> QED
        BY <1>1, <4>1
    <3>4. CASE 1 + 1 \in DOMAIN pending /\ IsUnmap(1 + 1, w)
      <4>1. 1 \in DOMAIN pending'
        BY <1>1, <3>4
      <4> QED
        BY <1>3, <3>4, <4>1
    <3> QED
      BY <3>2, <3>3, <3>4
  <2>3. CASE ~MapPending(w)
    <3>1. Open(w)
      BY <2>1, <2>3 DEF Open
    <3>2. IsUnmap(1, w)
      BY <1>1, <3>1, OpenFacts
    <3> QED
      BY <1>0, <1>1, <2>1, <3>2 DEF IsUnmap, OrderInv
  <2> QED
    BY <2>2, <2>3
<1>9. ASSUME NEW i \in DOMAIN pending', pending'[i].kind = "map", Writer(pending[i + 1].entry)
      PROVE  \/ i = Len(pending') /\ phase'[pending'[i].entry] \in {"pushed", "unmapping"}
             \/ /\ i + 1 \in DOMAIN pending' /\ pending'[i + 1].kind = "unmap"
                /\ pending'[i + 1].entry = pending'[i].entry
  <2>1. PICK e \in Sessions : e = pending[i + 1].entry
    <3>1. pending[i + 1] \in Command /\ pending[i + 1].kind = "map" /\ i + 1 \in DOMAIN pending
      BY <1>1, <1>9
    <3> QED
      BY <3>1 DEF EntryInv, Command
  <2>2. /\ i + 1 \in DOMAIN pending /\ pending[i + 1].kind = "map" /\ pending'[i] = pending[i + 1]
        /\ Writer(e)
    BY <1>1, <1>9, <2>1
  <2>3. \/ i + 1 = Len(pending) /\ phase[e] \in {"pushed", "unmapping"}
        \/ (i + 1) + 1 \in DOMAIN pending /\ IsUnmap((i + 1) + 1, e)
    BY <2>1, <2>2 DEF OrderInv
  <2>4. phase'[e] = phase[e]
    <3>1. ASSUME kind = "map" PROVE e # x
      <4>1. IsMap(i, e)'
        BY <1>3, <2>1, <2>2 DEF IsMap
      <4> QED
        BY <1>5, <3>1, <4>1
    <3> QED
      BY <1>4, <3>1
  <2>5. CASE i + 1 = Len(pending) /\ phase[e] \in {"pushed", "unmapping"}
    BY <1>1, <2>1, <2>2, <2>4, <2>5
  <2>6. CASE (i + 1) + 1 \in DOMAIN pending /\ IsUnmap((i + 1) + 1, e)
    <3>1. i + 1 \in DOMAIN pending'
      BY <1>1, <2>6
    <3>2. pending'[i + 1] = pending[(i + 1) + 1]
      BY <1>1, <3>1
    <3> QED
      BY <2>1, <2>2, <2>6, <3>1, <3>2 DEF IsUnmap
  <2> QED
    BY <2>3, <2>5, <2>6
<1>10. \A i \in DOMAIN pending' :
            pending'[i].kind = "map" /\ ~entry'[pending'[i].entry].skipWritingBack =>
            \/ i = Len(pending') /\ phase'[pending'[i].entry] \in {"pushed", "unmapping"}
            \/ /\ i + 1 \in DOMAIN pending' /\ pending'[i + 1].kind = "unmap"
               /\ pending'[i + 1].entry = pending'[i].entry
  <2> SUFFICES ASSUME NEW i \in DOMAIN pending', pending'[i].kind = "map",
                      ~entry'[pending'[i].entry].skipWritingBack
               PROVE  \/ i = Len(pending') /\ phase'[pending'[i].entry] \in {"pushed", "unmapping"}
                      \/ /\ i + 1 \in DOMAIN pending' /\ pending'[i + 1].kind = "unmap"
                         /\ pending'[i + 1].entry = pending'[i].entry
    OBVIOUS
  <2>1. Writer(pending[i + 1].entry)
    BY <1>1 DEF Writer
  <2> QED
    BY <1>9, <2>1
<1> QED
  BY <1>6, <1>7, <1>8, <1>10 DEF OrderInv, IsUnmap, Writer

\* What a pushed command of session s must be for the order to hold.
LEMMA OrderPush ==
    ASSUME OneRegion, EntryInv, CommandInv, WriterInv, OrderInv, NEW c \in Command,
           pending' = Append(pending, c), UNCHANGED <<mappings, entry>>,
           \A u \in Sessions : phase'[u] # phase[u] =>
                \/ phase[u] = "mapping" /\ phase'[u] = "pushed" /\ c.kind = "map" /\ c.entry = u
                \/ phase[u] = "unmapping" /\ phase'[u] = "over",
           c.kind = "map" => c.entry \in Sessions /\ phase[c.entry] = "mapping"
                                /\ phase'[c.entry] = "pushed",
           \A u \in Sessions : phase[u] \in {"pushed", "mapped"} =>
                c.kind # "kernel" /\ ~Writer(c.entry),
           \A w \in Sessions :
                w \in Range(mappings) /\ Writer(w) /\ phase[w] \in {"pushed", "mapped", "unmapping"}
                    => c.kind = "unmap" /\ c.entry = w
    PROVE  OrderInv'
<1>0. PICK n : n = Len(pending) + 1
  OBVIOUS
<1>1. /\ Len(pending) \in Nat /\ DOMAIN pending = 1..Len(pending)
      /\ n \in Nat \ {0} /\ Len(pending) = n - 1 /\ Len(pending') = n
      /\ DOMAIN pending = 1..(n - 1) /\ DOMAIN pending' = 1..n
      /\ \A i \in DOMAIN pending : i \in DOMAIN pending' /\ pending'[i] = pending[i]
      /\ \A i \in DOMAIN pending' : i \in DOMAIN pending \/ i = n
      /\ n \in DOMAIN pending' /\ pending'[n] = c
      /\ \A s : MapPending(s)' <=> MapPending(s) \/ (c.kind = "map" /\ c.entry = s)
      /\ pending = <<>> <=> n = 1
      /\ \A i \in DOMAIN pending : pending[i] \in Command
  BY <1>0, PushFacts, PendingFacts
<1>2. \A u : Writer(u)' <=> Writer(u)
  BY DEF Writer
<1>3. /\ \A j \in DOMAIN pending : /\ ReaderCommand(j)' <=> ReaderCommand(j)
                                   /\ \A u : IsMap(j, u)' <=> IsMap(j, u)
                                   /\ \A u : IsUnmap(j, u)' <=> IsUnmap(j, u)
      /\ c.kind # "kernel" /\ ~Writer(c.entry) => ReaderCommand(n)'
      /\ \A u : IsMap(n, u)' <=> c.kind = "map" /\ c.entry = u
      /\ \A u : IsUnmap(n, u)' <=> c.kind = "unmap" /\ c.entry = u
  BY <1>1, <1>2 DEF ReaderCommand, IsMap, IsUnmap
<1>4. ASSUME NEW s \in Sessions, phase'[s] = "pushed"
      PROVE  \E i \in DOMAIN pending' :
                IsMap(i, s)' /\ \A j \in DOMAIN pending' : i < j => ReaderCommand(j)'
  <2>1. CASE phase[s] = "pushed"
    <3>1. PICK i \in DOMAIN pending :
              IsMap(i, s) /\ \A j \in DOMAIN pending : i < j => ReaderCommand(j)
      BY <2>1 DEF OrderInv
    <3>2. c.kind # "kernel" /\ ~Writer(c.entry)
      BY <2>1
    <3>3. \A j \in DOMAIN pending' : i < j => ReaderCommand(j)'
      BY <1>1, <1>3, <3>1, <3>2
    <3> QED
      BY <1>1, <1>3, <3>1, <3>3
  <2>2. CASE phase[s] # "pushed"
    <3>1. c.kind = "map" /\ c.entry = s
      BY <1>4, <2>2
    <3>2. IsMap(n, s)' /\ n \in DOMAIN pending'
      BY <1>1, <1>3, <3>1
    <3>3. \A j \in DOMAIN pending' : ~(n < j)
      BY <1>1
    <3> QED
      BY <3>2, <3>3
  <2> QED
    BY <2>1, <2>2
<1>5. ASSUME NEW s \in Sessions, phase'[s] = "mapped"
      PROVE  ~MapPending(s)' /\ \A j \in DOMAIN pending' : ReaderCommand(j)'
  <2>1. phase[s] = "mapped"
    BY <1>5
  <2>2. c.kind # "kernel" /\ ~Writer(c.entry) /\ ~(c.kind = "map" /\ c.entry = s)
    BY <2>1
  <2> QED
    BY <1>1, <1>3, <2>1, <2>2 DEF OrderInv
<1>6. ASSUME NEW w \in Sessions, Open(w)'
      PROVE  pending' = <<>> \/ IsUnmap(1, w)'
  <2>1. /\ w \in Range(mappings) /\ Writer(w) /\ ~MapPending(w)
        /\ ~(c.kind = "map" /\ c.entry = w) /\ phase'[w] \notin {"new", "mapping"}
    BY <1>1, <1>2, <1>6 DEF Open
  <2>2. phase[w] \notin {"new", "mapping"}
    BY <2>1
  <2>3. Open(w)
    BY <2>1, <2>2 DEF Open
  <2>4. CASE pending # <<>>
    <3>1. 1 \in DOMAIN pending
      BY <2>4, PendingFacts
    <3> QED
      BY <1>3, <2>3, <2>4, <3>1, OpenFacts
  <2>5. CASE pending = <<>>
    <3>1. phase[w] \in {"pushed", "mapped", "unmapping"}
      BY <2>3, <2>5, OpenFacts
    <3>2. c.kind = "unmap" /\ c.entry = w
      BY <2>1, <3>1
    <3>3. n = 1
      BY <1>1, <2>5
    <3> QED
      BY <1>3, <3>2, <3>3
  <2> QED
    BY <2>4, <2>5
<1>7. ASSUME NEW i \in DOMAIN pending', pending'[i].kind = "map", Writer(pending'[i].entry)
      PROVE  \/ i = Len(pending') /\ phase'[pending'[i].entry] \in {"pushed", "unmapping"}
             \/ /\ i + 1 \in DOMAIN pending' /\ pending'[i + 1].kind = "unmap"
                /\ pending'[i + 1].entry = pending'[i].entry
  <2>1. CASE i = n
    BY <1>1, <1>7, <2>1
  <2>2. CASE i \in DOMAIN pending
    <3>1. PICK e \in Sessions : e = pending[i].entry /\ pending'[i] = pending[i]
      <4>1. pending[i] \in Command /\ pending[i].kind = "map" /\ pending'[i] = pending[i]
        BY <1>1, <1>7, <2>2
      <4> QED
        BY <2>2, <4>1 DEF EntryInv, Command
    <3>2. /\ pending[i].kind = "map" /\ Writer(e) /\ e \in Range(mappings)
      BY <1>7, <2>2, <3>1 DEF CommandInv, MapPending, IsMap
    <3>3. CASE i = Len(pending) /\ phase[e] \in {"pushed", "unmapping"}
      <4>1. c.kind = "unmap" /\ c.entry = e
        BY <3>2, <3>3
      <4> QED
        BY <1>1, <2>2, <3>1, <3>3, <4>1
    <3>4. CASE i + 1 \in DOMAIN pending /\ IsUnmap(i + 1, e)
      BY <1>1, <3>1, <3>4 DEF IsUnmap
    <3> QED
      BY <2>2, <3>1, <3>2, <3>3, <3>4 DEF OrderInv
  <2> QED
    BY <1>1, <2>1, <2>2
<1>8. \A i \in DOMAIN pending' :
        pending'[i].kind = "map" /\ ~entry'[pending'[i].entry].skipWritingBack =>
            \/ i = Len(pending') /\ phase'[pending'[i].entry] \in {"pushed", "unmapping"}
            \/ /\ i + 1 \in DOMAIN pending' /\ pending'[i + 1].kind = "unmap"
               /\ pending'[i + 1].entry = pending'[i].entry
  BY <1>7 DEF Writer
<1> QED
  BY <1>4, <1>5, <1>6, <1>8 DEF OrderInv, IsUnmap, Writer

\* The commands and the mappings that are mapped stay what they are.
LEMMA OrderSame ==
    ASSUME EntryInv, CommandInv, OrderInv, UNCHANGED pending,
           \A u \in Sessions : \/ Writer(u)' <=> Writer(u)
                               \/ phase[u] = "new",
           \A u \in Sessions : \/ phase'[u] = phase[u]
                               \/ phase[u] = "new" /\ phase'[u] = "mapping"
                               \/ phase[u] \in {"pushed", "mapped"} /\ phase'[u] = "unmapping",
           \A u \in Sessions : u \in Range(mappings') /\ phase[u] # "new" => u \in Range(mappings)
    PROVE  OrderInv'
<1>1. \A i \in DOMAIN pending : pending[i].kind # "kernel" =>
        /\ pending[i].entry \in Sessions /\ phase[pending[i].entry] # "new"
  <2> SUFFICES ASSUME NEW i \in DOMAIN pending, pending[i].kind # "kernel"
               PROVE  pending[i].entry \in Sessions /\ phase[pending[i].entry] # "new"
    OBVIOUS
  <2>1. PICK e \in Sessions : e = pending[i].entry
    BY PendingFacts DEF EntryInv, Command
  <2>2. pending[i].kind \in {"map", "unmap"}
    BY PendingFacts DEF Command
  <2>3. MapPending(e) \/ UnmapPending(e)
    BY <2>1, <2>2 DEF MapPending, UnmapPending, IsMap, IsUnmap
  <2> QED
    BY <2>1, <2>3 DEF EntryInv, CommandInv
<1>2. \A i \in DOMAIN pending : pending[i].kind # "kernel" =>
        (entry'[pending[i].entry].skipWritingBack <=> entry[pending[i].entry].skipWritingBack)
  BY <1>1 DEF Writer
<1>3. \A i \in DOMAIN pending : ReaderCommand(i)' <=> ReaderCommand(i)
  BY <1>2 DEF ReaderCommand, Writer
<1>4. /\ \A i, s : IsMap(i, s)' <=> IsMap(i, s)
      /\ \A i, s : IsUnmap(i, s)' <=> IsUnmap(i, s)
      /\ \A s : MapPending(s)' <=> MapPending(s)
  BY DEF MapPending, IsMap, IsUnmap
<1>5. \A s \in Sessions : phase'[s] = "pushed" =>
        \E i \in DOMAIN pending :
            IsMap(i, s)' /\ \A j \in DOMAIN pending : i < j => ReaderCommand(j)'
  BY <1>3, <1>4 DEF OrderInv
<1>6. \A s \in Sessions : phase'[s] = "mapped" =>
        ~MapPending(s)' /\ \A j \in DOMAIN pending : ReaderCommand(j)'
  BY <1>3, <1>4 DEF OrderInv
<1>7. \A w \in Sessions : Open(w)' => Open(w)
  BY <1>4 DEF Open
<1>8. \A i \in DOMAIN pending :
        pending[i].kind = "map" /\ ~entry'[pending[i].entry].skipWritingBack =>
            \/ i = Len(pending) /\ phase'[pending[i].entry] \in {"pushed", "unmapping"}
            \/ i + 1 \in DOMAIN pending /\ IsUnmap(i + 1, pending[i].entry)
  BY <1>1, <1>2 DEF OrderInv, Writer
<1> QED
  BY <1>4, <1>5, <1>6, <1>7, <1>8 DEF OrderInv, IsUnmap, Writer

LEMMA OrderStep ==
    ASSUME OneRegion, EntryInv, CommandInv, WriterInv, OrderInv, [Next]_vars, ~AbortCommand
    PROVE  OrderInv'
<1>1. ASSUME NEW t \in Threads, NEW s \in Sessions, NEW r \in Regions, NEW mode \in Modes,
             AddMapping(t, s, r, mode)
      PROVE  OrderInv'
  <2>1. /\ Range(mappings') = Range(mappings) \cup {s}
        /\ \A u \in Sessions : u # s => entry'[u] = entry[u] /\ phase'[u] = phase[u]
        /\ phase[s] = "new" /\ phase'[s] = "mapping" /\ UNCHANGED pending
    BY <1>1, AddMappingFacts DEF AddMapping
  <2>2. \A u \in Sessions : (Writer(u)' <=> Writer(u)) \/ phase[u] = "new"
    BY <2>1 DEF Writer
  <2> QED
    BY <2>1, <2>2, OrderSame
<1>2. ASSUME NEW t \in Threads, PushMap(t)
      PROVE  OrderInv'
  <2> DEFINE s == caller[t]
             c == [kind |-> "map", entry |-> s, region |-> RegionOf(s)]
  <2>1. /\ s \in Sessions /\ c \in Command /\ phase[s] = "mapping"
        /\ pending' = Append(pending, c) /\ c.kind = "map" /\ c.entry = s
    <3>1. caller[t] # NONE /\ phase[s] = "mapping" /\ pending' = Append(pending, c)
      BY <1>2 DEF PushMap, Push
    <3>2. s \in Sessions /\ c \in Command
      BY <3>1, CallerFacts
    <3> QED
      BY <3>1, <3>2
  <2>2. phase' = [phase EXCEPT ![s] = "pushed"] /\ UNCHANGED <<mappings, entry>>
    BY <1>2 DEF PushMap
  <2> HIDE DEF c, s
  <2>3. phase'[s] = "pushed" /\ \A u \in Sessions : u # s => phase'[u] = phase[u]
    BY <2>1, <2>2 DEF EntryInv
  <2>4. \A u \in Sessions : phase[u] \in {"pushed", "mapped", "unmapping"} => ~Writer(u) /\ ~Writer(s)
    BY <2>1, Alone
  <2> QED
    BY <2>1, <2>2, <2>3, <2>4, OrderPush
<1>3. ASSUME NEW t \in Threads, NEW s \in Sessions, FindMapping(t, s)
      PROVE  OrderInv'
  <2>1. /\ \A u \in Sessions : u # s => phase'[u] = phase[u]
        /\ phase'[s] = "unmapping"
        /\ \A u \in Sessions : Writer(u)' <=> Writer(u)
    BY <1>3, ZenonT(30), FindMappingSets
  <2>2. phase[s] \in {"pushed", "mapped"} /\ UNCHANGED <<mappings, pending>>
    BY <1>3 DEF FindMapping
  <2> QED
    BY <2>1, <2>2, OrderSame
<1>4. ASSUME NEW t \in Threads, PushUnmap(t)
      PROVE  OrderInv'
  <2> DEFINE s == caller[t]
             x == chosen[s]
             c == [kind |-> "unmap", entry |-> x, region |-> RegionOf(s)]
  <2>1. /\ s \in Sessions /\ x \in Sessions /\ c \in Command /\ phase[s] = "unmapping"
        /\ pending' = Append(pending, c) /\ c.kind = "unmap" /\ c.entry = x
    BY <1>4, CallerFacts DEF PushUnmap, Push
  <2>2. phase' = [phase EXCEPT ![s] = "over"] /\ chosen[s] = x /\ UNCHANGED <<mappings, entry>>
    BY <1>4 DEF PushUnmap
  <2> HIDE DEF c, x, s
  <2>3. phase'[s] = "over" /\ \A u \in Sessions : u # s => phase'[u] = phase[u]
    BY <2>1, <2>2 DEF EntryInv
  <2>4. Writer(s) \/ Writer(x) => x = s
    BY <2>1, <2>2 DEF WriterInv
  <2>5. \A u \in Sessions : phase[u] \in {"pushed", "mapped"} => ~Writer(s) /\ ~Writer(x)
    BY <2>1, <2>4, Alone
  <2>6. \A w \in Sessions : phase[w] \in {"pushed", "mapped", "unmapping"} /\ Writer(w) => x = w
    BY <2>1, <2>4, Alone
  <2> QED
    BY <2>1, <2>2, <2>3, <2>5, <2>6, OrderPush
<1>5. CASE (\E s \in Sessions : HostWrite(s)) \/ UNCHANGED vars
  BY <1>5, OrderSame DEF HostWrite, vars, Writer
<1>6. ASSUME NEW r \in Regions, PushKernel(r)
      PROVE  OrderInv'
  <2> DEFINE c == [kind |-> "kernel", entry |-> NONE, region |-> r]
  <2>1. c \in Command /\ pending' = Append(pending, c) /\ c.kind = "kernel"
    BY <1>6 DEF PushKernel, Push, Command
  <2> HIDE DEF c
  <2>2. Active(r) = {} /\ UNCHANGED <<mappings, entry, phase>>
    BY <1>6 DEF PushKernel
  <2>3. \A u \in Sessions : phase[u] \notin {"pushed", "mapped", "unmapping"}
    <3> SUFFICES ASSUME NEW u \in Sessions, phase[u] \in {"pushed", "mapped", "unmapping"}
                 PROVE  FALSE
      OBVIOUS
    <3>1. RegionOf(u) \in Regions /\ RegionOf(u) = r
      BY DEF EntryInv, OneRegion
    <3> QED
      BY <2>2, <3>1 DEF Active
  <2> QED
    BY <2>1, <2>2, <2>3, OrderPush
<1>7. CASE ExecuteMap
  BY <1>7, OrderTake DEF ExecuteMap
<1>8. CASE ExecuteUnmap
  <2>1. Take("unmap") /\ mappings' = RemoveFirst(mappings, Head(pending).entry) /\ UNCHANGED <<entry, phase>>
    BY <1>8 DEF ExecuteUnmap
  <2>2. Range(mappings') = Range(mappings) \ {Head(pending).entry}
    BY <2>1, RemoveFirstFacts DEF EntryInv
  <2> QED
    BY <2>1, <2>2, OrderTake
<1>9. CASE ExecuteKernel
  BY <1>9, OrderTake DEF ExecuteKernel
<1> QED
  BY <1>1, <1>2, <1>3, <1>4, <1>5, <1>6, <1>7, <1>8, <1>9 DEF Next, Execute

\* The newer copy of each region stays where it is, if neither is written and
\* the same mappings are open.
LEMMA ContentsSame ==
    ASSUME ContentsInv, UNCHANGED <<device, host, latest>>,
           \A u \in Sessions : phase'[u] = "mapped" => phase[u] = "mapped",
           \A u \in Sessions : Open(u)' <=> Open(u)
    PROVE  ContentsInv'
  BY DEF ContentsInv

LEMMA ContentsTake ==
    ASSUME OneRegion, EntryInv, CommandInv, WriterInv, OrderInv, ContentsInv, Execute, ~AbortCommand
    PROVE  ContentsInv'
<1>1. CASE ExecuteMap
  <2>0. PICK s : s = pending[1].entry
    OBVIOUS
  <2>1. /\ 1 \in DOMAIN pending /\ Head(pending) = pending[1] /\ pending[1].kind = "map"
        /\ DOMAIN pending' = 1..(Len(pending) - 1) /\ DOMAIN pending = 1..Len(pending)
        /\ Len(pending) \in Nat
        /\ \A i \in DOMAIN pending' : i + 1 \in DOMAIN pending /\ pending'[i] = pending[i + 1]
        /\ pending[1] \in Command /\ pending # <<>>
    BY <1>1, TakeFacts, PendingFacts DEF ExecuteMap, Take
  <2>2. s \in Sessions /\ MapPending(s)
    BY <2>0, <2>1 DEF EntryInv, Command, MapPending, IsMap
  <2>3. s \in Range(mappings) /\ phase[s] \notin {"new", "mapping"} /\ RegionOf(s) \in Regions
    BY <2>2 DEF CommandInv, EntryInv
  <2>4. \A w \in Sessions : ~Open(w)
    BY <2>1, OpenFacts DEF IsUnmap
  <2>5. \A r \in Regions : device[r] = latest[r]
    BY <2>4 DEF ContentsInv
  <2>6. /\ UNCHANGED <<mappings, entry, device>>
        /\ \/ entry[s].skipPopulatingBuffer /\ UNCHANGED host
              /\ latest' = [latest EXCEPT ![RegionOf(s)] = host[RegionOf(s)]]
           \/ host' = device /\ UNCHANGED latest
        /\ \A u \in Sessions : phase[u] \notin {"new", "mapping"} => phase'[u] \notin {"new", "mapping"}
    BY <1>1, <2>0, <2>1 DEF ExecuteMap, MapEnds, EntryInv
  <2>7. ~MapPending(s)'
    <3> SUFFICES ASSUME NEW i \in DOMAIN pending', IsMap(i, s)'
                 PROVE  FALSE
      BY DEF MapPending
    <3>1. i + 1 \in DOMAIN pending /\ 1 < i + 1 /\ IsMap(i + 1, s)
      BY <2>1 DEF IsMap
    <3> QED
      BY <2>0, <2>1, <3>1 DEF CommandInv, IsMap
  <2>8. CASE host' = device /\ UNCHANGED latest
    BY <2>5, <2>6, <2>8 DEF ContentsInv
  <2>9. CASE /\ entry[s].skipPopulatingBuffer /\ UNCHANGED host
             /\ latest' = [latest EXCEPT ![RegionOf(s)] = host[RegionOf(s)]]
    <3>1. Open(s)'
      BY <2>2, <2>3, <2>6, <2>7, <2>9 DEF Open, Writer, WriterInv
    <3>2. \A r \in Regions : host'[r] = latest'[r]
      BY <2>3, <2>9 DEF ContentsInv, OneRegion
    <3> QED
      BY <2>2, <2>6, <2>9, <3>1, <3>2 DEF ContentsInv
  <2> QED
    BY <2>6, <2>8, <2>9
<1>2. CASE ExecuteUnmap
  <2>0. PICK x : x = pending[1].entry
    OBVIOUS
  <2>1. /\ 1 \in DOMAIN pending /\ Head(pending) = pending[1] /\ pending[1].kind = "unmap"
        /\ DOMAIN pending = 1..Len(pending) /\ Len(pending) \in Nat
        /\ pending[1] \in Command /\ pending # <<>>
        /\ \A s : MapPending(s) => MapPending(s)' \/ IsMap(1, s)
    BY <1>2, TakeFacts, PendingFacts DEF ExecuteUnmap, Take
  <2>2. x \in Sessions /\ UnmapPending(x)
    BY <2>0, <2>1 DEF EntryInv, Command, UnmapPending, IsUnmap
  <2>3. x \in Range(mappings) /\ entry[x].unmapScheduled /\ phase[x] \notin {"new", "mapping"}
    BY <2>2 DEF CommandInv, EntryInv
  <2>4. ~MapPending(x)
    <3> SUFFICES ASSUME NEW i \in DOMAIN pending, IsMap(i, x)
                 PROVE  FALSE
      BY DEF MapPending
    <3>1. i = 1 \/ 1 < i
      BY <2>1
    <3> QED
      BY <2>0, <2>1, <3>1 DEF CommandInv, IsMap
  <2>5. \A w \in Sessions : Open(w) => w = x
    BY <2>0, <2>1, OpenFacts DEF IsUnmap
  <2>6. /\ UNCHANGED <<entry, phase, host, latest>>
        /\ device' = IF entry[x].skipWritingBack THEN device ELSE host
        /\ Range(mappings') = Range(mappings) \ {x}
    BY <1>2, <2>0, <2>1, RemoveFirstFacts DEF ExecuteUnmap, EntryInv
  <2>7. \A u \in Sessions : ~Open(u)'
    <3> SUFFICES ASSUME NEW u \in Sessions, Open(u)'
                 PROVE  FALSE
      OBVIOUS
    <3>1. /\ u \in Range(mappings) /\ u # x /\ phase[u] \notin {"new", "mapping"}
          /\ Writer(u) /\ ~MapPending(u)'
      BY <2>6 DEF Open, Writer
    <3>2. ~MapPending(u)
      BY <2>1, <3>1 DEF IsMap
    <3> QED
      BY <2>5, <3>1, <3>2 DEF Open
  <2>8. \A r \in Regions : device'[r] = latest[r]
    <3>1. CASE Writer(x)
      <4>1. Open(x)
        BY <2>3, <2>4, <3>1 DEF Open
      <4>2. device' = host
        BY <2>6, <3>1 DEF Writer
      <4> QED
        BY <2>2, <4>1, <4>2 DEF ContentsInv
    <3>2. CASE ~Writer(x)
      <4>1. \A w \in Sessions : ~Open(w)
        BY <2>5, <3>2 DEF Open
      <4>2. device' = device
        BY <2>6, <3>2 DEF Writer
      <4> QED
        BY <4>1, <4>2 DEF ContentsInv
    <3> QED
      BY <3>1, <3>2
  <2> QED
    BY <2>6, <2>7, <2>8 DEF ContentsInv
<1>3. CASE ExecuteKernel
  <2>0. PICK r : r = pending[1].region
    OBVIOUS
  <2>1. /\ 1 \in DOMAIN pending /\ Head(pending) = pending[1] /\ pending[1].kind = "kernel"
        /\ pending[1] \in Command /\ pending # <<>>
        /\ \A s : MapPending(s) => MapPending(s)' \/ IsMap(1, s)
    BY <1>3, TakeFacts, PendingFacts DEF ExecuteKernel, Take
  <2>2. r \in Regions
    BY <2>0, <2>1 DEF Command
  <2>3. \A u \in Sessions : ~Open(u) /\ phase[u] # "mapped"
    <3>1. \A u \in Sessions : ~Open(u)
      BY <2>1, OpenFacts DEF IsUnmap
    <3>2. ~ReaderCommand(1)
      BY <2>1 DEF ReaderCommand
    <3> QED
      BY <2>1, <3>1, <3>2 DEF OrderInv
  <2>4. /\ UNCHANGED <<mappings, entry, phase, host>>
        /\ device' = [device EXCEPT ![r] = Version]
        /\ latest' = [latest EXCEPT ![r] = Version]
    BY <1>3, <2>0, <2>1 DEF ExecuteKernel
  <2>5. \A u \in Sessions : ~Open(u)'
    BY <2>1, <2>3, <2>4 DEF Open, Writer, IsMap
  <2>6. \A q \in Regions : device'[q] = latest'[q]
    BY <2>2, <2>4 DEF ContentsInv, OneRegion
  <2> QED
    BY <2>3, <2>4, <2>5, <2>6 DEF ContentsInv
<1> QED
  BY <1>1, <1>2, <1>3 DEF Execute

LEMMA ContentsStep ==
    ASSUME OneRegion, EntryInv, CommandInv, WriterInv, OrderInv, ContentsInv,
           [Next]_vars, ~AbortCommand
    PROVE  ContentsInv'
<1>1. ASSUME NEW t \in Threads, NEW s \in Sessions, NEW r \in Regions, NEW mode \in Modes,
             AddMapping(t, s, r, mode)
      PROVE  ContentsInv'
  <2>1. /\ Range(mappings') = Range(mappings) \cup {s} /\ s \notin Range(mappings)
        /\ \A u \in Sessions : u # s => entry'[u] = entry[u] /\ phase'[u] = phase[u]
        /\ phase'[s] = "mapping"
    BY <1>1, AddMappingFacts
  <2>2. UNCHANGED <<pending, device, host, latest>>
    BY <1>1 DEF AddMapping
  <2>3. \A u \in Sessions : Open(u)' <=> Open(u)
    BY <2>1, <2>2 DEF Open, Writer, MapPending, IsMap
  <2> QED
    BY <2>1, <2>2, <2>3, ContentsSame
<1>2. ASSUME NEW t \in Threads, PushMap(t)
      PROVE  ContentsInv'
  <2> DEFINE s == caller[t]
             c == [kind |-> "map", entry |-> s, region |-> RegionOf(s)]
  <2>1. /\ s \in Sessions /\ c \in Command /\ phase[s] = "mapping"
        /\ pending' = Append(pending, c) /\ c.kind = "map" /\ c.entry = s
    <3>1. caller[t] # NONE /\ phase[s] = "mapping" /\ pending' = Append(pending, c)
      BY <1>2 DEF PushMap, Push
    <3>2. s \in Sessions /\ c \in Command
      BY <3>1, CallerFacts
    <3> QED
      BY <3>1, <3>2
  <2>2. /\ phase' = [phase EXCEPT ![s] = "pushed"]
        /\ UNCHANGED <<mappings, entry, device, host, latest>>
    BY <1>2 DEF PushMap
  <2> HIDE DEF c, s
  <2>3. /\ phase'[s] = "pushed" /\ \A u \in Sessions : u # s => phase'[u] = phase[u]
        /\ \A u : MapPending(u)' <=> MapPending(u) \/ u = s
    BY <2>1, <2>2, PushFacts DEF EntryInv
  <2>4. \A u \in Sessions : Open(u)' <=> Open(u)
    BY <2>1, <2>2, <2>3 DEF Open, Writer
  <2> QED
    BY <2>1, <2>2, <2>3, <2>4, ContentsSame
<1>3. ASSUME NEW t \in Threads, NEW s \in Sessions, FindMapping(t, s)
      PROVE  ContentsInv'
  <2>1. /\ \A u \in Sessions : u # s => phase'[u] = phase[u]
        /\ phase'[s] = "unmapping"
        /\ \A u \in Sessions : Writer(u)' <=> Writer(u)
    BY <1>3, ZenonT(30), FindMappingSets
  <2>2. /\ phase[s] \in {"pushed", "mapped"}
        /\ UNCHANGED <<mappings, pending, device, host, latest>>
    BY <1>3 DEF FindMapping
  <2>3. \A u \in Sessions : Open(u)' <=> Open(u)
    BY <2>1, <2>2 DEF Open, MapPending, IsMap
  <2> QED
    BY <2>1, <2>2, <2>3, ContentsSame
<1>4. ASSUME NEW t \in Threads, PushUnmap(t)
      PROVE  ContentsInv'
  <2> DEFINE s == caller[t]
             c == [kind |-> "unmap", entry |-> chosen[s], region |-> RegionOf(s)]
  <2>1. /\ s \in Sessions /\ c \in Command /\ phase[s] = "unmapping"
        /\ pending' = Append(pending, c) /\ c.kind = "unmap"
    BY <1>4, CallerFacts DEF PushUnmap, Push
  <2>2. /\ phase' = [phase EXCEPT ![s] = "over"]
        /\ UNCHANGED <<mappings, entry, device, host, latest>>
    BY <1>4 DEF PushUnmap
  <2> HIDE DEF c, s
  <2>3. /\ phase'[s] = "over" /\ \A u \in Sessions : u # s => phase'[u] = phase[u]
        /\ \A u : MapPending(u)' <=> MapPending(u)
    BY <2>1, <2>2, PushFacts DEF EntryInv
  <2>4. \A u \in Sessions : Open(u)' <=> Open(u)
    BY <2>1, <2>2, <2>3 DEF Open, Writer
  <2> QED
    BY <2>1, <2>2, <2>3, <2>4, ContentsSame
<1>5. ASSUME NEW s \in Sessions, HostWrite(s)
      PROVE  ContentsInv'
  <2>1. /\ phase[s] = "mapped" /\ Writer(s)
        /\ host' = [host EXCEPT ![RegionOf(s)] = Version]
        /\ latest' = [latest EXCEPT ![RegionOf(s)] = Version]
        /\ UNCHANGED <<mappings, entry, phase, pending, device>>
    BY <1>5 DEF HostWrite, Writer
  <2>2. RegionOf(s) \in Regions /\ s \in Live(RegionOf(s))
    BY <2>1 DEF EntryInv, Live, Active
  <2>3. s \in Range(mappings)
    BY <2>1, <2>2 DEF WriterInv, Unscheduled
  <2>4. ~MapPending(s)
    BY <2>1 DEF OrderInv
  <2>5. Open(s)'
    BY <2>1, <2>3, <2>4 DEF Open, Writer, MapPending, IsMap
  <2>6. \A r \in Regions : host'[r] = latest'[r]
    BY <2>1, <2>2 DEF ContentsInv, OneRegion
  <2> QED
    BY <2>1, <2>5, <2>6 DEF ContentsInv
<1>6. ASSUME NEW r \in Regions, PushKernel(r)
      PROVE  ContentsInv'
  <2> DEFINE c == [kind |-> "kernel", entry |-> NONE, region |-> r]
  <2>1. c \in Command /\ pending' = Append(pending, c) /\ c.kind = "kernel"
    BY <1>6 DEF PushKernel, Push, Command
  <2> HIDE DEF c
  <2>2. UNCHANGED <<mappings, entry, phase, device, host, latest>>
    BY <1>6 DEF PushKernel
  <2>3. \A u : MapPending(u)' <=> MapPending(u)
    BY <2>1, PushFacts
  <2>4. \A u \in Sessions : Open(u)' <=> Open(u)
    BY <2>2, <2>3 DEF Open, Writer
  <2> QED
    BY <2>2, <2>4, ContentsSame
<1>7. CASE Execute
  BY <1>7, ContentsTake
<1>8. CASE UNCHANGED vars
  BY <1>8, ContentsSame DEF vars, Open, Writer, MapPending, IsMap
<1> QED
  BY <1>1, <1>2, <1>3, <1>4, <1>5, <1>6, <1>7, <1>8 DEF Next

LEMMA CoherenceInit == Init => CoherenceInv
<1> SUFFICES ASSUME Init PROVE WriterInv /\ OrderInv /\ ContentsInv
  BY DEF CoherenceInv
<1>1. /\ pending = <<>> /\ DOMAIN pending = {} /\ NONE \notin Sessions /\ Range(mappings) = {}
      /\ \A s \in Sessions : phase[s] = "new" /\ chosen[s] = NONE /\ ~entry[s].skipPopulatingBuffer
  BY BufferMappingAssumption DEF Init, Range
<1>2. \A r \in Regions : Live(r) = {} /\ Active(r) = {} /\ Unscheduled(r) = {}
  BY <1>1 DEF Live, Active, Unscheduled
<1>3. WriterInv
  BY <1>1, <1>2 DEF WriterInv
<1>4. OrderInv
  BY <1>1 DEF OrderInv
<1>5. \A s \in Sessions : ~Open(s)
  BY <1>1 DEF Open
<1>6. ContentsInv
  BY <1>1, <1>5 DEF Init, ContentsInv
<1> QED
  BY <1>3, <1>4, <1>6

LEMMA CoherenceStep ==
    OneRegion /\ EntryInv /\ CountInv /\ CommandInv /\ CoherenceInv /\ [Next]_vars => CoherenceInv'
<1> SUFFICES ASSUME OneRegion, EntryInv, CountInv, CommandInv, CoherenceInv, [Next]_vars,
                    spoiled' = {}
             PROVE  WriterInv' /\ OrderInv' /\ ContentsInv'
  BY DEF CoherenceInv
<1>1. ~AbortCommand /\ spoiled = {}
  BY DEF Next, AddMapping, PushMap, FindMapping, PushUnmap, HostWrite, PushKernel, Execute,
         ExecuteMap, ExecuteUnmap, ExecuteKernel, AbortCommand, vars
<1>2. WriterInv /\ OrderInv /\ ContentsInv
  BY <1>1 DEF CoherenceInv
<1> QED
  BY <1>1, <1>2, WriterStep, OrderStep, ContentsStep

\* While one thread maps and unmaps one region and no command is aborted, what a
\* mapped pointer and what the next kernel sees is what was written last, for any
\* number of overlapping mappings, whatever their flags.
THEOREM CopiesStayCoherent ==
    ASSUME OneThread, OneRegion
    PROVE  Spec => []Coherent
<1>1. EntryInv /\ CommandInv /\ CoherenceInv => Coherent
  <2> SUFFICES ASSUME EntryInv, CommandInv, CoherenceInv, NEW r \in Regions \ spoiled
               PROVE  /\ \A s \in Active(r) : phase[s] = "mapped" => host[r] = latest[r]
                      /\ Active(r) = {} /\ Pending("unmap", r) \cup Pending("map", r) = {}
                             => device[r] = latest[r]
    BY DEF Coherent
  <2>1. spoiled = {}
    BY DEF EntryInv, OneRegion
  <2>2. WriterInv /\ OrderInv /\ ContentsInv
    BY <2>1 DEF CoherenceInv
  <2>3. \A s \in Active(r) : phase[s] = "mapped" => host[r] = latest[r]
    BY <2>2 DEF ContentsInv, Active
  <2>4. ASSUME Active(r) = {}, Pending("unmap", r) = {}, NEW w \in Sessions, Open(w)
        PROVE  FALSE
    <3>1. w \in Sessions /\ phase[w] \in {"pushed", "mapped", "unmapping", "over"}
      BY <2>2, <2>4, OpenFacts
    <3>2. CASE pending # <<>>
      <4>1. IsUnmap(1, w) /\ 1 \in DOMAIN pending /\ pending[1] \in Command
        BY <2>2, <2>4, <3>2, OpenFacts, PendingFacts
      <4>2. pending[1].region = r
        BY <4>1 DEF Command, OneRegion
      <4> QED
        BY <2>4, <4>1, <4>2 DEF Pending, IsUnmap
    <3>3. CASE pending = <<>>
      <4>1. phase[w] \in {"pushed", "mapped", "unmapping"}
        BY <2>2, <2>4, <3>1, <3>3, OpenFacts
      <4>2. RegionOf(w) = r
        BY <3>1, <4>1 DEF EntryInv, OneRegion
      <4> QED
        BY <2>4, <4>1, <4>2 DEF Active
    <3> QED
      BY <3>2, <3>3
  <2> QED
    BY <2>2, <2>3, <2>4 DEF ContentsInv
<1> QED
  BY <1>1, EntryInit, EntryStep, CountInit, CountStep, CommandInit, CommandStep,
     CoherenceInit, CoherenceStep, PTL DEF Spec
================================================================================
