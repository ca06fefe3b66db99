------------------------- MODULE KernelArgumentsProofs -------------------------
(***************************************************************************)
(* Proofs about kernels and their arguments (KernelArguments) and about the *)
(* binary their headers are read from (ModuleBinary): for any program the   *)
(* compiler may write, any number of kernel objects, QPUs and calls.        *)
(*                                                                          *)
(* First the binary: every field, text and list is read back as it was      *)
(* written, and a binary that was cut is refused.  Then the invariant: each *)
(* kernel object and each execution has a header the compiler wrote and the *)
(* arguments the application asked for.  Then what follows from it: the     *)
(* queries, the size of the device buffer, and what every QPU finds there.  *)
(***************************************************************************)
EXTENDS KernelArguments, FiniteSetTheorems, SequenceTheorems, WellFoundedInduction, TLAPS

---------------------------------------------------------------------------------
(* Recursion and sequences *)

\* A set of naturals has a least one.
LEMMA LeastNatural ==
  ASSUME NEW T \in SUBSET Nat, T # {}
  PROVE \E n \in T : \A m \in T : n <= m
<1>1. PICK n \in T : \A m \in T : ~(<<m, n>> \in OpToRel(<, Nat))
  BY WFMin, NatLessThanWellFounded, Zenon
<1>2. \A m \in T : ~(m < n)
  BY <1>1, Zenon DEF OpToRel
<1> QED BY <1>2

\* Induction over the naturals, for a set.
LEMMA SetInduction ==
  ASSUME NEW T, 0 \in T, \A n \in Nat : n \in T => n + 1 \in T
  PROVE  \A n \in Nat : n \in T
<1> SUFFICES ASSUME Nat \ T # {} PROVE FALSE OBVIOUS
<1>1. PICK n \in Nat \ T : \A m \in Nat \ T : n <= m
  BY LeastNatural
<1>2. n # 0 BY <1>1
<1>3. n - 1 \in Nat /\ n - 1 \in T BY <1>1, <1>2
<1> QED BY <1>3, <1>1

\* One more item, as the loop of fromBinaryData reads it.
OneMoreRead(reader, all) ==
    LET one == reader[all.next]
    IN  IF all.short THEN all
        ELSE [item |-> Append(all.item, one.item), next |-> one.next, short |-> one.short]

IsReading(f, reader, index, n) ==
    f = [i \in 0..n |-> IF i = 0 THEN Read(<<>>, index) ELSE OneMoreRead(reader, f[i - 1])]

\* The readings of fromBinaryData's loop.
LEMMA ReadingExists ==
    ASSUME NEW reader, NEW index, NEW n \in Nat
    PROVE  \E f : IsReading(f, reader, index, n)
<1> DEFINE T == {k \in Nat : \E f : IsReading(f, reader, index, k)}
<1>1. 0 \in T
  <2> DEFINE f == [i \in 0..0 |-> Read(<<>>, index)]
  <2>1. IsReading(f, reader, index, 0)
    BY DEF IsReading
  <2> QED BY <2>1
<1>2. ASSUME NEW k \in Nat, k \in T
      PROVE  k + 1 \in T
  <2>1. PICK f : IsReading(f, reader, index, k)
    BY <1>2
  <2> DEFINE g == [i \in 0..(k + 1) |-> IF i <= k THEN f[i] ELSE OneMoreRead(reader, f[k])]
  <2>2. ASSUME NEW i \in 0..(k + 1)
        PROVE  g[i] = IF i = 0 THEN Read(<<>>, index) ELSE OneMoreRead(reader, g[i - 1])
    <3>1. CASE i = 0
      BY <2>1, <3>1 DEF IsReading
    <3>2. CASE i # 0 /\ i <= k
      <4>1. i - 1 \in 0..k /\ i - 1 \in 0..(k + 1) /\ i - 1 <= k
        BY <3>2
      <4> QED BY <2>1, <3>2, <4>1 DEF IsReading
    <3>3. CASE i = k + 1
      <4>1. i - 1 = k /\ i # 0 /\ ~(i <= k) /\ k \in 0..(k + 1)
        BY <3>3
      <4> QED BY <3>3, <4>1
    <3> QED BY <3>1, <3>2, <3>3
  <2>3. IsReading(g, reader, index, k + 1)
    BY <2>2 DEF IsReading
  <2> QED BY <2>3
<1> HIDE DEF T
<1>3. n \in T
  BY <1>1, <1>2, SetInduction
<1> QED BY <1>3 DEF T

\* ReadAll is the last of the readings.
LEMMA ReadAllIs ==
    ASSUME NEW reader, NEW index, NEW n \in Nat
    PROVE  \E f : IsReading(f, reader, index, n) /\ ReadAll(reader, index, n) = f[n]
<1> DEFINE F == CHOOSE f : IsReading(f, reader, index, n)
<1>1. IsReading(F, reader, index, n)
  BY ReadingExists, Zenon
<1>2. ReadAll(reader, index, n) = F[n]
  BY Zenon DEF ReadAll, OneMoreRead, IsReading
<1> QED BY <1>1, <1>2

\* One more item is appended to those read before.
LEMMA OneMoreIs ==
    ASSUME NEW reader, NEW s, NEW a, NEW e, NEW b, reader[a] = Read(e, b)
    PROVE  OneMoreRead(reader, Read(s, a)) = Read(Append(s, e), b)
<1>1. Read(s, a).short = FALSE /\ Read(s, a).next = a /\ Read(s, a).item = s
  BY DEF Read
<1>2. reader[a].item = e /\ reader[a].next = b /\ reader[a].short = FALSE
  BY DEF Read
<1> QED BY <1>1, <1>2 DEF OneMoreRead, Read

\* The loop reads the items that lie one after the other.
LEMMA ReadAllItems ==
    ASSUME NEW reader, NEW n \in Nat, NEW S, NEW items \in Seq(S), Len(items) = n, NEW at,
           \A i \in 1..n : reader[at[i - 1]] = Read(items[i], at[i])
    PROVE  ReadAll(reader, at[0], n) = Read(items, at[n])
<1>1. PICK f : IsReading(f, reader, at[0], n) /\ ReadAll(reader, at[0], n) = f[n]
  BY ReadAllIs
<1> DEFINE T == {k \in Nat : k <= n => f[k] = Read(SubSeq(items, 1, k), at[k])}
<1>2. 0 \in T
  <2>1. SubSeq(items, 1, 0) = <<>>
    BY SubSeqEmpty
  <2>2. f[0] = Read(<<>>, at[0])
    BY <1>1 DEF IsReading
  <2> QED BY <2>1, <2>2
<1>3. ASSUME NEW k \in Nat, k \in T
      PROVE  k + 1 \in T
  <2> SUFFICES ASSUME k + 1 <= n
               PROVE  f[k + 1] = Read(SubSeq(items, 1, k + 1), at[k + 1])
    OBVIOUS
  <2>1. f[k] = Read(SubSeq(items, 1, k), at[k])
    BY <1>3
  <2>2. f[k + 1] = OneMoreRead(reader, f[k])
    BY <1>1 DEF IsReading
  <2>3. reader[at[k]] = Read(items[k + 1], at[k + 1])
    <3>1. k + 1 \in 1..n /\ (k + 1) - 1 = k
      OBVIOUS
    <3> QED BY <3>1
  <2>4. f[k + 1] = Read(Append(SubSeq(items, 1, k), items[k + 1]), at[k + 1])
    <3>1. OneMoreRead(reader, Read(SubSeq(items, 1, k), at[k]))
              = Read(Append(SubSeq(items, 1, k), items[k + 1]), at[k + 1])
      BY <2>3, OneMoreIs
    <3> QED BY <2>1, <2>2, <3>1
  <2>5. Append(SubSeq(items, 1, k), items[k + 1]) = SubSeq(items, 1, k + 1)
    <3>1. k + 1 \in 1..Len(items)
      OBVIOUS
    <3>2. SubSeq(items, 1, k + 1) = SubSeq(items, 1, k) \o <<items[k + 1]>>
      BY <3>1, SubSeqRecursiveSecond
    <3>3. SubSeq(items, 1, k) \in Seq(S) /\ items[k + 1] \in S
      BY <3>1
    <3> QED BY <3>2, <3>3, AppendIsConcat
  <2> QED BY <2>4, <2>5
<1> HIDE DEF T
<1>4. n \in T
  BY <1>2, <1>3, SetInduction
<1>5. f[n] = Read(SubSeq(items, 1, n), at[n])
  BY <1>4 DEF T
<1>6. SubSeq(items, 1, n) = items
  BY SubSeqFull
<1> QED BY <1>1, <1>5, <1>6

-----------------------------------------------------------------------------
IsFlattening(f, ss, n) == f = [i \in 1..n |-> IF i = 1 THEN ss[i] ELSE f[i - 1] \o ss[i]]

\* The flattenings of the first sequences.
LEMMA FlatteningExists ==
    ASSUME NEW ss, NEW n \in Nat
    PROVE  \E f : IsFlattening(f, ss, n)
<1> DEFINE T == {k \in Nat : \E f : IsFlattening(f, ss, k)}
<1>1. 0 \in T
  <2> DEFINE f == [i \in 1..0 |-> ss[i]]
  <2>1. IsFlattening(f, ss, 0)
    BY DEF IsFlattening
  <2> QED BY <2>1
<1>2. ASSUME NEW k \in Nat, k \in T
      PROVE  k + 1 \in T
  <2>1. PICK f : IsFlattening(f, ss, k)
    BY <1>2
  <2> DEFINE g == [i \in 1..(k + 1) |-> IF i <= k THEN f[i] ELSE IF i = 1 THEN ss[i] ELSE f[k] \o ss[i]]
  <2>2. ASSUME NEW i \in 1..(k + 1)
        PROVE  g[i] = IF i = 1 THEN ss[i] ELSE g[i - 1] \o ss[i]
    <3>1. CASE i = 1 /\ i <= k
      BY <2>1, <3>1 DEF IsFlattening
    <3>2. CASE i # 1 /\ i <= k
      <4>1. i - 1 \in 1..k /\ i - 1 \in 1..(k + 1) /\ i - 1 <= k /\ i \in 1..k
        BY <3>2
      <4> QED BY <2>1, <3>2, <4>1 DEF IsFlattening
    <3>3. CASE i = k + 1 /\ i = 1
      BY <3>3
    <3>4. CASE i = k + 1 /\ i # 1
      <4>1. i - 1 = k /\ ~(i <= k) /\ k \in 1..(k + 1) /\ k <= k
        BY <3>4
      <4>2. g[i] = f[k] \o ss[i]
        BY <3>4, <4>1
      <4>3. g[k] = f[k]
        BY <4>1
      <4> HIDE DEF g
      <4> QED BY <3>4, <4>1, <4>2, <4>3
    <3> QED BY <3>1, <3>2, <3>3, <3>4
  <2>3. IsFlattening(g, ss, k + 1)
    BY <2>2 DEF IsFlattening
  <2> QED BY <2>3
<1> HIDE DEF T
<1>3. n \in T
  BY <1>1, <1>2, SetInduction
<1> QED BY <1>3 DEF T

\* FlattenSeq is the last of them.
LEMMA FlattenSeqIs ==
    ASSUME NEW S, NEW ss \in Seq(S), Len(ss) # 0
    PROVE  \E f : IsFlattening(f, ss, Len(ss)) /\ FlattenSeq(ss) = f[Len(ss)]
<1> DEFINE F == CHOOSE f : IsFlattening(f, ss, Len(ss))
<1>0. Len(ss) \in Nat
  OBVIOUS
<1>1. IsFlattening(F, ss, Len(ss))
  BY <1>0, FlatteningExists, Zenon
<1>2. FlattenSeq(ss) = F[Len(ss)]
  BY Zenon DEF FlattenSeq, IsFlattening
<1> QED BY <1>1, <1>2

\* Where the first n of the sequences lie in their concatenation.
Places(ss, n, flat, off) ==
    /\ off \in [0..n -> Nat] /\ off[0] = 0 /\ off[n] = Len(flat)
    /\ \A k \in 0..n : off[k] <= Len(flat)
    /\ \A k \in 1..n : off[k] = off[k - 1] + Len(ss[k])
    /\ \A k \in 1..n : \A j \in 1..Len(ss[k]) : flat[off[k - 1] + j] = ss[k][j]

\* A sequence that is appended lies after those before it.
LEMMA OneMorePlace ==
    ASSUME NEW S, NEW ss \in Seq(Seq(S)), NEW n \in Nat, n + 1 <= Len(ss),
           NEW flat \in Seq(S), NEW off, Places(ss, n, flat, off)
    PROVE  /\ flat \o ss[n + 1] \in Seq(S)
           /\ \E new : Places(ss, n + 1, flat \o ss[n + 1], new)
<1>1. ss[n + 1] \in Seq(S)
  OBVIOUS
<1>2. PICK l \in Nat : l = Len(ss[n + 1])
  BY <1>1
<1>3. PICK m \in Nat : m = Len(flat)
  OBVIOUS
<1> DEFINE longer == flat \o ss[n + 1]
           new == [k \in 0..(n + 1) |-> IF k <= n THEN off[k] ELSE m + l]
<1>4. /\ longer \in Seq(S) /\ Len(longer) = m + l
      /\ \A i \in 1..m : longer[i] = flat[i]
      /\ \A i \in 1..l : longer[m + i] = ss[n + 1][i]
  <2>1. \A i \in 1..(m + l) : longer[i] = IF i <= m THEN flat[i] ELSE ss[n + 1][i - m]
    BY <1>1, <1>2, <1>3, ConcatProperties
  <2>2. longer \in Seq(S) /\ Len(longer) = m + l
    BY <1>1, <1>2, <1>3, ConcatProperties
  <2>3. \A i \in 1..l : m + i \in 1..(m + l) /\ ~(m + i <= m) /\ (m + i) - m = i
    OBVIOUS
  <2>4. \A i \in 1..m : i \in 1..(m + l) /\ i <= m
    OBVIOUS
  <2> HIDE DEF longer
  <2>5. \A i \in 1..m : longer[i] = flat[i]
    BY <2>1, <2>4
  <2>6. \A i \in 1..l : longer[m + i] = ss[n + 1][i]
    BY <2>1, <2>3
  <2> QED BY <2>2, <2>5, <2>6
<1> HIDE DEF longer
<1>5. /\ new \in [0..(n + 1) -> Nat] /\ new[0] = 0 /\ new[n + 1] = m + l
      /\ \A k \in 0..n : new[k] = off[k]
  BY DEF Places
<1>6. \A k \in 1..n : k - 1 \in 0..n /\ k \in 0..n
  OBVIOUS
<1> HIDE DEF new
<1>7. ASSUME NEW k \in 1..(n + 1)
      PROVE  /\ new[k] = new[k - 1] + Len(ss[k])
             /\ \A j \in 1..Len(ss[k]) : longer[new[k - 1] + j] = ss[k][j]
  <2>1. CASE k = n + 1
    <3>1. new[k - 1] = m
      <4>1. k - 1 = n /\ n \in 0..n
        BY <2>1
      <4> QED BY <1>3, <1>5, <4>1 DEF Places
    <3> QED BY <1>2, <1>4, <1>5, <2>1, <3>1
  <2>2. CASE k <= n
    <3>1. k \in 1..n
      BY <2>2
    <3>2. new[k] = off[k] /\ new[k - 1] = off[k - 1]
      BY <1>5, <1>6, <3>1
    <3>3. off[k] = off[k - 1] + Len(ss[k])
      BY <3>1 DEF Places
    <3>4. off[k] <= m
      BY <1>3, <1>6, <3>1 DEF Places
    <3>5. ASSUME NEW j \in 1..Len(ss[k])
          PROVE  longer[new[k - 1] + j] = ss[k][j]
      <4>1. PICK a \in Nat : a = off[k - 1]
        BY <1>6, <3>1 DEF Places
      <4>2. PICK b \in Nat : b = Len(ss[k])
        BY <3>1
      <4>3. a + b <= m /\ j \in 1..b
        BY <3>3, <3>4, <3>5, <4>1, <4>2
      <4>4. a + j \in 1..m
        BY <4>3
      <4>5. flat[a + j] = ss[k][j]
        BY <3>1, <3>5, <4>1 DEF Places
      <4> QED BY <1>4, <3>2, <4>1, <4>4, <4>5
    <3> QED BY <3>2, <3>3, <3>5
  <2> QED BY <2>1, <2>2
<1>8. \A k \in 0..(n + 1) : new[k] <= m + l
  <2>1. ASSUME NEW k \in 0..n
        PROVE  new[k] <= m + l
    BY <1>3, <1>5, <2>1 DEF Places
  <2>2. ASSUME NEW k \in 0..(n + 1), k \notin 0..n
        PROVE  new[k] <= m + l
    <3>1. k = n + 1
      BY <2>2
    <3> QED BY <1>5, <3>1
  <2> QED BY <2>1, <2>2
<1>9. Places(ss, n + 1, longer, new)
  BY <1>4, <1>5, <1>7, <1>8 DEF Places
<1> QED BY <1>4, <1>9 DEF longer

\* Where no sequence lies.
LEMMA NoPlace ==
    ASSUME NEW ss
    PROVE  \E off : Places(ss, 0, <<>>, off)
<1> DEFINE off == [k \in 0..0 |-> 0]
<1>1. off \in [0..0 -> Nat] /\ off[0] = 0
  OBVIOUS
<1>2. Places(ss, 0, <<>>, off)
  BY <1>1 DEF Places
<1> QED  BY <1>2

\* Every one of the sequences lies in the flattened one, after those before it.
LEMMA FlattenPlaces ==
    ASSUME NEW S, NEW ss \in Seq(Seq(S))
    PROVE  /\ FlattenSeq(ss) \in Seq(S)
           /\ \E off : Places(ss, Len(ss), FlattenSeq(ss), off)
<1>1. CASE Len(ss) = 0
  <2>1. ss = <<>> /\ FlattenSeq(ss) = ss
    BY <1>1 DEF FlattenSeq
  <2>2. FlattenSeq(ss) = <<>> /\ <<>> \in Seq(S)
    BY <2>1
  <2>3. \E off : Places(ss, 0, <<>>, off)
    BY NoPlace
  <2> QED  BY <1>1, <2>2, <2>3, Zenon
<1>2. CASE Len(ss) # 0
  <2>1. PICK f : IsFlattening(f, ss, Len(ss)) /\ FlattenSeq(ss) = f[Len(ss)]
    BY <1>2, FlattenSeqIs
  <2>2. PICK n \in Nat : n + 1 = Len(ss)
    <3>1. Len(ss) \in Nat /\ Len(ss) - 1 \in Nat /\ (Len(ss) - 1) + 1 = Len(ss)
      BY <1>2
    <3> QED  BY <3>1
  <2> DEFINE T == {k \in Nat : k <= n => /\ f[k + 1] \in Seq(S)
                                         /\ \E off : Places(ss, k + 1, f[k + 1], off)}
  <2>3. 0 \in T
    <3>1. PICK off : Places(ss, 0, <<>>, off)
      BY NoPlace
    <3>2. <<>> \in Seq(S) /\ ss[1] \in Seq(S)
      BY <2>2
    <3>3. f[1] = <<>> \o ss[1]
      BY <2>1, <2>2, <3>2, ConcatEmptySeq DEF IsFlattening
    <3>4. 0 + 1 <= Len(ss) /\ 0 + 1 = 1
      BY <2>2
    <3> QED  BY <3>1, <3>2, <3>3, <3>4, OneMorePlace
  <2>4. ASSUME NEW k \in Nat, k \in T
        PROVE  k + 1 \in T
    <3> SUFFICES ASSUME k + 1 <= n
                 PROVE  /\ f[(k + 1) + 1] \in Seq(S)
                        /\ \E off : Places(ss, (k + 1) + 1, f[(k + 1) + 1], off)
      OBVIOUS
    <3>1. f[k + 1] \in Seq(S)
      BY <2>4
    <3>2. PICK off : Places(ss, k + 1, f[k + 1], off)
      BY <2>4
    <3>3. f[(k + 1) + 1] = f[k + 1] \o ss[(k + 1) + 1]
      <4>1. (k + 1) + 1 \in 1..Len(ss) /\ (k + 1) + 1 # 1 /\ ((k + 1) + 1) - 1 = k + 1
        BY <2>2
      <4> QED  BY <2>1, <4>1 DEF IsFlattening
    <3>4. k + 1 \in Nat /\ (k + 1) + 1 <= Len(ss)
      BY <2>2
    <3> QED  BY <3>1, <3>2, <3>3, <3>4, OneMorePlace
  <2> HIDE DEF T
  <2>5. n \in T
    BY <2>3, <2>4, SetInduction
  <2>6. f[n + 1] \in Seq(S) /\ \E off : Places(ss, n + 1, f[n + 1], off)
    BY <2>5 DEF T
  <2> QED  BY <2>1, <2>2, <2>6
<1> QED  BY <1>1, <1>2

\* A function on 1..n is a sequence of length n.
LEMMA FunctionIsSeq ==
    ASSUME NEW S, NEW n \in Nat, NEW f \in [1..n -> S]
    PROVE  f \in Seq(S) /\ Len(f) = n /\ \A i \in 1..n : f[i] \in S
<1>1. f \in Seq(S)
  BY SeqDef
<1>2. DOMAIN f = 1..n
  OBVIOUS
<1>3. Len(f) = n
  BY <1>1, <1>2, LenProperties
<1> QED  BY <1>1, <1>3

\* Quotient and remainder.
LEMMA Divided ==
    ASSUME NEW n \in Nat, NEW m \in Nat \ {0}
    PROVE  /\ n \div m \in Nat /\ n % m \in 0..(m - 1)
           /\ n = m * (n \div m) + (n % m)
<1>1. n \div m \in Int /\ n % m \in 0..(m - 1)
  OBVIOUS
<1>2. n = m * (n \div m) + (n % m)
  OBVIOUS
<1>3. n \div m >= 0
  BY <1>1, <1>2
<1> QED  BY <1>1, <1>2, <1>3

\* The words of seg lie in data after the first `at` words.
Holds(data, at, seg) ==
    /\ at + Len(seg) <= Len(data)
    /\ \A j \in 1..Len(seg) : data[at + j] = seg[j]

ByteWords == [bytes : [1..8 -> Nat]]

\* writeByteContainer puts the n-th character into the n-th byte.
LEMMA ByteContainer ==
    ASSUME NEW text \in Seq(Nat)
    PROVE  /\ writeByteContainer(text) \in Seq(ByteWords)
           /\ Len(writeByteContainer(text)) = (Len(text) + 7) \div 8
           /\ (Len(text) + 7) \div 8 \in Nat
           /\ \A w \in 1..((Len(text) + 7) \div 8) : \A b \in 1..8 :
                  /\ "bytes" \in DOMAIN writeByteContainer(text)[w]
                  /\ 8 * (w - 1) + b <= Len(text) =>
                         writeByteContainer(text)[w].bytes[b] = text[8 * (w - 1) + b]
<1>1. PICK n \in Nat : n = (Len(text) + 7) \div 8
  OBVIOUS
<1> DEFINE word(w) == [bytes |-> [b \in 1..8 |->
                          IF 8 * (w - 1) + b <= Len(text) THEN text[8 * (w - 1) + b] ELSE 0]]
<1>2. writeByteContainer(text) = [w \in 1..n |-> word(w)]
  BY <1>1 DEF writeByteContainer
<1>3. ASSUME NEW w \in 1..n
      PROVE  word(w) \in ByteWords
  <2>1. ASSUME NEW b \in 1..8
        PROVE  (IF 8 * (w - 1) + b <= Len(text) THEN text[8 * (w - 1) + b] ELSE 0) \in Nat
    <3>1. CASE 8 * (w - 1) + b <= Len(text)
      <4>1. 8 * (w - 1) + b \in 1..Len(text)
        BY <3>1
      <4> QED  BY <3>1, <4>1
    <3>2. CASE ~(8 * (w - 1) + b <= Len(text))
      BY <3>2
    <3> QED  BY <3>1, <3>2
  <2> QED  BY <2>1 DEF ByteWords
<1>4. /\ writeByteContainer(text) \in Seq(ByteWords)
      /\ Len(writeByteContainer(text)) = n
  <2> HIDE DEF word
  <2>1. writeByteContainer(text) \in [1..n -> ByteWords]
    BY <1>2, <1>3
  <2> QED  BY <2>1, FunctionIsSeq
<1>5. ASSUME NEW w \in 1..n, NEW b \in 1..8
      PROVE  /\ "bytes" \in DOMAIN writeByteContainer(text)[w]
             /\ 8 * (w - 1) + b <= Len(text) =>
                    writeByteContainer(text)[w].bytes[b] = text[8 * (w - 1) + b]
  <2>1. writeByteContainer(text)[w] = word(w)
    BY <1>2
  <2>2. "bytes" \in DOMAIN word(w)
    OBVIOUS
  <2>3. word(w).bytes[b] = IF 8 * (w - 1) + b <= Len(text) THEN text[8 * (w - 1) + b] ELSE 0
    OBVIOUS
  <2> HIDE DEF word
  <2> QED  BY <2>1, <2>2, <2>3
<1> QED  BY <1>1, <1>4, <1>5

\* The bytes of a text that lies in the data.
LEMMA BytesOfText ==
    ASSUME NEW W, NEW data \in Seq(W), NEW text \in Seq(Nat), NEW at \in Nat,
           Holds(data, at, writeByteContainer(text)), NEW b \in 1..Len(text)
    PROVE  ByteOf(data, 8 * at + b - 1) = text[b]
<1>1. PICK q \in Nat, r \in 0..7 : b - 1 = 8 * q + r
  <2>1. PICK c \in Nat : c = b - 1
    OBVIOUS
  <2>2. 8 \in Nat \ {0} /\ 8 - 1 = 7
    OBVIOUS
  <2>3. c \div 8 \in Nat /\ c % 8 \in 0..7 /\ c = 8 * (c \div 8) + (c % 8)
    BY <2>2, Divided
  <2> QED  BY <2>1, <2>3
<1>2. (8 * at + b - 1) \div 8 = at + q /\ (8 * at + b - 1) % 8 = r
  BY <1>1
<1>3. PICK n \in Nat : n = (Len(text) + 7) \div 8
  OBVIOUS
<1>4. q + 1 \in 1..n
  BY <1>1, <1>3
<1>5. Len(writeByteContainer(text)) = n
  BY <1>3, ByteContainer
<1>6. at + q < Len(data) /\ data[at + (q + 1)] = writeByteContainer(text)[q + 1]
  BY <1>4, <1>5 DEF Holds
<1>7. /\ "bytes" \in DOMAIN writeByteContainer(text)[q + 1]
      /\ writeByteContainer(text)[q + 1].bytes[r + 1] = text[b]
  <2>1. r + 1 \in 1..8 /\ 8 * ((q + 1) - 1) + (r + 1) = b
    BY <1>1
  <2>2. \A w \in 1..n : \A c \in 1..8 :
            /\ "bytes" \in DOMAIN writeByteContainer(text)[w]
            /\ 8 * (w - 1) + c <= Len(text) =>
                   writeByteContainer(text)[w].bytes[c] = text[8 * (w - 1) + c]
    BY <1>3, ByteContainer
  <2>3. b <= Len(text)
    OBVIOUS
  <2> QED  BY <1>4, <2>1, <2>2, <2>3
<1>8. Word(data, at + q) = writeByteContainer(text)[q + 1]
  BY <1>6 DEF Word
<1> QED  BY <1>2, <1>6, <1>7, <1>8 DEF ByteOf

\* A text in the data is read back.
LEMMA TextIsRead ==
    ASSUME NEW W, NEW data \in Seq(W), NEW text \in Seq(Nat), NEW at \in Nat,
           Holds(data, at, writeByteContainer(text))
    PROVE  readByteContainer(data, at, Len(text)) = Read(text, at + Len(writeByteContainer(text)))
<1>1. [b \in 1..Len(text) |-> ByteOf(data, 8 * at + b - 1)] = text
  <2>1. \A b \in 1..Len(text) : ByteOf(data, 8 * at + b - 1) = text[b]
    BY BytesOfText
  <2>2. text = [b \in 1..Len(text) |-> text[b]]
    OBVIOUS
  <2> QED  BY <2>1, <2>2
<1>2. WordsFor(Len(text)) = Len(writeByteContainer(text))
  BY ByteContainer DEF WordsFor
<1> QED  BY <1>1, <1>2 DEF readByteContainer

\* A part of what lies in the data.
LEMMA HoldsParts ==
    ASSUME NEW W, NEW data, NEW at \in Nat, NEW a \in Seq(W), NEW b \in Seq(W), Len(data) \in Nat
    PROVE  Holds(data, at, a \o b) <=> Holds(data, at, a) /\ Holds(data, at + Len(a), b)
<1>1. PICK m \in Nat, n \in Nat : m = Len(a) /\ n = Len(b)
  OBVIOUS
<1> DEFINE c == a \o b
<1>2. Len(c) = m + n /\ \A i \in 1..(m + n) : c[i] = IF i <= m THEN a[i] ELSE b[i - m]
  BY <1>1, ConcatProperties
<1> HIDE DEF c
<1>3. ASSUME Holds(data, at, c)
      PROVE  Holds(data, at, a) /\ Holds(data, at + m, b)
  <2>1. at + (m + n) <= Len(data) /\ \A j \in 1..(m + n) : data[at + j] = c[j]
    BY <1>2, <1>3 DEF Holds
  <2>2. ASSUME NEW j \in 1..m
        PROVE  data[at + j] = a[j]
    <3>1. j \in 1..(m + n) /\ j <= m
      OBVIOUS
    <3> QED  BY <1>2, <2>1, <3>1
  <2>3. ASSUME NEW j \in 1..n
        PROVE  data[at + m + j] = b[j]
    <3>1. m + j \in 1..(m + n) /\ ~(m + j <= m) /\ (m + j) - m = j /\ at + (m + j) = at + m + j
      OBVIOUS
    <3> QED  BY <1>2, <2>1, <3>1
  <2> QED  BY <1>1, <2>1, <2>2, <2>3 DEF Holds
<1>4. ASSUME Holds(data, at, a), Holds(data, at + m, b)
      PROVE  Holds(data, at, c)
  <2>1. ASSUME NEW j \in 1..(m + n)
        PROVE  data[at + j] = c[j]
    <3>1. CASE j <= m
      <4>1. j \in 1..m
        BY <3>1
      <4> QED  BY <1>1, <1>2, <1>4, <3>1, <4>1 DEF Holds
    <3>2. CASE ~(j <= m)
      <4>1. PICK k \in 1..n : j = m + k
        <5>1. j - m \in 1..n /\ j = m + (j - m)
          BY <3>2
        <5> QED  BY <5>1
      <4>2. data[at + m + k] = b[k] /\ at + m + k = at + j /\ j - m = k
        BY <1>1, <1>4, <4>1 DEF Holds
      <4> QED  BY <1>2, <3>2, <4>1, <4>2
    <3> QED  BY <3>1, <3>2
  <2>2. at + (m + n) <= Len(data)
    BY <1>1, <1>4 DEF Holds
  <2> QED  BY <1>2, <2>1, <2>2 DEF Holds
<1> QED  BY <1>1, <1>3, <1>4 DEF c

\* One of several sequences that lie in the data one after the other.
LEMMA HoldsPlaces ==
    ASSUME NEW W, NEW data, Len(data) \in Nat, NEW at \in Nat, NEW ss \in Seq(Seq(W)), NEW off,
           Places(ss, Len(ss), FlattenSeq(ss), off), Holds(data, at, FlattenSeq(ss)),
           NEW i \in 1..Len(ss)
    PROVE  /\ off[i - 1] \in Nat /\ off[i] = off[i - 1] + Len(ss[i])
           /\ Holds(data, at + off[i - 1], ss[i])
           /\ at + off[i] <= at + Len(FlattenSeq(ss))
<1>1. i - 1 \in 0..Len(ss) /\ i \in 0..Len(ss)
  OBVIOUS
<1>2. PICK a \in Nat : a = off[i - 1]
  BY <1>1 DEF Places
<1>3. PICK l \in Nat : l = Len(ss[i])
  OBVIOUS
<1>4. PICK n \in Nat : n = Len(FlattenSeq(ss))
  BY FlattenPlaces
<1>5. off[i] = a + l /\ a + l <= n /\ \A j \in 1..l : FlattenSeq(ss)[a + j] = ss[i][j]
  BY <1>1, <1>2, <1>3, <1>4 DEF Places
<1>6. at + n <= Len(data) /\ \A j \in 1..n : data[at + j] = FlattenSeq(ss)[j]
  BY <1>4 DEF Holds
<1>7. ASSUME NEW j \in 1..l
      PROVE  data[at + a + j] = ss[i][j]
  <2>1. a + j \in 1..n /\ at + (a + j) = at + a + j
    BY <1>5
  <2> QED  BY <1>5, <1>6, <2>1
<1>8. Holds(data, at + a, ss[i])
  <2>1. at + a + l <= Len(data)
    BY <1>5, <1>6
  <2>2. \A j \in 1..Len(ss[i]) : data[at + a + j] = ss[i][j]
    BY <1>3, <1>7
  <2> QED  BY <1>3, <2>1, <2>2 DEF Holds
<1>9. off[i - 1] \in Nat /\ off[i] = off[i - 1] + Len(ss[i])
  BY <1>2, <1>3, <1>5
<1>10. Holds(data, at + off[i - 1], ss[i])
  BY <1>2, <1>8
<1>11. at + off[i] <= at + Len(FlattenSeq(ss))
  <2>1. a + l \in Nat /\ at + (a + l) <= at + n
    BY <1>5
  <2> QED  BY <1>4, <1>5, <2>1
<1> QED  BY <1>9, <1>10, <1>11

-----------------------------------------------------------------------------
\* How many words a parameter takes.
LEMMA WrittenParameter ==
    ASSUME NEW p \in ParameterHeaders, NEW W, ByteWords \subseteq W, ParameterWord(p) \in W
    PROVE  /\ writeParameter(p) \in Seq(W)
           /\ Len(writeParameter(p)) = 1 + Len(writeByteContainer(p.name)) + Len(writeByteContainer(p.typeName))
<1>1. p.name \in Seq(Nat) /\ p.typeName \in Seq(Nat)
  BY DEF ParameterHeaders
<1>2. writeByteContainer(p.name) \in Seq(ByteWords) /\ writeByteContainer(p.typeName) \in Seq(ByteWords)
  BY <1>1, ByteContainer
<1>3. writeByteContainer(p.name) \in Seq(W) /\ writeByteContainer(p.typeName) \in Seq(W)
  BY <1>2
<1>4. <<ParameterWord(p)>> \in Seq(W) /\ Len(<<ParameterWord(p)>>) = 1
  OBVIOUS
<1> QED  BY <1>3, <1>4 DEF writeParameter

\* A parameter that fits its bits is read back.
LEMMA ParameterIsRead ==
    ASSUME NEW p \in ParameterHeaders, ParameterFits(p), NEW W, ByteWords \subseteq W, ParameterWord(p) \in W,
           NEW data \in Seq(W), NEW at \in Nat, Holds(data, at, writeParameter(p)),
           at + Len(writeParameter(p)) < Len(data)
    PROVE  readParameter(data, at) = Read(p, at + Len(writeParameter(p)))
<1> DEFINE name == writeByteContainer(p.name)
           typeName == writeByteContainer(p.typeName)
           w == ParameterWord(p)
<1>1. p.name \in Seq(Nat) /\ p.typeName \in Seq(Nat)
  BY DEF ParameterHeaders
<1>2. name \in Seq(W) /\ typeName \in Seq(W)
  <2>1. name \in Seq(ByteWords) /\ typeName \in Seq(ByteWords)
    BY <1>1, ByteContainer
  <2> QED  BY <2>1
<1>3. Len(data) \in Nat
  OBVIOUS
<1>4. <<w>> \in Seq(W) /\ Len(<<w>>) = 1 /\ <<w>> \o name \in Seq(W) /\ Len(<<w>> \o name) = 1 + Len(name)
  <2> HIDE DEF name, w
  <2> QED  BY <1>2 DEF w
<1>5. /\ Holds(data, at, <<w>>) /\ Holds(data, at + 1, name)
      /\ Holds(data, at + (1 + Len(name)), typeName)
  <2>1. Holds(data, at, <<w>> \o name) /\ Holds(data, at + Len(<<w>> \o name), typeName)
    BY <1>2, <1>3, <1>4, HoldsParts DEF writeParameter
  <2>2. Holds(data, at, <<w>>) /\ Holds(data, at + Len(<<w>>), name)
    BY <1>2, <1>3, <1>4, <2>1, HoldsParts
  <2> QED  BY <1>4, <2>1, <2>2, Zenon
<1>6. PICK m \in Nat, n \in Nat : m = Len(name) /\ n = Len(typeName)
  BY <1>2
<1>7. Len(writeParameter(p)) = 1 + m + n
  BY <1>6, WrittenParameter
<1>8. Enough(data, at, 2)
  BY <1>7 DEF Enough
<1>9. Word(data, at) = w
  <2>1. 1 \in 1..Len(<<w>>) /\ <<w>>[1] = w
    OBVIOUS
  <2> HIDE DEF w
  <2> QED  BY <1>5, <2>1 DEF Word, Holds
<1>10. /\ Entry(w, "nameLength") = Len(p.name) /\ Entry(w, "typeNameLength") = Len(p.typeName)
       /\ Entry(w, "size") = p.size /\ Entry(w, "vectorElements") = p.vectorElements
       /\ Entry(w, "addressSpace") = p.addressSpace /\ Flags(w, "flags") = p.flags
  BY DEF Entry, Flags, ParameterWord, ParameterFits
<1>11. readByteContainer(data, at + 1, Len(p.name)) = Read(p.name, at + 1 + m)
  <2>1. at + 1 \in Nat /\ Holds(data, at + 1, name)
    BY <1>5
  <2>2. readByteContainer(data, at + 1, Len(p.name)) = Read(p.name, at + 1 + Len(name))
    BY <1>1, <2>1, TextIsRead
  <2> QED  BY <1>6, <2>2
<1>12. readByteContainer(data, at + 1 + m, Len(p.typeName)) = Read(p.typeName, at + 1 + m + n)
  <2>1. at + (1 + m) = at + 1 + m /\ at + 1 + m \in Nat
    OBVIOUS
  <2>2. Holds(data, at + 1 + m, typeName)
    BY <1>5, <1>6, <2>1
  <2> QED  BY <1>1, <1>6, <2>1, <2>2, TextIsRead
<1> HIDE DEF name, typeName, w
<1>13. readParameter(data, at)
         = Read([size |-> p.size, vectorElements |-> p.vectorElements,
                 addressSpace |-> p.addressSpace, flags |-> p.flags,
                 name |-> p.name, typeName |-> p.typeName], at + 1 + m + n)
  <2>1. Read(p.name, at + 1 + m).next = at + 1 + m /\ Read(p.name, at + 1 + m).item = p.name
    BY DEF Read
  <2>2. Read(p.typeName, at + 1 + m + n).next = at + 1 + m + n /\ Read(p.typeName, at + 1 + m + n).item = p.typeName
    BY DEF Read
  <2> QED  BY <1>8, <1>9, <1>10, <1>11, <1>12, <2>1, <2>2 DEF readParameter
<1>14. p = [size |-> p.size, vectorElements |-> p.vectorElements,
            addressSpace |-> p.addressSpace, flags |-> p.flags,
            name |-> p.name, typeName |-> p.typeName]
  BY DEF ParameterHeaders
<1>15. at + 1 + m + n = at + (1 + m + n)
  OBVIOUS
<1> QED  BY <1>7, <1>13, <1>14, <1>15

\* Metadata with its length in it is read back.
LEMMA MetaDataIsRead ==
    ASSUME NEW payload \in Seq(Nat), Len(payload) >= 2, payload[1] + 256 * payload[2] = Len(payload),
           NEW W, NEW data \in Seq(W), NEW at \in Nat, Holds(data, at, writeByteContainer(payload))
    PROVE  readMetaData(data, at) = Read(payload, at + Len(writeByteContainer(payload)))
<1>1. ByteOf(data, 8 * at) = payload[1] /\ ByteOf(data, 8 * at + 1) = payload[2]
  <2>1. 1 \in 1..Len(payload) /\ 2 \in 1..Len(payload) /\ 8 * at + 1 - 1 = 8 * at /\ 8 * at + 2 - 1 = 8 * at + 1
    OBVIOUS
  <2>2. ByteOf(data, 8 * at + 1 - 1) = payload[1] /\ ByteOf(data, 8 * at + 2 - 1) = payload[2]
    BY <2>1, BytesOfText
  <2> QED  BY <2>1, <2>2
<1>2. Enough(data, at, 1)
  <2>1. Len(writeByteContainer(payload)) = (Len(payload) + 7) \div 8
    BY ByteContainer
  <2>2. (Len(payload) + 7) \div 8 >= 1
    OBVIOUS
  <2> QED  BY <2>1, <2>2 DEF Enough, Holds
<1> QED  BY <1>1, <1>2, TextIsRead DEF readMetaData

-----------------------------------------------------------------------------
ListOf(items, S, n) == n \in Nat /\ items \in Seq(S) /\ Len(items) = n

\* What the reader returns at the places from `first` to `last`.
Chain(reader, items, n, first, last) ==
    \E at : at[0] = first /\ at[n] = last /\ \A i \in 1..n : reader[at[i - 1]] = Read(items[i], at[i])

\* The loop reads the items that lie one after the other.
LEMMA ReadAllFrom ==
    ASSUME NEW reader, NEW S, NEW items, NEW n, NEW first, NEW last,
           ListOf(items, S, n), Chain(reader, items, n, first, last)
    PROVE  ReadAll(reader, first, n) = Read(items, last)
<1>1. PICK at : at[0] = first /\ at[n] = last /\ \A i \in 1..n : reader[at[i - 1]] = Read(items[i], at[i])
  BY DEF Chain
<1>2. \A i \in 1..n : reader[at[i - 1]] = Read(items[i], at[i])
  BY <1>1
<1>3. ASSUME NEW m \in Nat, NEW list \in Seq(S), Len(list) = m,
             \A i \in 1..m : reader[at[i - 1]] = Read(list[i], at[i])
      PROVE  ReadAll(reader, at[0], m) = Read(list, at[m])
  BY <1>3, ReadAllItems
<1>4. ReadAll(reader, at[0], n) = Read(items, at[n])
  BY <1>2, <1>3 DEF ListOf
<1> QED BY <1>1, <1>4, Zenon

\* Whatever lies in the data up to `end` is read as it was written.
ReadsEach(reader, data, items, ss, end) ==
    \A i \in 1..Len(items) : \A a \in Nat :
        Holds(data, a, ss[i]) /\ a + Len(ss[i]) <= end => reader[a] = Read(items[i], a + Len(ss[i]))

\* Several items that lie one after the other, each read as it was written.
LEMMA ItemsAreRead ==
    ASSUME NEW W, NEW data, Len(data) \in Nat, NEW reader, NEW S, NEW items, NEW at \in Nat, NEW ss,
           ListOf(items, S, Len(items)), ListOf(ss, Seq(W), Len(items)), Holds(data, at, FlattenSeq(ss)),
           NEW end, end = at + Len(FlattenSeq(ss)), ReadsEach(reader, data, items, ss, end)
    PROVE  ReadAll(reader, at, Len(items)) = Read(items, end)
<1>0. items \in Seq(S) /\ ss \in Seq(Seq(W)) /\ Len(ss) = Len(items)
  BY DEF ListOf
<1>1. PICK off : Places(ss, Len(ss), FlattenSeq(ss), off)
  BY <1>0, FlattenPlaces
<1>2. PICK n \in Nat : n = Len(items)
  BY <1>0
<1> DEFINE place == [i \in 0..n |-> at + off[i]]
<1>3. ASSUME NEW i \in 1..n
      PROVE  reader[place[i - 1]] = Read(items[i], place[i])
  <2>1. /\ off[i - 1] \in Nat /\ off[i] = off[i - 1] + Len(ss[i])
        /\ Holds(data, at + off[i - 1], ss[i])
        /\ at + off[i] <= end
    BY <1>0, <1>1, <1>2, HoldsPlaces
  <2>2. PICK a \in Nat : a = at + off[i - 1]
    BY <2>1
  <2>3. PICK l \in Nat : l = Len(ss[i])
    BY <1>0, <1>2
  <2>4. at + off[i] = a + l
    BY <2>1, <2>2, <2>3
  <2>5. reader[a] = Read(items[i], a + l)
    BY <1>2, <2>1, <2>2, <2>3, <2>4 DEF ReadsEach
  <2>6. place[i - 1] = a /\ place[i] = a + l
    BY <2>2, <2>4
  <2> QED  BY <2>5, <2>6
<1>4. place[0] = at /\ place[n] = end
  BY <1>0, <1>1, <1>2 DEF Places
<1> HIDE DEF place
<1>5. Chain(reader, items, n, at, end)
  BY <1>3, <1>4 DEF Chain
<1>6. ListOf(items, S, n)
  BY <1>2
<1>7. ReadAll(reader, at, n) = Read(items, end)
  BY <1>5, <1>6, ReadAllFrom
<1> QED  BY <1>2, <1>7

-----------------------------------------------------------------------------
\* The words a kernel's header may consist of.
KernelWordsIn(k, W) ==
    /\ ByteWords \subseteq W
    /\ KernelWords(k) \in Seq(W)
    /\ \A i \in 1..Len(k.parameters) : ParameterWord(k.parameters[i]) \in W

ParameterParts(k) == [p \in 1..Len(k.parameters) |-> writeParameter(k.parameters[p])]
MetaDataParts(k) == [m \in 1..Len(k.metaData) |-> writeByteContainer(k.metaData[m])]

\* The parts of the header of a kernel, one after the other.
LEMMA KernelParts ==
    ASSUME NEW k \in KernelHeaders, NEW W, KernelWordsIn(k, W)
    PROVE  /\ KernelWords(k) \in Seq(W) /\ Len(KernelWords(k)) = 3
           /\ writeByteContainer(k.name) \in Seq(W)
           /\ ParameterParts(k) \in Seq(Seq(W)) /\ Len(ParameterParts(k)) = Len(k.parameters)
           /\ MetaDataParts(k) \in Seq(Seq(W)) /\ Len(MetaDataParts(k)) = Len(k.metaData)
           /\ FlattenSeq(ParameterParts(k)) \in Seq(W) /\ FlattenSeq(MetaDataParts(k)) \in Seq(W)
<1>1. KernelWords(k) \in Seq(W) /\ Len(KernelWords(k)) = 3
  BY DEF KernelWordsIn, KernelWords
<1>2. ByteWords \subseteq W
  BY DEF KernelWordsIn
<1>3. /\ k.name \in Seq(Nat) /\ k.parameters \in Seq(ParameterHeaders) /\ k.metaData \in Seq(Seq(Nat))
  BY DEF KernelHeaders
<1>4. writeByteContainer(k.name) \in Seq(W)
  <2>1. writeByteContainer(k.name) \in Seq(ByteWords)
    BY <1>3, ByteContainer
  <2> QED  BY <1>2, <2>1
<1>5. ParameterParts(k) \in Seq(Seq(W)) /\ Len(ParameterParts(k)) = Len(k.parameters)
  <2>1. ASSUME NEW i \in 1..Len(k.parameters)
        PROVE  writeParameter(k.parameters[i]) \in Seq(W)
    <3>1. k.parameters[i] \in ParameterHeaders
      BY <1>3
    <3>2. ParameterWord(k.parameters[i]) \in W
      BY DEF KernelWordsIn
    <3> QED  BY <1>2, <3>1, <3>2, WrittenParameter
  <2>2. Len(k.parameters) \in Nat /\ ParameterParts(k) \in [1..Len(k.parameters) -> Seq(W)]
    BY <1>3, <2>1 DEF ParameterParts
  <2> QED  BY <2>2, FunctionIsSeq
<1>6. MetaDataParts(k) \in Seq(Seq(W)) /\ Len(MetaDataParts(k)) = Len(k.metaData)
  <2>1. ASSUME NEW i \in 1..Len(k.metaData)
        PROVE  writeByteContainer(k.metaData[i]) \in Seq(W)
    <3>1. k.metaData[i] \in Seq(Nat)
      BY <1>3
    <3>2. writeByteContainer(k.metaData[i]) \in Seq(ByteWords)
      BY <3>1, ByteContainer
    <3> QED  BY <1>2, <3>2
  <2>2. Len(k.metaData) \in Nat /\ MetaDataParts(k) \in [1..Len(k.metaData) -> Seq(W)]
    BY <1>3, <2>1 DEF MetaDataParts
  <2> QED  BY <2>2, FunctionIsSeq
<1>7. FlattenSeq(ParameterParts(k)) \in Seq(W) /\ FlattenSeq(MetaDataParts(k)) \in Seq(W)
  BY <1>5, <1>6, FlattenPlaces
<1> QED  BY <1>1, <1>4, <1>5, <1>6, <1>7

\* The four parts of a kernel's header, and where they lie.
LEMMA WrittenKernel ==
    ASSUME NEW k \in KernelHeaders, NEW W, KernelWordsIn(k, W)
    PROVE  /\ writeKernel(k) \in Seq(W)
           /\ Len(writeKernel(k)) = 3 + Len(writeByteContainer(k.name))
                  + Len(FlattenSeq(ParameterParts(k))) + Len(FlattenSeq(MetaDataParts(k)))
           /\ \A data : \A at \in Nat : Len(data) \in Nat /\ Holds(data, at, writeKernel(k)) =>
                  /\ Holds(data, at, KernelWords(k))
                  /\ Holds(data, at + 3, writeByteContainer(k.name))
                  /\ Holds(data, at + 3 + Len(writeByteContainer(k.name)), FlattenSeq(ParameterParts(k)))
                  /\ Holds(data, at + 3 + Len(writeByteContainer(k.name)) + Len(FlattenSeq(ParameterParts(k))),
                           FlattenSeq(MetaDataParts(k)))
<1>1. PICK a \in Seq(W) : a = KernelWords(k)
  BY KernelParts
<1>2. PICK b \in Seq(W) : b = writeByteContainer(k.name)
  BY KernelParts
<1>3. PICK c \in Seq(W) : c = FlattenSeq(ParameterParts(k))
  BY KernelParts
<1>4. PICK d \in Seq(W) : d = FlattenSeq(MetaDataParts(k))
  BY KernelParts
<1>5. writeKernel(k) = a \o b \o c \o d
  BY <1>1, <1>2, <1>3, <1>4 DEF writeKernel, ParameterParts, MetaDataParts
<1>6. Len(a) = 3
  BY <1>1, KernelParts
<1>7. /\ a \o b \in Seq(W) /\ Len(a \o b) = 3 + Len(b)
      /\ a \o b \o c \in Seq(W) /\ Len(a \o b \o c) = 3 + Len(b) + Len(c)
      /\ a \o b \o c \o d \in Seq(W) /\ Len(a \o b \o c \o d) = 3 + Len(b) + Len(c) + Len(d)
  <2>1. a \o b \in Seq(W) /\ Len(a \o b) = Len(a) + Len(b)
    BY ConcatProperties
  <2>2. a \o b \o c \in Seq(W) /\ Len(a \o b \o c) = Len(a \o b) + Len(c)
    BY <2>1, ConcatProperties
  <2>3. a \o b \o c \o d \in Seq(W) /\ Len(a \o b \o c \o d) = Len(a \o b \o c) + Len(d)
    BY <2>2, ConcatProperties
  <2> QED  BY <1>6, <2>1, <2>2, <2>3
<1>8. ASSUME NEW data, NEW at \in Nat, Len(data) \in Nat, Holds(data, at, a \o b \o c \o d)
      PROVE  /\ Holds(data, at, a) /\ Holds(data, at + 3, b)
             /\ Holds(data, at + 3 + Len(b), c) /\ Holds(data, at + 3 + Len(b) + Len(c), d)
  <2>1. Holds(data, at, a \o b \o c) /\ Holds(data, at + Len(a \o b \o c), d)
    BY <1>7, <1>8, HoldsParts
  <2>2. Holds(data, at, a \o b) /\ Holds(data, at + Len(a \o b), c)
    BY <1>7, <1>8, <2>1, HoldsParts
  <2>3. Holds(data, at, a) /\ Holds(data, at + Len(a), b)
    BY <1>8, <2>2, HoldsParts
  <2>4. at + Len(a \o b \o c) = at + 3 + Len(b) + Len(c) /\ at + Len(a \o b) = at + 3 + Len(b)
    BY <1>7
  <2> QED  BY <1>6, <2>1, <2>2, <2>3, <2>4
<1> QED  BY <1>1, <1>2, <1>3, <1>4, <1>5, <1>7, <1>8

\* The bit fields of a kernel that fits them.
LEMMA KernelFields ==
    ASSUME NEW k \in KernelHeaders, KernelFits(k), NEW first, NEW second, NEW third,
           KernelWords(k) = <<first, second, third>>
    PROVE  /\ Entry(first, "offset") = k.offset /\ Entry(first, "length") = k.length
           /\ Entry(first, "nameLength") = Len(k.name) /\ Entry(first, "paramCount") = Len(k.parameters)
           /\ Sizes(second, "workGroupSize") = k.workGroupSize
           /\ Entry(second, "mergeFactor") = k.mergeFactor
           /\ Flags(third, "uniformsUsed") = k.uniformsUsed
           /\ Entry(third, "metaDataCount") = Len(k.metaData)
<1>1. first = [offset |-> BitField(k.offset, 24), length |-> BitField(k.length, 22),
        nameLength |-> BitField(Len(k.name), 10), paramCount |-> BitField(Len(k.parameters), 8)]
  BY DEF KernelWords
<1>2. second = [workGroupSize |-> [d \in 1..3 |-> BitField(k.workGroupSize[d], 16)],
        mergeFactor |-> BitField(k.mergeFactor, 8)]
  BY DEF KernelWords
<1>3. third = [uniformsUsed |-> k.uniformsUsed, metaDataCount |-> Len(k.metaData)]
  BY DEF KernelWords
<1>4. [d \in 1..3 |-> BitField(k.workGroupSize[d], 16)] = k.workGroupSize
  <2>1. k.workGroupSize \in [1..3 -> Nat]
    BY DEF KernelHeaders
  <2>2. \A d \in 1..3 : BitField(k.workGroupSize[d], 16) = k.workGroupSize[d]
    BY DEF KernelFits
  <2> QED  BY <2>1, <2>2
<1>5. /\ Entry(first, "offset") = k.offset /\ Entry(first, "length") = k.length
      /\ Entry(first, "nameLength") = Len(k.name) /\ Entry(first, "paramCount") = Len(k.parameters)
  BY <1>1 DEF Entry, KernelFits
<1>6. /\ Sizes(second, "workGroupSize") = k.workGroupSize
      /\ Entry(second, "mergeFactor") = k.mergeFactor
  BY <1>2, <1>4 DEF Entry, Sizes, KernelFits
<1>7. /\ Flags(third, "uniformsUsed") = k.uniformsUsed
      /\ Entry(third, "metaDataCount") = Len(k.metaData)
  BY <1>3 DEF Entry, Flags
<1> QED  BY <1>5, <1>6, <1>7

\* The header of a kernel is read back.
LEMMA KernelIsRead ==
    ASSUME NEW k \in KernelHeaders, KernelFits(k), NEW W, KernelWordsIn(k, W),
           NEW data \in Seq(W), NEW at \in Nat, Holds(data, at, writeKernel(k)),
           at + Len(writeKernel(k)) < Len(data)
    PROVE  readKernel(data, at) = Read(k, at + Len(writeKernel(k)))
<1>1. PICK l \in Nat : l = Len(writeByteContainer(k.name))
  BY KernelParts
<1>2. PICK m \in Nat : m = Len(FlattenSeq(ParameterParts(k)))
  BY KernelParts
<1>3. PICK n \in Nat : n = Len(FlattenSeq(MetaDataParts(k)))
  BY KernelParts
<1>4. /\ Len(writeKernel(k)) = 3 + l + m + n
      /\ Holds(data, at, KernelWords(k)) /\ Holds(data, at + 3, writeByteContainer(k.name))
      /\ Holds(data, at + 3 + l, FlattenSeq(ParameterParts(k)))
      /\ Holds(data, at + 3 + l + m, FlattenSeq(MetaDataParts(k)))
  BY <1>1, <1>2, <1>3, WrittenKernel
<1>5. k.name \in Seq(Nat) /\ k.parameters \in Seq(ParameterHeaders) /\ k.metaData \in Seq(Seq(Nat))
  BY DEF KernelHeaders
<1>6. PICK first, second, third :
          /\ KernelWords(k) = <<first, second, third>>
          /\ Word(data, at) = first /\ Word(data, at + 1) = second /\ Word(data, at + 2) = third
  <2>1. PICK first, second, third : KernelWords(k) = <<first, second, third>>
    BY DEF KernelWords
  <2>2. \A j \in 1..3 : data[at + j] = KernelWords(k)[j]
    BY <1>4, KernelParts DEF Holds
  <2>3. data[at + 1] = first /\ data[at + 2] = second /\ data[at + 3] = third
    BY <2>1, <2>2
  <2>4. at + 1 + 1 = at + 2 /\ at + 2 + 1 = at + 3
    OBVIOUS
  <2> QED  BY <2>1, <2>3, <2>4 DEF Word
<1>7. Enough(data, at, 4)
  BY <1>4 DEF Enough
<1>8. readByteContainer(data, at + 3, Len(k.name)) = Read(k.name, at + 3 + l)
  <2>1. at + 3 \in Nat
    OBVIOUS
  <2> QED  BY <1>1, <1>4, <1>5, <2>1, TextIsRead
<1>9. ReadAll([a \in Nat |-> readParameter(data, a)], at + 3 + l, Len(k.parameters))
        = Read(k.parameters, at + 3 + l + m)
  <2> DEFINE reader == [a \in Nat |-> readParameter(data, a)]
             ss == ParameterParts(k)
  <2>1. ss \in Seq(Seq(W)) /\ Len(ss) = Len(k.parameters)
    BY KernelParts
  <2>2. ASSUME NEW i \in 1..Len(k.parameters), NEW a \in Nat, Holds(data, a, ss[i]),
               a + Len(ss[i]) <= at + 3 + l + m
        PROVE  reader[a] = Read(k.parameters[i], a + Len(ss[i]))
    <3>1. k.parameters[i] \in ParameterHeaders /\ ParameterFits(k.parameters[i])
      BY <1>5 DEF KernelFits
    <3>2. ByteWords \subseteq W /\ ParameterWord(k.parameters[i]) \in W
      BY DEF KernelWordsIn
    <3>3. ss[i] = writeParameter(k.parameters[i])
      BY DEF ParameterParts
    <3>4. Len(writeParameter(k.parameters[i])) \in Nat
      BY <3>1, <3>2, WrittenParameter
    <3>5. a + Len(writeParameter(k.parameters[i])) < Len(data)
      BY <1>4, <2>2, <3>3, <3>4
    <3>6. readParameter(data, a) = Read(k.parameters[i], a + Len(writeParameter(k.parameters[i])))
      BY <2>2, <3>1, <3>2, <3>3, <3>5, ParameterIsRead
    <3> QED  BY <3>3, <3>6
  <2> HIDE DEF reader, ss
  <2>3. at + 3 + l \in Nat /\ Len(data) \in Nat
    OBVIOUS
  <2>4. Holds(data, at + 3 + l, FlattenSeq(ss)) /\ Len(FlattenSeq(ss)) = m
    BY <1>2, <1>4 DEF ss
  <2>0. PICK start \in Nat : start = at + 3 + l
    OBVIOUS
  <2>5. PICK end : start = at + 3 + l /\ end = at + 3 + l + m
    BY <2>0
  <2>6. ReadsEach(reader, data, k.parameters, ss, end)
    BY <2>2, <2>5 DEF ReadsEach
  <2>7. ListOf(k.parameters, ParameterHeaders, Len(k.parameters)) /\ ListOf(ss, Seq(W), Len(k.parameters))
    BY <1>5, <2>1 DEF ListOf
  <2>8. Holds(data, start, FlattenSeq(ss)) /\ end = start + Len(FlattenSeq(ss))
    BY <2>4, <2>5
  <2>9. ReadAll(reader, start, Len(k.parameters)) = Read(k.parameters, end)
    BY <2>3, <2>6, <2>7, <2>8, ItemsAreRead
  <2> QED  BY <2>5, <2>9 DEF reader
<1>10. ReadAll([a \in Nat |-> readMetaData(data, a)], at + 3 + l + m, Len(k.metaData))
        = Read(k.metaData, at + 3 + l + m + n)
  <2> DEFINE reader == [a \in Nat |-> readMetaData(data, a)]
             ss == MetaDataParts(k)
  <2>1. ss \in Seq(Seq(W)) /\ Len(ss) = Len(k.metaData)
    BY KernelParts
  <2>2. ASSUME NEW i \in 1..Len(k.metaData), NEW a \in Nat, Holds(data, a, ss[i]),
               a + Len(ss[i]) <= at + 3 + l + m + n
        PROVE  reader[a] = Read(k.metaData[i], a + Len(ss[i]))
    <3>1. k.metaData[i] \in Seq(Nat) /\ MetaDataFits(k.metaData[i])
      BY <1>5 DEF KernelFits
    <3>2. ss[i] = writeByteContainer(k.metaData[i])
      BY DEF MetaDataParts
    <3>3. readMetaData(data, a) = Read(k.metaData[i], a + Len(writeByteContainer(k.metaData[i])))
      BY <2>2, <3>1, <3>2, MetaDataIsRead DEF MetaDataFits
    <3> QED  BY <3>2, <3>3
  <2> HIDE DEF reader, ss
  <2>3. at + 3 + l + m \in Nat /\ Len(data) \in Nat
    OBVIOUS
  <2>4. Holds(data, at + 3 + l + m, FlattenSeq(ss)) /\ Len(FlattenSeq(ss)) = n
    BY <1>3, <1>4 DEF ss
  <2>0. PICK start \in Nat : start = at + 3 + l + m
    OBVIOUS
  <2>5. PICK end : start = at + 3 + l + m /\ end = at + 3 + l + m + n
    BY <2>0
  <2>6. ReadsEach(reader, data, k.metaData, ss, end)
    BY <2>2, <2>5 DEF ReadsEach
  <2>7. ListOf(k.metaData, Seq(Nat), Len(k.metaData)) /\ ListOf(ss, Seq(W), Len(k.metaData))
    BY <1>5, <2>1 DEF ListOf
  <2>8. Holds(data, start, FlattenSeq(ss)) /\ end = start + Len(FlattenSeq(ss))
    BY <2>4, <2>5
  <2>9. ReadAll(reader, start, Len(k.metaData)) = Read(k.metaData, end)
    BY <2>3, <2>6, <2>7, <2>8, ItemsAreRead
  <2> QED  BY <2>5, <2>9 DEF reader
<1>11. readKernel(data, at)
         = Read([offset |-> k.offset, length |-> k.length, workGroupSize |-> k.workGroupSize,
                 mergeFactor |-> k.mergeFactor, uniformsUsed |-> k.uniformsUsed, name |-> k.name,
                 parameters |-> k.parameters, metaData |-> k.metaData], at + 3 + l + m + n)
  <2>1. /\ Entry(first, "offset") = k.offset /\ Entry(first, "length") = k.length
        /\ Entry(first, "nameLength") = Len(k.name) /\ Entry(first, "paramCount") = Len(k.parameters)
        /\ Sizes(second, "workGroupSize") = k.workGroupSize
        /\ Entry(second, "mergeFactor") = k.mergeFactor
        /\ Flags(third, "uniformsUsed") = k.uniformsUsed
        /\ Entry(third, "metaDataCount") = Len(k.metaData)
    BY <1>6, KernelFields
  <2>2. Read(k.name, at + 3 + l).next = at + 3 + l /\ Read(k.name, at + 3 + l).item = k.name
    BY DEF Read
  <2>3. LET r == Read(k.parameters, at + 3 + l + m)
        IN  r.next = at + 3 + l + m /\ r.item = k.parameters /\ r.short = FALSE
    BY DEF Read
  <2>4. LET r == Read(k.metaData, at + 3 + l + m + n)
        IN  r.next = at + 3 + l + m + n /\ r.item = k.metaData /\ r.short = FALSE
    BY DEF Read
  <2> QED  BY <1>6, <1>7, <1>8, <1>9, <1>10, <2>1, <2>2, <2>3, <2>4 DEF readKernel, Read
<1>12. k = [offset |-> k.offset, length |-> k.length, workGroupSize |-> k.workGroupSize,
            mergeFactor |-> k.mergeFactor, uniformsUsed |-> k.uniformsUsed, name |-> k.name,
            parameters |-> k.parameters, metaData |-> k.metaData]
  BY DEF KernelHeaders
<1>13. at + 3 + l + m + n = at + (3 + l + m + n)
  OBVIOUS
<1> QED  BY <1>4, <1>11, <1>12, <1>13

-----------------------------------------------------------------------------
\* The header as extractModuleInfo is to find it.
HeaderOf(m) ==
    [kernels |-> m.kernels, stackFrameSize |-> m.stackWords,
     globalDataOffset |-> Len(KernelSegment(m)) + 3, globalDataSize |-> Len(DataSegment(m))]

KernelSegments(m) == [k \in 1..Len(m.kernels) |-> writeKernel(m.kernels[k])]

ModuleWordsIn(m, W) ==
    /\ MagicNumber \in W /\ Delimiter \in W /\ StackWord \in W /\ ModuleWord(m) \in W
    /\ m.globalData \in Seq(W)
    /\ \A k \in 1..Len(m.kernels) : KernelWordsIn(m.kernels[k], W)

\* There is a set of all the words of a module.
LEMMA ModuleWordsExist ==
    ASSUME NEW m, IsModule(m), NEW C
    PROVE  \E W : ModuleWordsIn(m, W) /\ C \subseteq W
<1> DEFINE P == {ParameterWord(m.kernels[k].parameters[i]) : k \in Nat, i \in Nat}
           K == {KernelWords(m.kernels[k])[i] : k \in Nat, i \in 1..3}
           W == ByteWords \cup DataWords \cup C \cup P \cup K \cup {MagicNumber, Delimiter, StackWord, ModuleWord(m)}
<1>2. m.globalData \in Seq(W)
  BY DEF IsModule
<1>3. m.kernels \in Seq(KernelHeaders)
  BY DEF IsModule
<1>4. ASSUME NEW k \in 1..Len(m.kernels)
      PROVE  KernelWordsIn(m.kernels[k], W)
  <2>1. k \in Nat /\ m.kernels[k] \in KernelHeaders
    BY <1>3
  <2>2. PICK first, second, third : KernelWords(m.kernels[k]) = <<first, second, third>>
    BY DEF KernelWords
  <2>3. first \in K /\ second \in K /\ third \in K
    <3>1. /\ KernelWords(m.kernels[k])[1] = first /\ KernelWords(m.kernels[k])[2] = second
          /\ KernelWords(m.kernels[k])[3] = third
      BY <2>2
    <3>2. 1 \in 1..3 /\ 2 \in 1..3 /\ 3 \in 1..3
      OBVIOUS
    <3> QED  BY <2>1, <3>1, <3>2
  <2>4. KernelWords(m.kernels[k]) \in Seq(W)
    <3>1. first \in W /\ second \in W /\ third \in W
      BY <2>3
    <3> HIDE DEF W
    <3> QED  BY <2>2, <3>1
  <2>5. ASSUME NEW i \in 1..Len(m.kernels[k].parameters)
        PROVE  ParameterWord(m.kernels[k].parameters[i]) \in W
    <3>1. i \in Nat
      BY <2>1 DEF KernelHeaders
    <3>2. ParameterWord(m.kernels[k].parameters[i]) \in P
      BY <2>1, <3>1
    <3> QED  BY <3>2
  <2>6. ByteWords \subseteq W
    OBVIOUS
  <2> HIDE DEF W
  <2> QED  BY <2>4, <2>5, <2>6 DEF KernelWordsIn
<1>5. MagicNumber \in W /\ Delimiter \in W /\ StackWord \in W /\ ModuleWord(m) \in W /\ C \subseteq W
  OBVIOUS
<1> HIDE DEF W
<1>6. ModuleWordsIn(m, W)
  BY <1>2, <1>4, <1>5 DEF ModuleWordsIn
<1> QED  BY <1>5, <1>6

\* The kernels and the global data of a module.
LEMMA ModuleParts ==
    ASSUME NEW m, IsModule(m), NEW W, ModuleWordsIn(m, W)
    PROVE  /\ KernelSegments(m) \in Seq(Seq(W)) /\ Len(KernelSegments(m)) = Len(m.kernels)
           /\ KernelSegment(m) = FlattenSeq(KernelSegments(m)) /\ KernelSegment(m) \in Seq(W)
           /\ DataSegment(m) \in Seq(W) /\ Len(DataSegment(m)) = Len(m.globalData) + m.stackWords
<1>1. m.kernels \in Seq(KernelHeaders) /\ m.stackWords \in Nat
  BY DEF IsModule
<1>2. KernelSegments(m) \in Seq(Seq(W)) /\ Len(KernelSegments(m)) = Len(m.kernels)
  <2>1. ASSUME NEW k \in 1..Len(m.kernels)
        PROVE  writeKernel(m.kernels[k]) \in Seq(W)
    <3>1. m.kernels[k] \in KernelHeaders
      BY <1>1
    <3>2. KernelWordsIn(m.kernels[k], W)
      BY DEF ModuleWordsIn
    <3> QED  BY <3>1, <3>2, WrittenKernel
  <2>2. Len(m.kernels) \in Nat /\ KernelSegments(m) \in [1..Len(m.kernels) -> Seq(W)]
    BY <1>1, <2>1 DEF KernelSegments
  <2> QED  BY <2>2, FunctionIsSeq
<1>3. KernelSegment(m) = FlattenSeq(KernelSegments(m))
  BY DEF KernelSegment, KernelSegments
<1>4. KernelSegment(m) \in Seq(W)
  BY <1>2, <1>3, FlattenPlaces
<1>5. DataSegment(m) \in Seq(W) /\ Len(DataSegment(m)) = Len(m.globalData) + m.stackWords
  <2> DEFINE stack == [w \in 1..m.stackWords |-> StackWord]
  <2>1. stack \in [1..m.stackWords -> W]
    BY DEF ModuleWordsIn
  <2>2. stack \in Seq(W) /\ Len(stack) = m.stackWords
    BY <1>1, <2>1, FunctionIsSeq
  <2>3. m.globalData \in Seq(W)
    BY DEF ModuleWordsIn
  <2> HIDE DEF stack
  <2>4. m.globalData \o stack \in Seq(W) /\ Len(m.globalData \o stack) = Len(m.globalData) + Len(stack)
    BY <2>2, <2>3, ConcatProperties
  <2> QED  BY <2>2, <2>4 DEF DataSegment, stack
<1> QED  BY <1>2, <1>3, <1>4, <1>5

\* Data is in itself.
LEMMA HoldsItself ==
    ASSUME NEW W, NEW data \in Seq(W)
    PROVE  Holds(data, 0, data)
<1>1. 0 + Len(data) <= Len(data) /\ \A j \in 1..Len(data) : 0 + j = j
  OBVIOUS
<1> QED  BY <1>1 DEF Holds

\* Where the parts of a module lie in its binary, which the code of the kernels follows.
LEMMA WrittenModule ==
    ASSUME NEW m, IsModule(m), NEW W, ModuleWordsIn(m, W), NEW code \in Seq(W),
           NEW data, data = writeModule(m) \o code
    PROVE  /\ data \in Seq(W) /\ writeModule(m) \in Seq(W)
           /\ Len(writeModule(m)) = 4 + Len(KernelSegment(m)) + Len(DataSegment(m))
           /\ Len(data) = Len(writeModule(m)) + Len(code)
           /\ data[1] = MagicNumber /\ data[2] = ModuleWord(m)
           /\ Holds(data, 2, KernelSegment(m))
           /\ Holds(data, 3 + Len(KernelSegment(m)), DataSegment(m))
           /\ Holds(data, Len(writeModule(m)), code)
<1>0. MagicNumber \in W /\ ModuleWord(m) \in W /\ Delimiter \in W
  BY DEF ModuleWordsIn
<1>1. PICK a \in Seq(W) : a = <<MagicNumber, ModuleWord(m)>>
  <2>1. <<MagicNumber, ModuleWord(m)>> \in Seq(W)
    BY <1>0
  <2> QED  BY <2>1
<1>2. PICK b \in Seq(W) : b = KernelSegment(m)
  BY ModuleParts
<1>3. PICK c \in Seq(W) : c = <<Delimiter>>
  <2>1. <<Delimiter>> \in Seq(W)
    BY <1>0
  <2> QED  BY <2>1
<1>4. PICK d \in Seq(W) : d = DataSegment(m)
  BY ModuleParts
<1>5. writeModule(m) = a \o b \o c \o d \o c
  BY <1>1, <1>2, <1>3, <1>4 DEF writeModule
<1>6. Len(a) = 2 /\ a[1] = MagicNumber /\ a[2] = ModuleWord(m) /\ Len(c) = 1
  BY <1>1, <1>3
<1>7. PICK l \in Nat, n \in Nat : l = Len(b) /\ n = Len(d)
  OBVIOUS
<1>8. a \o b \in Seq(W) /\ Len(a \o b) = 2 + l
  <2>1. a \o b \in Seq(W) /\ Len(a \o b) = Len(a) + Len(b)
    BY ConcatProperties
  <2> QED  BY <1>6, <1>7, <2>1
<1>9. a \o b \o c \in Seq(W) /\ Len(a \o b \o c) = 3 + l
  <2>1. a \o b \o c \in Seq(W) /\ Len(a \o b \o c) = Len(a \o b) + Len(c)
    BY <1>8, ConcatProperties
  <2> QED  BY <1>6, <1>8, <2>1
<1>10. a \o b \o c \o d \in Seq(W) /\ Len(a \o b \o c \o d) = 3 + l + n
  <2>1. a \o b \o c \o d \in Seq(W) /\ Len(a \o b \o c \o d) = Len(a \o b \o c) + Len(d)
    BY <1>9, ConcatProperties
  <2> QED  BY <1>7, <1>9, <2>1
<1>11. writeModule(m) \in Seq(W) /\ Len(writeModule(m)) = 4 + l + n
  <2>1. writeModule(m) \in Seq(W) /\ Len(writeModule(m)) = Len(a \o b \o c \o d) + Len(c)
    BY <1>5, <1>10, ConcatProperties
  <2> QED  BY <1>6, <1>10, <2>1
<1>12. data \in Seq(W) /\ Len(data) = Len(writeModule(m)) + Len(code) /\ Len(data) \in Nat
  <2>1. writeModule(m) \o code \in Seq(W) /\ Len(writeModule(m) \o code) = Len(writeModule(m)) + Len(code)
    BY <1>11, ConcatProperties
  <2> QED  BY <2>1
<1>13. Holds(data, 0, writeModule(m)) /\ Holds(data, 0 + Len(writeModule(m)), code)
  <2>1. Holds(data, 0, writeModule(m) \o code)
    BY <1>12, HoldsItself
  <2> QED  BY <1>11, <1>12, <2>1, HoldsParts
<1>14. Holds(data, 0, a \o b \o c \o d)
  <2>1. Holds(data, 0, (a \o b \o c \o d) \o c)
    BY <1>5, <1>13
  <2> QED  BY <1>10, <1>12, <2>1, HoldsParts
<1>15. Holds(data, 0, a \o b \o c) /\ Holds(data, 0 + (3 + l), d)
  BY <1>9, <1>12, <1>14, HoldsParts
<1>16. Holds(data, 0, a \o b)
  BY <1>8, <1>12, <1>15, HoldsParts
<1>17. Holds(data, 0, a) /\ Holds(data, 0 + 2, b)
  BY <1>6, <1>12, <1>16, HoldsParts
<1>18. data[1] = MagicNumber /\ data[2] = ModuleWord(m)
  <2>1. 1 \in 1..Len(a) /\ 2 \in 1..Len(a) /\ 0 + 1 = 1 /\ 0 + 2 = 2
    BY <1>6
  <2>2. data[1] = a[1] /\ data[2] = a[2]
    BY <1>17, <2>1 DEF Holds
  <2> QED  BY <1>6, <2>2
<1>19. 0 + 2 = 2 /\ 0 + (3 + l) = 3 + l /\ 0 + Len(writeModule(m)) = Len(writeModule(m))
  BY <1>11
<1> QED  BY <1>2, <1>4, <1>7, <1>11, <1>12, <1>13, <1>15, <1>17, <1>18, <1>19

\* The bit fields of a module that fits them.
LEMMA ModuleFields ==
    ASSUME NEW m, ModuleFits(m)
    PROVE  LET w == ModuleWord(m) IN
           /\ Entry(w, "kernelCount") = Len(m.kernels) /\ Entry(w, "stackFrameSize") = m.stackWords
           /\ Entry(w, "globalDataOffset") = Len(KernelSegment(m)) + 3
           /\ Entry(w, "globalDataSize") = Len(DataSegment(m))
BY DEF ModuleFits, ModuleWord, Entry

\* The kernels of a module, from wherever they lie.
LEMMA KernelsAreRead ==
    ASSUME NEW m, IsModule(m), ModuleFits(m), NEW W, ModuleWordsIn(m, W), NEW data \in Seq(W),
           NEW start \in Nat, Holds(data, start, KernelSegment(m)),
           start + Len(KernelSegment(m)) < Len(data)
    PROVE  ReadAll([a \in Nat |-> readKernel(data, a)], start, Len(m.kernels))
               = Read(m.kernels, start + Len(KernelSegment(m)))
<1> DEFINE reader == [a \in Nat |-> readKernel(data, a)]
           ss == KernelSegments(m)
<1>1. ss \in Seq(Seq(W)) /\ Len(ss) = Len(m.kernels) /\ KernelSegment(m) = FlattenSeq(ss)
  BY ModuleParts
<1>2. m.kernels \in Seq(KernelHeaders)
  BY DEF IsModule
<1>3. PICK l \in Nat : l = Len(KernelSegment(m))
  BY ModuleParts
<1>4. ASSUME NEW i \in 1..Len(m.kernels), NEW a \in Nat, Holds(data, a, ss[i]),
             a + Len(ss[i]) <= start + l
      PROVE  reader[a] = Read(m.kernels[i], a + Len(ss[i]))
  <2>1. m.kernels[i] \in KernelHeaders /\ KernelFits(m.kernels[i])
    BY <1>2 DEF ModuleFits
  <2>2. KernelWordsIn(m.kernels[i], W)
    BY DEF ModuleWordsIn
  <2>3. ss[i] = writeKernel(m.kernels[i])
    BY DEF KernelSegments
  <2>4. Len(writeKernel(m.kernels[i])) \in Nat
    BY <2>1, <2>2, WrittenKernel
  <2>5. a + Len(writeKernel(m.kernels[i])) < Len(data)
    BY <1>3, <1>4, <2>3, <2>4
  <2>6. readKernel(data, a) = Read(m.kernels[i], a + Len(writeKernel(m.kernels[i])))
    BY <1>4, <2>1, <2>2, <2>3, <2>5, KernelIsRead
  <2> QED  BY <2>3, <2>6
<1> HIDE DEF reader, ss
<1>5. PICK end : end = start + l
  OBVIOUS
<1>6. ReadsEach(reader, data, m.kernels, ss, end)
  BY <1>4, <1>5 DEF ReadsEach
<1>7. ListOf(m.kernels, KernelHeaders, Len(m.kernels)) /\ ListOf(ss, Seq(W), Len(m.kernels))
  BY <1>1, <1>2 DEF ListOf
<1>8. Holds(data, start, FlattenSeq(ss)) /\ end = start + Len(FlattenSeq(ss))
  BY <1>1, <1>3, <1>5
<1>9. ReadAll(reader, start, Len(m.kernels)) = Read(m.kernels, end)
  <2>1. Len(data) \in Nat
    OBVIOUS
  <2> QED  BY <1>6, <1>7, <1>8, <2>1, ItemsAreRead
<1> QED  BY <1>3, <1>5, <1>9 DEF reader

\* The round trip: what extractModuleInfo reads from the binary of a module is the
\* header the compiler wrote, and its data segment is where the header says.
LEMMA ModuleIsRead ==
    ASSUME NEW m, IsModule(m), ModuleFits(m), NEW C, NEW code \in Seq(C),
           NEW data, data = writeModule(m) \o code
    PROVE  /\ readModule(data) = Read(HeaderOf(m), 2 + Len(KernelSegment(m)))
           /\ SubSeq(data, HeaderOf(m).globalDataOffset + 1,
                     HeaderOf(m).globalDataOffset + HeaderOf(m).globalDataSize) = DataSegment(m)
<1>1. PICK W : ModuleWordsIn(m, W) /\ C \subseteq W
  BY ModuleWordsExist
<1>2. code \in Seq(W)
  BY <1>1
<1>3. PICK l \in Nat : l = Len(KernelSegment(m))
  BY <1>1, ModuleParts
<1>4. PICK n \in Nat : n = Len(DataSegment(m))
  BY <1>1, ModuleParts
<1>5. /\ data \in Seq(W) /\ Len(data) = 4 + l + n + Len(code)
      /\ data[1] = MagicNumber /\ data[2] = ModuleWord(m)
      /\ Holds(data, 2, KernelSegment(m)) /\ Holds(data, 3 + l, DataSegment(m))
  <2>1. /\ data \in Seq(W) /\ Len(writeModule(m)) = 4 + l + n /\ Len(data) = Len(writeModule(m)) + Len(code)
        /\ data[1] = MagicNumber /\ data[2] = ModuleWord(m)
    BY <1>1, <1>2, <1>3, <1>4, WrittenModule
  <2>2. Holds(data, 2, KernelSegment(m)) /\ Holds(data, 3 + Len(KernelSegment(m)), DataSegment(m))
    BY <1>1, <1>2, WrittenModule
  <2> QED  BY <1>3, <2>1, <2>2
<1>6. Len(code) \in Nat /\ Len(data) \in Nat /\ 2 + l < Len(data) /\ ~(Len(data) < 2)
  BY <1>2, <1>5
<1>7. ReadAll([a \in Nat |-> readKernel(data, a)], 2, Len(m.kernels)) = Read(m.kernels, 2 + l)
  <2>1. PICK start \in Nat : start = 2
    OBVIOUS
  <2>2. Holds(data, start, KernelSegment(m)) /\ start + Len(KernelSegment(m)) < Len(data)
    BY <1>3, <1>5, <1>6, <2>1
  <2>3. ReadAll([a \in Nat |-> readKernel(data, a)], start, Len(m.kernels))
           = Read(m.kernels, start + Len(KernelSegment(m)))
    BY <1>1, <1>5, <2>2, KernelsAreRead
  <2> QED  BY <1>3, <2>1, <2>3
<1>8. readModule(data) = Read(HeaderOf(m), 2 + l)
  <2>1. Word(data, 1) = ModuleWord(m)
    BY <1>5 DEF Word
  <2>2. LET r == Read(m.kernels, 2 + l) IN r.item = m.kernels /\ r.next = 2 + l /\ r.short = FALSE
    BY DEF Read
  <2>3. LET w == ModuleWord(m) IN
           /\ Entry(w, "kernelCount") = Len(m.kernels) /\ Entry(w, "stackFrameSize") = m.stackWords
           /\ Entry(w, "globalDataOffset") = Len(KernelSegment(m)) + 3
           /\ Entry(w, "globalDataSize") = Len(DataSegment(m))
    BY ModuleFields
  <2> QED  BY <1>6, <1>7, <2>1, <2>2, <2>3 DEF readModule, HeaderOf, Read
<1>9. SubSeq(data, 3 + l + 1, 3 + l + n) = DataSegment(m)
  <2>1. DataSegment(m) \in Seq(W)
    BY <1>1, ModuleParts
  <2>2. \A j \in 1..n : data[3 + l + j] = DataSegment(m)[j]
    BY <1>4, <1>5 DEF Holds
  <2>3. SubSeq(data, 3 + l + 1, 3 + l + n) \in Seq(W) /\ Len(SubSeq(data, 3 + l + 1, 3 + l + n)) = n
    BY <1>5, <1>6
  <2>4. \A j \in 1..n : SubSeq(data, 3 + l + 1, 3 + l + n)[j] = data[3 + l + j]
    BY <1>5, <1>6
  <2> QED  BY <1>4, <2>1, <2>2, <2>3, <2>4, SeqEqual
<1>10. HeaderOf(m).globalDataOffset = 3 + l /\ HeaderOf(m).globalDataSize = n
  BY <1>3, <1>4 DEF HeaderOf
<1> QED  BY <1>3, <1>8, <1>9, <1>10

\* The first index is one of them, and none is before it.
LEMMA FirstOfIs ==
    ASSUME NEW I \in SUBSET Nat, I # {}
    PROVE  FirstOf(I) \in I /\ \A j \in I : FirstOf(I) <= j
<1>1. \E i \in I : \A j \in I : i <= j
  BY LeastNatural
<1> QED  BY <1>1, Zenon DEF FirstOf

IsSelection(f, list, I) ==
    f = [i \in 0..Len(list) |->
            IF i = 0 THEN <<>> ELSE IF i \in I THEN Append(f[i - 1], list[i]) ELSE f[i - 1]]

\* The same, of the first n elements.
IsSelectionTo(f, list, I, n) ==
    f = [i \in 0..n |->
            IF i = 0 THEN <<>> ELSE IF i \in I THEN Append(f[i - 1], list[i]) ELSE f[i - 1]]

\* The selections of the first elements.
LEMMA SelectionExists ==
    ASSUME NEW list, NEW I, NEW n \in Nat
    PROVE  \E f : IsSelectionTo(f, list, I, n)
<1> DEFINE T == {k \in Nat : \E f : IsSelectionTo(f, list, I, k)}
<1>1. 0 \in T
  <2> DEFINE f == [i \in 0..0 |-> <<>>]
  <2>1. IsSelectionTo(f, list, I, 0)
    BY DEF IsSelectionTo
  <2> QED  BY <2>1
<1>2. ASSUME NEW k \in Nat, k \in T
      PROVE  k + 1 \in T
  <2>1. PICK f : IsSelectionTo(f, list, I, k)
    BY <1>2
  <2> DEFINE last == IF k + 1 \in I THEN Append(f[k], list[k + 1]) ELSE f[k]
             g == [i \in 0..(k + 1) |-> IF i <= k THEN f[i] ELSE last]
  <2>2. ASSUME NEW i \in 0..(k + 1)
        PROVE  g[i] = IF i = 0 THEN <<>> ELSE IF i \in I THEN Append(g[i - 1], list[i]) ELSE g[i - 1]
    <3>1. CASE i = 0
      BY <2>1, <3>1 DEF IsSelectionTo
    <3>2. CASE i # 0 /\ i <= k
      <4>1. i - 1 \in 0..k /\ i - 1 \in 0..(k + 1) /\ i - 1 <= k /\ i \in 0..k
        BY <3>2
      <4> HIDE DEF last
      <4> QED  BY <2>1, <3>2, <4>1 DEF IsSelectionTo
    <3>3. CASE i = k + 1
      <4>1. i - 1 = k /\ i # 0 /\ ~(i <= k) /\ k \in 0..(k + 1) /\ k <= k
        BY <3>3
      <4>2. g[i] = last /\ g[k] = f[k]
        BY <3>3, <4>1
      <4> HIDE DEF g
      <4> QED  BY <3>3, <4>1, <4>2
    <3> QED  BY <3>1, <3>2, <3>3
  <2>3. IsSelectionTo(g, list, I, k + 1)
    BY <2>2 DEF IsSelectionTo
  <2> QED  BY <2>3
<1> HIDE DEF T
<1>3. n \in T
  BY <1>1, <1>2, SetInduction
<1> QED  BY <1>3 DEF T

\* Selected is the last of them.
LEMMA SelectedIs ==
    ASSUME NEW S, NEW list \in Seq(S), NEW I
    PROVE  \E f : IsSelection(f, list, I) /\ Selected(list, I) = f[Len(list)]
<1> DEFINE F == CHOOSE f : IsSelection(f, list, I)
<1>1. \E f : IsSelection(f, list, I)
  <2>1. PICK f : IsSelectionTo(f, list, I, Len(list))
    <3>1. Len(list) \in Nat
      OBVIOUS
    <3> QED  BY <3>1, SelectionExists
  <2> QED  BY <2>1 DEF IsSelectionTo, IsSelection
<1>2. IsSelection(F, list, I)
  BY <1>1, Zenon
<1>3. Selected(list, I) = F[Len(list)]
  BY Zenon DEF Selected, IsSelection
<1> QED  BY <1>2, <1>3

\* The elements at the same indices of two lists stand at the same places of the selection.
LEMMA SelectedAlike ==
    ASSUME NEW S, NEW T, NEW a \in Seq(S), NEW b \in Seq(T), Len(a) = Len(b), NEW I
    PROVE  /\ Selected(a, I) \in Seq(S) /\ Selected(b, I) \in Seq(T)
           /\ Len(Selected(a, I)) = Len(Selected(b, I))
           /\ \A n \in 1..Len(Selected(a, I)) : \E i \in 1..Len(a) :
                  i \in I /\ Selected(a, I)[n] = a[i] /\ Selected(b, I)[n] = b[i]
<1>1. PICK f : IsSelection(f, a, I) /\ Selected(a, I) = f[Len(a)]
  BY SelectedIs
<1>2. PICK g : IsSelection(g, b, I) /\ Selected(b, I) = g[Len(b)]
  BY SelectedIs
<1>3. PICK l \in Nat : l = Len(a)
  OBVIOUS
<1> DEFINE Alike(s, t) ==
               /\ s \in Seq(S) /\ t \in Seq(T) /\ Len(s) = Len(t)
               /\ \A n \in 1..Len(s) : \E i \in 1..l : i \in I /\ s[n] = a[i] /\ t[n] = b[i]
           K == {k \in Nat : k <= l => Alike(f[k], g[k])}
<1>4. 0 \in K
  <2>1. f[0] = <<>> /\ g[0] = <<>>
    BY <1>1, <1>2, <1>3 DEF IsSelection
  <2>2. <<>> \in Seq(S) /\ <<>> \in Seq(T) /\ Len(<<>>) = 0
    OBVIOUS
  <2>3. f[0] \in Seq(S) /\ g[0] \in Seq(T) /\ Len(f[0]) = 0 /\ Len(g[0]) = 0
    BY <2>1, <2>2, Zenon
  <2>4. Alike(f[0], g[0])
    BY <2>3
  <2> HIDE DEF Alike
  <2> QED  BY <2>4
<1>5. ASSUME NEW k \in Nat, k \in K
      PROVE  k + 1 \in K
  <2> SUFFICES ASSUME k + 1 <= l PROVE Alike(f[k + 1], g[k + 1])
    OBVIOUS
  <2>1. Alike(f[k], g[k])
    BY <1>5
  <2>2. PICK s \in Seq(S) : s = f[k]
    BY <2>1
  <2>3. PICK t \in Seq(T) : t = g[k]
    BY <2>1
  <2>4. Alike(s, t)
    BY <2>1, <2>2, <2>3
  <2>5. k + 1 \in 1..l /\ k + 1 \in 0..l /\ k + 1 # 0 /\ (k + 1) - 1 = k
    OBVIOUS
  <2>6. f[k + 1] = IF k + 1 \in I THEN Append(s, a[k + 1]) ELSE s
    BY <1>1, <1>3, <2>2, <2>5 DEF IsSelection
  <2>7. g[k + 1] = IF k + 1 \in I THEN Append(t, b[k + 1]) ELSE t
    BY <1>2, <1>3, <2>3, <2>5 DEF IsSelection
  <2>8. CASE k + 1 \in I
    <3>1. a[k + 1] \in S /\ b[k + 1] \in T
      BY <1>3, <2>5
    <3>2. PICK x \in S, y \in T : x = a[k + 1] /\ y = b[k + 1]
      BY <3>1
    <3>3. /\ Append(s, x) \in Seq(S) /\ Append(t, y) \in Seq(T)
          /\ Len(Append(s, x)) = Len(s) + 1 /\ Len(Append(t, y)) = Len(t) + 1
          /\ \A n \in 1..Len(s) : Append(s, x)[n] = s[n]
          /\ \A n \in 1..Len(t) : Append(t, y)[n] = t[n]
          /\ Append(s, x)[Len(s) + 1] = x /\ Append(t, y)[Len(t) + 1] = y
      OBVIOUS
    <3>4. ASSUME NEW n \in 1..(Len(s) + 1)
          PROVE  \E i \in 1..l : i \in I /\ Append(s, x)[n] = a[i] /\ Append(t, y)[n] = b[i]
      <4>1. CASE n = Len(s) + 1
        BY <2>4, <2>5, <2>8, <3>2, <3>3, <4>1
      <4>2. CASE n \in 1..Len(s)
        <5>1. PICK i \in 1..l : i \in I /\ s[n] = a[i] /\ t[n] = b[i]
          BY <2>4, <4>2
        <5>2. n \in 1..Len(t)
          BY <2>4, <4>2
        <5>3. Append(s, x)[n] = a[i] /\ Append(t, y)[n] = b[i]
          BY <3>3, <4>2, <5>1, <5>2
        <5> QED  BY <5>1, <5>3
      <4>3. PICK m \in Nat : m = Len(s)
        OBVIOUS
      <4>4. n = m + 1 \/ n \in 1..m
        BY <4>3
      <4> QED  BY <4>1, <4>2, <4>3, <4>4
    <3>5. Alike(Append(s, x), Append(t, y))
      BY <2>4, <3>3, <3>4
    <3> HIDE DEF Alike
    <3> QED  BY <2>6, <2>7, <2>8, <3>2, <3>5
  <2>9. CASE k + 1 \notin I
    <3> HIDE DEF Alike
    <3> QED  BY <2>4, <2>6, <2>7, <2>9
  <2> QED  BY <2>8, <2>9
<1> HIDE DEF K
<1>6. l \in K
  BY <1>4, <1>5, SetInduction
<1>7. Alike(f[l], g[l])
  BY <1>6 DEF K
<1> QED  BY <1>1, <1>2, <1>3, <1>7

-----------------------------------------------------------------------------
\* A byte and what is left after it.
LEMMA By256 ==
    ASSUME NEW n \in Nat
    PROVE  \E q \in Nat, r \in 0..255 : n = 256 * q + r /\ Shifted(n) = q /\ n % 256 = r
<1>1. n \div 256 \in Nat /\ n % 256 \in 0..255
  OBVIOUS
<1>2. n = 256 * (n \div 256) + (n % 256)
  OBVIOUS
<1> QED BY <1>1, <1>2 DEF Shifted

\* The elements of two sequences one after the other.
LEMMA ConcatAt ==
    ASSUME NEW S, NEW a \in Seq(S), NEW b \in Seq(S)
    PROVE  /\ a \o b \in Seq(S) /\ Len(a \o b) = Len(a) + Len(b)
           /\ \A i \in 1..Len(a) : (a \o b)[i] = a[i]
           /\ \A i \in (Len(a) + 1)..(Len(a) + Len(b)) : (a \o b)[i] = b[i - Len(a)]
<1>1. PICK m \in Nat, n \in Nat : m = Len(a) /\ n = Len(b)
  OBVIOUS
<1>2. a \o b \in Seq(S) /\ Len(a \o b) = m + n
  BY <1>1, ConcatProperties
<1>3. \A i \in 1..(m + n) : (a \o b)[i] = IF i <= m THEN a[i] ELSE b[i - m]
  BY <1>1, ConcatProperties
<1> DEFINE c == a \o b
<1> HIDE DEF c
<1>4. \A i \in 1..(m + n) : c[i] = IF i <= m THEN a[i] ELSE b[i - m]
  BY <1>3 DEF c
<1>5. \A i \in 1..m : i \in 1..(m + n) /\ i <= m
  OBVIOUS
<1>6. \A i \in (m + 1)..(m + n) : i \in 1..(m + n) /\ ~(i <= m)
  OBVIOUS
<1>7. \A i \in 1..m : c[i] = a[i]
  BY <1>4, <1>5
<1>8. \A i \in (m + 1)..(m + n) : c[i] = b[i - m]
  BY <1>4, <1>6
<1> QED  BY <1>1, <1>2, <1>7, <1>8 DEF c

\* LittleEndian writes four bytes.
LEMMA FourBytes ==
    ASSUME NEW v \in Nat
    PROVE  \E e \in Nat : \E b, d, f, g \in 0..255 :
               /\ v = b + 256 * (d + 256 * (f + 256 * e)) /\ Shifted(Shifted(Shifted(v))) = e
               /\ LittleEndian(v) = <<b, d, f, g>> /\ g = e % 256
<1>1. PICK a \in Nat, b \in 0..255 : v = 256 * a + b /\ Shifted(v) = a /\ v % 256 = b
  BY By256
<1>2. PICK c \in Nat, d \in 0..255 : a = 256 * c + d /\ Shifted(a) = c /\ a % 256 = d
  BY By256
<1>3. PICK e \in Nat, f \in 0..255 : c = 256 * e + f /\ Shifted(c) = e /\ c % 256 = f
  BY By256
<1>4. PICK g \in 0..255 : g = e % 256
  BY By256
<1>5. v = b + 256 * (d + 256 * (f + 256 * e)) /\ Shifted(Shifted(Shifted(v))) = e
  BY <1>1, <1>2, <1>3
<1>6. LittleEndian(v) = <<b, d, f, g>>
  <2>1. v % 256 = b /\ Shifted(v) % 256 = d
    BY <1>1, <1>2
  <2>2. Shifted(Shifted(v)) % 256 = f /\ Shifted(Shifted(Shifted(v))) % 256 = g
    BY <1>1, <1>2, <1>3, <1>4
  <2> QED  BY <2>1, <2>2 DEF LittleEndian
<1> DEFINE Bytes(b1, d1, f1, g1, e1) ==
               /\ v = b1 + 256 * (d1 + 256 * (f1 + 256 * e1)) /\ Shifted(Shifted(Shifted(v))) = e1
               /\ LittleEndian(v) = <<b1, d1, f1, g1>> /\ g1 = e1 % 256
<1>7. Bytes(b, d, f, g, e)
  BY <1>4, <1>5, <1>6
<1> HIDE DEF Bytes
<1>8. \E e1 \in Nat : \E b1, d1, f1, g1 \in 0..255 : Bytes(b1, d1, f1, g1, e1)
  BY <1>7
<1> QED  BY <1>8 DEF Bytes

\* FromLittleEndian puts four bytes together.
LEMMA WordFromBytes ==
    ASSUME NEW v, IsWord(v), NEW s, NEW at,
           s[at] = LittleEndian(v)[1], s[at + 1] = LittleEndian(v)[2],
           s[at + 2] = LittleEndian(v)[3], s[at + 3] = LittleEndian(v)[4]
    PROVE  FromLittleEndian(s, at) = v
<1>1. v \in Nat /\ Shifted(Shifted(Shifted(v))) < 256
  BY DEF IsWord
<1>2. PICK e \in Nat : \E b, d, f, g \in 0..255 :
               /\ v = b + 256 * (d + 256 * (f + 256 * e)) /\ Shifted(Shifted(Shifted(v))) = e
               /\ LittleEndian(v) = <<b, d, f, g>> /\ g = e % 256
  BY <1>1, FourBytes
<1>3. PICK b, d, f, g \in 0..255 :
               /\ v = b + 256 * (d + 256 * (f + 256 * e)) /\ Shifted(Shifted(Shifted(v))) = e
               /\ LittleEndian(v) = <<b, d, f, g>> /\ g = e % 256
  BY <1>2
<1>4. e < 256
  BY <1>1, <1>3
<1>5. g = e
  BY <1>3, <1>4
<1>6. s[at] = b /\ s[at + 1] = d /\ s[at + 2] = f /\ s[at + 3] = e
  BY <1>3, <1>5
<1>7. FromLittleEndian(s, at) = b + 256 * (d + 256 * (f + 256 * e))
  BY <1>6 DEF FromLittleEndian
<1> QED  BY <1>3, <1>7

\* A 32-bit number is read back from its bytes.
LEMMA LittleEndianIs ==
    ASSUME NEW v \in Nat
    PROVE  LittleEndian(v) \in Seq(Nat) /\ Len(LittleEndian(v)) = 4
<1>1. PICK e \in Nat : \E b, d, f, g \in 0..255 :
               /\ v = b + 256 * (d + 256 * (f + 256 * e)) /\ Shifted(Shifted(Shifted(v))) = e
               /\ LittleEndian(v) = <<b, d, f, g>> /\ g = e % 256
  BY FourBytes
<1>2. PICK b, d, f, g \in 0..255 : LittleEndian(v) = <<b, d, f, g>>
  BY <1>1
<1> QED  BY <1>2

\* A number is read from the bytes it was appended as.
LEMMA AppendedWord ==
    ASSUME NEW h \in Seq(Nat), NEW w \in Seq(Nat), Len(w) = 4, NEW m \in Nat, m = Len(h)
    PROVE  /\ h \o w \in Seq(Nat) /\ Len(h \o w) = m + 4
           /\ \A i \in 1..m : (h \o w)[i] = h[i]
           /\ (h \o w)[m + 1] = w[1] /\ (h \o w)[m + 2] = w[2]
           /\ (h \o w)[m + 3] = w[3] /\ (h \o w)[m + 4] = w[4]
<1> DEFINE c == h \o w
<1>1. /\ c \in Seq(Nat) /\ Len(c) = m + 4
      /\ \A i \in 1..m : c[i] = h[i]
      /\ \A i \in (m + 1)..(m + 4) : c[i] = w[i - m]
  <2>1. /\ h \o w \in Seq(Nat) /\ Len(h \o w) = Len(h) + Len(w)
        /\ \A i \in 1..Len(h) : (h \o w)[i] = h[i]
        /\ \A i \in (Len(h) + 1)..(Len(h) + Len(w)) : (h \o w)[i] = w[i - Len(h)]
    BY ConcatAt
  <2> QED  BY <2>1
<1> HIDE DEF c
<1>2. \A j \in 1..4 : m + j \in (m + 1)..(m + 4) /\ (m + j) - m = j
  OBVIOUS
<1>3. \A j \in 1..4 : c[m + j] = w[j]
  BY <1>1, <1>2
<1>4. c[m + 1] = w[1] /\ c[m + 2] = w[2] /\ c[m + 3] = w[3] /\ c[m + 4] = w[4]
  BY <1>3
<1> QED  BY <1>1, <1>4 DEF c

\* The same of a longer sequence by its name.
AppendedAs(c, h, w, m) ==
    /\ c \in Seq(Nat) /\ Len(c) = m + 4
    /\ \A i \in 1..m : c[i] = h[i]
    /\ c[m + 1] = w[1] /\ c[m + 2] = w[2] /\ c[m + 3] = w[3] /\ c[m + 4] = w[4]

\* A number that is appended to a sequence.
LEMMA AppendedWordAs ==
    ASSUME NEW h \in Seq(Nat), NEW w \in Seq(Nat), Len(w) = 4, NEW m \in Nat, m = Len(h), NEW c, c = h \o w
    PROVE  AppendedAs(c, h, w, m)
<1>1. /\ h \o w \in Seq(Nat) /\ Len(h \o w) = m + 4
      /\ \A i \in 1..m : (h \o w)[i] = h[i]
      /\ (h \o w)[m + 1] = w[1] /\ (h \o w)[m + 2] = w[2]
      /\ (h \o w)[m + 3] = w[3] /\ (h \o w)[m + 4] = w[4]
  BY AppendedWord
<1> QED  BY <1>1 DEF AppendedAs

\* Metadata that is one number keeps it.
LEMMA IntIsKept ==
    ASSUME NEW type \in Nat, NEW v, IsWord(v)
    PROVE  /\ setInt(type, v) \in Seq(Nat) /\ MetaDataFits(setInt(type, v))
           /\ getType(setInt(type, v)) = type /\ getInt(setInt(type, v)) = v
<1>1. v \in Nat
  BY DEF IsWord
<1>2. PICK w \in Seq(Nat) : w = LittleEndian(v) /\ Len(w) = 4
  BY <1>1, LittleEndianIs
<1>3. PICK h \in Seq(Nat) : h = <<8, 0, type, 0>> /\ Len(h) = 4 /\ h[1] = 8 /\ h[2] = 0 /\ h[3] = type
  <2>1. <<8, 0, type, 0>> \in Seq(Nat)
    OBVIOUS
  <2> QED  BY <2>1
<1> DEFINE p == h \o w
<1>4. /\ p \in Seq(Nat) /\ Len(p) = 4 + 4
      /\ \A i \in 1..4 : p[i] = h[i]
      /\ p[5] = w[1] /\ p[6] = w[2] /\ p[7] = w[3] /\ p[8] = w[4]
  <2>1. PICK m \in Nat : m = 4
    OBVIOUS
  <2>2. m = Len(h) /\ Len(w) = 4 /\ h \in Seq(Nat) /\ w \in Seq(Nat)
    BY <1>2, <1>3, <2>1
  <2>3. /\ p \in Seq(Nat) /\ Len(p) = m + 4
        /\ \A i \in 1..m : p[i] = h[i]
        /\ p[m + 1] = w[1] /\ p[m + 2] = w[2] /\ p[m + 3] = w[3] /\ p[m + 4] = w[4]
    BY <2>2, AppendedWord
  <2> HIDE DEF p
  <2> QED  BY <2>1, <2>3
<1>5. setInt(type, v) = p
  BY <1>2, <1>3 DEF setInt
<1> HIDE DEF p
<1>6. p[1] = 8 /\ p[2] = 0 /\ p[3] = type /\ Len(p) = 8
  BY <1>3, <1>4
<1>7. p[5] = w[1] /\ p[5 + 1] = w[2] /\ p[5 + 2] = w[3] /\ p[5 + 3] = w[4]
  BY <1>4
<1>8. FromLittleEndian(p, 5) = v
  BY <1>2, <1>7, WordFromBytes
<1>9. MetaDataFits(p) /\ getType(p) = type /\ getInt(p) = v
  BY <1>6, <1>8 DEF MetaDataFits, getType, getInt
<1> QED  BY <1>4, <1>5, <1>9

\* Metadata that is three sizes keeps them.
LEMMA SizesAreKept ==
    ASSUME NEW type \in Nat, NEW v \in [1..3 -> Nat], \A d \in 1..3 : IsWord(v[d])
    PROVE  /\ setSizes(type, v) \in Seq(Nat) /\ MetaDataFits(setSizes(type, v))
           /\ getType(setSizes(type, v)) = type /\ getSizes(setSizes(type, v)) = v
<1>1. PICK x \in Seq(Nat) : x = LittleEndian(v[1]) /\ Len(x) = 4
  BY LittleEndianIs
<1>2. PICK y \in Seq(Nat) : y = LittleEndian(v[2]) /\ Len(y) = 4
  BY LittleEndianIs
<1>3. PICK z \in Seq(Nat) : z = LittleEndian(v[3]) /\ Len(z) = 4
  BY LittleEndianIs
<1>4. PICK h \in Seq(Nat) : h = <<16, 0, type, 0>> /\ Len(h) = 4 /\ h[1] = 16 /\ h[2] = 0 /\ h[3] = type
  <2>1. <<16, 0, type, 0>> \in Seq(Nat)
    OBVIOUS
  <2> QED  BY <2>1
<1> DEFINE s == h \o x
           t == s \o y
           p == t \o z
<1>5. /\ s \in Seq(Nat) /\ Len(s) = 4 + 4
      /\ \A i \in 1..4 : s[i] = h[i]
      /\ s[5] = x[1] /\ s[6] = x[2] /\ s[7] = x[3] /\ s[8] = x[4]
  <2>1. PICK m \in Nat : m = 4
    OBVIOUS
  <2>2. m = Len(h) /\ Len(x) = 4 /\ h \in Seq(Nat) /\ x \in Seq(Nat)
    BY <1>1, <1>4, <2>1
  <2>3. /\ s \in Seq(Nat) /\ Len(s) = m + 4
        /\ \A i \in 1..m : s[i] = h[i]
        /\ s[m + 1] = x[1] /\ s[m + 2] = x[2] /\ s[m + 3] = x[3] /\ s[m + 4] = x[4]
    <3>1. PICK c : c = h \o x
      OBVIOUS
    <3>2. AppendedAs(c, h, x, m)
      BY <2>2, <3>1, AppendedWordAs
    <3>3. c = s
      BY <3>1
    <3> HIDE DEF s
    <3> QED  BY <3>2, <3>3 DEF AppendedAs
  <2> HIDE DEF s
  <2> QED  BY <2>1, <2>3
<1> HIDE DEF s
<1>6. /\ t \in Seq(Nat) /\ Len(t) = 8 + 4
      /\ \A i \in 1..8 : t[i] = s[i]
      /\ t[9] = y[1] /\ t[10] = y[2] /\ t[11] = y[3] /\ t[12] = y[4]
  <2>1. PICK m \in Nat : m = 8
    OBVIOUS
  <2>2. m = Len(s) /\ Len(y) = 4
    BY <1>2, <1>5, <2>1
  <2>4. s \in Seq(Nat)
    BY <1>5
  <2>5. y \in Seq(Nat)
    BY <1>2
  <2> HIDE DEF s
  <2>3. /\ t \in Seq(Nat) /\ Len(t) = m + 4
        /\ \A i \in 1..m : t[i] = s[i]
        /\ t[m + 1] = y[1] /\ t[m + 2] = y[2] /\ t[m + 3] = y[3] /\ t[m + 4] = y[4]
    <3>1. PICK a \in Seq(Nat), b \in Seq(Nat) : a = s /\ b = y
      BY <2>4, <2>5
    <3>0. PICK c : c = a \o b
      OBVIOUS
    <3>2. m = Len(a) /\ Len(b) = 4
      BY <2>2, <3>1
    <3>3. AppendedAs(c, a, b, m)
      BY <3>0, <3>2, AppendedWordAs
    <3>4. c = t
      BY <3>0, <3>1
    <3> HIDE DEF t
    <3> QED  BY <3>1, <3>3, <3>4 DEF AppendedAs
  <2> HIDE DEF t
  <2> QED  BY <2>1, <2>3
<1> HIDE DEF t
<1>7. /\ p \in Seq(Nat) /\ Len(p) = 12 + 4
      /\ \A i \in 1..12 : p[i] = t[i]
      /\ p[13] = z[1] /\ p[14] = z[2] /\ p[15] = z[3] /\ p[16] = z[4]
  <2>1. PICK m \in Nat : m = 12
    OBVIOUS
  <2>2. m = Len(t) /\ Len(z) = 4 /\ t \in Seq(Nat) /\ z \in Seq(Nat)
    BY <1>3, <1>6, <2>1
  <2>3. /\ p \in Seq(Nat) /\ Len(p) = m + 4
        /\ \A i \in 1..m : p[i] = t[i]
        /\ p[m + 1] = z[1] /\ p[m + 2] = z[2] /\ p[m + 3] = z[3] /\ p[m + 4] = z[4]
    <3>1. PICK g \in Seq(Nat) : g = t
      BY <2>2
    <3>2. m = Len(g)
      BY <2>2, <3>1
    <3>3. /\ g \o z \in Seq(Nat) /\ Len(g \o z) = m + 4
          /\ \A i \in 1..m : (g \o z)[i] = g[i]
          /\ (g \o z)[m + 1] = z[1] /\ (g \o z)[m + 2] = z[2]
          /\ (g \o z)[m + 3] = z[3] /\ (g \o z)[m + 4] = z[4]
      BY <2>2, <3>2, AppendedWord
    <3> QED  BY <3>1, <3>3
  <2> HIDE DEF p
  <2> QED  BY <2>1, <2>3
<1>8. setSizes(type, v) = p
  BY <1>1, <1>2, <1>3, <1>4 DEF setSizes, s, t
<1> HIDE DEF p
<1>9. FromLittleEndian(p, 5) = v[1]
  <2>1. p[5] = x[1] /\ p[6] = x[2] /\ p[7] = x[3] /\ p[8] = x[4]
    BY <1>5, <1>6, <1>7
  <2>2. PICK at \in Nat : at = 5
    OBVIOUS
  <2>3. PICK w \in Nat : w = v[1] /\ IsWord(w) /\ x = LittleEndian(w)
    BY <1>1
  <2>4. /\ p[at] = LittleEndian(w)[1] /\ p[at + 1] = LittleEndian(w)[2]
        /\ p[at + 2] = LittleEndian(w)[3] /\ p[at + 3] = LittleEndian(w)[4]
    BY <2>1, <2>2, <2>3
  <2>5. FromLittleEndian(p, at) = w
    BY <2>3, <2>4, WordFromBytes
  <2> QED  BY <2>2, <2>3, <2>5
<1>10. FromLittleEndian(p, 9) = v[2]
  <2>1. p[9] = y[1] /\ p[10] = y[2] /\ p[11] = y[3] /\ p[12] = y[4]
    BY <1>6, <1>7
  <2>2. PICK at \in Nat : at = 9
    OBVIOUS
  <2>3. PICK w \in Nat : w = v[2] /\ IsWord(w) /\ y = LittleEndian(w)
    BY <1>2
  <2>4. /\ p[at] = LittleEndian(w)[1] /\ p[at + 1] = LittleEndian(w)[2]
        /\ p[at + 2] = LittleEndian(w)[3] /\ p[at + 3] = LittleEndian(w)[4]
    BY <2>1, <2>2, <2>3
  <2>5. FromLittleEndian(p, at) = w
    BY <2>3, <2>4, WordFromBytes
  <2> QED  BY <2>2, <2>3, <2>5
<1>11. FromLittleEndian(p, 13) = v[3]
  <2>1. p[13] = z[1] /\ p[14] = z[2] /\ p[15] = z[3] /\ p[16] = z[4]
    BY <1>7
  <2>2. PICK at \in Nat : at = 13
    OBVIOUS
  <2>3. PICK w \in Nat : w = v[3] /\ IsWord(w) /\ z = LittleEndian(w)
    BY <1>3
  <2>4. /\ p[at] = LittleEndian(w)[1] /\ p[at + 1] = LittleEndian(w)[2]
        /\ p[at + 2] = LittleEndian(w)[3] /\ p[at + 3] = LittleEndian(w)[4]
    BY <2>1, <2>2, <2>3
  <2>5. FromLittleEndian(p, at) = w
    BY <2>3, <2>4, WordFromBytes
  <2> QED  BY <2>2, <2>3, <2>5
<1>12. getSizes(p) = v
  <2>1. ASSUME NEW d \in 1..3
        PROVE  FromLittleEndian(p, 4 * d + 1) = v[d]
    <3>1. CASE d = 1
      BY <1>9, <3>1
    <3>2. CASE d = 2
      BY <1>10, <3>2
    <3>3. CASE d = 3
      BY <1>11, <3>3
    <3> QED  BY <3>1, <3>2, <3>3
  <2> QED  BY <2>1 DEF getSizes
<1>13. MetaDataFits(p) /\ getType(p) = type
  <2>1. p[1] = 16 /\ p[2] = 0 /\ p[3] = type /\ Len(p) = 16
    BY <1>4, <1>5, <1>6, <1>7
  <2> QED  BY <2>1 DEF MetaDataFits, getType
<1> QED  BY <1>7, <1>8, <1>12, <1>13

\* Metadata that is a text keeps it.
LEMMA TextIsKept ==
    ASSUME NEW type \in Nat, NEW v \in Seq(Nat), Shifted(Len(v) + 3) < 256
    PROVE  /\ setString(type, v) \in Seq(Nat) /\ MetaDataFits(setString(type, v))
           /\ getType(setString(type, v)) = type /\ getString(setString(type, v)) = v
<1>1. PICK n \in Nat : n = Len(v)
  OBVIOUS
<1>2. PICK q \in Nat, r \in 0..255 : n + 3 = 256 * q + r /\ Shifted(n + 3) = q /\ (n + 3) % 256 = r
  <2>1. n + 3 \in Nat
    OBVIOUS
  <2> QED  BY <2>1, By256
<1>3. q \in 0..255 /\ q % 256 = q
  BY <1>1, <1>2
<1>4. PICK h \in Seq(Nat) : h = <<r, q, type>> /\ Len(h) = 3 /\ h[1] = r /\ h[2] = q /\ h[3] = type
  <2>1. <<r, q, type>> \in Seq(Nat)
    OBVIOUS
  <2> QED  BY <2>1
<1> DEFINE p == h \o v
<1>5. /\ p \in Seq(Nat) /\ Len(p) = 3 + n
      /\ \A i \in 1..3 : p[i] = h[i]
      /\ \A i \in 4..(3 + n) : p[i] = v[i - 3]
  BY <1>1, <1>4, ConcatAt
<1>6. setString(type, v) = p
  BY <1>1, <1>2, <1>3, <1>4 DEF setString
<1> HIDE DEF p
<1>7. Len(p) = n + 3 /\ p[1] = r /\ p[2] = q /\ p[3] = type /\ r \in Nat /\ q \in Nat
  BY <1>4, <1>5
<1>8. p[1] + 256 * p[2] = n + 3
  BY <1>2, <1>7
<1>9. SubSeq(p, 4, n + 3) = v
  <2>1. \A i \in 4..(n + 3) : p[i] \in Nat
    <3>1. \A i \in 4..(n + 3) : i \in 1..Len(p)
      BY <1>1, <1>7
    <3>2. p \in Seq(Nat)
      BY <1>5
    <3> QED  BY <3>1, <3>2, ElementOfSeq
  <2>2. 4 \in Int /\ n + 3 \in Int /\ n + 3 - 4 + 1 = n
    OBVIOUS
  <2>3. /\ SubSeq(p, 4, n + 3) \in Seq(Nat)
        /\ Len(SubSeq(p, 4, n + 3)) = IF 4 <= n + 3 THEN n + 3 - 4 + 1 ELSE 0
        /\ \A i \in 1..(n + 3 - 4 + 1) : SubSeq(p, 4, n + 3)[i] = p[4 + i - 1]
    BY <2>1, <2>2, SubSeqProperties
  <2>4. Len(SubSeq(p, 4, n + 3)) = n
    BY <2>3
  <2>5. \A i \in 1..n : SubSeq(p, 4, n + 3)[i] = v[i]
    <3>1. \A i \in 1..n : 4 + i - 1 \in 4..(3 + n) /\ (4 + i - 1) - 3 = i
      OBVIOUS
    <3> QED  BY <1>5, <2>2, <2>3, <3>1
  <2> QED  BY <1>1, <2>3, <2>4, <2>5, SeqEqual
<1>10. MetaDataFits(p)
  BY <1>7, <1>8 DEF MetaDataFits
<1>11. getType(p) = type /\ getString(p) = v
  BY <1>7, <1>8, <1>9 DEF getType, getString
<1> QED  BY <1>5, <1>6, <1>10, <1>11

\* What is set is what the queries get.
LEMMA ValueIsKept ==
    ASSUME NEW type, NEW v, MetaDataGiven(type, v)
    PROVE  /\ setValue(type, v) \in Seq(Nat) /\ MetaDataFits(setValue(type, v))
           /\ getType(setValue(type, v)) = type /\ getValue(setValue(type, v)) = v
<1>1. type \in Nat
  BY DEF MetaDataGiven
<1>2. CASE type \in SizesTypes
  <2>1. v \in [1..3 -> Nat] /\ \A d \in 1..3 : IsWord(v[d])
    BY <1>2 DEF MetaDataGiven
  <2> QED  BY <1>1, <1>2, <2>1, SizesAreKept DEF setValue, getValue
<1>3. CASE type \notin SizesTypes /\ type \in TextTypes
  <2>1. v \in Seq(Nat) /\ Shifted(Len(v) + 3) < 256
    BY <1>3 DEF MetaDataGiven
  <2> QED  BY <1>1, <1>3, <2>1, TextIsKept DEF setValue, getValue
<1>4. CASE type \notin SizesTypes /\ type \notin TextTypes
  <2>1. IsWord(v)
    BY <1>4 DEF MetaDataGiven
  <2> QED  BY <1>1, <1>4, <2>1, IntIsKept DEF setValue, getValue
<1> QED  BY <1>2, <1>3, <1>4

\* A list is a sequence of its elements.
LEMMA ListIsSeq ==
    ASSUME NEW s, IsList(s)
    PROVE  \E S : s \in Seq(S)
<1>1. s \in [1..Len(s) -> {s[n] : n \in 1..Len(s)}] /\ Len(s) \in Nat
  BY DEF IsList
<1>2. s \in Seq({s[n] : n \in 1..Len(s)})
  BY <1>1, FunctionIsSeq
<1> QED  BY <1>2

\* A kernel and its header.
LEMMA HeadersAre ==
    ASSUME NEW m \in Modules
    PROVE  /\ IsModule(Headers(m)) /\ ModuleFits(Headers(m))
           /\ Len(m.kernels) \in Nat /\ Len(Headers(m).kernels) = Len(m.kernels)
           /\ \A k \in 1..Len(m.kernels) :
                  /\ \E offset : Headers(m).kernels[k] = Packed(m.kernels[k], offset)
                  /\ Headers(m).kernels[k] \in KernelHeaders
<1>1. IsModule(Headers(m)) /\ ModuleFits(Headers(m)) /\ Len(m.kernels) \in Nat
  BY ModulesAssumption DEF ModulesAssumption, IsList
<1>2. PICK offsets : Headers(m) = HeadersAt(m, offsets)
  BY Zenon DEF Headers
<1>3. Headers(m).kernels = [k \in 1..Len(m.kernels) |-> Packed(m.kernels[k], offsets[k])]
  BY <1>2 DEF HeadersAt
<1>4. Headers(m).kernels \in Seq(KernelHeaders)
  BY <1>1 DEF IsModule
<1>5. DOMAIN Headers(m).kernels = 1..Len(m.kernels)
  BY <1>3
<1>6. Len(Headers(m).kernels) = Len(m.kernels)
  BY <1>1, <1>4, <1>5, LenProperties
<1>7. ASSUME NEW k \in 1..Len(m.kernels)
      PROVE  /\ \E offset : Headers(m).kernels[k] = Packed(m.kernels[k], offset)
             /\ Headers(m).kernels[k] \in KernelHeaders
  BY <1>3, <1>4, <1>6, ElementOfSeq
<1> QED  BY <1>1, <1>6, <1>7

\* The instructions of one kernel.
LEMMA InstructionsIn ==
    ASSUME NEW k, NEW l \in Nat, k.length = l, NEW C,
           \A n \in Nat : [instruction |-> n, kernel |-> k.name] \in C
    PROVE  Instructions(k) \in Seq(C) /\ Len(Instructions(k)) = l
<1>1. Instructions(k) = [n \in 1..l |-> [instruction |-> n, kernel |-> k.name]]
  BY DEF Instructions
<1>2. Instructions(k) \in [1..l -> C]
  BY <1>1
<1>3. PICK f \in [1..l -> C] : f = Instructions(k)
  BY <1>2
<1>4. f \in Seq(C) /\ Len(f) = l
  BY FunctionIsSeq
<1> QED  BY <1>3, <1>4

\* The code of a module is a sequence, of the instructions of its kernels.
LEMMA CodeIs ==
    ASSUME NEW m \in Modules
    PROVE  \E C : /\ Code(m) \in Seq(C)
                  /\ [k \in 1..Len(m.kernels) |-> Instructions(m.kernels[k])] \in Seq(Seq(C))
                  /\ Len([k \in 1..Len(m.kernels) |-> Instructions(m.kernels[k])]) = Len(m.kernels)
                  /\ \A k \in 1..Len(m.kernels) :
                         /\ m.kernels[k].length \in Nat
                         /\ Instructions(m.kernels[k]) \in Seq(C)
                         /\ Len(Instructions(m.kernels[k])) = m.kernels[k].length
<1> DEFINE C == {[instruction |-> n, kernel |-> m.kernels[k].name] : n \in Nat, k \in Nat}
           ss == [k \in 1..Len(m.kernels) |-> Instructions(m.kernels[k])]
<1>1. ASSUME NEW k \in 1..Len(m.kernels)
      PROVE  /\ m.kernels[k].length \in Nat
             /\ Instructions(m.kernels[k]) \in Seq(C)
             /\ Len(Instructions(m.kernels[k])) = m.kernels[k].length
  <2>1. PICK offset : Headers(m).kernels[k] = Packed(m.kernels[k], offset)
    BY HeadersAre
  <2>2. Packed(m.kernels[k], offset) \in KernelHeaders
    BY <2>1, HeadersAre
  <2>3. Packed(m.kernels[k], offset).length = m.kernels[k].length
    BY DEF Packed
  <2>4. m.kernels[k].length \in Nat
    BY <2>2, <2>3 DEF KernelHeaders
  <2>5. k \in Nat
    BY HeadersAre
  <2>6. \A n \in Nat : [instruction |-> n, kernel |-> m.kernels[k].name] \in C
    <3>1. PICK name : name = m.kernels[k].name
      OBVIOUS
    <3>2. \A n \in Nat : [instruction |-> n, kernel |-> name] \in C
      BY <2>5, <3>1
    <3> QED  BY <3>1, <3>2
  <2>7. PICK l \in Nat : m.kernels[k].length = l
    BY <2>4
  <2> HIDE DEF C
  <2>8. Instructions(m.kernels[k]) \in Seq(C) /\ Len(Instructions(m.kernels[k])) = l
    BY <2>6, <2>7, InstructionsIn
  <2> QED  BY <2>4, <2>7, <2>8
<1> HIDE DEF C
<1>2. ss \in [1..Len(m.kernels) -> Seq(C)] /\ Len(m.kernels) \in Nat
  BY <1>1, HeadersAre
<1>3. ss \in Seq(Seq(C)) /\ Len(ss) = Len(m.kernels)
  BY <1>2, FunctionIsSeq
<1>4. Code(m) \in Seq(C)
  <2> HIDE DEF ss
  <2>1. FlattenSeq(ss) \in Seq(C)
    BY <1>3, FlattenPlaces
  <2> QED  BY <2>1 DEF ss, Code
<1> QED  BY <1>1, <1>3, <1>4

\* extractModuleInfo finds in the binary of a module what the compiler wrote.
LEMMA CompiledIsRead ==
    ASSUME NEW m \in Modules
    PROVE  /\ Compiled(m)[1] = MagicNumber
           /\ readModule(Compiled(m)).item = HeaderOf(Headers(m))
           /\ SubSeq(Compiled(m), HeaderOf(Headers(m)).globalDataOffset + 1,
                     HeaderOf(Headers(m)).globalDataOffset + HeaderOf(Headers(m)).globalDataSize)
                  = DataSegment(Headers(m))
           /\ (<<StackWord>> \o Tail(Compiled(m)))[1] # MagicNumber
<1>1. IsModule(Headers(m)) /\ ModuleFits(Headers(m))
  BY HeadersAre
<1>2. PICK C : Code(m) \in Seq(C)
  BY CodeIs
<1>3. Compiled(m) = writeModule(Headers(m)) \o Code(m)
  BY DEF Compiled
<1>4. /\ readModule(Compiled(m)) = Read(HeaderOf(Headers(m)), 2 + Len(KernelSegment(Headers(m))))
      /\ SubSeq(Compiled(m), HeaderOf(Headers(m)).globalDataOffset + 1,
                HeaderOf(Headers(m)).globalDataOffset + HeaderOf(Headers(m)).globalDataSize)
             = DataSegment(Headers(m))
  BY <1>1, <1>2, <1>3, ModuleIsRead
<1>5. readModule(Compiled(m)).item = HeaderOf(Headers(m))
  BY <1>4 DEF Read
<1>6. PICK W : ModuleWordsIn(Headers(m), W) /\ C \subseteq W
  BY <1>1, ModuleWordsExist
<1>7. Code(m) \in Seq(W)
  BY <1>2, <1>6
<1>8. Compiled(m) \in Seq(W) /\ Compiled(m)[1] = MagicNumber
      /\ Len(Compiled(m)) = Len(writeModule(Headers(m))) + Len(Code(m))
  BY <1>1, <1>3, <1>6, <1>7, WrittenModule
<1>9. Compiled(m) # <<>>
  <2>1. 1 \in 1..Len(Compiled(m))
    <3>1. Len(writeModule(Headers(m))) = 4 + Len(KernelSegment(Headers(m))) + Len(DataSegment(Headers(m)))
      BY <1>1, <1>3, <1>6, <1>7, WrittenModule
    <3>2. Len(KernelSegment(Headers(m))) \in Nat /\ Len(DataSegment(Headers(m))) \in Nat /\ Len(Code(m)) \in Nat
      BY <1>1, <1>6, <1>7, ModuleParts
    <3> QED  BY <1>8, <3>1, <3>2
  <2> QED  BY <2>1
<1>10. (<<StackWord>> \o Tail(Compiled(m)))[1] = StackWord
  <2>1. PICK t \in Seq(W) : t = Tail(Compiled(m))
    <3>1. Tail(Compiled(m)) \in Seq(W)
      BY <1>8, <1>9, HeadTailProperties
    <3> QED  BY <3>1
  <2>2. PICK s \in Seq({StackWord}) : s = <<StackWord>> /\ Len(s) = 1 /\ s[1] = StackWord
    <3>1. <<StackWord>> \in Seq({StackWord})
      OBVIOUS
    <3> QED  BY <3>1
  <2>3. s \in Seq(W \cup {StackWord}) /\ t \in Seq(W \cup {StackWord})
    BY <2>1, <2>2
  <2>4. \A i \in 1..Len(s) : (s \o t)[i] = s[i]
    BY <2>3, ConcatAt
  <2> QED  BY <2>1, <2>2, <2>4
<1>11. StackWord # MagicNumber
  <2>1. "data" \in DOMAIN StackWord /\ "data" \notin DOMAIN MagicNumber
    BY DEF StackWord, MagicNumber
  <2> QED  BY <2>1
<1> QED  BY <1>4, <1>5, <1>8, <1>10, <1>11

\* A loop that finds too little data for an item stops there.
LEMMA ShortStaysShort ==
    ASSUME NEW reader, NEW index, NEW n \in Nat \ {0}, reader[index].short = TRUE
    PROVE  ReadAll(reader, index, n).short = TRUE
<1>1. PICK f : IsReading(f, reader, index, n) /\ ReadAll(reader, index, n) = f[n]
  BY ReadAllIs
<1> DEFINE T == {k \in Nat : k + 1 <= n => f[k + 1].short = TRUE}
<1>2. 0 \in T
  <2>1. 0 \in 0..n /\ 1 \in 0..n
    OBVIOUS
  <2>2. f[0] = Read(<<>>, index) /\ f[1] = OneMoreRead(reader, f[0])
    BY <1>1, <2>1 DEF IsReading
  <2>3. f[0].short = FALSE /\ f[0].next = index
    BY <2>2 DEF Read
  <2>4. f[1].short = TRUE
    BY <2>2, <2>3 DEF OneMoreRead
  <2> QED  BY <2>4
<1>3. ASSUME NEW k \in Nat, k \in T
      PROVE  k + 1 \in T
  <2>1. ASSUME k + 1 + 1 <= n
        PROVE  f[k + 1 + 1].short = TRUE
    <3>1. f[k + 1].short = TRUE
      BY <1>3, <2>1
    <3>2. k + 1 + 1 \in 0..n /\ k + 1 + 1 # 0 /\ k + 1 + 1 - 1 = k + 1
      BY <2>1
    <3>3. f[k + 1 + 1] = OneMoreRead(reader, f[k + 1])
      BY <1>1, <3>2 DEF IsReading
    <3> QED  BY <3>1, <3>3 DEF OneMoreRead
  <2>2. k + 1 \in Nat
    OBVIOUS
  <2> QED  BY <2>1, <2>2
<1> HIDE DEF T
<1>4. \A k \in Nat : k \in T
  BY <1>2, <1>3, SetInduction
<1>5. n - 1 \in Nat /\ n - 1 + 1 = n
  OBVIOUS
<1> QED  BY <1>1, <1>4, <1>5 DEF T

\* The words of what the compiler writes.
LEMMA CompiledWords ==
    ASSUME NEW m \in Modules
    PROVE  \E W : /\ Compiled(m) \in Seq(W) /\ Len(Compiled(m)) >= 4
                  /\ Compiled(m)[2] = ModuleWord(Headers(m))
<1>1. IsModule(Headers(m)) /\ ModuleFits(Headers(m))
  BY HeadersAre
<1>2. PICK C : Code(m) \in Seq(C)
  BY CodeIs
<1>3. PICK W : ModuleWordsIn(Headers(m), W) /\ C \subseteq W
  BY <1>1, ModuleWordsExist
<1>4. Code(m) \in Seq(W)
  BY <1>2, <1>3
<1>5. Compiled(m) = writeModule(Headers(m)) \o Code(m)
  BY DEF Compiled
<1>6. /\ Compiled(m) \in Seq(W) /\ Compiled(m)[2] = ModuleWord(Headers(m))
      /\ Len(Compiled(m)) = Len(writeModule(Headers(m))) + Len(Code(m))
      /\ Len(writeModule(Headers(m))) = 4 + Len(KernelSegment(Headers(m))) + Len(DataSegment(Headers(m)))
  BY <1>1, <1>3, <1>4, <1>5, WrittenModule
<1>7. Len(KernelSegment(Headers(m))) \in Nat /\ Len(DataSegment(Headers(m))) \in Nat /\ Len(Code(m)) \in Nat
  BY <1>1, <1>3, <1>4, ModuleParts
<1> QED  BY <1>6, <1>7

\* What is cut off from the start of a binary is found to be missing.
LEMMA TruncatedIsRefused ==
    ASSUME NEW m \in Modules, NEW n \in Truncations, n < Len(Compiled(m)),
           NEW t, t = SubSeq(Compiled(m), 1, n)
    PROVE  readModule(t).short = TRUE \/ readModule(t).item.kernels = <<>>
<1>1. n \in 0..5
  BY TruncationsAssumption DEF TruncationsAssumption
<1>2. PICK W : Compiled(m) \in Seq(W) /\ Compiled(m)[2] = ModuleWord(Headers(m))
  BY CompiledWords
<1>3. Len(t) = n /\ \A i \in 1..n : t[i] = Compiled(m)[i]
  <2>1. \A i \in 1..n : Compiled(m)[i] \in W
    BY <1>1, <1>2, ElementOfSeq
  <2>2. 1 \in Int /\ n \in Int /\ n - 1 + 1 = n
    BY <1>1
  <2>3. /\ Len(SubSeq(Compiled(m), 1, n)) = IF 1 <= n THEN n - 1 + 1 ELSE 0
        /\ \A i \in 1..(n - 1 + 1) : SubSeq(Compiled(m), 1, n)[i] = Compiled(m)[1 + i - 1]
    BY <2>1, <2>2, SubSeqProperties
  <2>4. \A i \in 1..n : 1 + i - 1 = i
    OBVIOUS
  <2> QED  BY <1>1, <2>2, <2>3, <2>4
<1>4. CASE n < 2
  BY <1>3, <1>4 DEF readModule, TooShort
<1>5. CASE ~(n < 2)
  <2>1. Word(t, 1) = ModuleWord(Headers(m))
    BY <1>1, <1>2, <1>3, <1>5 DEF Word
  <2>2. PICK c \in Nat : c = Len(Headers(m).kernels) /\ Entry(Word(t, 1), "kernelCount") = c
    BY <2>1, HeadersAre, ModuleFields
  <2> DEFINE reader == [at \in Nat |-> readKernel(t, at)]
             kernels == ReadAll(reader, 2, c)
  <2>3. readModule(t).item.kernels = kernels.item /\ readModule(t).short = kernels.short
    BY <1>3, <1>5, <2>2 DEF readModule
  <2>4. CASE c = 0
    <3>1. PICK f : IsReading(f, reader, 2, c) /\ kernels = f[c]
      BY ReadAllIs
    <3>2. kernels = Read(<<>>, 2)
      BY <2>4, <3>1 DEF IsReading
    <3> QED  BY <2>3, <3>2 DEF Read
  <2>5. CASE c # 0
    <3>1. reader[2] = readKernel(t, 2)
      OBVIOUS
    <3>2. ~Enough(t, 2, 4)
      BY <1>1, <1>3 DEF Enough
    <3>3. reader[2].short = TRUE
      BY <3>1, <3>2 DEF readKernel, TooShort
    <3> HIDE DEF reader
    <3>4. kernels.short = TRUE
      BY <2>5, <3>3, ShortStaysShort
    <3> QED  BY <2>3, <3>4
  <2> QED  BY <2>4, <2>5
<1> QED  BY <1>4, <1>5

---------------------------------------------------------------------------------
(* The inductive invariant *)

\* What extractModuleInfo has taken from the binary.
AsCompiled ==
    /\ binary = Compiled(module)
    /\ moduleInfo = HeaderOf(Headers(module))
    /\ globalData = DataSegment(Headers(module))

ProgramRead ==
    /\ module \in Modules
    /\ binary \in Stored(module)
    /\ moduleInfo = NULL /\ result = NULL => globalData = <<>>
    /\ moduleInfo # NULL => AsCompiled

\* A header the compiler wrote.
Header(m, info) == \E n \in 1..Len(m.kernels) : info = Headers(m).kernels[n]

SetTo(m, p, arg, a) ==
    /\ a \in Passed(p)
    /\ arg = NewArgument(m.context, p, a)
    /\ arg.type # "refused"

\* A kernel object, and what the application asked for.
KernelSet(m, o, given) ==
    /\ Header(m, o.info)
    /\ o = [info |-> o.info, args |-> o.args, argsSetMask |-> o.argsSetMask]
    /\ o.args = [i \in DOMAIN o.info.parameters |-> o.args[i]]
    /\ given = [i \in DOMAIN o.info.parameters |-> given[i]]
    /\ o.argsSetMask \subseteq DOMAIN o.info.parameters
    /\ \A i \in o.argsSetMask : SetTo(m, o.info.parameters[i], o.args[i], given[i])

KernelsSet ==
    /\ kernel = [k \in Kernels |-> kernel[k]]
    /\ asked = [k \in Kernels |-> asked[k]]
    /\ \A k \in Kernels : kernel[k] # NULL => moduleInfo # NULL /\ KernelSet(module, kernel[k], asked[k])

\* An execution and its snapshot of the arguments.
OfType(x, type) == {n \in DOMAIN x.info.parameters : x.executionArguments[n].type = type}
ExecutionSet(m, x) ==
    /\ Header(m, x.info)
    /\ x.numQPUs \in 1..NumQPUs
    /\ \A i \in DOMAIN x.info.parameters : SetTo(m, x.info.parameters[i], x.executionArguments[i], x.asked[i])
    /\ x.tmpBuffers = [i \in OfType(x, "temporary") |->
           TmpBuffer(m.zeroLocal, x.info.parameters[i], x.executionArguments[i])]
    /\ x.persistentBuffers = [i \in OfType(x, "buffer") |->
           IF x.executionArguments[i].buffer = NULL THEN 0
           ELSE Buffers[x.executionArguments[i].buffer].address]

\* The buffer of an execution of a kernel of m.
InstructionsOf(m, x) == Halves(SubSeq(Compiled(m), x.info.offset + 1, x.info.offset + x.info.length))
StackOf(m) == [n \in 1..(NumQPUs * m.stackWords * 2) |-> [info |-> "stack"]]
RawSize(m, x) ==
    8 * x.info.length + 2 * 4 * x.numQPUs * (MAX_HIDDEN_PARAMETERS + ExplicitUniformCount(x.info))
        + 8 * Len(DataSegment(Headers(m))) + NumQPUs * m.stackWords * 8 + 2 * 2 * 4 * NumQPUs
Layout(m, x) ==
    LET data == Halves(DataSegment(Headers(m)))
        code == Len(data) + Len(StackOf(m))
        uniforms0 == code + Len(InstructionsOf(m, x))
        block == Uniforms(x, uniforms0)
        uniforms1 == uniforms0 + Len(block.words)
        messages0 == uniforms1 + Len(block.words)
        first == LaunchMessages(x, uniforms0, code)
        second == LaunchMessages(x, uniforms1, code)
    IN  [execution |-> x, size |-> (RawSize(m, x) \div PAGE_ALIGNMENT + 1) * PAGE_ALIGNMENT,
         words |-> data \o StackOf(m) \o InstructionsOf(m, x) \o block.words \o block.words \o first \o second,
         uniformPointers |-> <<block.pointers, [q \in 1..x.numQPUs |-> block.pointers[q] + Len(block.words)]>>,
         messages |-> <<messages0, messages0 + Len(first)>>]

ExecutionsSet ==
    /\ IsList(queue)
    /\ queue # <<>> => moduleInfo # NULL
    /\ \A n \in 1..Len(queue) : ExecutionSet(module, queue[n])
    /\ device # NULL =>
          /\ moduleInfo # NULL
          /\ ExecutionSet(module, device.execution)
          /\ device = Layout(module, device.execution)

ArgumentsInv == ProgramRead /\ KernelsSet /\ ExecutionsSet

\* The invariant holds at first.
LEMMA ArgumentsInit ==
    Init => ArgumentsInv
<1> SUFFICES ASSUME Init PROVE ArgumentsInv
  OBVIOUS
<1>1. ProgramRead
  BY DEF Init, ProgramRead
<1>2. KernelsSet
  BY DEF Init, KernelsSet
<1>3. ExecutionsSet
  <2>1. queue = <<>> /\ Len(queue) = 0
    BY DEF Init
  <2>2. device = NULL
    BY DEF Init
  <2>3. IsList(queue)
    <3>1. queue = [n \in 1..Len(queue) |-> queue[n]]
      BY <2>1
    <3> QED  BY <2>1, <3>1 DEF IsList
  <2>4. \A n \in 1..Len(queue) : FALSE
    BY <2>1
  <2> QED  BY <2>1, <2>2, <2>3, <2>4 DEF ExecutionsSet
<1> QED  BY <1>1, <1>2, <1>3 DEF ArgumentsInv

\* Only the binary the compiler wrote is accepted.
LEMMA ExtractRead ==
    ArgumentsInv /\ extractModuleInfo => ArgumentsInv'
<1> SUFFICES ASSUME ArgumentsInv, extractModuleInfo
             PROVE  ArgumentsInv'
  OBVIOUS
<1>1. module \in Modules /\ binary \in Stored(module)
  BY DEF ArgumentsInv, ProgramRead
<1>2. moduleInfo = NULL /\ result = NULL /\ globalData = <<>>
  BY DEF ArgumentsInv, ProgramRead, extractModuleInfo
<1>3. UNCHANGED <<module, binary, kernel, asked, queue, device>>
  BY DEF extractModuleInfo
<1> DEFINE read == readModule(binary)
<1>4. \/ UNCHANGED <<moduleInfo, globalData>> /\ result' \in {"CL_INVALID_BINARY", "CL_INVALID_PROGRAM"}
      \/ /\ binary[1] = MagicNumber /\ ~read.short /\ read.item.kernels # <<>>
         /\ result' = "CL_SUCCESS" /\ moduleInfo' = read.item
         /\ globalData' = globalData \o SubSeq(binary, read.item.globalDataOffset + 1,
                                               read.item.globalDataOffset + read.item.globalDataSize)
  BY DEF extractModuleInfo
<1> HIDE DEF read
<1>5. ProgramRead'
  <2>1. result' # NULL
    BY <1>4, NullAssumption DEF NullAssumption
  <2>2. CASE UNCHANGED <<moduleInfo, globalData>>
    BY <1>1, <1>2, <1>3, <2>1, <2>2 DEF ProgramRead
  <2>3. CASE /\ binary[1] = MagicNumber /\ ~read.short /\ read.item.kernels # <<>>
             /\ result' = "CL_SUCCESS" /\ moduleInfo' = read.item
             /\ globalData' = globalData \o SubSeq(binary, read.item.globalDataOffset + 1,
                                                   read.item.globalDataOffset + read.item.globalDataSize)
    <3>1. binary = Compiled(module)
      <4>1. binary # <<StackWord>> \o Tail(Compiled(module))
        BY <1>1, <2>3, CompiledIsRead
      <4>2. ASSUME NEW n \in Truncations, n < Len(Compiled(module)), binary = SubSeq(Compiled(module), 1, n)
            PROVE  FALSE
        BY <1>1, <2>3, <4>2, TruncatedIsRefused DEF read
      <4> QED  BY <1>1, <4>1, <4>2 DEF Stored
    <3>2. read.item = HeaderOf(Headers(module))
      BY <1>1, <3>1, CompiledIsRead DEF read
    <3>3. globalData' = globalData \o DataSegment(Headers(module))
      BY <1>1, <2>3, <3>1, <3>2, CompiledIsRead
    <3>4. \E S : DataSegment(Headers(module)) \in Seq(S)
      <4>1. IsModule(Headers(module))
        BY <1>1, HeadersAre
      <4>2. PICK W : ModuleWordsIn(Headers(module), W)
        BY <4>1, ModuleWordsExist
      <4> QED  BY <4>1, <4>2, ModuleParts
    <3>5. globalData' = DataSegment(Headers(module))
      BY <1>2, <3>3, <3>4, ConcatEmptySeq
    <3>6. AsCompiled'
      BY <1>3, <2>3, <3>1, <3>2, <3>5 DEF AsCompiled
    <3> QED  BY <1>1, <1>3, <2>1, <3>6 DEF ProgramRead
  <2> QED  BY <1>4, <2>2, <2>3
<1>6. KernelsSet'
  <2>1. ASSUME NEW k \in Kernels
        PROVE  kernel[k] = NULL
    BY <1>2, <2>1 DEF ArgumentsInv, KernelsSet
  <2> QED  BY <1>3, <2>1 DEF ArgumentsInv, KernelsSet
<1>7. ExecutionsSet'
  <2>1. queue = <<>> /\ device = NULL
    BY <1>2 DEF ArgumentsInv, ExecutionsSet
  <2>2. \A n \in 1..Len(queue) : FALSE
    BY <2>1
  <2> QED  BY <1>3, <2>1, <2>2 DEF ArgumentsInv, ExecutionsSet
<1> QED  BY <1>5, <1>6, <1>7 DEF ArgumentsInv

\* No call of the application touches the program.
LEMMA CalledKeepsProgram ==
    ArgumentsInv /\ moduleInfo # NULL /\ UNCHANGED programVars => ProgramRead' /\ moduleInfo' # NULL
BY DEF ArgumentsInv, ProgramRead, AsCompiled, programVars

\* Steps that leave queue and device leave what is known of them.
LEMMA ExecutionsKept ==
    ArgumentsInv /\ UNCHANGED programVars /\ UNCHANGED <<queue, device>> => ExecutionsSet'
BY DEF ArgumentsInv, ExecutionsSet, programVars

\* A new kernel object has no argument set.
LEMMA NewKernelSet ==
    ASSUME NEW m, NEW info, Header(m, info)
    PROVE  KernelSet(m, NewKernel(info), NothingAsked(info))
<1> DEFINE o == NewKernel(info)
<1>1. o.info = info /\ o.args = [p \in DOMAIN info.parameters |-> NULL] /\ o.argsSetMask = {}
      /\ o = [info |-> o.info, args |-> o.args, argsSetMask |-> o.argsSetMask]
  BY DEF NewKernel
<1>2. NothingAsked(info) = [p \in DOMAIN info.parameters |-> NULL]
  BY DEF NothingAsked
<1> HIDE DEF o
<1> QED  BY <1>1, <1>2 DEF KernelSet, o

\* The headers Program::moduleInfo has are those the compiler wrote.
LEMMA ReadKernels ==
    ASSUME ArgumentsInv, moduleInfo # NULL
    PROVE  /\ Len(moduleInfo.kernels) \in Nat
           /\ \A n \in 1..Len(moduleInfo.kernels) : Header(module, moduleInfo.kernels[n])
<1>1. moduleInfo = HeaderOf(Headers(module)) /\ module \in Modules
  BY DEF ArgumentsInv, ProgramRead, AsCompiled
<1>2. moduleInfo.kernels = Headers(module).kernels
  BY <1>1 DEF HeaderOf
<1> QED  BY <1>1, <1>2, HeadersAre DEF Header

\* clCreateKernel keeps the invariant.
LEMMA CreateKernel ==
    ASSUME ArgumentsInv, NEW k \in Kernels, NEW name, clCreateKernel(k, name)
    PROVE  ArgumentsInv'
<1>1. moduleInfo # NULL /\ UNCHANGED programVars /\ UNCHANGED <<queue, device>>
  BY DEF clCreateKernel, Called
<1>2. module' = module /\ moduleInfo' = moduleInfo
  BY <1>1 DEF programVars
<1>3. KernelsSet'
  <2> DEFINE found == {n \in 1..Len(moduleInfo.kernels) : moduleInfo.kernels[n].name = name}
             info == moduleInfo.kernels[FirstOf(found)]
  <2>1. \/ UNCHANGED <<kernel, asked>>
        \/ /\ found # {} /\ kernel' = [kernel EXCEPT ![k] = NewKernel(info)]
           /\ asked' = [asked EXCEPT ![k] = NothingAsked(info)]
    BY DEF clCreateKernel
  <2>2. CASE UNCHANGED <<kernel, asked>>
    BY <1>2, <2>2 DEF ArgumentsInv, KernelsSet
  <2>3. CASE /\ found # {} /\ kernel' = [kernel EXCEPT ![k] = NewKernel(info)]
             /\ asked' = [asked EXCEPT ![k] = NothingAsked(info)]
    <3>1. FirstOf(found) \in found
      <4>1. found \in SUBSET Nat
        BY <1>1, ReadKernels
      <4> HIDE DEF found
      <4> QED  BY <2>3, <4>1, FirstOfIs
    <3>2. Header(module, info)
      BY <1>1, <3>1, ReadKernels
    <3> HIDE DEF info, found
    <3>3. KernelSet(module, NewKernel(info), NothingAsked(info))
      BY <3>2, NewKernelSet
    <3>4. /\ kernel = [j \in Kernels |-> kernel[j]] /\ asked = [j \in Kernels |-> asked[j]]
          /\ \A j \in Kernels : kernel[j] # NULL => moduleInfo # NULL /\ KernelSet(module, kernel[j], asked[j])
      BY DEF ArgumentsInv, KernelsSet
    <3>5. kernel' = [j \in Kernels |-> IF j = k THEN NewKernel(info) ELSE kernel[j]]
          /\ asked' = [j \in Kernels |-> IF j = k THEN NothingAsked(info) ELSE asked[j]]
      BY <2>3, <3>4
    <3>6. ASSUME NEW j \in Kernels, kernel'[j] # NULL
          PROVE  moduleInfo' # NULL /\ KernelSet(module, kernel'[j], asked'[j])
      BY <1>1, <1>2, <3>3, <3>4, <3>5, <3>6
    <3> QED  BY <1>2, <3>5, <3>6 DEF KernelsSet
  <2> QED  BY <2>1, <2>2, <2>3
<1> QED  BY <1>1, <1>3, CalledKeepsProgram, ExecutionsKept DEF ArgumentsInv

\* With room for all kernels, each of the first kernel objects gets the kernel at its place.
LEMMA CreateKernels ==
    ASSUME ArgumentsInv, NEW list \in Lists, clCreateKernelsInProgram(list)
    PROVE  ArgumentsInv'
<1>1. moduleInfo # NULL /\ UNCHANGED programVars /\ UNCHANGED <<queue, device>>
  BY DEF clCreateKernelsInProgram, Called
<1>2. module' = module /\ moduleInfo' = moduleInfo
  BY <1>1 DEF programVars
<1>3. KernelsSet'
  <2> DEFINE number == Len(moduleInfo.kernels)
             At(k) == CHOOSE i \in DOMAIN list : list[i] = k
             new == {list[i] : i \in 1..number}
  <2>1. \/ UNCHANGED <<kernel, asked>>
        \/ /\ Len(list) >= number
           /\ kernel' = [k \in Kernels |->
                  IF k \in new THEN NewKernel(moduleInfo.kernels[At(k)]) ELSE kernel[k]]
           /\ asked' = [k \in Kernels |->
                  IF k \in new THEN NothingAsked(moduleInfo.kernels[At(k)]) ELSE asked[k]]
    BY DEF clCreateKernelsInProgram
  <2>2. CASE UNCHANGED <<kernel, asked>>
    BY <1>2, <2>2 DEF ArgumentsInv, KernelsSet
  <2>3. CASE /\ Len(list) >= number
             /\ kernel' = [k \in Kernels |->
                    IF k \in new THEN NewKernel(moduleInfo.kernels[At(k)]) ELSE kernel[k]]
             /\ asked' = [k \in Kernels |->
                    IF k \in new THEN NothingAsked(moduleInfo.kernels[At(k)]) ELSE asked[k]]
    <3>1. DOMAIN list = 1..Len(list) /\ Len(list) \in Nat
          /\ \A i, j \in DOMAIN list : i # j => list[i] # list[j]
      <4>1. PICK n : n \in 1..Cardinality(Kernels) /\ list \in [1..n -> Kernels]
        BY DEF Lists
      <4>2. n \in Nat
        BY <4>1
      <4>3. PICK f \in [1..n -> Kernels] : f = list
        BY <4>1
      <4>4. Len(f) = n
        BY <4>2, FunctionIsSeq
      <4> QED  BY <4>1, <4>2, <4>3, <4>4 DEF Lists
    <3>2. number \in Nat
      BY <1>1, ReadKernels
    <3>3. ASSUME NEW k \in new
          PROVE  At(k) \in 1..number
      <4>1. PICK i \in 1..number : list[i] = k
        OBVIOUS
      <4>2. i \in DOMAIN list
        BY <2>3, <3>1, <3>2
      <4>3. At(k) \in DOMAIN list /\ list[At(k)] = k
        BY <4>1, <4>2, Zenon
      <4>4. At(k) = i
        BY <3>1, <4>1, <4>2, <4>3
      <4> QED  BY <4>4
    <3>4. ASSUME NEW k \in new
          PROVE  KernelSet(module, NewKernel(moduleInfo.kernels[At(k)]), NothingAsked(moduleInfo.kernels[At(k)]))
      <4>1. PICK a \in 1..number : a = At(k)
        BY <3>3
      <4>2. PICK info : info = moduleInfo.kernels[a] /\ Header(module, info)
        BY <1>1, ReadKernels
      <4> HIDE DEF At, new, number
      <4> QED  BY <4>1, <4>2, NewKernelSet
    <3>5. /\ kernel = [j \in Kernels |-> kernel[j]] /\ asked = [j \in Kernels |-> asked[j]]
          /\ \A j \in Kernels : kernel[j] # NULL => moduleInfo # NULL /\ KernelSet(module, kernel[j], asked[j])
      BY DEF ArgumentsInv, KernelsSet
    <3> HIDE DEF At, new, number
    <3>6. ASSUME NEW j \in Kernels, kernel'[j] # NULL
          PROVE  moduleInfo' # NULL /\ KernelSet(module, kernel'[j], asked'[j])
      <4>1. CASE j \in new
        BY <1>1, <1>2, <2>3, <3>4, <4>1
      <4>2. CASE j \notin new
        BY <1>1, <1>2, <2>3, <3>5, <3>6, <4>2
      <4> QED  BY <4>1, <4>2
    <3>7. kernel' = [j \in Kernels |-> kernel'[j]] /\ asked' = [j \in Kernels |-> asked'[j]]
      BY <2>3
    <3> QED  BY <1>2, <3>6, <3>7 DEF KernelsSet
  <2> QED  BY <2>1, <2>2, <2>3
<1> QED  BY <1>1, <1>3, CalledKeepsProgram, ExecutionsKept DEF ArgumentsInv

\* clCloneKernel keeps the invariant.
LEMMA CloneKernel ==
    ASSUME ArgumentsInv, NEW k \in Kernels, NEW source \in Kernels, clCloneKernel(k, source)
    PROVE  ArgumentsInv'
<1>1. moduleInfo # NULL /\ UNCHANGED programVars /\ UNCHANGED <<queue, device>>
  BY DEF clCloneKernel, Called
<1>2. module' = module /\ moduleInfo' = moduleInfo
  BY <1>1 DEF programVars
<1>3. /\ kernel = [j \in Kernels |-> kernel[j]] /\ asked = [j \in Kernels |-> asked[j]]
      /\ \A j \in Kernels : kernel[j] # NULL => moduleInfo # NULL /\ KernelSet(module, kernel[j], asked[j])
  BY DEF ArgumentsInv, KernelsSet
<1>4. kernel' = [j \in Kernels |-> IF j = k THEN kernel[source] ELSE kernel[j]]
      /\ asked' = [j \in Kernels |-> IF j = k THEN asked[source] ELSE asked[j]]
  BY <1>3 DEF clCloneKernel, Clone
<1>5. ASSUME NEW j \in Kernels, kernel'[j] # NULL
      PROVE  moduleInfo' # NULL /\ KernelSet(module, kernel'[j], asked'[j])
  BY <1>2, <1>3, <1>4, <1>5
<1>6. KernelsSet'
  BY <1>2, <1>4, <1>5 DEF KernelsSet
<1> QED  BY <1>1, <1>6, CalledKeepsProgram, ExecutionsKept DEF ArgumentsInv

\* One more argument of a kernel object.
LEMMA ArgumentAdded ==
    ASSUME NEW m, NEW o, NEW w, KernelSet(m, o, w), NEW i \in DOMAIN o.info.parameters, NEW a, NEW new,
           SetTo(m, o.info.parameters[i], new, a)
    PROVE  KernelSet(m, [o EXCEPT !.args[i] = new, !.argsSetMask = @ \cup {i}], [w EXCEPT ![i] = a])
<1> DEFINE args == [o.args EXCEPT ![i] = new]
           mask == o.argsSetMask \cup {i}
           given == [w EXCEPT ![i] = a]
           o2 == [info |-> o.info, args |-> args, argsSetMask |-> mask]
<1>1. o = [info |-> o.info, args |-> o.args, argsSetMask |-> o.argsSetMask]
  BY DEF KernelSet
<1>2. [o EXCEPT !.args[i] = new, !.argsSetMask = @ \cup {i}] = o2
  <2>1. PICK info, ar, ma : o = [info |-> info, args |-> ar, argsSetMask |-> ma]
    BY <1>1
  <2>2. o.info = info /\ o.args = ar /\ o.argsSetMask = ma
    BY <2>1
  <2>3. [o EXCEPT !.args[i] = new, !.argsSetMask = @ \cup {i}]
            = [[o EXCEPT !.args = [o.args EXCEPT ![i] = new]] EXCEPT !.argsSetMask = o.argsSetMask \cup {i}]
    BY <2>1, <2>2
  <2>4. [o EXCEPT !.args = args] = [info |-> info, args |-> args, argsSetMask |-> ma]
    BY <2>1
  <2>5. [[info |-> info, args |-> args, argsSetMask |-> ma] EXCEPT !.argsSetMask = mask]
            = [info |-> info, args |-> args, argsSetMask |-> mask]
    OBVIOUS
  <2> QED  BY <2>2, <2>3, <2>4, <2>5
<1>3. /\ Header(m, o.info)
      /\ o.args = [j \in DOMAIN o.info.parameters |-> o.args[j]]
      /\ w = [j \in DOMAIN o.info.parameters |-> w[j]]
      /\ o.argsSetMask \subseteq DOMAIN o.info.parameters
      /\ \A j \in o.argsSetMask : SetTo(m, o.info.parameters[j], o.args[j], w[j])
  BY DEF KernelSet
<1>4. /\ args = [j \in DOMAIN o.info.parameters |-> IF j = i THEN new ELSE o.args[j]]
      /\ given = [j \in DOMAIN o.info.parameters |-> IF j = i THEN a ELSE w[j]]
  BY <1>3
<1>5. ASSUME NEW j \in mask
      PROVE  SetTo(m, o.info.parameters[j], args[j], given[j])
  <2>1. j \in DOMAIN o.info.parameters
    BY <1>3
  <2>2. CASE j = i
    BY <1>4, <2>1, <2>2
  <2>3. CASE j # i
    BY <1>3, <1>4, <2>1, <2>3
  <2> QED  BY <2>2, <2>3
<1>6. mask \subseteq DOMAIN o.info.parameters
  BY <1>3
<1>7. args = [j \in DOMAIN o.info.parameters |-> args[j]] /\ given = [j \in DOMAIN o.info.parameters |-> given[j]]
  BY <1>4
<1> HIDE DEF args, mask, given
<1>8. o2.info = o.info /\ o2.args = args /\ o2.argsSetMask = mask
  OBVIOUS
<1>9. KernelSet(m, o2, given)
  <2>1. o2 = [info |-> o2.info, args |-> o2.args, argsSetMask |-> o2.argsSetMask]
    OBVIOUS
  <2> HIDE DEF o2
  <2> QED  BY <1>3, <1>5, <1>6, <1>7, <1>8, <2>1 DEF KernelSet
<1> QED  BY <1>2, <1>9 DEF given

\* clSetKernelArg keeps the invariant.
LEMMA SetKernelArg ==
    ASSUME ArgumentsInv, NEW k \in Kernels, NEW i, clSetKernelArg(k, i)
    PROVE  ArgumentsInv'
<1>1. moduleInfo # NULL /\ kernel[k] # NULL /\ UNCHANGED programVars /\ UNCHANGED <<queue, device>>
  BY DEF clSetKernelArg, Called
<1>2. module' = module /\ moduleInfo' = moduleInfo
  BY <1>1 DEF programVars
<1>3. KernelsSet'
  <2>1. CASE UNCHANGED <<kernel, asked>>
    BY <1>2, <2>1 DEF ArgumentsInv, KernelsSet
  <2>2. CASE ~UNCHANGED <<kernel, asked>>
    <3>1. PICK a \in Passed(Parameters(k)[i]) :
              LET new == NewArgument(module.context, Parameters(k)[i], a) IN
              /\ i \in DOMAIN Parameters(k)
              /\ new.type # "refused"
              /\ kernel' = [kernel EXCEPT ![k].args[i] = new, ![k].argsSetMask = @ \cup {i}]
              /\ asked' = [asked EXCEPT ![k][i] = a]
      BY <2>2 DEF clSetKernelArg
    <3>2. PICK new : new = NewArgument(module.context, Parameters(k)[i], a)
      OBVIOUS
    <3>3. /\ kernel = [j \in Kernels |-> kernel[j]] /\ asked = [j \in Kernels |-> asked[j]]
          /\ \A j \in Kernels : kernel[j] # NULL => moduleInfo # NULL /\ KernelSet(module, kernel[j], asked[j])
      BY DEF ArgumentsInv, KernelsSet
    <3>4. SetTo(module, kernel[k].info.parameters[i], new, a)
      BY <3>1, <3>2 DEF SetTo, Parameters
    <3>5. KernelSet(module, [kernel[k] EXCEPT !.args[i] = new, !.argsSetMask = @ \cup {i}],
                    [asked[k] EXCEPT ![i] = a])
      <4>1. KernelSet(module, kernel[k], asked[k]) /\ i \in DOMAIN kernel[k].info.parameters
        BY <1>1, <3>1, <3>3 DEF Parameters
      <4> QED  BY <3>4, <4>1, ArgumentAdded
    <3>6. kernel' = [j \in Kernels |->
              IF j = k THEN [kernel[k] EXCEPT !.args[i] = new, !.argsSetMask = @ \cup {i}] ELSE kernel[j]]
      BY <3>1, <3>2, <3>3
    <3>7. asked' = [j \in Kernels |-> IF j = k THEN [asked[k] EXCEPT ![i] = a] ELSE asked[j]]
      BY <3>1, <3>3
    <3>8. ASSUME NEW j \in Kernels, kernel'[j] # NULL
          PROVE  moduleInfo' # NULL /\ KernelSet(module, kernel'[j], asked'[j])
      BY <1>1, <1>2, <3>3, <3>5, <3>6, <3>7, <3>8
    <3>9. kernel' = [j \in Kernels |-> kernel'[j]] /\ asked' = [j \in Kernels |-> asked'[j]]
      BY <3>6, <3>7
    <3> QED  BY <1>2, <3>8, <3>9 DEF KernelsSet
  <2> QED  BY <2>1, <2>2
<1> QED  BY <1>1, <1>3, CalledKeepsProgram, ExecutionsKept DEF ArgumentsInv

\* The execution of a kernel all of whose arguments are set.
LEMMA SnapshotSet ==
    ASSUME ArgumentsInv, NEW k \in Kernels, kernel[k] # NULL, NEW n \in 1..NumQPUs,
           kernel[k].argsSetMask = DOMAIN Parameters(k)
    PROVE  ExecutionSet(module, Execution(k, n))
<1> DEFINE x == Execution(k, n)
<1>1. /\ x.info = kernel[k].info /\ x.numQPUs = n /\ x.executionArguments = kernel[k].args
      /\ x.tmpBuffers = TmpBuffers(k) /\ x.persistentBuffers = PersistentBuffers(k) /\ x.asked = asked[k]
  BY DEF Execution
<1> HIDE DEF x
<1>2. KernelSet(module, kernel[k], asked[k])
  BY DEF ArgumentsInv, KernelsSet
<1>3. Parameters(k) = x.info.parameters
  BY <1>1 DEF Parameters
<1>4. DOMAIN kernel[k].args = DOMAIN x.info.parameters
  BY <1>1, <1>2 DEF KernelSet
<1>5. \A i \in DOMAIN x.info.parameters :
          SetTo(module, x.info.parameters[i], x.executionArguments[i], x.asked[i])
  BY <1>1, <1>2, <1>3 DEF KernelSet
<1>6. Header(module, x.info)
  BY <1>1, <1>2 DEF KernelSet
<1>7. x.tmpBuffers = [i \in OfType(x, "temporary") |->
          TmpBuffer(module.zeroLocal, x.info.parameters[i], x.executionArguments[i])]
  BY <1>1, <1>3, <1>4 DEF TmpBuffers, OfType
<1>8. x.persistentBuffers = [i \in OfType(x, "buffer") |->
           IF x.executionArguments[i].buffer = NULL THEN 0
           ELSE Buffers[x.executionArguments[i].buffer].address]
  BY <1>1, <1>3, <1>4 DEF PersistentBuffers, OfType
<1>9. x.numQPUs \in 1..NumQPUs
  BY <1>1
<1>10. ExecutionSet(module, x)
  BY <1>5, <1>6, <1>7, <1>8, <1>9 DEF ExecutionSet
<1> QED  BY <1>10 DEF x

\* clEnqueueNDRangeKernel keeps the invariant.
LEMMA Enqueue ==
    ASSUME ArgumentsInv, NEW k \in Kernels, NEW n \in 1..NumQPUs, clEnqueueNDRangeKernel(k, n)
    PROVE  ArgumentsInv'
<1>1. moduleInfo # NULL /\ kernel[k] # NULL /\ UNCHANGED programVars /\ UNCHANGED <<kernel, asked, device>>
  BY DEF clEnqueueNDRangeKernel, Called
<1>2. module' = module /\ moduleInfo' = moduleInfo
  BY <1>1 DEF programVars
<1>3. ExecutionsSet'
  <2>1. CASE UNCHANGED queue
    BY <1>1, <2>1, ExecutionsKept
  <2>2. CASE ~UNCHANGED queue
    <3>1. kernel[k].argsSetMask = DOMAIN Parameters(k) /\ queue' = Append(queue, Execution(k, n))
      BY <2>2 DEF clEnqueueNDRangeKernel
    <3>2. PICK x : x = Execution(k, n) /\ ExecutionSet(module, x)
      BY <1>1, <3>1, SnapshotSet
    <3>3. IsList(queue) /\ \A j \in 1..Len(queue) : ExecutionSet(module, queue[j])
      BY DEF ArgumentsInv, ExecutionsSet
    <3>4. PICK S : queue \in Seq(S)
      BY <3>3, ListIsSeq
    <3>5. queue \in Seq(S \cup {x}) /\ x \in S \cup {x}
      BY <3>4
    <3>6. /\ queue' \in Seq(S \cup {x}) /\ Len(queue') = Len(queue) + 1
          /\ \A j \in 1..Len(queue) : queue'[j] = queue[j]
          /\ queue'[Len(queue) + 1] = x
      BY <3>1, <3>2, <3>5, AppendProperties
    <3>7. IsList(queue')
      <4>1. PICK q \in Seq(S \cup {x}) : q = queue'
        BY <3>6
      <4> QED  BY <4>1 DEF IsList
    <3>8. ASSUME NEW j \in 1..Len(queue')
          PROVE  ExecutionSet(module, queue'[j])
      <4>1. Len(queue) \in Nat
        BY <3>4
      <4> QED  BY <3>2, <3>3, <3>6, <4>1
    <3> QED  BY <1>1, <1>2, <3>7, <3>8 DEF ArgumentsInv, ExecutionsSet
  <2> QED  BY <2>1, <2>2
<1>4. KernelsSet'
  BY <1>1, <1>2 DEF ArgumentsInv, KernelsSet
<1> QED  BY <1>1, <1>3, <1>4, CalledKeepsProgram DEF ArgumentsInv

\* The buffer depends on the module and the snapshot alone.
LEMMA FilledIs ==
    ASSUME AsCompiled, NEW x
    PROVE  Filled(x) = Layout(module, x)
<1>1. /\ globalData = DataSegment(Headers(module)) /\ binary = Compiled(module)
      /\ moduleInfo.stackFrameSize = module.stackWords
  <2>1. Headers(module).stackWords = module.stackWords
    BY Zenon DEF Headers, HeadersAt
  <2> QED  BY <2>1 DEF AsCompiled, HeaderOf
<1>2. get_size(x) = (RawSize(module, x) \div PAGE_ALIGNMENT + 1) * PAGE_ALIGNMENT
  BY <1>1, Zenon DEF get_size, RawSize
<1> QED  BY <1>1, <1>2, ZenonT(30) DEF Filled, Layout, InstructionsOf, StackOf

\* executeKernel keeps the invariant.
LEMMA Execute ==
    ArgumentsInv /\ executeKernel => ArgumentsInv'
<1> SUFFICES ASSUME ArgumentsInv, executeKernel PROVE ArgumentsInv'
  OBVIOUS
<1>1. UNCHANGED programVars /\ UNCHANGED <<kernel, asked, result>> /\ queue # <<>>
  BY DEF executeKernel
<1>2. moduleInfo # NULL /\ IsList(queue) /\ \A j \in 1..Len(queue) : ExecutionSet(module, queue[j])
  BY <1>1 DEF ArgumentsInv, ExecutionsSet
<1>3. module' = module /\ moduleInfo' = moduleInfo
  BY <1>1 DEF programVars
<1>4. PICK S : queue \in Seq(S)
  BY <1>2, ListIsSeq
<1>5. /\ queue' \in Seq(S) /\ Len(queue') = Len(queue) - 1 /\ Head(queue) = queue[1] /\ 1 \in 1..Len(queue)
      /\ \A j \in 1..Len(queue') : queue'[j] = queue[j + 1] /\ j + 1 \in 1..Len(queue)
  <2>1. queue' = Tail(queue)
    BY DEF executeKernel
  <2>2. /\ Tail(queue) \in Seq(S) /\ Len(Tail(queue)) = Len(queue) - 1
        /\ \A j \in 1..Len(Tail(queue)) : Tail(queue)[j] = queue[j + 1]
    BY <1>1, <1>4, HeadTailProperties
  <2>3. Len(queue) \in Nat /\ Len(queue) # 0 /\ Head(queue) = queue[1]
    BY <1>1, <1>4, EmptySeq
  <2> QED  BY <2>1, <2>2, <2>3
<1>6. IsList(queue')
  <2>1. PICK q \in Seq(S) : q = queue'
    BY <1>5
  <2> QED  BY <2>1 DEF IsList
<1>7. \A j \in 1..Len(queue') : ExecutionSet(module, queue'[j])
  BY <1>2, <1>5
<1>8. device' # NULL => /\ ExecutionSet(module, device'.execution)
                        /\ device' = Layout(module, device'.execution)
  <2>1. PICK x : x = Head(queue) /\ ExecutionSet(module, x)
    BY <1>2, <1>5
  <2>2. device' \in {NULL, Filled(x)}
    BY <2>1 DEF executeKernel
  <2>3. Filled(x) = Layout(module, x)
    BY <1>2, FilledIs DEF ArgumentsInv, ProgramRead
  <2>4. Layout(module, x).execution = x
    BY DEF Layout
  <2> QED  BY <2>1, <2>2, <2>3, <2>4
<1>9. ExecutionsSet'
  BY <1>2, <1>3, <1>6, <1>7, <1>8 DEF ExecutionsSet
<1>10. KernelsSet'
  BY <1>1, <1>3 DEF ArgumentsInv, KernelsSet
<1> QED  BY <1>1, <1>2, <1>9, <1>10, CalledKeepsProgram DEF ArgumentsInv

\* Every step keeps the invariant.
LEMMA ArgumentsNext ==
    ArgumentsInv /\ [Next]_vars => ArgumentsInv'
<1> SUFFICES ASSUME ArgumentsInv, [Next]_vars PROVE ArgumentsInv'
  OBVIOUS
<1>1. CASE extractModuleInfo
  BY <1>1, ExtractRead
<1>2. CASE \E k \in Kernels : \E name \in Names : clCreateKernel(k, name)
  BY <1>2, CreateKernel
<1>3. CASE \E list \in Lists : clCreateKernelsInProgram(list)
  BY <1>3, CreateKernels
<1>4. CASE \E k, source \in Kernels : clCloneKernel(k, source)
  BY <1>4, CloneKernel
<1>5. CASE \E k \in Kernels : \E i \in ArgIndices(k) : clSetKernelArg(k, i)
  BY <1>5, SetKernelArg
<1>6. CASE \E k \in Kernels : \E n \in LocalSizes : clEnqueueNDRangeKernel(k, n)
  <2>1. LocalSizes \subseteq 1..NumQPUs
    BY KernelArgumentsAssumption DEF KernelArgumentsAssumption
  <2> QED  BY <1>6, <2>1, Enqueue
<1>7. CASE \E k \in Kernels : clEnqueueTask(k)
  <2>1. 1 \in 1..NumQPUs
    BY KernelArgumentsAssumption DEF KernelArgumentsAssumption
  <2> QED  BY <1>7, <2>1, Enqueue DEF clEnqueueTask
<1>8. CASE executeKernel
  BY <1>8, Execute
<1>9. CASE UNCHANGED vars
  <2>1. UNCHANGED <<module, binary, moduleInfo, globalData, kernel, asked, queue, device, result>>
    BY <1>9 DEF vars
  <2> QED  BY <2>1 DEF ArgumentsInv, ProgramRead, AsCompiled, KernelsSet, ExecutionsSet
<1> QED  BY <1>1, <1>2, <1>3, <1>4, <1>5, <1>6, <1>7, <1>8, <1>9 DEF Next

\* The inductive invariant holds in every state.
LEMMA ArgumentsInvariant ==
    Spec => []ArgumentsInv
BY ArgumentsInit, ArgumentsNext, PTL DEF Spec

---------------------------------------------------------------------------------
(* What the queries report *)

LEMMA OriginalIs ==
    ASSUME module \in Modules, NEW info, Header(module, info)
    PROVE  \E n \in 1..Len(module.kernels) : \E offset :
               /\ Original(info.name) = module.kernels[n]
               /\ info = Headers(module).kernels[n]
               /\ info = Packed(module.kernels[n], offset)
<1>1. PICK n \in 1..Len(module.kernels) : info = Headers(module).kernels[n]
  BY DEF Header
<1>2. PICK offset : info = Packed(module.kernels[n], offset)
  BY <1>1, HeadersAre
<1>3. info.name = module.kernels[n].name
  BY <1>2 DEF Packed
<1> DEFINE named == {l \in 1..Len(module.kernels) : module.kernels[l].name = info.name}
<1>4. named = {n}
  BY <1>3, ModulesAssumption DEF ModulesAssumption
<1>5. FirstOf(named) = n
  <2>1. n \in Nat
    BY HeadersAre
  <2>2. {n} \in SUBSET Nat /\ {n} # {}
    BY <2>1
  <2>3. FirstOf({n}) \in {n}
    BY <2>2, FirstOfIs
  <2> QED  BY <1>4, <2>3
<1>6. Original(info.name) = module.kernels[n]
  BY <1>5 DEF Original
<1> QED  BY <1>1, <1>2, <1>6

\* The metadata of a kernel in its binary form.
MetaDataAlike(given, packed) ==
    /\ Len(packed) = Len(given) /\ Len(given) \in Nat
    /\ (\E S : packed \in Seq(S)) /\ (\E S : given \in Seq(S))
    /\ \A i \in 1..Len(given) :
           /\ given[i] = [type |-> given[i].type, value |-> given[i].value]
           /\ getType(packed[i]) = given[i].type
           /\ getValue(packed[i]) = given[i].value

\* Metadata in its binary form tells what the compiler was given.
LEMMA MetaDataKept ==
    ASSUME module \in Modules, NEW n \in 1..Len(module.kernels), NEW offset
    PROVE  MetaDataAlike(module.kernels[n].metaData, Packed(module.kernels[n], offset).metaData)
<1>0. PICK given, packed : given = module.kernels[n].metaData /\ packed = Packed(module.kernels[n], offset).metaData
  OBVIOUS
<1>1. /\ IsList(given)
      /\ \A i \in 1..Len(given) : /\ given[i] = [type |-> given[i].type, value |-> given[i].value]
                                  /\ MetaDataGiven(given[i].type, given[i].value)
  BY <1>0, ModulesAssumption DEF ModulesAssumption
<1>2. packed = [i \in 1..Len(given) |-> setValue(given[i].type, given[i].value)]
  BY <1>0 DEF Packed
<1>3. \A i \in 1..Len(given) :
          /\ setValue(given[i].type, given[i].value) \in Seq(Nat)
          /\ getType(setValue(given[i].type, given[i].value)) = given[i].type
          /\ getValue(setValue(given[i].type, given[i].value)) = given[i].value
  BY <1>1, ValueIsKept
<1>4. Len(given) \in Nat
  BY <1>1 DEF IsList
<1>5. PICK l \in Nat : l = Len(given)
  BY <1>4
<1>6. PICK f \in [1..l -> Seq(Nat)] : f = packed
  BY <1>2, <1>3, <1>5
<1>7. f \in Seq(Seq(Nat)) /\ Len(f) = l
  BY FunctionIsSeq
<1>8. \E S : given \in Seq(S)
  BY <1>1, ListIsSeq
<1>9. /\ Len(packed) = Len(given) /\ \E S : packed \in Seq(S)
  BY <1>5, <1>6, <1>7
<1>10. \A i \in 1..Len(given) : getType(packed[i]) = given[i].type /\ getValue(packed[i]) = given[i].value
  BY <1>2, <1>3
<1>11. MetaDataAlike(given, packed)
  BY <1>1, <1>4, <1>8, <1>9, <1>10 DEF MetaDataAlike
<1> QED  BY <1>0, <1>11

\* A size is found in the binary metadata where it was given.
LEMMA SizeIsKept ==
    ASSUME module \in Modules, NEW n \in 1..Len(module.kernels), NEW offset, NEW type
    PROVE  SizeFromMetaData(Packed(module.kernels[n], offset).metaData, type)
               = SizeGiven(module.kernels[n].metaData, type)
<1>1. PICK given, packed : given = module.kernels[n].metaData /\ packed = Packed(module.kernels[n], offset).metaData
  OBVIOUS
<1>0. MetaDataAlike(given, packed)
  BY <1>1, MetaDataKept
<1>2. /\ Len(packed) = Len(given) /\ Len(given) \in Nat
      /\ \A i \in 1..Len(given) : /\ getType(packed[i]) = given[i].type
                                  /\ getValue(packed[i]) = given[i].value
  BY <1>0, <1>1 DEF MetaDataAlike
<1> DEFINE there == {i \in 1..Len(given) : given[i].type = type}
<1>3. findMetaData(packed, type) = there
  BY <1>2 DEF findMetaData
<1>4. CASE there = {}
  <2>1. SizeFromMetaData(packed, type) = 0 /\ SizeGiven(given, type) = 0
    BY <1>3, <1>4 DEF SizeFromMetaData, SizeGiven
  <2> QED  BY <1>1, <2>1
<1>5. CASE there # {}
  <2>1. FirstOf(there) \in there
    <3>1. there \in SUBSET Nat
      BY <1>2
    <3> HIDE DEF there
    <3> QED  BY <1>5, <3>1, FirstOfIs
  <2>2. SizeFromMetaData(packed, type) = getValue(packed[FirstOf(there)])
    BY <1>3, <1>5 DEF SizeFromMetaData
  <2>3. SizeGiven(given, type) = given[FirstOf(there)].value
    BY <1>5 DEF SizeGiven
  <2> QED  BY <1>1, <1>2, <2>1, <2>2, <2>3
<1> QED  BY <1>4, <1>5

\* buildAttributeString names the attributes that were given, in their order.
LEMMA AttributesAreKept ==
    ASSUME module \in Modules, NEW n \in 1..Len(module.kernels), NEW offset
    PROVE  buildAttributeString(Packed(module.kernels[n], offset).metaData)
               = Selected(module.kernels[n].metaData,
                          {i \in 1..Len(module.kernels[n].metaData) :
                               module.kernels[n].metaData[i].type \in Attributes})
<1>1. PICK given, packed : given = module.kernels[n].metaData /\ packed = Packed(module.kernels[n], offset).metaData
  OBVIOUS
<1>0. MetaDataAlike(given, packed)
  BY <1>1, MetaDataKept
<1>2. /\ Len(packed) = Len(given) /\ Len(given) \in Nat
      /\ (\E S : packed \in Seq(S)) /\ (\E S : given \in Seq(S))
      /\ \A i \in 1..Len(given) : /\ given[i] = [type |-> given[i].type, value |-> given[i].value]
                                  /\ getType(packed[i]) = given[i].type
                                  /\ getValue(packed[i]) = given[i].value
  BY <1>0, <1>1 DEF MetaDataAlike
<1> DEFINE I == {i \in 1..Len(given) : given[i].type \in Attributes}
           shown == Selected(packed, I)
           wanted == Selected(given, I)
<1>3. {i \in 1..Len(packed) : getType(packed[i]) \in Attributes} = I
  BY <1>2
<1>4. PICK S, T : packed \in Seq(S) /\ given \in Seq(T)
  BY <1>2
<1> HIDE DEF I
<1>5. /\ shown \in Seq(S) /\ wanted \in Seq(T) /\ Len(shown) = Len(wanted)
      /\ \A j \in 1..Len(shown) : \E i \in 1..Len(packed) : shown[j] = packed[i] /\ wanted[j] = given[i]
  BY <1>2, <1>4, SelectedAlike
<1>6. buildAttributeString(packed) = [j \in 1..Len(shown) |-> [type |-> getType(shown[j]), value |-> getValue(shown[j])]]
  BY <1>3 DEF buildAttributeString
<1> HIDE DEF shown, wanted
<1>7. ASSUME NEW j \in 1..Len(shown)
      PROVE  [type |-> getType(shown[j]), value |-> getValue(shown[j])] = wanted[j]
  <2>1. PICK i \in 1..Len(given) : shown[j] = packed[i] /\ wanted[j] = given[i]
    BY <1>2, <1>5
  <2> QED  BY <1>2, <2>1
<1>8. wanted = [j \in 1..Len(shown) |-> wanted[j]]
  BY <1>5
<1>9. buildAttributeString(packed) = wanted
  BY <1>6, <1>7, <1>8
<1> QED  BY <1>1, <1>9 DEF wanted, I

\* The parameters of a compiled kernel.
LEMMA ParametersAre ==
    ASSUME NEW m \in Modules, NEW info, Header(m, info)
    PROVE  /\ info \in KernelHeaders /\ Len(info.parameters) \in Nat
           /\ DOMAIN info.parameters = 1..Len(info.parameters)
           /\ \A i \in 1..Len(info.parameters) :
                  /\ info.parameters[i] \in ParameterHeaders
                  /\ Is(info.parameters[i], "Pointer") \/ Is(info.parameters[i], "ByValue")
                         => info.parameters[i].vectorElements = 1
<1>1. PICK n \in 1..Len(m.kernels) : info = Headers(m).kernels[n]
  BY DEF Header
<1>2. PICK offset : info = Packed(m.kernels[n], offset) /\ info \in KernelHeaders
  BY <1>1, HeadersAre
<1>3. info.parameters = m.kernels[n].parameters
  BY <1>2 DEF Packed
<1>4. info.parameters \in Seq(ParameterHeaders)
  BY <1>2 DEF KernelHeaders
<1>5. \A i \in 1..Len(m.kernels[n].parameters) :
          LET p == m.kernels[n].parameters[i] IN
          Is(p, "Pointer") \/ Is(p, "ByValue") => p.vectorElements = 1
  BY ModulesAssumption DEF ModulesAssumption
<1> QED  BY <1>2, <1>3, <1>4, <1>5, ElementOfSeq

\* The queries, from the invariant.
LEMMA ObservedFromInv ==
    ArgumentsInv => ObservedAsCompiled
<1> SUFFICES ASSUME ArgumentsInv, NEW k \in Kernels, kernel[k] # NULL
             PROVE  LET c == Original(kernel[k].info.name)
                        group == getWorkGroupInfo(k)
                    IN
                    /\ getInfo(k).NUM_ARGS = Len(c.parameters)
                    /\ getInfo(k).ATTRIBUTES = Selected(c.metaData, {n \in 1..Len(c.metaData) : c.metaData[n].type \in Attributes})
                    /\ group.COMPILE_WORK_GROUP_SIZE = c.workGroupSize
                    /\ group.LOCAL_MEM_SIZE = SizeGiven(c.metaData, KERNEL_LOCAL_MEMORY_SIZE)
                    /\ group.PRIVATE_MEM_SIZE = SizeGiven(c.metaData, KERNEL_PRIVATE_MEMORY_SIZE)
                    /\ group.WORK_GROUP_SIZE = NumQPUs * group.PREFERRED_WORK_GROUP_SIZE_MULTIPLE
                    /\ \A i \in DOMAIN c.parameters :
                          /\ getArgInfo(k, i).NAME = c.parameters[i].name
                          /\ getArgInfo(k, i).TYPE_NAME = c.parameters[i].typeName
                          /\ getArgInfo(k, i).ADDRESS_QUALIFIER
                                = IF c.parameters[i].addressSpace = "GENERIC" THEN "PRIVATE"
                                  ELSE c.parameters[i].addressSpace
                          /\ getArgInfo(k, i).TYPE_QUALIFIER
                                = c.parameters[i].flags \cap {"Constant", "Restricted", "Volatile"}
  BY Zenon DEF ObservedAsCompiled
<1>1. module \in Modules /\ KernelSet(module, kernel[k], asked[k])
  BY DEF ArgumentsInv, ProgramRead, KernelsSet
<1>2. PICK info : info = kernel[k].info /\ Header(module, info)
  BY <1>1 DEF KernelSet
<1>3. PICK n \in 1..Len(module.kernels) : \E offset :
          /\ Original(info.name) = module.kernels[n] /\ info = Packed(module.kernels[n], offset)
  BY <1>1, <1>2, OriginalIs
<1>4. PICK offset : Original(info.name) = module.kernels[n] /\ info = Packed(module.kernels[n], offset)
  BY <1>3
<1>5. PICK c : c = module.kernels[n]
  OBVIOUS
<1>6. info.parameters = c.parameters /\ info.workGroupSize = c.workGroupSize
  BY <1>4, <1>5 DEF Packed
<1>7. /\ SizeFromMetaData(info.metaData, KERNEL_LOCAL_MEMORY_SIZE) = SizeGiven(c.metaData, KERNEL_LOCAL_MEMORY_SIZE)
      /\ SizeFromMetaData(info.metaData, KERNEL_PRIVATE_MEMORY_SIZE) = SizeGiven(c.metaData, KERNEL_PRIVATE_MEMORY_SIZE)
  BY <1>1, <1>4, <1>5, SizeIsKept
<1>8. buildAttributeString(info.metaData)
          = Selected(c.metaData, {i \in 1..Len(c.metaData) : c.metaData[i].type \in Attributes})
  BY <1>1, <1>4, <1>5, AttributesAreKept
<1>9. Original(kernel[k].info.name) = c
  BY <1>2, <1>4, <1>5
<1>10. getInfo(k).NUM_ARGS = Len(c.parameters) /\ getInfo(k).ATTRIBUTES = buildAttributeString(info.metaData)
  BY <1>2, <1>6 DEF getInfo
<1>11. /\ getWorkGroupInfo(k).COMPILE_WORK_GROUP_SIZE = c.workGroupSize
       /\ getWorkGroupInfo(k).LOCAL_MEM_SIZE = SizeFromMetaData(info.metaData, KERNEL_LOCAL_MEMORY_SIZE)
       /\ getWorkGroupInfo(k).PRIVATE_MEM_SIZE = SizeFromMetaData(info.metaData, KERNEL_PRIVATE_MEMORY_SIZE)
       /\ getWorkGroupInfo(k).WORK_GROUP_SIZE = NumQPUs * getWorkGroupInfo(k).PREFERRED_WORK_GROUP_SIZE_MULTIPLE
  BY <1>2, <1>6 DEF getWorkGroupInfo
<1>12. \A i \in DOMAIN c.parameters :
          /\ getArgInfo(k, i).NAME = c.parameters[i].name
          /\ getArgInfo(k, i).TYPE_NAME = c.parameters[i].typeName
          /\ getArgInfo(k, i).ADDRESS_QUALIFIER
                = IF c.parameters[i].addressSpace = "GENERIC" THEN "PRIVATE"
                  ELSE c.parameters[i].addressSpace
          /\ getArgInfo(k, i).TYPE_QUALIFIER
                = c.parameters[i].flags \cap {"Constant", "Restricted", "Volatile"}
  <2> SUFFICES ASSUME NEW i \in DOMAIN c.parameters
               PROVE  /\ getArgInfo(k, i).NAME = c.parameters[i].name
                      /\ getArgInfo(k, i).TYPE_NAME = c.parameters[i].typeName
                      /\ getArgInfo(k, i).ADDRESS_QUALIFIER
                            = IF c.parameters[i].addressSpace = "GENERIC" THEN "PRIVATE"
                              ELSE c.parameters[i].addressSpace
                      /\ getArgInfo(k, i).TYPE_QUALIFIER
                            = c.parameters[i].flags \cap {"Constant", "Restricted", "Volatile"}
    OBVIOUS
  <2>1. Parameters(k)[i] = c.parameters[i]
    BY <1>2, <1>6 DEF Parameters
  <2>2. c.parameters[i].addressSpace \in AddressSpaces
    <3>1. c.parameters[i] \in ParameterHeaders
      BY <1>1, <1>2, <1>6, ParametersAre
    <3> QED  BY <3>1 DEF ParameterHeaders
  <2>3. AddressQualifier(c.parameters[i].addressSpace)
            = IF c.parameters[i].addressSpace = "GENERIC" THEN "PRIVATE"
              ELSE c.parameters[i].addressSpace
    BY <2>2 DEF AddressQualifier, AddressSpaces
  <2> QED  BY <2>1, <2>3 DEF getArgInfo
<1> QED  BY <1>7, <1>8, <1>9, <1>10, <1>11, <1>12, Zenon

\* What the queries for a kernel report is what the compiler wrote into the binary,
\* whatever it wrote; a parameter of the generic address space is reported as private.
THEOREM QueriesReportTheCompiled ==
    Spec => []ObservedAsCompiled
BY ArgumentsInvariant, ObservedFromInv, PTL

---------------------------------------------------------------------------------
(* Where words lie *)

\* The lengths of the first sequences, summed up, are where each of them starts.
Sums(lens, ss, n) == lens[0] = 0 /\ \A k \in 1..n : lens[k] = lens[k - 1] + Len(ss[k])

\* The sums of the lengths are determined by the lengths.
LEMMA SumsAreOne ==
    ASSUME NEW ss, NEW n \in Nat, NEW f, NEW g, Sums(f, ss, n), Sums(g, ss, n)
    PROVE  \A k \in 0..n : f[k] = g[k]
<1> DEFINE T == {k \in Nat : k <= n => f[k] = g[k]}
<1>1. 0 \in T
  BY DEF Sums
<1>2. ASSUME NEW k \in Nat, k \in T
      PROVE  k + 1 \in T
  <2>1. ASSUME k + 1 <= n
        PROVE  f[k + 1] = g[k + 1]
    <3>1. k + 1 \in 1..n /\ k + 1 - 1 = k /\ f[k] = g[k]
      BY <1>2, <2>1
    <3> QED  BY <3>1 DEF Sums
  <2>2. k + 1 \in Nat
    OBVIOUS
  <2> QED  BY <2>1, <2>2
<1> HIDE DEF T
<1>3. \A k \in Nat : k \in T
  BY <1>1, <1>2, SetInduction
<1> QED  BY <1>3 DEF T

\* Every sequence lies in the flattened one after the sum of the lengths before it.
LEMMA PartsAre ==
    ASSUME NEW V, NEW ss \in Seq(Seq(V)), NEW lens, Sums(lens, ss, Len(ss))
    PROVE  /\ FlattenSeq(ss) \in Seq(V) /\ Len(FlattenSeq(ss)) = lens[Len(ss)]
           /\ \A k \in 1..Len(ss) : lens[k - 1] \in Nat /\ Holds(FlattenSeq(ss), lens[k - 1], ss[k])
<1>1. FlattenSeq(ss) \in Seq(V) /\ Len(ss) \in Nat
  BY FlattenPlaces
<1>2. PICK off : Places(ss, Len(ss), FlattenSeq(ss), off)
  BY FlattenPlaces
<1>3. Sums(off, ss, Len(ss))
  BY <1>2 DEF Places, Sums
<1>4. \A k \in 0..Len(ss) : off[k] = lens[k]
  BY <1>1, <1>3, SumsAreOne
<1>5. Holds(FlattenSeq(ss), 0, FlattenSeq(ss)) /\ Len(FlattenSeq(ss)) \in Nat
  BY <1>1, HoldsItself
<1>6. Len(FlattenSeq(ss)) = lens[Len(ss)]
  BY <1>1, <1>2, <1>4 DEF Places
<1>7. ASSUME NEW k \in 1..Len(ss)
      PROVE  lens[k - 1] \in Nat /\ Holds(FlattenSeq(ss), lens[k - 1], ss[k])
  <2>1. k - 1 \in 0..Len(ss)
    BY <1>1
  <2>2. PICK z \in Nat : z = 0
    OBVIOUS
  <2>3. off[k - 1] \in Nat /\ Holds(FlattenSeq(ss), z + off[k - 1], ss[k])
    BY <1>2, <1>5, <2>2, HoldsPlaces
  <2>4. z + off[k - 1] = off[k - 1]
    BY <2>2, <2>3
  <2> QED  BY <1>4, <2>1, <2>3, <2>4
<1> QED  BY <1>1, <1>6, <1>7

\* Multiples of a natural.
LEMMA Times ==
    ASSUME NEW k \in Nat \ {0}, NEW l \in Nat
    PROVE  /\ k * l \in Nat /\ (k - 1) * l \in Nat /\ k * l = (k - 1) * l + l
           /\ 0 * l = 0 /\ l * 0 = 0 /\ 1 * l = l
OBVIOUS

\* Sequences of the same length.
LEMMA EqualPartsAre ==
    ASSUME NEW V, NEW ss \in Seq(Seq(V)), NEW l \in Nat, \A k \in 1..Len(ss) : Len(ss[k]) = l
    PROVE  /\ FlattenSeq(ss) \in Seq(V) /\ Len(FlattenSeq(ss)) = Len(ss) * l
           /\ \A k \in 1..Len(ss) : (k - 1) * l \in Nat /\ Holds(FlattenSeq(ss), (k - 1) * l, ss[k])
<1>1. PICK n \in Nat : n = Len(ss)
  OBVIOUS
<1> DEFINE lens == [k \in 0..n |-> k * l]
<1>2. lens[0] = 0
  BY Times
<1>3. ASSUME NEW k \in 1..n
      PROVE  lens[k] = lens[k - 1] + Len(ss[k]) /\ lens[k - 1] = (k - 1) * l
  <2>1. k \in Nat \ {0} /\ k \in 0..n /\ k - 1 \in 0..n
    OBVIOUS
  <2>2. lens[k] = k * l /\ lens[k - 1] = (k - 1) * l
    BY <2>1
  <2>3. k * l = (k - 1) * l + l
    BY <2>1, Times
  <2> QED  BY <1>1, <2>2, <2>3
<1>4. Sums(lens, ss, Len(ss))
  BY <1>1, <1>2, <1>3 DEF Sums
<1>5. lens[n] = n * l
  OBVIOUS
<1> HIDE DEF lens
<1>6. /\ FlattenSeq(ss) \in Seq(V) /\ Len(FlattenSeq(ss)) = lens[Len(ss)]
      /\ \A k \in 1..Len(ss) : lens[k - 1] \in Nat /\ Holds(FlattenSeq(ss), lens[k - 1], ss[k])
  BY <1>4, PartsAre
<1> QED  BY <1>1, <1>3, <1>5, <1>6

\* The first sequences are as long as where the next one starts.
LEMMA FirstParts ==
    ASSUME NEW V, NEW ss \in Seq(Seq(V)), NEW off, Places(ss, Len(ss), FlattenSeq(ss), off),
           NEW k \in 0..Len(ss), NEW pre, pre = [i \in 1..k |-> ss[i]]
    PROVE  Len(FlattenSeq(pre)) = off[k]
<1>1. k \in Nat
  OBVIOUS
<1>2. PICK f \in [1..k -> Seq(V)] : f = pre
  <2>1. \A i \in 1..k : ss[i] \in Seq(V)
    OBVIOUS
  <2> QED  BY <2>1
<1>3. f \in Seq(Seq(V)) /\ Len(f) = k
  BY <1>1, FunctionIsSeq
<1>4. Sums(off, f, k)
  BY <1>2 DEF Sums, Places
<1>5. Len(FlattenSeq(f)) = off[k]
  BY <1>3, <1>4, PartsAre
<1> QED  BY <1>2, <1>5

\* Words found together are what WordsAt finds.
LEMMA HeldFrom ==
    ASSUME NEW W, NEW data, Len(data) \in Nat, NEW a \in Nat, NEW b \in Nat, NEW seg \in Seq(W),
           NEW part \in Seq(W), Holds(data, a, seg), Holds(seg, b, part)
    PROVE  Holds(data, a + b, part)
<1>1. PICK l \in Nat, n \in Nat : l = Len(seg) /\ n = Len(part)
  OBVIOUS
<1>2. a + l <= Len(data) /\ \A j \in 1..l : data[a + j] = seg[j]
  BY <1>1 DEF Holds
<1>3. b + n <= l /\ \A j \in 1..n : seg[b + j] = part[j]
  BY <1>1 DEF Holds
<1>4. \A j \in 1..n : b + j \in 1..l /\ a + (b + j) = a + b + j
  BY <1>3
<1> QED  BY <1>1, <1>2, <1>3, <1>4 DEF Holds

---------------------------------------------------------------------------------
(* Where the code of a kernel lies *)

HeadersWithout(m) == HeadersAt(m, [k \in 1..Len(m.kernels) |-> 0])
CodeStart(m) == Len(writeModule(HeadersWithout(m)))
CodeBefore(m, k) == Len(FlattenSeq([i \in 1..(k - 1) |-> Instructions(m.kernels[i])]))

\* The offset of a kernel is where its code starts.
LEMMA OffsetIs ==
    ASSUME NEW m \in Modules, NEW n \in 1..Len(m.kernels)
    PROVE  Headers(m).kernels[n] = Packed(m.kernels[n], CodeStart(m) + CodeBefore(m, n))
<1> DEFINE offsets == [k \in 1..Len(m.kernels) |-> CodeStart(m) + CodeBefore(m, k)]
<1>1. Headers(m) = HeadersAt(m, offsets)
  BY Zenon DEF Headers, CodeStart, CodeBefore, HeadersWithout
<1>2. HeadersAt(m, offsets).kernels[n] = Packed(m.kernels[n], offsets[n])
  BY DEF HeadersAt
<1>3. offsets[n] = CodeStart(m) + CodeBefore(m, n)
  OBVIOUS
<1> QED  BY <1>1, <1>2, <1>3

\* The length of a header does not depend on the offset in it.
LEMMA SameLength ==
    ASSUME NEW k, NEW a, NEW b, Packed(k, a) \in KernelHeaders, Packed(k, b) \in KernelHeaders,
           NEW V, NEW W, KernelWordsIn(Packed(k, a), V), KernelWordsIn(Packed(k, b), W)
    PROVE  Len(writeKernel(Packed(k, a))) = Len(writeKernel(Packed(k, b)))
<1>1. PICK x \in KernelHeaders : x = Packed(k, a) /\ KernelWordsIn(x, V)
  OBVIOUS
<1>2. PICK y \in KernelHeaders : y = Packed(k, b) /\ KernelWordsIn(y, W)
  OBVIOUS
<1>3. x.name = y.name /\ x.parameters = y.parameters /\ x.metaData = y.metaData
  BY <1>1, <1>2 DEF Packed
<1>4. ParameterParts(x) = ParameterParts(y) /\ MetaDataParts(x) = MetaDataParts(y)
  BY <1>3 DEF ParameterParts, MetaDataParts
<1>5. Len(writeKernel(x)) = 3 + Len(writeByteContainer(x.name))
                  + Len(FlattenSeq(ParameterParts(x))) + Len(FlattenSeq(MetaDataParts(x)))
  BY <1>1, WrittenKernel
<1>6. Len(writeKernel(y)) = 3 + Len(writeByteContainer(y.name))
                  + Len(FlattenSeq(ParameterParts(y))) + Len(FlattenSeq(MetaDataParts(y)))
  BY <1>2, WrittenKernel
<1> QED  BY <1>1, <1>2, <1>3, <1>4, <1>5, <1>6

\* The headers with no offsets are those of a module too.
LEMMA WithoutIsModule ==
    ASSUME NEW m \in Modules
    PROVE  /\ IsModule(HeadersWithout(m))
           /\ \A k \in 1..Len(m.kernels) : HeadersWithout(m).kernels[k] = Packed(m.kernels[k], 0)
           /\ Len(HeadersWithout(m).kernels) = Len(m.kernels)
<1> DEFINE z == HeadersWithout(m)
<1>1. /\ z.kernels = [k \in 1..Len(m.kernels) |-> Packed(m.kernels[k], 0)]
      /\ z.globalData = m.globalData /\ z.stackWords = m.stackWords
  <2>1. HeadersWithout(m) = HeadersAt(m, [k \in 1..Len(m.kernels) |-> 0])
    BY DEF HeadersWithout
  <2> QED  BY <2>1 DEF HeadersAt
<1> HIDE DEF z
<1>2. PICK l \in Nat : l = Len(m.kernels)
  BY HeadersAre
<1>3. ASSUME NEW k \in 1..l
      PROVE  Packed(m.kernels[k], 0) \in KernelHeaders
  <2>1. PICK offset : Headers(m).kernels[k] = Packed(m.kernels[k], offset)
                      /\ Headers(m).kernels[k] \in KernelHeaders
    BY <1>2, HeadersAre
  <2>2. Packed(m.kernels[k], offset) \in KernelHeaders
    BY <2>1
  <2>3. 0 \in Nat
    OBVIOUS
  <2> QED  BY <2>2, <2>3 DEF Packed, KernelHeaders
<1>4. PICK f \in [1..l -> KernelHeaders] : f = z.kernels
  BY <1>1, <1>2, <1>3
<1>5. f \in Seq(KernelHeaders) /\ Len(f) = l
  BY FunctionIsSeq
<1>6. m.globalData \in Seq(DataWords) /\ m.stackWords \in Nat
  <2>1. Headers(m).globalData = m.globalData /\ Headers(m).stackWords = m.stackWords
    BY Zenon DEF Headers, HeadersAt
  <2> QED  BY <2>1, HeadersAre DEF IsModule
<1>7. IsModule(z)
  BY <1>1, <1>4, <1>5, <1>6 DEF IsModule
<1> QED  BY <1>1, <1>2, <1>4, <1>5, <1>7 DEF z

\* The headers are as long with the offsets as without.
LEMMA CodeStartIs ==
    ASSUME NEW m \in Modules
    PROVE  CodeStart(m) = Len(writeModule(Headers(m))) /\ CodeStart(m) \in Nat
<1>1. PICK z, h : z = HeadersWithout(m) /\ h = Headers(m)
  OBVIOUS
<1>2. IsModule(z) /\ IsModule(h)
  BY <1>1, WithoutIsModule, HeadersAre
<1>3. PICK V : ModuleWordsIn(z, V)
  BY <1>2, ModuleWordsExist
<1>4. PICK W : ModuleWordsIn(h, W)
  BY <1>2, ModuleWordsExist
<1>5. PICK n \in Nat : n = Len(m.kernels) /\ Len(z.kernels) = n /\ Len(h.kernels) = n
  BY <1>1, WithoutIsModule, HeadersAre
<1>6. ASSUME NEW k \in 1..n
      PROVE  Len(KernelSegments(z)[k]) = Len(KernelSegments(h)[k])
  <2>1. PICK offset : h.kernels[k] = Packed(m.kernels[k], offset) /\ z.kernels[k] = Packed(m.kernels[k], 0)
    BY <1>1, <1>5, WithoutIsModule, HeadersAre
  <2>2. z.kernels[k] \in KernelHeaders /\ h.kernels[k] \in KernelHeaders
    BY <1>2, <1>5, ElementOfSeq DEF IsModule
  <2>3. KernelWordsIn(z.kernels[k], V) /\ KernelWordsIn(h.kernels[k], W)
    BY <1>3, <1>4, <1>5 DEF ModuleWordsIn
  <2>4. Len(writeKernel(z.kernels[k])) = Len(writeKernel(h.kernels[k]))
    <3>1. PICK c : c = m.kernels[k]
      OBVIOUS
    <3>2. Packed(c, 0) \in KernelHeaders /\ Packed(c, offset) \in KernelHeaders
      BY <2>1, <2>2, <3>1
    <3>3. KernelWordsIn(Packed(c, 0), V) /\ KernelWordsIn(Packed(c, offset), W)
      BY <2>1, <2>3, <3>1
    <3>4. Len(writeKernel(Packed(c, 0))) = Len(writeKernel(Packed(c, offset)))
      BY <3>2, <3>3, SameLength
    <3> QED  BY <2>1, <3>1, <3>4
  <2> QED  BY <1>5, <2>4 DEF KernelSegments
<1>7. PICK p \in Seq(Seq(V)) : p = KernelSegments(z) /\ Len(p) = n /\ KernelSegment(z) = FlattenSeq(p)
  BY <1>2, <1>3, <1>5, ModuleParts
<1>8. PICK q \in Seq(Seq(W)) : q = KernelSegments(h) /\ Len(q) = n /\ KernelSegment(h) = FlattenSeq(q)
  BY <1>2, <1>4, <1>5, ModuleParts
<1>9. PICK off : Places(q, n, FlattenSeq(q), off)
  BY <1>8, FlattenPlaces
<1>10. Sums(off, p, n)
  <2>1. \A k \in 1..n : Len(p[k]) = Len(q[k])
    BY <1>6, <1>7, <1>8
  <2> QED  BY <1>9, <2>1 DEF Places, Sums
<1>11. Len(FlattenSeq(p)) = Len(FlattenSeq(q))
  <2>1. Len(FlattenSeq(p)) = off[n]
    BY <1>7, <1>10, PartsAre
  <2> QED  BY <1>9, <2>1 DEF Places
<1>12. DataSegment(z) = DataSegment(h)
  <2>1. z.globalData = m.globalData /\ z.stackWords = m.stackWords
    BY <1>1, Zenon DEF HeadersWithout, HeadersAt
  <2>2. h.globalData = m.globalData /\ h.stackWords = m.stackWords
    BY <1>1, Zenon DEF Headers, HeadersAt
  <2> QED  BY <2>1, <2>2 DEF DataSegment
<1>13. Len(writeModule(z)) = 4 + Len(KernelSegment(z)) + Len(DataSegment(z))
  <2>1. <<>> \in Seq(V)
    OBVIOUS
  <2> QED  BY <1>2, <1>3, <2>1, WrittenModule
<1>14. Len(writeModule(h)) = 4 + Len(KernelSegment(h)) + Len(DataSegment(h))
  <2>1. <<>> \in Seq(W)
    OBVIOUS
  <2> QED  BY <1>2, <1>4, <2>1, WrittenModule
<1>15. Len(KernelSegment(h)) \in Nat /\ Len(DataSegment(h)) \in Nat
  BY <1>2, <1>4, ModuleParts
<1>16. Len(KernelSegment(z)) = Len(KernelSegment(h)) /\ Len(DataSegment(z)) = Len(DataSegment(h))
  BY <1>7, <1>8, <1>11, <1>12
<1>17. Len(writeModule(z)) = Len(writeModule(h))
  BY <1>13, <1>14, <1>16
<1>18. Len(writeModule(h)) \in Nat
  <2>1. PICK k \in Nat, d \in Nat : k = Len(KernelSegment(h)) /\ d = Len(DataSegment(h))
    BY <1>15
  <2>2. Len(writeModule(h)) = 4 + k + d
    BY <1>14, <2>1
  <2> QED  BY <2>2
<1>19. CodeStart(m) = Len(writeModule(z))
  BY <1>1 DEF CodeStart
<1> QED  BY <1>1, <1>17, <1>18, <1>19

\* Where the header of a kernel points to lies its code.
LEMMA CodeIsThere ==
    ASSUME NEW m \in Modules, NEW n \in 1..Len(m.kernels), NEW info, info = Headers(m).kernels[n]
    PROVE  /\ info.length \in Nat /\ Len(Instructions(m.kernels[n])) = info.length
           /\ (\E C : Instructions(m.kernels[n]) \in Seq(C))
           /\ SubSeq(Compiled(m), info.offset + 1, info.offset + info.length) = Instructions(m.kernels[n])
<1> DEFINE ss == [k \in 1..Len(m.kernels) |-> Instructions(m.kernels[k])]
<1>1. PICK C : /\ Code(m) \in Seq(C) /\ ss \in Seq(Seq(C)) /\ Len(ss) = Len(m.kernels)
               /\ \A k \in 1..Len(m.kernels) : /\ m.kernels[k].length \in Nat
                                               /\ Instructions(m.kernels[k]) \in Seq(C)
                                               /\ Len(Instructions(m.kernels[k])) = m.kernels[k].length
  BY CodeIs
<1>2. PICK l \in Nat : l = m.kernels[n].length /\ l = info.length
  <2>1. info = Packed(m.kernels[n], CodeStart(m) + CodeBefore(m, n))
    BY OffsetIs
  <2> QED  BY <1>1, <2>1 DEF Packed
<1>3. PICK s \in Seq(C) : s = Instructions(m.kernels[n]) /\ Len(s) = l /\ ss[n] = s
  BY <1>1, <1>2
<1>4. Code(m) = FlattenSeq(ss)
  BY DEF Code
<1>5. CodeBefore(m, n) = Len(FlattenSeq([i \in 1..(n - 1) |-> ss[i]]))
  <2>1. [i \in 1..(n - 1) |-> ss[i]] = [i \in 1..(n - 1) |-> Instructions(m.kernels[i])]
    BY HeadersAre
  <2> QED  BY <2>1 DEF CodeBefore
<1> HIDE DEF ss
<1>6. PICK off : Places(ss, Len(ss), FlattenSeq(ss), off)
  BY <1>1, FlattenPlaces
<1>7. n - 1 \in 0..Len(ss) /\ n \in 1..Len(ss)
  BY <1>1, HeadersAre
<1>8. CodeBefore(m, n) = off[n - 1]
  <2>1. PICK k \in 0..Len(ss) : k = n - 1
    BY <1>7
  <2>2. PICK pre : pre = [i \in 1..k |-> ss[i]]
    OBVIOUS
  <2>3. ss \in Seq(Seq(C))
    BY <1>1
  <2>4. Len(FlattenSeq(pre)) = off[k]
    BY <1>6, <2>2, <2>3, FirstParts
  <2> QED  BY <1>5, <2>1, <2>2, <2>4
<1>9. PICK b \in Nat : b = off[n - 1] /\ Holds(Code(m), b, s)
  <2>1. Sums(off, ss, Len(ss))
    BY <1>6 DEF Places, Sums
  <2>2. ss \in Seq(Seq(C))
    BY <1>1
  <2>3. \A k \in 1..Len(ss) : off[k - 1] \in Nat /\ Holds(FlattenSeq(ss), off[k - 1], ss[k])
    BY <2>1, <2>2, PartsAre
  <2> QED  BY <1>3, <1>4, <1>7, <2>3
<1>10. PICK a \in Nat : a = CodeStart(m) /\ a = Len(writeModule(Headers(m)))
  BY CodeStartIs
<1>11. info.offset = a + b
  <2>1. info = Packed(m.kernels[n], CodeStart(m) + CodeBefore(m, n))
    BY OffsetIs
  <2> QED  BY <1>8, <1>9, <1>10, <2>1 DEF Packed
<1>12. PICK W : ModuleWordsIn(Headers(m), W) /\ C \subseteq W
  BY HeadersAre, ModuleWordsExist
<1>13. Code(m) \in Seq(W) /\ s \in Seq(W)
  BY <1>1, <1>3, <1>12
<1>14. PICK d \in Seq(W) : d = Compiled(m) /\ Holds(d, a, Code(m))
  <2>1. Compiled(m) = writeModule(Headers(m)) \o Code(m)
    BY DEF Compiled
  <2>2. PICK h, code, all : h = Headers(m) /\ code = Code(m) /\ all = writeModule(h) \o code
    OBVIOUS
  <2>3. IsModule(h) /\ ModuleWordsIn(h, W) /\ code \in Seq(W)
    BY <1>12, <1>13, <2>2, HeadersAre
  <2>4. all \in Seq(W) /\ Holds(all, Len(writeModule(h)), code)
    BY <2>2, <2>3, WrittenModule
  <2> QED  BY <1>10, <2>1, <2>2, <2>4
<1>15. Holds(d, a + b, s)
  BY <1>9, <1>13, <1>14, HeldFrom
<1>16. PICK o \in Nat : o = a + b
  OBVIOUS
<1>17. SubSeq(d, o + 1, o + l) = s
  <2>1. o + l <= Len(d) /\ \A j \in 1..l : d[o + j] = s[j]
    BY <1>3, <1>15, <1>16 DEF Holds
  <2>2. \A i \in (o + 1)..(o + l) : d[i] \in W
    <3>1. \A i \in (o + 1)..(o + l) : i \in 1..Len(d)
      BY <2>1
    <3> QED  BY <3>1, ElementOfSeq
  <2>3. o + 1 \in Int /\ o + l \in Int /\ o + l - (o + 1) + 1 = l
    OBVIOUS
  <2>4. /\ SubSeq(d, o + 1, o + l) \in Seq(W)
        /\ Len(SubSeq(d, o + 1, o + l)) = IF o + 1 <= o + l THEN o + l - (o + 1) + 1 ELSE 0
        /\ \A i \in 1..(o + l - (o + 1) + 1) : SubSeq(d, o + 1, o + l)[i] = d[o + 1 + i - 1]
    BY <2>2, <2>3, SubSeqProperties
  <2>5. Len(SubSeq(d, o + 1, o + l)) = l
    BY <2>4
  <2>6. \A i \in 1..l : SubSeq(d, o + 1, o + l)[i] = s[i]
    <3>1. \A i \in 1..l : o + 1 + i - 1 = o + i
      OBVIOUS
    <3> QED  BY <2>1, <2>3, <2>4, <3>1
  <2> QED  BY <1>3, <1>13, <2>4, <2>5, <2>6, SeqEqual
<1> QED  BY <1>2, <1>3, <1>11, <1>14, <1>16, <1>17

---------------------------------------------------------------------------------
(* What an argument is set to *)

LEMMA AsManyElements ==
    ASSUME NEW v \in Nat \ {0}, NEW l \in Nat, NEW e \in {1, 2, 4, 8}, NEW size, size = e * l,
           e = IF v = 3 /\ size % 3 # 0 THEN size \div 4 ELSE size \div v
    PROVE  v <= l
<1>1. size \in Nat
  <2>1. CASE e = 1
    BY <2>1
  <2>2. CASE e = 2
    BY <2>2
  <2>3. CASE e = 4
    BY <2>3
  <2>4. CASE e = 8
    BY <2>4
  <2> QED  BY <2>1, <2>2, <2>3, <2>4
<1>2. CASE v = 3 /\ size % 3 # 0
  <2>1. size \div 4 = e
    BY <1>2
  <2>2. size >= 4 * e
    <3>1. PICK s \in Nat : s = size
      BY <1>1
    <3>2. s \div 4 = e
      BY <2>1, <3>1
    <3>3. s >= 4 * e
      BY <3>2
    <3> QED  BY <3>1, <3>3
  <2>3. CASE e = 1
    BY <1>2, <2>2, <2>3
  <2>4. CASE e = 2
    BY <1>2, <2>2, <2>4
  <2>5. CASE e = 4
    BY <1>2, <2>2, <2>5
  <2>6. CASE e = 8
    BY <1>2, <2>2, <2>6
  <2> QED  BY <2>3, <2>4, <2>5, <2>6
<1>3. CASE ~(v = 3 /\ size % 3 # 0)
  <2>1. size \div v = e
    BY <1>3
  <2>2. size % v \in 0..(v - 1) /\ size = v * (size \div v) + (size % v)
    BY <1>1, Divided
  <2>3. PICK r \in Nat : size = v * e + r
    <3>1. size % v \in Nat
      BY <2>2
    <3> QED  BY <2>1, <2>2, <3>1
  <2>4. e * l >= v * e
    BY <2>3
  <2>5. CASE e = 1
    BY <2>4, <2>5
  <2>6. CASE e = 2
    BY <2>4, <2>6
  <2>7. CASE e = 4
    BY <2>4, <2>7
  <2>8. CASE e = 8
    BY <2>4, <2>8
  <2> QED  BY <2>5, <2>6, <2>7, <2>8
<1> QED  BY <1>2, <1>3

\* Three elements of 64 bits are accepted with the size of three and of four.
LEMMA LongIsLong ==
    ASSUME NEW v \in Nat \ {0}, NEW size \in Nat, NEW declared \in Nat,
           size = declared \/ (v = 3 /\ size * 4 = declared * 3),
           8 = IF v = 3 /\ size % 3 # 0 THEN size \div 4 ELSE size \div v
    PROVE  8 = IF v = 3 /\ declared % 3 # 0 THEN declared \div 4 ELSE declared \div v
<1>1. CASE size = declared
  BY <1>1
<1>2. CASE size # declared
  <2>1. v = 3 /\ size * 4 = declared * 3
    BY <1>2
  <2>2. size % 3 = 0
    BY <2>1
  <2>3. size \div 3 = 8
    BY <2>1, <2>2
  <2>4. size = 24
    BY <2>2, <2>3
  <2>5. declared = 32
    BY <2>1, <2>4
  <2> QED  BY <2>1, <2>5
<1> QED  BY <1>1, <1>2

\* A number in memory is extended as its type says.
LEMMA NumberIsAdded ==
    ASSUME NEW p, NEW e \in {1, 2, 4, 8}, NEW v,
           e < 4 => v \in 0..(Values(e) - 1)
    PROVE  addScalar(p, e, InMemory(v, e)) = Number(p, v, e)
<1>1. CASE e = 8
  BY <1>1 DEF addScalar, InMemory, Number
<1>2. CASE e = 4
  BY <1>2 DEF addScalar, InMemory, Number
<1>3. CASE e < 4
  <2>1. PICK b \in Nat : b = Values(e) /\ b \div 2 + b \div 2 = b /\ v \in 0..(b - 1)
    BY <1>3, SMT DEF Values
  <2>2. InMemory(v, e) = v
    <3>1. e \in {1, 2}
      BY <1>3
    <3>2. v % b = v
      BY <2>1
    <3> QED  BY <2>1, <3>1, <3>2 DEF InMemory
  <2>3. 2 * v >= b <=> v \in (b \div 2)..(b - 1)
    BY <2>1
  <2>4. e \in {1, 2} /\ e # 8
    BY <1>3
  <2> QED  BY <1>3, <2>1, <2>2, <2>3, <2>4 DEF addScalar, Number
<1> QED  BY <1>1, <1>2, <1>3

Numbers(p, a) == [n \in 1..p.vectorElements |-> Number(p, a.value[n], a.element)]

\* The words of a number: two of 8 bytes, else one.
LEMMA NumberIs ==
    ASSUME NEW p, NEW e \in {1, 2, 4, 8}, NEW v \in IF e = 8 THEN [1..2 -> Int] ELSE Int
    PROVE  Number(p, v, e) \in Seq(Int) /\ Len(Number(p, v, e)) = IF e = 8 THEN 2 ELSE 1
<1>1. CASE e = 8
  <2>1. PICK n \in Nat : n = 2 /\ v \in [1..n -> Int]
    BY <1>1
  <2>2. v \in Seq(Int) /\ Len(v) = 2
    <3>1. v \in Seq(Int) /\ Len(v) = n
      BY <2>1, FunctionIsSeq
    <3> QED  BY <2>1, <3>1
  <2> QED  BY <1>1, <2>2 DEF Number
<1>2. CASE e # 8
  <2>1. v \in Int /\ Values(e) \in Int
    BY <1>2, SMT DEF Values
  <2>2. PICK w \in Int : Number(p, v, e) = <<w>>
    BY <1>2, <2>1 DEF Number
  <2>3. <<w>> \in Seq(Int) /\ Len(<<w>>) = 1
    OBVIOUS
  <2> QED  BY <1>2, <2>2, <2>3
<1> QED  BY <1>1, <1>2

\* A scalar or vector is set to the numbers the application passed.
LEMMA ScalarIsSet ==
    ASSUME NEW m, NEW p \in ParameterHeaders, ~Is(p, "Pointer"), ~Is(p, "ByValue"), NEW arg, NEW a,
           SetTo(m, p, arg, a)
    PROVE  /\ arg = Scalar(FlattenSeq(Numbers(p, a)))
           /\ a.element \in {1, 2, 4, 8}
           /\ Numbers(p, a) \in Seq(Seq(Int)) /\ Len(Numbers(p, a)) = p.vectorElements
           /\ \A n \in 1..p.vectorElements : Len(Numbers(p, a)[n]) = IF a.element = 8 THEN 2 ELSE 1
           /\ a.element = 8 => ElementSize(p, p.size) = 8
<1>1. arg = literalArgument(p, a) /\ arg.type # "refused" /\ a \in Scalars
      /\ (SizeFits(p, a.size) => a.element = ElementSize(p, a.size))
  BY DEF SetTo, NewArgument, Passed
<1>2. Refused("CL_INVALID_ARG_SIZE").type = "refused"
  BY DEF Refused
<1>3. SizeFits(p, a.size) /\ arg = ScalarArgument(p, a)
  BY <1>1, <1>2 DEF literalArgument
<1>4. PICK e \in {1, 2, 4, 8} : e = a.element
  BY <1>1, ScalarsAssumption DEF ScalarsAssumption
<1>5. /\ a.value \in Seq(IF e = 8 THEN [1..2 -> Int] ELSE Int) /\ a.size = e * Len(a.value)
      /\ e < 4 => \A n \in 1..Len(a.value) : a.value[n] \in 0..(Values(e) - 1)
  BY <1>1, <1>4, ScalarsAssumption DEF ScalarsAssumption
<1>6. PICK l \in Nat : l = Len(a.value)
  BY <1>5
<1>7. PICK v \in Nat \ {0} : v = p.vectorElements
  BY DEF ParameterHeaders
<1>8. e = IF v = 3 /\ a.size % 3 # 0 THEN a.size \div 4 ELSE a.size \div v
  BY <1>1, <1>3, <1>4, <1>7 DEF ElementSize
<1>9. v <= l
  <2>1. PICK size : size = a.size /\ size = e * l
    BY <1>5, <1>6
  <2>2. e = IF v = 3 /\ size % 3 # 0 THEN size \div 4 ELSE size \div v
    BY <1>8, <2>1
  <2> QED  BY <2>1, <2>2, AsManyElements
<1>10. arg = Scalar(FlattenSeq([i \in 1..v |-> addScalar(p, e, InMemory(a.value[i], e))]))
  <2>1. ElementSize(p, a.size) = e
    BY <1>1, <1>3, <1>4
  <2>2. ~(e > 4 /\ e # 8)
    BY <1>4
  <2> QED  BY <1>3, <1>7, <2>1, <2>2 DEF ScalarArgument
<1>11. \A i \in 1..v : a.value[i] \in (IF e = 8 THEN [1..2 -> Int] ELSE Int) /\ i \in 1..l
  <2>1. \A i \in 1..v : i \in 1..l
    BY <1>9
  <2> QED  BY <1>5, <1>6, <2>1, ElementOfSeq
<1>12. \A i \in 1..v : addScalar(p, e, InMemory(a.value[i], e)) = Number(p, a.value[i], e)
  <2>1. \A i \in 1..v : e < 4 => a.value[i] \in 0..(Values(e) - 1)
    BY <1>5, <1>6, <1>11
  <2> QED  BY <2>1, NumberIsAdded
<1>13. Numbers(p, a) = [i \in 1..v |-> Number(p, a.value[i], e)]
  BY <1>4, <1>7 DEF Numbers
<1>14. arg = Scalar(FlattenSeq(Numbers(p, a)))
  <2>1. [i \in 1..v |-> addScalar(p, e, InMemory(a.value[i], e))] = [i \in 1..v |-> Number(p, a.value[i], e)]
    BY <1>12
  <2> QED  BY <1>10, <1>13, <2>1
<1>15. \A i \in 1..v : /\ Number(p, a.value[i], e) \in Seq(Int)
                       /\ Len(Number(p, a.value[i], e)) = IF e = 8 THEN 2 ELSE 1
  BY <1>11, NumberIs
<1>16. PICK f \in [1..v -> Seq(Int)] : f = Numbers(p, a)
  BY <1>13, <1>15
<1>17. f \in Seq(Seq(Int)) /\ Len(f) = v
  BY FunctionIsSeq
<1>18. \A i \in 1..v : Len(f[i]) = IF e = 8 THEN 2 ELSE 1
  BY <1>13, <1>15, <1>16
<1>19. e = 8 => ElementSize(p, p.size) = 8
  <2>1. SUFFICES ASSUME e = 8 PROVE ElementSize(p, p.size) = 8
    OBVIOUS
  <2>2. PICK size \in Nat : size = a.size
    <3>1. e * l \in Nat
      BY <2>1
    <3> QED  BY <1>5, <1>6, <3>1
  <2>3. PICK declared \in Nat : declared = p.size
    BY DEF ParameterHeaders
  <2>4. size = declared \/ (v = 3 /\ size * 4 = declared * 3)
    BY <1>3, <1>7, <2>2, <2>3 DEF SizeFits
  <2>5. 8 = IF v = 3 /\ size % 3 # 0 THEN size \div 4 ELSE size \div v
    BY <1>8, <2>1, <2>2
  <2>6. 8 = IF v = 3 /\ declared % 3 # 0 THEN declared \div 4 ELSE declared \div v
    BY <2>4, <2>5, LongIsLong
  <2> QED  BY <1>7, <2>3, <2>6 DEF ElementSize
<1> QED  BY <1>4, <1>7, <1>14, <1>16, <1>17, <1>18, <1>19

LongScalar(p) == ~Is(p, "Pointer") /\ ~Is(p, "ByValue") /\ ElementSize(p, p.size) = 8

\* The words of an argument, and how many there are.
ArgumentArrived(x, i) ==
    /\ ArgumentWords(x, i) = Wanted(x.info.parameters[i], i, x.asked[i])
    /\ \E S : ArgumentWords(x, i) \in Seq(S)
    /\ ~LongScalar(x.info.parameters[i])
           => Len(ArgumentWords(x, i)) = x.info.parameters[i].vectorElements

\* An argument of one word.
LEMMA OneWord ==
    ASSUME NEW x, NEW i, NEW w, ArgumentWords(x, i) = <<w>>, Wanted(x.info.parameters[i], i, x.asked[i]) = <<w>>,
           x.info.parameters[i].vectorElements = 1
    PROVE  ArgumentArrived(x, i)
<1>1. <<w>> \in Seq({w}) /\ Len(<<w>>) = 1
  OBVIOUS
<1> QED  BY <1>1 DEF ArgumentArrived

\* The words of an argument of an execution are those the application asked for.
LEMMA ArgumentArrives ==
    ASSUME NEW m \in Modules, NEW x, ExecutionSet(m, x), NEW i \in DOMAIN x.info.parameters
    PROVE  /\ ArgumentArrived(x, i)
           /\ (i \in DOMAIN x.tmpBuffers /\ x.tmpBuffers[i] # NULL) =>
                  /\ x.tmpBuffers[i].size = x.asked[i].size
                  /\ Is(x.info.parameters[i], "ByValue") => x.tmpBuffers[i].contents = x.asked[i].value
                  /\ ~Is(x.info.parameters[i], "ByValue") /\ m.zeroLocal => x.tmpBuffers[i].contents = "zero"
<1>1. PICK p, arg, a : p = x.info.parameters[i] /\ arg = x.executionArguments[i] /\ a = x.asked[i]
  OBVIOUS
<1>2. Header(m, x.info) /\ SetTo(m, p, arg, a)
  BY <1>1 DEF ExecutionSet
<1>3. p \in ParameterHeaders /\ (Is(p, "Pointer") \/ Is(p, "ByValue") => p.vectorElements = 1)
  BY <1>1, <1>2, ParametersAre
<1>4. /\ i \in DOMAIN x.tmpBuffers <=> arg.type = "temporary"
      /\ i \in DOMAIN x.persistentBuffers <=> arg.type = "buffer"
      /\ arg.type = "temporary" => x.tmpBuffers[i] = TmpBuffer(m.zeroLocal, p, arg)
      /\ arg.type = "buffer" => x.persistentBuffers[i] = IF arg.buffer = NULL THEN 0 ELSE Buffers[arg.buffer].address
  BY <1>1 DEF ExecutionSet, OfType
<1>5. CASE ~Is(p, "Pointer") /\ ~Is(p, "ByValue")
  <2>1. /\ arg = Scalar(FlattenSeq(Numbers(p, a)))
        /\ a.element \in {1, 2, 4, 8}
        /\ Numbers(p, a) \in Seq(Seq(Int)) /\ Len(Numbers(p, a)) = p.vectorElements
        /\ \A n \in 1..p.vectorElements : Len(Numbers(p, a)[n]) = IF a.element = 8 THEN 2 ELSE 1
        /\ a.element = 8 => ElementSize(p, p.size) = 8
    BY <1>2, <1>3, <1>5, ScalarIsSet
  <2>2. PICK words \in Seq(Int) : words = FlattenSeq(Numbers(p, a))
    BY <2>1, FlattenPlaces
  <2>3. arg.type = "scalar" /\ arg.words = words
    BY <2>1, <2>2 DEF Scalar
  <2>4. i \notin DOMAIN x.tmpBuffers /\ i \notin DOMAIN x.persistentBuffers
    BY <1>4, <2>3
  <2>5. ArgumentWords(x, i) = [n \in 1..Len(words) |-> Value(words[n])]
    BY <1>1, <2>3, <2>4 DEF ArgumentWords, Arguments
  <2>6. Wanted(p, i, a) = [n \in 1..Len(words) |-> Value(words[n])]
    BY <1>5, <2>2 DEF Wanted, Numbers
  <2>7. PICK l \in Nat : l = Len(words)
    OBVIOUS
  <2>8. PICK f \in [1..l -> {Value(words[n]) : n \in 1..l}] : f = ArgumentWords(x, i)
    BY <2>5, <2>7
  <2>9. f \in Seq({Value(words[n]) : n \in 1..l}) /\ Len(f) = l
    <3>1. PICK S : S = {Value(words[n]) : n \in 1..l}
      OBVIOUS
    <3>2. f \in [1..l -> S]
      BY <2>8, <3>1
    <3>3. f \in Seq(S) /\ Len(f) = l
      BY <3>2, FunctionIsSeq
    <3> QED  BY <3>1, <3>3
  <2>10. ~LongScalar(p) => l = p.vectorElements
    <3>1. SUFFICES ASSUME a.element # 8
                   PROVE  l = p.vectorElements
      BY <1>5, <2>1 DEF LongScalar
    <3>2. PICK v \in Nat \ {0} : v = p.vectorElements
      BY <1>3 DEF ParameterHeaders
    <3>3. PICK one \in Nat : one = 1
      OBVIOUS
    <3>4. \A n \in 1..Len(Numbers(p, a)) : Len(Numbers(p, a)[n]) = one
      BY <2>1, <3>1, <3>3
    <3>5. Len(FlattenSeq(Numbers(p, a))) = v * one
      BY <2>1, <3>2, <3>4, EqualPartsAre
    <3> QED  BY <2>2, <2>7, <3>2, <3>3, <3>5
  <2>11. ArgumentArrived(x, i)
    <3>1. ArgumentWords(x, i) = Wanted(x.info.parameters[i], i, x.asked[i])
      BY <1>1, <2>5, <2>6
    <3>2. \E S : ArgumentWords(x, i) \in Seq(S)
      BY <2>8, <2>9
    <3> QED  BY <1>1, <2>8, <2>9, <2>10, <3>1, <3>2 DEF ArgumentArrived
  <2> QED  BY <2>4, <2>11
<1>6. ASSUME Is(p, "Pointer") \/ Is(p, "ByValue"), arg.type = "temporary",
             a \in Structs \cup Handles, Is(p, "ByValue") \/ p.addressSpace = "LOCAL",
             arg.size = a.size, arg.data = a.value, ~Is(p, "ByValue") => arg.data = NULL,
             Is(p, "ByValue") => arg.data # NULL
      PROVE  /\ ArgumentArrived(x, i)
             /\ (i \in DOMAIN x.tmpBuffers /\ x.tmpBuffers[i] # NULL) =>
                  /\ x.tmpBuffers[i].size = x.asked[i].size
                  /\ Is(x.info.parameters[i], "ByValue") => x.tmpBuffers[i].contents = x.asked[i].value
                  /\ ~Is(x.info.parameters[i], "ByValue") /\ m.zeroLocal => x.tmpBuffers[i].contents = "zero"
  <2>1. i \in DOMAIN x.tmpBuffers /\ x.tmpBuffers[i] = TmpBuffer(m.zeroLocal, p, arg)
    BY <1>4, <1>6
  <2>2. p.vectorElements = 1
    BY <1>3, <1>6
  <2>3. Wanted(p, i, a) = IF Is(p, "Lowered") THEN <<Value(0)>> ELSE <<[tmpBuffer |-> i]>>
    BY <1>6 DEF Wanted
  <2>4. CASE Is(p, "Lowered")
    <3>1. x.tmpBuffers[i] = NULL
      BY <2>1, <2>4 DEF TmpBuffer
    <3>2. ArgumentWords(x, i) = <<Value(0)>>
      BY <2>1, <3>1 DEF ArgumentWords
    <3>3. ArgumentArrived(x, i)
      BY <1>1, <2>2, <2>3, <2>4, <3>2, OneWord
    <3> QED  BY <3>1, <3>3
  <2>5. CASE ~Is(p, "Lowered")
    <3>1. PICK c \in {a.value, "zero", "undefined"} :
              /\ x.tmpBuffers[i] = [size |-> a.size, contents |-> c]
              /\ Is(p, "ByValue") => c = a.value
              /\ ~Is(p, "ByValue") /\ m.zeroLocal => c = "zero"
      BY <1>6, <2>1, <2>5 DEF TmpBuffer
    <3>2. x.tmpBuffers[i] # NULL
      BY <1>6, <3>1, NullAssumption DEF NullAssumption
    <3>3. ArgumentWords(x, i) = <<[tmpBuffer |-> i]>>
      BY <2>1, <3>2 DEF ArgumentWords
    <3>4. ArgumentArrived(x, i)
      BY <1>1, <2>2, <2>3, <2>5, <3>3, OneWord
    <3> QED  BY <1>1, <3>1, <3>4
  <2> QED  BY <2>4, <2>5
<1>7. \A code : Refused(code).type = "refused"
  BY DEF Refused
<1>8. CASE Is(p, "ByValue")
  <2>1. a \in Structs /\ arg = literalArgument(p, a) /\ arg.type # "refused"
    BY <1>2, <1>8 DEF SetTo, Passed, NewArgument
  <2>2. arg = Temporary(a.size, a.value)
    BY <1>7, <1>8, <2>1 DEF literalArgument
  <2>3. arg.type = "temporary" /\ arg.size = a.size /\ arg.data = a.value
    BY <2>2 DEF Temporary
  <2>4. a.value # NULL
    BY <2>1, NullAssumption DEF NullAssumption
  <2> QED  BY <1>6, <1>8, <2>1, <2>3, <2>4
<1>9. CASE Is(p, "Pointer") /\ ~Is(p, "ByValue") /\ p.addressSpace = "LOCAL"
  <2>1. a \in Handles /\ arg = LocalArgument(a) /\ arg.type # "refused"
    BY <1>2, <1>9 DEF SetTo, Passed, NewArgument
  <2>2. arg = Temporary(a.size, NULL) /\ a.value = NULL
    BY <1>7, <2>1 DEF LocalArgument
  <2>3. arg.type = "temporary" /\ arg.size = a.size /\ arg.data = NULL
    BY <2>2 DEF Temporary
  <2> QED  BY <1>6, <1>9, <2>1, <2>2, <2>3
<1>10. CASE Is(p, "Pointer") /\ ~Is(p, "ByValue") /\ p.addressSpace # "LOCAL"
  <2>1. arg = BufferArgument(m.context, p, a) /\ arg.type # "refused"
    BY <1>2, <1>10 DEF SetTo, NewArgument
  <2>2. arg = Handle(a.value)
    BY <1>7, <2>1 DEF BufferArgument
  <2>3. arg.type = "buffer" /\ arg.buffer = a.value
    BY <2>2 DEF Handle
  <2>4. /\ i \notin DOMAIN x.tmpBuffers /\ i \in DOMAIN x.persistentBuffers
        /\ x.persistentBuffers[i] = IF a.value = NULL THEN 0 ELSE Buffers[a.value].address
    BY <1>4, <2>3
  <2>5. PICK w : w = Value(IF a.value = NULL THEN 0 ELSE Buffers[a.value].address)
    OBVIOUS
  <2>6. ArgumentWords(x, i) = <<w>>
    BY <2>4, <2>5 DEF ArgumentWords
  <2>7. Wanted(p, i, a) = <<w>>
    BY <1>10, <2>5 DEF Wanted
  <2>8. ArgumentArrived(x, i)
    BY <1>1, <1>3, <1>10, <2>6, <2>7, OneWord
  <2> QED  BY <2>4, <2>8
<1> QED  BY <1>5, <1>8, <1>9, <1>10

---------------------------------------------------------------------------------
(* Hidden parameters *)

Distinct(list) == \A i, j \in 1..Len(list) : list[i] = list[j] => i = j

ElementsAt(list, indices) == {list[i] : i \in indices}

\* As many elements are selected as there are different ones.
LEMMA SelectedNames ==
    ASSUME NEW S, NEW list \in Seq(S), Distinct(list), NEW I, I \subseteq 1..Len(list),
           NEW C, C = ElementsAt(list, I)
    PROVE  IsFiniteSet(C) /\ Len(Selected(list, I)) = Cardinality(C)
<1>0. \A i, j \in 1..Len(list) : list[i] = list[j] => i = j
  BY DEF Distinct
<1>1. PICK f : IsSelection(f, list, I) /\ Selected(list, I) = f[Len(list)]
  BY SelectedIs
<1>2. PICK l \in Nat : l = Len(list)
  OBVIOUS
<1> DEFINE Chosen(k) == {list[i] : i \in {j \in I : j <= k}}
           T == {k \in Nat : k <= l => /\ f[k] \in Seq(S) /\ IsFiniteSet(Chosen(k))
                                       /\ Len(f[k]) = Cardinality(Chosen(k))}
<1>3. 0 \in T
  <2>1. f[0] = <<>>
    BY <1>1, <1>2 DEF IsSelection
  <2>2. Chosen(0) = {}
    BY <1>2
  <2> HIDE DEF Chosen
  <2>3. <<>> \in Seq(S) /\ Len(<<>>) = 0
    OBVIOUS
  <2>4. f[0] \in Seq(S) /\ Len(f[0]) = 0
    BY <2>1, <2>3, Zenon
  <2> QED  BY <2>2, <2>4, FS_EmptySet
<1>4. ASSUME NEW k \in Nat, k \in T
      PROVE  k + 1 \in T
  <2> HIDE DEF Chosen
  <2>1. ASSUME k + 1 <= l
        PROVE  /\ f[k + 1] \in Seq(S) /\ IsFiniteSet(Chosen(k + 1))
               /\ Len(f[k + 1]) = Cardinality(Chosen(k + 1))
    <3>1. PICK s \in Seq(S) : s = f[k] /\ IsFiniteSet(Chosen(k)) /\ Len(s) = Cardinality(Chosen(k))
      BY <1>4, <2>1
    <3>2. k + 1 \in 1..l /\ k + 1 \in 0..l /\ k + 1 # 0 /\ (k + 1) - 1 = k
      BY <2>1
    <3>3. f[k + 1] = IF k + 1 \in I THEN Append(s, list[k + 1]) ELSE s
      BY <1>1, <1>2, <3>1, <3>2 DEF IsSelection
    <3>4. CASE k + 1 \in I
      <4>1. Chosen(k + 1) = Chosen(k) \cup {list[k + 1]}
        BY <1>2, <3>2, <3>4 DEF Chosen
      <4>2. list[k + 1] \notin Chosen(k)
        <5>1. ASSUME NEW i \in I, i <= k, list[i] = list[k + 1]
              PROVE  FALSE
          <6>1. i \in 1..Len(list) /\ k + 1 \in 1..Len(list)
            BY <1>2, <3>2
          <6>2. i = k + 1
            BY <1>0, <5>1, <6>1
          <6> QED  BY <5>1, <6>2
        <5> QED  BY <5>1 DEF Chosen
      <4>3. PICK y \in S : y = list[k + 1]
        BY <1>2, <3>2
      <4>4. Append(s, y) \in Seq(S) /\ Len(Append(s, y)) = Len(s) + 1
        OBVIOUS
      <4>5. IsFiniteSet(Chosen(k + 1)) /\ Cardinality(Chosen(k + 1)) = Cardinality(Chosen(k)) + 1
        <5>1. PICK A : A = Chosen(k)
          OBVIOUS
        <5>2. IsFiniteSet(A \cup {y}) /\ Cardinality(A \cup {y}) = Cardinality(A) + 1
          <6>1. IsFiniteSet(A) /\ y \notin A
            BY <3>1, <4>2, <4>3, <5>1
          <6> QED  BY <6>1, FS_AddElement
        <5> QED  BY <4>1, <4>3, <5>1, <5>2
      <4> QED  BY <3>1, <3>3, <3>4, <4>3, <4>4, <4>5
    <3>5. CASE k + 1 \notin I
      <4>1. Chosen(k + 1) = Chosen(k)
        <5>1. \A j \in I : j <= k + 1 <=> j <= k
          BY <1>2, <3>5
        <5> QED  BY <5>1 DEF Chosen
      <4> QED  BY <3>1, <3>3, <3>5, <4>1
    <3> QED  BY <3>4, <3>5
  <2>2. k + 1 \in Nat
    OBVIOUS
  <2> QED  BY <2>1, <2>2
<1> HIDE DEF T
<1>5. l \in T
  BY <1>3, <1>4, SetInduction
<1>6. IsFiniteSet(Chosen(l)) /\ Len(f[l]) = Cardinality(Chosen(l))
  <2> HIDE DEF Chosen
  <2> QED  BY <1>5 DEF T
<1>7. Chosen(l) = C
  <2>1. \A i \in I : i <= l
    BY <1>2
  <2> QED  BY <2>1 DEF ElementsAt
<1> QED  BY <1>1, <1>2, <1>6, <1>7

\* The hidden parameters of set_work_item_info are all but four.
LEMMA WorkItemNames ==
    /\ WorkItemInfo \in Seq(UniformNames) /\ Len(WorkItemInfo) = 13
    /\ \A i, j \in 1..13 : WorkItemInfo[i] = WorkItemInfo[j] => i = j
    /\ {WorkItemInfo[i] : i \in 1..13} =
           UniformNames \ {"UniformAddress", "MaxGroupIDX", "MaxGroupIDY", "MaxGroupIDZ"}
<1>1. WorkItemInfo \in Seq(UniformNames)
  BY DEF WorkItemInfo, UniformNames
<1>2. Len(WorkItemInfo) = 13
  BY DEF WorkItemInfo
<1>3. \A i, j \in 1..13 : WorkItemInfo[i] = WorkItemInfo[j] => i = j
  BY DEF WorkItemInfo
<1>4. {WorkItemInfo[i] : i \in 1..13} =
           UniformNames \ {"UniformAddress", "MaxGroupIDX", "MaxGroupIDY", "MaxGroupIDZ"}
  BY DEF WorkItemInfo, UniformNames
<1> QED  BY <1>1, <1>2, <1>3, <1>4

\* Those of the loop over the work-groups are the other four.
LEMMA LoopNames ==
    /\ LoopInfo \in Seq(UniformNames) /\ Len(LoopInfo) = 4
    /\ \A i, j \in 1..4 : LoopInfo[i] = LoopInfo[j] => i = j
    /\ {LoopInfo[i] : i \in 1..4} = {"UniformAddress", "MaxGroupIDX", "MaxGroupIDY", "MaxGroupIDZ"}
<1>1. LoopInfo \in Seq(UniformNames)
  BY DEF LoopInfo, UniformNames
<1>2. Len(LoopInfo) = 4
  BY DEF LoopInfo
<1>3. \A i, j \in 1..4 : LoopInfo[i] = LoopInfo[j] => i = j
  BY DEF LoopInfo
<1>4. {LoopInfo[i] : i \in 1..4} = {"UniformAddress", "MaxGroupIDX", "MaxGroupIDY", "MaxGroupIDZ"}
  BY DEF LoopInfo
<1> QED  BY <1>1, <1>2, <1>3, <1>4

\* As many of a list are used as the kernel uses of it.
LEMMA UsedNames ==
    ASSUME NEW list \in Seq(UniformNames), NEW info,
           Distinct(list),
           NEW A, A = {list[i] : i \in 1..Len(list)} \cap info.uniformsUsed
    PROVE  /\ Used(list, info) \in Seq(UniformNames)
           /\ IsFiniteSet(A) /\ Len(Used(list, info)) = Cardinality(A)
<1>1. PICK U : U = info.uniformsUsed
  OBVIOUS
<1>2. PICK I : I = {n \in 1..Len(list) : list[n] \in U}
  OBVIOUS
<1>3. Used(list, info) = Selected(list, I)
  BY <1>1, <1>2 DEF Used
<1>4. A = {list[n] : n \in I} /\ I \subseteq 1..Len(list)
  BY <1>1, <1>2
<1>5. IsFiniteSet(A) /\ Len(Selected(list, I)) = Cardinality(A)
  <2>1. A = ElementsAt(list, I)
    BY <1>4 DEF ElementsAt
  <2>2. I \subseteq 1..Len(list)
    BY <1>4
  <2> QED  BY <2>1, <2>2, SelectedNames
<1>6. Selected(list, I) \in Seq(UniformNames)
  BY SelectedAlike
<1> QED  BY <1>3, <1>5, <1>6

\* Both lists together hold every hidden parameter the kernel uses, once.
LEMMA UsedIs ==
    ASSUME NEW info, info.uniformsUsed \subseteq UniformNames
    PROVE  /\ Used(WorkItemInfo, info) \in Seq(UniformNames)
           /\ Used(LoopInfo, info) \in Seq(UniformNames)
           /\ Cardinality(info.uniformsUsed) \in Nat
           /\ Len(Used(WorkItemInfo, info)) + Len(Used(LoopInfo, info)) = Cardinality(info.uniformsUsed)
<1>1. PICK A : A = {WorkItemInfo[i] : i \in 1..13} \cap info.uniformsUsed
  OBVIOUS
<1>2. PICK B : B = {LoopInfo[j] : j \in 1..4} \cap info.uniformsUsed
  OBVIOUS
<1>3. A = info.uniformsUsed \ {"UniformAddress", "MaxGroupIDX", "MaxGroupIDY", "MaxGroupIDZ"}
  BY <1>1, WorkItemNames
<1>4. B = info.uniformsUsed \cap {"UniformAddress", "MaxGroupIDX", "MaxGroupIDY", "MaxGroupIDZ"}
  BY <1>2, LoopNames
<1>5. /\ Used(WorkItemInfo, info) \in Seq(UniformNames)
      /\ IsFiniteSet(A) /\ Len(Used(WorkItemInfo, info)) = Cardinality(A)
  <2>1. PICK list \in Seq(UniformNames) : list = WorkItemInfo /\ Len(list) = 13
    BY WorkItemNames
  <2>2. Distinct(list)
    BY <2>1, WorkItemNames DEF Distinct
  <2>3. A = {list[i] : i \in 1..Len(list)} \cap info.uniformsUsed
    BY <1>1, <2>1
  <2>4. Used(list, info) \in Seq(UniformNames) /\ IsFiniteSet(A) /\ Len(Used(list, info)) = Cardinality(A)
    BY <2>2, <2>3, UsedNames
  <2> QED  BY <2>1, <2>4
<1>6. /\ Used(LoopInfo, info) \in Seq(UniformNames)
      /\ IsFiniteSet(B) /\ Len(Used(LoopInfo, info)) = Cardinality(B)
  <2>1. PICK list \in Seq(UniformNames) : list = LoopInfo /\ Len(list) = 4
    BY LoopNames
  <2>2. Distinct(list)
    BY <2>1, LoopNames DEF Distinct
  <2>3. B = {list[i] : i \in 1..Len(list)} \cap info.uniformsUsed
    BY <1>2, <2>1
  <2>4. Used(list, info) \in Seq(UniformNames) /\ IsFiniteSet(B) /\ Len(Used(list, info)) = Cardinality(B)
    BY <2>2, <2>3, UsedNames
  <2> QED  BY <2>1, <2>4
<1>7. A \cup B = info.uniformsUsed /\ A \cap B = {}
  BY <1>3, <1>4
<1>8. Cardinality(A \cup B) = Cardinality(A) + Cardinality(B) - Cardinality(A \cap B) /\ IsFiniteSet(A \cup B)
  BY <1>5, <1>6, FS_Union
<1>9. Cardinality(A) \in Nat /\ Cardinality(B) \in Nat /\ Cardinality({}) = 0
  BY <1>5, <1>6, FS_CardinalityType, FS_EmptySet
<1>10. Cardinality(info.uniformsUsed) = Cardinality(A) + Cardinality(B)
  <2>1. PICK U, E : U = A \cup B /\ E = A \cap B
    OBVIOUS
  <2>2. U = info.uniformsUsed /\ Cardinality(E) = 0
    BY <1>7, <1>9, <2>1
  <2>3. Cardinality(U) = Cardinality(A) + Cardinality(B) - Cardinality(E)
    BY <1>8, <2>1
  <2>4. PICK a, b \in Nat : a = Cardinality(A) /\ b = Cardinality(B)
    BY <1>9
  <2>5. Cardinality(U) = a + b
    BY <2>2, <2>3, <2>4
  <2> QED  BY <2>2, <2>4, <2>5
<1> QED  BY <1>5, <1>6, <1>9, <1>10

\* The number of words the parameters of a kernel are compiled for.
Counts(count, info) ==
    /\ count \in [0..Len(info.parameters) -> Nat] /\ count[0] = 0
    /\ \A i \in 1..Len(info.parameters) : count[i] = count[i - 1] + info.parameters[i].vectorElements

IsCounting(count, info) ==
    count = [i \in 0..Len(info.parameters) |->
                IF i = 0 THEN 0 ELSE count[i - 1] + info.parameters[i].vectorElements]

\* getExplicitUniformCount is the last of the sums of the elements.
LEMMA CountIs ==
    ASSUME NEW info \in KernelHeaders
    PROVE  \E count : Counts(count, info) /\ ExplicitUniformCount(info) = count[Len(info.parameters)]
<1>1. PICK n \in Nat : n = Len(info.parameters)
  BY DEF KernelHeaders
<1>2. \A i \in 1..n : info.parameters[i].vectorElements \in Nat
  <2>1. info.parameters \in Seq(ParameterHeaders)
    BY DEF KernelHeaders
  <2>2. \A i \in 1..n : info.parameters[i] \in ParameterHeaders
    BY <1>1, <2>1, ElementOfSeq
  <2> QED  BY <2>2 DEF ParameterHeaders
<1> DEFINE part(i) == [j \in 1..info.parameters[i].vectorElements |-> 0]
           ss == [i \in 1..n |-> part(i)]
<1>3. ASSUME NEW i \in 1..n
      PROVE  part(i) \in Seq(Nat) /\ Len(part(i)) = info.parameters[i].vectorElements
  <2>1. PICK l \in Nat : l = info.parameters[i].vectorElements
    BY <1>2
  <2>2. PICK f \in [1..l -> Nat] : f = part(i)
    BY <2>1
  <2>3. f \in Seq(Nat) /\ Len(f) = l
    BY FunctionIsSeq
  <2> QED  BY <2>1, <2>2, <2>3
<1> HIDE DEF part
<1>4. PICK f \in [1..n -> Seq(Nat)] : f = ss
  BY <1>3
<1>5. f \in Seq(Seq(Nat)) /\ Len(f) = n
  BY FunctionIsSeq
<1>6. PICK off : Places(f, n, FlattenSeq(f), off)
  BY <1>5, FlattenPlaces
<1>7. Counts(off, info)
  BY <1>1, <1>3, <1>4, <1>6 DEF Places, Counts
<1>8. IsCounting(off, info)
  <2>1. off \in [0..n -> Nat] /\ off[0] = 0 /\ \A i \in 1..n : off[i] = off[i - 1] + info.parameters[i].vectorElements
    BY <1>1, <1>7 DEF Counts
  <2>2. ASSUME NEW i \in 0..n
        PROVE  off[i] = IF i = 0 THEN 0 ELSE off[i - 1] + info.parameters[i].vectorElements
    BY <2>1
  <2>3. off = [i \in 0..n |-> off[i]]
    BY <2>1
  <2> QED  BY <1>1, <2>2, <2>3 DEF IsCounting
<1> DEFINE F == CHOOSE count : IsCounting(count, info)
<1>9. IsCounting(F, info)
  BY <1>8, Zenon
<1>10. ExplicitUniformCount(info) = F[Len(info.parameters)]
  BY Zenon DEF ExplicitUniformCount, IsCounting
<1> HIDE DEF F
<1>11. Counts(F, info)
  <2> DEFINE T == {k \in Nat : k <= n => F[k] = off[k]}
  <2>1. F = [i \in 0..n |-> IF i = 0 THEN 0 ELSE F[i - 1] + info.parameters[i].vectorElements]
    BY <1>1, <1>9 DEF IsCounting
  <2>2. off = [i \in 0..n |-> IF i = 0 THEN 0 ELSE off[i - 1] + info.parameters[i].vectorElements]
    BY <1>1, <1>8 DEF IsCounting
  <2>3. 0 \in T
    <3>1. 0 \in 0..n
      OBVIOUS
    <3>2. F[0] = 0 /\ off[0] = 0
      BY <2>1, <2>2, <3>1
    <3> QED  BY <3>2
  <2>4. ASSUME NEW k \in Nat, k \in T
        PROVE  k + 1 \in T
    <3>1. ASSUME k + 1 <= n
          PROVE  F[k + 1] = off[k + 1]
      <4>1. k + 1 \in 0..n /\ k + 1 # 0 /\ (k + 1) - 1 = k /\ F[k] = off[k]
        BY <2>4, <3>1
      <4>2. F[k + 1] = F[k] + info.parameters[k + 1].vectorElements
        BY <2>1, <4>1
      <4>3. off[k + 1] = off[k] + info.parameters[k + 1].vectorElements
        BY <2>2, <4>1
      <4> QED  BY <4>1, <4>2, <4>3
    <3>2. k + 1 \in Nat
      OBVIOUS
    <3> QED  BY <3>1, <3>2
  <2> HIDE DEF T
  <2>5. \A k \in Nat : k \in T
    BY <2>3, <2>4, SetInduction
  <2>6. \A k \in 0..n : F[k] = off[k]
    BY <2>5 DEF T
  <2>7. F = [i \in 0..n |-> off[i]]
    BY <2>1, <2>6
  <2>8. off = [i \in 0..n |-> off[i]]
    BY <2>2
  <2> QED  BY <1>7, <2>7, <2>8
<1> QED  BY <1>10, <1>11

---------------------------------------------------------------------------------
(* The UNIFORMs of a QPU *)

HiddenWords ==
    {Address(n) : n \in Nat} \cup {[info |-> s] : s \in UniformNames}
        \cup {[info |-> "LocalIDs", qpu |-> q] : q \in Nat}

\* The hidden parameters take as many words for every QPU.
LEMMA HiddenWordsAre ==
    ASSUME NEW info, info.uniformsUsed \subseteq UniformNames, NEW q \in Nat, NEW start \in Nat
    PROVE  /\ set_work_item_info(info, q) \in Seq(HiddenWords)
           /\ Len(set_work_item_info(info, q)) = Len(Used(WorkItemInfo, info))
           /\ loop_work_groups(info, start) \in Seq(HiddenWords)
           /\ Len(loop_work_groups(info, start)) = Len(Used(LoopInfo, info))
<1>1. /\ \A n \in Nat : Address(n) \in HiddenWords
      /\ \A s \in UniformNames : [info |-> s] \in HiddenWords
      /\ [info |-> "LocalIDs", qpu |-> q] \in HiddenWords
  BY DEF HiddenWords
<1>2. PICK a \in Seq(UniformNames), b \in Seq(UniformNames) :
          a = Used(WorkItemInfo, info) /\ b = Used(LoopInfo, info)
  BY UsedIs
<1>3. PICK m \in Nat, n \in Nat : m = Len(a) /\ n = Len(b)
  OBVIOUS
<1>4. PICK f, g : f = set_work_item_info(info, q) /\ g = loop_work_groups(info, start)
  OBVIOUS
<1>5. f = [i \in 1..m |-> IF a[i] = "GlobalDataAddress" THEN Address(0)
                          ELSE IF a[i] = "LocalIDs" THEN [info |-> "LocalIDs", qpu |-> q]
                          ELSE [info |-> a[i]]]
  BY <1>2, <1>3, <1>4 DEF set_work_item_info
<1>6. g = [i \in 1..n |-> IF b[i] = "UniformAddress" THEN Address(start) ELSE [info |-> b[i]]]
  BY <1>2, <1>3, <1>4 DEF loop_work_groups
<1>7. \A i \in 1..m : a[i] \in UniformNames
  BY <1>3
<1>8. \A i \in 1..n : b[i] \in UniformNames
  BY <1>3
<1>9. f \in [1..m -> HiddenWords]
  <2>1. \A i \in 1..m : f[i] \in HiddenWords
    BY <1>1, <1>5, <1>7
  <2> QED  BY <1>5, <2>1
<1>10. g \in [1..n -> HiddenWords]
  <2>1. \A i \in 1..n : g[i] \in HiddenWords
    BY <1>1, <1>6, <1>8
  <2> QED  BY <1>6, <2>1
<1>11. f \in Seq(HiddenWords) /\ Len(f) = m
  BY <1>9, FunctionIsSeq
<1>12. g \in Seq(HiddenWords) /\ Len(g) = n
  BY <1>10, FunctionIsSeq
<1> QED  BY <1>2, <1>3, <1>4, <1>11, <1>12

\* Sequences of different elements are sequences of the elements of all.
LEMMA OneElementSet ==
    ASSUME NEW n \in Nat, NEW ss, ss = [i \in 1..n |-> ss[i]], \A i \in 1..n : \E S : ss[i] \in Seq(S)
    PROVE  \E V : ss \in Seq(Seq(V)) /\ Len(ss) = n
<1> DEFINE V == UNION {{ss[i][j] : j \in 1..Len(ss[i])} : i \in 1..n}
<1>1. ASSUME NEW i \in 1..n
      PROVE  ss[i] \in Seq(V)
  <2>1. PICK S, s : s = ss[i] /\ s \in Seq(S)
    OBVIOUS
  <2>2. PICK l \in Nat : l = Len(s)
    BY <2>1
  <2>3. \A j \in 1..l : s[j] \in V
    BY <2>1, <2>2
  <2> HIDE DEF V
  <2>4. s = [j \in 1..l |-> s[j]]
    BY <2>1, <2>2
  <2>5. s \in [1..l -> V]
    BY <2>3, <2>4
  <2>6. s \in Seq(V)
    BY <2>5, FunctionIsSeq
  <2> QED  BY <2>1, <2>6
<1> HIDE DEF V
<1>2. ss \in [1..n -> Seq(V)]
  BY <1>1
<1>3. ss \in Seq(Seq(V)) /\ Len(ss) = n
  BY <1>2, FunctionIsSeq
<1> QED  BY <1>3

\* A sequence over a larger set.
LEMMA WiderSeq ==
    ASSUME NEW S, NEW T, S \subseteq T, NEW s \in Seq(S)
    PROVE  s \in Seq(T)
<1>1. PICK l \in Nat : l = Len(s)
  OBVIOUS
<1>2. s \in [1..l -> T]
  BY <1>1
<1> QED  BY <1>2, FunctionIsSeq

\* The words of the arguments of an execution.
AllArguments(x) == FlattenSeq([i \in 1..Len(x.info.parameters) |-> ArgumentWords(x, i)])
LongScalarIn(x) == \E i \in DOMAIN x.info.parameters : LongScalar(x.info.parameters[i])

\* The arguments take as many words as they are counted for, unless one is of 64 bits.
LEMMA AllArgumentsAre ==
    ASSUME NEW m \in Modules, NEW x, ExecutionSet(m, x)
    PROVE  /\ \E V : AllArguments(x) \in Seq(V)
           /\ ~LongScalarIn(x) => Len(AllArguments(x)) = ExplicitUniformCount(x.info)
<1>1. PICK n \in Nat : n = Len(x.info.parameters)
  BY ParametersAre DEF ExecutionSet
<1>2. x.info \in KernelHeaders /\ DOMAIN x.info.parameters = 1..n
  BY <1>1, ParametersAre DEF ExecutionSet
<1>3. PICK ss : ss = [i \in 1..n |-> ArgumentWords(x, i)]
  OBVIOUS
<1>4. ASSUME NEW i \in 1..n
      PROVE  ss[i] = ArgumentWords(x, i) /\ ArgumentArrived(x, i)
  <2>1. i \in DOMAIN x.info.parameters
    BY <1>2
  <2>2. ArgumentArrived(x, i)
    BY <2>1, ArgumentArrives
  <2> QED  BY <1>3, <2>2
<1>5. \A i \in 1..n : \E S : ss[i] \in Seq(S)
  BY <1>4 DEF ArgumentArrived
<1>6. PICK V : ss \in Seq(Seq(V)) /\ Len(ss) = n
  <2>1. ss = [i \in 1..n |-> ss[i]]
    BY <1>3
  <2> QED  BY <1>5, <2>1, OneElementSet
<1>7. AllArguments(x) = FlattenSeq(ss)
  BY <1>1, <1>3 DEF AllArguments
<1>8. AllArguments(x) \in Seq(V)
  BY <1>6, <1>7, FlattenPlaces
<1>9. ASSUME ~LongScalarIn(x)
      PROVE  Len(AllArguments(x)) = ExplicitUniformCount(x.info)
  <2>1. PICK count : Counts(count, x.info) /\ ExplicitUniformCount(x.info) = count[n]
    BY <1>1, <1>2, CountIs
  <2>2. \A i \in 1..n : Len(ss[i]) = x.info.parameters[i].vectorElements
    BY <1>2, <1>4, <1>9 DEF ArgumentArrived, LongScalarIn
  <2>3. Sums(count, ss, Len(ss))
    BY <1>1, <1>6, <2>1, <2>2 DEF Counts, Sums
  <2>4. Len(FlattenSeq(ss)) = count[Len(ss)]
    BY <1>6, <2>3, PartsAre
  <2> QED  BY <1>6, <1>7, <2>1, <2>4
<1> QED  BY <1>8, <1>9

\* Words that are appended leave the words before them where they are.
LEMMA AppendedWords ==
    ASSUME NEW V, NEW words \in Seq(V), NEW more \in Seq(V)
    PROVE  /\ words \o more \in Seq(V) /\ Len(words \o more) = Len(words) + Len(more)
           /\ Holds(words \o more, Len(words), more)
           /\ \A at \in Nat : \A seg : Len(seg) \in Nat /\ Holds(words, at, seg) => Holds(words \o more, at, seg)
<1>1. PICK data : data = words \o more
  OBVIOUS
<1>2. PICK a \in Nat, b \in Nat : a = Len(words) /\ b = Len(more)
  OBVIOUS
<1>3. data \in Seq(V) /\ Len(data) = a + b
  BY <1>1, <1>2
<1>4. /\ \A j \in 1..a : data[j] = words[j]
      /\ \A j \in 1..b : data[a + j] = more[j]
  BY <1>1, <1>2
<1>5. Holds(data, a, more)
  BY <1>2, <1>3, <1>4 DEF Holds
<1>6. ASSUME NEW at \in Nat, NEW seg, Len(seg) \in Nat, Holds(words, at, seg)
      PROVE  Holds(data, at, seg)
  <2>1. PICK l \in Nat : l = Len(seg)
    BY <1>6
  <2>2. at + l <= a /\ \A j \in 1..l : words[at + j] = seg[j]
    BY <1>2, <1>6, <2>1 DEF Holds
  <2>3. at + l <= Len(data) /\ \A j \in 1..l : at + j \in 1..a
    BY <1>2, <1>3, <2>2
  <2> QED  BY <1>4, <2>1, <2>2, <2>3 DEF Holds
<1> QED  BY <1>1, <1>2, <1>3, <1>5, <1>6

\* What the code of a QPU reads first: the values of the work-item and the arguments.
FrontWords(x, q) == set_work_item_info(x.info, q) \o AllArguments(x)

QPUUniformsFit(x, q, start, V, L) ==
    /\ FrontWords(x, q) \in Seq(V) /\ loop_work_groups(x.info, start) \in Seq(V)
    /\ QPUUniforms(x, q, start) = FrontWords(x, q) \o loop_work_groups(x.info, start)
    /\ QPUUniforms(x, q, start) \in Seq(V) /\ Len(QPUUniforms(x, q, start)) = L

UniformsFit(x, V, L) ==
    /\ L \in Nat
    /\ ~LongScalarIn(x) => L = Cardinality(x.info.uniformsUsed) + ExplicitUniformCount(x.info)
    /\ \A q \in Nat : \A start \in Nat : QPUUniformsFit(x, q, start, V, L)

\* The UNIFORMs of every QPU are as many.
LEMMA UniformsDoFit ==
    ASSUME NEW m \in Modules, NEW x, ExecutionSet(m, x)
    PROVE  /\ Cardinality(x.info.uniformsUsed) \in Nat
           /\ \E V : \E L : UniformsFit(x, V, L)
<1>1. x.info.uniformsUsed \subseteq UniformNames
  BY ParametersAre DEF ExecutionSet, KernelHeaders
<1>2. PICK V0 : AllArguments(x) \in Seq(V0)
  BY AllArgumentsAre
<1>3. PICK V, args : V = HiddenWords \cup V0 /\ args = AllArguments(x) /\ args \in Seq(V)
  <2>1. PICK V, args : V = HiddenWords \cup V0 /\ args = AllArguments(x) /\ args \in Seq(V0) /\ V0 \subseteq V
    BY <1>2
  <2>2. args \in Seq(V)
    BY <2>1, WiderSeq
  <2> QED  BY <2>1, <2>2
<1>4. PICK a \in Nat, b \in Nat, c \in Nat :
          a = Len(Used(WorkItemInfo, x.info)) /\ b = Len(args) /\ c = Len(Used(LoopInfo, x.info))
  BY <1>1, <1>3, UsedIs
<1>5. ~LongScalarIn(x) => a + b + c = Cardinality(x.info.uniformsUsed) + ExplicitUniformCount(x.info)
  <2>1. SUFFICES ASSUME ~LongScalarIn(x)
                 PROVE  a + b + c = Cardinality(x.info.uniformsUsed) + ExplicitUniformCount(x.info)
    OBVIOUS
  <2>2. b = ExplicitUniformCount(x.info)
    BY <1>3, <1>4, <2>1, AllArgumentsAre
  <2>3. a + c = Cardinality(x.info.uniformsUsed)
    BY <1>1, <1>4, UsedIs
  <2> QED  BY <2>2, <2>3
<1>6. ASSUME NEW q \in Nat, NEW start \in Nat
      PROVE  QPUUniformsFit(x, q, start, V, a + b + c)
  <2>1. PICK u, l : u = set_work_item_info(x.info, q) /\ l = loop_work_groups(x.info, start)
    OBVIOUS
  <2>2. u \in Seq(HiddenWords) /\ Len(u) = a /\ l \in Seq(HiddenWords) /\ Len(l) = c
    BY <1>1, <1>4, <2>1, HiddenWordsAre
  <2>3. HiddenWords \subseteq V
    BY <1>3
  <2>4. u \in Seq(V)
    BY <2>2, <2>3, WiderSeq
  <2>5. l \in Seq(V)
    BY <2>2, <2>3, WiderSeq
  <2>6. PICK front : front = u \o args
    OBVIOUS
  <2>7. front \in Seq(V) /\ Len(front) = a + b
    <3>1. args \in Seq(V)
      BY <1>3
    <3>2. u \o args \in Seq(V) /\ Len(u \o args) = Len(u) + Len(args)
      BY <2>4, <3>1, AppendedWords
    <3> QED  BY <1>4, <2>2, <2>6, <3>2
  <2>8. front \o l \in Seq(V) /\ Len(front \o l) = a + b + c
    <3>1. front \o l \in Seq(V) /\ Len(front \o l) = Len(front) + Len(l)
      BY <2>5, <2>7, AppendedWords
    <3> QED  BY <2>2, <2>7, <3>1
  <2>9. front = FrontWords(x, q)
    BY <1>3, <2>1, <2>6 DEF FrontWords
  <2>10. QPUUniforms(x, q, start) = front \o l
    BY <2>1, <2>9 DEF QPUUniforms, FrontWords, AllArguments
  <2> QED  BY <2>1, <2>5, <2>7, <2>8, <2>9, <2>10 DEF QPUUniformsFit
<1>7. UniformsFit(x, V, a + b + c)
  BY <1>5, <1>6 DEF UniformsFit
<1>8. Cardinality(x.info.uniformsUsed) \in Nat
  BY <1>1, UsedIs
<1> QED  BY <1>7, <1>8

\* The block of the first QPUs, and with one more.
NoUniforms == [words |-> <<>>, pointers |-> <<>>]
OneMoreQPU(x, base, before, q) ==
    LET start == base + Len(before.words) IN
    [words |-> before.words \o QPUUniforms(x, q, start), pointers |-> Append(before.pointers, start)]

IsBlock(f, x, base, n) ==
    f = [q \in 0..n |-> IF q = 0 THEN NoUniforms ELSE OneMoreQPU(x, base, f[q - 1], q)]

\* The blocks of the first QPUs.
LEMMA BlockExists ==
    ASSUME NEW x, NEW base, NEW n \in Nat
    PROVE  \E f : IsBlock(f, x, base, n)
<1> DEFINE T == {k \in Nat : \E f : IsBlock(f, x, base, k)}
<1>1. 0 \in T
  <2> DEFINE f == [i \in 0..0 |-> NoUniforms]
  <2>1. IsBlock(f, x, base, 0)
    BY DEF IsBlock
  <2> QED BY <2>1
<1>2. ASSUME NEW k \in Nat, k \in T
      PROVE  k + 1 \in T
  <2>1. PICK f : IsBlock(f, x, base, k)
    BY <1>2
  <2> DEFINE g == [i \in 0..(k + 1) |-> IF i <= k THEN f[i] ELSE OneMoreQPU(x, base, f[k], k + 1)]
  <2>2. ASSUME NEW i \in 0..(k + 1)
        PROVE  g[i] = IF i = 0 THEN NoUniforms ELSE OneMoreQPU(x, base, g[i - 1], i)
    <3>1. CASE i = 0
      BY <2>1, <3>1 DEF IsBlock
    <3>2. CASE i # 0 /\ i <= k
      <4>1. i - 1 \in 0..k /\ i - 1 \in 0..(k + 1) /\ i - 1 <= k
        BY <3>2
      <4> QED BY <2>1, <3>2, <4>1 DEF IsBlock
    <3>3. CASE i = k + 1
      <4>1. i - 1 = k /\ i # 0 /\ ~(i <= k) /\ k \in 0..(k + 1)
        BY <3>3
      <4> QED BY <3>3, <4>1
    <3> QED BY <3>1, <3>2, <3>3
  <2>3. IsBlock(g, x, base, k + 1)
    BY <2>2 DEF IsBlock
  <2> QED BY <2>3
<1> HIDE DEF T
<1>3. n \in T
  BY <1>1, <1>2, SetInduction
<1> QED BY <1>3 DEF T

\* Uniforms is the last of them.
LEMMA UniformsIs ==
    ASSUME NEW x, x.numQPUs \in Nat, NEW base
    PROVE  \E f : IsBlock(f, x, base, x.numQPUs) /\ Uniforms(x, base) = f[x.numQPUs]
<1> DEFINE F == CHOOSE f : IsBlock(f, x, base, x.numQPUs)
<1>1. IsBlock(F, x, base, x.numQPUs)
  BY BlockExists, Zenon
<1>2. Uniforms(x, base) = F[x.numQPUs]
  BY Zenon DEF Uniforms, OneMoreQPU, NoUniforms, IsBlock
<1> QED BY <1>1, <1>2

\* The UNIFORMs of the first n QPUs, each of which takes L words.
QPUsHave(words, x, base, n, L) ==
    /\ Len(words) = n * L
    /\ \A q \in 1..n : Holds(words, (q - 1) * L, QPUUniforms(x, q, base + (q - 1) * L))

\* The UNIFORMs of one more QPU come after those before.
LEMMA OneMoreQPUHas ==
    ASSUME NEW V, NEW L \in Nat, NEW x, NEW base \in Nat, NEW k \in Nat, NEW words \in Seq(V),
           QPUsHave(words, x, base, k, L), NEW more \in Seq(V),
           more = QPUUniforms(x, k + 1, base + k * L), Len(more) = L,
           \A q \in Nat : \A start \in Nat : Len(QPUUniforms(x, q, start)) = L
    PROVE  words \o more \in Seq(V) /\ QPUsHave(words \o more, x, base, k + 1, L)
<1>1. PICK data : data = words \o more
  OBVIOUS
<1>2. /\ data \in Seq(V) /\ Len(data) = Len(words) + Len(more)
      /\ Holds(data, Len(words), more)
      /\ \A at \in Nat : \A seg : Len(seg) \in Nat /\ Holds(words, at, seg) => Holds(data, at, seg)
  BY <1>1, AppendedWords
<1>3. k + 1 \in Nat \ {0} /\ (k + 1) - 1 = k
  OBVIOUS
<1>4. k * L \in Nat /\ (k + 1) * L = k * L + L
  BY <1>3, Times
<1>5. Len(words) = k * L /\ Len(data) = (k + 1) * L
  BY <1>2, <1>4 DEF QPUsHave
<1>6. ASSUME NEW q \in 1..(k + 1)
      PROVE  Holds(data, (q - 1) * L, QPUUniforms(x, q, base + (q - 1) * L))
  <2>1. CASE q = k + 1
    BY <1>2, <1>3, <1>5, <2>1
  <2>2. CASE q # k + 1
    <3>1. q \in 1..k /\ q \in Nat \ {0} /\ q \in Nat
      BY <2>2
    <3>2. PICK at \in Nat : at = (q - 1) * L
      BY <3>1, Times
    <3>3. PICK seg : seg = QPUUniforms(x, q, base + at)
      OBVIOUS
    <3>4. Len(seg) = L
      BY <3>1, <3>3
    <3>5. Holds(words, at, seg)
      BY <3>1, <3>2, <3>3 DEF QPUsHave
    <3>6. Holds(data, at, seg)
      BY <1>2, <3>4, <3>5
    <3> QED  BY <3>2, <3>3, <3>6
  <2> QED  BY <2>1, <2>2
<1> QED  BY <1>1, <1>2, <1>5, <1>6 DEF QPUsHave

\* The UNIFORMs of every QPU lie in the block, one after the other.
LEMMA UniformsAre ==
    ASSUME NEW x, x.numQPUs \in Nat, NEW base \in Nat, NEW V, NEW L, UniformsFit(x, V, L)
    PROVE  Uniforms(x, base).words \in Seq(V) /\ QPUsHave(Uniforms(x, base).words, x, base, x.numQPUs, L)
<1>1. PICK n \in Nat : n = x.numQPUs
  OBVIOUS
<1>2. PICK f : IsBlock(f, x, base, n) /\ Uniforms(x, base) = f[n]
  BY <1>1, UniformsIs
<1>3. L \in Nat
  BY DEF UniformsFit
<1>4. \A q \in Nat : \A start \in Nat : QPUUniforms(x, q, start) \in Seq(V) /\ Len(QPUUniforms(x, q, start)) = L
  BY DEF UniformsFit, QPUUniformsFit
<1> DEFINE T == {k \in Nat : k <= n => f[k].words \in Seq(V) /\ QPUsHave(f[k].words, x, base, k, L)}
<1>5. 0 \in T
  <2>1. 0 \in 0..n
    OBVIOUS
  <2>2. f[0] = NoUniforms
    BY <1>2, <2>1 DEF IsBlock
  <2>3. PICK w : w = f[0].words
    OBVIOUS
  <2>4. w = <<>>
    BY <2>2, <2>3 DEF NoUniforms
  <2>5. w \in Seq(V) /\ Len(w) = 0
    BY <2>4
  <2>6. 0 * L = 0
    BY <1>3
  <2>7. QPUsHave(w, x, base, 0, L)
    BY <2>5, <2>6 DEF QPUsHave
  <2> QED  BY <2>3, <2>5, <2>7
<1>6. ASSUME NEW k \in Nat, k \in T
      PROVE  k + 1 \in T
  <2>1. ASSUME k + 1 <= n
        PROVE  f[k + 1].words \in Seq(V) /\ QPUsHave(f[k + 1].words, x, base, k + 1, L)
    <3>1. PICK words : words = f[k].words
      OBVIOUS
    <3>2. words \in Seq(V)
      BY <1>6, <2>1, <3>1
    <3>3. QPUsHave(words, x, base, k, L)
      BY <1>6, <2>1, <3>1
    <3>4. k + 1 \in 0..n /\ k + 1 # 0 /\ (k + 1) - 1 = k
      BY <2>1
    <3>5. f[k + 1] = OneMoreQPU(x, base, f[k], k + 1)
      BY <1>2, <3>4 DEF IsBlock
    <3>6. k * L \in Nat /\ k + 1 \in Nat
      BY <1>3
    <3>7. Len(words) = k * L
      BY <3>3 DEF QPUsHave
    <3>8. PICK more : more = QPUUniforms(x, k + 1, base + k * L)
      OBVIOUS
    <3>9. f[k + 1].words = words \o more
      <4>1. PICK before, i, start : before = f[k] /\ i = k + 1 /\ start = base + Len(words)
        OBVIOUS
      <4>2. OneMoreQPU(x, base, before, i).words = before.words \o QPUUniforms(x, i, base + Len(before.words))
        BY DEF OneMoreQPU
      <4>3. before.words = words /\ f[i] = OneMoreQPU(x, base, before, i)
        BY <3>1, <3>5, <4>1
      <4>4. QPUUniforms(x, i, base + Len(words)) = more
        BY <3>7, <3>8, <4>1
      <4>5. f[i].words = words \o more
        BY <4>2, <4>3, <4>4, Zenon
      <4> QED  BY <4>1, <4>5
    <3>10. base + k * L \in Nat
      BY <3>6
    <3>11. more \in Seq(V) /\ Len(more) = L
      BY <1>4, <3>6, <3>8, <3>10
    <3>12. more \in Seq(V)
      BY <3>11
    <3>13. \A q \in Nat : \A start \in Nat : Len(QPUUniforms(x, q, start)) = L
      BY <1>4
    <3>14. words \o more \in Seq(V) /\ QPUsHave(words \o more, x, base, k + 1, L)
      BY <1>3, <3>2, <3>3, <3>8, <3>11, <3>12, <3>13, OneMoreQPUHas
    <3> QED  BY <3>9, <3>14
  <2>2. k + 1 \in Nat
    OBVIOUS
  <2> QED  BY <2>1, <2>2
<1> HIDE DEF T
<1>7. n \in T
  BY <1>5, <1>6, SetInduction
<1> QED  BY <1>1, <1>2, <1>7 DEF T

\* A pair of words.
LEMMA TwoWords ==
    ASSUME NEW S, NEW a \in S, NEW b \in S
    PROVE  <<a, b>> \in Seq(S) /\ Len(<<a, b>>) = 2 /\ <<a, b>>[1] = a /\ <<a, b>>[2] = b
OBVIOUS

\* n pairs of words.
LEMMA PairsAre ==
    ASSUME NEW S, NEW n \in Nat, NEW ss, ss = [q \in 1..n |-> ss[q]],
           \A q \in 1..n : ss[q] \in Seq(S) /\ Len(ss[q]) = 2
    PROVE  /\ FlattenSeq(ss) \in Seq(S) /\ Len(FlattenSeq(ss)) = 2 * n
           /\ \A q \in 1..n : Holds(FlattenSeq(ss), 2 * (q - 1), ss[q])
<1>1. PICK two \in Nat : two = 2
  OBVIOUS
<1>2. ss \in [1..n -> Seq(S)]
  OBVIOUS
<1>3. ss \in Seq(Seq(S)) /\ Len(ss) = n
  BY <1>2, FunctionIsSeq
<1>4. \A q \in 1..Len(ss) : Len(ss[q]) = two
  BY <1>1, <1>3
<1>5. /\ FlattenSeq(ss) \in Seq(S) /\ Len(FlattenSeq(ss)) = n * two
      /\ \A q \in 1..n : Holds(FlattenSeq(ss), (q - 1) * two, ss[q])
  BY <1>3, <1>4, EqualPartsAre
<1>6. n * two = 2 * n /\ \A q \in 1..n : (q - 1) * two = 2 * (q - 1)
  BY <1>1
<1> QED  BY <1>5, <1>6

\* 64-bit words are twice as many of 32 bits.
LEMMA HalvesAre ==
    ASSUME NEW W, NEW words \in Seq(W)
    PROVE  (\E S : Halves(words) \in Seq(S)) /\ Len(Halves(words)) = 2 * Len(words)
<1>1. PICK n \in Nat : n = Len(words)
  OBVIOUS
<1> DEFINE S == {[low |-> e] : e \in W} \cup {[high |-> e] : e \in W}
<1>2. PICK ss : ss = [w \in 1..n |-> <<[low |-> words[w]], [high |-> words[w]]>>]
  OBVIOUS
<1>3. ASSUME NEW q \in 1..n
      PROVE  ss[q] \in Seq(S) /\ Len(ss[q]) = 2
  <2>1. PICK a \in S, b \in S : a = [low |-> words[q]] /\ b = [high |-> words[q]]
    <3>1. words[q] \in W
      BY <1>1
    <3> QED  BY <3>1
  <2> HIDE DEF S
  <2>2. ss[q] = <<a, b>>
    BY <1>2, <2>1
  <2> QED  BY <2>2, TwoWords
<1> HIDE DEF S
<1>4. ss = [q \in 1..n |-> ss[q]]
  BY <1>2
<1>5. FlattenSeq(ss) \in Seq(S) /\ Len(FlattenSeq(ss)) = 2 * n
  BY <1>3, <1>4, PairsAre
<1>6. Halves(words) = FlattenSeq(ss)
  BY <1>1, <1>2 DEF Halves
<1> QED  BY <1>1, <1>5, <1>6

AddressWords == {Address(n) : n \in Nat}

\* Where the messages point the QPUs to.
PerQPU(x) == Cardinality(x.info.uniformsUsed) + ExplicitUniformCount(x.info)

MessagesAre(messages, x, n, uniforms, code) ==
    /\ messages \in Seq(AddressWords) /\ Len(messages) = 2 * n
    /\ \A q \in 1..n : /\ messages[2 * (q - 1) + 1] = Address(uniforms + (q - 1) * PerQPU(x))
                       /\ messages[2 * (q - 1) + 2] = Address(code)

\* The launch messages as loadLaunchMessages writes them.
LEMMA LaunchMessagesAre ==
    ASSUME NEW x, x.numQPUs \in Nat, PerQPU(x) \in Nat, NEW uniforms \in Nat, NEW code \in Nat
    PROVE  MessagesAre(LaunchMessages(x, uniforms, code), x, x.numQPUs, uniforms, code)
<1>1. PICK n \in Nat, per \in Nat : n = x.numQPUs /\ per = PerQPU(x)
  OBVIOUS
<1>2. \A a \in Nat : Address(a) \in AddressWords
  BY DEF AddressWords
<1>3. PICK ss : ss = [q \in 1..n |-> <<Address(uniforms + (q - 1) * per), Address(code)>>]
  OBVIOUS
<1>4. ASSUME NEW q \in 1..n
      PROVE  /\ ss[q] \in Seq(AddressWords) /\ Len(ss[q]) = 2
             /\ ss[q][1] = Address(uniforms + (q - 1) * per) /\ ss[q][2] = Address(code)
  <2>1. q \in Nat \ {0}
    OBVIOUS
  <2>2. (q - 1) * per \in Nat
    BY <2>1, Times
  <2>3. uniforms + (q - 1) * per \in Nat
    BY <2>2
  <2>4. PICK a \in AddressWords, b \in AddressWords : a = Address(uniforms + (q - 1) * per) /\ b = Address(code)
    BY <1>2, <2>3
  <2>5. ss[q] = <<a, b>>
    BY <1>3, <2>4
  <2> QED  BY <2>4, <2>5, TwoWords
<1>5. ss = [q \in 1..n |-> ss[q]]
  BY <1>3
<1>6. PICK messages : messages = FlattenSeq(ss)
  OBVIOUS
<1>7. /\ messages \in Seq(AddressWords) /\ Len(messages) = 2 * n
      /\ \A q \in 1..n : Holds(messages, 2 * (q - 1), ss[q])
  BY <1>4, <1>5, <1>6, PairsAre
<1>8. LaunchMessages(x, uniforms, code) = messages
  BY <1>1, <1>3, <1>6 DEF LaunchMessages, PerQPU
<1>9. ASSUME NEW q \in 1..n
      PROVE  /\ messages[2 * (q - 1) + 1] = Address(uniforms + (q - 1) * PerQPU(x))
             /\ messages[2 * (q - 1) + 2] = Address(code)
  <2>1. 1 \in 1..Len(ss[q]) /\ 2 \in 1..Len(ss[q])
    BY <1>4
  <2>2. messages[2 * (q - 1) + 1] = ss[q][1] /\ messages[2 * (q - 1) + 2] = ss[q][2]
    BY <1>7, <2>1 DEF Holds
  <2> QED  BY <1>1, <1>4, <2>2
<1> QED  BY <1>1, <1>7, <1>8, <1>9 DEF MessagesAre

---------------------------------------------------------------------------------
(* The parts of the device buffer *)

IsWords(V, w) == w \in Seq(V)
Follows(a, b, c) == c = a \o b

\* The words of c are those of a and, after them, those of b.
Extends(V, a, b, c) ==
    /\ IsWords(V, c) /\ Len(a) \in Nat /\ Len(b) \in Nat /\ Len(c) = Len(a) + Len(b)
    /\ Holds(c, Len(a), b)
    /\ \A at \in Nat : \A seg : IsWords(V, seg) /\ Holds(a, at, seg) => Holds(c, at, seg)

\* What is appended comes after what was there, which stays where it is.
LEMMA NextPart ==
    ASSUME NEW V, NEW a, NEW b, IsWords(V, a), IsWords(V, b), NEW c, Follows(a, b, c)
    PROVE  Extends(V, a, b, c)
<1>1. PICK x \in Seq(V) : x = a
  BY DEF IsWords
<1>2. PICK y \in Seq(V) : y = b
  BY DEF IsWords
<1>3. /\ x \o y \in Seq(V) /\ Len(x \o y) = Len(x) + Len(y)
      /\ Holds(x \o y, Len(x), y)
      /\ \A at \in Nat : \A seg : Len(seg) \in Nat /\ Holds(x, at, seg) => Holds(x \o y, at, seg)
  BY AppendedWords
<1>4. \A seg : IsWords(V, seg) => Len(seg) \in Nat
  BY DEF IsWords
<1> QED  BY <1>1, <1>2, <1>3, <1>4 DEF IsWords, Follows, Extends

\* The seven parts of the buffer, of which two are the same.
Parts(words, data, stack, code, block, first, second) ==
    words = data \o stack \o code \o block \o block \o first \o second

PartsFound(words, data, stack, code, block, first, second) ==
    LET start == Len(data) + Len(stack)
        uniforms0 == start + Len(code)
        uniforms1 == uniforms0 + Len(block)
        messages0 == uniforms1 + Len(block)
    IN
    /\ Len(words) = messages0 + Len(first) + Len(second)
    /\ Holds(words, start, code) /\ Holds(words, uniforms0, block) /\ Holds(words, uniforms1, block)
    /\ Holds(words, messages0, first) /\ Holds(words, messages0 + Len(first), second)

\* Every part is found after those before it.
LEMMA SevenParts ==
    ASSUME NEW V, NEW data, NEW stack, NEW code, NEW block, NEW first, NEW second,
           IsWords(V, data), IsWords(V, stack), IsWords(V, code), IsWords(V, block),
           IsWords(V, first), IsWords(V, second),
           NEW words, Parts(words, data, stack, code, block, first, second)
    PROVE  PartsFound(words, data, stack, code, block, first, second)
<1>1. PICK c2 : c2 = data \o stack /\ Follows(data, stack, c2)
  BY DEF Follows
<1>2. PICK c3 : c3 = c2 \o code /\ Follows(c2, code, c3)
  BY DEF Follows
<1>3. PICK c4 : c4 = c3 \o block /\ Follows(c3, block, c4)
  BY DEF Follows
<1>4. PICK c5 : c5 = c4 \o block /\ Follows(c4, block, c5)
  BY DEF Follows
<1>5. PICK c6 : c6 = c5 \o first /\ Follows(c5, first, c6)
  BY DEF Follows
<1>6. Follows(c6, second, words)
  BY <1>1, <1>2, <1>3, <1>4, <1>5 DEF Follows, Parts
<1>7. Extends(V, data, stack, c2) /\ IsWords(V, c2)
  <2>1. Extends(V, data, stack, c2)
    BY <1>1, NextPart
  <2> QED  BY <2>1 DEF Extends
<1>8. Extends(V, c2, code, c3) /\ IsWords(V, c3)
  <2>1. Extends(V, c2, code, c3)
    BY <1>2, <1>7, NextPart
  <2> QED  BY <2>1 DEF Extends
<1>9. Extends(V, c3, block, c4) /\ IsWords(V, c4)
  <2>1. Extends(V, c3, block, c4)
    BY <1>3, <1>8, NextPart
  <2> QED  BY <2>1 DEF Extends
<1>10. Extends(V, c4, block, c5) /\ IsWords(V, c5)
  <2>1. Extends(V, c4, block, c5)
    BY <1>4, <1>9, NextPart
  <2> QED  BY <2>1 DEF Extends
<1>11. Extends(V, c5, first, c6) /\ IsWords(V, c6)
  <2>1. Extends(V, c5, first, c6)
    BY <1>5, <1>10, NextPart
  <2> QED  BY <2>1 DEF Extends
<1>12. Extends(V, c6, second, words) /\ IsWords(V, words)
  <2>1. Extends(V, c6, second, words)
    BY <1>6, <1>11, NextPart
  <2> QED  BY <2>1 DEF Extends
<1>13. Holds(words, Len(c2), code)
  BY <1>7, <1>8, <1>9, <1>10, <1>11, <1>12 DEF Extends
<1>14. Holds(words, Len(c3), block)
  BY <1>8, <1>9, <1>10, <1>11, <1>12 DEF Extends
<1>15. Holds(words, Len(c4), block)
  BY <1>9, <1>10, <1>11, <1>12 DEF Extends
<1>16. Holds(words, Len(c5), first)
  BY <1>10, <1>11, <1>12 DEF Extends
<1> QED  BY <1>7, <1>8, <1>9, <1>10, <1>11, <1>12, <1>13, <1>14, <1>15, <1>16 DEF Extends, PartsFound

\* Global data and stack come before the code.
LEMMA DataAndStack ==
    ASSUME NEW m \in Modules
    PROVE  /\ m.stackWords \in Nat /\ Len(DataSegment(Headers(m))) \in Nat
           /\ NumQPUs * m.stackWords * 2 \in Nat
           /\ \E V : IsWords(V, Halves(DataSegment(Headers(m))))
           /\ Len(Halves(DataSegment(Headers(m)))) = 2 * Len(DataSegment(Headers(m)))
           /\ \E V : IsWords(V, StackOf(m))
           /\ Len(StackOf(m)) = NumQPUs * m.stackWords * 2
<1>1. m.stackWords \in Nat
  <2>1. Headers(m).stackWords = m.stackWords
    BY Zenon DEF Headers, HeadersAt
  <2> QED  BY <2>1, HeadersAre DEF IsModule
<1>2. PICK q \in Nat, s \in Nat : q = NumQPUs /\ s = m.stackWords
  BY <1>1, KernelArgumentsAssumption
<1>3. q * s \in Nat /\ q * s * 2 \in Nat
  OBVIOUS
<1>4. PICK n \in Nat : n = NumQPUs * m.stackWords * 2
  BY <1>2, <1>3
<1>5. PICK f \in [1..n -> {[info |-> "stack"]}] : f = StackOf(m)
  BY <1>4 DEF StackOf
<1>6. f \in Seq({[info |-> "stack"]}) /\ Len(f) = n
  BY FunctionIsSeq
<1>7. PICK W, data : data = DataSegment(Headers(m)) /\ data \in Seq(W)
  <2>1. IsModule(Headers(m))
    BY HeadersAre
  <2>2. PICK W : ModuleWordsIn(Headers(m), W)
    BY <2>1, ModuleWordsExist
  <2> QED  BY <2>1, <2>2, ModuleParts
<1>8. (\E S : Halves(data) \in Seq(S)) /\ Len(Halves(data)) = 2 * Len(data) /\ Len(data) \in Nat
  <2>1. Len(data) \in Nat
    BY <1>7
  <2>2. (\E S : Halves(data) \in Seq(S)) /\ Len(Halves(data)) = 2 * Len(data)
    BY <1>7, HalvesAre
  <2> QED  BY <2>1, <2>2
<1> QED  BY <1>1, <1>4, <1>5, <1>6, <1>7, <1>8 DEF IsWords

\* The code in the buffer is twice as many words as the kernel's length.
LEMMA InstructionsAre ==
    ASSUME NEW m \in Modules, NEW x, ExecutionSet(m, x)
    PROVE  /\ x.info.length \in Nat /\ Len(InstructionsOf(m, x)) = 2 * x.info.length
           /\ \E V : IsWords(V, InstructionsOf(m, x))
<1>1. PICK n \in 1..Len(m.kernels) : x.info = Headers(m).kernels[n]
  BY DEF ExecutionSet, Header
<1>2. PICK info : info = x.info
  OBVIOUS
<1>3. /\ info.length \in Nat /\ Len(Instructions(m.kernels[n])) = info.length
      /\ (\E C : Instructions(m.kernels[n]) \in Seq(C))
      /\ SubSeq(Compiled(m), info.offset + 1, info.offset + info.length) = Instructions(m.kernels[n])
  BY <1>1, <1>2, CodeIsThere
<1>4. PICK C, code : code = Instructions(m.kernels[n]) /\ code \in Seq(C)
  BY <1>3
<1>5. InstructionsOf(m, x) = Halves(code)
  BY <1>2, <1>3, <1>4 DEF InstructionsOf
<1>6. (\E S : Halves(code) \in Seq(S)) /\ Len(Halves(code)) = 2 * Len(code)
  BY <1>4, HalvesAre
<1> QED  BY <1>2, <1>3, <1>4, <1>5, <1>6 DEF IsWords

\* Where the parts of the buffer start, and what is found there.
LaidOut(m, x, d, start, block, L) ==
    LET uniforms0 == start + 2 * x.info.length
        uniforms1 == uniforms0 + x.numQPUs * L
        messages0 == uniforms1 + x.numQPUs * L
        messages1 == messages0 + 2 * x.numQPUs
    IN
    /\ start = 2 * Len(DataSegment(Headers(m))) + NumQPUs * m.stackWords * 2
    /\ Len(d.words) = messages1 + 2 * x.numQPUs
    /\ d.messages = <<messages0, messages1>>
    /\ Holds(d.words, start, InstructionsOf(m, x))
    /\ QPUsHave(block, x, uniforms0, x.numQPUs, L)
    /\ Holds(d.words, uniforms0, block) /\ Holds(d.words, uniforms1, block)
    /\ \E first : Holds(d.words, messages0, first) /\ MessagesAre(first, x, x.numQPUs, uniforms0, start)
    /\ \E second : Holds(d.words, messages1, second) /\ MessagesAre(second, x, x.numQPUs, uniforms1, start)

\* The words the launch messages count for a QPU.
LEMMA PerQPUIs ==
    ASSUME NEW m \in Modules, NEW x, ExecutionSet(m, x)
    PROVE  PerQPU(x) \in Nat /\ Cardinality(x.info.uniformsUsed) \in Nat /\ ExplicitUniformCount(x.info) \in Nat
<1>1. Cardinality(x.info.uniformsUsed) \in Nat
  BY UniformsDoFit
<1>2. x.info \in KernelHeaders /\ Len(x.info.parameters) \in Nat
  BY ParametersAre DEF ExecutionSet
<1>3. PICK count : Counts(count, x.info) /\ ExplicitUniformCount(x.info) = count[Len(x.info.parameters)]
  BY <1>2, CountIs
<1>4. ExplicitUniformCount(x.info) \in Nat
  BY <1>2, <1>3 DEF Counts
<1> QED  BY <1>1, <1>4 DEF PerQPU

\* The buffer executeKernel fills has its parts where they are expected.
LEMMA LayoutLaidOut ==
    ASSUME NEW m \in Modules, NEW x, ExecutionSet(m, x), NEW V0, NEW L, UniformsFit(x, V0, L)
    PROVE  \E start \in Nat : \E block : IsWords(V0, block) /\ LaidOut(m, x, Layout(m, x), start, block, L)
<1>1. PICK data, stack, code : data = Halves(DataSegment(Headers(m))) /\ stack = StackOf(m) /\ code = InstructionsOf(m, x)
  OBVIOUS
<1>2. PICK start \in Nat : /\ start = Len(data) + Len(stack)
                           /\ start = 2 * Len(DataSegment(Headers(m))) + NumQPUs * m.stackWords * 2
  BY <1>1, DataAndStack
<1>3. PICK l \in Nat : l = x.info.length /\ Len(code) = 2 * l
  BY <1>1, InstructionsAre
<1>4. PICK n \in Nat : n = x.numQPUs
  BY KernelArgumentsAssumption DEF ExecutionSet
<1>5. PICK uniforms0 \in Nat : uniforms0 = start + 2 * l
  BY <1>3
<1>6. L \in Nat /\ n * L \in Nat
  BY DEF UniformsFit
<1>7. PICK block : block = Uniforms(x, uniforms0).words
  OBVIOUS
<1>8. IsWords(V0, block) /\ QPUsHave(block, x, uniforms0, n, L)
  BY <1>4, <1>7, UniformsAre DEF IsWords
<1>9. Len(block) = n * L
  BY <1>8 DEF QPUsHave
<1>10. PICK uniforms1 \in Nat : uniforms1 = uniforms0 + n * L
  BY <1>6
<1>11. PICK messages0 \in Nat : messages0 = uniforms1 + n * L
  BY <1>6
<1>12. PICK first, second : first = LaunchMessages(x, uniforms0, start) /\ second = LaunchMessages(x, uniforms1, start)
  OBVIOUS
<1>13. MessagesAre(first, x, n, uniforms0, start) /\ MessagesAre(second, x, n, uniforms1, start)
  BY <1>4, <1>12, PerQPUIs, LaunchMessagesAre
<1>14. Len(first) = 2 * n /\ Len(second) = 2 * n /\ IsWords(AddressWords, first) /\ IsWords(AddressWords, second)
  BY <1>13 DEF MessagesAre, IsWords
<1>15. PICK words : words = data \o stack \o code \o block \o block \o first \o second
  OBVIOUS
<1>16. Layout(m, x).words = words /\ Layout(m, x).messages = <<messages0, messages0 + 2 * n>>
  <2>1. PICK u : u = Uniforms(x, start + Len(code))
    OBVIOUS
  <2>2. start + Len(code) = uniforms0 /\ u.words = block
    BY <1>3, <1>5, <1>7, <2>1
  <2>3. uniforms0 + Len(block) = uniforms1 /\ uniforms1 + Len(block) = messages0
    BY <1>9, <1>10, <1>11
  <2>4. PICK d : d = [execution |-> x, size |-> (RawSize(m, x) \div PAGE_ALIGNMENT + 1) * PAGE_ALIGNMENT,
         words |-> words,
         uniformPointers |-> <<u.pointers, [q \in 1..x.numQPUs |-> u.pointers[q] + Len(block)]>>,
         messages |-> <<messages0, messages0 + Len(first)>>]
    OBVIOUS
  <2>5. Layout(m, x) = d
    <3>1. Uniforms(x, uniforms0) = u
      BY <2>1, <2>2
    <3> QED  BY <1>1, <1>2, <1>12, <1>15, <2>2, <2>3, <2>4, <3>1, Zenon DEF Layout
  <2>6. d.words = words /\ d.messages = <<messages0, messages0 + Len(first)>>
    BY <2>4
  <2> QED  BY <1>14, <2>5, <2>6
<1>17. PICK V : /\ IsWords(V, data) /\ IsWords(V, stack) /\ IsWords(V, code) /\ IsWords(V, block)
                /\ IsWords(V, first) /\ IsWords(V, second)
  <2>1. PICK V1 : IsWords(V1, data)
    BY <1>1, DataAndStack
  <2>2. PICK V2 : IsWords(V2, stack)
    BY <1>1, DataAndStack
  <2>3. PICK V3 : IsWords(V3, code)
    BY <1>1, InstructionsAre
  <2>4. PICK V : V = V0 \cup V1 \cup V2 \cup V3 \cup AddressWords
    OBVIOUS
  <2>5. \A S, w : S \subseteq V /\ IsWords(S, w) => IsWords(V, w)
    BY WiderSeq DEF IsWords
  <2>6. V0 \subseteq V /\ V1 \subseteq V /\ V2 \subseteq V /\ V3 \subseteq V /\ AddressWords \subseteq V
    BY <2>4
  <2> QED  BY <1>8, <1>14, <2>1, <2>2, <2>3, <2>5, <2>6
<1>18. LET from == Len(data) + Len(stack)
           u0 == from + Len(code)
           u1 == u0 + Len(block)
           m0 == u1 + Len(block)
       IN
       /\ Len(words) = m0 + Len(first) + Len(second)
       /\ Holds(words, from, code) /\ Holds(words, u0, block) /\ Holds(words, u1, block)
       /\ Holds(words, m0, first) /\ Holds(words, m0 + Len(first), second)
  <2>1. Parts(words, data, stack, code, block, first, second)
    BY <1>15 DEF Parts
  <2>2. IsWords(V, data)
    BY <1>17
  <2>3. IsWords(V, stack)
    BY <1>17
  <2>4. IsWords(V, code)
    BY <1>17
  <2>5. IsWords(V, block)
    BY <1>17
  <2>6. IsWords(V, first)
    BY <1>17
  <2>7. IsWords(V, second)
    BY <1>17
  <2>8. PartsFound(words, data, stack, code, block, first, second)
    BY <2>1, <2>2, <2>3, <2>4, <2>5, <2>6, <2>7, SevenParts
  <2> QED  BY <2>8 DEF PartsFound
<1>19. start + Len(code) = uniforms0 /\ uniforms0 + Len(block) = uniforms1 /\ uniforms1 + Len(block) = messages0
  BY <1>3, <1>5, <1>9, <1>10, <1>11
<1>20. /\ Len(words) = messages0 + 2 * n + 2 * n
       /\ Holds(words, start, code) /\ Holds(words, uniforms0, block) /\ Holds(words, uniforms1, block)
       /\ Holds(words, messages0, first) /\ Holds(words, messages0 + 2 * n, second)
  BY <1>2, <1>14, <1>18, <1>19
<1>21. LaidOut(m, x, Layout(m, x), start, block, L)
  <2>1. PICK d : d = Layout(m, x)
    OBVIOUS
  <2>2. d.words = words /\ d.messages = <<messages0, messages0 + 2 * n>>
    BY <1>16, <2>1
  <2>3. LaidOut(m, x, d, start, block, L)
    BY <1>1, <1>2, <1>3, <1>4, <1>5, <1>8, <1>10, <1>11, <1>13, <1>20, <2>2 DEF LaidOut
  <2> QED  BY <2>1, <2>3
<1> QED  BY <1>8, <1>21

---------------------------------------------------------------------------------
(* What executeKernel writes fits *)

\* The header an execution has is the one of the kernel the application compiled.
LEMMA OfTheOriginal ==
    ASSUME module \in Modules, NEW x, ExecutionSet(module, x), NEW c, c = Original(x.info.name)
    PROVE  /\ c.parameters = x.info.parameters /\ c.uniformsUsed = x.info.uniformsUsed
           /\ c.length = x.info.length
           /\ InstructionsOf(module, x) = Halves(Instructions(c))
           /\ LongScalars(c) <=> LongScalarIn(x)
<1>1. PICK info : info = x.info /\ Header(module, info)
  BY DEF ExecutionSet
<1>2. PICK n \in 1..Len(module.kernels) : \E offset :
          /\ Original(info.name) = module.kernels[n]
          /\ info = Headers(module).kernels[n]
          /\ info = Packed(module.kernels[n], offset)
  BY <1>1, OriginalIs
<1>3. c = module.kernels[n]
  BY <1>1, <1>2
<1>4. c.parameters = info.parameters /\ c.uniformsUsed = info.uniformsUsed /\ c.length = info.length
  BY <1>2, <1>3 DEF Packed
<1>5. SubSeq(Compiled(module), info.offset + 1, info.offset + info.length) = Instructions(c)
  BY <1>2, <1>3, CodeIsThere
<1>6. InstructionsOf(module, x) = Halves(Instructions(c))
  BY <1>1, <1>5 DEF InstructionsOf
<1>7. LongScalars(c) <=> LongScalarIn(x)
  BY <1>1, <1>4 DEF LongScalars, LongScalarIn, LongScalar
<1> QED  BY <1>1, <1>4, <1>6, <1>7

\* A size rounded up to the alignment is no smaller.
LEMMA RoundedUp ==
    ASSUME NEW n \in Nat, NEW p \in Nat \ {0}
    PROVE  n <= (n \div p + 1) * p
<1>1. PICK d \in Nat, r \in 0..(p - 1) : d = n \div p /\ r = n % p /\ n = p * d + r
  BY Divided
<1>2. (d + 1) * p = p * d + p
  OBVIOUS
<1>3. p * d \in Nat
  OBVIOUS
<1>4. n <= (d + 1) * p
  BY <1>1, <1>2, <1>3
<1> QED  BY <1>1, <1>4

\* Multiplication keeps the order.
LEMMA FewerTimes ==
    ASSUME NEW n \in Nat, NEW a \in Nat, NEW b \in Nat, a <= b
    PROVE  n * a \in Nat /\ n * b \in Nat /\ n * a <= n * b
<1>1. PICK d \in Nat : b = a + d
  <2>1. b - a \in Nat /\ b = a + (b - a)
    OBVIOUS
  <2> QED  BY <2>1
<1>2. n * b = n * a + n * d /\ n * a \in Nat /\ n * d \in Nat /\ n * b \in Nat
  BY <1>1
<1> QED  BY <1>2

\* The sizes: data, stack, code, UNIFORMs and messages.
LEMMA SizesFit ==
    ASSUME NEW data \in Nat, NEW stack \in Nat, NEW code \in Nat, NEW n \in Nat, NEW all \in Nat, n <= all,
           NEW a \in Nat, NEW b \in Nat, a <= b
    PROVE  4 * (2 * data + stack * 2 + 2 * code + a + a + 2 * n + 2 * n)
               <= 8 * code + 8 * b + 8 * data + stack * 8 + 16 * all
OBVIOUS

\* What is written fits into the size that get_size computes.
LEMMA LayoutFits ==
    ASSUME NEW m \in Modules, NEW x, ExecutionSet(m, x), ~LongScalarIn(x),
           Cardinality(x.info.uniformsUsed) <= MAX_HIDDEN_PARAMETERS
    PROVE  4 * Len(Layout(m, x).words) <= Layout(m, x).size
<1>1. PICK V, L : UniformsFit(x, V, L)
  BY UniformsDoFit
<1>2. PICK start \in Nat : \E block : LaidOut(m, x, Layout(m, x), start, block, L)
  BY <1>1, LayoutLaidOut
<1>3. PICK n \in Nat, all \in Nat : n = x.numQPUs /\ all = NumQPUs /\ n <= all
  BY KernelArgumentsAssumption DEF ExecutionSet
<1>4. PICK u \in Nat, e \in Nat : u = Cardinality(x.info.uniformsUsed) /\ e = ExplicitUniformCount(x.info)
  BY PerQPUIs
<1>5. L = u + e /\ u <= 14 /\ L \in Nat
  BY <1>1, <1>4 DEF UniformsFit, MAX_HIDDEN_PARAMETERS
<1>6. PICK a \in Nat, b \in Nat : a = n * L /\ b = n * (14 + e) /\ a <= b
  <2>1. L <= 14 + e /\ 14 + e \in Nat
    BY <1>5
  <2> QED  BY <1>5, <2>1, FewerTimes
<1>7. PICK stack \in Nat, data \in Nat : stack = NumQPUs * m.stackWords /\ data = Len(DataSegment(Headers(m)))
  <2>1. m.stackWords \in Nat /\ Len(DataSegment(Headers(m))) \in Nat
    BY DataAndStack
  <2>2. NumQPUs \in Nat
    BY KernelArgumentsAssumption
  <2> QED  BY <2>1, <2>2
<1>8. PICK code \in Nat : code = x.info.length
  BY InstructionsAre
<1>9. PICK len : len = Len(Layout(m, x).words)
  OBVIOUS
<1>10. len = 2 * data + stack * 2 + 2 * code + a + a + 2 * n + 2 * n
  BY <1>2, <1>3, <1>6, <1>7, <1>8, <1>9 DEF LaidOut
<1>11. PICK raw : raw = RawSize(m, x)
  OBVIOUS
<1>12. raw = 8 * code + 8 * b + 8 * data + stack * 8 + 16 * all
  <2>1. raw = 8 * code + 2 * 4 * n * (14 + e) + 8 * data + stack * 8 + 2 * 2 * 4 * all
    BY <1>3, <1>4, <1>7, <1>8, <1>11 DEF RawSize, MAX_HIDDEN_PARAMETERS
  <2>2. 2 * 4 * n * (14 + e) = 8 * b /\ 2 * 2 * 4 * all = 16 * all
    BY <1>6
  <2> QED  BY <2>1, <2>2
<1>13. raw \in Nat /\ 4 * len <= raw
  BY <1>3, <1>6, <1>10, <1>12, SizesFit
<1>14. PICK p \in Nat \ {0} : p = PAGE_ALIGNMENT
  BY KernelArgumentsAssumption
<1>15. Layout(m, x).size = (raw \div p + 1) * p
  BY <1>11, <1>14, Zenon DEF Layout
<1>16. raw <= (raw \div p + 1) * p
  BY <1>13, RoundedUp
<1>17. PICK size : size = (raw \div p + 1) * p /\ size \in Int
  BY <1>13, Divided
<1>18. len \in Int
  BY <1>10
<1>19. 4 * len <= size
  BY <1>13, <1>16, <1>17, <1>18
<1> QED  BY <1>9, <1>15, <1>17, <1>19

\* The size of the buffer, from the invariant.
LEMMA BufferHoldsFromInv ==
    ArgumentsInv => BufferHolds
<1> SUFFICES ASSUME ArgumentsInv, device # NULL
             PROVE  LET x == device.execution IN
                    (/\ Cardinality(x.info.uniformsUsed) <= MAX_HIDDEN_PARAMETERS
                     /\ ~LongScalars(Original(x.info.name)))
                        => 4 * Len(device.words) <= device.size
  BY DEF BufferHolds
<1>1. PICK x : x = device.execution
  OBVIOUS
<1>2. module \in Modules /\ ExecutionSet(module, x) /\ device = Layout(module, x)
  BY <1>1 DEF ArgumentsInv, ProgramRead, ExecutionsSet
<1>3. SUFFICES ASSUME Cardinality(x.info.uniformsUsed) <= MAX_HIDDEN_PARAMETERS,
                      ~LongScalars(Original(x.info.name))
               PROVE  4 * Len(device.words) <= device.size
  BY <1>1
<1>4. ~LongScalarIn(x)
  BY <1>2, <1>3, OfTheOriginal
<1>5. PICK m, d : m = module /\ d = Layout(m, x)
  OBVIOUS
<1>6. 4 * Len(d.words) <= d.size
  BY <1>2, <1>3, <1>4, <1>5, LayoutFits
<1> QED  BY <1>2, <1>5, <1>6

\* What executeKernel writes fits into the buffer it allocated with get_size
\* (executor.cpp:42-54, 269-271), whatever the kernel, its arguments and its work-groups,
\* unless it has more hidden parameters than there is room for or 64-bit scalars.
THEOREM WritesFitTheBuffer ==
    Spec => []BufferHolds
BY ArgumentsInvariant, BufferHoldsFromInv, PTL

---------------------------------------------------------------------------------
(* What the QPUs find *)

LEMMA WordsHeld ==
    ASSUME Len(device.words) \in Nat, NEW at \in Nat, NEW W, NEW seg \in Seq(W),
           Holds(device.words, at, seg), NEW n, n = Len(seg)
    PROVE  WordsAt(at, n) = seg
<1>1. PICK l \in Nat : l = Len(seg)
  OBVIOUS
<1>2. PICK words, all : words = device.words /\ all = Len(device.words) /\ all \in Nat
  OBVIOUS
<1>3. at + l <= all /\ \A j \in 1..l : words[at + j] = seg[j]
  BY <1>1, <1>2 DEF Holds
<1>4. WordsAt(at, n) = [i \in 1..l |-> IF at + i <= all THEN words[at + i] ELSE [info |-> "beyond"]]
  BY <1>1, <1>2 DEF WordsAt
<1>5. ASSUME NEW i \in 1..l
      PROVE  (IF at + i <= all THEN words[at + i] ELSE [info |-> "beyond"]) = seg[i]
  <2>1. at + i <= all
    BY <1>2, <1>3
  <2> QED  BY <1>3, <2>1
<1>6. WordsAt(at, n) = [i \in 1..l |-> seg[i]]
  BY <1>4, <1>5
<1>7. seg = [i \in 1..l |-> seg[i]]
  BY <1>1
<1> QED  BY <1>6, <1>7

\* What the messages of a block say.
MessagesSay(n, messages, per, uniforms, code) ==
    /\ messages \in Nat /\ messages + 2 * n <= Len(device.words)
    /\ \A q \in 1..n : /\ device.words[messages + (2 * (q - 1) + 1)] = Address(uniforms + (q - 1) * per)
                       /\ device.words[messages + (2 * (q - 1) + 2)] = Address(code)

\* Messages in the buffer say what they were written as.
LEMMA MessagesHeld ==
    ASSUME NEW x, NEW n \in Nat, NEW at \in Nat, NEW messages, NEW uniforms, NEW code,
           MessagesAre(messages, x, n, uniforms, code), Holds(device.words, at, messages)
    PROVE  MessagesSay(n, at, PerQPU(x), uniforms, code)
<1>1. Len(messages) = 2 * n
  BY DEF MessagesAre
<1>2. \A q \in 1..n : 2 * (q - 1) + 1 \in 1..(2 * n) /\ 2 * (q - 1) + 2 \in 1..(2 * n)
  OBVIOUS
<1>3. at + 2 * n <= Len(device.words) /\ \A j \in 1..(2 * n) : device.words[at + j] = messages[j]
  BY <1>1 DEF Holds
<1>4. ASSUME NEW q \in 1..n
      PROVE  /\ device.words[at + (2 * (q - 1) + 1)] = Address(uniforms + (q - 1) * PerQPU(x))
             /\ device.words[at + (2 * (q - 1) + 2)] = Address(code)
  <2>1. PICK i, j : i = 2 * (q - 1) + 1 /\ j = 2 * (q - 1) + 2 /\ i \in 1..(2 * n) /\ j \in 1..(2 * n)
    BY <1>2
  <2>2. device.words[at + i] = messages[i] /\ device.words[at + j] = messages[j]
    BY <1>3, <2>1
  <2>3. messages[i] = Address(uniforms + (q - 1) * PerQPU(x)) /\ messages[j] = Address(code)
    BY <2>1 DEF MessagesAre
  <2> QED  BY <2>1, <2>2, <2>3
<1> QED  BY <1>3, <1>4 DEF MessagesSay

PointedTo(block, q, per, uniforms, code) ==
    UniformsOf(block, q) = uniforms + (q - 1) * per /\ CodeOf(block, q) = code

\* What a QPU reads of its message.
LEMMA MessageIsRead ==
    ASSUME Len(device.words) \in Nat, NEW n \in Nat, NEW block, NEW at, device.messages[block] = at,
           NEW per, NEW uniforms, NEW code,
           MessagesSay(n, at, per, uniforms, code), NEW q \in 1..n
    PROVE  PointedTo(block, q, per, uniforms, code)
<1>1. PICK i \in Nat : i = MessageOf(block, q) /\ i = at + 2 * (q - 1) /\ i + 2 <= Len(device.words)
  BY DEF MessagesSay, MessageOf
<1>2. i + 1 = at + (2 * (q - 1) + 1) /\ i + 1 + 1 = at + (2 * (q - 1) + 2)
  BY <1>1 DEF MessagesSay
<1>3. /\ i + 1 <= Len(device.words) /\ i + 1 + 1 <= Len(device.words)
      /\ device.words[i + 1] = Address(uniforms + (q - 1) * per)
      /\ device.words[i + 1 + 1] = Address(code)
  BY <1>1, <1>2 DEF MessagesSay
<1>4. \A k : k + 1 <= Len(device.words) => WordsAt(k, 1)[1] = device.words[k + 1]
  BY DEF WordsAt
<1>5. WordsAt(i, 1)[1] = Address(uniforms + (q - 1) * per) /\ WordsAt(i + 1, 1)[1] = Address(code)
  BY <1>3, <1>4
<1>6. \A a : Address(a).address = a
  BY DEF Address
<1>7. UniformsOf(block, q) = WordsAt(i, 1)[1].address /\ CodeOf(block, q) = WordsAt(i + 1, 1)[1].address
  BY <1>1 DEF UniformsOf, CodeOf
<1> QED  BY <1>5, <1>6, <1>7 DEF PointedTo

\* The block of UNIFORMs starts, for each QPU, with what FindsArguments asks for.
LEMMA FrontIsHeld ==
    ASSUME Len(device.words) \in Nat, NEW V, NEW L, NEW x, x.numQPUs \in Nat, UniformsFit(x, V, L),
           NEW uniforms \in Nat, NEW base \in Nat, NEW block, IsWords(V, block),
           QPUsHave(block, x, base, x.numQPUs, L), Holds(device.words, uniforms, block),
           NEW q \in 1..x.numQPUs
    PROVE  /\ uniforms + (q - 1) * L \in Nat /\ IsWords(V, FrontWords(x, q))
           /\ Holds(device.words, uniforms + (q - 1) * L, FrontWords(x, q))
<1>1. q \in Nat \ {0} /\ q \in Nat /\ L \in Nat
  BY DEF UniformsFit
<1>2. PICK at \in Nat : at = (q - 1) * L
  BY <1>1, Times
<1>3. PICK all : all = QPUUniforms(x, q, base + at)
  OBVIOUS
<1>4. Holds(block, at, all)
  BY <1>2, <1>3 DEF QPUsHave
<1>5. PICK front, loop : front = FrontWords(x, q) /\ loop = loop_work_groups(x.info, base + at)
  OBVIOUS
<1>6. IsWords(V, front) /\ IsWords(V, loop) /\ all = front \o loop /\ IsWords(V, all)
  <2>1. base + at \in Nat
    OBVIOUS
  <2>2. QPUUniformsFit(x, q, base + at, V, L)
    BY <1>1, <2>1 DEF UniformsFit
  <2> QED  BY <1>3, <1>5, <2>2 DEF QPUUniformsFit, IsWords
<1>7. Holds(all, 0, front)
  <2>1. Extends(V, front, loop, all)
    BY <1>6, NextPart DEF Follows
  <2>2. Holds(front, 0, front)
    BY <1>6, HoldsItself DEF IsWords
  <2> QED  BY <1>6, <2>1, <2>2 DEF Extends
<1>8. Holds(device.words, uniforms + at, all)
  <2>1. PICK b \in Seq(V) : b = block
    BY DEF IsWords
  <2>2. PICK a \in Seq(V) : a = all
    BY <1>6 DEF IsWords
  <2>3. PICK d : d = device.words /\ Len(d) \in Nat
    OBVIOUS
  <2>4. Holds(d, uniforms, b) /\ Holds(b, at, a)
    BY <1>4, <2>1, <2>2, <2>3
  <2>5. Holds(d, uniforms + at, a)
    BY <2>3, <2>4, HeldFrom
  <2> QED  BY <2>2, <2>3, <2>5
<1>9. Holds(device.words, uniforms + at, front)
  <2>1. PICK a \in Seq(V) : a = all
    BY <1>6 DEF IsWords
  <2>2. PICK f \in Seq(V) : f = front
    BY <1>6 DEF IsWords
  <2>3. PICK from \in Nat, zero \in Nat : from = uniforms + at /\ zero = 0
    OBVIOUS
  <2>5. Holds(device.words, from, a) /\ Holds(a, zero, f)
    BY <1>7, <1>8, <2>1, <2>2, <2>3
  <2>6. Holds(device.words, from + zero, f)
    BY <2>5, HeldFrom
  <2> QED  BY <2>2, <2>3, <2>6
<1> QED  BY <1>2, <1>5, <1>6, <1>9

\* A QPU that starts at its UNIFORMs finds its arguments.
LEMMA FindsFront ==
    ASSUME module \in Modules, NEW x, ExecutionSet(module, x), Len(device.words) \in Nat,
           NEW q \in Nat, NEW at \in Nat, NEW V, IsWords(V, FrontWords(x, q)), Holds(device.words, at, FrontWords(x, q))
    PROVE  FindsArguments(x, q, at)
<1>1. PICK c : c = Original(x.info.name)
  OBVIOUS
<1>2. c.parameters = x.info.parameters /\ c.uniformsUsed = x.info.uniformsUsed
  BY <1>1, OfTheOriginal
<1>3. set_work_item_info(c, q) = set_work_item_info(x.info, q)
  <2>1. Used(WorkItemInfo, c) = Used(WorkItemInfo, x.info)
    BY <1>2 DEF Used
  <2> QED  BY <2>1 DEF set_work_item_info
<1>4. x.info.uniformsUsed \subseteq UniformNames /\ DOMAIN x.info.parameters = 1..Len(x.info.parameters)
  BY ParametersAre DEF ExecutionSet, KernelHeaders
<1>5. PICK before, words : before = set_work_item_info(x.info, q) /\ words = AllArguments(x)
  OBVIOUS
<1>6. FlattenSeq([i \in 1..Len(c.parameters) |-> Wanted(c.parameters[i], i, x.asked[i])]) = words
  <2>1. PICK l : l = Len(c.parameters)
    OBVIOUS
  <2>2. ASSUME NEW i \in 1..l
        PROVE  Wanted(c.parameters[i], i, x.asked[i]) = ArgumentWords(x, i)
    <3>1. i \in DOMAIN x.info.parameters
      BY <1>2, <1>4, <2>1
    <3>2. ArgumentArrived(x, i)
      BY <3>1, ArgumentArrives
    <3> QED  BY <1>2, <3>2 DEF ArgumentArrived
  <2>3. [i \in 1..l |-> Wanted(c.parameters[i], i, x.asked[i])] = [i \in 1..l |-> ArgumentWords(x, i)]
    BY <2>2
  <2>4. words = FlattenSeq([i \in 1..l |-> ArgumentWords(x, i)])
    BY <1>2, <1>5, <2>1 DEF AllArguments
  <2> QED  BY <2>1, <2>3, <2>4
<1>7. PICK S, T : before \in Seq(S) /\ words \in Seq(T)
  <2>1. 0 \in Nat
    OBVIOUS
  <2>2. before \in Seq(HiddenWords)
    BY <1>4, <1>5, <2>1, HiddenWordsAre
  <2>3. PICK T : words \in Seq(T)
    BY <1>5, AllArgumentsAre
  <2> QED  BY <2>2, <2>3
<1>8. before \o words = FrontWords(x, q)
  BY <1>5 DEF FrontWords
<1>9. Len(before) + Len(words) = Len(FrontWords(x, q))
  <2>0. PICK U : U = S \cup T
    OBVIOUS
  <2>1. S \subseteq U /\ T \subseteq U
    BY <2>0
  <2>2. IsWords(U, before)
    BY <1>7, <2>1, WiderSeq DEF IsWords
  <2>3. IsWords(U, words)
    BY <1>7, <2>1, WiderSeq DEF IsWords
  <2>4. Follows(before, words, FrontWords(x, q))
    BY <1>8 DEF Follows
  <2>5. Extends(U, before, words, FrontWords(x, q))
    BY <2>2, <2>3, <2>4, NextPart
  <2> QED  BY <2>5 DEF Extends
<1>10. WordsAt(at, Len(before) + Len(words)) = FrontWords(x, q)
  <2>1. PICK seg \in Seq(V) : seg = FrontWords(x, q)
    BY DEF IsWords
  <2>2. Holds(device.words, at, seg)
    BY <2>1
  <2>3. PICK n : n = Len(before) + Len(words) /\ n = Len(seg)
    BY <1>9, <2>1
  <2>4. WordsAt(at, n) = seg
    BY <2>2, <2>3, WordsHeld
  <2> QED  BY <2>1, <2>3, <2>4
<1> QED  BY <1>1, <1>3, <1>5, <1>6, <1>8, <1>10 DEF FindsArguments

\* What the messages of both blocks point to.
LEMMA BlockArrives ==
    ASSUME module \in Modules, NEW x, ExecutionSet(module, x), device = Layout(module, x),
           NEW block \in 1..2, NEW qpu \in 1..x.numQPUs, NEW c, c = Original(x.info.name)
    PROVE  /\ WordsAt(CodeOf(block, qpu), 2 * c.length) = Halves(Instructions(c))
           /\ (qpu = 1 \/ ~LongScalars(c)) => FindsArguments(x, qpu, UniformsOf(block, qpu))
<1>1. PICK V, L : UniformsFit(x, V, L)
  BY UniformsDoFit
<1>2. PICK d : d = device /\ d = Layout(module, x)
  OBVIOUS
<1>3. PICK start \in Nat : \E words : IsWords(V, words) /\ LaidOut(module, x, d, start, words, L)
  BY <1>1, <1>2, LayoutLaidOut
<1>4. PICK words : IsWords(V, words) /\ LaidOut(module, x, d, start, words, L)
  BY <1>3
<1>5. PICK n \in Nat : n = x.numQPUs
  BY KernelArgumentsAssumption DEF ExecutionSet
<1>6. L \in Nat /\ n * L \in Nat
  BY <1>1 DEF UniformsFit
<1>7. PICK length \in Nat : length = x.info.length
  BY InstructionsAre
<1>8. PICK uniforms0 \in Nat, uniforms1 \in Nat, messages0 \in Nat, messages1 \in Nat :
          /\ uniforms0 = start + 2 * length /\ uniforms1 = uniforms0 + n * L
          /\ messages0 = uniforms1 + n * L /\ messages1 = messages0 + 2 * n
  <2>1. PICK nL \in Nat : nL = n * L
    BY <1>6
  <2>2. /\ start + 2 * length \in Nat /\ start + 2 * length + nL \in Nat
        /\ start + 2 * length + nL + nL \in Nat /\ start + 2 * length + nL + nL + 2 * n \in Nat
    OBVIOUS
  <2> QED  BY <2>1, <2>2
<1>9. /\ Len(d.words) = messages1 + 2 * n
      /\ d.messages = <<messages0, messages1>>
      /\ Holds(d.words, start, InstructionsOf(module, x))
      /\ QPUsHave(words, x, uniforms0, n, L)
      /\ Holds(d.words, uniforms0, words) /\ Holds(d.words, uniforms1, words)
      /\ \E first : Holds(d.words, messages0, first) /\ MessagesAre(first, x, n, uniforms0, start)
      /\ \E second : Holds(d.words, messages1, second) /\ MessagesAre(second, x, n, uniforms1, start)
  BY <1>4, <1>5, <1>7, <1>8 DEF LaidOut
<1>10. Len(device.words) \in Nat
  <2>1. Len(d.words) = messages1 + 2 * n
    BY <1>9
  <2> QED  BY <1>2, <2>1
<1>11. PICK at \in Nat, uniforms \in Nat :
          /\ device.messages[block] = at
          /\ MessagesSay(n, at, PerQPU(x), uniforms, start)
          /\ Holds(device.words, uniforms, words)
  <2>1. CASE block = 1
    <3>1. PICK first : Holds(device.words, messages0, first) /\ MessagesAre(first, x, n, uniforms0, start)
      BY <1>2, <1>9
    <3>2. MessagesSay(n, messages0, PerQPU(x), uniforms0, start)
      BY <3>1, MessagesHeld
    <3>3. device.messages[block] = messages0 /\ Holds(device.words, uniforms0, words)
      BY <1>2, <1>9, <2>1
    <3> QED  BY <3>2, <3>3
  <2>2. CASE block = 2
    <3>1. PICK second : Holds(device.words, messages1, second) /\ MessagesAre(second, x, n, uniforms1, start)
      BY <1>2, <1>9
    <3>2. MessagesSay(n, messages1, PerQPU(x), uniforms1, start)
      BY <3>1, MessagesHeld
    <3>3. device.messages[block] = messages1 /\ Holds(device.words, uniforms1, words)
      BY <1>2, <1>9, <2>2
    <3> QED  BY <3>2, <3>3
  <2> QED  BY <2>1, <2>2
<1>12. UniformsOf(block, qpu) = uniforms + (qpu - 1) * PerQPU(x) /\ CodeOf(block, qpu) = start
  <2>1. PICK q \in 1..n : q = qpu
    BY <1>5
  <2>2. UniformsOf(block, q) = uniforms + (q - 1) * PerQPU(x) /\ CodeOf(block, q) = start
    <3>1. PICK per : per = PerQPU(x)
      OBVIOUS
    <3>2. device.messages[block] = at
      BY <1>11
    <3>3. MessagesSay(n, at, per, uniforms, start)
      BY <1>11, <3>1
    <3>4. PointedTo(block, q, per, uniforms, start)
      BY <1>10, <2>1, <3>2, <3>3, MessageIsRead
    <3> QED  BY <3>1, <3>4 DEF PointedTo
  <2> QED  BY <2>1, <2>2
<1>13. WordsAt(CodeOf(block, qpu), 2 * c.length) = Halves(Instructions(c))
  <2>1. c.length = length /\ InstructionsOf(module, x) = Halves(Instructions(c))
    BY <1>7, OfTheOriginal
  <2>2. PICK W, seg : seg \in Seq(W) /\ seg = InstructionsOf(module, x)
    BY InstructionsAre DEF IsWords
  <2>3. Len(seg) = 2 * length
    BY <1>7, <2>2, InstructionsAre
  <2>4. Holds(device.words, start, seg)
    BY <1>2, <1>9, <2>2
  <2>5. PICK k : k = 2 * length /\ k = Len(seg)
    BY <2>3
  <2>6. WordsAt(start, k) = seg
    BY <1>10, <2>2, <2>4, <2>5, WordsHeld
  <2> QED  BY <1>12, <2>1, <2>2, <2>5, <2>6
<1>14. ASSUME qpu = 1 \/ ~LongScalars(c)
       PROVE  FindsArguments(x, qpu, UniformsOf(block, qpu))
  <2>1. PICK q \in Nat : q = qpu /\ q \in 1..n
    BY <1>5
  <2>2. (q - 1) * PerQPU(x) = (q - 1) * L
    <3>1. CASE qpu = 1
      BY <1>6, <2>1, <3>1, PerQPUIs
    <3>2. CASE ~LongScalars(c)
      <4>1. ~LongScalarIn(x)
        BY <3>2, OfTheOriginal
      <4>2. L = PerQPU(x)
        BY <1>1, <4>1 DEF UniformsFit, PerQPU
      <4> QED  BY <4>2
    <3> QED  BY <1>14, <3>1, <3>2
  <2>3. /\ uniforms + (q - 1) * L \in Nat /\ IsWords(V, FrontWords(x, q))
        /\ Holds(device.words, uniforms + (q - 1) * L, FrontWords(x, q))
    <3>1. x.numQPUs \in Nat /\ q \in 1..x.numQPUs /\ QPUsHave(words, x, uniforms0, x.numQPUs, L)
      BY <1>5, <1>9, <2>1
    <3> QED  BY <1>1, <1>4, <1>10, <1>11, <3>1, FrontIsHeld
  <2>4. PICK from \in Nat : from = uniforms + (q - 1) * L
    BY <2>3
  <2>5. FindsArguments(x, q, from)
    BY <1>10, <2>3, <2>4, FindsFront
  <2>6. UniformsOf(block, q) = from
    BY <1>12, <2>1, <2>2, <2>4
  <2> QED  BY <2>1, <2>5, <2>6
<1> QED  BY <1>13, <1>14

\* The arguments, from the invariant.
LEMMA ArgumentsArriveFromInv ==
    ArgumentsInv => ArgumentsArrive
<1> SUFFICES ASSUME ArgumentsInv, device # NULL
             PROVE  LET x == device.execution
                        c == Original(x.info.name)
                    IN
                    /\ \A i \in DOMAIN c.parameters : TemporaryHolds(x, c.parameters[i], i, x.asked[i])
                    /\ \A block \in 1..2 : \A qpu \in 1..x.numQPUs :
                          /\ WordsAt(CodeOf(block, qpu), 2 * c.length) = Halves(Instructions(c))
                          /\ (qpu = 1 \/ ~LongScalars(c)) => FindsArguments(x, qpu, UniformsOf(block, qpu))
  BY DEF ArgumentsArrive
<1>1. PICK x, c : x = device.execution /\ c = Original(x.info.name)
  OBVIOUS
<1>2. module \in Modules /\ ExecutionSet(module, x) /\ device = Layout(module, x)
  BY <1>1 DEF ArgumentsInv, ProgramRead, ExecutionsSet
<1>3. ASSUME NEW i \in DOMAIN c.parameters
      PROVE  TemporaryHolds(x, c.parameters[i], i, x.asked[i])
  <2>1. c.parameters = x.info.parameters
    BY <1>1, <1>2, OfTheOriginal
  <2>2. (i \in DOMAIN x.tmpBuffers /\ x.tmpBuffers[i] # NULL) =>
            /\ x.tmpBuffers[i].size = x.asked[i].size
            /\ Is(x.info.parameters[i], "ByValue") => x.tmpBuffers[i].contents = x.asked[i].value
            /\ ~Is(x.info.parameters[i], "ByValue") /\ module.zeroLocal => x.tmpBuffers[i].contents = "zero"
    BY <1>2, <2>1, ArgumentArrives
  <2> QED  BY <2>1, <2>2 DEF TemporaryHolds
<1>4. ASSUME NEW block \in 1..2, NEW qpu \in 1..x.numQPUs
      PROVE  /\ WordsAt(CodeOf(block, qpu), 2 * c.length) = Halves(Instructions(c))
             /\ (qpu = 1 \/ ~LongScalars(c)) => FindsArguments(x, qpu, UniformsOf(block, qpu))
  BY <1>1, <1>2, BlockArrives
<1> QED  BY <1>1, <1>3, <1>4

\* Every QPU a launch message starts finds its kernel's code and the arguments the
\* application had set when it enqueued the kernel (Kernel.cpp:648-655, executor.cpp:278-435),
\* for every compiled program, every number of QPUs and every sequence of calls.
THEOREM ArgumentsReachTheQPUs ==
    Spec => []ArgumentsArrive
BY ArgumentsInvariant, ArgumentsArriveFromInv, PTL

================================================================================
