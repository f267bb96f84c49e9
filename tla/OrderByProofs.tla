--------------------------- MODULE OrderByProofs ---------------------------
(***************************************************************************)
(* Proofs about OrderBy, for any number of threads, any batches, any sort  *)
(* columns, any limit and offset, any factor that decides when a thread    *)
(* trims its rows, and any width of sizes and indices.                     *)
(***************************************************************************)
EXTENDS OrderBy, FiniteSetTheorems, DataFacts

\* The parameters of the operator.
OrderConstants == /\ NumThreads \in Nat
                  /\ DOMAIN SortColumns \subseteq Nat
                  /\ NoLimit \notin Nat
                  /\ SizeLimit \in Nat \ {0} /\ IndexLimit \in Nat \ {0}

\* The value of row r in the sort column i.
ColumnOf(r, i) == key[r][SortColumns[i].col]

\* What the operator is given: finitely many rows whose sort columns can be compared.
OrderInput ==
  /\ IsFiniteSet(Rows)
  /\ \A r \in Rows, i \in DOMAIN SortColumns : ColumnOf(r, i) \in Int
  /\ limit \in Nat \cup {NoLimit}
  /\ offset \in Nat

\* The rows sunk so far are those the threads hold and those they have dropped.
Accounted ==
  /\ \A t \in ThreadIds : IsFiniteSet(acc[t]) /\ IsFiniteSet(dropped[t])
  /\ UNION {batches[b] : b \in DOMAIN batches \ todo}
       = UNION {acc[t] \cup dropped[t] : t \in ThreadIds}
  /\ ~HasTotal => \A t \in ThreadIds : dropped[t] = {}

OrderInv == OrderInput /\ TypeOK /\ Accounted /\ DroppedAreCovered /\ ResultIsWindow

-----------------------------------------------------------------------------
(* The comparison is a strict weak order. *)

\* Does the sort column i put r before q?
Before(i, r, q) == IF SortColumns[i].desc THEN ColumnOf(r, i) > ColumnOf(q, i)
                                          ELSE ColumnOf(r, i) < ColumnOf(q, i)

\* The rows agree in the sort columns before i.
AgreeBefore(i, r, q) == \A j \in DOMAIN SortColumns : j < i => ColumnOf(r, j) = ColumnOf(q, j)

\* r is before q if it is in the first column in which they differ.
LEMMA LessAt ==
  ASSUME OrderConstants, NEW r, NEW q, NEW i \in DOMAIN SortColumns,
         AgreeBefore(i, r, q), ColumnOf(r, i) # ColumnOf(q, i)
  PROVE  Less(r, q) <=> Before(i, r, q)
<1> DEFINE differ == {j \in DOMAIN SortColumns :
                        key[r][SortColumns[j].col] # key[q][SortColumns[j].col]}
<1>1. i \in differ /\ differ \subseteq Nat
  BY DEF OrderConstants, ColumnOf
<1>2. \A j \in differ : i <= j
  <2> SUFFICES ASSUME NEW j \in differ, ~(i <= j)
               PROVE  FALSE
    OBVIOUS
  <2>1. j < i
    BY <1>1
  <2> QED
    BY <2>1 DEF AgreeBefore, ColumnOf
<1>3. Min(differ) = i
  <2> HIDE DEF differ
  <2>1. \A x \in differ : (\A y \in differ : x =< y) => x = i
    BY <1>1, <1>2
  <2> QED
    BY <1>1, <1>2, <2>1, Zenon DEF Min
<1>4. differ # {}
  BY <1>1
<1>5. Less(r, q) <=> /\ differ # {}
                     /\ IF SortColumns[Min(differ)].desc
                          THEN key[r][SortColumns[Min(differ)].col]
                                 > key[q][SortColumns[Min(differ)].col]
                          ELSE key[r][SortColumns[Min(differ)].col]
                                 < key[q][SortColumns[Min(differ)].col]
  BY DEF Less
<1> HIDE DEF differ
<1> QED
  BY ONLY <1>3, <1>4, <1>5 DEF Before, ColumnOf

\* Rows that differ in a sort column differ in a first one.
LEMMA FirstDifference ==
  ASSUME OrderConstants, NEW D \in SUBSET DOMAIN SortColumns, D # {}
  PROVE  \E i \in D : \A j \in DOMAIN SortColumns : j < i => j \notin D
<1>1. D \in SUBSET Nat
  BY DEF OrderConstants
<1>2. PICK i \in D : \A j \in D : i <= j
  BY <1>1, LeastNumber, Zenon
<1> QED
  BY <1>1, <1>2

\* Rows that agree in all sort columns are not before each other.
LEMMA LessDiffers ==
  ASSUME NEW r, NEW q, Less(r, q)
  PROVE  \E i \in DOMAIN SortColumns : ColumnOf(r, i) # ColumnOf(q, i)
BY Zenon DEF Less, ColumnOf

\* No row is before itself.
LEMMA LessIrreflexive ==
  ASSUME NEW r
  PROVE  ~Less(r, r)
BY LessDiffers

\* Of two rows that are out of order, a third one is out of order with one.
LEMMA LessWeak ==
  ASSUME OrderConstants, OrderInput, NEW x \in Rows, NEW y \in Rows, NEW z \in Rows,
         Less(x, z)
  PROVE  Less(x, y) \/ Less(y, z)
<1> DEFINE D == {i \in DOMAIN SortColumns :
                   ColumnOf(x, i) # ColumnOf(y, i) \/ ColumnOf(y, i) # ColumnOf(z, i)}
<1>1. D # {}
  BY LessDiffers
<1>2. PICK i \in D : \A j \in DOMAIN SortColumns : j < i => j \notin D
  BY <1>1, FirstDifference
<1>3. /\ AgreeBefore(i, x, y) /\ AgreeBefore(i, y, z) /\ AgreeBefore(i, x, z)
      /\ i \in DOMAIN SortColumns
      /\ ColumnOf(x, i) # ColumnOf(y, i) \/ ColumnOf(y, i) # ColumnOf(z, i)
  BY <1>2 DEF AgreeBefore
<1>4. ColumnOf(x, i) \in Int /\ ColumnOf(y, i) \in Int /\ ColumnOf(z, i) \in Int
  BY <1>3 DEF OrderInput
<1>5. ColumnOf(x, i) # ColumnOf(y, i) => (Less(x, y) <=> Before(i, x, y))
  BY <1>3, LessAt
<1>6. ColumnOf(y, i) # ColumnOf(z, i) => (Less(y, z) <=> Before(i, y, z))
  BY <1>3, LessAt
<1>7. ColumnOf(x, i) # ColumnOf(z, i) => Before(i, x, z)
  BY <1>3, LessAt
<1> QED
  BY ONLY <1>3, <1>4, <1>5, <1>6, <1>7 DEF Before

-----------------------------------------------------------------------------
(* Counting. *)

\* A larger finite set has at least as many elements.
LEMMA AtLeast ==
  ASSUME NEW S, NEW T, IsFiniteSet(T), S \subseteq T, NEW n \in Nat, Cardinality(S) >= n
  PROVE  Cardinality(T) >= n
<1>1. IsFiniteSet(S) /\ Cardinality(S) <= Cardinality(T)
  BY FS_Subset
<1>2. Cardinality(S) \in Nat /\ Cardinality(T) \in Nat
  BY <1>1, FS_CardinalityType
<1> QED
  BY <1>1, <1>2

\* kept are n of the rows S, and none of the others belongs before one of them.
Foremost(n, S, kept) == /\ kept \in SUBSET S /\ Cardinality(kept) = n
                        /\ \A k \in kept, q \in S \ kept : ~Less(q, k)

\* The total is what it should be.
LEMMA TotalIsSum ==
  ASSUME OrderConstants, OrderInput, InRange, HasTotal
  PROVE  Total = limit + offset /\ Total \in Nat
<1>1. PICK n \in Nat : n = limit + offset /\ n < SizeLimit
  BY DEF OrderInput, InRange, HasTotal
<1>2. n % SizeLimit = n
  <2>1. SizeLimit \in Nat /\ SizeLimit > 0 /\ n \in 0..(SizeLimit - 1) /\ n = SizeLimit * 0 + n
    BY <1>1 DEF OrderConstants
  <2> QED
    BY <2>1, RemainderIs
<1> QED
  BY <1>1, <1>2 DEF Total

\* Of rows in range cmp reads the ones it is asked about.
LEMMA ReadsRows ==
  ASSUME OrderConstants, OrderInput, InRange, NEW S \in SUBSET Rows, NEW read \in Readings(S)
  PROVE  \A r \in S : read[r] = r
<1>1. Cardinality(S) <= Cardinality(Rows) /\ Cardinality(S) \in Nat /\ Cardinality(Rows) \in Nat
  BY FS_Subset, FS_CardinalityType DEF OrderInput
<1>2. Cardinality(S) <= IndexLimit
  BY <1>1 DEF InRange, OrderConstants
<1> QED
  BY <1>2 DEF Readings

\* The rows a trim or Finalize moves to the front, when the numbers are in range.
LEMMA FrontIs ==
  ASSUME OrderConstants, OrderInput, InRange, HasTotal, NEW S \in SUBSET Rows,
         Cardinality(S) > Total, NEW read \in Readings(S), NEW kept \in Smallest(Lim, S, read)
  PROVE  Foremost(Total, S, kept)
<1>1. Cardinality(S) <= Cardinality(Rows) /\ Cardinality(S) \in Nat /\ Cardinality(Rows) \in Nat
  BY FS_Subset, FS_CardinalityType DEF OrderInput
<1>2. PICK n \in Nat : n = Total
  BY TotalIsSum
<1>3. Lim = n
  <2>1. n < IndexLimit /\ IndexLimit \in Nat
    BY <1>1, <1>2 DEF InRange, OrderConstants
  <2>2. n \in 0..(IndexLimit - 1) /\ n = IndexLimit * 0 + n /\ IndexLimit > 0
    BY <2>1
  <2>3. n % IndexLimit = n
    BY <2>1, <2>2, RemainderIs
  <2> QED
    BY <1>2, <2>3 DEF Lim
<1>4. /\ kept \in SUBSET S /\ Cardinality(kept) = n
      /\ \A r \in kept, q \in S \ kept : ~Less(read[q], read[r])
  BY <1>3 DEF Smallest, kSubset
<1>5. \A r \in kept, q \in S \ kept : ~Less(q, r)
  BY <1>4, ReadsRows
<1> QED
  BY <1>2, <1>4, <1>5 DEF Foremost

\* A trim of the rows A covers the rows it drops, and those that were covered.
LEMMA TrimCovers ==
  ASSUME OrderConstants, OrderInput, Total \in Nat,
         NEW A \in SUBSET Rows, IsFiniteSet(A), NEW kept, Foremost(Total, A, kept),
         NEW C \in SUBSET A, NEW r \in Rows,
         r \in A \ kept \/ Cardinality({q \in C : ~Less(r, q)}) >= Total
  PROVE  Cardinality({q \in kept : ~Less(r, q)}) >= Total
<1> DEFINE Cover(S) == {q \in S : ~Less(r, q)}
<1>1. Total \in Nat
  OBVIOUS
<1>2. /\ kept \in SUBSET A /\ Cardinality(kept) = Total
      /\ \A k \in kept, q \in A \ kept : ~Less(q, k)
  BY DEF Foremost
<1>3. IsFiniteSet(kept) /\ IsFiniteSet(Cover(kept))
  BY <1>2, FS_Subset
<1>4. CASE Cover(C) \subseteq kept /\ Cardinality(Cover(C)) >= Total
  <2>1. Cover(C) \subseteq Cover(kept)
    BY <1>4
  <2> QED
    BY <1>1, <1>3, <1>4, <2>1, AtLeast
<1>5. ASSUME NEW c \in A \ kept, c = r \/ ~Less(r, c)
      PROVE  Cover(kept) = kept
  <2>1. ASSUME NEW k \in kept
        PROVE  ~Less(r, k)
    <3>1. ~Less(c, k)
      BY <1>2
    <3>2. c \in Rows /\ k \in Rows
      BY <1>2
    <3> QED
      BY <1>5, <3>1, <3>2, LessWeak
  <2> QED
    BY <2>1
<1>6. CASE \E c \in A \ kept : c = r \/ ~Less(r, c)
  BY <1>1, <1>2, <1>5, <1>6
<1>7. Cover(C) \subseteq kept \/ \E c \in A \ kept : ~Less(r, c)
  OBVIOUS
<1> QED
  BY <1>4, <1>6, <1>7

-----------------------------------------------------------------------------
(* Sink. *)

\* Every batch is finite, so is what a thread gathers.
LEMMA SinkKeeps ==
  ASSUME OrderConstants, OrderInv, NEW t \in ThreadIds, Sink(t)
  PROVE  OrderInv'
<1>1. PICK b \in todo :
        LET all == Gathered(t, b)
        IN /\ ~done
           /\ todo' = todo \ {b}
           /\ IF HasTotal /\ Cardinality(all) > TrimAbove
                THEN \E kept \in Keep(all) :
                       /\ acc' = [acc EXCEPT ![t] = kept]
                       /\ dropped' = [dropped EXCEPT ![t] = @ \cup (all \ kept)]
                ELSE /\ acc' = [acc EXCEPT ![t] = all]
                     /\ UNCHANGED dropped
           /\ UNCHANGED <<batches, key, limit, offset, done, result>>
  BY DEF Sink
<1>2. PICK A : A = acc[t] \cup batches[b]
  OBVIOUS
<1>3. /\ UNCHANGED <<batches, key, limit, offset, done, result>>
      /\ todo' = todo \ {b} /\ ~done /\ b \in DOMAIN batches
  BY <1>1 DEF OrderInv, TypeOK
<1>4. Rows' = Rows /\ A \subseteq Rows /\ IsFiniteSet(A)
  <2>1. batches[b] \subseteq Rows
    BY <1>3 DEF Rows, Range
  <2>2. acc[t] \subseteq Rows
    BY DEF OrderInv, TypeOK
  <2>3. A \subseteq Rows
    BY <1>2, <2>1, <2>2
  <2> QED
    BY <1>3, <2>3, FS_Subset DEF Rows, OrderInv, OrderInput
<1>5. PICK kept \in SUBSET A :
        /\ acc' = [acc EXCEPT ![t] = kept]
        /\ dropped' = [dropped EXCEPT ![t] = @ \cup (A \ kept)]
        /\ kept = A \/ (HasTotal /\ (InRange => Foremost(Total, A, kept)))
  <2>1. CASE acc' = [acc EXCEPT ![t] = A] /\ UNCHANGED dropped
    <3>1. dropped' = [dropped EXCEPT ![t] = @ \cup (A \ A)]
      BY <2>1 DEF OrderInv, TypeOK
    <3> QED
      BY <2>1, <3>1
  <2>2. CASE HasTotal /\ \E kept \in Keep(A) :
               /\ acc' = [acc EXCEPT ![t] = kept]
               /\ dropped' = [dropped EXCEPT ![t] = @ \cup (A \ kept)]
    <3>1. PICK kept \in Keep(A) :
               /\ acc' = [acc EXCEPT ![t] = kept]
               /\ dropped' = [dropped EXCEPT ![t] = @ \cup (A \ kept)]
      BY <2>2
    <3>2. CASE kept = A
      BY <3>1, <3>2
    <3>3. CASE \E read \in Readings(A) : kept \in Smallest(Lim, A, read) /\ Cardinality(A) > Total
      <4>1. kept \in SUBSET A
        BY <3>3 DEF Smallest, kSubset
      <4>2. InRange => Foremost(Total, A, kept)
        BY <1>4, <2>2, <3>3, FrontIs DEF OrderInv
      <4> QED
        BY <2>2, <3>1, <4>1, <4>2
    <3> QED
      BY <3>1, <3>2, <3>3 DEF Keep
  <2> QED
    BY <1>1, <1>2, <2>1, <2>2 DEF Gathered
<1>6. OrderInput' /\ (InRange' <=> InRange)
  BY <1>3, <1>4 DEF OrderInv, OrderInput, InRange, HasTotal, ColumnOf
<1>7. TypeOK'
  BY <1>3, <1>4, <1>5 DEF OrderInv, TypeOK
<1>8. Accounted'
  <2>1. ASSUME NEW u \in ThreadIds
        PROVE  IsFiniteSet(acc'[u]) /\ IsFiniteSet(dropped'[u])
    <3>1. CASE u = t
      <4>1. IsFiniteSet(kept) /\ IsFiniteSet(dropped[t]) /\ IsFiniteSet(A \ kept)
        BY <1>4, FS_Subset DEF OrderInv, Accounted
      <4>2. IsFiniteSet(dropped[t] \cup (A \ kept))
        BY <4>1, FS_Union
      <4> QED
        BY <1>5, <3>1, <4>1, <4>2 DEF OrderInv, TypeOK
    <3>2. CASE u # t
      BY <1>5, <3>2 DEF OrderInv, TypeOK, Accounted
    <3> QED
      BY <3>1, <3>2
  <2>2. \A u \in ThreadIds : u # t => acc'[u] = acc[u] /\ dropped'[u] = dropped[u]
    BY <1>5 DEF OrderInv, TypeOK
  <2>3. acc'[t] \cup dropped'[t] = acc[t] \cup dropped[t] \cup batches[b]
    BY <1>2, <1>5 DEF OrderInv, TypeOK
  <2>4. UNION {acc'[u] \cup dropped'[u] : u \in ThreadIds}
          = (UNION {acc[u] \cup dropped[u] : u \in ThreadIds}) \cup batches[b]
    BY <2>2, <2>3
  <2>5. UNION {batches[c] : c \in DOMAIN batches \ todo'}
          = (UNION {batches[c] : c \in DOMAIN batches \ todo}) \cup batches[b]
    BY <1>3 DEF OrderInv, TypeOK
  <2>6. ASSUME ~HasTotal
        PROVE  \A u \in ThreadIds : dropped'[u] = {}
    BY <1>5, <2>6 DEF OrderInv, Accounted, TypeOK
  <2> QED
    BY <1>3, <2>1, <2>4, <2>5, <2>6 DEF OrderInv, Accounted, HasTotal
<1>9. DroppedAreCovered'
  <2> SUFFICES ASSUME InRange, NEW u \in ThreadIds, NEW r \in dropped'[u]
               PROVE  Cardinality({q \in acc'[u] : ~Less(r, q)}) >= limit + offset
    <3>1. ASSUME NEW u \in ThreadIds, NEW r
          PROVE  {q \in acc[u] : ~Less(r, q)}' = {q \in acc'[u] : ~Less(r, q)}
      <4>1. ASSUME NEW q PROVE Less(r, q)' <=> Less(r, q)
        BY <1>3, Zenon DEF Less
      <4> QED
        BY <4>1, Zenon
    <3>2. limit' = limit /\ offset' = offset
      BY <1>3
    <3> QED
      BY <1>6, <3>1, <3>2 DEF DroppedAreCovered
  <2>1. CASE u # t
    BY <1>5, <2>1 DEF OrderInv, TypeOK, DroppedAreCovered
  <2>2. CASE u = t
    <3>1. acc'[t] = kept /\ (r \in dropped[t] \/ r \in A \ kept) /\ r \in Rows
      BY <1>5, <1>4, <2>2 DEF OrderInv, TypeOK
    <3>2. HasTotal /\ Total = limit + offset /\ limit + offset \in Nat
      <4>1. HasTotal
        BY <1>5, <3>1 DEF OrderInv, Accounted
      <4> QED
        BY <4>1, TotalIsSum DEF OrderInv
    <3>3. r \in dropped[t] => Cardinality({q \in acc[t] : ~Less(r, q)}) >= Total
      BY <3>2 DEF OrderInv, DroppedAreCovered
    <3>4. CASE kept = A
      <4>1. {q \in acc[t] : ~Less(r, q)} \subseteq {q \in kept : ~Less(r, q)}
        BY <1>2, <3>4
      <4>2. IsFiniteSet({q \in kept : ~Less(r, q)})
        BY <1>4, <3>4, FS_Subset
      <4>3. r \in dropped[t]
        BY <3>1, <3>4
      <4> QED
        BY <2>2, <3>1, <3>2, <3>3, <4>1, <4>2, <4>3, AtLeast
    <3>5. CASE Foremost(Total, A, kept)
      <4>1. acc[t] \in SUBSET A
        BY <1>2
      <4>2. r \in A \ kept \/ Cardinality({q \in acc[t] : ~Less(r, q)}) >= Total
        BY <3>1, <3>3
      <4>3. OrderInput /\ Total \in Nat /\ A \in SUBSET Rows /\ IsFiniteSet(A) /\ r \in Rows
        BY <1>4, <3>1, <3>2 DEF OrderInv
      <4>4. Cardinality({q \in kept : ~Less(r, q)}) >= Total
        BY ONLY OrderConstants, <3>5, <4>1, <4>2, <4>3, TrimCovers
      <4> QED
        BY <2>2, <3>1, <3>2, <4>4
    <3> QED
      BY <1>5, <3>4, <3>5
  <2> QED
    BY <2>1, <2>2
<1>10. ResultIsWindow'
  BY <1>3 DEF ResultIsWindow
<1> QED
  BY <1>6, <1>7, <1>8, <1>9, <1>10 DEF OrderInv

-----------------------------------------------------------------------------
(* Finalize. *)

\* A sort puts each row of a finite set in one place.
LEMMA SortPlaces ==
  ASSUME NEW S, IsFiniteSet(S), NEW read, NEW s \in Sorts(S, read)
  PROVE  /\ Cardinality(S) \in Nat
         /\ s \in Seq(S) /\ Len(s) = Cardinality(S) /\ DOMAIN s = 1..Cardinality(S)
         /\ \A i, j \in 1..Cardinality(S) : s[i] = s[j] => i = j
         /\ S = {s[i] : i \in 1..Cardinality(S)}
         /\ \A i, j \in 1..Cardinality(S) : i < j => ~Less(read[s[j]], read[s[i]])
<1> DEFINE K == Cardinality(S)
<1>1. K \in Nat
  BY FS_CardinalityType
<1>2. s \in [1..K -> S] /\ \A i, j \in 1..K : i # j => s[i] # s[j]
  BY DEF Sorts, SetToSeqs
<1>3. DOMAIN s = 1..K /\ s \in Seq(S)
  BY <1>1, <1>2, SeqDef
<1>4. Len(s) = K
  BY <1>1, <1>3, LenProperties
<1>5. \A i, j \in 1..K : i < j => ~Less(read[s[j]], read[s[i]])
  BY <1>3 DEF Sorts
<1>6. \A i, j \in 1..K : s[i] = s[j] => i = j
  BY <1>2
<1>7. S = {s[i] : i \in 1..K}
  <2>1. Cardinality({s[i] : i \in 1..K}) = K
    BY <1>1, <1>6, FirstElements
  <2>2. {s[i] : i \in 1..K} \in SUBSET S
    BY <1>2
  <2> QED
    BY <2>1, <2>2, FS_Subset
<1> QED
  BY <1>1, <1>3, <1>4, <1>5, <1>6, <1>7

\* What is left without the first rows is a sequence of the same rows.
LEMMA SkipType ==
  ASSUME NEW S, NEW s \in Seq(S), offset \in Nat
  PROVE  SkipOffset(s) \in Seq(S)
<1>1. CASE offset >= Len(s)
  BY <1>1 DEF SkipOffset
<1>2. CASE ~(offset >= Len(s))
  <2>1. PICK m \in Nat, n \in Nat : m = offset + 1 /\ n = Len(s)
    OBVIOUS
  <2>2. m >= 1 /\ m <= n
    BY <1>2, <2>1
  <2>3. SubSeq(s, m, n) \in Seq(S)
    <3>1. \A i \in m..n : s[i] \in S
      BY <2>1, <2>2
    <3> QED
      BY <2>2, <3>1, SubSeqProperties
  <2> QED
    BY <1>2, <2>1, <2>3 DEF SkipOffset
<1> QED
  BY <1>1, <1>2

\* The smallest rows of a set in order, without the first ones, are its window.
LEMMA SortedWindow ==
  ASSUME OrderConstants, OrderInput, InRange,
         NEW S, IsFiniteSet(S), NEW kept \in SUBSET S,
         NEW read, \A r \in kept : read[r] = r, NEW s \in Sorts(kept, read),
         Cardinality(kept) = IF HasTotal /\ Total < Cardinality(S) THEN Total
                                                                  ELSE Cardinality(S),
         \A k \in kept, r \in S \ kept : ~Less(r, k)
  PROVE  IsWindow(SkipOffset(s), S)
<1> DEFINE N == Cardinality(S)
           K == Cardinality(kept)
<1>1. IsFiniteSet(kept) /\ N \in Nat /\ K \in Nat
  BY FS_Subset, FS_CardinalityType
<1>2. /\ s \in Seq(kept) /\ Len(s) = K /\ DOMAIN s = 1..K
      /\ \A i, j \in 1..K : s[i] = s[j] => i = j
      /\ kept = {s[i] : i \in 1..K}
      /\ \A i, j \in 1..K : i < j => ~Less(s[j], s[i])
  <2>1. /\ s \in Seq(kept) /\ Len(s) = K /\ DOMAIN s = 1..K
        /\ \A i, j \in 1..K : s[i] = s[j] => i = j
        /\ kept = {s[i] : i \in 1..K}
        /\ \A i, j \in 1..K : i < j => ~Less(read[s[j]], read[s[i]])
    BY <1>1, SortPlaces
  <2>2. \A i \in 1..K : read[s[i]] = s[i]
    BY <2>1
  <2> QED
    BY <2>1, <2>2
<1>3. /\ offset \in Nat
      /\ HasTotal => limit \in Nat /\ Total = limit + offset
      /\ K = IF HasTotal /\ Total < N THEN Total ELSE N
  <2>1. HasTotal => Total = limit + offset
    BY TotalIsSum
  <2> QED
    BY <2>1 DEF OrderInput, HasTotal
<1> DEFINE L == IF offset >= K THEN 0 ELSE K - offset
           rest == IF N > offset THEN N - offset ELSE 0
<1>4. L \in Nat /\ L = IF HasTotal /\ limit < rest THEN limit ELSE rest
  BY <1>1, <1>3
<1> HIDE DEF N, K
<1>5. PICK r : r = SkipOffset(s)
  OBVIOUS
<1>6. /\ r \in Seq(kept) /\ Len(r) = L /\ DOMAIN r = 1..L
      /\ \A i \in 1..L : r[i] = s[offset + i]
  <2>1. CASE offset >= K
    <3>1. r = <<>> /\ L = 0
      BY <1>2, <1>5, <2>1 DEF SkipOffset
    <3> QED
      BY <3>1, EmptySeq
  <2>2. CASE ~(offset >= K)
    <3>1. r = SubSeq(s, offset + 1, K)
      BY <1>2, <1>5, <2>2 DEF SkipOffset
    <3>2. offset + 1 \in Nat /\ offset + 1 >= 1 /\ offset + 1 <= K /\ L = K - offset
      BY <1>1, <1>3, <2>2
    <3>3. \A i \in (offset + 1)..K : s[i] \in kept
      <4>1. \A i \in (offset + 1)..K : i \in 1..K
        BY <1>1, <3>2
      <4> QED
        BY <1>2, <4>1
    <3>4. PICK m \in Nat : m = offset + 1
      BY <3>2
    <3>5. /\ r \in Seq(kept)
          /\ Len(r) = K - m + 1
          /\ \A i \in 1..(K - m + 1) : r[i] = s[m + i - 1]
      BY <1>1, <1>2, <3>1, <3>2, <3>3, <3>4, SubSeqProperties
    <3>6. K - m + 1 = L /\ \A i \in 1..L : m + i - 1 = offset + i
      BY <1>1, <1>3, <3>2, <3>4
    <3>7. DOMAIN r = 1..L
      BY <3>5, <3>6, LenProperties
    <3> QED
      BY <3>5, <3>6, <3>7
  <2> QED
    BY <2>1, <2>2
<1>7. \A i \in 1..L : offset + i \in 1..K
  BY <1>1, <1>3
<1>8. ToSet(r) \subseteq S /\ r \in Seq(S)
  <2>1. \A i \in 1..L : r[i] \in S
    BY <1>2, <1>6, <1>7
  <2>2. r \in [1..L -> S]
    BY <1>6, <2>1
  <2> QED
    BY <1>4, <1>6, <2>1, <2>2, SeqDef DEF ToSet
<1>9. IsInjective(r)
  <2>1. \A i, j \in 1..L : s[offset + i] = s[offset + j] => i = j
    BY <1>2, <1>3, <1>4, <1>7
  <2> QED
    BY <1>6, <2>1 DEF IsInjective
<1>10. ASSUME NEW i \in 1..L
       PROVE  /\ Cardinality({q \in S : Less(q, r[i])}) < offset + i
              /\ Cardinality({q \in S : ~Less(r[i], q)}) >= offset + i
              /\ \A j \in 1..(i - 1) : ~Less(r[i], r[j])
  <2>1. PICK p \in 1..K : p = offset + i
    BY <1>7
  <2>2. r[i] = s[p] /\ p \in Nat /\ p - 1 \in Nat
    BY <1>1, <1>6, <2>1
  <2>3. Cardinality({q \in S : Less(q, s[p])}) < p
    <3>1. {q \in S : Less(q, s[p])} \subseteq {s[j] : j \in 1..(p - 1)}
      <4> SUFFICES ASSUME NEW q \in S, Less(q, s[p])
                   PROVE  \E j \in 1..(p - 1) : q = s[j]
        OBVIOUS
      <4>1. q \in kept
        BY <1>2
      <4>2. PICK j \in 1..K : q = s[j]
        BY <1>2, <4>1
      <4>3. ~(p < j) /\ p # j
        BY <1>2, <4>2, LessIrreflexive
      <4>4. j \in 1..(p - 1)
        BY <1>1, <4>3
      <4> QED
        BY <4>2, <4>4
    <3>2. IsFiniteSet({s[j] : j \in 1..(p - 1)}) /\ Cardinality({s[j] : j \in 1..(p - 1)}) <= p - 1
      BY <2>2, FirstElements
    <3>3. PICK T, U : /\ T = {q \in S : Less(q, s[p])} /\ U = {s[j] : j \in 1..(p - 1)}
      OBVIOUS
    <3>4. Cardinality(T) <= Cardinality(U) /\ IsFiniteSet(T)
      BY <3>1, <3>2, <3>3, FS_Subset
    <3>5. Cardinality(T) \in Nat /\ Cardinality(U) \in Nat /\ Cardinality(U) <= p - 1
      BY <3>2, <3>3, <3>4, FS_CardinalityType
    <3>6. Cardinality(T) < p
      BY <2>2, <3>4, <3>5
    <3> QED
      BY <3>3, <3>6
  <2>4. Cardinality({q \in S : ~Less(s[p], q)}) >= p
    <3>1. PICK U : U = {s[j] : j \in 1..p}
      OBVIOUS
    <3>2. \A j \in 1..p : j \in 1..K
      BY <1>1
    <3>3. Cardinality(U) = p
      <4>1. \A g, j \in 1..p : s[g] = s[j] => g = j
        BY <1>2, <3>2
      <4> QED
        BY <2>2, <3>1, <4>1, FirstElements, ZenonT(60)
    <3>4. ASSUME NEW j \in 1..p
          PROVE  s[j] \in S /\ ~Less(s[p], s[j])
      <4>1. j = p \/ j < p
        BY <2>2
      <4> QED
        BY <1>2, <3>2, <4>1, LessIrreflexive
    <3>5. U \subseteq {q \in S : ~Less(s[p], q)}
      BY <3>1, <3>4
    <3>6. IsFiniteSet({q \in S : ~Less(s[p], q)})
      BY FS_Subset
    <3> QED
      BY <2>2, <3>3, <3>5, <3>6, AtLeast
  <2>5. ASSUME NEW j \in 1..(i - 1)
        PROVE  ~Less(r[i], r[j])
    <3>1. j \in 1..L /\ offset + j \in 1..K /\ offset + j < p
      BY <1>3, <1>4, <1>7, <2>1
    <3> QED
      BY <1>2, <1>6, <2>2, <3>1
  <2> QED
    BY <2>1, <2>2, <2>3, <2>4, <2>5
<1>11. IsWindow(r, S)
  <2>1. Len(r) = LET R == IF N > offset THEN N - offset ELSE 0
                 IN IF HasTotal /\ limit < R THEN limit ELSE R
    BY <1>4, <1>6
  <2> QED
    BY <1>6, <1>8, <1>9, <1>10, <2>1 DEF IsWindow, N
<1> QED
  BY <1>5, <1>8, <1>11

\* When all batches are sunk, the rows are those the threads hold and those they
\* have dropped.
LEMMA AllAccounted ==
  ASSUME OrderConstants, OrderInv, todo = {},
         NEW all, all = UNION {acc[t] : t \in ThreadIds}
  PROVE  /\ all \subseteq Rows /\ IsFiniteSet(all) /\ IsFiniteSet(Rows)
         /\ \A r \in Rows : r \in all \/ \E t \in ThreadIds : r \in dropped[t]
<1> DEFINE part == [t \in ThreadIds |-> acc[t] \cup dropped[t]]
<1>1. Rows = UNION {batches[b] : b \in DOMAIN batches}
  BY DEF Rows, Range
<1>2. Rows = UNION {acc[t] \cup dropped[t] : t \in ThreadIds}
  BY <1>1 DEF OrderInv, Accounted
<1>3. Rows = UNION {part[t] : t \in 1..NumThreads}
  BY <1>2 DEF ThreadIds
<1>4. \A t \in 1..NumThreads : IsFiniteSet(part[t])
  <2>1. ASSUME NEW t \in ThreadIds
        PROVE  IsFiniteSet(acc[t] \cup dropped[t])
    BY FS_Union DEF OrderInv, Accounted
  <2> QED
    BY <2>1 DEF ThreadIds
<1>5. IsFiniteSet({part[t] : t \in 1..NumThreads})
  BY FirstElements DEF OrderConstants
<1>6. IsFiniteSet(Rows)
  BY <1>3, <1>4, <1>5, FS_UNION
<1>7. all \in SUBSET Rows
  BY <1>2
<1> QED
  BY <1>2, <1>6, <1>7, FS_Subset

\* What Finalize keeps are the smallest of all rows, as if none had been dropped.
LEMMA TrimsAreInvisible ==
  ASSUME OrderConstants, OrderInv, InRange, todo = {},
         NEW all, all = UNION {acc[t] : t \in ThreadIds}, NEW kept,
         IF HasTotal /\ Cardinality(all) > Total THEN Foremost(Total, all, kept) ELSE kept = all
  PROVE  /\ kept \subseteq Rows
         /\ Cardinality(kept) = IF HasTotal /\ Total < Cardinality(Rows)
                                  THEN Total ELSE Cardinality(Rows)
         /\ \A k \in kept, r \in Rows \ kept : ~Less(r, k)
<1>1. /\ all \subseteq Rows /\ IsFiniteSet(all) /\ IsFiniteSet(Rows)
      /\ \A r \in Rows : r \in all \/ \E t \in ThreadIds : r \in dropped[t]
  BY AllAccounted
<1>2. kept \subseteq all /\ \A k \in kept, q \in all \ kept : ~Less(q, k)
  BY DEF Foremost
<1>3. IsFiniteSet(kept)
  BY <1>1, <1>2, FS_Subset
<1>4. PICK n \in Nat, m \in Nat, c \in Nat :
        n = Cardinality(Rows) /\ m = Cardinality(all) /\ c = Cardinality(kept)
  BY <1>1, <1>3, FS_CardinalityType
<1>5. m <= n
  BY <1>1, <1>4, FS_Subset
<1>6. HasTotal => Total = limit + offset /\ Total \in Nat
  BY TotalIsSum DEF OrderInv
<1>7. c = IF HasTotal /\ m > Total THEN Total ELSE m
  BY <1>4, <1>6 DEF Foremost
<1>8. ASSUME NEW t \in ThreadIds, NEW r \in dropped[t]
      PROVE  /\ HasTotal /\ m >= Total /\ c = Total
             /\ \A k \in kept : ~Less(r, k)
  <2> DEFINE Cover == {q \in acc[t] : ~Less(r, q)}
  <2>1. HasTotal /\ r \in Rows
    BY DEF OrderInv, Accounted, TypeOK
  <2>2. Cardinality(Cover) >= Total
    BY <1>6, <2>1 DEF OrderInv, DroppedAreCovered
  <2>3. Cover \subseteq all
    OBVIOUS
  <2>4. m >= Total
    BY <1>1, <1>4, <1>6, <2>1, <2>2, <2>3, AtLeast
  <2>5. c = Total
    BY <1>6, <1>7, <2>1, <2>4
  <2>6. ASSUME NEW k \in kept, Less(r, k)
        PROVE  FALSE
    <3>1. ASSUME NEW q \in Cover
          PROVE  q \in kept \ {k}
      <4>1. q \in Rows /\ k \in Rows /\ ~Less(r, q) /\ q \in all
        BY <1>1, <1>2, <2>3
      <4>2. Less(q, k)
        BY <2>1, <2>6, <4>1, LessWeak DEF OrderInv
      <4> QED
        BY <1>2, <4>1, <4>2, LessIrreflexive
    <3>2. IsFiniteSet(kept \ {k}) /\ Cardinality(kept \ {k}) = c - 1
      BY <1>3, <1>4, <2>6, FS_RemoveElement
    <3>3. Cardinality(kept \ {k}) >= Total
      BY <1>6, <2>1, <2>2, <3>1, <3>2, AtLeast
    <3> QED
      BY <1>4, <1>6, <2>1, <2>5, <3>2, <3>3
  <2> QED
    BY <2>1, <2>4, <2>5, <2>6
<1>9. c = IF HasTotal /\ Total < n THEN Total ELSE n
  <2>1. CASE \E t \in ThreadIds : dropped[t] # {}
    <3>1. HasTotal /\ m >= Total /\ c = Total
      BY <1>8, <2>1
    <3> QED
      BY <1>5, <1>6, <3>1
  <2>2. CASE \A t \in ThreadIds : dropped[t] = {}
    <3>1. all = Rows
      BY <1>1, <2>2
    <3> QED
      BY <1>4, <1>6, <1>7, <3>1
  <2> QED
    BY <2>1, <2>2
<1>10. \A k \in kept, r \in Rows \ kept : ~Less(r, k)
  BY <1>1, <1>2, <1>8
<1> QED
  BY <1>1, <1>2, <1>4, <1>9, <1>10

\* The state after Finalize, whose result is the window of all rows.
LEMMA FinalizeKeeps ==
  ASSUME OrderConstants, OrderInv, Finalize
  PROVE  OrderInv'
<1> DEFINE all == UNION {acc[t] : t \in ThreadIds}
<1>1. PICK read \in Readings(all) :
        \E kept \in IF HasTotal /\ Cardinality(all) > Total
                      THEN Smallest(Lim, all, read) ELSE {all} :
          \E s \in Sorts(kept, read) : result' = SkipOffset(s)
  BY DEF Finalize
<1>2. PICK kept : /\ kept \in IF HasTotal /\ Cardinality(all) > Total
                                THEN Smallest(Lim, all, read) ELSE {all}
                  /\ \E s \in Sorts(kept, read) : result' = SkipOffset(s)
  BY <1>1
<1>3. todo = {} /\ UNCHANGED <<batches, key, limit, offset, todo, acc, dropped>> /\ done' = TRUE
  BY DEF Finalize
<1>4. PICK s \in Sorts(kept, read) : result' = SkipOffset(s)
  BY <1>2
<1>5. all \in SUBSET Rows /\ IsFiniteSet(Rows) /\ kept \in SUBSET all
  <2>1. all \in SUBSET Rows /\ IsFiniteSet(Rows)
    BY <1>3, AllAccounted
  <2>2. kept \in SUBSET all
    BY <1>2 DEF Smallest, kSubset
  <2> QED
    BY <2>1, <2>2
<1> HIDE DEF all
<1>6. /\ result' \in Seq(Rows)
      /\ InRange => IsWindow(result', Rows)
  <2>1. IsFiniteSet(kept) /\ kept \in SUBSET Rows
    BY <1>5, FS_Subset
  <2>2. s \in Seq(Rows)
    <3>1. s \in Seq(kept)
      BY <2>1, SortPlaces
    <3> QED
      BY <2>1, <3>1
  <2>3. result' \in Seq(Rows)
    BY <1>4, <2>2, SkipType DEF OrderInv, OrderInput
  <2>4. ASSUME InRange
        PROVE  IsWindow(result', Rows)
    <3>1. \A r \in all : read[r] = r
      BY <1>5, <2>4, ReadsRows DEF OrderInv
    <3>2. IF HasTotal /\ Cardinality(all) > Total THEN Foremost(Total, all, kept) ELSE kept = all
      BY <1>2, <1>5, <2>4, FrontIs DEF OrderInv
    <3>3. /\ kept \in SUBSET Rows
          /\ Cardinality(kept) = IF HasTotal /\ Total < Cardinality(Rows)
                                   THEN Total ELSE Cardinality(Rows)
          /\ \A k \in kept, r \in Rows \ kept : ~Less(r, k)
      BY <1>3, <2>4, <3>2, TrimsAreInvisible DEF all
    <3>4. \A r \in kept : read[r] = r
      BY <1>5, <3>1
    <3> QED
      BY <1>4, <1>5, <2>4, <3>3, <3>4, SortedWindow DEF OrderInv
  <2> QED
    BY <2>3, <2>4
<1>7. OrderInput' /\ TypeOK' /\ Accounted'
  <2>1. Rows' = Rows /\ DOMAIN batches' = DOMAIN batches
    BY <1>3 DEF Rows
  <2>2. OrderInput'
    BY <1>3, <2>1 DEF OrderInv, OrderInput, HasTotal, ColumnOf
  <2>3. TypeOK'
    BY <1>3, <1>6, <2>1 DEF OrderInv, TypeOK
  <2>4. Accounted'
    BY <1>3, <2>1 DEF OrderInv, Accounted, HasTotal
  <2> QED
    BY <2>2, <2>3, <2>4
<1>8. ASSUME NEW r, NEW q
      PROVE  Less(r, q)' <=> Less(r, q)
  BY <1>3 DEF Less
<1>9. InRange' <=> InRange
  BY <1>3 DEF InRange, HasTotal, Rows
<1>10. DroppedAreCovered'
  <2>1. ASSUME NEW t \in ThreadIds, NEW r
        PROVE  {q \in acc[t] : ~Less(r, q)}' = {q \in acc[t] : ~Less(r, q)}
    BY <1>3, <1>8
  <2> QED
    BY <1>3, <1>9, <2>1 DEF OrderInv, DroppedAreCovered
<1>11. ResultIsWindow'
  <2>1. Rows' = Rows /\ limit' = limit /\ offset' = offset /\ (HasTotal' <=> HasTotal)
    BY <1>3 DEF Rows, HasTotal
  <2>2. ASSUME NEW x
        PROVE  /\ {r \in Rows : Less(r, x)}' = {r \in Rows : Less(r, x)}
               /\ {r \in Rows : ~Less(x, r)}' = {r \in Rows : ~Less(x, r)}
    BY <1>8, <2>1
  <2>3. IsWindow(result, Rows)' <=> IsWindow(result', Rows)
    BY <1>8, <2>1, <2>2 DEF IsWindow
  <2> QED
    BY <1>6, <1>9, <2>3 DEF ResultIsWindow
<1> QED
  BY <1>7, <1>10, <1>11 DEF OrderInv

-----------------------------------------------------------------------------
(* The operator as a whole. *)

\* Before the first Sink: nothing is held, nothing is dropped.
Fresh == /\ todo = DOMAIN batches
         /\ acc = [t \in ThreadIds |-> {}]
         /\ dropped = [t \in ThreadIds |-> {}]
         /\ done = FALSE
         /\ result = <<>>

\* The invariant holds of the operator that has just been given its input.
LEMMA FreshHolds == OrderInput /\ Fresh => OrderInv
<1> SUFFICES ASSUME OrderInput, Fresh
             PROVE  OrderInv
  OBVIOUS
<1>1. TypeOK
  <2>1. result \in Seq(Rows)
    BY DEF Fresh
  <2> QED
    BY <2>1 DEF Fresh, TypeOK
<1>2. Accounted
  <2>1. \A t \in ThreadIds : acc[t] = {} /\ dropped[t] = {}
    BY DEF Fresh
  <2>2. DOMAIN batches \ todo = {}
    BY DEF Fresh
  <2> QED
    BY <2>1, <2>2, FS_EmptySet DEF Accounted
<1>3. DroppedAreCovered
  BY DEF Fresh, DroppedAreCovered
<1>4. ResultIsWindow
  BY DEF Fresh, ResultIsWindow
<1> QED
  BY <1>1, <1>2, <1>3, <1>4 DEF OrderInv

\* A state in which nothing of the operator changes.
LEMMA UnchangedKeeps == OrderInv /\ UNCHANGED vars => OrderInv'
<1> SUFFICES ASSUME OrderInv, UNCHANGED vars
             PROVE  OrderInv'
  OBVIOUS
<1> USE DEF vars
<1>1. Rows' = Rows /\ (HasTotal' <=> HasTotal) /\ (InRange' <=> InRange)
  BY DEF Rows, HasTotal, InRange
<1>2. OrderInput' /\ TypeOK' /\ Accounted'
  <2>1. OrderInput'
    BY <1>1 DEF OrderInv, OrderInput, ColumnOf
  <2>2. TypeOK' /\ Accounted'
    BY <1>1 DEF OrderInv, TypeOK, Accounted
  <2> QED
    BY <2>1, <2>2
<1>3. ASSUME NEW r, NEW q
      PROVE  Less(r, q)' <=> Less(r, q)
  BY DEF Less
<1>4. DroppedAreCovered'
  <2>1. ASSUME NEW t \in ThreadIds, NEW r
        PROVE  {q \in acc[t] : ~Less(r, q)}' = {q \in acc[t] : ~Less(r, q)}
    BY <1>3
  <2> QED
    BY <1>1, <2>1 DEF OrderInv, DroppedAreCovered
<1>5. ResultIsWindow'
  <2>1. ASSUME NEW x
        PROVE  /\ {r \in Rows : Less(r, x)}' = {r \in Rows : Less(r, x)}
               /\ {r \in Rows : ~Less(x, r)}' = {r \in Rows : ~Less(x, r)}
    BY <1>1, <1>3
  <2>2. IsWindow(result, Rows)' <=> IsWindow(result, Rows)
    BY <1>1, <1>3, <2>1 DEF IsWindow
  <2> QED
    BY <1>1, <2>2 DEF OrderInv, ResultIsWindow
<1> QED
  BY <1>2, <1>4, <1>5 DEF OrderInv

\* Every step of the operator keeps the invariant.
LEMMA NextKeeps == OrderConstants /\ OrderInv /\ [Next]_vars => OrderInv'
<1> SUFFICES ASSUME OrderConstants, OrderInv, [Next]_vars
             PROVE  OrderInv'
  OBVIOUS
<1>1. ASSUME NEW t \in ThreadIds, Sink(t)
      PROVE  OrderInv'
  BY <1>1, SinkKeeps
<1>2. CASE Finalize
  BY <1>2, FinalizeKeeps
<1>3. CASE UNCHANGED vars
  BY <1>3, UnchangedKeeps
<1> QED
  BY <1>1, <1>2, <1>3 DEF Next

\* The next pipeline's operator, whose rows and window are given to it.
LEMMA OpenGives ==
  ASSUME NEW bs, NEW k, NEW window, Open(bs, k, window),
         acc = [t \in ThreadIds |-> {}], dropped = [t \in ThreadIds |-> {}],
         done = FALSE, result = <<>>
  PROVE  Fresh'
BY DEF Open, Fresh

\* The inputs considered: finitely many rows whose sort columns can be compared,
\* and any window.
GoodTables ==
  \A t \in Tables :
    /\ IsFiniteSet(UNION Range(t.batches))
    /\ \A r \in UNION Range(t.batches), i \in DOMAIN SortColumns :
         t.key[r][SortColumns[i].col] \in Int
    /\ t.window.limit \in Nat \cup {NoLimit}
    /\ t.window.offset \in Nat

\* The operator begins with the invariant.
LEMMA InitHolds == GoodTables /\ Init => OrderInv
<1> SUFFICES ASSUME GoodTables, Init
             PROVE  OrderInput /\ Fresh
  BY FreshHolds
<1>1. PICK t \in Tables : /\ batches = t.batches /\ key = t.key
                          /\ limit = t.window.limit /\ offset = t.window.offset
  BY DEF Init
<1>2. OrderInput
  BY <1>1 DEF GoodTables, OrderInput, Rows, ColumnOf
<1> QED
  BY <1>2 DEF Init, Fresh

\* In every state: unless a number of rows is out of range, no trim has dropped a
\* row that could be in the result.
THEOREM TrimIsSound ==
  ASSUME OrderConstants, GoodTables
  PROVE  Spec => []DroppedAreCovered
<1>1. Init => OrderInv
  BY InitHolds
<1>2. OrderInv /\ [Next]_vars => OrderInv'
  BY NextKeeps
<1>3. OrderInv => DroppedAreCovered
  BY DEF OrderInv
<1> QED
  BY <1>1, <1>2, <1>3, PTL DEF Spec

\* In every state: unless a number of rows is out of range, a result is the window
\* of all rows that the limit and the offset name.
THEOREM SortsWindow ==
  ASSUME OrderConstants, GoodTables
  PROVE  Spec => [](TypeOK /\ ResultIsWindow)
<1>1. Init => OrderInv
  BY InitHolds
<1>2. OrderInv /\ [Next]_vars => OrderInv'
  BY NextKeeps
<1>3. OrderInv => TypeOK /\ ResultIsWindow
  BY DEF OrderInv
<1> QED
  BY <1>1, <1>2, <1>3, PTL DEF Spec

=============================================================================
