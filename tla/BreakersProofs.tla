---------------------------- MODULE BreakersProofs ----------------------------
(***************************************************************************)
(* Proofs about Aggregation and about Breakers.                            *)
(*                                                                         *)
(* First the two aggregations, GroupBy and GlobalAggregate, for any number *)
(* of threads, any input and any width of the sums.  At every moment each  *)
(* row that has been sunk belongs to one thread, and a thread's state for  *)
(* a group is what the aggregates of its rows with the group's key are by  *)
(* definition.  Sink gives a thread new rows; Finalize moves rows to the   *)
(* first thread.                                                           *)
(*                                                                         *)
(* Then an aggregation, an ORDER BY, and the ORDER BY of the groups an     *)
(* aggregation has made: why what is proved here and in OrderByProofs of   *)
(* each of the two operators holds of one after the other.                 *)
(***************************************************************************)
EXTENDS Breakers, DataFacts

-----------------------------------------------------------------------------
(* Sums in the type of the state. *)

\* A sum that fits its type is itself; every sum is in the type once wrapped.
LEMMA WrapFits ==
  ASSUME GroupConstants, NEW x \in Int
  PROVE  /\ WrapSum(x) \in (-SumLimit)..(SumLimit - 1)
         /\ x \in (-SumLimit)..(SumLimit - 1) => WrapSum(x) = x
<1>1. PICK m \in Nat \ {0} : m = 2 * SumLimit /\ SumLimit \in Nat \ {0}
  BY DEF GroupConstants
<1>2. PICK y \in Int : y = x + SumLimit
  BY <1>1
<1>3. PICK r \in 0..(m - 1) : r = y % m
  BY DivideBy
<1>4. WrapSum(x) = r - SumLimit
  BY <1>1, <1>2, <1>3 DEF WrapSum
<1>5. ASSUME x \in (-SumLimit)..(SumLimit - 1)
      PROVE  r = x + SumLimit
  <2>1. y \in 0..(m - 1) /\ y = m * 0 + y
    BY <1>1, <1>2, <1>5
  <2>2. y % m = y
    BY <2>1, RemainderIs
  <2> QED
    BY <1>2, <1>3, <2>2
<1> QED
  BY <1>1, <1>4, <1>5

\* A summand may be wrapped before it is added.
LEMMA WrapAdd ==
  ASSUME GroupConstants, NEW x \in Int, NEW y \in Int
  PROVE  WrapSum(WrapSum(x) + y) = WrapSum(x + y)
<1>1. PICK m \in Nat \ {0} : m = 2 * SumLimit /\ SumLimit \in Nat \ {0}
  BY DEF GroupConstants
<1>2. PICK z \in Int : z = x + SumLimit
  BY <1>1
<1>3. PICK q \in Int, r \in 0..(m - 1) : z = m * q + r /\ r = z % m
  BY DivideBy
<1>4. WrapSum(x) = r - SumLimit
  BY <1>1, <1>2, <1>3 DEF WrapSum
<1>5. (WrapSum(x) + y) + SumLimit = r + y
  BY <1>1, <1>4
<1>6. (x + y) + SumLimit = m * q + (r + y)
  BY <1>1, <1>2, <1>3
<1>7. PICK w \in Int : w = r + y
  OBVIOUS
<1>8. (m * q + w) % m = w % m
  BY RemainderShift
<1> QED
  BY <1>1, <1>5, <1>6, <1>7, <1>8 DEF WrapSum

\* Either summand may.
LEMMA WrapAddBoth ==
  ASSUME GroupConstants, NEW x \in Int, NEW y \in Int
  PROVE  WrapSum(WrapSum(x) + WrapSum(y)) = WrapSum(x + y)
<1>1. PICK a \in Int : a = WrapSum(x)
  BY WrapFits
<1>2. PICK b \in Int : b = WrapSum(y)
  BY WrapFits
<1>3. WrapSum(a + b) = WrapSum(b + x)
  <2>1. WrapSum(WrapSum(x) + b) = WrapSum(x + b)
    BY WrapAdd
  <2> QED
    BY <1>1, <2>1
<1>4. WrapSum(b + x) = WrapSum(y + x)
  BY <1>2, WrapAdd
<1> QED
  BY <1>1, <1>2, <1>3, <1>4

-----------------------------------------------------------------------------
(* The aggregates of a set of rows P with the values v. *)

ValuesOf(v, P) == {v[p] : p \in P}

\* What the functions should hold for a group with the rows P, by definition.
StateOf(v, P) == [has   |-> P # {},
                  max   |-> IF P = {} THEN 0 ELSE Max(ValuesOf(v, P)),
                  sum   |-> WrapSum(SumOf(v, P)),
                  count |-> Cardinality(P),
                  seen  |-> ValuesOf(v, P)]

GroupState == [has : BOOLEAN, max : Int, sum : Int, count : Nat, seen : SUBSET Int]

\* Rows whose values can be aggregated.
Summable(v, P) == IsFiniteSet(P) /\ \A p \in P : v[p] \in Int

\* The greatest of the values of some rows.
LEMMA GreatestValue ==
  ASSUME NEW v, NEW P, Summable(v, P), P # {}
  PROVE  /\ ValuesOf(v, P) \in SUBSET Int /\ IsFiniteSet(ValuesOf(v, P))
         /\ Max(ValuesOf(v, P)) \in ValuesOf(v, P)
         /\ \A x \in ValuesOf(v, P) : Max(ValuesOf(v, P)) >= x
         /\ Min(ValuesOf(v, P)) \in ValuesOf(v, P)
         /\ \A x \in ValuesOf(v, P) : Min(ValuesOf(v, P)) <= x
<1> DEFINE f == [p \in P |-> v[p]]
<1>1. PICK S : S = ValuesOf(v, P)
  OBVIOUS
<1>2. S \in SUBSET Int /\ S # {}
  BY <1>1 DEF ValuesOf, Summable
<1>3. f \in Surjection(P, S)
  BY <1>1 DEF Surjection, ValuesOf
<1>4. IsFiniteSet(S)
  BY <1>3, FS_Surjection DEF Summable
<1> QED
  BY <1>1, <1>2, <1>4, Extremes

\* No rows.
LEMMA StateOfNone ==
  ASSUME GroupConstants, NEW v
  PROVE  StateOf(v, {}) = Fresh
<1>1. SumOf(v, {}) = 0
  BY SumOfNone
<1>2. WrapSum(0) = 0
  <2>1. 0 \in (-SumLimit)..(SumLimit - 1)
    BY DEF GroupConstants
  <2> QED
    BY <2>1, WrapFits
<1>3. Cardinality({}) = 0 /\ ValuesOf(v, {}) = {}
  BY FS_EmptySet DEF ValuesOf
<1> QED
  BY <1>1, <1>2, <1>3 DEF StateOf, Fresh

\* The aggregates have the types of the state.
LEMMA StateOfType ==
  ASSUME GroupConstants, NEW v, NEW P, Summable(v, P)
  PROVE  StateOf(v, P) \in GroupState /\ SumOf(v, P) \in Int
<1>1. SumOf(v, P) \in Int
  <2>1. IsFiniteSet(P) /\ IsFiniteSet({}) /\ P \cap {} = {} /\ \A p \in P \cup {} : v[p] \in Int
    BY FS_EmptySet DEF Summable
  <2> QED
    BY ONLY <2>1, SumOfUnion
<1>2. WrapSum(SumOf(v, P)) \in Int
  BY <1>1, WrapFits
<1>3. Cardinality(P) \in Nat
  BY FS_CardinalityType DEF Summable
<1>4. ValuesOf(v, P) \in SUBSET Int
  BY DEF ValuesOf, Summable
<1>5. (IF P = {} THEN 0 ELSE Max(ValuesOf(v, P))) \in Int
  BY <1>4, GreatestValue
<1> QED
  BY <1>1, <1>2, <1>3, <1>4, <1>5 DEF StateOf, GroupState

\* The aggregates of two disjoint sets of rows combine to those of their union.
LEMMA CombineStates ==
  ASSUME GroupConstants, NEW v, NEW P, Summable(v, P), NEW Q, Summable(v, Q), P \cap Q = {}
  PROVE  /\ Summable(v, P \cup Q)
         /\ Combine(StateOf(v, P), StateOf(v, Q)) = StateOf(v, P \cup Q)
<1>1. Summable(v, P \cup Q)
  BY FS_Union DEF Summable
<1>2. ValuesOf(v, P \cup Q) = ValuesOf(v, P) \cup ValuesOf(v, Q)
  BY DEF ValuesOf
<1>3. WrapSum(WrapSum(SumOf(v, P)) + WrapSum(SumOf(v, Q))) = WrapSum(SumOf(v, P \cup Q))
  <2>1. /\ SumOf(v, P) \in Int /\ SumOf(v, Q) \in Int
        /\ SumOf(v, P \cup Q) = SumOf(v, P) + SumOf(v, Q)
    BY SumOfUnion DEF Summable
  <2> QED
    BY <2>1, WrapAddBoth
<1>4. Cardinality(P \cup Q) = Cardinality(P) + Cardinality(Q)
  <2>1. Cardinality(P \cap Q) = 0 /\ Cardinality(P) \in Nat /\ Cardinality(Q) \in Nat
    BY FS_EmptySet, FS_CardinalityType DEF Summable
  <2>2. Cardinality(P \cup Q) = Cardinality(P) + Cardinality(Q) - Cardinality(P \cap Q)
    BY FS_Union DEF Summable
  <2> QED
    BY <2>1, <2>2
<1> DEFINE Greatest(S) == IF S = {} THEN 0 ELSE Max(ValuesOf(v, S))
<1>5. (IF Q = {} \/ (P # {} /\ Greatest(P) > Greatest(Q)) THEN Greatest(P) ELSE Greatest(Q))
        = Greatest(P \cup Q)
  <2>1. CASE Q = {}
    BY <2>1
  <2>2. CASE P = {} /\ Q # {}
    BY <2>2
  <2>3. CASE P # {} /\ Q # {}
    <3>1. PICK A, B, x, y : /\ A = ValuesOf(v, P) /\ B = ValuesOf(v, Q)
                            /\ x = Max(A) /\ y = Max(B)
      OBVIOUS
    <3>2. /\ A \in SUBSET Int /\ x \in A /\ \A z \in A : x >= z
          /\ B \in SUBSET Int /\ y \in B /\ \A z \in B : y >= z
      BY <2>3, <3>1, GreatestValue
    <3>3. x > y => Max(A \cup B) = x
      <4> SUFFICES ASSUME x > y
                   PROVE  \A z \in A \cup B : x >= z
        BY <3>2, MaxIs
      <4> QED
        BY <3>2
    <3>4. ~(x > y) => Max(A \cup B) = y
      <4> SUFFICES ASSUME ~(x > y)
                   PROVE  \A z \in A \cup B : y >= z
        BY <3>2, MaxIs
      <4> QED
        BY <3>2
    <3> QED
      BY <1>2, <2>3, <3>1, <3>3, <3>4
  <2> QED
    BY <2>1, <2>2, <2>3
<1>6. P \cup Q # {} <=> P # {} \/ Q # {}
  OBVIOUS
<1>7. Combine(StateOf(v, P), StateOf(v, Q)) =
        [has   |-> P # {} \/ Q # {},
         max   |-> IF Q = {} \/ (P # {} /\ Greatest(P) > Greatest(Q))
                     THEN Greatest(P) ELSE Greatest(Q),
         sum   |-> WrapSum(WrapSum(SumOf(v, P)) + WrapSum(SumOf(v, Q))),
         count |-> Cardinality(P) + Cardinality(Q),
         seen  |-> ValuesOf(v, P) \cup ValuesOf(v, Q)]
  BY DEF Combine, StateOf
<1>8. StateOf(v, P \cup Q) = [has   |-> P \cup Q # {},
                              max   |-> Greatest(P \cup Q),
                              sum   |-> WrapSum(SumOf(v, P \cup Q)),
                              count |-> Cardinality(P \cup Q),
                              seen  |-> ValuesOf(v, P \cup Q)]
  BY DEF StateOf
<1> HIDE DEF Greatest
<1> QED
  BY <1>1, <1>2, <1>3, <1>4, <1>5, <1>6, <1>7, <1>8

\* The aggregates with one row more.
LEMMA AddToState ==
  ASSUME GroupConstants, NEW v, NEW P, Summable(v, P), NEW p, p \notin P, v[p] \in Int
  PROVE  /\ Summable(v, P \cup {p})
         /\ Add(StateOf(v, P), v[p]) = StateOf(v, P \cup {p})
<1>1. Summable(v, {p})
  BY FS_Singleton DEF Summable
<1>2. /\ Summable(v, P \cup {p})
      /\ Combine(StateOf(v, P), StateOf(v, {p})) = StateOf(v, P \cup {p})
  BY <1>1, CombineStates
<1>3. ValuesOf(v, {p}) = {v[p]}
  BY DEF ValuesOf
<1>4. SumOf(v, {p}) = v[p]
  <2>1. IsFiniteSet({}) /\ p \notin {} /\ {} \cup {p} = {p} /\ \A x \in {} \cup {p} : v[x] \in Int
    BY FS_EmptySet
  <2>2. SumOf(v, {} \cup {p}) = SumOf(v, {}) + v[p]
    BY ONLY <2>1, SumOfOneMore
  <2>3. SumOf(v, {p}) = SumOf(v, {}) + v[p]
    BY ONLY <2>1, <2>2, Zenon
  <2>4. SumOf(v, {}) = 0
    BY SumOfNone
  <2> QED
    BY ONLY <2>3, <2>4, v[p] \in Int
<1>5. StateOf(v, {p}) = [has |-> TRUE, max |-> v[p], sum |-> WrapSum(v[p]), count |-> 1, seen |-> {v[p]}]
  <2>1. Max({v[p]}) = v[p]
    BY MaxIs
  <2>2. Cardinality({p}) = 1
    BY FS_Singleton
  <2> QED
    BY <1>3, <1>4, <2>1, <2>2 DEF StateOf
<1>6. PICK s \in GroupState : s = StateOf(v, P)
  BY StateOfType
<1>7. WrapSum(s.sum + WrapSum(v[p])) = WrapSum(s.sum + v[p])
  <2>1. PICK x \in Int, y \in Int : x = v[p] /\ y = s.sum
    BY DEF GroupState
  <2>2. WrapSum(WrapSum(x) + y) = WrapSum(x + y) /\ WrapSum(x) \in Int
    <3>1. WrapSum(WrapSum(x) + y) = WrapSum(x + y)
      BY WrapAdd
    <3>2. WrapSum(x) \in (-SumLimit)..(SumLimit - 1)
      BY WrapFits
    <3> QED
      BY <3>1, <3>2
  <2> QED
    BY <2>1, <2>2
<1>8. Add(s, v[p]) = Combine(s, StateOf(v, {p}))
  <2>1. PICK t : t = StateOf(v, {p})
    OBVIOUS
  <2>2. t.has /\ t.max = v[p] /\ t.count = 1 /\ t.seen = {v[p]} /\ t.sum = WrapSum(v[p])
    BY <1>5, <2>1
  <2>3. s.has \/ t.has <=> TRUE
    BY <2>2
  <2>4. Combine(s, t) = [has |-> s.has \/ t.has,
                         max |-> IF ~t.has \/ (s.has /\ s.max > t.max) THEN s.max ELSE t.max,
                         sum |-> WrapSum(s.sum + t.sum),
                         count |-> s.count + t.count,
                         seen |-> s.seen \cup t.seen]
    BY DEF Combine
  <2> QED
    BY <1>7, <2>1, <2>2, <2>3, <2>4 DEF Add
<1> QED
  BY <1>2, <1>6, <1>8

-----------------------------------------------------------------------------
(* AddRows. *)

\* A row of integers keeps a state a state.
LEMMA AddType ==
  ASSUME GroupConstants, NEW s \in GroupState, NEW x \in Int
  PROVE  Add(s, x) \in GroupState
<1>1. PICK y \in Int : y = s.sum + x
  BY DEF GroupState
<1>2. WrapSum(y) \in Int
  BY WrapFits
<1> QED
  BY <1>1, <1>2 DEF Add, GroupState

\* The functions' states before each row of a batch and behind the last one.
AddsRows(H, ss, b, tab) ==
  /\ H[0] = ss
  /\ \A i \in 1..Len(b) : H[i] = [H[i - 1] EXCEPT ![tab[b[i].key]] = Add(@, b[i].value)]

\* The rows of a batch can be added to n groups: their ids and values are of the type.
AddableTo(n, b, tab) ==
  /\ Len(b) \in Nat
  /\ \A i \in 1..Len(b) : tab[b[i].key] \in 1..n /\ b[i].value \in Int

\* AddRows is defined, row by row.
LEMMA AddRowsIs ==
  ASSUME GroupConstants, NEW n \in Nat, NEW ss \in [1..n -> GroupState], NEW b, NEW tab,
         AddableTo(n, b, tab)
  PROVE  \E H : AddsRows(H, ss, b, tab) /\ AddRows(ss, b, tab) = H[Len(b)]
<1> DEFINE X == [1..n -> GroupState]
           After(x, i) == [x EXCEPT ![tab[b[i].key]] = Add(@, b[i].value)]
           g == [i \in 1..Len(b) |-> [x \in X |-> After(x, i)]]
           Is(F) == F = [i \in 0..Len(b) |-> IF i = 0 THEN ss ELSE After(F[i - 1], i)]
           H == CHOOSE F : Is(F)
<1>1. ASSUME NEW i \in 1..Len(b), NEW x \in X
      PROVE  After(x, i) \in X
  <2>1. PICK k \in 1..n, w \in Int : k = tab[b[i].key] /\ w = b[i].value
    BY DEF AddableTo
  <2>2. Add(x[k], w) \in GroupState
    BY AddType
  <2> QED
    BY <2>1, <2>2
<1>2. g \in [1..Len(b) -> [X -> X]]
  BY <1>1
<1>3. \A i \in 1..Len(b), x \in X : g[i][x] = After(x, i)
  OBVIOUS
<1> HIDE DEF g, After
<1>4. PICK F \in [0..Len(b) -> X] :
        F[0] = ss /\ \A i \in 1..Len(b) : F[i] = g[i][F[i - 1]]
  <2>1. Len(b) \in Nat /\ ss \in X
    BY DEF AddableTo
  <2> HIDE DEF X
  <2>2. PICK m \in Nat : m = Len(b)
    BY <2>1
  <2>3. g \in [1..m -> [X -> X]]
    BY <1>2, <2>2
  <2>4. \E F \in [0..m -> X] : Recurs(F, m, ss, g)
    BY <2>1, <2>3, RecursionExists
  <2> QED
    BY <2>2, <2>4 DEF Recurs
<1>5. \A i \in 1..Len(b) : F[i] = After(F[i - 1], i)
  <2>1. \A i \in 1..Len(b) : i - 1 \in 0..Len(b)
    BY DEF AddableTo
  <2> QED
    BY <1>3, <1>4, <2>1
<1>6. Is(F)
  <2>1. \A i \in 0..Len(b) : F[i] = IF i = 0 THEN ss ELSE After(F[i - 1], i)
    <3>1. \A i \in 0..Len(b) : i = 0 \/ i \in 1..Len(b)
      BY DEF AddableTo
    <3> QED
      BY <1>4, <1>5, <3>1
  <2>2. F = [i \in 0..Len(b) |-> F[i]]
    BY <1>4
  <2> QED
    BY <2>1, <2>2, Zenon
<1>7. Is(H)
  BY <1>6
<1> HIDE DEF H
<1>8. AddsRows(H, ss, b, tab)
  <2>1. \A i \in 0..Len(b) : H[i] = IF i = 0 THEN ss ELSE After(H[i - 1], i)
    BY <1>7, Zenon
  <2>2. 0 \in 0..Len(b) /\ \A i \in 1..Len(b) : i \in 0..Len(b) /\ i # 0
    BY DEF AddableTo
  <2>3. H[0] = ss /\ \A i \in 1..Len(b) : H[i] = After(H[i - 1], i)
    BY <2>1, <2>2
  <2> QED
    BY <2>3 DEF AddsRows, After
<1>9. AddRows(ss, b, tab) = H[Len(b)]
  BY DEF AddRows, H, After
<1> QED
  BY <1>8, <1>9

\* The places of the first k rows of batch c, which is b, that belong to group g.
RowsOfGroup(c, b, tab, g, k) == {<<c, i>> : i \in {j \in 1..k : tab[b[j].key] = g}}

\* Each of the n groups has the aggregates of the rows P[g].
Represents(ss, v, P, n) == \A g \in 1..n : Summable(v, P[g]) /\ ss[g] = StateOf(v, P[g])

\* The rows of batch c, which is b, have the values v and are in none of the P[g].
NewRows(v, P, c, b, n) ==
  \A i \in 1..Len(b) : v[<<c, i>>] = b[i].value /\ \A g \in 1..n : <<c, i>> \notin P[g]

\* The rows P[g] of each group and those it has in batch c, which is b.
WithBatch(P, n, c, b, tab) == [g \in 1..n |-> P[g] \cup RowsOfGroup(c, b, tab, g, Len(b))]

\* If group g has the aggregates of the rows P[g], then after a batch those of
\* P[g] and of the group's rows in the batch.
LEMMA AddRowsGives ==
  ASSUME GroupConstants, NEW n \in Nat, NEW ss \in [1..n -> GroupState], NEW b, NEW tab,
         AddableTo(n, b, tab), NEW v, NEW P, NEW c, Represents(ss, v, P, n), NewRows(v, P, c, b, n)
  PROVE  /\ AddRows(ss, b, tab) \in [1..n -> GroupState]
         /\ Represents(AddRows(ss, b, tab), v, WithBatch(P, n, c, b, tab), n)
<1>1. PICK H : AddsRows(H, ss, b, tab) /\ AddRows(ss, b, tab) = H[Len(b)]
  BY AddRowsIs
<1> DEFINE Upto(g, k) == P[g] \cup RowsOfGroup(c, b, tab, g, k)
           Right(k) == /\ H[k] \in [1..n -> GroupState]
                       /\ \A g \in 1..n : /\ Summable(v, Upto(g, k))
                                          /\ H[k][g] = StateOf(v, Upto(g, k))
           T == {k \in Nat : k <= Len(b) => Right(k)}
<1>2. 0 \in T
  <2>1. \A g \in 1..n : Upto(g, 0) = P[g]
    BY DEF RowsOfGroup
  <2> QED
    BY <1>1, <2>1 DEF AddsRows, Represents
<1>3. ASSUME NEW k \in Nat, k \in T, k + 1 <= Len(b)
      PROVE  Right(k + 1)
  <2>1. PICK i \in 1..Len(b) : i = k + 1
    BY <1>3 DEF AddableTo
  <2>2. PICK h, w, p : h = tab[b[i].key] /\ w = b[i].value /\ p = <<c, i>>
    OBVIOUS
  <2>3. h \in 1..n /\ w \in Int /\ v[p] = w /\ \A g \in 1..n : p \notin P[g]
    BY <2>2 DEF AddableTo, NewRows
  <2>4. Right(k)
    <3> HIDE DEF Right
    <3>1. k <= Len(b)
      BY <1>3 DEF AddableTo
    <3> QED
      BY <1>3, <3>1
  <2>5. H[k + 1] = [H[k] EXCEPT ![h] = Add(@, w)]
    <3>1. i - 1 = k
      BY <2>1
    <3>2. H[i] = [H[i - 1] EXCEPT ![tab[b[i].key]] = Add(@, b[i].value)]
      BY <1>1 DEF AddsRows
    <3> QED
      BY <2>1, <2>2, <3>1, <3>2
  <2>6. \A g \in 1..n : Upto(g, k + 1) = IF g = h THEN Upto(g, k) \cup {p} ELSE Upto(g, k)
    <3>1. \A j : j \in 1..(k + 1) <=> j \in 1..k \/ j = i
      BY <2>1
    <3> QED
      BY <2>2, <3>1 DEF RowsOfGroup
  <2>7. p \notin Upto(h, k)
    <3>1. i \notin 1..k
      BY <2>1
    <3> QED
      BY <2>2, <2>3, <3>1 DEF RowsOfGroup
  <2> HIDE DEF Upto
  <2>8. Summable(v, Upto(h, k) \cup {p}) /\ Add(H[k][h], w) = StateOf(v, Upto(h, k) \cup {p})
    BY <2>3, <2>4, <2>7, AddToState
  <2>9. Add(H[k][h], w) \in GroupState
    BY <2>3, <2>4, AddType
  <2>10. H[k + 1] \in [1..n -> GroupState]
    BY <2>3, <2>4, <2>5, <2>9
  <2>11. ASSUME NEW g \in 1..n
         PROVE  Summable(v, Upto(g, k + 1)) /\ H[k + 1][g] = StateOf(v, Upto(g, k + 1))
    <3>1. CASE g = h
      <4>1. H[k + 1][h] = Add(H[k][h], w)
        BY <2>3, <2>4, <2>5
      <4> QED
        BY <2>6, <2>8, <3>1, <4>1
    <3>2. CASE g # h
      <4>1. H[k + 1][g] = H[k][g]
        BY <2>4, <2>5, <3>2
      <4> QED
        BY <2>4, <2>6, <3>2, <4>1
    <3> QED
      BY <3>1, <3>2
  <2> QED
    BY <2>10, <2>11
<1> HIDE DEF Right
<1>4. \A k \in Nat : k \in T
  <2>1. \A k \in Nat : k \in T => k + 1 \in T
    BY <1>3
  <2> HIDE DEF T
  <2> QED
    BY <1>2, <2>1, SetInduction
<1>5. Right(Len(b))
  BY <1>4 DEF AddableTo
<1> QED
  BY <1>1, <1>5 DEF Right, Represents, WithBatch

-----------------------------------------------------------------------------
(* GroupBy: the invariant. *)

Sunk == RowsOf(DOMAIN input \ todo)

\* The values of the rows, by place.
RowValues == [p \in RowsOf(DOMAIN input) |-> RowAt(p).value]

GroupTypes ==
  /\ input \in Inputs
  /\ todo \subseteq DOMAIN input
  /\ from \in 0..(NumThreads + 1) /\ from # 1
  /\ from # 0 => todo = {}
  /\ left \subseteq IF from \in ThreadIds THEN DOMAIN table[from] ELSE {}
  /\ DOMAIN table = ThreadIds
  /\ numGroups \in [ThreadIds -> Nat]
  /\ keys \in [ThreadIds -> Seq(KeysOf(DOMAIN input))]
  /\ DOMAIN states = ThreadIds
  /\ \A t \in ThreadIds : states[t] \in [1..numGroups[t] -> GroupState]

\* Each of the n groups with the keys ks has its position as its id in the table.
Placed(tab, ks, n) ==
  /\ Len(ks) = n
  /\ IsInjective(ks)
  /\ \A k \in DOMAIN tab : tab[k] \in 1..n /\ ks[tab[k]] = k

\* The tables not yet cleared have all groups.
Complete(tab, ks, n) == \A g \in 1..n : ks[g] \in DOMAIN tab

TablesAgree ==
  \A t \in ThreadIds :
    /\ Placed(table[t], keys[t], numGroups[t])
    /\ DOMAIN table[t] \subseteq KeysOf(DOMAIN input \ todo)
    /\ t = 1 \/ from = 0 \/ t >= from => Complete(table[t], keys[t], numGroups[t])

\* Has thread t a group k that Finalize has not merged into the first thread's?
Waiting(t, k) == /\ k \in DOMAIN table[t]
                 /\ t = 1 \/ from = 0 \/ t > from \/ (t = from /\ k \in left)

\* The rows of key k that belong to thread t, if row p belongs to own[p].
Share(own, t, k) == {p \in Sunk : own[p] = t /\ RowAt(p).key = k}

\* Every row sunk belongs to a thread which has its group, and every group is
\* what the aggregates of its thread's rows are by definition.
Accounts(own) ==
  /\ own \in [Sunk -> ThreadIds]
  /\ \A p \in Sunk : Waiting(own[p], RowAt(p).key)
  /\ \A t \in ThreadIds : \A k \in DOMAIN table[t] :
       Waiting(t, k) =>
         /\ Summable(RowValues, Share(own, t, k))
         /\ states[t][table[t][k]] = StateOf(RowValues, Share(own, t, k))

\* The result is what the first thread has.
ResultShown ==
  result = IF from \in 0..NumThreads THEN <<>>
           ELSE [g \in 1..numGroups[1] |-> [key |-> keys[1][g], state |-> states[1][g]]]

GroupInv == GroupTypes /\ TablesAgree /\ (\E own : Accounts(own)) /\ ResultShown

-----------------------------------------------------------------------------
(* Rows and keys. *)

\* A row of some batches is in one of them.
LEMMA RowIsIn ==
  ASSUME NEW B, NEW p
  PROVE  p \in RowsOf(B) <=> \E b \in B : \E i \in DOMAIN input[b] : p = <<b, i>>
BY DEF RowsOf

\* A batch is a sequence of rows whose values fit the type of a sum.
LEMMA BatchIs ==
  ASSUME GroupConstants, input \in Inputs, NEW b \in DOMAIN input
  PROVE  /\ Len(input[b]) \in Nat /\ DOMAIN input[b] = 1..Len(input[b])
         /\ \A i \in DOMAIN input[b] : input[b][i].value \in (-SumLimit)..(SumLimit - 1)
         /\ \A i \in DOMAIN input[b] : input[b][i].value \in Int
<1>1. /\ input[b] \in Seq(Range(input[b]))
      /\ \A q \in Range(input[b]) : q.value \in (-SumLimit)..(SumLimit - 1)
  BY DEF GroupConstants
<1>2. PICK s, R : s = input[b] /\ R = Range(input[b])
  OBVIOUS
<1>3. s \in Seq(R)
  BY <1>1, <1>2
<1>4. Len(s) \in Nat /\ DOMAIN s = 1..Len(s)
  BY <1>3, LenProperties
<1>5. \A i \in DOMAIN s : s[i] \in Range(s)
  BY DEF Range
<1>6. \A i \in DOMAIN s : s[i].value \in (-SumLimit)..(SumLimit - 1)
  BY <1>1, <1>2, <1>5
<1>7. \A x \in (-SumLimit)..(SumLimit - 1) : x \in Int
  OBVIOUS
<1> QED
  BY <1>2, <1>4, <1>6, <1>7

\* The rows of one batch more, and their keys.
LEMMA RowsWithBatch ==
  ASSUME NEW B, NEW b
  PROVE  /\ RowsOf(B \cup {b}) = RowsOf(B) \cup {<<b, i>> : i \in DOMAIN input[b]}
         /\ KeysOf(B) \subseteq KeysOf(B \cup {b})
         /\ \A i \in DOMAIN input[b] : input[b][i].key \in KeysOf(B \cup {b})
<1>1. RowsOf(B \cup {b}) = RowsOf(B) \cup {<<b, i>> : i \in DOMAIN input[b]}
  <2>1. ASSUME NEW p
        PROVE  p \in RowsOf(B \cup {b}) <=> p \in RowsOf(B) \cup {<<b, i>> : i \in DOMAIN input[b]}
    BY RowIsIn
  <2> QED
    BY <2>1
<1>2. \A i \in DOMAIN input[b] : RowAt(<<b, i>>) = input[b][i]
  BY DEF RowAt
<1> QED
  BY <1>1, <1>2 DEF KeysOf

\* The sequence new has the m members of S, each once.
OneEach(new, m, S) == /\ new \in Seq(S) /\ Len(new) = m /\ DOMAIN new = 1..m
                      /\ \A i, j \in 1..m : new[i] = new[j] => i = j
                      /\ ToSet(new) = S

\* A batch: a sequence.
Finite(b) == Len(b) \in Nat /\ DOMAIN b = 1..Len(b)

\* The new keys of a batch, each once.
LEMMA NewKeysAre ==
  ASSUME NEW b, NEW tab, Finite(b), NEW new, new \in NewKeys(b, tab)
  PROVE  \E m \in Nat : OneEach(new, m, {b[i].key : i \in DOMAIN b} \ DOMAIN tab)
<1> DEFINE k == [i \in DOMAIN b |-> b[i].key]
<1>1. PICK S : S = {b[i].key : i \in DOMAIN b} \ DOMAIN tab
  OBVIOUS
<1>2. IsFiniteSet(S)
  <2>1. {b[i].key : i \in DOMAIN b} = {k[i] : i \in 1..Len(b)}
    BY Zenon DEF Finite
  <2>2. IsFiniteSet({k[i] : i \in 1..Len(b)})
    BY FirstElements DEF Finite
  <2> QED
    BY <1>1, <2>1, <2>2, FS_Subset
<1>3. PICK m \in Nat : m = Cardinality(S)
  BY <1>2, FS_CardinalityType
<1>4. new \in [1..m -> S] /\ \A i, j \in 1..m : i # j => new[i] # new[j]
  <2>1. new \in SetToSeqs(S)
    BY <1>1 DEF NewKeys
  <2> QED
    BY <1>3, <2>1 DEF SetToSeqs
<1>5. \A i, j \in 1..m : new[i] = new[j] => i = j
  BY <1>4
<1>6. DOMAIN new = 1..m /\ new \in Seq(S)
  BY <1>4, SeqDef
<1>7. Len(new) = m
  BY <1>6, LenProperties
<1>8. ToSet(new) = S
  <2>1. Cardinality({new[i] : i \in 1..m}) = m
    BY <1>5, FirstElements
  <2>2. {new[i] : i \in 1..m} \in SUBSET S
    BY <1>4
  <2>3. {new[i] : i \in 1..m} = S
    BY <1>2, <1>3, <2>1, <2>2, FS_Subset
  <2> QED
    BY <1>6, <2>3 DEF ToSet
<1> QED
  BY <1>1, <1>3, <1>5, <1>6, <1>7, <1>8 DEF OneEach

-----------------------------------------------------------------------------
(* A table that grows. *)

\* The table tab of n groups with the groups of the new keys behind them.
Extended(tab, n, new) ==
  [k \in DOMAIN tab \cup ToSet(new) |->
     IF k \in DOMAIN tab THEN tab[k] ELSE n + CHOOSE i \in DOMAIN new : new[i] = k]

\* Of the n2 groups with the keys all, the first n have the keys ks and are the
\* ones of the table tab.
Continues(all, n2, ks, n, tab) ==
  /\ \A g \in 1..n : all[g] = ks[g]
  /\ \A g \in 1..n2 : g \notin 1..n => all[g] \notin DOMAIN tab

\* The groups with new keys are put behind the others.
LEMMA TableGrows ==
  ASSUME NEW K, NEW ks \in Seq(K), NEW tab, NEW n \in Nat,
         Placed(tab, ks, n), Complete(tab, ks, n),
         NEW m \in Nat, NEW S, S \subseteq K, NEW new, OneEach(new, m, S), S \cap DOMAIN tab = {}
  PROVE  /\ ks \o new \in Seq(K)
         /\ Placed(Extended(tab, n, new), ks \o new, n + m)
         /\ Complete(Extended(tab, n, new), ks \o new, n + m)
         /\ Continues(ks \o new, n + m, ks, n, tab)
<1>1. PICK all : all = ks \o new
  OBVIOUS
<1>0. /\ new \in Seq(K) /\ Len(new) = m /\ DOMAIN new = 1..m
      /\ \A i, j \in 1..m : new[i] = new[j] => i = j
      /\ ToSet(new) \cap DOMAIN tab = {}
  <2>1. new \in Seq(K)
    <3>1. new \in [1..m -> S]
      <4>1. /\ Len(new) = m /\ DOMAIN new = 1..m /\ ToSet(new) = S /\ new \in Seq(S)
        BY DEF OneEach
      <4>2. \A i \in 1..m : new[i] \in S
        BY <4>1 DEF ToSet
      <4>3. new = [i \in 1..m |-> new[i]]
        BY <4>1, SeqDef
      <4> QED
        BY <4>2, <4>3
    <3> QED
      BY <3>1, SeqDef
  <2> QED
    BY <2>1 DEF OneEach
<1> PICK tab2 : tab2 = Extended(tab, n, new)
  OBVIOUS
<1>9. tab2 = [k \in DOMAIN tab \cup ToSet(new) |->
                IF k \in DOMAIN tab THEN tab[k] ELSE n + CHOOSE i \in DOMAIN new : new[i] = k]
  BY DEF Extended
<1>2. /\ all \in Seq(K) /\ Len(all) = n + m /\ DOMAIN all = 1..(n + m)
      /\ \A g \in 1..n : all[g] = ks[g]
      /\ \A i \in 1..m : all[n + i] = new[i]
  <2>1. Len(ks) = n
    BY DEF Placed
  <2>2. /\ all \in Seq(K) /\ Len(all) = n + m
        /\ \A i \in 1..(n + m) : all[i] = IF i <= n THEN ks[i] ELSE new[i - n]
    <3>1. /\ ks \o new \in Seq(K) /\ Len(ks \o new) = Len(ks) + Len(new)
          /\ \A i \in 1..(Len(ks) + Len(new)) :
               (ks \o new)[i] = IF i <= Len(ks) THEN ks[i] ELSE new[i - Len(ks)]
      <4>1. ks \in Seq(K) /\ new \in Seq(K)
        BY <1>0
      <4> QED
        BY ONLY <4>1, ConcatProperties
    <3>2. Len(new) = m
      BY <1>0
    <3> QED
      BY ONLY <1>1, <2>1, <3>1, <3>2
  <2>3. DOMAIN all = 1..(n + m)
    BY <2>2, LenProperties
  <2>4. \A g \in 1..n : all[g] = ks[g]
    BY <2>2
  <2>5. ASSUME NEW i \in 1..m
        PROVE  all[n + i] = new[i]
    <3>1. PICK g \in 1..(n + m) : g = n + i /\ ~(g <= n) /\ g - n = i
      OBVIOUS
    <3> QED
      BY <2>2, <3>1
  <2> QED
    BY <2>2, <2>3, <2>4, <2>5
<1>3. ASSUME NEW g \in 1..(n + m)
      PROVE  \/ g \in 1..n /\ all[g] = ks[g] /\ all[g] \in DOMAIN tab
             \/ \E i \in 1..m : g = n + i /\ all[g] = new[i] /\ all[g] \in ToSet(new)
  <2>1. CASE g \in 1..n
    BY <1>2, <2>1 DEF Complete
  <2>2. CASE g \notin 1..n
    <3>1. PICK i \in 1..m : g = n + i
      BY <2>2
    <3>2. new[i] \in ToSet(new)
      BY <1>0, Zenon DEF ToSet
    <3>3. all[n + i] = new[i]
      BY <1>2
    <3> QED
      BY <3>1, <3>2, <3>3
  <2> QED
    BY <2>1, <2>2
<1>4. Complete(tab2, all, n + m)
  BY <1>3, <1>9 DEF Complete
<1>5. ASSUME NEW k \in DOMAIN tab2
      PROVE  tab2[k] \in 1..(n + m) /\ all[tab2[k]] = k
  <2>1. CASE k \in DOMAIN tab
    <3>1. tab2[k] = tab[k] /\ tab[k] \in 1..n /\ ks[tab[k]] = k
      BY <1>9, <2>1 DEF Placed
    <3> QED
      BY <1>2, <3>1
  <2>2. CASE k \notin DOMAIN tab
    <3>1. k \in ToSet(new)
      BY <1>5, <1>9, <2>2
    <3>2. \E j \in DOMAIN new : new[j] = k
      BY <3>1 DEF ToSet
    <3>3. PICK i : i = CHOOSE j \in DOMAIN new : new[j] = k
      OBVIOUS
    <3>4. i \in 1..m /\ new[i] = k
      BY <1>0, <3>2, <3>3
    <3>5. tab2[k] = n + i
      BY <1>5, <1>9, <2>2, <3>3
    <3> QED
      BY <1>2, <3>4, <3>5
  <2> QED
    BY <2>1, <2>2
<1>6. IsInjective(all)
  <2> SUFFICES ASSUME NEW g \in 1..(n + m), NEW h \in 1..(n + m), all[g] = all[h]
               PROVE  g = h
    BY <1>2 DEF IsInjective
  <2>1. CASE g \in 1..n /\ h \in 1..n
    <3>1. DOMAIN ks = 1..n
      BY LenProperties DEF Placed
    <3>2. ks[g] = ks[h]
      BY <1>2, <2>1
    <3>3. IsInjective(ks)
      BY DEF Placed
    <3> QED
      BY <2>1, <3>1, <3>2, <3>3 DEF IsInjective
  <2>2. CASE ~(g \in 1..n) /\ ~(h \in 1..n)
    BY <1>0, <1>3, <2>2
  <2> QED
    BY <1>0, <1>3, <2>1, <2>2
<1>7. Placed(tab2, all, n + m)
  BY <1>2, <1>5, <1>6 DEF Placed
<1>8. \A g \in 1..(n + m) : g \notin 1..n => all[g] \notin DOMAIN tab
  BY <1>0, <1>3
<1> QED
  BY <1>1, <1>2, <1>4, <1>7, <1>8 DEF Continues

-----------------------------------------------------------------------------
(* GroupBy: the steps. *)

\* The states of new groups are fresh.
LEMMA ResizeType ==
  ASSUME GroupConstants, NEW n \in Nat, NEW m \in Nat, NEW ss \in [1..n -> GroupState], n <= m
  PROVE  /\ Resize(ss, m) \in [1..m -> GroupState]
         /\ \A g \in 1..m : Resize(ss, m)[g] = IF g \in 1..n THEN ss[g] ELSE Fresh
<1>1. Fresh \in GroupState
  BY DEF Fresh, GroupState
<1>2. DOMAIN ss = 1..n
  OBVIOUS
<1> QED
  BY <1>1, <1>2 DEF Resize

\* A thread has a state for every group it has not cleared, and rows for no other.
LEMMA GroupsOfThread ==
  ASSUME GroupInv, NEW own, Accounts(own), NEW t \in ThreadIds, t = 1 \/ from = 0
  PROVE  /\ \A g \in 1..numGroups[t] :
              /\ table[t][keys[t][g]] = g
              /\ Summable(RowValues, Share(own, t, keys[t][g]))
              /\ states[t][g] = StateOf(RowValues, Share(own, t, keys[t][g]))
         /\ \A k : k \notin DOMAIN table[t] => Share(own, t, k) = {}
<1>1. ASSUME NEW g \in 1..numGroups[t]
      PROVE  /\ table[t][keys[t][g]] = g
             /\ Summable(RowValues, Share(own, t, keys[t][g]))
             /\ states[t][g] = StateOf(RowValues, Share(own, t, keys[t][g]))
  <2>1. PICK k : k = keys[t][g]
    OBVIOUS
  <2>2. k \in DOMAIN table[t]
    BY <2>1 DEF GroupInv, TablesAgree, Complete
  <2>3. table[t][k] \in 1..numGroups[t] /\ keys[t][table[t][k]] = keys[t][g] /\ IsInjective(keys[t])
    BY <2>1, <2>2 DEF GroupInv, TablesAgree, Placed
  <2>4. DOMAIN keys[t] = 1..numGroups[t]
    BY LenProperties DEF GroupInv, GroupTypes, TablesAgree, Placed
  <2>5. table[t][k] = g
    BY <2>3, <2>4 DEF IsInjective
  <2>6. Waiting(t, k)
    BY <2>2 DEF Waiting
  <2> QED
    BY <2>1, <2>2, <2>5, <2>6 DEF Accounts
<1>2. ASSUME NEW k, k \notin DOMAIN table[t]
      PROVE  Share(own, t, k) = {}
  BY <1>2 DEF Share, Accounts, Waiting
<1> QED
  BY <1>1, <1>2

\* A batch is sunk: its rows belong to the thread that sinks it.
LEMMA SinkKeepsGroups ==
  ASSUME GroupConstants, GroupInv, NEW t \in ThreadIds, Sink(t)
  PROVE  GroupInv'
<1>1. PICK b \in todo : \E new \in NewKeys(input[b], table[t]) :
        LET n == numGroups[t] + Len(new)
            tab == [k \in DOMAIN table[t] \cup ToSet(new) |->
                      IF k \in DOMAIN table[t] THEN table[t][k]
                      ELSE numGroups[t] + CHOOSE i \in DOMAIN new : new[i] = k]
        IN /\ from = 0
           /\ todo' = todo \ {b}
           /\ table' = [table EXCEPT ![t] = tab]
           /\ numGroups' = [numGroups EXCEPT ![t] = n]
           /\ keys' = [keys EXCEPT ![t] = @ \o new]
           /\ states' = [states EXCEPT ![t] = AddRows(Resize(@, n), input[b], tab)]
           /\ UNCHANGED <<input, from, left, result>>
  BY DEF Sink
<1>2. PICK bb : bb = input[b]
  OBVIOUS
<1>3. PICK new \in NewKeys(bb, table[t]) :
        LET n == numGroups[t] + Len(new)
            tab == [k \in DOMAIN table[t] \cup ToSet(new) |->
                      IF k \in DOMAIN table[t] THEN table[t][k]
                      ELSE numGroups[t] + CHOOSE i \in DOMAIN new : new[i] = k]
        IN /\ from = 0
           /\ todo' = todo \ {b}
           /\ table' = [table EXCEPT ![t] = tab]
           /\ numGroups' = [numGroups EXCEPT ![t] = n]
           /\ keys' = [keys EXCEPT ![t] = @ \o new]
           /\ states' = [states EXCEPT ![t] = AddRows(Resize(@, n), bb, tab)]
           /\ UNCHANGED <<input, from, left, result>>
  BY <1>1, <1>2
<1>4. PICK tab : tab = Extended(table[t], numGroups[t], new)
  OBVIOUS
<1>5. PICK n0, n, all, ss : /\ n0 = numGroups[t] /\ n = numGroups[t] + Len(new)
                            /\ all = keys[t] \o new /\ ss = Resize(states[t], n)
  OBVIOUS
<1>6. /\ from = 0 /\ todo' = todo \ {b}
      /\ table' = [table EXCEPT ![t] = tab]
      /\ numGroups' = [numGroups EXCEPT ![t] = n]
      /\ keys' = [keys EXCEPT ![t] = all]
      /\ states' = [states EXCEPT ![t] = AddRows(ss, bb, tab)]
      /\ input' = input /\ from' = from /\ left' = left /\ result' = result
  BY <1>3, <1>4, <1>5 DEF Extended
<1>7. /\ input \in Inputs /\ todo \subseteq DOMAIN input /\ b \in DOMAIN input
      /\ n0 \in Nat /\ keys[t] \in Seq(KeysOf(DOMAIN input))
      /\ states[t] \in [1..n0 -> GroupState]
      /\ Placed(table[t], keys[t], n0) /\ Complete(table[t], keys[t], n0)
      /\ DOMAIN table[t] \subseteq KeysOf(DOMAIN input \ todo)
  BY <1>5, <1>6 DEF GroupInv, GroupTypes, TablesAgree
<1>8. /\ Len(bb) \in Nat /\ DOMAIN bb = 1..Len(bb)
      /\ \A i \in DOMAIN bb : bb[i].value \in Int
  BY <1>2, <1>7, BatchIs
<1> DEFINE BatchKeys == {bb[i].key : i \in DOMAIN bb}
<1>9. PICK m \in Nat : OneEach(new, m, BatchKeys \ DOMAIN table[t])
  <2>1. PICK tb : tb = table[t]
    OBVIOUS
  <2>2. Finite(bb) /\ new \in NewKeys(bb, tb)
    BY <1>3, <1>8, <2>1 DEF Finite
  <2>3. \E m \in Nat : OneEach(new, m, BatchKeys \ DOMAIN tb)
    BY ONLY <2>2, NewKeysAre
  <2> QED
    BY <2>1, <2>3
<1> HIDE DEF BatchKeys
<1>10. /\ RowsOf((DOMAIN input \ todo) \cup {b})
            = RowsOf(DOMAIN input \ todo) \cup {<<b, i>> : i \in DOMAIN bb}
       /\ KeysOf(DOMAIN input \ todo) \subseteq KeysOf((DOMAIN input \ todo) \cup {b})
       /\ \A i \in DOMAIN bb : bb[i].key \in KeysOf((DOMAIN input \ todo) \cup {b})
  BY <1>2, RowsWithBatch
<1>11. /\ \A i \in DOMAIN bb : <<b, i>> \in RowsOf(DOMAIN input) /\ <<b, i>> \notin Sunk
       /\ \A i \in DOMAIN bb : RowAt(<<b, i>>) = bb[i]
  BY <1>2, <1>7, RowIsIn DEF Sunk, RowAt
<1>12. BatchKeys \ DOMAIN table[t] \subseteq KeysOf(DOMAIN input)
  BY <1>11 DEF KeysOf, BatchKeys
<1>13. n = n0 + m /\ n \in Nat /\ n0 <= n /\ ToSet(new) = BatchKeys \ DOMAIN table[t]
  BY <1>5, <1>7, <1>9 DEF OneEach
<1>14. /\ all \in Seq(KeysOf(DOMAIN input))
       /\ Placed(tab, all, n) /\ Complete(tab, all, n)
       /\ Continues(all, n, keys[t], n0, table[t])
  <2>1. PICK ks, tb, K, S : /\ ks = keys[t] /\ tb = table[t] /\ K = KeysOf(DOMAIN input)
                            /\ S = BatchKeys \ DOMAIN table[t]
    OBVIOUS
  <2>2. /\ ks \in Seq(K) /\ n0 \in Nat /\ m \in Nat /\ Placed(tb, ks, n0) /\ Complete(tb, ks, n0)
        /\ S \subseteq K /\ OneEach(new, m, S) /\ S \cap DOMAIN tb = {}
    BY <1>7, <1>9, <1>12, <2>1
  <2>3. /\ ks \o new \in Seq(K)
        /\ Placed(Extended(tb, n0, new), ks \o new, n0 + m)
        /\ Complete(Extended(tb, n0, new), ks \o new, n0 + m)
        /\ Continues(ks \o new, n0 + m, ks, n0, tb)
    BY ONLY <2>2, TableGrows
  <2> QED
    BY <1>4, <1>5, <1>13, <2>1, <2>3
<1>15. /\ DOMAIN tab = DOMAIN table[t] \cup BatchKeys
       /\ \A i \in DOMAIN bb : bb[i].key \in BatchKeys
       /\ DOMAIN tab \subseteq KeysOf((DOMAIN input \ todo) \cup {b})
  <2>1. DOMAIN tab = DOMAIN table[t] \cup BatchKeys
    BY <1>4, <1>13 DEF Extended
  <2> QED
    BY <1>7, <1>10, <2>1 DEF BatchKeys
<1>16. AddableTo(n, bb, tab)
  BY <1>8, <1>14, <1>15 DEF AddableTo, Placed
<1>17. PICK own : Accounts(own)
  BY DEF GroupInv
<1> DEFINE P == [g \in 1..n |-> Share(own, t, all[g])]
<1>18. ss \in [1..n -> GroupState] /\ \A g \in 1..n : ss[g] = IF g \in 1..n0 THEN states[t][g] ELSE Fresh
  <2>1. PICK sts : sts = states[t]
    OBVIOUS
  <2>2. sts \in [1..n0 -> GroupState] /\ n0 \in Nat /\ n \in Nat /\ n0 <= n /\ ss = Resize(sts, n)
    BY <1>5, <1>7, <1>13, <2>1
  <2> QED
    BY ONLY GroupConstants, <2>1, <2>2, ResizeType
<1>19. ASSUME NEW g \in 1..n
       PROVE  Summable(RowValues, P[g]) /\ ss[g] = StateOf(RowValues, P[g])
  <2>1. CASE g \in 1..n0
    <3>1. all[g] = keys[t][g]
      BY <1>14, <2>1 DEF Continues
    <3>2. P[g] = Share(own, t, keys[t][g])
      BY <3>1
    <3>3. /\ Summable(RowValues, Share(own, t, keys[t][g]))
          /\ states[t][g] = StateOf(RowValues, Share(own, t, keys[t][g]))
      <4> HIDE DEF P
      <4> QED
        BY <1>5, <1>6, <1>17, <2>1, GroupsOfThread
    <3> HIDE DEF P
    <3> QED
      BY <1>18, <2>1, <3>2, <3>3
  <2>2. CASE g \notin 1..n0
    <3>1. P[g] = {}
      <4>1. all[g] \notin DOMAIN table[t]
        BY <1>14, <2>2 DEF Continues
      <4>2. Share(own, t, all[g]) = {}
        <5> HIDE DEF P
        <5> QED
          BY <1>6, <1>17, <4>1, GroupsOfThread
      <4> QED
        BY <4>2
    <3>2. Summable(RowValues, {}) /\ StateOf(RowValues, {}) = Fresh
      BY FS_EmptySet, StateOfNone DEF Summable
    <3> QED
      BY <1>18, <2>2, <3>1, <3>2
  <2> QED
    BY <2>1, <2>2
<1>20. ASSUME NEW i \in 1..Len(bb)
       PROVE  /\ RowValues[<<b, i>>] = bb[i].value
              /\ \A g \in 1..n : <<b, i>> \notin P[g]
  <2>1. <<b, i>> \in RowsOf(DOMAIN input) /\ <<b, i>> \notin Sunk /\ RowAt(<<b, i>>) = bb[i]
    BY <1>8, <1>11
  <2>2. \A g \in 1..n : P[g] \subseteq Sunk
    BY DEF Share
  <2> HIDE DEF P
  <2> QED
    BY <2>1, <2>2 DEF RowValues
<1>34. \A g \in 1..n : P[g] = Share(own, t, all[g])
  OBVIOUS
<1> HIDE DEF P
<1>21. PICK st : st = AddRows(ss, bb, tab)
  OBVIOUS
<1>22. /\ st \in [1..n -> GroupState]
       /\ \A g \in 1..n :
            /\ Summable(RowValues, P[g] \cup RowsOfGroup(b, bb, tab, g, Len(bb)))
            /\ st[g] = StateOf(RowValues, P[g] \cup RowsOfGroup(b, bb, tab, g, Len(bb)))
  <2>1. PICK v, Q : v = RowValues /\ Q = P
    OBVIOUS
  <2>2. /\ n \in Nat /\ ss \in [1..n -> GroupState] /\ AddableTo(n, bb, tab)
        /\ Represents(ss, v, Q, n) /\ NewRows(v, Q, b, bb, n)
    BY <1>13, <1>16, <1>18, <1>19, <1>20, <2>1 DEF Represents, NewRows
  <2>3. /\ AddRows(ss, bb, tab) \in [1..n -> GroupState]
        /\ Represents(AddRows(ss, bb, tab), v, WithBatch(Q, n, b, bb, tab), n)
    BY ONLY GroupConstants, <2>2, AddRowsGives
  <2> QED
    BY <1>21, <2>1, <2>3 DEF Represents, WithBatch
<1>23. /\ DOMAIN table = ThreadIds /\ DOMAIN states = ThreadIds
       /\ table'[t] = tab /\ numGroups'[t] = n /\ keys'[t] = all /\ states'[t] = st
       /\ \A u \in ThreadIds : u # t => /\ table'[u] = table[u] /\ numGroups'[u] = numGroups[u]
                                        /\ keys'[u] = keys[u] /\ states'[u] = states[u]
  BY <1>6, <1>21 DEF GroupInv, GroupTypes
<1>24. /\ DOMAIN input' \ todo' = (DOMAIN input \ todo) \cup {b}
       /\ \A B : RowsOf(B)' = RowsOf(B)
       /\ \A B : KeysOf(B)' = KeysOf(B)
       /\ \A p : RowAt(p)' = RowAt(p)
       /\ RowValues' = RowValues
  BY <1>6, <1>7 DEF RowsOf, KeysOf, RowAt, RowValues
<1>25. Sunk' = Sunk \cup {<<b, i>> : i \in DOMAIN bb}
  <2>1. Sunk' = RowsOf((DOMAIN input \ todo) \cup {b})
    BY <1>24 DEF Sunk, RowsOf
  <2> QED
    BY <1>10, <2>1 DEF Sunk
<1>26. GroupTypes'
  <2>1. numGroups' \in [ThreadIds -> Nat] /\ keys' \in [ThreadIds -> Seq(KeysOf(DOMAIN input))]
    BY <1>6, <1>13, <1>14 DEF GroupInv, GroupTypes
  <2>2. KeysOf(DOMAIN input)' = KeysOf(DOMAIN input)
    BY <1>6, <1>24 DEF KeysOf, RowsOf, RowAt
  <2>3. \A u \in ThreadIds : states'[u] \in [1..numGroups'[u] -> GroupState]
    BY <1>22, <1>23 DEF GroupInv, GroupTypes
  <2>4. DOMAIN table' = ThreadIds /\ DOMAIN states' = ThreadIds
    BY <1>6, <1>23
  <2>5. 0 \notin ThreadIds
    BY DEF ThreadIds
  <2> QED
    BY <1>6, <1>7, <2>1, <2>2, <2>3, <2>4, <2>5 DEF GroupInv, GroupTypes
<1>27. TablesAgree'
  <2> SUFFICES ASSUME NEW u \in ThreadIds
               PROVE  /\ Placed(table'[u], keys'[u], numGroups'[u])
                      /\ DOMAIN table'[u] \subseteq KeysOf((DOMAIN input \ todo) \cup {b})
                      /\ Complete(table'[u], keys'[u], numGroups'[u])
    <3>1. KeysOf(DOMAIN input \ todo)' = KeysOf((DOMAIN input \ todo) \cup {b})
      BY <1>24 DEF KeysOf, RowsOf, RowAt
    <3> QED
      BY <3>1 DEF TablesAgree, Placed, Complete
  <2>1. CASE u = t
    BY <1>14, <1>15, <1>23, <2>1
  <2>2. CASE u # t
    BY <1>6, <1>10, <1>23, <2>2 DEF GroupInv, TablesAgree
  <2> QED
    BY <2>1, <2>2
<1>28. ASSUME NEW u \in ThreadIds, NEW k
       PROVE  Waiting(u, k)' <=> k \in DOMAIN table'[u]
  BY <1>6 DEF Waiting
<1>29. PICK own2 : own2 = [p \in Sunk' |-> IF p \in Sunk THEN own[p] ELSE t]
  OBVIOUS
<1>30. own2 \in [Sunk' -> ThreadIds]
  BY <1>17, <1>29 DEF Accounts
<1>31. ASSUME NEW u, NEW k
       PROVE  Share(own2, u, k)' = IF u = t
                THEN Share(own, t, k) \cup {<<b, i>> : i \in {j \in DOMAIN bb : bb[j].key = k}}
                ELSE Share(own, u, k)
  <2>1. Share(own2, u, k)' = {p \in Sunk' : own2[p] = u /\ RowAt(p).key = k}
    BY <1>24 DEF Share
  <2>2. \A p \in Sunk : own2[p] = own[p]
    BY <1>25, <1>29
  <2>3. \A i \in DOMAIN bb : own2[<<b, i>>] = t /\ RowAt(<<b, i>>).key = bb[i].key
    BY <1>11, <1>25, <1>29
  <2>4. Share(own2, u, k)' = Share(own, u, k)
           \cup {p \in {<<b, i>> : i \in DOMAIN bb} : own2[p] = u /\ RowAt(p).key = k}
    BY <1>25, <2>1, <2>2 DEF Share
  <2>5. {p \in {<<b, i>> : i \in DOMAIN bb} : own2[p] = u /\ RowAt(p).key = k}
           = IF u = t THEN {<<b, i>> : i \in {j \in DOMAIN bb : bb[j].key = k}} ELSE {}
    BY <2>3
  <2> QED
    BY <2>4, <2>5
<1>32. Accounts(own2)'
  <2>1. ASSUME NEW p \in Sunk'
        PROVE  Waiting(own2[p], RowAt(p).key)'
    <3>1. RowAt(p).key \in DOMAIN table'[own2[p]] /\ own2[p] \in ThreadIds
      <4>1. CASE p \in Sunk
        <5>1. own2[p] = own[p] /\ own[p] \in ThreadIds /\ RowAt(p).key \in DOMAIN table[own[p]]
          BY <1>17, <1>29, <4>1 DEF Accounts, Waiting
        <5> QED
          BY <1>15, <1>23, <5>1
      <4>2. CASE p \notin Sunk
        <5>1. PICK i \in DOMAIN bb : p = <<b, i>>
          BY <1>25, <4>2
        <5> QED
          BY <1>11, <1>15, <1>23, <1>29, <4>2, <5>1
      <4> QED
        BY <4>1, <4>2
    <3>2. RowAt(p)' = RowAt(p)
      BY <1>24
    <3> QED
      BY <1>6, <3>1, <3>2 DEF Waiting
  <2>2. ASSUME NEW u \in ThreadIds, NEW k \in DOMAIN table'[u]
        PROVE  /\ Summable(RowValues, Share(own2, u, k)')
               /\ states'[u][table'[u][k]] = StateOf(RowValues, Share(own2, u, k)')
    <3>1. CASE u = t
      <4>1. PICK g \in 1..n : g = tab[k] /\ all[g] = k
        BY <1>14, <1>23, <3>1 DEF Placed
      <4>2. \A j \in DOMAIN bb : tab[bb[j].key] = g <=> bb[j].key = k
        BY <1>14, <1>15, <4>1 DEF Placed
      <4>3. RowsOfGroup(b, bb, tab, g, Len(bb))
              = {<<b, i>> : i \in {j \in DOMAIN bb : bb[j].key = k}}
        BY <1>8, <4>2 DEF RowsOfGroup
      <4>4. P[g] = Share(own, t, k)
        BY <1>34, <4>1
      <4>5. Share(own2, u, k)' = P[g] \cup RowsOfGroup(b, bb, tab, g, Len(bb))
        BY <1>31, <3>1, <4>3, <4>4
      <4>6. /\ Summable(RowValues, Share(own2, u, k)')
            /\ st[g] = StateOf(RowValues, Share(own2, u, k)')
        BY <1>22, <4>5
      <4>7. states'[u][table'[u][k]] = st[g]
        BY <1>23, <3>1, <4>1
      <4> QED
        BY <4>6, <4>7
    <3>2. CASE u # t
      <4>1. Waiting(u, k) /\ k \in DOMAIN table[u]
        BY <1>6, <1>23, <3>2 DEF Waiting
      <4>2. Share(own2, u, k)' = Share(own, u, k)
        BY <1>31, <3>2
      <4> QED
        BY <1>17, <1>23, <3>2, <4>1, <4>2 DEF Accounts
    <3> QED
      BY <3>1, <3>2
  <2>3. \A Q : Summable(RowValues, Q)' = Summable(RowValues, Q)
    BY <1>24 DEF Summable
  <2>4. \A Q : StateOf(RowValues, Q)' = StateOf(RowValues, Q)
    BY <1>24
  <2> QED
    BY <1>24, <1>30, <2>1, <2>2 DEF Accounts
<1>33. ResultShown'
  <2>1. result = <<>> /\ from = 0 /\ 0 \in 0..NumThreads
    BY <1>6 DEF GroupInv, ResultShown, GroupConstants
  <2> QED
    BY <1>6, <2>1 DEF ResultShown
<1> QED
  BY <1>26, <1>27, <1>32, <1>33 DEF GroupInv

\* A table with key k as its newest group.
WithKey(tab, k, id) == [q \in DOMAIN tab \cup {k} |-> IF q = k THEN id ELSE tab[q]]

\* A new group is put behind the others.
LEMMA TableGrowsByOne ==
  ASSUME NEW K, NEW ks \in Seq(K), NEW tab, NEW n \in Nat,
         Placed(tab, ks, n), Complete(tab, ks, n), NEW k \in K, k \notin DOMAIN tab
  PROVE  /\ Append(ks, k) \in Seq(K)
         /\ Placed(WithKey(tab, k, n + 1), Append(ks, k), n + 1)
         /\ Complete(WithKey(tab, k, n + 1), Append(ks, k), n + 1)
<1>1. PICK all, tab2 : all = Append(ks, k) /\ tab2 = WithKey(tab, k, n + 1)
  OBVIOUS
<1>2. /\ all \in Seq(K) /\ Len(all) = n + 1 /\ DOMAIN all = 1..(n + 1)
      /\ \A g \in 1..n : all[g] = ks[g]
      /\ all[n + 1] = k
  <2>1. Len(ks) = n
    BY DEF Placed
  <2> QED
    BY <1>1, <2>1, AppendProperties, LenProperties
<1>3. \A g \in 1..(n + 1) : g \in 1..n \/ g = n + 1
  OBVIOUS
<1>4. /\ DOMAIN tab2 = DOMAIN tab \cup {k} /\ tab2[k] = n + 1
      /\ \A q \in DOMAIN tab : tab2[q] = tab[q]
  BY <1>1 DEF WithKey
<1>5. Complete(tab2, all, n + 1)
  BY <1>2, <1>3, <1>4 DEF Complete
<1>6. ASSUME NEW q \in DOMAIN tab2
      PROVE  tab2[q] \in 1..(n + 1) /\ all[tab2[q]] = q
  <2>1. CASE q = k
    BY <1>2, <1>4, <2>1
  <2>2. CASE q # k
    <3>1. tab2[q] = tab[q] /\ tab[q] \in 1..n /\ ks[tab[q]] = q
      BY <1>4, <2>2 DEF Placed
    <3> QED
      BY <1>2, <3>1
  <2> QED
    BY <2>1, <2>2
<1>7. IsInjective(all)
  <2> SUFFICES ASSUME NEW g \in 1..(n + 1), NEW h \in 1..(n + 1), all[g] = all[h]
               PROVE  g = h
    BY <1>2 DEF IsInjective
  <2>1. CASE g \in 1..n /\ h \in 1..n
    <3>1. DOMAIN ks = 1..n
      BY LenProperties DEF Placed
    <3>2. ks[g] = ks[h]
      BY <1>2, <2>1
    <3>3. IsInjective(ks)
      BY DEF Placed
    <3> QED
      BY <2>1, <3>1, <3>2, <3>3 DEF IsInjective
  <2>2. \A i \in 1..n : all[i] # k
    BY <1>2 DEF Complete
  <2> QED
    BY <1>2, <1>3, <2>1, <2>2
<1>8. Placed(tab2, all, n + 1)
  BY <1>2, <1>6, <1>7 DEF Placed
<1> QED
  BY <1>1, <1>2, <1>5, <1>8

\* Steps of Finalize leave the rows alone.
LEMMA RowsStay ==
  ASSUME input' = input, todo' = todo
  PROVE  /\ \A B : RowsOf(B)' = RowsOf(B) /\ KeysOf(B)' = KeysOf(B)
         /\ \A p : RowAt(p)' = RowAt(p)
         /\ KeysOf(DOMAIN input)' = KeysOf(DOMAIN input)
         /\ KeysOf(DOMAIN input \ todo)' = KeysOf(DOMAIN input \ todo)
         /\ Sunk' = Sunk /\ RowValues' = RowValues
         /\ \A P : Summable(RowValues, P)' = Summable(RowValues, P)
         /\ \A P : StateOf(RowValues, P)' = StateOf(RowValues, P)
<1>1. /\ \A B : RowsOf(B)' = RowsOf(B)
      /\ \A p : RowAt(p)' = RowAt(p)
  BY DEF RowsOf, RowAt
<1>2. \A B : KeysOf(B)' = KeysOf(B)
  BY <1>1 DEF KeysOf
<1>3. KeysOf(DOMAIN input)' = KeysOf(DOMAIN input)
  BY <1>1 DEF KeysOf, RowsOf
<1>4. KeysOf(DOMAIN input \ todo)' = KeysOf(DOMAIN input \ todo)
  BY <1>1 DEF KeysOf, RowsOf
<1>5. Sunk' = Sunk
  BY DEF Sunk, RowsOf
<1>6. RowValues' = RowValues
  BY <1>1 DEF RowValues, RowsOf
<1>7. \A P : Summable(RowValues, P)' = Summable(RowValues, P)
  BY <1>6 DEF Summable
<1> QED
  BY <1>1, <1>2, <1>3, <1>4, <1>5, <1>6, <1>7

\* A step that leaves the rows, the groups that wait and their states alone keeps
\* the rows with their threads.
LEMMA AccountsStay ==
  ASSUME NEW own, Accounts(own), input' = input, todo' = todo, states' = states,
         \A t \in ThreadIds : \A k : Waiting(t, k)' <=> Waiting(t, k),
         \A t \in ThreadIds : \A k : Waiting(t, k) => table'[t][k] = table[t][k]
  PROVE  Accounts(own)'
<1>1. /\ \A p : RowAt(p)' = RowAt(p)
      /\ Sunk' = Sunk
      /\ \A P : Summable(RowValues, P)' = Summable(RowValues, P)
      /\ \A P : StateOf(RowValues, P)' = StateOf(RowValues, P)
  BY RowsStay
<1>2. \A t, k : Share(own, t, k)' = Share(own, t, k)
  BY <1>1 DEF Share
<1>3. \A t, k : Waiting(t, k)' => k \in DOMAIN table[t] \/ t \notin ThreadIds
  BY DEF Waiting
<1>4. own \in [Sunk' -> ThreadIds]
  BY <1>1 DEF Accounts
<1>5. ASSUME NEW p \in Sunk'
      PROVE  Waiting(own[p], RowAt(p).key)'
  <2>1. p \in Sunk /\ own[p] \in ThreadIds /\ Waiting(own[p], RowAt(p).key)
    BY <1>1 DEF Accounts
  <2>2. PICK t, k : t = own[p] /\ k = RowAt(p).key
    OBVIOUS
  <2>3. Waiting(t, k)'
    BY <2>1, <2>2
  <2>4. (RowAt(p).key)' = k
    BY <1>1, <2>2
  <2> QED
    BY <2>2, <2>3, <2>4 DEF Waiting
<1>6. ASSUME NEW t \in ThreadIds, NEW k, Waiting(t, k)'
      PROVE  /\ Summable(RowValues, Share(own, t, k))'
             /\ states'[t][table'[t][k]] = StateOf(RowValues, Share(own, t, k))'
  <2>1. Waiting(t, k) /\ k \in DOMAIN table[t] /\ table'[t][k] = table[t][k]
    BY <1>3, <1>6
  <2>2. /\ Summable(RowValues, Share(own, t, k))
        /\ states[t][table[t][k]] = StateOf(RowValues, Share(own, t, k))
    BY <2>1 DEF Accounts
  <2>3. PICK P : P = Share(own, t, k)
    OBVIOUS
  <2>4. Summable(RowValues, P)' /\ states[t][table[t][k]] = StateOf(RowValues, P)'
    BY <1>1, <2>2, <2>3
  <2>5. Share(own, t, k)' = P
    BY <1>2, <2>3
  <2> QED
    BY <2>1, <2>4, <2>5 DEF Summable, StateOf
<1> QED
  BY <1>4, <1>5, <1>6 DEF Accounts

\* The entries of the thread Finalize visits next are those of its table: a thread
\* without groups has none.
LEMMA VisitsTable ==
  ASSUME GroupInv, NEW f, Visit(f)
  PROVE  left' = IF f \in ThreadIds THEN DOMAIN table[f] ELSE {}
<1>1. ASSUME f \in ThreadIds, ~(numGroups[f] > 0)
      PROVE  DOMAIN table[f] = {}
  <2>1. numGroups[f] \in Nat /\ Placed(table[f], keys[f], numGroups[f])
    BY <1>1 DEF GroupInv, GroupTypes, TablesAgree
  <2>2. PICK n \in Nat : n = numGroups[f] /\ 1..n = {}
    BY <1>1, <2>1
  <2> QED
    BY <2>1, <2>2 DEF Placed
<1> QED
  BY <1>1 DEF Visit

\* Finalize begins with the second thread, or ends if there is none.
LEMMA StartKeepsGroups ==
  ASSUME GroupConstants, GroupInv, StartFinalize
  PROVE  GroupInv'
<1>1. /\ from = 0 /\ todo = {} /\ from' = 2
      /\ input' = input /\ todo' = todo /\ table' = table /\ numGroups' = numGroups
      /\ keys' = keys /\ states' = states
      /\ left' = IF 2 \in ThreadIds THEN DOMAIN table[2] ELSE {}
      /\ result' = IF 2 \in ThreadIds THEN <<>>
                   ELSE [g \in 1..numGroups[1] |-> [key |-> keys[1][g], state |-> states[1][g]]]
  BY VisitsTable DEF StartFinalize, Visit
<1>2. NumThreads \in Nat /\ NumThreads >= 1
  BY DEF GroupConstants
<1>3. GroupTypes'
  <2>1. KeysOf(DOMAIN input)' = KeysOf(DOMAIN input)
    BY <1>1, RowsStay
  <2>2. 2 \in 0..(NumThreads + 1)
    BY <1>2
  <2> QED
    BY <1>1, <2>1, <2>2 DEF GroupInv, GroupTypes
<1>4. TablesAgree'
  <2>1. KeysOf(DOMAIN input \ todo)' = KeysOf(DOMAIN input \ todo)
    BY <1>1, RowsStay
  <2> QED
    BY <1>1, <2>1 DEF GroupInv, TablesAgree, Placed, Complete
<1>5. ASSUME NEW own, Accounts(own)
      PROVE  Accounts(own)'
  <2>1. ASSUME NEW t \in ThreadIds, NEW k
        PROVE  Waiting(t, k)' <=> Waiting(t, k)
    <3>1. t = 1 \/ t = 2 \/ t > 2
      BY <1>2 DEF ThreadIds
    <3> QED
      BY <1>1, <3>1 DEF Waiting
  <2> QED
    BY <1>1, <1>5, <2>1, AccountsStay
<1>6. ResultShown'
  <2>1. 2 \in ThreadIds <=> 2 \in 0..NumThreads
    BY <1>2 DEF ThreadIds
  <2> QED
    BY <1>1, <2>1 DEF ResultShown
<1> QED
  BY <1>3, <1>4, <1>5, <1>6 DEF GroupInv

\* The thread that has been merged is cleared.
LEMMA NextKeepsGroups ==
  ASSUME GroupConstants, GroupInv, NextThread
  PROVE  GroupInv'
<1>1. /\ from \in ThreadIds /\ left = {} /\ from' = from + 1
      /\ input' = input /\ todo' = todo /\ table' = [table EXCEPT ![from] = None]
      /\ numGroups' = numGroups /\ keys' = keys /\ states' = states
      /\ left' = IF from + 1 \in ThreadIds THEN DOMAIN table[from + 1] ELSE {}
      /\ result' = IF from + 1 \in ThreadIds THEN <<>>
                   ELSE [g \in 1..numGroups[1] |-> [key |-> keys[1][g], state |-> states[1][g]]]
  BY VisitsTable DEF NextThread, Visit
<1>2. /\ NumThreads \in Nat /\ from \in 2..NumThreads /\ todo = {}
      /\ from + 1 \in 3..(NumThreads + 1) /\ from + 1 # from
  <2>1. NumThreads \in Nat /\ from # 1 /\ from # 0 => todo = {}
    BY DEF GroupConstants, GroupInv, GroupTypes
  <2>2. from \in 2..NumThreads
    BY <1>1, <2>1 DEF GroupInv, GroupTypes, ThreadIds, GroupConstants
  <2> QED
    BY <2>1, <2>2 DEF GroupInv, GroupTypes, GroupConstants
<1>3. /\ DOMAIN table' = ThreadIds /\ table'[from] = None
      /\ \A t \in ThreadIds : t # from => table'[t] = table[t]
      /\ DOMAIN None = {}
  BY <1>1 DEF GroupInv, GroupTypes, None
<1>4. GroupTypes'
  <2>1. KeysOf(DOMAIN input)' = KeysOf(DOMAIN input)
    BY <1>1, RowsStay
  <2>2. from + 1 \in 0..(NumThreads + 1) /\ from + 1 # 1
    BY <1>2
  <2>3. left' \subseteq IF from' \in ThreadIds THEN DOMAIN table'[from'] ELSE {}
    BY <1>1, <1>2, <1>3
  <2> QED
    BY <1>1, <1>2, <1>3, <2>1, <2>2, <2>3 DEF GroupInv, GroupTypes
<1>5. TablesAgree'
  <2>1. KeysOf(DOMAIN input \ todo)' = KeysOf(DOMAIN input \ todo)
    BY <1>1, RowsStay
  <2> SUFFICES ASSUME NEW t \in ThreadIds
               PROVE  /\ Placed(table'[t], keys[t], numGroups[t])
                      /\ DOMAIN table'[t] \subseteq KeysOf(DOMAIN input \ todo)
                      /\ t = 1 \/ from' = 0 \/ t >= from' =>
                           Complete(table'[t], keys[t], numGroups[t])
    <3>1. TablesAgree' <=>
            \A t \in ThreadIds :
              /\ Placed(table'[t], keys'[t], numGroups'[t])
              /\ DOMAIN table'[t] \subseteq KeysOf(DOMAIN input \ todo)'
              /\ t = 1 \/ from' = 0 \/ t >= from' =>
                   Complete(table'[t], keys'[t], numGroups'[t])
      BY DEF TablesAgree, Placed, Complete
    <3> QED
      BY <1>1, <2>1, <3>1
  <2>2. CASE t = from
    <3>1. ~(t = 1 \/ from' = 0 \/ t >= from')
      BY <1>1, <1>2, <2>2
    <3> QED
      BY <1>3, <2>2, <3>1 DEF GroupInv, TablesAgree, Placed
  <2>3. CASE t # from
    <3>1. t = 1 \/ from' = 0 \/ t >= from' => t = 1 \/ t >= from
      BY <1>1, <1>2 DEF ThreadIds
    <3> QED
      BY <1>3, <2>3, <3>1 DEF GroupInv, TablesAgree
  <2> QED
    BY <2>2, <2>3
<1>6. ASSUME NEW own, Accounts(own)
      PROVE  Accounts(own)'
  <2>1. ASSUME NEW t \in ThreadIds, NEW k
        PROVE  Waiting(t, k)' <=> Waiting(t, k)
    <3>1. CASE t = from
      <4>1. ~(t = 1 \/ from = 0 \/ t > from)
        BY <1>2, <3>1
      <4> QED
        BY <1>1, <1>3, <3>1, <4>1 DEF Waiting
    <3>2. CASE t = from + 1
      <4>1. t > from /\ t # from
        BY <1>2, <3>2
      <4> QED
        BY <1>1, <1>3, <3>2, <4>1 DEF Waiting
    <3>3. CASE t # from /\ t # from + 1
      <4>1. t > from <=> t > from + 1
        BY <1>2, <3>3 DEF ThreadIds
      <4> QED
        BY <1>1, <1>2, <1>3, <3>3, <4>1 DEF Waiting
    <3> QED
      BY <3>1, <3>2, <3>3
  <2>2. \A t \in ThreadIds : \A k : Waiting(t, k) => table'[t][k] = table[t][k]
    <3>1. ~(from = 1 \/ from = 0 \/ from > from)
      BY <1>2
    <3> QED
      BY <1>1, <1>3, <3>1 DEF Waiting
  <2> QED
    BY <1>1, <1>6, <2>1, <2>2, AccountsStay
<1>7. ResultShown'
  <2>1. from + 1 \in ThreadIds <=> from + 1 \in 0..NumThreads
    BY <1>2 DEF ThreadIds
  <2> QED
    BY <1>1, <2>1 DEF ResultShown
<1> QED
  BY <1>4, <1>5, <1>6, <1>7 DEF GroupInv

\* An entry is merged: its thread's rows with the key pass to the first thread.
LEMMA MergeKeepsGroups ==
  ASSUME GroupConstants, GroupInv, NEW k, MergeEntry(k)
  PROVE  GroupInv'
<1>1. PICK f : f = from
  OBVIOUS
<1>2. /\ NumThreads \in Nat /\ f \in 2..NumThreads /\ f \in ThreadIds /\ 1 \in ThreadIds /\ f # 1
      /\ k \in left /\ k \in DOMAIN table[f] /\ todo = {} /\ DOMAIN input \ todo = DOMAIN input
      /\ left \subseteq DOMAIN table[f]
  <2>1. /\ k \in left /\ left \subseteq IF f \in ThreadIds THEN DOMAIN table[f] ELSE {}
        /\ f # 1 /\ (f # 0 => todo = {}) /\ NumThreads \in Nat \ {0}
    BY <1>1 DEF MergeEntry, GroupInv, GroupTypes, GroupConstants
  <2> QED
    BY <2>1 DEF ThreadIds
<1>3. PICK src, n1, n, gid, K :
        /\ src = table[f][k] /\ n1 = numGroups[1] /\ gid = GlobalId(k) /\ K = KeysOf(DOMAIN input)
        /\ n = IF k \notin DOMAIN table[1] THEN n1 + 1 ELSE n1
  OBVIOUS
<1>4. /\ \A t \in ThreadIds : Placed(table[t], keys[t], numGroups[t]) /\ DOMAIN table[t] \subseteq K
      /\ Complete(table[1], keys[1], n1)
      /\ \A t \in ThreadIds : /\ states[t] \in [1..numGroups[t] -> GroupState]
                              /\ keys[t] \in Seq(K) /\ numGroups[t] \in Nat
      /\ DOMAIN table = ThreadIds /\ DOMAIN states = ThreadIds
      /\ DOMAIN numGroups = ThreadIds /\ DOMAIN keys = ThreadIds
      /\ n1 \in Nat
  BY <1>2, <1>3 DEF GroupInv, GroupTypes, TablesAgree
<1>5. src \in 1..numGroups[f] /\ SourceKey(k) = k /\ k \in K
  BY <1>1, <1>2, <1>3, <1>4 DEF SourceKey, Placed
<1>6. PICK old : old = Resize(states[1], n)
  OBVIOUS
<1>7. PICK c : c = Combine(old[gid], states[f][src])
  OBVIOUS
<1>8. /\ input' = input /\ todo' = todo /\ from' = from /\ result' = result /\ left' = left \ {k}
      /\ table' = IF k \notin DOMAIN table[1]
                    THEN [table EXCEPT ![1] = WithKey(table[1], k, gid)] ELSE table
      /\ numGroups' = [numGroups EXCEPT ![1] = n]
      /\ keys' = IF k \notin DOMAIN table[1] THEN [keys EXCEPT ![1] = Append(@, k)] ELSE keys
      /\ states' = [states EXCEPT ![1] = [old EXCEPT ![gid] = c]]
  <2>1. /\ input' = input /\ todo' = todo /\ from' = from /\ result' = result /\ left' = left \ {k}
        /\ numGroups' = [numGroups EXCEPT ![1] = n]
        /\ keys' = IF k \notin DOMAIN table[1] THEN [keys EXCEPT ![1] = Append(@, k)] ELSE keys
    BY <1>3, <1>5 DEF MergeEntry
  <2>2. table' = IF k \notin DOMAIN table[1]
                    THEN [table EXCEPT ![1] = WithKey(table[1], k, gid)] ELSE table
    BY <1>3 DEF MergeEntry, WithKey
  <2>3. states' = [states EXCEPT ![1] = [old EXCEPT ![gid] = c]]
    <3>1. n = IF k \notin DOMAIN table[1] THEN numGroups[1] + 1 ELSE numGroups[1]
      BY <1>3
    <3>3. c = Combine(old[gid], states[from][table[from][k]])
      BY <1>1, <1>3, <1>7
    <3>4. [Resize(states[1], n) EXCEPT ![gid] = Combine(@, states[from][table[from][k]])]
             = [old EXCEPT ![gid] = c]
      BY <1>6, <3>3
    <3>5. states' = [states EXCEPT ![1] =
                       [Resize(states[1], n) EXCEPT ![gid] = Combine(@, states[from][table[from][k]])]]
      BY <1>3, <3>1, Zenon DEF MergeEntry
    <3> QED
      BY <3>4, <3>5
  <2> QED
    BY <2>1, <2>2, <2>3
<1>9. PICK tab1, ks1, st1 : tab1 = table'[1] /\ ks1 = keys'[1] /\ st1 = states'[1]
  OBVIOUS
<1>10. /\ DOMAIN table' = ThreadIds /\ DOMAIN states' = ThreadIds
       /\ DOMAIN numGroups' = ThreadIds /\ DOMAIN keys' = ThreadIds
       /\ numGroups'[1] = n /\ st1 = [old EXCEPT ![gid] = c]
       /\ \A t \in ThreadIds : t # 1 => /\ table'[t] = table[t] /\ numGroups'[t] = numGroups[t]
                                        /\ keys'[t] = keys[t] /\ states'[t] = states[t]
  BY <1>2, <1>4, <1>8, <1>9
<1>11. /\ n \in Nat /\ n1 <= n /\ gid \in 1..n
       /\ ks1 \in Seq(K) /\ Placed(tab1, ks1, n) /\ Complete(tab1, ks1, n)
       /\ DOMAIN tab1 = DOMAIN table[1] \cup {k} /\ tab1[k] = gid
       /\ \A q \in DOMAIN table[1] : tab1[q] = table[1][q] /\ table[1][q] \in 1..n1
       /\ IF k \in DOMAIN table[1] THEN gid \in 1..n1 /\ gid = table[1][k] ELSE gid \notin 1..n1
  <2>1. CASE k \in DOMAIN table[1]
    <3>1. tab1 = table[1] /\ ks1 = keys[1] /\ n = n1 /\ gid = table[1][k]
      BY <1>3, <1>8, <1>9, <2>1 DEF GlobalId
    <3>2. Placed(tab1, ks1, n) /\ Complete(tab1, ks1, n) /\ ks1 \in Seq(K)
      BY <1>2, <1>3, <1>4, <3>1
    <3> QED
      BY <1>4, <2>1, <3>1, <3>2 DEF Placed
  <2>2. CASE k \notin DOMAIN table[1]
    <3>1. gid = n1 + 1 /\ n = n1 + 1
      BY <1>3, <2>2 DEF GlobalId
    <3>2. PICK tb, ks : tb = table[1] /\ ks = keys[1]
      OBVIOUS
    <3>3. tab1 = WithKey(tb, k, n1 + 1) /\ ks1 = Append(ks, k)
      BY <1>2, <1>4, <1>8, <1>9, <2>2, <3>1, <3>2
    <3>4. /\ ks \in Seq(K) /\ n1 \in Nat /\ Placed(tb, ks, n1) /\ Complete(tb, ks, n1)
          /\ k \in K /\ k \notin DOMAIN tb
      BY <1>2, <1>3, <1>4, <1>5, <2>2, <3>2
    <3>5. ks1 \in Seq(K) /\ Placed(tab1, ks1, n1 + 1) /\ Complete(tab1, ks1, n1 + 1)
      BY ONLY <3>3, <3>4, TableGrowsByOne
    <3>6. /\ DOMAIN tab1 = DOMAIN tb \cup {k} /\ tab1[k] = n1 + 1
          /\ \A q \in DOMAIN tb : tab1[q] = tb[q] /\ tb[q] \in 1..n1
      BY <3>3, <3>4 DEF WithKey, Placed
    <3>7. n1 + 1 \in Nat /\ n1 <= n1 + 1 /\ n1 + 1 \in 1..(n1 + 1) /\ n1 + 1 \notin 1..n1
      BY <1>4
    <3> QED
      BY <2>2, <3>1, <3>2, <3>5, <3>6, <3>7
  <2> QED
    BY <2>1, <2>2
<1>12. ASSUME NEW q \in DOMAIN table[1], q # k
       PROVE  table[1][q] # gid
  <2>1. q \in DOMAIN tab1 /\ k \in DOMAIN tab1 /\ tab1[q] = table[1][q] /\ tab1[k] = gid
    BY <1>11
  <2>2. ks1[tab1[q]] = q /\ ks1[tab1[k]] = k
    BY <1>11, <2>1 DEF Placed
  <2> QED
    BY <1>12, <2>1, <2>2
<1>13. /\ old \in [1..n -> GroupState]
       /\ \A g \in 1..n : old[g] = IF g \in 1..n1 THEN states[1][g] ELSE Fresh
  <2>1. PICK sts : sts = states[1]
    OBVIOUS
  <2>2. sts \in [1..n1 -> GroupState] /\ n1 \in Nat /\ n \in Nat /\ n1 <= n /\ old = Resize(sts, n)
    BY <1>2, <1>3, <1>4, <1>6, <1>11, <2>1
  <2> QED
    BY ONLY GroupConstants, <2>1, <2>2, ResizeType
<1>14. PICK own : Accounts(own)
  BY DEF GroupInv
<1>15. PICK P, Q : P = Share(own, 1, k) /\ Q = Share(own, f, k)
  OBVIOUS
<1>16. Summable(RowValues, P) /\ old[gid] = StateOf(RowValues, P)
  <2>1. CASE k \in DOMAIN table[1]
    <3>1. Waiting(1, k)
      BY <2>1 DEF Waiting
    <3>2. Summable(RowValues, P) /\ states[1][table[1][k]] = StateOf(RowValues, P)
      BY <1>2, <1>14, <1>15, <2>1, <3>1 DEF Accounts
    <3> QED
      BY <1>11, <1>13, <2>1, <3>2
  <2>2. CASE k \notin DOMAIN table[1]
    <3>1. P = {}
      BY <1>14, <1>15, <2>2 DEF Share, Accounts, Waiting
    <3>2. Summable(RowValues, {}) /\ StateOf(RowValues, {}) = Fresh
      BY FS_EmptySet, StateOfNone DEF Summable
    <3> QED
      BY <1>11, <1>13, <2>2, <3>1, <3>2
  <2> QED
    BY <2>1, <2>2
<1>17. Summable(RowValues, Q) /\ states[f][src] = StateOf(RowValues, Q)
  <2>1. Waiting(f, k)
    BY <1>1, <1>2 DEF Waiting
  <2> QED
    BY <1>2, <1>3, <1>14, <1>15, <2>1 DEF Accounts
<1>18. /\ Summable(RowValues, P \cup Q) /\ c = StateOf(RowValues, P \cup Q) /\ c \in GroupState
  <2>1. P \cap Q = {}
    BY <1>2, <1>15 DEF Share
  <2>2. PICK v : v = RowValues
    OBVIOUS
  <2>3. Summable(v, P \cup Q) /\ Combine(StateOf(v, P), StateOf(v, Q)) = StateOf(v, P \cup Q)
    BY <1>16, <1>17, <2>1, <2>2, CombineStates
  <2>4. StateOf(v, P \cup Q) \in GroupState
    BY <2>3, StateOfType
  <2> QED
    BY <1>7, <1>16, <1>17, <2>2, <2>3, <2>4
<1>19. /\ st1 \in [1..n -> GroupState] /\ st1[gid] = c
       /\ \A g \in 1..n : g # gid => st1[g] = old[g]
  BY <1>10, <1>11, <1>13, <1>18
<1>20. /\ KeysOf(DOMAIN input)' = K /\ KeysOf(DOMAIN input \ todo)' = K
       /\ Sunk' = Sunk /\ RowValues' = RowValues
       /\ \A p : RowAt(p)' = RowAt(p)
       /\ \A S : Summable(RowValues, S)' = Summable(RowValues, S)
       /\ \A S : StateOf(RowValues, S)' = StateOf(RowValues, S)
  BY <1>2, <1>3, <1>8, RowsStay
<1>21. GroupTypes'
  <2>1. \A t \in ThreadIds : /\ keys'[t] \in Seq(K) /\ numGroups'[t] \in Nat
                             /\ states'[t] \in [1..numGroups'[t] -> GroupState]
    <3> TAKE t \in ThreadIds
    <3>1. CASE t = 1
      BY <1>9, <1>10, <1>11, <1>19, <3>1
    <3>2. CASE t # 1
      BY <1>4, <1>10, <3>2
    <3> QED
      BY <3>1, <3>2
  <2>2. keys' \in [ThreadIds -> Seq(K)] /\ numGroups' \in [ThreadIds -> Nat]
    <3>1. keys' = [t \in ThreadIds |-> keys'[t]] /\ numGroups' = [t \in ThreadIds |-> numGroups'[t]]
      <4>1. keys' = [t \in ThreadIds |-> keys'[t]]
        <5>1. keys = [t \in ThreadIds |-> keys[t]]
          BY DEF GroupInv, GroupTypes
        <5>2. CASE k \in DOMAIN table[1]
          BY <1>8, <5>1, <5>2
        <5>3. CASE k \notin DOMAIN table[1]
          <6>1. keys' = [keys EXCEPT ![1] = Append(@, k)]
            BY <1>8, <5>3
          <6> QED
            BY <5>1, <6>1
        <5> QED
          BY <5>2, <5>3
      <4>2. numGroups' = [t \in ThreadIds |-> numGroups'[t]]
        BY <1>4, <1>8, <1>10
      <4> QED
        BY <4>1, <4>2
    <3> QED
      BY <2>1, <3>1
  <2>3. left' \subseteq IF from' \in ThreadIds THEN DOMAIN table'[from'] ELSE {}
    BY <1>1, <1>2, <1>8, <1>10
  <2> QED
    BY <1>8, <1>10, <1>20, <2>1, <2>2, <2>3 DEF GroupInv, GroupTypes
<1>22. TablesAgree'
  <2>1. TablesAgree' <=>
          \A t \in ThreadIds :
            /\ Placed(table'[t], keys'[t], numGroups'[t])
            /\ DOMAIN table'[t] \subseteq KeysOf(DOMAIN input \ todo)'
            /\ t = 1 \/ from' = 0 \/ t >= from' => Complete(table'[t], keys'[t], numGroups'[t])
    BY DEF TablesAgree, Placed, Complete
  <2> SUFFICES ASSUME NEW t \in ThreadIds
               PROVE  /\ Placed(table'[t], keys'[t], numGroups'[t])
                      /\ DOMAIN table'[t] \subseteq K
                      /\ t = 1 \/ from = 0 \/ t >= from =>
                           Complete(table'[t], keys'[t], numGroups'[t])
    BY <1>8, <1>20, <2>1
  <2>2. CASE t = 1
    BY <1>2, <1>4, <1>5, <1>9, <1>10, <1>11, <2>2
  <2>3. CASE t # 1
    BY <1>4, <1>10, <2>3 DEF GroupInv, TablesAgree
  <2> QED
    BY <2>2, <2>3
<1>23. /\ \A q : Waiting(1, q)' <=> q \in DOMAIN tab1
       /\ \A t \in ThreadIds : t # 1 =>
            \A q : Waiting(t, q)' <=> Waiting(t, q) /\ ~(t = f /\ q = k)
  <2>1. \A q : Waiting(1, q)' <=> q \in DOMAIN tab1
    BY <1>9 DEF Waiting
  <2>2. f # 0 /\ ~(f > f)
    BY <1>2
  <2>3. ASSUME NEW t \in ThreadIds, t # 1, NEW q
        PROVE  Waiting(t, q)' <=> Waiting(t, q) /\ ~(t = f /\ q = k)
    BY <1>1, <1>8, <1>10, <2>2, <2>3 DEF Waiting
  <2> QED
    BY <2>1, <2>3
<1>24. PICK own2 : own2 = [p \in Sunk |-> IF own[p] = f /\ RowAt(p).key = k THEN 1 ELSE own[p]]
  OBVIOUS
<1>25. own2 \in [Sunk' -> ThreadIds]
  BY <1>2, <1>14, <1>20, <1>24 DEF Accounts
<1>26. /\ Share(own2, 1, k)' = P \cup Q
       /\ \A q : q # k => Share(own2, 1, q)' = Share(own, 1, q)
       /\ \A t, q : t # 1 /\ ~(t = f /\ q = k) => Share(own2, t, q)' = Share(own, t, q)
  <2>1. \A t, q : Share(own2, t, q)' = {p \in Sunk : own2[p] = t /\ RowAt(p).key = q}
    BY <1>20 DEF Share
  <2>2. \A p \in Sunk : own2[p] = IF own[p] = f /\ RowAt(p).key = k THEN 1 ELSE own[p]
    BY <1>24
  <2>3. Share(own2, 1, k)' = P \cup Q
    BY <1>15, <2>1, <2>2 DEF Share
  <2>4. ASSUME NEW q, q # k
        PROVE  Share(own2, 1, q)' = Share(own, 1, q)
    <3>1. ASSUME NEW p \in Sunk, RowAt(p).key = q
          PROVE  own2[p] = own[p]
      BY <2>2, <2>4, <3>1
    <3>2. Share(own2, 1, q)' = {p \in Sunk : own2[p] = 1 /\ RowAt(p).key = q}
      BY <2>1
    <3> QED
      BY <3>1, <3>2 DEF Share
  <2>5. \A t, q : t # 1 /\ ~(t = f /\ q = k) => Share(own2, t, q)' = Share(own, t, q)
    BY <2>1, <2>2 DEF Share
  <2> QED
    BY <2>3, <2>4, <2>5
<1>27. ASSUME NEW p \in Sunk'
       PROVE  Waiting(own2[p], RowAt(p).key)'
  <2>1. p \in Sunk /\ own[p] \in ThreadIds /\ Waiting(own[p], RowAt(p).key)
    BY <1>14, <1>20 DEF Accounts
  <2>2. PICK t, q : t = own2[p] /\ q = RowAt(p).key
    OBVIOUS
  <2>3. Waiting(t, q)'
    <3>1. CASE own[p] = f /\ q = k
      <4>1. t = 1
        BY <1>24, <2>1, <2>2, <3>1
      <4> QED
        BY <1>11, <1>23, <3>1, <4>1
    <3>2. CASE own[p] # f \/ q # k
      <4>1. t = own[p] /\ t \in ThreadIds /\ Waiting(t, q)
        BY <1>24, <2>1, <2>2, <3>2
      <4>2. Waiting(t, q) => q \in DOMAIN table[t]
        BY DEF Waiting
      <4>3. CASE t = 1
        BY <1>11, <1>23, <4>1, <4>2, <4>3
      <4>4. CASE t # 1
        BY <1>23, <3>2, <4>1, <4>4
      <4> QED
        BY <4>3, <4>4
    <3> QED
      BY <3>1, <3>2
  <2>4. (RowAt(p).key)' = q
    BY <1>20, <2>2
  <2> QED
    BY <2>2, <2>3, <2>4 DEF Waiting
<1>28. ASSUME NEW t \in ThreadIds, NEW q \in DOMAIN table'[t], Waiting(t, q)'
       PROVE  /\ Summable(RowValues, Share(own2, t, q))'
              /\ states'[t][table'[t][q]] = StateOf(RowValues, Share(own2, t, q))'
  <2>1. PICK S : S = Share(own2, t, q)'
    OBVIOUS
  <2>2. Summable(RowValues, S) /\ states'[t][table'[t][q]] = StateOf(RowValues, S)
    <3>1. CASE t = 1 /\ q = k
      BY <1>9, <1>11, <1>18, <1>19, <1>26, <2>1, <3>1
    <3>2. CASE t = 1 /\ q # k
      <4>1. q \in DOMAIN table[1] /\ Waiting(1, q) /\ S = Share(own, 1, q)
        BY <1>9, <1>11, <1>26, <1>28, <2>1, <3>2 DEF Waiting
      <4>2. /\ table'[1][q] = table[1][q] /\ table[1][q] \in 1..n1 /\ table[1][q] # gid
            /\ table[1][q] \in 1..n
        BY <1>4, <1>9, <1>11, <1>12, <3>2, <4>1
      <4>3. states'[1][table'[1][q]] = states[1][table[1][q]]
        BY <1>9, <1>13, <1>19, <4>2
      <4>4. Summable(RowValues, S) /\ states[1][table[1][q]] = StateOf(RowValues, S)
        BY <1>2, <1>14, <4>1 DEF Accounts
      <4> QED
        BY <3>2, <4>3, <4>4
    <3>3. CASE t # 1
      <4>1. /\ Waiting(t, q) /\ ~(t = f /\ q = k) /\ S = Share(own, t, q)
            /\ q \in DOMAIN table[t] /\ states'[t] = states[t] /\ table'[t] = table[t]
        BY <1>10, <1>23, <1>26, <1>28, <2>1, <3>3
      <4>2. Summable(RowValues, S) /\ states[t][table[t][q]] = StateOf(RowValues, S)
        BY <1>14, <4>1 DEF Accounts
      <4> QED
        BY <4>1, <4>2
    <3> QED
      BY <3>1, <3>2, <3>3
  <2>3. Summable(RowValues, S)' /\ states'[t][table'[t][q]] = StateOf(RowValues, S)'
    BY <1>20, <2>2
  <2> QED
    BY <2>1, <2>3 DEF Summable, StateOf
<1>29. Accounts(own2)'
  BY <1>25, <1>27, <1>28 DEF Accounts
<1>30. ResultShown'
  <2>1. from \in 0..NumThreads
    BY <1>1, <1>2
  <2> QED
    BY <1>8, <2>1 DEF GroupInv, ResultShown
<1> QED
  BY <1>21, <1>22, <1>29, <1>30 DEF GroupInv

\* A step of another operator keeps the invariant.
LEMMA StutterKeepsGroups ==
  ASSUME GroupInv, UNCHANGED vars
  PROVE  GroupInv'
<1>1. /\ input' = input /\ todo' = todo /\ table' = table /\ numGroups' = numGroups
      /\ keys' = keys /\ states' = states /\ from' = from /\ left' = left /\ result' = result
  BY DEF vars
<1>2. /\ KeysOf(DOMAIN input)' = KeysOf(DOMAIN input)
      /\ KeysOf(DOMAIN input \ todo)' = KeysOf(DOMAIN input \ todo)
  BY <1>1, RowsStay
<1>3. GroupTypes' /\ ResultShown'
  BY <1>1, <1>2 DEF GroupInv, GroupTypes, ResultShown
<1>4. TablesAgree'
  <2> SUFFICES ASSUME NEW t \in ThreadIds
               PROVE  /\ Placed(table[t], keys[t], numGroups[t])'
                      /\ (DOMAIN table[t] \subseteq KeysOf(DOMAIN input \ todo))'
                      /\ t = 1 \/ from' = 0 \/ t >= from' =>
                           Complete(table[t], keys[t], numGroups[t])'
    BY DEF TablesAgree
  <2>1. /\ Placed(table[t], keys[t], numGroups[t])
        /\ DOMAIN table[t] \subseteq KeysOf(DOMAIN input \ todo)
        /\ t = 1 \/ from = 0 \/ t >= from => Complete(table[t], keys[t], numGroups[t])
    BY DEF GroupInv, TablesAgree
  <2>2. /\ Placed(table[t], keys[t], numGroups[t])' = Placed(table[t], keys[t], numGroups[t])
        /\ Complete(table[t], keys[t], numGroups[t])' = Complete(table[t], keys[t], numGroups[t])
    BY <1>1, Zenon DEF Placed, Complete
  <2> QED
    BY <1>1, <1>2, <2>1, <2>2
<1>5. ASSUME NEW own, Accounts(own)
      PROVE  Accounts(own)'
  <2>1. \A t \in ThreadIds : \A k : Waiting(t, k)' <=> Waiting(t, k)
    BY <1>1 DEF Waiting
  <2> QED
    BY <1>1, <1>5, <2>1, AccountsStay
<1> QED
  BY <1>3, <1>4, <1>5 DEF GroupInv

\* Before the first batch no row is sunk and no thread has a group.
LEMMA GroupsBegin ==
  ASSUME GroupConstants, Init
  PROVE  GroupInv
<1>1. /\ input \in Inputs /\ todo = DOMAIN input /\ from = 0 /\ left = {} /\ result = <<>>
      /\ table = [t \in ThreadIds |-> None] /\ numGroups = [t \in ThreadIds |-> 0]
      /\ keys = [t \in ThreadIds |-> <<>>] /\ states = [t \in ThreadIds |-> <<>>]
      /\ DOMAIN None = {}
  BY DEF Init, None
<1>2. 0 \in 0..(NumThreads + 1) /\ 0 \in 0..NumThreads /\ 0 \notin ThreadIds
  BY DEF GroupConstants, ThreadIds
<1>3. <<>> \in [1..0 -> GroupState] /\ <<>> \in Seq(KeysOf(DOMAIN input)) /\ Len(<<>>) = 0
  <2>1. <<>> \in Seq(GroupState) /\ <<>> \in Seq(KeysOf(DOMAIN input)) /\ Len(<<>>) = 0
    BY EmptySeq
  <2> QED
    BY <2>1, LenProperties
<1>4. GroupTypes
  BY <1>1, <1>2, <1>3 DEF GroupTypes
<1>5. Placed(None, <<>>, 0) /\ Complete(None, <<>>, 0)
  <2>1. DOMAIN <<>> = {} /\ 1..0 = {}
    BY <1>3
  <2> QED
    BY <1>1, <1>3, <2>1 DEF Placed, Complete, IsInjective
<1>6. TablesAgree
  BY <1>1, <1>5 DEF TablesAgree
<1>7. Accounts([p \in Sunk |-> 1])
  <2>1. Sunk = {}
    BY <1>1 DEF Sunk, RowsOf
  <2> QED
    BY <1>1, <2>1 DEF Accounts
<1>8. ResultShown
  BY <1>1, <1>2 DEF ResultShown
<1> QED
  BY <1>4, <1>6, <1>7, <1>8 DEF GroupInv

\* Every step of GroupBy keeps the invariant.
LEMMA GroupsKeep ==
  ASSUME GroupConstants, GroupInv, [Next]_vars
  PROVE  GroupInv'
<1>1. ASSUME NEW t \in ThreadIds, Sink(t)
      PROVE  GroupInv'
  BY <1>1, SinkKeepsGroups
<1>2. CASE StartFinalize
  BY <1>2, StartKeepsGroups
<1>3. ASSUME NEW k \in left, MergeEntry(k)
      PROVE  GroupInv'
  BY <1>3, MergeKeepsGroups
<1>4. CASE NextThread
  BY <1>4, NextKeepsGroups
<1>5. CASE UNCHANGED vars
  BY <1>5, StutterKeepsGroups
<1> QED
  BY <1>1, <1>2, <1>3, <1>4, <1>5 DEF Next

-----------------------------------------------------------------------------
(* GroupBy: what the invariant says. *)

\* The types.
LEMMA GroupsTyped ==
  ASSUME GroupConstants, GroupInv
  PROVE  TypeOK
<1>1. ASSUME NEW t \in ThreadIds
      PROVE  /\ numGroups[t] \in Nat /\ DOMAIN table[t] \subseteq KeysOf(DOMAIN input)
             /\ \A k \in DOMAIN table[t] : table[t][k] \in 1..numGroups[t]
             /\ keys[t] \in Seq(KeysOf(DOMAIN input))
  <2>1. KeysOf(DOMAIN input \ todo) \subseteq KeysOf(DOMAIN input)
    BY DEF KeysOf, RowsOf
  <2> QED
    BY <2>1 DEF GroupInv, GroupTypes, TablesAgree, Placed
<1>2. left \subseteq KeysOf(DOMAIN input)
  BY <1>1 DEF GroupInv, GroupTypes
<1> QED
  BY <1>1, <1>2 DEF TypeOK, GroupInv, GroupTypes

\* The tables, the keys and the states agree.
LEMMA GroupsAligned ==
  ASSUME GroupConstants, GroupInv
  PROVE  Aligned
<1> SUFFICES ASSUME NEW t \in ThreadIds
             PROVE  /\ Len(keys[t]) = numGroups[t] /\ Len(states[t]) = numGroups[t]
                    /\ \A k \in DOMAIN table[t] : keys[t][table[t][k]] = k
                    /\ IsInjective(keys[t])
  BY DEF Aligned
<1>1. Placed(table[t], keys[t], numGroups[t])
  BY DEF GroupInv, TablesAgree
<1>2. PICK n, s : n = numGroups[t] /\ s = states[t] /\ n \in Nat /\ s \in [1..n -> GroupState]
  BY DEF GroupInv, GroupTypes
<1>3. Len(s) = n
  <2>1. s \in Seq(GroupState)
    BY <1>2, SeqDef
  <2> QED
    BY <1>2, <2>1, LenProperties
<1> QED
  BY <1>1, <1>2, <1>3 DEF Placed

\* What the functions should hold for a key is what the aggregates of its rows are.
LEMMA ReferenceIs ==
  ASSUME NEW k, NEW R, R \subseteq RowsOf(DOMAIN input)
  PROVE  Reference(k, R) = StateOf(RowValues, {p \in R : RowAt(p).key = k})
<1>1. PICK M : M = {p \in R : RowAt(p).key = k}
  OBVIOUS
<1>2. \A p \in M : RowValues[p] = RowAt(p).value
  BY <1>1 DEF RowValues
<1>3. {RowAt(p).value : p \in M} = ValuesOf(RowValues, M)
  BY <1>2 DEF ValuesOf
<1>4. [p \in M |-> RowAt(p).value] = [p \in M |-> RowValues[p]]
  BY <1>2
<1>5. SumFunction([p \in M |-> RowAt(p).value]) = SumOf(RowValues, M)
  BY <1>4 DEF SumOf
<1> QED
  BY <1>1, <1>3, <1>5 DEF Reference, StateOf

\* After Finalize the first thread has everything.
LEMMA ResultGroups ==
  ASSUME GroupConstants, GroupInv
  PROVE  ResultIsGrouping
<1> SUFFICES ASSUME Finished
             PROVE  /\ {result[i].key : i \in DOMAIN result} = KeysOf(DOMAIN input)
                    /\ Len(result) = Cardinality(KeysOf(DOMAIN input))
                    /\ \A i \in DOMAIN result :
                         result[i].state = Reference(result[i].key, RowsOf(DOMAIN input))
  BY DEF ResultIsGrouping
<1>1. PICK own : Accounts(own)
  BY DEF GroupInv
<1>2. /\ from \notin 0..NumThreads /\ from # 0 /\ ~(\E t \in ThreadIds : t > from \/ t = from)
      /\ todo = {} /\ 1 \in ThreadIds
  BY DEF Finished, GroupInv, GroupTypes, GroupConstants, ThreadIds
<1>3. PICK n, ks, st, K : /\ n = numGroups[1] /\ ks = keys[1] /\ st = states[1]
                          /\ K = KeysOf(DOMAIN input)
  OBVIOUS
<1>4. /\ n \in Nat /\ ks \in Seq(K) /\ Placed(table[1], ks, n) /\ Complete(table[1], ks, n)
      /\ DOMAIN input \ todo = DOMAIN input /\ Sunk = RowsOf(DOMAIN input)
  BY <1>2, <1>3 DEF GroupInv, GroupTypes, TablesAgree, Sunk
<1>5. result = [g \in 1..n |-> [key |-> ks[g], state |-> st[g]]]
  BY <1>2, <1>3 DEF GroupInv, ResultShown
<1>6. DOMAIN result = 1..n /\ \A g \in 1..n : result[g].key = ks[g] /\ result[g].state = st[g]
  BY <1>5
<1>7. Len(result) = n
  <2>1. PICK r, X : r = result /\ X = {result[g] : g \in 1..n}
    OBVIOUS
  <2>2. r \in [1..n -> X]
    <3>1. r = [g \in 1..n |-> r[g]]
      BY <1>5, <2>1
    <3> QED
      BY <2>1, <3>1
  <2>3. r \in Seq(X)
    BY <1>4, <2>2, SeqDef
  <2> QED
    BY <1>4, <1>6, <2>1, <2>3, LenProperties
<1>8. \A p \in Sunk : own[p] = 1 /\ RowAt(p).key \in DOMAIN table[1]
  <2> TAKE p \in Sunk
  <2>1. own[p] \in ThreadIds /\ Waiting(own[p], RowAt(p).key)
    BY <1>1 DEF Accounts
  <2> QED
    BY <1>2, <2>1 DEF Waiting
<1>9. {ks[g] : g \in 1..n} = K
  <2>1. ASSUME NEW g \in 1..n
        PROVE  ks[g] \in K
    <3>1. DOMAIN ks = 1..n
      BY <1>4, LenProperties DEF Placed
    <3> QED
      BY <1>4, <3>1, ElementOfSeq DEF Placed
  <2>2. ASSUME NEW k \in K
        PROVE  \E g \in 1..n : ks[g] = k
    <3>1. k \in DOMAIN table[1]
      BY <1>3, <1>4, <1>8 DEF KeysOf
    <3> QED
      BY <1>4, <3>1 DEF Placed
  <2> QED
    BY <2>1, <2>2
<1>10. Cardinality(K) = n
  <2>1. \A g, h \in 1..n : ks[g] = ks[h] => g = h
    <3>1. DOMAIN ks = 1..n /\ IsInjective(ks)
      BY <1>4, LenProperties DEF Placed
    <3> QED
      BY <3>1 DEF IsInjective
  <2> QED
    BY <1>4, <1>9, <2>1, FirstElements
<1>11. ASSUME NEW g \in 1..n
       PROVE  st[g] = Reference(ks[g], RowsOf(DOMAIN input))
  <2>1. st[g] = StateOf(RowValues, Share(own, 1, ks[g]))
    BY <1>1, <1>2, <1>3, GroupsOfThread
  <2>2. Share(own, 1, ks[g]) = {p \in RowsOf(DOMAIN input) : RowAt(p).key = ks[g]}
    BY <1>4, <1>8 DEF Share
  <2> QED
    BY <2>1, <2>2, ReferenceIs
<1> QED
  BY <1>3, <1>6, <1>7, <1>9, <1>10, <1>11

\* Combine keeps the type of a state.
LEMMA CombineType ==
  ASSUME GroupConstants, NEW x \in GroupState, NEW s \in GroupState
  PROVE  Combine(x, s) \in GroupState
<1>1. PICK y \in Int : y = x.sum + s.sum
  BY DEF GroupState
<1>2. WrapSum(y) \in Int
  BY WrapFits
<1>3. (IF ~s.has \/ (x.has /\ x.max > s.max) THEN x.max ELSE s.max) \in Int
  BY DEF GroupState
<1> QED
  BY <1>1, <1>2, <1>3 DEF Combine, GroupState

\* The states for one key, of which s[t] is the one of thread t, combined thread
\* by thread from Fresh on: those of the threads outside W are left out.
Combined(H, s, W, n) ==
  /\ H[0] = Fresh
  /\ \A t \in 1..n : H[t] = IF t \in W THEN Combine(H[t - 1], s[t]) ELSE H[t - 1]

\* If the threads in W have the aggregates of the disjoint sets of rows P[t], and
\* the others have no rows, they combine to the aggregates of the union.
LEMMA CombinedIs ==
  ASSUME GroupConstants, NEW n \in Nat, NEW s, NEW W, NEW H, Combined(H, s, W, n),
         NEW v, NEW P,
         \A t \in 1..n : t \in W => Summable(v, P[t]) /\ s[t] = StateOf(v, P[t]),
         \A t \in 1..n : t \notin W => P[t] = {},
         \A t, u \in 1..n : t # u => P[t] \cap P[u] = {}
  PROVE  H[n] = StateOf(v, UNION {P[t] : t \in 1..n})
<1> DEFINE Upto(m) == UNION {P[t] : t \in 1..m}
           Right(m) == Summable(v, Upto(m)) /\ H[m] = StateOf(v, Upto(m))
           T == {m \in Nat : m <= n => Right(m)}
<1>1. 0 \in T
  <2>1. Upto(0) = {}
    OBVIOUS
  <2>2. Summable(v, {}) /\ StateOf(v, {}) = Fresh
    BY FS_EmptySet, StateOfNone DEF Summable
  <2> QED
    BY <2>1, <2>2 DEF Combined
<1>2. ASSUME NEW m \in Nat, Right(m), m + 1 <= n
      PROVE  Right(m + 1)
  <2>1. PICK t \in 1..n : t = m + 1 /\ t - 1 = m
    BY <1>2
  <2>2. Upto(t) = Upto(m) \cup P[t]
    <3>1. \A u : u \in 1..t <=> u \in 1..m \/ u = t
      BY <2>1
    <3> QED
      BY <3>1
  <2>3. H[t] = IF t \in W THEN Combine(H[m], s[t]) ELSE H[m]
    BY <2>1 DEF Combined
  <2>4. Upto(m) \cap P[t] = {}
    <3>1. \A u \in 1..m : u \in 1..n /\ u # t
      BY <2>1
    <3> QED
      BY <3>1
  <2>5. Summable(v, Upto(m)) /\ H[m] = StateOf(v, Upto(m))
    BY <1>2
  <2> HIDE DEF Upto
  <2>6. CASE t \in W
    <3>1. PICK A, B : A = Upto(m) /\ B = P[t]
      OBVIOUS
    <3>2. /\ Summable(v, A) /\ Summable(v, B) /\ A \cap B = {}
          /\ H[m] = StateOf(v, A) /\ s[t] = StateOf(v, B) /\ Upto(t) = A \cup B
      BY <2>2, <2>4, <2>5, <2>6, <3>1
    <3>3. Summable(v, A \cup B) /\ Combine(StateOf(v, A), StateOf(v, B)) = StateOf(v, A \cup B)
      BY ONLY GroupConstants, <3>2, CombineStates
    <3> QED
      BY <2>1, <2>3, <2>6, <3>2, <3>3
  <2>7. CASE t \notin W
    <3>1. Upto(t) = Upto(m)
      BY <2>2, <2>7
    <3> QED
      BY <2>1, <2>3, <2>5, <2>7, <3>1
  <2> QED
    BY <2>6, <2>7
<1> HIDE DEF Right
<1>3. \A m \in Nat : m \in T => m + 1 \in T
  BY <1>2
<1>4. n \in T
  <2> HIDE DEF T
  <2> QED
    BY <1>1, <1>3, SetInduction
<1> QED
  BY <1>4 DEF Right

\* Finalize neither loses a group's share nor counts it twice.
LEMMA GroupsConserve ==
  ASSUME GroupConstants, GroupInv
  PROVE  MergeConserves
<1> SUFFICES ASSUME NEW k \in KeysOf(DOMAIN input \ todo)
             PROVE  LET waits(t) == /\ k \in DOMAIN table[t]
                                    /\ \/ t = 1 \/ from = 0 \/ t > from \/ (t = from /\ k \in left)
                        upTo[t \in 0..NumThreads] ==
                          IF t = 0 THEN Fresh
                          ELSE IF waits(t) THEN Combine(upTo[t - 1], states[t][table[t][k]])
                          ELSE upTo[t - 1]
                    IN upTo[NumThreads] = Reference(k, RowsOf(DOMAIN input \ todo))
  BY DEF MergeConserves
<1>1. PICK own : Accounts(own)
  BY DEF GroupInv
<1> DEFINE s == [t \in ThreadIds |-> states[t][table[t][k]]]
           W == {t \in ThreadIds : Waiting(t, k)}
           P == [t \in ThreadIds |-> Share(own, t, k)]
           Step(x, t) == IF t \in W THEN Combine(x, s[t]) ELSE x
           g == [t \in 1..NumThreads |-> [x \in GroupState |-> Step(x, t)]]
           Is(F) == F = [t \in 0..NumThreads |-> IF t = 0 THEN Fresh ELSE Step(F[t - 1], t)]
           H == CHOOSE F : Is(F)
<1>2. NumThreads \in Nat /\ ThreadIds = 1..NumThreads
  BY DEF GroupConstants, ThreadIds
<1>3. ASSUME NEW t \in ThreadIds
      PROVE  /\ t \in W => Summable(RowValues, P[t]) /\ s[t] = StateOf(RowValues, P[t])
             /\ t \notin W => P[t] = {}
  <2>1. Waiting(t, k) => /\ Summable(RowValues, Share(own, t, k))
                         /\ states[t][table[t][k]] = StateOf(RowValues, Share(own, t, k))
    BY <1>1 DEF Accounts, Waiting
  <2>2. ~Waiting(t, k) => Share(own, t, k) = {}
    BY <1>1 DEF Accounts, Share
  <2> QED
    BY <2>1, <2>2
<1>4. \A t, u \in ThreadIds : t # u => P[t] \cap P[u] = {}
  BY DEF Share
<1>5. UNION {P[t] : t \in ThreadIds} = {p \in RowsOf(DOMAIN input \ todo) : RowAt(p).key = k}
  BY <1>1 DEF Share, Sunk, Accounts
<1>6. ASSUME NEW t \in ThreadIds, NEW x \in GroupState
      PROVE  Step(x, t) \in GroupState
  <2>1. CASE t \in W
    <3>1. s[t] \in GroupState
      <4> HIDE DEF s, P, W
      <4>1. PICK Q : Q = P[t]
        OBVIOUS
      <4>2. Summable(RowValues, Q) /\ s[t] = StateOf(RowValues, Q)
        BY <1>3, <2>1, <4>1
      <4> QED
        BY <4>2, StateOfType
    <3> HIDE DEF s, P, W
    <3> QED
      BY <2>1, <3>1, CombineType
  <2>2. CASE t \notin W
    BY <2>2
  <2> QED
    BY <2>1, <2>2
<1> HIDE DEF W, s, P
<1>7. g \in [1..NumThreads -> [GroupState -> GroupState]]
  BY <1>2, <1>6
<1>8. \A t \in 1..NumThreads, x \in GroupState : g[t][x] = Step(x, t)
  OBVIOUS
<1>9. Fresh \in GroupState
  BY DEF Fresh, GroupState
<1> HIDE DEF g, Step
<1>10. PICK F \in [0..NumThreads -> GroupState] : Recurs(F, NumThreads, Fresh, g)
  BY <1>2, <1>7, <1>9, RecursionExists
<1>11. Is(F)
  <2>1. \A t \in 0..NumThreads : t = 0 \/ (t \in 1..NumThreads /\ t - 1 \in 0..NumThreads)
    BY <1>2
  <2>2. \A t \in 0..NumThreads : F[t] = IF t = 0 THEN Fresh ELSE Step(F[t - 1], t)
    BY <1>8, <1>10, <2>1 DEF Recurs
  <2>3. F = [t \in 0..NumThreads |-> F[t]]
    BY <1>10
  <2> QED
    BY <2>2, <2>3, Zenon
<1>12. Is(H)
  BY <1>11
<1>13. Combined(H, s, W, NumThreads)
  <2> HIDE DEF H
  <2>1. \A t \in 0..NumThreads : H[t] = IF t = 0 THEN Fresh ELSE Step(H[t - 1], t)
    BY <1>12, Zenon
  <2>2. 0 \in 0..NumThreads /\ \A t \in 1..NumThreads : t \in 0..NumThreads /\ t # 0
    BY <1>2
  <2> QED
    BY <2>1, <2>2 DEF Combined, Step
<1>14. H[NumThreads] = Reference(k, RowsOf(DOMAIN input \ todo))
  <2> HIDE DEF H
  <2>1. H[NumThreads] = StateOf(RowValues, UNION {P[t] : t \in 1..NumThreads})
    BY <1>2, <1>3, <1>4, <1>13, CombinedIs, SMTT(30)
  <2>2. RowsOf(DOMAIN input \ todo) \subseteq RowsOf(DOMAIN input)
    BY DEF RowsOf
  <2> QED
    BY <1>2, <1>5, <2>1, <2>2, ReferenceIs
<1>15. H = CHOOSE upTo : upTo = [t \in 0..NumThreads |->
             IF t = 0 THEN Fresh
             ELSE IF /\ k \in DOMAIN table[t]
                     /\ t = 1 \/ from = 0 \/ t > from \/ (t = from /\ k \in left)
                    THEN Combine(upTo[t - 1], states[t][table[t][k]])
                    ELSE upTo[t - 1]]
  <2> DEFINE Other(F2) == F2 = [t \in 0..NumThreads |->
             IF t = 0 THEN Fresh
             ELSE IF /\ k \in DOMAIN table[t]
                     /\ t = 1 \/ from = 0 \/ t > from \/ (t = from /\ k \in left)
                    THEN Combine(F2[t - 1], states[t][table[t][k]])
                    ELSE F2[t - 1]]
  <2>1. \A t \in 0..NumThreads : t = 0 \/ t \in ThreadIds
    BY <1>2
  <2>2. ASSUME NEW F2
        PROVE  Is(F2) <=> Other(F2)
    <3>1. ASSUME NEW t \in 0..NumThreads, t # 0
          PROVE  Step(F2[t - 1], t) =
                   IF /\ k \in DOMAIN table[t]
                      /\ t = 1 \/ from = 0 \/ t > from \/ (t = from /\ k \in left)
                     THEN Combine(F2[t - 1], states[t][table[t][k]])
                     ELSE F2[t - 1]
      BY <2>1, <3>1 DEF Step, W, s, Waiting
    <3> QED
      BY <3>1
  <2>3. H = CHOOSE F2 : Other(F2)
    <3> HIDE DEF Other, Is
    <3>1. \A F2 : Is(F2) = Other(F2)
      BY <2>2
    <3> QED
      BY <3>1, Zenon
  <2> QED
    BY <2>3
<1> QED
  BY <1>14, <1>15

-----------------------------------------------------------------------------
(* GlobalAggregate: the aggregates of a set of rows. *)

\* The library's operators are what they are under any name.
LEMMA SameOperators ==
  /\ \A S : Global!Min(S) = Min(S) /\ Global!Max(S) = Max(S)
  /\ \A S : Global!Cardinality(S) = Cardinality(S)
  /\ \A f : Global!SumFunction(f) = SumFunction(f)
<1>1. \A S : Global!Min(S) = Min(S) /\ Global!Max(S) = Max(S)
  BY DEF Global!Min, Min, Global!Max, Max
<1>2. \A S : Global!Cardinality(S) = Cardinality(S)
  BY DEF Global!Cardinality, Cardinality
<1>3. \A f : Global!SumFunction(f) = SumFunction(f)
  BY DEF Global!SumFunction, SumFunction, Global!SumFunctionOnSet, SumFunctionOnSet,
         Global!FoldFunctionOnSet, FoldFunctionOnSet, Global!MapThenFoldSet, MapThenFoldSet
<1> QED
  BY <1>1, <1>2, <1>3

\* What the functions should hold for the rows P, by definition.
TotalsOf(v, P) ==
  [typed    |-> [has |-> P # {},
                 min |-> IF P = {} THEN 0 ELSE Min(ValuesOf(v, P)),
                 max |-> IF P = {} THEN 0 ELSE Max(ValuesOf(v, P)),
                 sum |-> WrapSum(SumOf(v, P))],
   count    |-> Cardinality(P),
   avg      |-> [sum |-> WrapSum(SumOf(v, P)), count |-> Cardinality(P)],
   distinct |-> ValuesOf(v, P)]

TotalsType == [typed    : [has : BOOLEAN, min : Int, max : Int, sum : Int],
               count    : Nat,
               avg      : [sum : Int, count : Nat],
               distinct : SUBSET Int]

\* The one wrap is the other.
LEMMA SameWrap == \A x : Global!Wrap(x) = WrapSum(x)
BY DEF Global!Wrap, WrapSum

\* The aggregates have the types of the states.
LEMMA TotalsOfType ==
  ASSUME GroupConstants, NEW v, NEW P, Summable(v, P)
  PROVE  TotalsOf(v, P) \in TotalsType
<1>1. SumOf(v, P) \in Int
  BY StateOfType
<1>2. WrapSum(SumOf(v, P)) \in Int
  BY <1>1, WrapFits
<1>3. Cardinality(P) \in Nat
  BY FS_CardinalityType DEF Summable
<1>4. ValuesOf(v, P) \in SUBSET Int
  BY DEF ValuesOf, Summable
<1>5. P # {} => Min(ValuesOf(v, P)) \in Int /\ Max(ValuesOf(v, P)) \in Int
  BY <1>4, GreatestValue
<1>6. [sum |-> WrapSum(SumOf(v, P)), count |-> Cardinality(P)] \in [sum : Int, count : Nat]
  BY <1>2, <1>3
<1>7. [has |-> P # {},
       min |-> IF P = {} THEN 0 ELSE Min(ValuesOf(v, P)),
       max |-> IF P = {} THEN 0 ELSE Max(ValuesOf(v, P)),
       sum |-> WrapSum(SumOf(v, P))] \in [has : BOOLEAN, min : Int, max : Int, sum : Int]
  BY <1>2, <1>5
<1> QED
  BY <1>3, <1>4, <1>6, <1>7 DEF TotalsOf, TotalsType

\* A thread without rows has the default values.
LEMMA TotalsOfNone ==
  ASSUME GroupConstants, NEW v
  PROVE  TotalsOf(v, {}) = Global!Fresh
<1>1. SumOf(v, {}) = 0
  BY SumOfNone
<1>2. WrapSum(0) = 0
  <2>1. 0 \in (-SumLimit)..(SumLimit - 1)
    BY DEF GroupConstants
  <2> QED
    BY <2>1, WrapFits
<1>3. Cardinality({}) = 0 /\ ValuesOf(v, {}) = {}
  BY FS_EmptySet DEF ValuesOf
<1> QED
  BY <1>1, <1>2, <1>3 DEF TotalsOf, Global!Fresh

\* The least and the greatest of the values of two sets of rows.
LEMMA ExtremesOfUnion ==
  ASSUME NEW v, NEW P, Summable(v, P), NEW Q, Summable(v, Q), P # {}, Q # {}
  PROVE  /\ Max(ValuesOf(v, P \cup Q)) =
              IF Max(ValuesOf(v, Q)) > Max(ValuesOf(v, P))
                THEN Max(ValuesOf(v, Q)) ELSE Max(ValuesOf(v, P))
         /\ Min(ValuesOf(v, P \cup Q)) =
              IF Min(ValuesOf(v, Q)) < Min(ValuesOf(v, P))
                THEN Min(ValuesOf(v, Q)) ELSE Min(ValuesOf(v, P))
<1>1. PICK A, B, C : A = ValuesOf(v, P) /\ B = ValuesOf(v, Q) /\ C = ValuesOf(v, P \cup Q)
  OBVIOUS
<1>2. C = A \cup B
  BY <1>1 DEF ValuesOf
<1>3. PICK x, y, z, w : x = Max(A) /\ y = Max(B) /\ z = Min(A) /\ w = Min(B)
  OBVIOUS
<1>4. /\ A \in SUBSET Int /\ x \in A /\ (\A i \in A : x >= i) /\ z \in A /\ (\A i \in A : z <= i)
      /\ B \in SUBSET Int /\ y \in B /\ (\A i \in B : y >= i) /\ w \in B /\ (\A i \in B : w <= i)
  BY <1>1, <1>3, GreatestValue
<1>5. C \in SUBSET Int
  BY <1>2, <1>4
<1>6. Max(C) = IF y > x THEN y ELSE x
  <2>1. PICK m : m = IF y > x THEN y ELSE x
    OBVIOUS
  <2>2. m \in C /\ \A i \in C : m >= i
    BY <1>2, <1>4, <2>1
  <2> QED
    BY <1>5, <2>1, <2>2, MaxIs
<1>7. Min(C) = IF w < z THEN w ELSE z
  <2>1. PICK m : m = IF w < z THEN w ELSE z
    OBVIOUS
  <2>2. m \in C /\ \A i \in C : m <= i
    BY <1>2, <1>4, <2>1
  <2> QED
    BY <1>5, <2>1, <2>2, MinIs
<1> QED
  BY <1>1, <1>3, <1>6, <1>7

\* The states of disjoint sets of rows merge to that of their union.
LEMMA MergeTotals ==
  ASSUME GroupConstants, NEW v, NEW P, Summable(v, P), NEW Q, Summable(v, Q), P \cap Q = {}
  PROVE  /\ Summable(v, P \cup Q)
         /\ Global!MergeStates(TotalsOf(v, P), TotalsOf(v, Q)) = TotalsOf(v, P \cup Q)
<1>1. Summable(v, P \cup Q)
  BY CombineStates
<1>2. /\ WrapSum(WrapSum(SumOf(v, P)) + WrapSum(SumOf(v, Q))) = WrapSum(SumOf(v, P \cup Q))
      /\ Cardinality(P) + Cardinality(Q) = Cardinality(P \cup Q)
      /\ ValuesOf(v, P) \cup ValuesOf(v, Q) = ValuesOf(v, P \cup Q)
  <2>1. Combine(StateOf(v, P), StateOf(v, Q)) = StateOf(v, P \cup Q)
    BY CombineStates
  <2>2. /\ Combine(StateOf(v, P), StateOf(v, Q)).sum
             = WrapSum(WrapSum(SumOf(v, P)) + WrapSum(SumOf(v, Q)))
        /\ Combine(StateOf(v, P), StateOf(v, Q)).count = Cardinality(P) + Cardinality(Q)
        /\ Combine(StateOf(v, P), StateOf(v, Q)).seen = ValuesOf(v, P) \cup ValuesOf(v, Q)
    BY DEF Combine, StateOf
  <2>3. /\ StateOf(v, P \cup Q).sum = WrapSum(SumOf(v, P \cup Q))
        /\ StateOf(v, P \cup Q).count = Cardinality(P \cup Q)
        /\ StateOf(v, P \cup Q).seen = ValuesOf(v, P \cup Q)
    BY DEF StateOf
  <2> QED
    BY <2>1, <2>2, <2>3
<1>3. PICK a, b, c : a = TotalsOf(v, P) /\ b = TotalsOf(v, Q) /\ c = TotalsOf(v, P \cup Q)
  OBVIOUS
<1>4. /\ a.count = Cardinality(P) /\ a.avg = [sum |-> WrapSum(SumOf(v, P)), count |-> Cardinality(P)]
      /\ b.count = Cardinality(Q) /\ b.avg = [sum |-> WrapSum(SumOf(v, Q)), count |-> Cardinality(Q)]
      /\ a.distinct = ValuesOf(v, P) /\ b.distinct = ValuesOf(v, Q)
      /\ c = [typed |-> c.typed, count |-> Cardinality(P \cup Q),
              avg |-> [sum |-> WrapSum(SumOf(v, P \cup Q)), count |-> Cardinality(P \cup Q)],
              distinct |-> ValuesOf(v, P \cup Q)]
  BY <1>3 DEF TotalsOf
<1> DEFINE Typed(R) == [has |-> R # {}, min |-> IF R = {} THEN 0 ELSE Min(ValuesOf(v, R)),
                        max |-> IF R = {} THEN 0 ELSE Max(ValuesOf(v, R)),
                        sum |-> WrapSum(SumOf(v, R))]
<1>9. a.typed = Typed(P) /\ b.typed = Typed(Q) /\ c.typed = Typed(P \cup Q)
  BY <1>3 DEF TotalsOf
<1>10. ASSUME NEW R
       PROVE  /\ R = {} => Typed(R).has = FALSE /\ Typed(R) = Typed({})
              /\ R # {} => Typed(R) = [has |-> TRUE, min |-> Min(ValuesOf(v, R)),
                                      max |-> Max(ValuesOf(v, R)), sum |-> WrapSum(SumOf(v, R))]
  <2>1. CASE R = {}
    <3>1. (R # {}) = FALSE
      BY <2>1
    <3> QED
      BY <2>1, <3>1
  <2>2. CASE R # {}
    <3>1. (R # {}) = TRUE
      BY <2>2
    <3> QED
      BY <2>2, <3>1
  <2> QED
    BY <2>1, <2>2
<1> HIDE DEF Typed
<1>5. Global!ApplyIfAny(a.typed, b.typed) = c.typed
  <2>1. CASE Q = {}
    <3>1. c.typed = a.typed /\ ~b.typed.has
      BY <1>9, <1>10, <2>1
    <3>2. a.typed.has \/ a.typed = b.typed
      <4>1. CASE P = {}
        BY <1>9, <2>1, <4>1
      <4>2. CASE P # {}
        <5>1. Typed(P) = [has |-> TRUE, min |-> Min(ValuesOf(v, P)),
                          max |-> Max(ValuesOf(v, P)), sum |-> WrapSum(SumOf(v, P))]
          BY <1>10, <4>2
        <5>2. Typed(P).has = TRUE
          BY ONLY <5>1
        <5> QED
          BY <1>9, <5>2
      <4> QED
        BY <4>1, <4>2
    <3> QED
      BY <3>1, <3>2 DEF Global!ApplyIfAny
  <2>2. CASE P = {} /\ Q # {}
    <3>1. c.typed = b.typed /\ ~a.typed.has
      BY <1>9, <1>10, <2>2
    <3> QED
      BY <3>1 DEF Global!ApplyIfAny
  <2>3. CASE P # {} /\ Q # {}
    <3>1. PICK x, y, z, w, xy, zw :
            /\ x = Max(ValuesOf(v, P)) /\ y = Max(ValuesOf(v, Q)) /\ xy = Max(ValuesOf(v, P \cup Q))
            /\ z = Min(ValuesOf(v, P)) /\ w = Min(ValuesOf(v, Q)) /\ zw = Min(ValuesOf(v, P \cup Q))
      OBVIOUS
    <3>2. xy = (IF y > x THEN y ELSE x) /\ zw = (IF w < z THEN w ELSE z)
      BY <2>3, <3>1, ExtremesOfUnion
    <3>3. a.typed = [has |-> TRUE, min |-> z, max |-> x, sum |-> WrapSum(SumOf(v, P))]
      BY <1>9, <1>10, <2>3, <3>1
    <3>4. b.typed = [has |-> TRUE, min |-> w, max |-> y, sum |-> WrapSum(SumOf(v, Q))]
      BY <1>9, <1>10, <2>3, <3>1
    <3>5. c.typed = [has |-> TRUE, min |-> zw, max |-> xy, sum |-> WrapSum(SumOf(v, P \cup Q))]
      <4>1. P \cup Q # {}
        BY <2>3
      <4> QED
        BY <1>9, <1>10, <3>1, <4>1
    <3>6. Global!ApplyIfAny(a.typed, b.typed) = Global!Apply(a.typed, b.typed)
      BY <3>3, <3>4 DEF Global!ApplyIfAny
    <3>7. Global!Apply(a.typed, b.typed)
            = [has |-> TRUE, min |-> IF w < z THEN w ELSE z, max |-> IF y > x THEN y ELSE x,
               sum |-> WrapSum(WrapSum(SumOf(v, P)) + WrapSum(SumOf(v, Q)))]
      <4>1. PICK s, t : s = WrapSum(SumOf(v, P)) /\ t = WrapSum(SumOf(v, Q))
        OBVIOUS
      <4>2. PICK m, n : m = a.typed /\ n = b.typed
        OBVIOUS
      <4>3. m.min = z /\ m.max = x /\ m.sum = s /\ n.min = w /\ n.max = y /\ n.sum = t
        BY ONLY <3>3, <3>4, <4>1, <4>2
      <4>4. Global!Apply(m, n) = [has |-> TRUE, min |-> IF n.min < m.min THEN n.min ELSE m.min,
                                  max |-> IF n.max > m.max THEN n.max ELSE m.max,
                                  sum |-> WrapSum(m.sum + n.sum)]
        BY SameWrap DEF Global!Apply
      <4> QED
        BY ONLY <4>1, <4>2, <4>3, <4>4
    <3> QED
      BY <1>2, <3>2, <3>5, <3>6, <3>7
  <2> QED
    BY <2>1, <2>2, <2>3
<1>6. Global!MergeStates(a, b) =
        [typed |-> Global!ApplyIfAny(a.typed, b.typed), count |-> a.count + b.count,
         avg |-> [sum |-> WrapSum(a.avg.sum + b.avg.sum), count |-> a.avg.count + b.avg.count],
         distinct |-> a.distinct \cup b.distinct]
  BY SameWrap DEF Global!MergeStates, Global!TypedResult, Global!CountResult, Global!AvgResult,
                  Global!DistinctResult
<1>7. /\ a.avg.sum = WrapSum(SumOf(v, P)) /\ a.avg.count = Cardinality(P)
      /\ b.avg.sum = WrapSum(SumOf(v, Q)) /\ b.avg.count = Cardinality(Q)
  BY <1>4
<1>8. Global!MergeStates(a, b) = c
  BY <1>2, <1>4, <1>5, <1>6, <1>7
<1> QED
  BY <1>1, <1>3, <1>8

\* One row more: it is as if it were the only row of another thread.
LEMMA UpdateTotals ==
  ASSUME GroupConstants, NEW v, NEW P, Summable(v, P), NEW p, p \notin P,
         v[p] \in (-SumLimit)..(SumLimit - 1)
  PROVE  /\ Summable(v, P \cup {p})
         /\ Global!UpdateRow(TotalsOf(v, P), v[p]) = TotalsOf(v, P \cup {p})
<1>1. PICK x : x = v[p]
  OBVIOUS
<1>2. x \in Int /\ WrapSum(x) = x /\ Summable(v, {p})
  <2>1. SumLimit \in Nat
    BY DEF GroupConstants
  <2>2. x \in Int
    BY <1>1, <2>1
  <2> QED
    BY <1>1, <2>2, WrapFits, FS_Singleton DEF Summable
<1>3. SumOf(v, {p}) = x /\ ValuesOf(v, {p}) = {x} /\ Cardinality({p}) = 1
  <2>1. IsFiniteSet({}) /\ p \notin {} /\ {} \cup {p} = {p} /\ \A q \in {} \cup {p} : v[q] \in Int
    BY <1>1, <1>2, FS_EmptySet
  <2>2. SumOf(v, {} \cup {p}) = SumOf(v, {}) + v[p]
    BY ONLY <2>1, SumOfOneMore
  <2>3. SumOf(v, {p}) = SumOf(v, {}) + v[p]
    BY ONLY <2>1, <2>2, Zenon
  <2>4. SumOf(v, {}) = 0
    BY SumOfNone
  <2>5. SumOf(v, {p}) = x
    BY ONLY <1>1, <1>2, <2>3, <2>4
  <2>6. ValuesOf(v, {p}) = {x}
    BY <1>1 DEF ValuesOf
  <2>7. Cardinality({p}) = 1
    BY FS_Singleton
  <2> QED
    BY <2>5, <2>6, <2>7
<1>4. Max({x}) = x /\ Min({x}) = x
  BY <1>2, MaxIs, MinIs
<1>5. TotalsOf(v, {p}) = [typed |-> [has |-> TRUE, min |-> x, max |-> x, sum |-> x],
                          count |-> 1, avg |-> [sum |-> x, count |-> 1], distinct |-> {x}]
  BY <1>2, <1>3, <1>4 DEF TotalsOf
<1>6. /\ Summable(v, P \cup {p})
      /\ Global!MergeStates(TotalsOf(v, P), TotalsOf(v, {p})) = TotalsOf(v, P \cup {p})
  BY <1>2, MergeTotals
<1>7. PICK s, t : s = TotalsOf(v, P) /\ t = TotalsOf(v, {p})
  OBVIOUS
<1>8. /\ t.typed = [has |-> TRUE, min |-> x, max |-> x, sum |-> x] /\ t.count = 1
      /\ t.avg.sum = x /\ t.avg.count = 1 /\ t.distinct = {x}
  <2>1. t = [typed |-> [has |-> TRUE, min |-> x, max |-> x, sum |-> x],
             count |-> 1, avg |-> [sum |-> x, count |-> 1], distinct |-> {x}]
    BY <1>5, <1>7, Zenon
  <2> QED
    BY ONLY <2>1
<1>9. Global!MergeStates(s, t) =
        [typed |-> Global!ApplyIfAny(s.typed, t.typed), count |-> s.count + t.count,
         avg |-> [sum |-> WrapSum(s.avg.sum + t.avg.sum), count |-> s.avg.count + t.avg.count],
         distinct |-> s.distinct \cup t.distinct]
  BY SameWrap DEF Global!MergeStates, Global!TypedResult, Global!CountResult, Global!AvgResult,
                  Global!DistinctResult
<1>10. Global!UpdateRow(s, x) =
        [typed |-> Global!ApplyIfAny(s.typed, [has |-> TRUE, min |-> x, max |-> x, sum |-> x]),
         count |-> s.count + 1,
         avg |-> [sum |-> WrapSum(s.avg.sum + x), count |-> s.avg.count + 1],
         distinct |-> s.distinct \cup {x}]
  BY SameWrap DEF Global!UpdateRow, Global!TypedUpdate, Global!AvgUpdate
<1>11. Global!UpdateRow(s, x) = Global!MergeStates(s, t)
  BY <1>8, <1>9, <1>10
<1> QED
  BY <1>1, <1>6, <1>7, <1>11

\* The states before each row of a batch and behind the last one.
UpdatesRows(H, s, b) ==
  /\ H[0] = s
  /\ \A i \in 1..Len(b) : H[i] = Global!UpdateRow(H[i - 1], b[i].value)

\* A row keeps a state a state.
LEMMA UpdateRowType ==
  ASSUME GroupConstants, NEW s \in TotalsType, NEW x \in Int
  PROVE  Global!UpdateRow(s, x) \in TotalsType
<1>1. PICK t, a, one : /\ t = s.typed /\ a = s.avg
                       /\ one = [has |-> TRUE, min |-> x, max |-> x, sum |-> x]
  OBVIOUS
<1>2. /\ t \in [has : BOOLEAN, min : Int, max : Int, sum : Int] /\ a \in [sum : Int, count : Nat]
      /\ one \in [has : BOOLEAN, min : Int, max : Int, sum : Int]
      /\ s.count \in Nat /\ s.distinct \in SUBSET Int
  BY <1>1 DEF TotalsType
<1>3. PICK y \in Int, z \in Int : y = t.sum + one.sum /\ z = a.sum + x
  BY <1>2
<1>4. WrapSum(y) \in Int /\ WrapSum(z) \in Int
  <2>1. SumLimit \in Nat
    BY DEF GroupConstants
  <2> QED
    BY <2>1, WrapFits
<1>5. Global!Apply(t, one) \in [has : BOOLEAN, min : Int, max : Int, sum : Int]
  BY <1>2, <1>3, <1>4, SameWrap DEF Global!Apply
<1>6. Global!ApplyIfAny(t, one) \in [has : BOOLEAN, min : Int, max : Int, sum : Int]
  BY <1>2, <1>5 DEF Global!ApplyIfAny
<1>7. Global!AvgUpdate(a, x) \in [sum : Int, count : Nat]
  BY <1>2, <1>3, <1>4, SameWrap DEF Global!AvgUpdate
<1>8. Global!UpdateRow(s, x) = [typed |-> Global!ApplyIfAny(t, one), count |-> s.count + 1,
                                avg |-> Global!AvgUpdate(a, x), distinct |-> s.distinct \cup {x}]
  BY <1>1 DEF Global!UpdateRow, Global!TypedUpdate
<1>9. s.count + 1 \in Nat /\ s.distinct \cup {x} \in SUBSET Int
  BY <1>2
<1> QED
  BY <1>6, <1>7, <1>8, <1>9 DEF TotalsType

\* The values of a batch are of the type.
Values(b) == Len(b) \in Nat /\ \A i \in 1..Len(b) : b[i].value \in Int

\* Update is defined, row by row.
LEMMA UpdateIs ==
  ASSUME GroupConstants, NEW s \in TotalsType, NEW b, Values(b)
  PROVE  \E H : UpdatesRows(H, s, b) /\ Global!Update(s, b) = H[Len(b)]
<1> DEFINE After(x, i) == Global!UpdateRow(x, b[i].value)
           g == [i \in 1..Len(b) |-> [x \in TotalsType |-> After(x, i)]]
           Is(F) == F = [i \in 0..Len(b) |-> IF i = 0 THEN s ELSE After(F[i - 1], i)]
           H == CHOOSE F : Is(F)
<1>1. PICK m \in Nat : m = Len(b)
  BY DEF Values
<1>2. ASSUME NEW i \in 1..m, NEW x \in TotalsType
      PROVE  After(x, i) \in TotalsType
  <2>1. PICK w \in Int : w = b[i].value
    BY <1>1 DEF Values
  <2> QED
    BY <2>1, UpdateRowType
<1>3. g \in [1..m -> [TotalsType -> TotalsType]] /\ \A i \in 1..m, x \in TotalsType : g[i][x] = After(x, i)
  BY <1>1, <1>2
<1> HIDE DEF g, After
<1>4. PICK F \in [0..m -> TotalsType] : Recurs(F, m, s, g)
  BY <1>1, <1>3, RecursionExists
<1>5. Is(F)
  <2>1. \A i \in 0..m : i = 0 \/ (i \in 1..m /\ i - 1 \in 0..m)
    BY <1>1
  <2>2. \A i \in 0..m : F[i] = IF i = 0 THEN s ELSE After(F[i - 1], i)
    BY <1>3, <1>4, <2>1 DEF Recurs
  <2>3. F = [i \in 0..m |-> F[i]]
    BY <1>4
  <2>4. F = [i \in 0..m |-> IF i = 0 THEN s ELSE After(F[i - 1], i)]
    BY <2>2, <2>3, Zenon
  <2> QED
    BY <1>1, <2>4, Zenon
<1>6. Is(H)
  BY <1>5
<1> HIDE DEF H
<1>7. UpdatesRows(H, s, b)
  <2>1. \A i \in 0..Len(b) : H[i] = IF i = 0 THEN s ELSE After(H[i - 1], i)
    BY <1>6, Zenon
  <2>2. 0 \in 0..Len(b) /\ \A i \in 1..Len(b) : i \in 0..Len(b) /\ i # 0
    BY <1>1
  <2> QED
    BY <2>1, <2>2 DEF UpdatesRows, After
<1>8. Global!Update(s, b) = H[Len(b)]
  BY DEF Global!Update, H, After
<1> QED
  BY <1>7, <1>8

\* The rows P are not in batch c, which is b, and the values v are those of its rows.
NewBatch(v, P, c, b) ==
  \A i \in 1..Len(b) : /\ v[<<c, i>>] = b[i].value /\ <<c, i>> \notin P
                       /\ b[i].value \in (-SumLimit)..(SumLimit - 1)

\* The places of the rows of a batch.
PlacesIn(c, b) == {<<c, i>> : i \in 1..Len(b)}

\* A thread with the aggregates of the rows P has, after a batch, those of P and of
\* the rows of the batch.
LEMMA UpdateGives ==
  ASSUME GroupConstants, NEW v, NEW P, Summable(v, P), NEW b, NEW c, Len(b) \in Nat,
         NewBatch(v, P, c, b)
  PROVE  /\ Summable(v, P \cup PlacesIn(c, b))
         /\ Global!Update(TotalsOf(v, P), b) = TotalsOf(v, P \cup PlacesIn(c, b))
<1>1. PICK m \in Nat : m = Len(b)
  OBVIOUS
<1>2. PICK s \in TotalsType : s = TotalsOf(v, P)
  BY TotalsOfType
<1>3. Values(b)
  <2>1. SumLimit \in Nat
    BY DEF GroupConstants
  <2>2. \A x \in (-SumLimit)..(SumLimit - 1) : x \in Int
    BY <2>1
  <2> QED
    BY <1>1, <2>2 DEF Values, NewBatch
<1>4. PICK H : UpdatesRows(H, s, b) /\ Global!Update(s, b) = H[Len(b)]
  BY <1>3, UpdateIs
<1> DEFINE Upto(k) == P \cup {<<c, i>> : i \in 1..k}
           Right(k) == Summable(v, Upto(k)) /\ H[k] = TotalsOf(v, Upto(k))
           T == {k \in Nat : k <= m => Right(k)}
<1>5. 0 \in T
  <2>1. Upto(0) = P
    OBVIOUS
  <2> QED
    BY <1>2, <1>4, <2>1 DEF UpdatesRows
<1>6. ASSUME NEW k \in Nat, Right(k), k + 1 <= m
      PROVE  Right(k + 1)
  <2>1. PICK i \in 1..Len(b) : i = k + 1 /\ i - 1 = k /\ i \notin 1..k
    BY <1>1, <1>6
  <2>2. PICK p : p = <<c, i>>
    OBVIOUS
  <2>3. Upto(k + 1) = Upto(k) \cup {p}
    <3>1. \A j : j \in 1..(k + 1) <=> j \in 1..k \/ j = i
      BY <2>1
    <3> QED
      BY <2>2, <3>1
  <2>4. p \notin Upto(k)
    BY <2>1, <2>2 DEF NewBatch
  <2>5. v[p] = b[i].value /\ v[p] \in (-SumLimit)..(SumLimit - 1)
    BY <2>2 DEF NewBatch
  <2>6. PICK R : R = Upto(k)
    OBVIOUS
  <2>7. Summable(v, R) /\ H[k] = TotalsOf(v, R) /\ p \notin R
    BY <1>6, <2>4, <2>6
  <2>8. H[k + 1] = Global!UpdateRow(H[k], v[p])
    BY <1>4, <2>1, <2>5 DEF UpdatesRows
  <2>9. Summable(v, R \cup {p}) /\ Global!UpdateRow(TotalsOf(v, R), v[p]) = TotalsOf(v, R \cup {p})
    BY ONLY GroupConstants, <2>5, <2>7, UpdateTotals
  <2> HIDE DEF Upto
  <2> QED
    BY <2>3, <2>6, <2>7, <2>8, <2>9
<1> HIDE DEF Right
<1>7. \A k \in Nat : k \in T => k + 1 \in T
  BY <1>6
<1>8. m \in T
  <2> HIDE DEF T
  <2> QED
    BY <1>5, <1>7, SetInduction
<1>9. Upto(m) = P \cup PlacesIn(c, b)
  BY <1>1 DEF PlacesIn
<1>10. Right(m)
  BY <1>8
<1>11. Summable(v, Upto(m)) /\ H[m] = TotalsOf(v, Upto(m))
  BY <1>10 DEF Right
<1> HIDE DEF Upto
<1> QED
  BY <1>1, <1>2, <1>4, <1>9, <1>11

-----------------------------------------------------------------------------
(* GlobalAggregate: the invariant. *)

\* The rows the global operator has sunk, and those of thread t.
Taken          == RowsOf(DOMAIN input \ pending)
Part(own, t) == {p \in Taken : own[p] = t}

\* Every row sunk belongs to a thread, and every thread's states are what the
\* aggregates of its rows are by definition.
Shares(own) ==
  /\ own \in [Taken -> ThreadIds]
  /\ \A t \in ThreadIds : /\ Summable(RowValues, Part(own, t))
                          /\ totals[t] = TotalsOf(RowValues, Part(own, t))

TotalsInv == /\ input \in Inputs /\ pending \subseteq DOMAIN input
             /\ DOMAIN totals = ThreadIds
             /\ Len(row) \in {0, 1}
             /\ \E own : Shares(own)

\* Before the first batch no thread has a row.
LEMMA TotalsBegin ==
  ASSUME GroupConstants, Global!Init
  PROVE  TotalsInv
<1>1. /\ input \in Inputs /\ pending = DOMAIN input /\ row = <<>>
      /\ totals = [t \in ThreadIds |-> Global!Fresh]
  BY DEF Global!Init, Global!ThreadIds, ThreadIds
<1>2. Taken = {}
  BY <1>1 DEF Taken, RowsOf
<1>3. Summable(RowValues, {}) /\ TotalsOf(RowValues, {}) = Global!Fresh
  BY FS_EmptySet, TotalsOfNone DEF Summable
<1>4. PICK own : own = [p \in Taken |-> 1]
  OBVIOUS
<1>5. \A t : Part(own, t) = {}
  BY <1>2 DEF Part
<1>6. Shares(own)
  BY <1>1, <1>2, <1>3, <1>4, <1>5 DEF Shares
<1> QED
  BY <1>1, <1>6 DEF TotalsInv

\* A step that leaves the threads' states alone keeps the invariant.
LEMMA TotalsStay ==
  ASSUME TotalsInv, input' = input, pending' = pending, totals' = totals, Len(row') \in {0, 1}
  PROVE  TotalsInv'
<1>1. Taken' = Taken /\ RowValues' = RowValues
  BY DEF Taken, RowsOf, RowValues, RowAt
<1>2. \A own, t : Part(own, t)' = Part(own, t)
  BY <1>1 DEF Part
<1>3. ASSUME NEW own, Shares(own)
      PROVE  Shares(own)'
  <2>1. ASSUME NEW t \in ThreadIds
        PROVE  /\ Summable(RowValues, Part(own, t))'
               /\ totals'[t] = TotalsOf(RowValues, Part(own, t))'
    <3>1. PICK P : P = Part(own, t)
      OBVIOUS
    <3>2. Part(own, t)' = P
      BY <1>2, <3>1
    <3>3. Summable(RowValues, P) /\ totals'[t] = TotalsOf(RowValues, P)
      BY <1>3, <3>1 DEF Shares
    <3> QED
      BY <1>1, <3>2, <3>3 DEF Summable, TotalsOf
  <2> QED
    BY <1>1, <1>3, <2>1 DEF Shares
<1> QED
  BY <1>3 DEF TotalsInv

\* The rows of a batch belong to the thread that sinks it.
LEMMA SinkKeepsTotals ==
  ASSUME GroupConstants, TotalsInv, NEW t \in ThreadIds, Global!Sink(t)
  PROVE  TotalsInv'
<1>1. PICK b \in pending : /\ row = <<>> /\ pending' = pending \ {b}
                           /\ totals' = [totals EXCEPT ![t] = Global!Update(@, input[b])]
                           /\ input' = input /\ row' = row
  BY DEF Global!Sink
<1>2. PICK bb, new : bb = input[b] /\ new = PlacesIn(b, bb)
  OBVIOUS
<1>3. /\ input \in Inputs /\ pending \subseteq DOMAIN input /\ b \in DOMAIN input
      /\ DOMAIN totals = ThreadIds /\ Len(row) \in {0, 1}
  BY <1>1 DEF TotalsInv
<1>4. /\ Len(bb) \in Nat /\ DOMAIN bb = 1..Len(bb)
      /\ \A i \in 1..Len(bb) : bb[i].value \in (-SumLimit)..(SumLimit - 1)
  BY <1>2, <1>3, BatchIs
<1>5. /\ \A i \in 1..Len(bb) : <<b, i>> \in RowsOf(DOMAIN input) /\ <<b, i>> \notin Taken
      /\ \A i \in 1..Len(bb) : RowAt(<<b, i>>) = bb[i]
  BY <1>1, <1>2, <1>3, <1>4, RowIsIn DEF Taken, RowAt
<1>6. Taken' = Taken \cup new /\ RowValues' = RowValues
  <2>1. Taken' = RowsOf((DOMAIN input \ pending) \cup {b})
    <3>1. DOMAIN input \ pending' = (DOMAIN input \ pending) \cup {b}
      BY <1>1, <1>3
    <3> QED
      BY <1>1, <3>1 DEF Taken, RowsOf
  <2>2. RowsOf((DOMAIN input \ pending) \cup {b})
          = RowsOf(DOMAIN input \ pending) \cup {<<b, i>> : i \in DOMAIN bb}
    BY <1>2, RowsWithBatch
  <2>3. RowValues' = RowValues
    BY <1>1 DEF RowValues, RowsOf, RowAt
  <2> QED
    BY <1>2, <1>4, <2>1, <2>2, <2>3 DEF Taken, PlacesIn
<1>7. PICK own : Shares(own)
  BY DEF TotalsInv
<1>8. PICK P, v : P = Part(own, t) /\ v = RowValues
  OBVIOUS
<1>9. Summable(v, P) /\ totals[t] = TotalsOf(v, P) /\ P \subseteq Taken
  BY <1>7, <1>8 DEF Shares, Part
<1>10. NewBatch(v, P, b, bb)
  BY <1>4, <1>5, <1>8, <1>9 DEF NewBatch, RowValues
<1>11. Summable(v, P \cup new) /\ Global!Update(TotalsOf(v, P), bb) = TotalsOf(v, P \cup new)
  BY ONLY GroupConstants, <1>2, <1>4, <1>9, <1>10, UpdateGives
<1>12. totals'[t] = TotalsOf(v, P \cup new) /\ DOMAIN totals' = ThreadIds
       /\ \A u \in ThreadIds : u # t => totals'[u] = totals[u]
  BY <1>1, <1>2, <1>3, <1>9, <1>11
<1>13. PICK own2 : own2 = [p \in Taken' |-> IF p \in Taken THEN own[p] ELSE t]
  OBVIOUS
<1>14. own2 \in [Taken' -> ThreadIds]
  BY <1>7, <1>13 DEF Shares
<1>15. new \cap Taken = {}
  BY <1>2, <1>5 DEF PlacesIn
<1>16. Part(own2, t)' = P \cup new /\ \A u : u # t => Part(own2, u)' = Part(own, u)
  <2>1. \A u : Part(own2, u)' = {p \in Taken' : own2[p] = u}
    BY DEF Part
  <2>2. /\ \A p \in Taken : p \in Taken' /\ own2[p] = own[p]
        /\ \A p \in new : p \in Taken' /\ own2[p] = t
        /\ \A p \in Taken' : p \in Taken \/ p \in new
    BY <1>6, <1>13, <1>15
  <2> QED
    BY <1>8, <2>1, <2>2 DEF Part
<1>17. ASSUME NEW u \in ThreadIds
       PROVE  /\ Summable(RowValues, Part(own2, u))'
              /\ totals'[u] = TotalsOf(RowValues, Part(own2, u))'
  <2>1. PICK Q : Q = Part(own2, u)'
    OBVIOUS
  <2>2. Summable(v, Q) /\ totals'[u] = TotalsOf(v, Q)
    <3>1. CASE u = t
      BY <1>11, <1>12, <1>16, <2>1, <3>1
    <3>2. CASE u # t
      BY <1>7, <1>8, <1>12, <1>16, <2>1, <3>2 DEF Shares
    <3> QED
      BY <3>1, <3>2
  <2> QED
    BY <1>6, <1>8, <2>1, <2>2 DEF Summable, TotalsOf
<1>18. Shares(own2)'
  BY <1>14, <1>17 DEF Shares
<1> QED
  BY <1>1, <1>3, <1>12, <1>18 DEF TotalsInv

\* Every step of GlobalAggregate keeps the invariant.
LEMMA TotalsKeep ==
  ASSUME GroupConstants, TotalsInv, [Global!Next]_(Global!vars)
  PROVE  TotalsInv'
<1>1. ASSUME NEW t \in ThreadIds, Global!Sink(t)
      PROVE  TotalsInv'
  BY <1>1, SinkKeepsTotals
<1>2. CASE Global!Finalize
  <2>1. PICK x : row' = <<x>> /\ input' = input /\ pending' = pending /\ totals' = totals
    BY <1>2 DEF Global!Finalize
  <2>2. Len(row') \in {0, 1}
    BY <2>1
  <2> QED
    BY <2>1, <2>2, TotalsStay
<1>3. CASE UNCHANGED Global!vars
  <2>1. Len(row') \in {0, 1}
    BY <1>3 DEF Global!vars, TotalsInv
  <2> QED
    BY <1>3, <2>1, TotalsStay DEF Global!vars
<1> QED
  BY <1>1, <1>2, <1>3 DEF Global!Next, Global!ThreadIds, ThreadIds

-----------------------------------------------------------------------------
(* GlobalAggregate: what the invariant says. *)

\* The states s[t] of the threads, merged thread by thread.
Merged(H, s, n) ==
  /\ H[0] = Global!Fresh
  /\ \A t \in 1..n : H[t] = Global!MergeStates(H[t - 1], s[t])

\* The threads have the aggregates of the rows P[t], which are disjoint.
TotalsAre(s, v, P, n) ==
  /\ \A t \in 1..n : Summable(v, P[t]) /\ s[t] = TotalsOf(v, P[t])
  /\ \A t, u \in 1..n : t # u => P[t] \cap P[u] = {}

AllOf(P, n) == UNION {P[t] : t \in 1..n}

\* If the threads have the aggregates of the disjoint sets of rows P[t], they merge
\* to the aggregates of the union.
LEMMA MergedIs ==
  ASSUME GroupConstants, NEW n \in Nat, NEW s, NEW H, Merged(H, s, n), NEW v, NEW P,
         TotalsAre(s, v, P, n)
  PROVE  Summable(v, AllOf(P, n)) /\ H[n] = TotalsOf(v, AllOf(P, n))
<1> DEFINE Upto(m) == UNION {P[t] : t \in 1..m}
           Right(m) == Summable(v, Upto(m)) /\ H[m] = TotalsOf(v, Upto(m))
           T == {m \in Nat : m <= n => Right(m)}
<1>1. 0 \in T
  <2>1. Upto(0) = {}
    OBVIOUS
  <2>2. Summable(v, {}) /\ TotalsOf(v, {}) = Global!Fresh
    BY FS_EmptySet, TotalsOfNone DEF Summable
  <2> QED
    BY <2>1, <2>2 DEF Merged
<1>2. ASSUME NEW m \in Nat, Right(m), m + 1 <= n
      PROVE  Right(m + 1)
  <2>1. PICK t \in 1..n : t = m + 1 /\ t - 1 = m
    BY <1>2
  <2>2. Upto(t) = Upto(m) \cup P[t]
    <3>1. \A u : u \in 1..t <=> u \in 1..m \/ u = t
      BY <2>1
    <3> QED
      BY <3>1
  <2>3. H[t] = Global!MergeStates(H[m], s[t])
    BY <2>1 DEF Merged
  <2>4. Upto(m) \cap P[t] = {}
    <3>1. \A u \in 1..m : u \in 1..n /\ u # t
      BY <2>1
    <3> QED
      BY <3>1 DEF TotalsAre
  <2>5. Summable(v, Upto(m)) /\ H[m] = TotalsOf(v, Upto(m))
    BY <1>2
  <2> HIDE DEF Upto
  <2>6. PICK A, B : A = Upto(m) /\ B = P[t]
    OBVIOUS
  <2>7. /\ Summable(v, A) /\ Summable(v, B) /\ A \cap B = {}
        /\ H[m] = TotalsOf(v, A) /\ s[t] = TotalsOf(v, B) /\ Upto(t) = A \cup B
    BY <2>2, <2>4, <2>5, <2>6 DEF TotalsAre
  <2>8. /\ Summable(v, A \cup B)
        /\ Global!MergeStates(TotalsOf(v, A), TotalsOf(v, B)) = TotalsOf(v, A \cup B)
    BY ONLY GroupConstants, <2>7, MergeTotals
  <2> QED
    BY <2>1, <2>3, <2>7, <2>8
<1> HIDE DEF Right
<1>3. \A m \in Nat : m \in T => m + 1 \in T
  BY <1>2
<1>4. n \in T
  <2> HIDE DEF T
  <2> QED
    BY <1>1, <1>3, SetInduction
<1> QED
  BY <1>4 DEF Right, AllOf

\* Merging keeps the type of a state.
LEMMA MergeType ==
  ASSUME GroupConstants, NEW x \in TotalsType, NEW s \in TotalsType
  PROVE  Global!MergeStates(x, s) \in TotalsType
<1>1. PICK t, u, a, b : t = x.typed /\ u = s.typed /\ a = x.avg /\ b = s.avg
  OBVIOUS
<1>2. /\ t \in [has : BOOLEAN, min : Int, max : Int, sum : Int]
      /\ u \in [has : BOOLEAN, min : Int, max : Int, sum : Int]
      /\ a \in [sum : Int, count : Nat] /\ b \in [sum : Int, count : Nat]
      /\ x.count \in Nat /\ s.count \in Nat /\ x.distinct \in SUBSET Int /\ s.distinct \in SUBSET Int
  BY <1>1 DEF TotalsType
<1>3. PICK y \in Int, z \in Int : y = t.sum + u.sum /\ z = a.sum + b.sum
  BY <1>2
<1>4. WrapSum(y) \in Int /\ WrapSum(z) \in Int
  <2>1. SumLimit \in Nat
    BY DEF GroupConstants
  <2> QED
    BY <2>1, WrapFits
<1>5. Global!Apply(t, u) \in [has : BOOLEAN, min : Int, max : Int, sum : Int]
  BY <1>2, <1>3, <1>4, SameWrap DEF Global!Apply
<1>6. Global!ApplyIfAny(t, u) \in [has : BOOLEAN, min : Int, max : Int, sum : Int]
  BY <1>2, <1>5 DEF Global!ApplyIfAny
<1>7. Global!AvgResult(a, b) \in [sum : Int, count : Nat]
  BY <1>2, <1>3, <1>4, SameWrap DEF Global!AvgResult
<1>8. Global!MergeStates(x, s) =
        [typed |-> Global!ApplyIfAny(t, u), count |-> x.count + s.count,
         avg |-> Global!AvgResult(a, b), distinct |-> x.distinct \cup s.distinct]
  BY <1>1 DEF Global!MergeStates, Global!TypedResult, Global!CountResult, Global!DistinctResult
<1>9. x.count + s.count \in Nat /\ x.distinct \cup s.distinct \in SUBSET Int
  BY <1>2
<1> QED
  BY <1>6, <1>7, <1>8, <1>9 DEF TotalsType

\* The states of the threads merge to the aggregates of all rows sunk.
LEMMA ResultsAre ==
  ASSUME GroupConstants, TotalsInv
  PROVE  Summable(RowValues, Taken) /\ Global!WriteResults = TotalsOf(RowValues, Taken)
<1>1. PICK own : Shares(own)
  BY DEF TotalsInv
<1>2. NumThreads \in Nat /\ ThreadIds = 1..NumThreads
  BY DEF GroupConstants, ThreadIds
<1> DEFINE P == [t \in ThreadIds |-> Part(own, t)]
           Step(x, t) == Global!MergeStates(x, totals[t])
           g == [t \in 1..NumThreads |-> [x \in TotalsType |-> Step(x, t)]]
           Is(F) == F = [t \in 0..NumThreads |-> IF t = 0 THEN Global!Fresh ELSE Step(F[t - 1], t)]
           H == CHOOSE F : Is(F)
<1>3. \A t \in ThreadIds : Summable(RowValues, P[t]) /\ totals[t] = TotalsOf(RowValues, P[t])
  BY <1>1 DEF Shares
<1>4. \A t, u \in ThreadIds : t # u => P[t] \cap P[u] = {}
  BY DEF Part
<1>5. UNION {P[t] : t \in ThreadIds} = Taken
  BY <1>1 DEF Part, Shares
<1> HIDE DEF P
<1>6. ASSUME NEW t \in ThreadIds, NEW x \in TotalsType
      PROVE  Step(x, t) \in TotalsType
  <2>1. PICK Q : Q = P[t]
    OBVIOUS
  <2>2. Summable(RowValues, Q) /\ totals[t] = TotalsOf(RowValues, Q)
    BY <1>3, <2>1
  <2>3. totals[t] \in TotalsType
    BY <2>2, TotalsOfType
  <2> QED
    BY <2>3, MergeType
<1>7. g \in [1..NumThreads -> [TotalsType -> TotalsType]]
  BY <1>2, <1>6
<1>8. \A t \in 1..NumThreads, x \in TotalsType : g[t][x] = Step(x, t)
  OBVIOUS
<1>9. Global!Fresh \in TotalsType
  <2>1. Summable(RowValues, {}) /\ TotalsOf(RowValues, {}) = Global!Fresh
    BY FS_EmptySet, TotalsOfNone DEF Summable
  <2> QED
    BY <2>1, TotalsOfType
<1> HIDE DEF g, Step
<1>10. PICK F \in [0..NumThreads -> TotalsType] : Recurs(F, NumThreads, Global!Fresh, g)
  BY <1>2, <1>7, <1>9, RecursionExists
<1>11. Is(F)
  <2>1. \A t \in 0..NumThreads : t = 0 \/ (t \in 1..NumThreads /\ t - 1 \in 0..NumThreads)
    BY <1>2
  <2>2. \A t \in 0..NumThreads : F[t] = IF t = 0 THEN Global!Fresh ELSE Step(F[t - 1], t)
    BY <1>8, <1>10, <2>1 DEF Recurs
  <2>3. F = [t \in 0..NumThreads |-> F[t]]
    BY <1>10
  <2> QED
    BY <2>2, <2>3, Zenon
<1>12. Is(H)
  BY <1>11
<1>13. Merged(H, totals, NumThreads)
  <2> HIDE DEF H
  <2>1. \A t \in 0..NumThreads : H[t] = IF t = 0 THEN Global!Fresh ELSE Step(H[t - 1], t)
    BY <1>12, Zenon
  <2>2. 0 \in 0..NumThreads /\ \A t \in 1..NumThreads : t \in 0..NumThreads /\ t # 0
    BY <1>2
  <2> QED
    BY <2>1, <2>2 DEF Merged, Step
<1>14. /\ Summable(RowValues, UNION {P[t] : t \in 1..NumThreads})
       /\ H[NumThreads] = TotalsOf(RowValues, UNION {P[t] : t \in 1..NumThreads})
  <2> HIDE DEF H
  <2> QED
    <3>1. PICK n, v, s : n = NumThreads /\ v = RowValues /\ s = totals
      OBVIOUS
    <3>2. n \in Nat /\ Merged(H, s, n) /\ TotalsAre(s, v, P, n)
      BY <1>2, <1>3, <1>4, <1>13, <3>1 DEF TotalsAre
    <3>3. Summable(v, AllOf(P, n)) /\ H[n] = TotalsOf(v, AllOf(P, n))
      BY ONLY GroupConstants, <3>2, MergedIs
    <3> QED
      BY <3>1, <3>3 DEF AllOf
<1>15. Global!WriteResults = H[NumThreads]
  BY DEF Global!WriteResults, H, Step
<1> QED
  BY <1>2, <1>5, <1>14, <1>15

\* The threads' states merge to the aggregates of the rows sunk so far.
LEMMA TotalsMerge ==
  ASSUME GroupConstants, TotalsInv
  PROVE  StatesMergeToTotals
<1>1. PICK R, v, all : R = Taken /\ v = RowValues /\ all = Global!WriteResults
  OBVIOUS
<1>2. Summable(v, R) /\ all = TotalsOf(v, R)
  BY <1>1, ResultsAre
<1>3. /\ \A B : Global!RowsOf(B) = RowsOf(B)
      /\ \A p : Global!ValueAt(p) = RowAt(p).value
  BY DEF Global!RowsOf, RowsOf, Global!ValueAt, RowAt
<1>4. \A p \in R : v[p] = RowAt(p).value
  BY <1>1 DEF Taken, RowValues, RowsOf
<1>5. {RowAt(p).value : p \in R} = ValuesOf(v, R)
  BY <1>4 DEF ValuesOf
<1>6. Global!Total(R) = SumOf(v, R)
  <2>1. [p \in R |-> RowAt(p).value] = [p \in R |-> v[p]]
    BY <1>4
  <2>2. Global!Total(R) = Global!SumFunction([p \in R |-> RowAt(p).value])
    BY <1>3 DEF Global!Total
  <2> QED
    BY <2>1, <2>2, SameOperators DEF SumOf
<1>7. Global!SumRange = (-SumLimit)..(SumLimit - 1)
  BY DEF Global!SumRange
<1>8. /\ all.count = Cardinality(R) /\ all.avg.count = Cardinality(R)
      /\ all.distinct = ValuesOf(v, R)
      /\ all.typed.sum = WrapSum(SumOf(v, R)) /\ all.avg.sum = WrapSum(SumOf(v, R))
      /\ R # {} => /\ all.typed.min = Min(ValuesOf(v, R)) /\ all.typed.max = Max(ValuesOf(v, R))
      /\ R = {} => /\ all.typed.min = 0 /\ all.typed.max = 0
  BY <1>2 DEF TotalsOf
<1>9. R = {} => all.typed.sum = 0
  BY <1>2, TotalsOfNone DEF Global!Fresh
<1>10. ASSUME SumOf(v, R) \in (-SumLimit)..(SumLimit - 1)
       PROVE  WrapSum(SumOf(v, R)) = SumOf(v, R)
  <2>1. SumOf(v, R) \in Int
    BY <1>2, StateOfType
  <2> QED
    BY <1>10, <2>1, WrapFits
<1>11. Global!RowsOf(DOMAIN input \ pending) = R
  BY <1>1, <1>3 DEF Taken
<1>12. {Global!ValueAt(p) : p \in R} = ValuesOf(v, R)
  BY <1>3, <1>5
<1> QED
  BY <1>1, <1>6, <1>7, <1>8, <1>9, <1>10, <1>11, <1>12, SameOperators
     DEF StatesMergeToTotals, Global!StatesMergeToTotals

\* The types; which threads have data; and no sum leaves its type.
LEMMA TotalsTyped ==
  ASSUME GroupConstants, TotalsInv
  PROVE  Global!TypeOK
<1>1. PICK own : Shares(own)
  BY DEF TotalsInv
<1>2. ASSUME NEW t \in ThreadIds
      PROVE  /\ totals[t].typed.has = (totals[t].count > 0)
             /\ {totals[t].typed.sum, totals[t].avg.sum} \subseteq Global!SumRange
             /\ totals[t].avg.count = totals[t].count
  <2>1. PICK P, s, x : P = Part(own, t) /\ s = totals[t] /\ x = SumOf(RowValues, P)
    OBVIOUS
  <2>2. Summable(RowValues, P) /\ s = TotalsOf(RowValues, P)
    BY <1>1, <2>1 DEF Shares
  <2>3. WrapSum(x) \in (-SumLimit)..(SumLimit - 1)
    <3>1. x \in Int
      BY <2>1, <2>2, StateOfType
    <3> QED
      BY <3>1, WrapFits
  <2>4. Cardinality(P) \in Nat /\ (Cardinality(P) = 0 <=> P = {})
    BY <2>2, FS_EmptySet, FS_CardinalityType DEF Summable
  <2>5. /\ s.typed.has = (P # {}) /\ s.count = Cardinality(P) /\ s.avg.count = Cardinality(P)
        /\ s.typed.sum = WrapSum(x) /\ s.avg.sum = WrapSum(x)
    BY <2>1, <2>2 DEF TotalsOf
  <2>6. (P # {}) = (Cardinality(P) > 0)
    BY <2>4
  <2> QED
    BY <2>1, <2>3, <2>5, <2>6 DEF Global!SumRange
<1> QED
  BY <1>2 DEF TotalsInv, Global!TypeOK, Global!ThreadIds, ThreadIds

-----------------------------------------------------------------------------
(* Theorems of AggregateSpec. *)

AggregateInv == GroupInv /\ TotalsInv

\* Both operators begin.
LEMMA AggregateBegins ==
  ASSUME GroupConstants, AggregateInit
  PROVE  AggregateInv
BY GroupsBegin, TotalsBegin DEF AggregateInit, AggregateInv

\* A step of the one leaves the other alone.
LEMMA AggregateKeeps ==
  ASSUME GroupConstants, AggregateInv, [AggregateNext]_aggregateVars
  PROVE  AggregateInv'
<1>1. CASE grouped /\ Next /\ UNCHANGED <<grouped, pending, totals, row>>
  <2>1. GroupInv'
    BY <1>1, GroupsKeep DEF AggregateInv
  <2>2. input' = input
    BY <1>1 DEF Next, Sink, StartFinalize, MergeEntry, NextThread, vars
  <2>3. Len(row') \in {0, 1}
    BY <1>1 DEF AggregateInv, TotalsInv
  <2>4. TotalsInv'
    BY <1>1, <2>2, <2>3, TotalsStay DEF AggregateInv
  <2> QED
    BY <2>1, <2>4 DEF AggregateInv
<1>2. CASE /\ ~grouped /\ Global!Next
           /\ UNCHANGED <<grouped, todo, table, numGroups, keys, states, from, left, result>>
  <2>1. TotalsInv'
    BY <1>2, TotalsKeep DEF AggregateInv
  <2>2. input' = input
    BY <1>2 DEF Global!Next, Global!Sink, Global!Finalize, Global!vars
  <2>3. UNCHANGED vars
    BY <1>2, <2>2 DEF vars
  <2>4. GroupInv'
    BY <2>3, StutterKeepsGroups DEF AggregateInv
  <2> QED
    BY <2>1, <2>4 DEF AggregateInv
<1>3. CASE UNCHANGED aggregateVars
  <2>1. UNCHANGED vars /\ input' = input /\ pending' = pending /\ totals' = totals /\ row' = row
    BY <1>3 DEF aggregateVars, vars
  <2>2. GroupInv'
    BY <2>1, StutterKeepsGroups DEF AggregateInv
  <2>3. Len(row') \in {0, 1}
    BY <2>1 DEF AggregateInv, TotalsInv
  <2>4. TotalsInv'
    BY <2>1, <2>3, TotalsStay DEF AggregateInv
  <2> QED
    BY <2>2, <2>4 DEF AggregateInv
<1> QED
  BY <1>1, <1>2, <1>3 DEF AggregateNext

\* The invariant holds.
LEMMA AggregateHolds == AggregateSpec => []AggregateInv
<1>1. AggregateInit => AggregateInv
  BY AggregateBegins, GroupAssumption
<1>2. AggregateInv /\ [AggregateNext]_aggregateVars => AggregateInv'
  BY AggregateKeeps, GroupAssumption
<1> QED
  BY <1>1, <1>2, PTL DEF AggregateSpec

\* GROUP BY: whatever the order in which the tables yield their entries and however
\* the batches fall to the threads, the result has one row for each key of the
\* input, with the aggregates of that key's rows; and Finalize loses no group's share
\* and counts none twice on the way.
THEOREM GroupsAreRight ==
  AggregateSpec => [](TypeOK /\ Aligned /\ MergeConserves /\ ResultIsGrouping)
<1>1. AggregateInv => TypeOK /\ Aligned /\ MergeConserves /\ ResultIsGrouping
  BY GroupsTyped, GroupsAligned, GroupsConserve, ResultGroups, GroupAssumption
     DEF AggregateInv
<1> QED
  BY <1>1, AggregateHolds, PTL

\* An aggregation without groups: the states of the threads, merged in order, are
\* the aggregates of the rows sunk so far, whichever thread sunk them; and sums that
\* wrap around on the way are right in the end if the total fits.
THEOREM TotalsAreRight ==
  AggregateSpec => [](Global!TypeOK /\ StatesMergeToTotals)
<1>1. AggregateInv => Global!TypeOK /\ StatesMergeToTotals
  BY TotalsTyped, TotalsMerge, GroupAssumption DEF AggregateInv
<1> QED
  BY <1>1, AggregateHolds, PTL

-----------------------------------------------------------------------------
(* The two operators, one after the other. *)

OrderFacts == INSTANCE OrderByProofs WITH todo <- unsorted, result <- sorted

\* What is sorted can be compared: the sort columns are numbers (as OrderBy reads
\* a column), of the tables as of the groups.
Comparable ==
  /\ DOMAIN SortColumns \subseteq Nat
  /\ \A t \in Tables : \A r \in UNION Range(t.batches), i \in DOMAIN SortColumns :
       t.key[r][SortColumns[i].col] \in Int
  /\ \A s \in GroupState, i \in DOMAIN SortColumns : SortKey(s)[SortColumns[i].col] \in Int

\* The groups an ORDER BY has been given are those the aggregation has made.
GroupsGiven ==
  /\ Finished
  /\ batches = IF result = <<>> THEN <<>> ELSE <<DOMAIN result>>
  /\ key = [g \in DOMAIN result |-> SortKey(result[g].state)]

BreakersInv == /\ AggregateInv
               /\ OrderFacts!OrderInv
               /\ ~ordering => OrderIdle
               /\ ordering /\ grouped => GroupsGiven

-----------------------------------------------------------------------------
(* The same operators under the names of two instances. *)

\* The library's.
LEMMA SameLibrary ==
  /\ \A S : Order!Min(S) = OrderFacts!Min(S)
  /\ \A S : Order!Cardinality(S) = OrderFacts!Cardinality(S)
  /\ \A f : Order!Range(f) = OrderFacts!Range(f) /\ Range(f) = OrderFacts!Range(f)
  /\ \A f : Order!ToSet(f) = OrderFacts!ToSet(f)
  /\ \A f : Order!IsInjective(f) = OrderFacts!IsInjective(f)
  /\ \A S : Order!SetToSeqs(S) = OrderFacts!SetToSeqs(S)
  /\ \A n, S : Order!kSubset(n, S) = OrderFacts!kSubset(n, S)
  /\ \A S : IsFiniteSet(S) <=> OrderFacts!IsFiniteSet(S)
<1>1. \A S : Order!Min(S) = OrderFacts!Min(S)
  BY DEF Order!Min, OrderFacts!Min
<1>2. \A S : Order!Cardinality(S) = OrderFacts!Cardinality(S)
  BY DEF Order!Cardinality, OrderFacts!Cardinality
<1>3. \A f : Order!Range(f) = OrderFacts!Range(f) /\ Range(f) = OrderFacts!Range(f)
  BY DEF Order!Range, OrderFacts!Range, Range
<1>4. \A f : Order!ToSet(f) = OrderFacts!ToSet(f)
  BY DEF Order!ToSet, OrderFacts!ToSet
<1>5. \A f : Order!IsInjective(f) = OrderFacts!IsInjective(f)
  BY DEF Order!IsInjective, OrderFacts!IsInjective
<1>6. \A S : Order!SetToSeqs(S) = OrderFacts!SetToSeqs(S)
  BY <1>2 DEF Order!SetToSeqs, OrderFacts!SetToSeqs
<1>7. \A n, S : Order!kSubset(n, S) = OrderFacts!kSubset(n, S)
  BY <1>2 DEF Order!kSubset, OrderFacts!kSubset
<1>8. \A S : IsFiniteSet(S) <=> OrderFacts!IsFiniteSet(S)
  BY DEF IsFiniteSet, OrderFacts!IsFiniteSet
<1> QED
  BY <1>1, <1>2, <1>3, <1>4, <1>5, <1>6, <1>7, <1>8

\* The helpers of OrderBy.
LEMMA SameHelpers ==
  /\ Order!ThreadIds = OrderFacts!ThreadIds /\ ThreadIds = OrderFacts!ThreadIds
  /\ Order!Rows = OrderFacts!Rows
  /\ Order!HasTotal = OrderFacts!HasTotal /\ Order!Total = OrderFacts!Total
  /\ \A r, q : Order!Less(r, q) = OrderFacts!Less(r, q)
  /\ Order!Lim = OrderFacts!Lim /\ Order!TrimAbove = OrderFacts!TrimAbove
  /\ \A S : Order!Readings(S) = OrderFacts!Readings(S)
  /\ Order!InRange <=> OrderFacts!InRange
  /\ \A n, S, read : Order!Smallest(n, S, read) = OrderFacts!Smallest(n, S, read)
  /\ \A S, read : Order!Sorts(S, read) = OrderFacts!Sorts(S, read)
  /\ \A s : Order!SkipOffset(s) = OrderFacts!SkipOffset(s)
<1>1. \A r, q : Order!Less(r, q) = OrderFacts!Less(r, q)
  BY SameLibrary, ZenonT(30) DEF Order!Less, OrderFacts!Less
<1>2. \A n, S, read : Order!Smallest(n, S, read) = OrderFacts!Smallest(n, S, read)
  BY <1>1, SameLibrary DEF Order!Smallest, OrderFacts!Smallest
<1>3. \A S, read : Order!Sorts(S, read) = OrderFacts!Sorts(S, read)
  BY <1>1, SameLibrary DEF Order!Sorts, OrderFacts!Sorts
<1>4. \A s : Order!SkipOffset(s) = OrderFacts!SkipOffset(s)
  BY DEF Order!SkipOffset, OrderFacts!SkipOffset
<1>5. Order!ThreadIds = OrderFacts!ThreadIds /\ ThreadIds = OrderFacts!ThreadIds
  BY DEF Order!ThreadIds, OrderFacts!ThreadIds, ThreadIds
<1>6. Order!Rows = OrderFacts!Rows
  BY SameLibrary DEF Order!Rows, OrderFacts!Rows
<1>7. Order!HasTotal = OrderFacts!HasTotal /\ Order!Total = OrderFacts!Total
  BY DEF Order!HasTotal, OrderFacts!HasTotal, Order!Total, OrderFacts!Total
<1>8. Order!Lim = OrderFacts!Lim /\ Order!TrimAbove = OrderFacts!TrimAbove
  BY <1>7 DEF Order!Lim, OrderFacts!Lim, Order!TrimAbove, OrderFacts!TrimAbove
<1>9. \A S : Order!Readings(S) = OrderFacts!Readings(S)
  BY SameLibrary DEF Order!Readings, OrderFacts!Readings
<1>10. Order!InRange <=> OrderFacts!InRange
  BY <1>6, <1>7, SameLibrary DEF Order!InRange, OrderFacts!InRange
<1> QED
  BY <1>1, <1>2, <1>3, <1>4, <1>5, <1>6, <1>7, <1>8, <1>9, <1>10

\* The steps of OrderBy.
LEMMA SameSteps ==
  /\ Order!Init => OrderFacts!Init
  /\ Order!Next => OrderFacts!Next
  /\ orderVars = OrderFacts!vars
  /\ \A bs, k, w : Order!Open(bs, k, w) => OrderFacts!Open(bs, k, w)
<1>1. Order!Init => OrderFacts!Init
  BY SameHelpers DEF Order!Init, OrderFacts!Init
<1>2. ASSUME NEW t, Order!Sink(t)
      PROVE  OrderFacts!Sink(t)
  <2>1. \A S : Order!Keep(S) = OrderFacts!Keep(S)
    BY SameHelpers, SameLibrary DEF Order!Keep, OrderFacts!Keep
  <2>2. \A u, b : Order!Gathered(u, b) = OrderFacts!Gathered(u, b)
    BY DEF Order!Gathered, OrderFacts!Gathered
  <2> QED
    BY <1>2, <2>1, <2>2, SameHelpers, SameLibrary DEF Order!Sink, OrderFacts!Sink
<1>3. Order!Finalize => OrderFacts!Finalize
  BY SameHelpers, SameLibrary DEF Order!Finalize, OrderFacts!Finalize
<1>4. orderVars = OrderFacts!vars /\ Order!vars = OrderFacts!vars
  BY DEF orderVars, OrderFacts!vars, Order!vars
<1>5. Order!Next => OrderFacts!Next
  BY <1>2, <1>3, <1>4, SameHelpers DEF Order!Next, OrderFacts!Next, Order!vars, OrderFacts!vars
<1>6. \A bs, k, w : Order!Open(bs, k, w) => OrderFacts!Open(bs, k, w)
  BY DEF Order!Open, OrderFacts!Open
<1> QED
  BY <1>1, <1>4, <1>5, <1>6

\* The properties of OrderBy.
LEMMA SameProperties ==
  /\ OrderFacts!TypeOK => Order!TypeOK
  /\ OrderFacts!DroppedAreCovered => Order!DroppedAreCovered
  /\ OrderFacts!ResultIsWindow => Order!ResultIsWindow
<1>1. OrderFacts!TypeOK => Order!TypeOK
  BY SameHelpers DEF Order!TypeOK, OrderFacts!TypeOK
<1>2. OrderFacts!DroppedAreCovered => Order!DroppedAreCovered
  BY SameHelpers, SameLibrary DEF Order!DroppedAreCovered, OrderFacts!DroppedAreCovered
<1>3. \A s, S : OrderFacts!IsWindow(s, S) => Order!IsWindow(s, S)
  BY SameHelpers, SameLibrary, ZenonT(30) DEF Order!IsWindow, OrderFacts!IsWindow
<1>4. OrderFacts!ResultIsWindow => Order!ResultIsWindow
  BY <1>3, SameHelpers DEF Order!ResultIsWindow, OrderFacts!ResultIsWindow
<1> QED
  BY <1>1, <1>2, <1>4

-----------------------------------------------------------------------------
(* What OrderByProofs assumes. *)

\* The constants and the tables of OrderBy are as OrderByProofs assumes them.
LEMMA OrderGiven ==
  ASSUME Comparable
  PROVE  OrderFacts!OrderConstants /\ OrderFacts!GoodTables
<1>1. OrderFacts!OrderConstants
  BY GroupAssumption, OrderAssumption DEF OrderFacts!OrderConstants, GroupConstants, Comparable
<1>2. ASSUME NEW t \in Tables
      PROVE  /\ IsFiniteSet(UNION Range(t.batches))
             /\ t.window \in [limit : Nat \cup {NoLimit}, offset : Nat]
  BY OrderAssumption
<1>3. ASSUME NEW t \in Tables
      PROVE  t.window.limit \in Nat \cup {NoLimit} /\ t.window.offset \in Nat
  BY <1>2
<1> QED
  BY <1>1, <1>2, <1>3, SameLibrary DEF OrderFacts!GoodTables, Comparable

\* An operator that has not begun keeps the invariant: it has no rows.
LEMMA IdleHolds ==
  ASSUME OrderIdle
  PROVE  OrderFacts!OrderInv
<1>1. OrderFacts!Fresh
  BY SameHelpers DEF OrderIdle, OrderFacts!Fresh
<1>2. OrderFacts!Rows = {}
  BY SameLibrary DEF OrderIdle, OrderFacts!Rows, OrderFacts!Range
<1>3. OrderFacts!OrderInput
  BY <1>2, SameLibrary, FS_EmptySet DEF OrderIdle, OrderFacts!OrderInput
<1> QED
  BY <1>1, <1>3, OrderFacts!FreshHolds

-----------------------------------------------------------------------------
(* The steps. *)

\* The ORDER BY of the groups begins with the groups, whose sort columns can be
\* compared.
LEMMA GroupsAreSorted ==
  ASSUME Comparable, BreakersInv, OrderGroups
  PROVE  BreakersInv'
<1>1. PICK w \in Windows :
        Order!Open(IF result = <<>> THEN <<>> ELSE <<DOMAIN result>>,
                   [g \in DOMAIN result |-> SortKey(result[g].state)], w)
  BY DEF OrderGroups
<1>2. PICK bs, k : /\ bs = IF result = <<>> THEN <<>> ELSE <<DOMAIN result>>
                   /\ k = [g \in DOMAIN result |-> SortKey(result[g].state)]
  OBVIOUS
<1>3. /\ ~ordering /\ grouped /\ Finished /\ ordering' = TRUE
      /\ UNCHANGED aggregateVars /\ OrderFacts!Open(bs, k, w)
  BY <1>1, <1>2, SameSteps DEF OrderGroups
<1>4. AggregateInv'
  <2>1. [AggregateNext]_aggregateVars
    BY <1>3
  <2> QED
    BY <2>1, GroupAssumption, AggregateKeeps DEF BreakersInv
<1>5. OrderFacts!Fresh'
  BY <1>3, SameHelpers, OrderFacts!OpenGives DEF BreakersInv, OrderIdle
<1>6. /\ batches' = bs /\ key' = k /\ limit' = w.limit /\ offset' = w.offset
  BY <1>3 DEF OrderFacts!Open
<1>7. PICK n \in Nat : /\ DOMAIN result = 1..n
                       /\ \A g \in 1..n : result[g].state \in GroupState
  <2>1. /\ result = [g \in 1..numGroups[1] |-> [key |-> keys[1][g], state |-> states[1][g]]]
        /\ numGroups[1] \in Nat /\ states[1] \in [1..numGroups[1] -> GroupState]
    BY <1>3, GroupAssumption
       DEF Finished, BreakersInv, AggregateInv, GroupInv, ResultShown, GroupTypes,
           GroupConstants, ThreadIds
  <2>2. PICK n, ks, st : n = numGroups[1] /\ ks = keys[1] /\ st = states[1]
    OBVIOUS
  <2>3. /\ n \in Nat /\ result = [g \in 1..n |-> [key |-> ks[g], state |-> st[g]]]
        /\ st \in [1..n -> GroupState]
    BY <2>1, <2>2
  <2> QED
    BY ONLY <2>3
<1>8. OrderFacts!Rows' \subseteq 1..n
  <2>1. \A b \in DOMAIN bs : bs[b] = 1..n
    BY <1>2, <1>7
  <2>2. \A r \in OrderFacts!Rows' : \E b \in DOMAIN bs : r \in bs[b]
    BY <1>6 DEF OrderFacts!Rows, OrderFacts!Range
  <2> QED
    BY <2>1, <2>2
<1>9. OrderFacts!OrderInput'
  <2>1. OrderFacts!IsFiniteSet(OrderFacts!Rows')
    <3>1. IsFiniteSet(1..n)
      BY FS_Interval
    <3>2. IsFiniteSet(OrderFacts!Rows')
      BY <1>8, <3>1, FS_Subset
    <3> QED
      BY <3>2, SameLibrary
  <2>2. \A r \in 1..n, i \in DOMAIN SortColumns : k[r][SortColumns[i].col] \in Int
    BY <1>2, <1>7 DEF Comparable
  <2>3. w \in [limit : Nat \cup {NoLimit}, offset : Nat]
    BY OrderAssumption
  <2>4. w.limit \in Nat \cup {NoLimit} /\ w.offset \in Nat
    BY <2>3
  <2> QED
    BY <1>6, <1>8, <2>1, <2>2, <2>4 DEF OrderFacts!OrderInput, OrderFacts!ColumnOf
<1>10. OrderFacts!OrderInv'
  <2>1. OrderFacts!OrderInput /\ OrderFacts!Fresh => OrderFacts!OrderInv
    BY OrderFacts!FreshHolds
  <2> QED
    BY <1>5, <1>9, OrderFacts!FreshHolds, PTL
<1>11. GroupsGiven'
  <2>1. result' = result /\ from' = from
    BY <1>3 DEF aggregateVars, vars
  <2> QED
    BY <1>2, <1>3, <1>6, <2>1 DEF GroupsGiven, Finished
<1> QED
  BY <1>3, <1>4, <1>10, <1>11 DEF BreakersInv

\* Every step keeps the invariant.
LEMMA BreakersKeep ==
  ASSUME Comparable, BreakersInv, [BreakersNext]_breakerVars
  PROVE  BreakersInv'
<1>1. CASE Aggregate
  <2>1. AggregateInv'
    BY <1>1, GroupAssumption, AggregateKeeps DEF Aggregate, BreakersInv
  <2>2. ~ordering /\ ordering' = ordering /\ UNCHANGED orderVars
    BY <1>1 DEF Aggregate
  <2>3. OrderFacts!OrderInv'
    BY <2>2, SameSteps, OrderFacts!UnchangedKeeps DEF BreakersInv, orderVars, OrderFacts!vars
  <2>4. OrderIdle'
    BY <2>2 DEF BreakersInv, OrderIdle, orderVars
  <2> QED
    BY <2>1, <2>2, <2>3, <2>4 DEF BreakersInv
<1>2. CASE OrderGroups
  BY <1>2, GroupsAreSorted
<1>3. CASE Sort
  <2>1. ordering /\ OrderFacts!Next /\ UNCHANGED aggregateVars /\ ordering' = ordering
    BY <1>3, SameSteps DEF Sort
  <2>2. AggregateInv'
    <3>1. [AggregateNext]_aggregateVars
      BY <2>1
    <3> QED
      BY <3>1, GroupAssumption, AggregateKeeps DEF BreakersInv
  <2>3. OrderFacts!OrderInv'
    BY <2>1, OrderGiven, OrderFacts!NextKeeps DEF BreakersInv
  <2>4. batches' = batches /\ key' = key
    BY <2>1 DEF OrderFacts!Next, OrderFacts!Sink, OrderFacts!Finalize, OrderFacts!vars
  <2>5. result' = result /\ from' = from /\ grouped' = grouped
    BY <2>1 DEF aggregateVars, vars
  <2>6. ordering' /\ grouped' => GroupsGiven'
    BY <2>1, <2>4, <2>5 DEF BreakersInv, GroupsGiven, Finished
  <2> QED
    BY <2>1, <2>2, <2>3, <2>6 DEF BreakersInv
<1>4. CASE UNCHANGED breakerVars
  <2>1. UNCHANGED aggregateVars /\ UNCHANGED orderVars /\ ordering' = ordering
    BY <1>4 DEF breakerVars
  <2>2. AggregateInv'
    <3>1. [AggregateNext]_aggregateVars
      BY <2>1
    <3> QED
      BY <3>1, GroupAssumption, AggregateKeeps DEF BreakersInv
  <2>3. OrderFacts!OrderInv'
    BY <2>1, SameSteps, OrderFacts!UnchangedKeeps DEF BreakersInv, orderVars, OrderFacts!vars
  <2>4. (~ordering => OrderIdle)'
    BY <2>1 DEF BreakersInv, OrderIdle, orderVars
  <2>5. result' = result /\ from' = from /\ grouped' = grouped /\ batches' = batches /\ key' = key
    BY <2>1 DEF aggregateVars, vars, orderVars
  <2>6. ordering' /\ grouped' => GroupsGiven'
    BY <2>1, <2>5 DEF BreakersInv, GroupsGiven, Finished
  <2> QED
    BY <2>2, <2>3, <2>4, <2>6 DEF BreakersInv
<1> QED
  BY <1>1, <1>2, <1>3, <1>4 DEF BreakersNext

\* The invariant holds at the start.
LEMMA BreakersBegin ==
  ASSUME Comparable, BreakersInit
  PROVE  BreakersInv
<1>1. AggregateInv
  BY GroupAssumption, AggregateBegins DEF BreakersInit
<1>2. CASE ordering
  <2>1. OrderFacts!OrderInv
    BY <1>2, SameSteps, OrderGiven, OrderFacts!InitHolds DEF BreakersInit
  <2> QED
    BY <1>1, <1>2, <2>1 DEF BreakersInit, BreakersInv
<1>3. CASE ~ordering
  BY <1>1, <1>3, IdleHolds DEF BreakersInit, BreakersInv
<1> QED
  BY <1>2, <1>3

\* The invariant holds.
LEMMA BreakersHold ==
  ASSUME Comparable
  PROVE  BreakersSpec => []BreakersInv
<1>1. BreakersInit => BreakersInv
  BY BreakersBegin
<1>2. BreakersInv /\ [BreakersNext]_breakerVars => BreakersInv'
  BY BreakersKeep
<1> QED
  BY <1>1, <1>2, PTL DEF BreakersSpec

-----------------------------------------------------------------------------
(* Theorems. *)

\* What is sorted after an aggregation are the groups of its input, by what the
\* aggregates of their rows are.
LEMMA SortsGroups ==
  ASSUME BreakersInv
  PROVE  ResultIsWindow
<1>1. Order!ResultIsWindow
  BY SameProperties DEF BreakersInv, OrderFacts!OrderInv
<1>2. ASSUME ordering, grouped
      PROVE  /\ Order!Rows = DOMAIN result
             /\ {result[g].key : g \in Order!Rows} = KeysOf(DOMAIN input)
             /\ \A g \in Order!Rows :
                  key[g] = SortKey(Reference(result[g].key, RowsOf(DOMAIN input)))
  <2>1. GroupsGiven /\ ResultIsGrouping
    BY <1>2, GroupAssumption, ResultGroups DEF BreakersInv, AggregateInv
  <2>2. Order!Rows = DOMAIN result
    <3>1. Order!Rows = UNION {batches[b] : b \in DOMAIN batches}
      BY DEF Order!Rows, Order!Range
    <3>2. CASE result = <<>>
      BY <2>1, <3>1, <3>2 DEF GroupsGiven
    <3>3. CASE result # <<>>
      BY <2>1, <3>1, <3>3, SMTT(30) DEF GroupsGiven
    <3> QED
      BY <3>2, <3>3
  <2> QED
    BY <2>1, <2>2 DEF GroupsGiven, ResultIsGrouping
<1> QED
  BY <1>1, <1>2 DEF ResultIsWindow

\* The aggregations inside a query: what is shown of them above holds
\* whether or not an ORDER BY sorts their groups.
THEOREM BreakersAggregate ==
  ASSUME Comparable
  PROVE  BreakersSpec => [](MergeConserves /\ ResultIsGrouping /\ StatesMergeToTotals)
<1>1. BreakersInv => MergeConserves /\ ResultIsGrouping /\ StatesMergeToTotals
  BY GroupAssumption, GroupsConserve, ResultGroups, TotalsMerge
     DEF BreakersInv, AggregateInv
<1> QED
  BY <1>1, BreakersHold, PTL

\* Hash table, key builders and states of every thread agree on the groups, while rows
\* are sunk and at every turn of Finalize's loops: an id is never the id of two keys,
\* and never one whose state is still to be made.
THEOREM BreakersAligned ==
  ASSUME Comparable
  PROVE  BreakersSpec => []Aligned
<1>1. BreakersInv => Aligned
  BY GroupAssumption, GroupsAligned DEF BreakersInv, AggregateInv
<1> QED
  BY <1>1, BreakersHold, PTL

\* No trim drops a row that could be in the result, of a table or of groups.
THEOREM BreakersTrim ==
  ASSUME Comparable
  PROVE  BreakersSpec => []DroppedAreCovered
<1>1. BreakersInv => DroppedAreCovered
  BY SameProperties DEF BreakersInv, OrderFacts!OrderInv, DroppedAreCovered
<1> QED
  BY <1>1, BreakersHold, PTL

\* ORDER BY ... LIMIT ... OFFSET: the result is the window of the rows of a table,
\* or of the groups of an aggregation, sorted by their aggregates.
THEOREM BreakersSort ==
  ASSUME Comparable
  PROVE  BreakersSpec => []ResultIsWindow
<1>1. BreakersInv => ResultIsWindow
  BY SortsGroups
<1> QED
  BY <1>1, BreakersHold, PTL

\* The types of the three operators.
THEOREM BreakersTyped ==
  ASSUME Comparable
  PROVE  BreakersSpec => []BreakersTypeOK
<1>1. BreakersInv => BreakersTypeOK
  BY GroupAssumption, GroupsTyped, TotalsTyped, SameProperties
     DEF BreakersInv, AggregateInv, OrderFacts!OrderInv, BreakersTypeOK
<1> QED
  BY <1>1, BreakersHold, PTL
=============================================================================
