------------------------- MODULE CsvTokenizerProofs -------------------------
(***************************************************************************)
(* Proofs about CsvTokenizer: for any file, any size of the buffer, and    *)
(* any number of columns that is expected.                                 *)
(*                                                                         *)
(* The reference, Lines, is about the whole file.  What the automaton has  *)
(* made of the characters consumed so far is said in the same terms: a     *)
(* text is the characters at the places that count, in order, and a row or *)
(* a table is cut at the separators, in order.  So what is needed of       *)
(* InOrder is what one more place behind all others adds to it.            *)
(***************************************************************************)
EXTENDS CsvTokenizer, DataFacts

-----------------------------------------------------------------------------
(* InOrder. *)

\* Sets of numbers up to some number are finite.
LEMMA UpToFinite ==
  ASSUME NEW N, N \in Nat, NEW S, S \subseteq 0..N
  PROVE  /\ IsFiniteSet(S) /\ Cardinality(S) \in Nat
         /\ \A T \in SUBSET S : /\ IsFiniteSet(T) /\ Cardinality(T) \in Nat
                                /\ Cardinality(T) <= Cardinality(S)
<1>1. IsFiniteSet(0..N)
  BY FS_Interval
<1>2. IsFiniteSet(S)
  BY <1>1, FS_Subset
<1>3. \A T \in SUBSET S : IsFiniteSet(T) /\ Cardinality(T) <= Cardinality(S)
  BY <1>2, FS_Subset
<1> QED
  BY <1>2, <1>3, FS_CardinalityType

\* The members of S below x.
Below(S, x) == {y \in S : y < x}

\* The members of S with j - 1 below them.
AtPlace(S, j) == {x \in S : Cardinality(Below(S, x)) = j - 1}

\* What is first in a set is first in order.
LEMMA FirstInOrder ==
  ASSUME NEW N, N \in Nat, NEW S, S \subseteq 0..N, NEW B, B \subseteq S,
         \A x \in S, y \in B : x < y => x \in B
  PROVE  /\ Cardinality(B) \in Nat /\ Cardinality(B) <= Cardinality(S)
         /\ \A j \in 1..Cardinality(B) : InOrder(B)[j] = InOrder(S)[j]
<1>1. /\ Cardinality(S) \in Nat /\ Cardinality(B) \in Nat
      /\ Cardinality(B) <= Cardinality(S)
  BY UpToFinite
<1> SUFFICES ASSUME NEW j \in 1..Cardinality(B)
             PROVE  InOrder(B)[j] = InOrder(S)[j]
  BY <1>1
<1>2. \A x \in B : Below(B, x) = Below(S, x)
  BY DEF Below
<1>3. \A x \in S \ B : Cardinality(Below(S, x)) >= Cardinality(B)
  <2> SUFFICES ASSUME NEW x \in S \ B
               PROVE  Cardinality(Below(S, x)) >= Cardinality(B)
    OBVIOUS
  <2>1. B \subseteq Below(S, x)
    BY DEF Below
  <2>2. Below(S, x) \subseteq 0..N
    BY DEF Below
  <2> QED
    BY <2>1, <2>2, <1>1, UpToFinite
<1>4. AtPlace(B, j) = AtPlace(S, j)
  <2>1. \A x \in S \ B : Cardinality(Below(S, x)) # j - 1
    <3> SUFFICES ASSUME NEW x \in S \ B, Cardinality(Below(S, x)) = j - 1
                 PROVE  FALSE
      OBVIOUS
    <3> QED
      BY <1>1, <1>3
  <2> QED
    BY <1>2, <2>1 DEF AtPlace
<1>5. InOrder(B)[j] = CHOOSE x : x \in AtPlace(B, j)
  BY DEF InOrder, AtPlace, Below
<1>6. InOrder(S)[j] = CHOOSE x : x \in AtPlace(S, j)
  <2>1. j \in 1..Cardinality(S)
    BY <1>1
  <2> QED
    BY <2>1 DEF InOrder, AtPlace, Below
<1> QED
  BY <1>4, <1>5, <1>6

\* T has one member behind those of S.
OneMore(S, T, n) ==
  /\ Cardinality(S) \in Nat /\ Cardinality(T) = Cardinality(S) + 1
  /\ \A j \in 1..Cardinality(S) : InOrder(T)[j] = InOrder(S)[j]
  /\ InOrder(T)[Cardinality(S) + 1] = n

\* A number behind all others comes last.
LEMMA LastInOrder ==
  ASSUME NEW N, N \in Nat, NEW S, S \subseteq 0..N, NEW n, n \in 0..N, \A x \in S : x < n,
         NEW T, T = S \cup {n}
  PROVE  OneMore(S, T, n)
<1>1. IsFiniteSet(S) /\ Cardinality(S) \in Nat
  BY UpToFinite
<1>2. T = S \cup {n}
  OBVIOUS
<1>3. T \subseteq 0..N /\ S \subseteq T /\ n \notin S
  BY <1>2
<1>4. Cardinality(T) = Cardinality(S) + 1
  BY <1>1, <1>2, <1>3, FS_AddElement
<1>5. \A x \in T, y \in S : x < y => x \in S
  BY <1>2
<1>6. \A j \in 1..Cardinality(S) : InOrder(T)[j] = InOrder(S)[j]
  BY <1>3, <1>5, FirstInOrder
<1>7. InOrder(T)[Cardinality(S) + 1] = n
  <2>1. PICK k : k = Cardinality(S) + 1 /\ k \in 1..Cardinality(T)
    BY <1>1, <1>4
  <2>2. Below(T, n) = S
    <3>1. \A x : x \in Below(T, n) <=> x \in S
      <4>1. n \in Nat /\ ~(n < n)
        OBVIOUS
      <4> QED
        BY <1>2, <1>3, <4>1, Zenon DEF Below
    <3> QED
      BY ONLY <3>1 DEF Below
  <2>3. n \in AtPlace(T, k)
    BY <1>1, <1>2, <2>1, <2>2 DEF AtPlace
  <2>4. \A x \in S : Cardinality(Below(T, x)) < Cardinality(S)
    <3> SUFFICES ASSUME NEW x \in S
                 PROVE  Cardinality(Below(T, x)) < Cardinality(S)
      OBVIOUS
    <3>1. Below(T, x) \in SUBSET S /\ x \notin Below(T, x)
      BY <1>2 DEF Below
    <3>2. /\ Cardinality(Below(T, x)) <= Cardinality(S)
          /\ Cardinality(S) = Cardinality(Below(T, x)) => S = Below(T, x)
      BY <1>1, <3>1, FS_Subset
    <3>3. Cardinality(Below(T, x)) \in Nat
      BY <1>1, <3>1, FS_Subset, FS_CardinalityType
    <3> QED
      BY <1>1, <3>1, <3>2, <3>3
  <2>5. \A x \in AtPlace(T, k) : x = n
    <3> SUFFICES ASSUME NEW x \in AtPlace(T, k), x # n
                 PROVE  FALSE
      OBVIOUS
    <3>1. x \in S /\ Cardinality(Below(T, x)) = k - 1
      BY <1>2 DEF AtPlace
    <3>2. Cardinality(Below(T, x)) < Cardinality(S)
      BY <2>4, <3>1
    <3> QED
      BY ONLY <1>1, <2>1, <3>1, <3>2
  <2>6. InOrder(T)[k] = CHOOSE x : x \in AtPlace(T, k)
    BY <2>1 DEF InOrder, AtPlace, Below
  <2> QED
    BY <2>1, <2>3, <2>5, <2>6
<1> QED
  BY <1>1, <1>2, <1>4, <1>6, <1>7 DEF OneMore

\* The greatest member is the last.
LEMMA GreatestInOrder ==
  ASSUME NEW N \in Nat, NEW S, S \subseteq 0..N, NEW m \in S, \A x \in S : x <= m
  PROVE  Cardinality(S) \in Nat \ {0} /\ InOrder(S)[Cardinality(S)] = m
<1>1. PICK R : R = S \ {m}
  OBVIOUS
<1>2. R \subseteq 0..N /\ S = R \cup {m} /\ m \in 0..N /\ \A x \in R : x < m
  BY <1>1
<1>3. OneMore(R, S, m)
  BY ONLY N \in Nat, <1>2, LastInOrder
<1> QED
  BY <1>3 DEF OneMore

\* InOrder lists members of the set, each greater than those before it.
LEMMA InOrderIs ==
  ASSUME NEW N \in Nat, NEW S, S \subseteq 0..N
  PROVE  /\ Cardinality(S) \in Nat
         /\ InOrder(S) \in [1..Cardinality(S) -> S]
         /\ \A i, j \in 1..Cardinality(S) : i < j => InOrder(S)[i] < InOrder(S)[j]
<1> DEFINE Listed(P) == /\ InOrder(P) \in [1..Cardinality(P) -> P]
                        /\ \A i, j \in 1..Cardinality(P) :
                              i < j => InOrder(P)[i] < InOrder(P)[j]
           T == {n \in Nat : \A P : P \subseteq 0..N /\ (\A x \in P : x < n) => Listed(P)}
<1>1. \A P : InOrder(P) = [j \in 1..Cardinality(P) |-> InOrder(P)[j]]
  <2> TAKE P
  <2> DEFINE e(j) == CHOOSE x \in P : Cardinality({y \in P : y < x}) = j - 1
  <2>1. InOrder(P) = [j \in 1..Cardinality(P) |-> e(j)]
    BY DEF InOrder
  <2> HIDE DEF e
  <2> QED
    BY <2>1
<1>2. 0 \in T
  <2> SUFFICES ASSUME NEW P, P \subseteq 0..N, \A x \in P : x < 0
               PROVE  Listed(P)
    OBVIOUS
  <2>1. P = {}
    OBVIOUS
  <2>2. Cardinality(P) = 0
    BY <2>1, FS_EmptySet
  <2> QED
    BY <1>1, <2>2
<1>3. ASSUME NEW n \in Nat, n \in T
      PROVE  n + 1 \in T
  <2> SUFFICES ASSUME NEW P, P \subseteq 0..N, \A x \in P : x < n + 1
               PROVE  Listed(P)
    OBVIOUS
  <2>1. CASE n \notin P
    <3>1. \A x \in P : x < n
      BY <2>1
    <3> QED
      BY <1>3, <3>1
  <2>2. CASE n \in P
    <3>1. PICK R : R = P \ {n}
      OBVIOUS
    <3>2. R \subseteq 0..N /\ P = R \cup {n} /\ n \in 0..N /\ \A x \in R : x < n
      BY <2>2, <3>1
    <3>3. PICK k : k = Cardinality(R)
      OBVIOUS
    <3>4. /\ k \in Nat /\ Cardinality(P) = k + 1
          /\ \A j \in 1..k : InOrder(P)[j] = InOrder(R)[j]
          /\ InOrder(P)[k + 1] = n
      <4>1. OneMore(R, P, n)
        BY ONLY N \in Nat, <3>2, LastInOrder
      <4> QED
        BY ONLY <3>3, <4>1 DEF OneMore
    <3>5. Listed(R)
      BY <1>3, <3>2
    <3>6. \A j \in 1..(k + 1) : j = k + 1 \/ j \in 1..k
      BY <3>4
    <3>7. \A j \in 1..k : InOrder(P)[j] \in R
      BY <3>3, <3>4, <3>5
    <3>8. InOrder(P) \in [1..Cardinality(P) -> P]
      BY <1>1, <2>2, <3>2, <3>4, <3>6, <3>7
    <3>9. ASSUME NEW i \in 1..(k + 1), NEW j \in 1..(k + 1), i < j
          PROVE  InOrder(P)[i] < InOrder(P)[j]
      <4>1. i \in 1..k /\ InOrder(P)[i] \in R
        BY <3>4, <3>7, <3>9
      <4>2. CASE j = k + 1
        BY <3>2, <3>4, <4>1, <4>2
      <4>3. CASE j \in 1..k
        BY <3>3, <3>4, <3>5, <3>9, <4>1, <4>3
      <4> QED
        BY <3>6, <4>2, <4>3
    <3> QED
      BY <3>4, <3>8, <3>9
  <2> QED
    BY <2>1, <2>2
<1> HIDE DEF T
<1>4. N + 1 \in T
  BY <1>2, <1>3, SetInduction
<1>5. \A x \in S : x < N + 1
  OBVIOUS
<1>6. Listed(S)
  BY <1>4, <1>5 DEF T
<1> QED
  BY <1>6, UpToFinite

-----------------------------------------------------------------------------
(* Pieces between cuts, and the characters at places. *)

\* What g makes of each two cuts that follow one another.
Pieces(g, S) == [j \in 1..(Cardinality(S) - 1) |-> g[<<InOrder(S)[j], InOrder(S)[j + 1]>>]]

\* What g gives.
Values(g) == {g[p] : p \in Nat \X Nat}

\* Pieces are a sequence of what g gives.
LEMMA PiecesAre ==
  ASSUME NEW g, NEW N \in Nat, NEW S, S \subseteq 0..N, S # {}
  PROVE  /\ Cardinality(S) \in Nat \ {0}
         /\ Pieces(g, S) \in Seq(Values(g)) /\ Len(Pieces(g, S)) = Cardinality(S) - 1
<1>1. /\ Cardinality(S) \in Nat /\ InOrder(S) \in [1..Cardinality(S) -> S]
  BY InOrderIs
<1>2. Cardinality(S) # 0
  BY FS_EmptySet, UpToFinite
<1>3. PICK n : n = Cardinality(S) - 1 /\ n \in Nat /\ Cardinality(S) = n + 1
  BY <1>1, <1>2
<1>4. ASSUME NEW j \in 1..n
      PROVE  g[<<InOrder(S)[j], InOrder(S)[j + 1]>>] \in Values(g)
  <2>1. j \in 1..(n + 1) /\ j + 1 \in 1..(n + 1)
    BY <1>3
  <2>2. InOrder(S)[j] \in Nat /\ InOrder(S)[j + 1] \in Nat
    <3>1. InOrder(S)[j] \in S /\ InOrder(S)[j + 1] \in S
      BY ONLY <1>1, <1>3, <2>1
    <3>2. \A x \in S : x \in Nat
      OBVIOUS
    <3> QED
      BY ONLY <3>1, <3>2
  <2> QED
    BY <2>2 DEF Values
<1>5. Pieces(g, S) \in [1..n -> Values(g)]
  BY <1>3, <1>4 DEF Pieces
<1> QED
  BY <1>1, <1>2, <1>3, <1>5, IsSequence

\* d is the last cut in D.
LastOf(D, d) == d \in D /\ \A x \in D : x <= d

\* In T there is one more piece, from m to n.
OnePiece(g, S, T, m, n) == Pieces(g, T) = Append(Pieces(g, S), g[<<m, n>>])

\* One more cut behind all others makes one more piece.
LEMMA PiecesGrow ==
  ASSUME NEW g, NEW N, N \in Nat, NEW S, S \subseteq 0..N, NEW m, LastOf(S, m),
         NEW n, n \in 0..N, m < n, NEW T, T = S \cup {n}
  PROVE  OnePiece(g, S, T, m, n)
<1> USE DEF LastOf
<1>1. T = S \cup {n}
  OBVIOUS
<1>2. T \subseteq 0..N /\ T # {} /\ S # {} /\ \A x \in S : x < n
  BY <1>1
<1>3. PICK k : k = Cardinality(S)
  OBVIOUS
<1>4. /\ k \in Nat \ {0} /\ InOrder(S)[k] = m
      /\ Pieces(g, S) \in Seq(Values(g)) /\ Len(Pieces(g, S)) = k - 1
  BY <1>2, <1>3, GreatestInOrder, PiecesAre
<1>5. /\ Cardinality(T) = k + 1 /\ InOrder(T)[k + 1] = n
      /\ \A j \in 1..k : InOrder(T)[j] = InOrder(S)[j]
  <2>1. OneMore(S, T, n)
    <3>1. N \in Nat /\ S \subseteq 0..N /\ n \in 0..N /\ T = S \cup {n} /\ \A x \in S : x < n
      BY <1>1, <1>2
    <3> QED
      BY ONLY <3>1, LastInOrder
  <2> QED
    BY ONLY <1>3, <2>1 DEF OneMore
<1>6. Pieces(g, T) = [j \in 1..k |-> g[<<InOrder(T)[j], InOrder(T)[j + 1]>>]]
  BY <1>4, <1>5 DEF Pieces
<1>7. PICK v : v = g[<<m, n>>] /\ v \in Values(g)
  <2>1. <<m, n>> \in Nat \X Nat
    OBVIOUS
  <2> QED
    BY <2>1 DEF Values
<1>8. PICK a, t : a = Append(Pieces(g, S), v) /\ t = Pieces(g, S)
  OBVIOUS
<1>9. /\ a \in Seq(Values(g)) /\ Len(a) = k /\ a[k] = v
      /\ \A j \in 1..(k - 1) : a[j] = t[j]
  <2>1. /\ Append(t, v) \in Seq(Values(g)) /\ Len(Append(t, v)) = Len(t) + 1
        /\ \A j \in 1..Len(t) : Append(t, v)[j] = t[j]
        /\ Append(t, v)[Len(t) + 1] = v
    BY <1>4, <1>7, <1>8, AppendProperties
  <2> QED
    BY <1>4, <1>8, <2>1
<1>10. a = [j \in 1..k |-> a[j]]
  BY <1>9, LenProperties
<1>11. ASSUME NEW j \in 1..k
       PROVE  a[j] = g[<<InOrder(T)[j], InOrder(T)[j + 1]>>]
  <2>1. CASE j = k
    BY <1>4, <1>5, <1>7, <1>9, <2>1
  <2>2. CASE j \in 1..(k - 1)
    <3>1. t[j] = g[<<InOrder(S)[j], InOrder(S)[j + 1]>>]
      BY <1>3, <1>8, <2>2 DEF Pieces
    <3>2. j + 1 \in 1..k
      BY <1>4, <2>2
    <3> QED
      BY <1>5, <1>9, <2>2, <3>1, <3>2
  <2> QED
    BY <1>4, <2>1, <2>2
<1> QED
  BY <1>1, <1>6, <1>7, <1>8, <1>10, <1>11 DEF OnePiece

\* q begins with p.
StartsWith(q, p) == Len(p) <= Len(q) /\ \A i \in 1..Len(p) : p[i] = q[i]

\* The first cuts make the first pieces.
LEMMA FirstPieces ==
  ASSUME NEW g, NEW N \in Nat, NEW S, S \subseteq 0..N, NEW B, B \subseteq S, B # {},
         \A x \in S, y \in B : x < y => x \in B
  PROVE  StartsWith(Pieces(g, S), Pieces(g, B))
<1>1. S # {} /\ B \subseteq 0..N
  OBVIOUS
<1>2. PICK b, n : b = Cardinality(B) /\ n = Cardinality(S)
  OBVIOUS
<1>3. /\ b \in Nat \ {0} /\ n \in Nat /\ Len(Pieces(g, B)) = b - 1 /\ Len(Pieces(g, S)) = n - 1
  BY <1>1, <1>2, PiecesAre
<1>4. b <= n /\ \A j \in 1..b : InOrder(B)[j] = InOrder(S)[j]
  BY <1>2, FirstInOrder
<1>5. ASSUME NEW j \in 1..(b - 1)
      PROVE  Pieces(g, B)[j] = Pieces(g, S)[j]
  <2>1. j \in 1..b /\ j + 1 \in 1..b /\ j \in 1..(n - 1)
    BY <1>3, <1>4
  <2>2. InOrder(B)[j] = InOrder(S)[j] /\ InOrder(B)[j + 1] = InOrder(S)[j + 1]
    BY <1>4, <2>1
  <2> QED
    BY <1>2, <2>1, <2>2 DEF Pieces
<1> QED
  BY <1>3, <1>4, <1>5 DEF StartsWith

\* The characters of f at the places in K, in their order.
At(f, K) == [k \in DOMAIN InOrder(K) |-> f[InOrder(K)[k]]]

\* They are a text.
LEMMA AtIs ==
  ASSUME NEW X, NEW f \in Seq(X), NEW K, K \subseteq DOMAIN f
  PROVE  /\ Cardinality(K) \in Nat /\ At(f, K) \in Seq(X) /\ Len(At(f, K)) = Cardinality(K)
         /\ \A k \in 1..Cardinality(K) : At(f, K)[k] = f[InOrder(K)[k]]
<1>1. Len(f) \in Nat /\ DOMAIN f = 1..Len(f) /\ \A i \in 1..Len(f) : f[i] \in X
  BY LenProperties, ElementOfSeq
<1>2. K \subseteq 0..Len(f)
  BY <1>1
<1>3. Cardinality(K) \in Nat /\ InOrder(K) \in [1..Cardinality(K) -> K]
  BY <1>1, <1>2, InOrderIs
<1>4. At(f, K) \in [1..Cardinality(K) -> X]
  BY <1>1, <1>3 DEF At
<1> QED
  BY <1>3, <1>4, IsSequence DEF At

\* One more place behind all others makes the text longer by its character.
LEMMA AtGrows ==
  ASSUME NEW X, NEW f \in Seq(X), NEW K, K \subseteq DOMAIN f, NEW n \in DOMAIN f,
         \A x \in K : x < n
  PROVE  At(f, K \cup {n}) = At(f, K) \o <<f[n]>>
<1>1. PICK L, T : L = Len(f) /\ T = K \cup {n}
  OBVIOUS
<1>2. L \in Nat /\ DOMAIN f = 1..L
  BY <1>1, LenProperties
<1>3. K \subseteq 0..L /\ n \in 0..L /\ T \subseteq DOMAIN f
  BY <1>1, <1>2
<1>4. PICK k : k = Cardinality(K)
  OBVIOUS
<1>5. /\ k \in Nat /\ Cardinality(T) = k + 1 /\ InOrder(T)[k + 1] = n
      /\ \A j \in 1..k : InOrder(T)[j] = InOrder(K)[j]
  <2>1. OneMore(K, T, n)
    <3>1. L \in Nat /\ K \subseteq 0..L /\ n \in 0..L /\ T = K \cup {n} /\ \A x \in K : x < n
      BY <1>1, <1>2, <1>3
    <3> QED
      BY ONLY <3>1, LastInOrder
  <2> QED
    BY ONLY <1>4, <2>1 DEF OneMore
<1>6. PICK a, b, u : a = At(f, K) /\ b = At(f, T) /\ u = f[n]
  OBVIOUS
<1>7. /\ a \in Seq(X) /\ Len(a) = k /\ \A j \in 1..k : a[j] = f[InOrder(K)[j]]
  BY <1>4, <1>6, AtIs
<1>8. /\ b \in Seq(X) /\ Len(b) = k + 1 /\ \A j \in 1..(k + 1) : b[j] = f[InOrder(T)[j]]
  BY <1>3, <1>5, <1>6, AtIs
<1>9. u \in X
  BY <1>2, <1>6, ElementOfSeq
<1>10. <<u>> \in Seq(X) /\ Len(<<u>>) = 1 /\ <<u>>[1] = u
  BY <1>9
<1>11. PICK c : c = a \o <<u>>
  OBVIOUS
<1>12. /\ c \in Seq(X) /\ Len(c) = k + 1 /\ c[k + 1] = u /\ \A j \in 1..k : c[j] = a[j]
  <2>1. /\ a \o <<u>> \in Seq(X) /\ Len(a \o <<u>>) = Len(a) + Len(<<u>>)
        /\ \A j \in 1..(Len(a) + Len(<<u>>)) :
             (a \o <<u>>)[j] = IF j <= Len(a) THEN a[j] ELSE <<u>>[j - Len(a)]
    BY <1>7, <1>10, ConcatProperties
  <2> QED
    <3>1. PICK v : v = <<u>>
      OBVIOUS
    <3>2. /\ c \in Seq(X) /\ Len(c) = k + 1
          /\ \A j \in 1..(k + 1) : c[j] = IF j <= k THEN a[j] ELSE v[j - k]
      BY ONLY <1>7, <1>10, <1>11, <2>1, <3>1
    <3>3. k + 1 \in 1..(k + 1) /\ ~(k + 1 <= k) /\ (k + 1) - k = 1
          /\ \A j \in 1..k : j \in 1..(k + 1) /\ j <= k
      BY ONLY <1>5
    <3> QED
      BY ONLY <1>10, <3>1, <3>2, <3>3
<1>13. \A j \in 1..(k + 1) : b[j] = c[j]
  <2>1. \A j \in 1..(k + 1) : j = k + 1 \/ j \in 1..k
    BY <1>5
  <2> QED
    BY <1>5, <1>6, <1>7, <1>8, <1>12, <2>1
<1>14. b = c
  BY ONLY <1>5, <1>8, <1>12, <1>13, SeqEqual
<1> QED
  BY <1>1, <1>6, <1>11, <1>14

\* The white space at the end is what is behind the last other character.
LEMMA TrimmedAt ==
  ASSUME NEW X, NEW f \in Seq(X), NEW K, K \subseteq DOMAIN f,
         NEW B, B = {i \in K : \E k \in K : k >= i /\ f[k] \notin Whitespace}
  PROVE  Trimmed(At(f, K)) = At(f, B)
<1>1. PICK N : N = Len(f) /\ N \in Nat /\ DOMAIN f = 1..N
  BY LenProperties
<1>2. K \subseteq 0..N /\ B \subseteq K /\ B \subseteq 0..N /\ B \subseteq DOMAIN f
  BY <1>1
<1>3. PICK n, b, s, t, o : /\ n = Cardinality(K) /\ b = Cardinality(B)
                           /\ s = At(f, K) /\ t = At(f, B) /\ o = InOrder(K)
  OBVIOUS
<1>4. /\ n \in Nat /\ o \in [1..n -> K] /\ \A i, j \in 1..n : i < j => o[i] < o[j]
  BY <1>1, <1>2, <1>3, InOrderIs
<1>5. /\ s \in Seq(X) /\ Len(s) = n /\ \A k \in 1..n : s[k] = f[o[k]]
  BY <1>3, AtIs
<1>6. /\ b \in Nat /\ t \in Seq(X) /\ Len(t) = b /\ \A k \in 1..b : t[k] = f[InOrder(B)[k]]
  BY <1>2, <1>3, AtIs
<1>7. b <= n /\ \A j \in 1..b : InOrder(B)[j] = o[j]
  <2>1. \A x \in K, y \in B : x < y => x \in B
    BY <1>2
  <2> QED
    BY <1>1, <1>2, <1>3, <2>1, FirstInOrder
<1>8. SubSeq(s, 1, b) = t
  <2>1. \A i \in 1..b : i \in 1..n /\ s[i] \in X
    BY <1>4, <1>5, <1>6, <1>7, ElementOfSeq
  <2>2. PICK u : u = SubSeq(s, 1, b)
    OBVIOUS
  <2>3. /\ u \in Seq(X) /\ Len(u) = b /\ \A i \in 1..b : u[i] = s[i]
    BY <1>4, <1>5, <1>6, <1>7, <2>1, <2>2, SubSeqProperties
  <2>4. \A i \in 1..b : u[i] = t[i]
    <3> SUFFICES ASSUME NEW i \in 1..b
                 PROVE  u[i] = t[i]
      OBVIOUS
    <3>1. u[i] = s[i] /\ s[i] = f[o[i]]
      BY ONLY i \in 1..b, <1>5, <2>1, <2>3
    <3>2. t[i] = f[InOrder(B)[i]] /\ InOrder(B)[i] = o[i]
      BY ONLY i \in 1..b, <1>6, <1>7
    <3> QED
      BY ONLY <3>1, <3>2
  <2>5. u = t
    BY ONLY <1>6, <2>3, <2>4, SeqEqual
  <2> QED
    BY <2>2, <2>5
<1>9. PICK E : E = {i \in DOMAIN s : s[i] \notin Whitespace}
  OBVIOUS
<1>10. E = {i \in 1..n : f[o[i]] \notin Whitespace}
  <2>1. DOMAIN s = 1..n
    BY <1>5, LenProperties
  <2> QED
    BY <1>5, <1>9, <2>1
<1>11. Trimmed(s) = SubSeq(s, 1, IF E = {} THEN 0 ELSE Max(E))
  BY <1>9 DEF Trimmed
<1>12. \A i \in E : o[i] \in B
  BY <1>2, <1>4, <1>10
<1>13. b = IF E = {} THEN 0 ELSE Max(E)
  <2>1. CASE B = {}
    <3>1. b = 0
      BY <1>3, <2>1, FS_EmptySet
    <3> QED
      BY <1>12, <2>1, <3>1
  <2>2. CASE B # {}
    <3>1. PICK m \in B : \A x \in B : x <= m
      <4>1. B \subseteq Int /\ IsFiniteSet(B)
        BY <1>1, <1>2, UpToFinite
      <4> QED
        BY <2>2, <4>1, Extremes
    <3>2. f[m] \notin Whitespace
      <4>1. PICK k \in K : k >= m /\ f[k] \notin Whitespace
        BY <3>1
      <4>2. k \in B /\ k \in Nat /\ m \in Nat
        BY <1>2, <3>1, <4>1
      <4> QED
        BY <3>1, <4>1, <4>2
    <3>3. b \in 1..n /\ o[b] = m
      <4>1. b \in Nat \ {0} /\ InOrder(B)[b] = m
        BY <1>1, <1>2, <1>3, <3>1, GreatestInOrder
      <4>2. b \in 1..b /\ b \in 1..n
        BY ONLY <1>4, <1>7, <4>1
      <4> QED
        BY ONLY <1>7, <4>1, <4>2
    <3>4. b \in E
      BY <1>10, <3>2, <3>3
    <3>5. \A i \in E : b >= i
      <4> SUFFICES ASSUME NEW i \in E, ~(b >= i)
                   PROVE  FALSE
        OBVIOUS
      <4>1. i \in 1..n /\ b < i
        BY <1>4, <1>10, <3>3
      <4>2. m < o[i]
        BY <1>4, <3>3, <4>1
      <4>3. o[i] <= m /\ o[i] \in Nat /\ m \in Nat
        BY <1>2, <1>12, <3>1
      <4> QED
        BY <4>2, <4>3
    <3>6. E \in SUBSET Int
      BY <1>4, <1>10
    <3> QED
      BY <3>4, <3>5, <3>6, MaxIs
  <2> QED
    BY <2>1, <2>2
<1> QED
  BY <1>3, <1>8, <1>11, <1>13

-----------------------------------------------------------------------------
(* Fields. *)

\* A quote turns the inside out.
LEMMA InsideNext ==
  ASSUME NEW f
  PROVE  /\ ~Inside(f, 1)
         /\ \A i \in Nat \ {0} : Inside(f, i + 1) <=> IF f[i] = Quote THEN ~Inside(f, i)
                                                                      ELSE Inside(f, i)
<1> DEFINE Q(i) == {k \in 1..(i - 1) : f[k] = Quote}
<1>1. \A i : Inside(f, i) <=> Cardinality(Q(i)) % 2 = 1
  BY DEF Inside
<1>2. ~Inside(f, 1)
  <2>1. Q(1) = {}
    OBVIOUS
  <2>2. Cardinality(Q(1)) = 0
    BY <2>1, FS_EmptySet
  <2> QED
    BY <1>1, <2>2
<1>3. ASSUME NEW i \in Nat \ {0}
      PROVE  Inside(f, i + 1) <=> IF f[i] = Quote THEN ~Inside(f, i) ELSE Inside(f, i)
  <2>1. PICK c : c = Cardinality(Q(i))
    OBVIOUS
  <2>2. IsFiniteSet(Q(i)) /\ c \in Nat
    <3>1. Q(i) \subseteq 0..i
      OBVIOUS
    <3> QED
      BY <2>1, <3>1, UpToFinite
  <2>3. CASE f[i] = Quote
    <3>1. Q(i + 1) = Q(i) \cup {i} /\ i \notin Q(i)
      BY <2>3
    <3>2. Cardinality(Q(i + 1)) = c + 1
      BY <2>1, <2>2, <3>1, FS_AddElement
    <3>3. (c + 1) % 2 = 1 <=> ~(c % 2 = 1)
      BY <2>2
    <3> QED
      BY <1>1, <2>1, <2>3, <3>2, <3>3
  <2>4. CASE f[i] # Quote
    <3>1. Q(i + 1) = Q(i)
      BY <2>4
    <3> QED
      BY <1>1, <2>4, <3>1
  <2> QED
    BY <2>3, <2>4
<1> QED
  BY <1>2, <1>3

\* The places of the text in the field from s to e.
Kept(f, s, e) == {i \in s..e : InText(f, s, i)}

\* The text of a field is what is there, without the white space at its end.
LEMMA FieldIsTrimmed ==
  ASSUME NEW X, NEW f \in Seq(X), NEW s \in Nat \ {0}, NEW e \in Nat, e <= Len(f)
  PROVE  /\ Kept(f, s, e) \subseteq DOMAIN f
         /\ FieldText(f, s, e) = Trimmed(At(f, Kept(f, s, e)))
<1>1. PICK K : K = Kept(f, s, e)
  OBVIOUS
<1>2. K \subseteq DOMAIN f
  <2>1. DOMAIN f = 1..Len(f) /\ Len(f) \in Nat
    BY LenProperties
  <2> QED
    BY <1>1, <2>1 DEF Kept
<1>3. PICK B : B = {i \in K : \E k \in K : k >= i /\ f[k] \notin Whitespace}
  OBVIOUS
<1>4. FieldText(f, s, e) = At(f, B)
  BY <1>1, <1>3 DEF FieldText, At, Kept
<1>5. Trimmed(At(f, K)) = At(f, B)
  BY <1>2, <1>3, TrimmedAt
<1> QED
  BY <1>1, <1>2, <1>4, <1>5

\* Without its last element a longer sequence is the shorter one.
LEMMA FrontOfAppend ==
  ASSUME NEW X, NEW p \in Seq(X), NEW v \in X
  PROVE  Front(Append(p, v)) = p /\ Last(Append(p, v)) = v /\ Len(Append(p, v)) = Len(p) + 1
<1>1. PICK a, n : a = Append(p, v) /\ n = Len(p) /\ n \in Nat
  BY LenProperties
<1>2. /\ a \in Seq(X) /\ Len(a) = n + 1 /\ a[n + 1] = v /\ \A j \in 1..n : a[j] = p[j]
  <2>1. /\ Append(p, v) \in Seq(X) /\ Len(Append(p, v)) = Len(p) + 1
        /\ \A j \in 1..Len(p) : Append(p, v)[j] = p[j]
        /\ Append(p, v)[Len(p) + 1] = v
    BY AppendProperties
  <2> QED
    BY <1>1, <2>1
<1>3. PICK u : u = SubSeq(a, 1, n)
  OBVIOUS
<1>4. u \in Seq(X) /\ Len(u) = n /\ \A i \in 1..n : u[i] = a[i]
  <2>1. \A i \in 1..n : i \in 1..Len(a) /\ a[i] \in X
    BY <1>1, <1>2, ElementOfSeq
  <2> QED
    BY <1>1, <1>2, <1>3, <2>1, SubSeqProperties
<1>5. \A i \in 1..n : u[i] = p[i]
  BY <1>2, <1>4
<1>6. u = p
  BY ONLY p \in Seq(X), <1>1, <1>4, <1>5, SeqEqual
<1> QED
  BY <1>1, <1>2, <1>3, <1>6 DEF Front, Last

\* The texts between two cuts, and the lines.
TextsOf(f) == [p \in Nat \X Nat |-> FieldText(f, p[1] + 1, p[2] - 1)]
LinesOf(f) == [p \in Nat \X Nat |-> Fields(f, p[1] + 1, p[2])]

\* The cuts of the line that begins behind l, before e.
Delims(f, l, e) == {l} \cup {d \in Separators(f, Delim) : l < d /\ d < e}

\* A field that has no more than white space at the end of the file.
Blank(f, d, e) == e > Len(f) /\ \A k \in (d + 1)..Len(f) : f[k] \in Whitespace

\* The fields of a line are those before its last delimiter and one more, unless the
\* file ends there.
LEMMA FieldsAre ==
  ASSUME NEW X, NEW f \in Seq(X), NEW l \in Nat, NEW e \in Nat, l < e, e <= Len(f) + 1,
         NEW D, D = Delims(f, l, e), NEW d, LastOf(D, d)
  PROVE  /\ Fields(f, l + 1, e) = IF Blank(f, d, e) THEN Pieces(TextsOf(f), D)
                                  ELSE Append(Pieces(TextsOf(f), D), FieldText(f, d + 1, e - 1))
<1>1. PICK N : N = Len(f) + 1 /\ N \in Nat /\ DOMAIN f = 1..Len(f) /\ Len(f) \in Nat
  BY LenProperties
<1>2. /\ D \subseteq 0..N /\ d \in D /\ d \in Nat /\ e \in 0..N /\ d < e
      /\ \A x \in D : x <= d
  BY <1>1 DEF Delims, LastOf, Separators
<1>3. PICK C : C = {(l + 1) - 1, e} \cup {x \in Separators(f, Delim) : l + 1 <= x /\ x < e}
  OBVIOUS
<1>4. C = D \cup {e}
  <2>1. \A x \in Separators(f, Delim) : x \in Nat
    BY <1>1 DEF Separators
  <2>2. \A x \in Nat : l + 1 <= x <=> l < x
    OBVIOUS
  <2> QED
    BY <1>3, <2>1, <2>2 DEF Delims
<1>5. PICK cuts, T, v : cuts = InOrder(C) /\ T = TextsOf(f) /\ v = FieldText(f, d + 1, e - 1)
  OBVIOUS
<1>6. PICK all : all = [j \in 1..(Len(cuts) - 1) |-> FieldText(f, cuts[j] + 1, cuts[j + 1] - 1)]
  OBVIOUS
<1>7. Fields(f, l + 1, e) = IF Blank(f, cuts[Len(cuts) - 1], e) THEN Front(all) ELSE all
  BY <1>3, <1>5, <1>6 DEF Fields, Blank
<1>8. PICK n, p : n = Cardinality(D) /\ p = Pieces(T, D)
  OBVIOUS
<1>9. /\ n \in Nat \ {0} /\ InOrder(D)[n] = d
      /\ p \in Seq(Values(T)) /\ Len(p) = n - 1
  <2>1. D # {}
    BY <1>2
  <2> QED
    BY <1>1, <1>2, <1>8, <2>1, GreatestInOrder, PiecesAre
<1>10. Cardinality(C) = n + 1 /\ cuts[n] = d
  <2>1. N \in Nat /\ D \subseteq 0..N /\ e \in 0..N /\ C = D \cup {e} /\ \A x \in D : x < e
    BY <1>1, <1>2, <1>4
  <2>2. OneMore(D, C, e)
    BY ONLY <2>1, LastInOrder
  <2> QED
    BY <1>5, <1>8, <1>9, <2>2 DEF OneMore
<1>11. Len(cuts) = n + 1 /\ cuts \in [1..(n + 1) -> Nat]
  <2>1. C \subseteq 0..N
    BY <1>2, <1>4
  <2>2. cuts \in [1..(n + 1) -> C]
    BY <1>1, <1>5, <1>10, <2>1, InOrderIs
  <2>3. cuts \in [1..(n + 1) -> Nat]
    <3>1. C \subseteq Nat
      BY <2>1
    <3> QED
      BY ONLY <2>2, <3>1
  <2> QED
    BY <1>9, <2>3, IsSequence
<1>12. all = Pieces(T, C)
  <2>1. all = [j \in 1..n |-> FieldText(f, cuts[j] + 1, cuts[j + 1] - 1)]
    BY <1>6, <1>9, <1>11
  <2>2. Pieces(T, C) = [j \in 1..n |-> T[<<cuts[j], cuts[j + 1]>>]]
    BY <1>5, <1>9, <1>10 DEF Pieces
  <2>3. ASSUME NEW j \in 1..n
        PROVE  T[<<cuts[j], cuts[j + 1]>>] = FieldText(f, cuts[j] + 1, cuts[j + 1] - 1)
    <3>1. cuts[j] \in Nat /\ cuts[j + 1] \in Nat
      BY <1>9, <1>11
    <3> QED
      BY <1>5, <3>1 DEF TextsOf
  <2> QED
    BY <2>1, <2>2, <2>3
<1>13. all = Append(p, v)
  <2>1. T[<<d, e>>] = v
    BY <1>2, <1>5 DEF TextsOf
  <2>2. Pieces(T, C) = Append(Pieces(T, D), T[<<d, e>>])
    <3>1. /\ N \in Nat /\ D \subseteq 0..N /\ LastOf(D, d)
          /\ e \in 0..N /\ d < e /\ C = D \cup {e}
      BY <1>1, <1>2, <1>4
    <3>2. OnePiece(T, D, C, d, e)
      BY ONLY <3>1, PiecesGrow
    <3> QED
      BY <3>2 DEF OnePiece
  <2> QED
    BY <1>8, <1>12, <2>1, <2>2
<1>14. Front(all) = p
  <2>1. v \in Values(T)
    <3>1. T[<<d, e>>] = v /\ <<d, e>> \in Nat \X Nat
      BY <1>2, <1>5 DEF TextsOf
    <3> QED
      BY <3>1 DEF Values
  <2> QED
    BY <1>9, <1>13, <2>1, FrontOfAppend
<1> QED
  <2>1. cuts[Len(cuts) - 1] = d
    BY <1>9, <1>10, <1>11
  <2> QED
    BY <1>5, <1>7, <1>8, <1>13, <1>14, <2>1

-----------------------------------------------------------------------------
(* Lines. *)

\* The cuts between lines, up to c.
Newlines(f, c) == {0} \cup {i \in Separators(f, Newline) : i <= c}

\* The lines are those before the last newline, and what is behind it unless it is
\* nothing.
LEMMA LinesAre ==
  ASSUME NEW X, NEW f \in Seq(X), NEW S, S = Newlines(f, Len(f)), NEW l, LastOf(S, l),
         NEW last, last = Fields(f, l + 1, Len(f) + 1)
  PROVE  /\ S \subseteq 0..Len(f)
         /\ last \in Values(LinesOf(f))
         /\ Lines(f) = IF last = <<>> THEN Pieces(LinesOf(f), S)
                                      ELSE Append(Pieces(LinesOf(f), S), last)
<1>1. PICK e, N : e = Len(f) + 1 /\ N = Len(f) + 1 /\ N \in Nat /\ e \in 0..N /\ DOMAIN f = 1..Len(f)
  BY LenProperties
<1>2. /\ S \subseteq 0..Len(f) /\ S \subseteq 0..N /\ l \in S /\ l \in Nat /\ l < e
      /\ \A x \in S : x < e
  BY <1>1 DEF Newlines, LastOf, Separators
<1>3. PICK C : C = {0, Len(f) + 1} \cup Separators(f, Newline)
  OBVIOUS
<1>4. C = S \cup {e}
  <2>1. \A x \in Separators(f, Newline) : x <= Len(f)
    BY <1>1 DEF Separators
  <2> QED
    BY <1>1, <1>3, <2>1 DEF Newlines
<1>5. PICK cuts, L, p : cuts = InOrder(C) /\ L = LinesOf(f) /\ p = Pieces(L, S)
  OBVIOUS
<1>6. PICK all : all = [i \in 1..(Len(cuts) - 1) |-> Fields(f, cuts[i] + 1, cuts[i + 1])]
  OBVIOUS
<1>7. Lines(f) = IF Last(all) = <<>> THEN Front(all) ELSE all
  BY <1>3, <1>5, <1>6 DEF Lines
<1>8. PICK n : n = Cardinality(S)
  OBVIOUS
<1>9. n \in Nat \ {0} /\ p \in Seq(Values(L))
  <2>1. S # {}
    BY <1>2
  <2> QED
    BY <1>1, <1>2, <1>5, <1>8, <2>1, PiecesAre
<1>10. Cardinality(C) = n + 1
  <2>1. N \in Nat /\ S \subseteq 0..N /\ e \in 0..N /\ C = S \cup {e} /\ \A x \in S : x < e
    BY <1>1, <1>2, <1>4
  <2>2. OneMore(S, C, e)
    BY ONLY <2>1, LastInOrder
  <2> QED
    BY <1>8, <2>2 DEF OneMore
<1>11. Len(cuts) = n + 1 /\ cuts \in [1..(n + 1) -> Nat]
  <2>1. C \subseteq 0..N
    BY <1>1, <1>2, <1>4
  <2>2. cuts \in [1..(n + 1) -> C]
    BY <1>1, <1>5, <1>10, <2>1, InOrderIs
  <2>3. cuts \in [1..(n + 1) -> Nat]
    <3>1. C \subseteq Nat
      BY <1>1, <2>1
    <3> QED
      BY ONLY <2>2, <3>1
  <2> QED
    BY <1>9, <2>3, IsSequence
<1>12. all = Pieces(L, C)
  <2>1. all = [j \in 1..n |-> Fields(f, cuts[j] + 1, cuts[j + 1])]
    BY <1>6, <1>9, <1>11
  <2>2. Pieces(L, C) = [j \in 1..n |-> L[<<cuts[j], cuts[j + 1]>>]]
    BY <1>5, <1>9, <1>10 DEF Pieces
  <2>3. ASSUME NEW j \in 1..n
        PROVE  L[<<cuts[j], cuts[j + 1]>>] = Fields(f, cuts[j] + 1, cuts[j + 1])
    <3>1. cuts[j] \in Nat /\ cuts[j + 1] \in Nat
      BY <1>9, <1>11
    <3> QED
      BY <1>5, <3>1 DEF LinesOf
  <2> QED
    BY <2>1, <2>2, <2>3
<1>13. L[<<l, e>>] = last /\ <<l, e>> \in Nat \X Nat /\ last \in Values(L)
  <2>1. <<l, e>> \in Nat \X Nat
    BY <1>1, <1>2
  <2>2. L[<<l, e>>] = last
    BY <1>1, <1>5, <2>1 DEF LinesOf
  <2> QED
    BY <2>1, <2>2 DEF Values
<1>14. all = Append(p, last)
  <2>1. /\ N \in Nat /\ S \subseteq 0..N /\ LastOf(S, l)
        /\ e \in 0..N /\ l < e /\ C = S \cup {e}
    BY <1>1, <1>2, <1>4
  <2>2. OnePiece(L, S, C, l, e)
    BY ONLY <2>1, PiecesGrow
  <2> QED
    BY <1>5, <1>12, <1>13, <2>2 DEF OnePiece
<1>15. Front(all) = p /\ Last(all) = last
  BY <1>9, <1>13, <1>14, FrontOfAppend
<1> QED
  BY <1>2, <1>5, <1>7, <1>13, <1>14, <1>15

\* The lines that end with a newline up to c are the first ones.
LEMMA LinesBegin ==
  ASSUME NEW X, NEW f \in Seq(X), NEW c \in Nat, c <= Len(f),
         NEW p, p = Pieces(LinesOf(f), Newlines(f, c))
  PROVE  /\ p \in Seq(Values(LinesOf(f))) /\ Lines(f) \in Seq(Values(LinesOf(f)))
         /\ Len(p) <= Len(Lines(f))
         /\ \A i \in 1..Len(p) : p[i] = Lines(f)[i]
<1>1. PICK S, B, N, L : /\ S = Newlines(f, Len(f)) /\ B = Newlines(f, c) /\ N = Len(f) /\ L = LinesOf(f)
                        /\ N \in Nat /\ DOMAIN f = 1..N
  BY LenProperties
<1>2. /\ S \subseteq 0..N /\ B \subseteq S /\ B # {} /\ 0 \in S
      /\ \A x \in S, y \in B : x < y => x \in B
  BY <1>1 DEF Newlines, Separators
<1>3. PICK l : LastOf(S, l)
  <2>1. S \subseteq Int /\ IsFiniteSet(S) /\ S # {}
    BY <1>1, <1>2, UpToFinite
  <2>2. Max(S) \in S /\ \A y \in S : Max(S) >= y
    BY <2>1, Extremes
  <2>3. \A y \in S : y <= Max(S)
    BY <2>1, <2>2
  <2> QED
    BY <2>2, <2>3 DEF LastOf
<1>4. PICK last, q : last = Fields(f, l + 1, Len(f) + 1) /\ q = Pieces(L, S)
  OBVIOUS
<1>5. last \in Values(L) /\ Lines(f) = IF last = <<>> THEN q ELSE Append(q, last)
  BY <1>1, <1>3, <1>4, LinesAre
<1>6. q \in Seq(Values(L)) /\ p \in Seq(Values(L)) /\ Len(q) \in Nat /\ Len(p) \in Nat
  <2>1. S # {} /\ B \subseteq 0..N
    BY <1>2
  <2> QED
    BY <1>1, <1>2, <1>4, <2>1, PiecesAre, LenProperties
<1>7. Len(p) <= Len(q) /\ \A i \in 1..Len(p) : p[i] = q[i]
  <2>1. p = Pieces(L, B)
    BY <1>1
  <2> QED
    <3>1. StartsWith(Pieces(L, S), Pieces(L, B))
      BY <1>1, <1>2, FirstPieces
    <3> QED
      BY <1>4, <2>1, <3>1 DEF StartsWith
<1>8. PICK a : a = Append(q, last)
  OBVIOUS
<1>9. a \in Seq(Values(L)) /\ Len(a) = Len(q) + 1 /\ \A i \in 1..Len(q) : a[i] = q[i]
  BY <1>5, <1>6, <1>8, AppendProperties
<1>10. PICK z : z = Lines(f)
  OBVIOUS
<1>11. z = q \/ z = a
  BY <1>5, <1>8, <1>10
<1>12. z \in Seq(Values(L)) /\ Len(z) >= Len(q) /\ \A i \in 1..Len(q) : z[i] = q[i]
  BY <1>6, <1>9, <1>11
<1>13. \A i \in 1..Len(p) : i \in 1..Len(q)
  BY <1>6, <1>7
<1> QED
  BY <1>1, <1>6, <1>7, <1>10, <1>12, <1>13

-----------------------------------------------------------------------------
(* What is made of the first c characters. *)

\* Of the first c characters of f, l is the last newline that ends a line and d the
\* last cut between fields; rs are the lines before l, r is the fields of the line
\* before d, t the text of the field so far, and b says whether there is something
\* other than white space in it.
Tokenized(f, c, l, d, rs, r, t, b) ==
  /\ l \in Nat /\ d \in Nat /\ d <= c
  /\ LastOf(Newlines(f, c), l) /\ LastOf(Delims(f, l, c + 1), d)
  /\ rs = Pieces(LinesOf(f), Newlines(f, c))
  /\ r = Pieces(TextsOf(f), Delims(f, l, c + 1))
  /\ t = At(f, Kept(f, d + 1, c))
  /\ b = \E k \in (d + 1)..c : f[k] \notin Whitespace

\* Nothing is made of nothing.
LEMMA TokenizedFirst ==
  ASSUME NEW X, NEW f \in Seq(X)
  PROVE  Tokenized(f, 0, 0, 0, <<>>, <<>>, <<>>, FALSE)
<1>1. Newlines(f, 0) = {0} /\ Delims(f, 0, 1) = {0}
  <2>1. DOMAIN f = 1..Len(f)
    BY LenProperties
  <2>2. \A i \in DOMAIN f : ~(i <= 0) /\ ~(0 < i /\ i < 1)
    BY <2>1
  <2> QED
    BY <2>2 DEF Newlines, Delims, Separators
<1>2. Kept(f, 1, 0) = {}
  BY DEF Kept
<1>3. LastOf({0}, 0) /\ Cardinality({0}) = 1 /\ Cardinality({}) = 0
  BY FS_Singleton, FS_EmptySet DEF LastOf
<1>4. \A g : Pieces(g, {0}) = <<>>
  BY <1>3 DEF Pieces
<1>5. At(f, {}) = <<>>
  BY <1>3 DEF At, InOrder
<1>6. 0 + 1 = 1 /\ 0 \in Nat /\ 0 <= 0 /\ \A k \in 1..0 : FALSE
  OBVIOUS
<1> QED
  BY ONLY <1>1, <1>2, <1>3, <1>4, <1>5, <1>6 DEF Tokenized

\* What the character behind c adds to the text of the field, and to what is known of it.
Grown(f, d, c, t, u) == u = IF InText(f, d + 1, c + 1) THEN t \o <<f[c + 1]>> ELSE t
Seen(f, c, b, v)     == v = (b \/ f[c + 1] \notin Whitespace)

\* A character that separates nothing belongs to the field, and to its text or not.
LEMMA NextPlain ==
  ASSUME NEW X, NEW f \in Seq(X), NEW c \in Nat, c < Len(f),
         NEW l, NEW d, NEW rs, NEW r, NEW t, NEW b, Tokenized(f, c, l, d, rs, r, t, b),
         c + 1 \notin Separators(f, Delim), c + 1 \notin Separators(f, Newline),
         NEW u, Grown(f, d, c, t, u), NEW v, Seen(f, c, b, v)
  PROVE  Tokenized(f, c + 1, l, d, rs, r, u, v)
<1>1. /\ DOMAIN f = 1..Len(f) /\ Len(f) \in Nat /\ c + 1 \in DOMAIN f
      /\ l \in Nat /\ d \in Nat /\ d <= c
  BY LenProperties DEF Tokenized
<1>0. /\ u = IF InText(f, d + 1, c + 1) THEN t \o <<f[c + 1]>> ELSE t
      /\ v = (b \/ f[c + 1] \notin Whitespace)
  BY DEF Grown, Seen
<1>2. Newlines(f, c + 1) = Newlines(f, c)
  <2>1. \A i \in Separators(f, Newline) : i \in Nat /\ i # c + 1
    BY <1>1 DEF Separators
  <2>2. \A i \in Nat : i # c + 1 => (i <= c + 1 <=> i <= c)
    OBVIOUS
  <2> QED
    BY <2>1, <2>2 DEF Newlines
<1>3. Delims(f, l, (c + 1) + 1) = Delims(f, l, c + 1)
  <2>1. \A i \in Separators(f, Delim) : i \in Nat /\ i # c + 1
    BY <1>1 DEF Separators
  <2>2. \A i \in Nat : i # c + 1 => (i < (c + 1) + 1 <=> i < c + 1)
    OBVIOUS
  <2> QED
    BY <2>1, <2>2 DEF Delims
<1>4. u = At(f, Kept(f, d + 1, c + 1))
  <2>1. PICK K, M : K = Kept(f, d + 1, c) /\ M = Kept(f, d + 1, c + 1)
    OBVIOUS
  <2>2. /\ K \subseteq DOMAIN f /\ \A x \in K : x < c + 1
        /\ M = IF InText(f, d + 1, c + 1) THEN K \cup {c + 1} ELSE K
    <3>1. \A i : i \in (d + 1)..(c + 1) <=> i \in (d + 1)..c \/ i = c + 1
      BY <1>1
    <3>2. \A i \in (d + 1)..c : i \in 1..Len(f) /\ i < c + 1
      BY <1>1
    <3> QED
      BY <1>1, <2>1, <3>1, <3>2 DEF Kept
  <2>3. t = At(f, K)
    BY <2>1 DEF Tokenized
  <2>4. CASE InText(f, d + 1, c + 1)
    <3>1. At(f, K \cup {c + 1}) = At(f, K) \o <<f[c + 1]>>
      BY <1>1, <2>2, AtGrows
    <3> QED
      BY <1>0, <2>1, <2>2, <2>3, <2>4, <3>1
  <2>5. CASE ~InText(f, d + 1, c + 1)
    BY <1>0, <2>1, <2>2, <2>3, <2>5
  <2> QED
    BY <2>4, <2>5
<1>5. v = \E k \in (d + 1)..(c + 1) : f[k] \notin Whitespace
  <2>1. \A i : i \in (d + 1)..(c + 1) <=> i \in (d + 1)..c \/ i = c + 1
    BY <1>1
  <2>2. b = \E k \in (d + 1)..c : f[k] \notin Whitespace
    BY DEF Tokenized
  <2> QED
    BY <1>0, <2>1, <2>2, Zenon
<1>6. /\ LastOf(Newlines(f, c), l) /\ LastOf(Delims(f, l, c + 1), d)
      /\ rs = Pieces(LinesOf(f), Newlines(f, c))
      /\ r = Pieces(TextsOf(f), Delims(f, l, c + 1))
  BY DEF Tokenized
<1>7. d <= c + 1
  BY <1>1
<1> QED
  BY ONLY <1>1, <1>2, <1>3, <1>4, <1>5, <1>6, <1>7 DEF Tokenized

\* Behind a cut nothing is in the field.
LEMMA EmptyField ==
  ASSUME NEW f, NEW c \in Nat
  PROVE  /\ At(f, Kept(f, c + 1, c)) = <<>>
         /\ ~\E k \in (c + 1)..c : f[k] \notin Whitespace
<1>1. Kept(f, c + 1, c) = {}
  BY DEF Kept
<1>2. Cardinality({}) = 0
  BY FS_EmptySet
<1>3. At(f, {}) = <<>>
  BY <1>2 DEF At, InOrder
<1>4. \A k \in (c + 1)..c : FALSE
  OBVIOUS
<1> QED
  BY <1>1, <1>3, <1>4

\* The text of the field that ends behind c.
LEMMA EndedText ==
  ASSUME NEW X, NEW f \in Seq(X), NEW c \in Nat, c <= Len(f),
         NEW l, NEW d, NEW rs, NEW r, NEW t, NEW b, Tokenized(f, c, l, d, rs, r, t, b)
  PROVE  Trimmed(t) = FieldText(f, d + 1, c)
<1>1. d + 1 \in Nat \ {0} /\ t = At(f, Kept(f, d + 1, c))
  BY DEF Tokenized
<1> QED
  BY <1>1, FieldIsTrimmed

\* A delimiter ends a field.
LEMMA NextDelim ==
  ASSUME NEW X, NEW f \in Seq(X), NEW c \in Nat, c < Len(f),
         NEW l, NEW d, NEW rs, NEW r, NEW t, NEW b, Tokenized(f, c, l, d, rs, r, t, b),
         c + 1 \in Separators(f, Delim), c + 1 \notin Separators(f, Newline)
  PROVE  Tokenized(f, c + 1, l, c + 1, rs, Append(r, Trimmed(t)), <<>>, FALSE)
<1>1. /\ DOMAIN f = 1..Len(f) /\ Len(f) \in Nat /\ c + 1 \in DOMAIN f
      /\ l \in Nat /\ d \in Nat /\ d <= c
      /\ LastOf(Newlines(f, c), l) /\ LastOf(Delims(f, l, c + 1), d)
      /\ rs = Pieces(LinesOf(f), Newlines(f, c))
      /\ r = Pieces(TextsOf(f), Delims(f, l, c + 1))
  BY LenProperties DEF Tokenized
<1>2. Newlines(f, c + 1) = Newlines(f, c)
  <2>1. \A i \in Separators(f, Newline) : i \in Nat /\ i # c + 1
    BY <1>1 DEF Separators
  <2>2. \A i \in Nat : i # c + 1 => (i <= c + 1 <=> i <= c)
    OBVIOUS
  <2> QED
    BY <2>1, <2>2 DEF Newlines
<1>3. PICK D, E, N : /\ D = Delims(f, l, c + 1) /\ E = Delims(f, l, (c + 1) + 1)
                     /\ N = Len(f) /\ N \in Nat
  BY <1>1
<1>4. E = D \cup {c + 1} /\ D \subseteq 0..N /\ l <= c
  <2>1. l <= c
    BY <1>1 DEF LastOf, Delims
  <2>2. \A i \in Separators(f, Delim) : i \in Nat /\ i <= N
    BY <1>1, <1>3 DEF Separators
  <2>3. \A i \in Nat : i < (c + 1) + 1 <=> i < c + 1 \/ i = c + 1
    OBVIOUS
  <2>4. l < c + 1 /\ l \in 0..N
    BY <1>1, <1>3, <2>1
  <2> QED
    BY <1>3, <2>1, <2>2, <2>3, <2>4 DEF Delims
<1>5. LastOf(E, c + 1)
  <2>1. \A x \in D : x <= c + 1
    BY <1>1, <1>3, <1>4 DEF LastOf
  <2> QED
    BY <1>4, <2>1 DEF LastOf
<1>6. Append(r, Trimmed(t)) = Pieces(TextsOf(f), E)
  <2>1. /\ N \in Nat /\ D \subseteq 0..N /\ LastOf(D, d)
        /\ c + 1 \in 0..N /\ d < c + 1 /\ E = D \cup {c + 1}
    BY <1>1, <1>3, <1>4
  <2>2. OnePiece(TextsOf(f), D, E, d, c + 1)
    BY ONLY <2>1, PiecesGrow
  <2>3. TextsOf(f)[<<d, c + 1>>] = FieldText(f, d + 1, c)
    <3>1. <<d, c + 1>> \in Nat \X Nat /\ (c + 1) - 1 = c
      BY <1>1
    <3> QED
      BY <3>1 DEF TextsOf
  <2>4. Trimmed(t) = FieldText(f, d + 1, c)
    BY EndedText
  <2> QED
    BY <1>1, <1>3, <2>2, <2>3, <2>4 DEF OnePiece
<1>7. /\ At(f, Kept(f, (c + 1) + 1, c + 1)) = <<>>
      /\ ~\E k \in ((c + 1) + 1)..(c + 1) : f[k] \notin Whitespace
  BY EmptyField
<1>8. c + 1 \in Nat /\ c + 1 <= c + 1
  OBVIOUS
<1> QED
  BY ONLY <1>1, <1>2, <1>3, <1>5, <1>6, <1>7, <1>8 DEF Tokenized

\* The fields of the line that ends before e, where the file goes on or the last field
\* is not blank.
LEMMA EndedLine ==
  ASSUME NEW X, NEW f \in Seq(X), NEW c \in Nat, c <= Len(f),
         NEW l, NEW d, NEW rs, NEW r, NEW t, NEW b, Tokenized(f, c, l, d, rs, r, t, b)
  PROVE  Fields(f, l + 1, c + 1) = IF c = Len(f) /\ ~b THEN r ELSE Append(r, Trimmed(t))
<1>1. /\ Len(f) \in Nat /\ l \in Nat /\ d \in Nat /\ d <= c
      /\ LastOf(Delims(f, l, c + 1), d)
      /\ r = Pieces(TextsOf(f), Delims(f, l, c + 1))
      /\ b = \E k \in (d + 1)..c : f[k] \notin Whitespace
  BY LenProperties DEF Tokenized
<1>2. l <= c
  BY <1>1 DEF LastOf, Delims
<1>3. PICK e, D : e = c + 1 /\ D = Delims(f, l, e)
  OBVIOUS
<1>4. e \in Nat /\ l < e /\ e <= Len(f) + 1 /\ LastOf(D, d)
  BY <1>1, <1>2, <1>3
<1>5. Fields(f, l + 1, e) = IF Blank(f, d, e) THEN Pieces(TextsOf(f), D)
                            ELSE Append(Pieces(TextsOf(f), D), FieldText(f, d + 1, e - 1))
  BY ONLY f \in Seq(X), <1>1, <1>3, <1>4, FieldsAre
<1>6. Blank(f, d, e) <=> c = Len(f) /\ ~b
  <2>1. e > Len(f) <=> c = Len(f)
    BY <1>1, <1>3
  <2> QED
    BY <1>1, <2>1 DEF Blank
<1>7. e - 1 = c /\ Trimmed(t) = FieldText(f, d + 1, c)
  BY <1>3, EndedText
<1> QED
  BY <1>1, <1>3, <1>5, <1>6, <1>7

\* A newline ends a line.
LEMMA NextLine ==
  ASSUME NEW X, NEW f \in Seq(X), NEW c \in Nat, c < Len(f),
         NEW l, NEW d, NEW rs, NEW r, NEW t, NEW b, Tokenized(f, c, l, d, rs, r, t, b),
         c + 1 \in Separators(f, Newline), c + 1 \notin Separators(f, Delim)
  PROVE  Tokenized(f, c + 1, c + 1, c + 1, Append(rs, Append(r, Trimmed(t))), <<>>, <<>>, FALSE)
<1>1. /\ DOMAIN f = 1..Len(f) /\ Len(f) \in Nat /\ c + 1 \in DOMAIN f
      /\ l \in Nat /\ d \in Nat /\ d <= c /\ LastOf(Newlines(f, c), l)
      /\ rs = Pieces(LinesOf(f), Newlines(f, c))
  BY LenProperties DEF Tokenized
<1>2. PICK S, T, N : /\ S = Newlines(f, c) /\ T = Newlines(f, c + 1)
                     /\ N = Len(f) /\ N \in Nat
  BY <1>1
<1>3. T = S \cup {c + 1} /\ S \subseteq 0..N /\ l <= c
  <2>1. \A i \in Separators(f, Newline) : i \in Nat /\ i <= N
    BY <1>1, <1>2 DEF Separators
  <2>2. \A i \in Nat : i <= c + 1 <=> i <= c \/ i = c + 1
    OBVIOUS
  <2>3. l <= c
    BY <1>1 DEF LastOf, Newlines
  <2>4. \A x : x \in T <=> x \in S \cup {c + 1}
    BY <1>2, <2>1, <2>2 DEF Newlines
  <2>5. \A x \in S : x \in 0..N
    BY <1>2, <2>1 DEF Newlines
  <2> QED
    BY <2>3, <2>4, <2>5
<1>4. LastOf(T, c + 1)
  <2>1. \A x \in S : x <= c + 1
    BY <1>1, <1>2, <1>3 DEF LastOf
  <2> QED
    BY <1>3, <2>1 DEF LastOf
<1>5. Append(rs, Append(r, Trimmed(t))) = Pieces(LinesOf(f), T)
  <2>1. /\ N \in Nat /\ S \subseteq 0..N /\ LastOf(S, l)
        /\ c + 1 \in 0..N /\ l < c + 1 /\ T = S \cup {c + 1}
    BY <1>1, <1>2, <1>3
  <2>2. OnePiece(LinesOf(f), S, T, l, c + 1)
    BY ONLY <2>1, PiecesGrow
  <2>3. LinesOf(f)[<<l, c + 1>>] = Fields(f, l + 1, c + 1)
    <3>1. <<l, c + 1>> \in Nat \X Nat
      BY <1>1
    <3> QED
      BY <3>1 DEF LinesOf
  <2>4. Fields(f, l + 1, c + 1) = Append(r, Trimmed(t))
    <3>1. c <= Len(f) /\ c # Len(f)
      <4>1. c \in Nat /\ Len(f) \in Nat /\ c < Len(f)
        BY <1>1
      <4> QED
        BY ONLY <4>1
    <3>2. /\ f \in Seq(X) /\ c \in Nat /\ c <= Len(f)
          /\ Tokenized(f, c, l, d, rs, r, t, b)
      BY <3>1
    <3>3. Fields(f, l + 1, c + 1) = IF c = Len(f) /\ ~b THEN r ELSE Append(r, Trimmed(t))
      BY ONLY <3>2, EndedLine
    <3> QED
      BY ONLY <3>1, <3>3
  <2> QED
    BY <1>1, <1>2, <2>2, <2>3, <2>4 DEF OnePiece
<1>6. Delims(f, c + 1, (c + 1) + 1) = {c + 1}
  <2>1. \A i \in Separators(f, Delim) : ~(c + 1 < i /\ i < (c + 1) + 1)
    BY <1>1 DEF Separators
  <2> QED
    BY <2>1 DEF Delims
<1>7. LastOf({c + 1}, c + 1) /\ Pieces(TextsOf(f), {c + 1}) = <<>>
  <2>1. Cardinality({c + 1}) = 1
    BY FS_Singleton
  <2>2. \A g : Pieces(g, {c + 1}) = <<>>
    <3>1. PICK C : C = {c + 1} /\ Cardinality(C) = 1
      BY <2>1
    <3>2. 1..(1 - 1) = {}
      OBVIOUS
    <3>3. \A g : Pieces(g, C) = [j \in {} |-> g[<<InOrder(C)[j], InOrder(C)[j + 1]>>]]
      BY ONLY <3>1, <3>2 DEF Pieces
    <3>4. \A g : [j \in {} |-> g[<<InOrder(C)[j], InOrder(C)[j + 1]>>]] = <<>>
      OBVIOUS
    <3> QED
      BY ONLY <3>1, <3>3, <3>4
  <2>3. LastOf({c + 1}, c + 1)
    BY DEF LastOf
  <2> QED
    BY ONLY <2>2, <2>3
<1>8. /\ At(f, Kept(f, (c + 1) + 1, c + 1)) = <<>>
      /\ ~\E k \in ((c + 1) + 1)..(c + 1) : f[k] \notin Whitespace
  BY EmptyField
<1>9. c + 1 \in Nat /\ c + 1 <= c + 1
  OBVIOUS
<1> QED
  BY ONLY <1>2, <1>4, <1>5, <1>6, <1>7, <1>8, <1>9 DEF Tokenized

\* The fields of a line that the file ends.
Ended(r, t, b) == IF b THEN Append(r, Trimmed(t)) ELSE r

\* At the end of the file the lines are those that ended, and the last one unless it is
\* nothing.
LEMMA AtEnd ==
  ASSUME NEW X, NEW f \in Seq(X), NEW c, c = Len(f),
         NEW l, NEW d, NEW rs, NEW r, NEW t, NEW b, Tokenized(f, c, l, d, rs, r, t, b),
         NEW last, last = Ended(r, t, b)
  PROVE  Lines(f) = IF last = <<>> THEN rs ELSE Append(rs, last)
<1>1. c \in Nat /\ LastOf(Newlines(f, c), l) /\ rs = Pieces(LinesOf(f), Newlines(f, c))
  BY LenProperties DEF Tokenized
<1>2. Fields(f, l + 1, c + 1) = IF ~b THEN r ELSE Append(r, Trimmed(t))
  BY <1>1, EndedLine
<1>3. last = Fields(f, l + 1, Len(f) + 1)
  BY <1>2 DEF Ended
<1>4. PICK S : S = Newlines(f, Len(f))
  OBVIOUS
<1>5. Lines(f) = IF last = <<>> THEN Pieces(LinesOf(f), S)
                                ELSE Append(Pieces(LinesOf(f), S), last)
  BY <1>1, <1>3, <1>4, LinesAre
<1> QED
  BY <1>1, <1>4, <1>5

-----------------------------------------------------------------------------
(* The inductive invariant. *)

\* How many characters of the file have been consumed.
Consumed == (read - end) + pos

\* Within ReadRow, or between two rows.
Reading == at \in {"loop", "quote"} \/ (at = "call" /\ ~eof)

\* Position i is a quote that closes a field, or the first of two.
Closing(f, i) == f[i] = Quote /\ Inside(f, i)

\* In the field behind d, what follows the character at c is not the second of two
\* quotes.
Single(f, c, d) == c > d /\ c < Len(f) /\ Closing(f, c) => f[c + 1] # Quote

BufferTypes ==
  /\ file \in Files /\ size \in Nat \ {0} /\ expected \in Nat
  /\ {read, pos, end} \subseteq Nat

\* What has been made of the characters consumed so far is what they say, and the flag
\* says whether the next one is in quotes; behind a quote found inside quotes, it says
\* so of that quote.
Follows ==
  Reading =>
    \E l, d : /\ Tokenized(file, Consumed, l, d, rows, row, text, started)
              /\ IF at = "quote"
                   THEN Consumed > d /\ Closing(file, Consumed)
                   ELSE /\ inQuotes = Inside(file, Consumed + 1)
                        /\ Single(file, Consumed, d)

\* The rows returned have the width expected.
WidthsChecked == \A i \in DOMAIN rows : expected \in {0, Len(rows[i])}

\* At the end all lines have been returned.
AllLines == at = "end" \/ (at = "call" /\ eof) => rows = Lines(file)

\* The rows p are the first of q, and the next of q is of another width than w.
Stopped(p, q, w) ==
  /\ Len(p) \in Nat /\ Len(p) < Len(q) /\ p = SubSeq(q, 1, Len(p))
  /\ w \notin {0, Len(q[Len(p) + 1])}

\* What was thrown at is the line behind those returned.
WrongLine == at = "thrown" => Stopped(rows, Lines(file), expected)

IInv ==
  /\ TypeOK /\ BufferTypes /\ Follows /\ WidthsChecked /\ AllLines /\ WrongLine

Chars == UNION {Range(f) : f \in Files}

\* The characters that mean something are different ones.
LEMMA Differ ==
  /\ Quote \notin {Delim, Newline, Return, Space}
  /\ Delim \notin {Quote, Newline, Return, Space}
  /\ Newline \notin {Quote, Delim, Return, Space}
<1>1. PICK p : p = <<Quote, Delim, Newline, Return, Space>>
  BY Zenon
<1>2. /\ DOMAIN p = 1..5 /\ p[1] = Quote /\ p[2] = Delim /\ p[3] = Newline
      /\ p[4] = Return /\ p[5] = Space
  BY <1>1
<1>3. \A i, j \in 1..5 : p[i] = p[j] => i = j
  BY <1>1, <1>2, TokenizerAssumption DEF IsInjective
<1>4. /\ p[1] # p[2] /\ p[1] # p[3] /\ p[1] # p[4] /\ p[1] # p[5]
      /\ p[2] # p[3] /\ p[2] # p[4] /\ p[2] # p[5]
      /\ p[3] # p[4] /\ p[3] # p[5]
  BY ONLY <1>3
<1> QED
  BY ONLY <1>2, <1>4

\* What the buffer says about the place in the file.
LEMMA Position ==
  ASSUME IInv
  PROVE  /\ file \in Seq(Chars) /\ Len(file) \in Nat /\ DOMAIN file = 1..Len(file)
         /\ Consumed \in Nat /\ Consumed <= Len(file)
         /\ Buffered => ~eof /\ Consumed < Len(file) /\ Char = file[Consumed + 1]
         /\ ~Buffered /\ eof => Consumed = Len(file)
<1>1. file \in Seq(Chars)
  BY TokenizerAssumption DEF IInv, BufferTypes, Chars
<1>2. Len(file) \in Nat /\ DOMAIN file = 1..Len(file)
  BY <1>1, LenProperties
<1>3. PICK n : n = Len(file) /\ n \in Nat
  BY <1>2
<1>4. /\ read \in Nat /\ pos \in Nat /\ end \in Nat
      /\ pos <= end /\ end <= read /\ read <= n
      /\ eof => read = n /\ end = 0
  BY <1>3 DEF IInv, BufferTypes, TypeOK
<1>5. /\ Consumed \in Nat /\ Consumed <= n
      /\ Buffered => ~eof /\ Consumed < n
      /\ ~Buffered /\ eof => Consumed = n
  BY ONLY <1>3, <1>4 DEF Consumed, Buffered
<1>6. Char = file[Consumed + 1]
  BY DEF Char, Consumed
<1> QED
  BY ONLY <1>1, <1>2, <1>3, <1>5, <1>6, Zenon

\* A character is consumed.
LEMMA Consuming ==
  ASSUME IInv, Buffered, Consume
  PROVE  /\ Consumed' = Consumed + 1 /\ eof' = FALSE /\ BufferTypes'
         /\ pos' <= end' /\ end' <= size' /\ end' <= read' /\ read' <= Len(file')
<1>1. /\ read \in Nat /\ pos \in Nat /\ end \in Nat /\ size \in Nat
      /\ pos <= end /\ end <= size /\ end <= read /\ read <= Len(file) /\ pos < end
      /\ pos' = pos + 1 /\ read' = read /\ end' = end /\ size' = size /\ file' = file
      /\ eof' = eof
  BY DEF IInv, BufferTypes, TypeOK, Buffered, Consume
<1>2. Consumed' = Consumed + 1 /\ pos' <= end' /\ pos' \in Nat
  BY ONLY <1>1 DEF Consumed
<1>3. ~eof /\ eof \in BOOLEAN
  BY Position DEF IInv, TypeOK
<1>4. BufferTypes'
  BY <1>2 DEF IInv, BufferTypes, Consume
<1> QED
  BY <1>1, <1>2, <1>3, <1>4

\* Within ReadRow what has been returned stays.
LEMMA Returned ==
  ASSUME IInv, at' \in {"loop", "quote"}, rows' = rows, file' = file, expected' = expected
  PROVE  WidthsChecked' /\ AllLines' /\ WrongLine'
<1>1. WidthsChecked'
  BY DEF IInv, WidthsChecked
<1> QED
  BY <1>1 DEF AllLines, WrongLine

\* What is in the text, as the automaton sees it.
LEMMA NextInText ==
  ASSUME IInv, Buffered, NEW l, NEW d,
         Tokenized(file, Consumed, l, d, rows, row, text, started),
         Single(file, Consumed, d)
  PROVE  InText(file, d + 1, Consumed + 1) <=>
           Char # Quote /\ Char # Return /\ (started \/ Char \notin Whitespace)
<1>1. PICK f, c : f = file /\ c = Consumed
  OBVIOUS
<1>2. /\ c \in Nat /\ c < Len(f) /\ Char = f[c + 1]
      /\ d \in Nat /\ d <= c /\ started = \E k \in (d + 1)..c : f[k] \notin Whitespace
  BY <1>1, Position DEF Tokenized
<1>3. CASE f[c + 1] = Quote
  <2>1. (c + 1) - 1 = c /\ (c + 1 > d + 1 <=> c > d)
    BY <1>2
  <2>2. ~(c > d /\ f[c] = Quote /\ Inside(f, c))
    BY <1>1, <1>2, <1>3 DEF Single, Closing
  <2>3. InText(f, d + 1, c + 1) <=> c + 1 > d + 1 /\ f[c] = Quote /\ Inside(f, c)
    BY <1>3, <2>1 DEF InText
  <2> QED
    BY <1>1, <1>2, <1>3, <2>1, <2>2, <2>3
<1>4. CASE f[c + 1] # Quote
  <2>1. InText(f, d + 1, c + 1) <=>
          f[c + 1] # Return /\ \E k \in (d + 1)..(c + 1) : f[k] \notin Whitespace
    BY <1>4 DEF InText
  <2>2. \A k : k \in (d + 1)..(c + 1) <=> k \in (d + 1)..c \/ k = c + 1
    BY <1>2
  <2>3. (\E k \in (d + 1)..(c + 1) : f[k] \notin Whitespace) <=>
          started \/ f[c + 1] \notin Whitespace
    BY <1>2, <2>2, Zenon
  <2> QED
    BY <1>1, <1>2, <1>4, <2>1, <2>3
<1> QED
  BY <1>3, <1>4

\* A character that separates nothing.
LEMMA PlainStep ==
  ASSUME IInv, at = "loop", Buffered, Consume,
         NEW l, NEW d, Tokenized(file, Consumed, l, d, rows, row, text, started),
         Single(file, Consumed, d), inQuotes = Inside(file, Consumed + 1),
         Char \in {Delim, Newline} => inQuotes,
         rows' = rows, row' = row,
         text' = IF Char # Quote /\ Char # Return /\ (started \/ Char \notin Whitespace)
                   THEN text \o <<Char>> ELSE text,
         started' = (started \/ Char \notin Whitespace)
  PROVE  Tokenized(file', Consumed', l, d, rows', row', text', started')
<1>1. PICK f, c : /\ f = file /\ c = Consumed /\ f \in Seq(Chars) /\ c \in Nat /\ c < Len(f)
                  /\ Char = f[c + 1]
  BY Position
<1>2. c + 1 \notin Separators(f, Delim) /\ c + 1 \notin Separators(f, Newline)
  BY <1>1 DEF Separators
<1>3. PICK u, v : /\ u = IF InText(f, d + 1, c + 1) THEN text \o <<f[c + 1]>> ELSE text
                  /\ v = (started \/ f[c + 1] \notin Whitespace)
  OBVIOUS
<1>4. Tokenized(f, c, l, d, rows, row, text, started)
  BY <1>1
<1>5. Tokenized(f, c + 1, l, d, rows, row, u, v)
  <2>1. PICK X, rs, r, t, b : X = Chars /\ rs = rows /\ r = row /\ t = text /\ b = started
    OBVIOUS
  <2>2. /\ f \in Seq(X) /\ c \in Nat /\ c < Len(f) /\ Tokenized(f, c, l, d, rs, r, t, b)
        /\ c + 1 \notin Separators(f, Delim) /\ c + 1 \notin Separators(f, Newline)
        /\ Grown(f, d, c, t, u) /\ Seen(f, c, b, v)
    BY <1>1, <1>2, <1>3, <1>4, <2>1 DEF Grown, Seen
  <2>3. Tokenized(f, c + 1, l, d, rs, r, u, v)
    BY ONLY <2>2, NextPlain
  <2> QED
    BY ONLY <2>1, <2>3
<1>6. text' = u /\ started' = v
  BY <1>1, <1>3, NextInText
<1>7. Consumed' = c + 1 /\ file' = f /\ rows' = rows /\ row' = row
  BY <1>1, Consuming DEF Consume
<1> QED
  BY <1>5, <1>6, <1>7

\* Behind the next character.
LEMMA Flags ==
  ASSUME IInv, Buffered
  PROVE  Inside(file, (Consumed + 1) + 1) = IF Char = Quote THEN ~Inside(file, Consumed + 1)
                                                            ELSE Inside(file, Consumed + 1)
<1>1. PICK f, c : f = file /\ c = Consumed /\ c \in Nat /\ Char = f[c + 1]
  BY Position
<1>2. c + 1 \in Nat \ {0}
  BY <1>1
<1>3. Inside(f, (c + 1) + 1) <=> IF f[c + 1] = Quote THEN ~Inside(f, c + 1) ELSE Inside(f, c + 1)
  BY <1>2, InsideNext
<1>4. Inside(f, (c + 1) + 1) \in BOOLEAN /\ Inside(f, c + 1) \in BOOLEAN
  BY DEF Inside
<1> QED
  BY <1>1, <1>3, <1>4

\* Behind a quote that closes a field.
LEMMA Closed ==
  ASSUME IInv, Consumed > 0, Closing(file, Consumed)
  PROVE  Inside(file, Consumed + 1) = FALSE
<1>1. Consumed \in Nat \ {0}
  BY Position
<1>2. ~Inside(file, Consumed + 1)
  BY <1>1, InsideNext DEF Closing
<1>3. Inside(file, Consumed + 1) \in BOOLEAN
  BY DEF Inside
<1> QED
  BY <1>2, <1>3

\* A text is made of characters.
LEMMA TextIs ==
  ASSUME IInv, NEW l, NEW d, NEW rs, NEW r, NEW t, NEW b,
         Tokenized(file, Consumed, l, d, rs, r, t, b)
  PROVE  t \in Seq(Chars)
<1>1. PICK f, K : /\ f = file /\ f \in Seq(Chars) /\ Len(f) \in Nat /\ DOMAIN f = 1..Len(f)
                  /\ K = Kept(f, d + 1, Consumed) /\ t = At(f, K)
                  /\ Consumed \in Nat /\ Consumed <= Len(f) /\ d \in Nat
  BY Position DEF Tokenized
<1>2. K \subseteq 1..Len(f) /\ K \subseteq DOMAIN f
  BY <1>1 DEF Kept
<1> QED
  BY <1>1, <1>2, AtIs

\* Where the loop is.
LEMMA AtLoop ==
  ASSUME IInv, at = "loop"
  PROVE  \E l, d : /\ Tokenized(file, Consumed, l, d, rows, row, text, started)
                   /\ inQuotes = Inside(file, Consumed + 1) /\ Single(file, Consumed, d)
BY DEF IInv, Follows, Reading

\* Where it is next.
LEMMA ToLoop ==
  ASSUME at' = "loop", NEW l, NEW d,
         Tokenized(file', Consumed', l, d, rows', row', text', started'),
         inQuotes' = Inside(file', Consumed' + 1), Single(file', Consumed', d)
  PROVE  Follows'
BY DEF Follows, Reading

-----------------------------------------------------------------------------
(* The actions. *)

LEMMA SkipWhitespaceStep == ASSUME IInv, SkipWhitespace PROVE IInv'
<1> USE DEF SkipWhitespace, automaton
<1>1. PICK l, d : /\ Tokenized(file, Consumed, l, d, rows, row, text, started)
                  /\ inQuotes = Inside(file, Consumed + 1) /\ Single(file, Consumed, d)
  BY AtLoop
<1>2. Char \notin {Quote, Delim, Newline}
  BY Differ DEF Whitespace
<1>3. Tokenized(file', Consumed', l, d, rows', row', text', started')
  <2>1. /\ IInv /\ at = "loop" /\ Buffered /\ Consume
        /\ Char \in {Delim, Newline} => inQuotes
        /\ rows' = rows /\ row' = row
    BY <1>2
  <2>2. text' = IF Char # Quote /\ Char # Return /\ (started \/ Char \notin Whitespace)
                  THEN text \o <<Char>> ELSE text
    OBVIOUS
  <2>3. started' = (started \/ Char \notin Whitespace)
    BY DEF IInv, TypeOK
  <2> QED
    BY ONLY <1>1, <2>1, <2>2, <2>3, PlainStep
<1>4. inQuotes' = Inside(file', Consumed' + 1)
  <2>1. Consumed' = Consumed + 1 /\ file' = file
    BY Consuming DEF Consume
  <2> QED
    BY <1>1, <1>2, <2>1, Flags
<1>5. Single(file', Consumed', d)
  <2>1. Consumed' = Consumed + 1 /\ file' = file /\ file[Consumed + 1] # Quote
    BY <1>2, Consuming, Position DEF Consume
  <2> QED
    BY <2>1 DEF Single, Closing
<1>6. Follows'
  BY <1>3, <1>4, <1>5, ToLoop
<1>7. TypeOK'
  BY Consuming DEF IInv, TypeOK, Place
<1>8. WidthsChecked' /\ AllLines' /\ WrongLine'
  BY Returned DEF Consume
<1> QED
  BY <1>6, <1>7, <1>8, Consuming DEF IInv

LEMMA AddCharStep == ASSUME IInv, AddChar PROVE IInv'
<1> USE DEF AddChar, Add
<1>1. PICK l, d : /\ Tokenized(file, Consumed, l, d, rows, row, text, started)
                  /\ inQuotes = Inside(file, Consumed + 1) /\ Single(file, Consumed, d)
  BY AtLoop
<1>2. Char # Quote /\ (inQuotes => started) /\ started \in BOOLEAN /\ text \o <<>> = text
  <2>1. Char # Quote /\ (inQuotes => started) /\ started \in BOOLEAN
    BY DEF IInv, TypeOK
  <2>2. text \in Seq(Chars)
    BY <1>1, TextIs
  <2> QED
    BY <2>1, <2>2, ConcatEmptySeq
<1>3. Tokenized(file', Consumed', l, d, rows', row', text', started')
  <2>1. /\ IInv /\ at = "loop" /\ Buffered /\ Consume
        /\ Char \in {Delim, Newline} => inQuotes
        /\ rows' = rows /\ row' = row
    BY <1>2
  <2>2. started \/ Char \notin Whitespace
    BY <1>2
  <2>3. text' = IF Char # Quote /\ Char # Return /\ (started \/ Char \notin Whitespace)
                  THEN text \o <<Char>> ELSE text
    BY <1>2, <2>2
  <2>4. started' = (started \/ Char \notin Whitespace)
    BY <1>2, <2>2
  <2> QED
    BY ONLY <1>1, <2>1, <2>3, <2>4, PlainStep
<1>4. inQuotes' = Inside(file', Consumed' + 1)
  <2>1. Consumed' = Consumed + 1 /\ file' = file
    BY Consuming DEF Consume
  <2> QED
    BY <1>1, <1>2, <2>1, Flags
<1>5. Single(file', Consumed', d)
  <2>1. Consumed' = Consumed + 1 /\ file' = file /\ file[Consumed + 1] # Quote
    BY <1>2, Consuming, Position DEF Consume
  <2> QED
    BY <2>1 DEF Single, Closing
<1>6. Follows'
  BY <1>3, <1>4, <1>5, ToLoop
<1>7. TypeOK'
  BY Consuming DEF IInv, TypeOK, Place
<1>8. WidthsChecked' /\ AllLines' /\ WrongLine'
  BY Returned DEF Consume
<1> QED
  BY <1>6, <1>7, <1>8, Consuming DEF IInv

LEMMA OpenQuotesStep == ASSUME IInv, OpenQuotes PROVE IInv'
<1> USE DEF OpenQuotes, Add
<1>1. PICK l, d : /\ Tokenized(file, Consumed, l, d, rows, row, text, started)
                  /\ inQuotes = Inside(file, Consumed + 1) /\ Single(file, Consumed, d)
  BY AtLoop
<1>2. Char = Quote /\ Char \notin {Delim, Newline} /\ Char \notin Whitespace
  BY Differ DEF Whitespace
<1>3. Tokenized(file', Consumed', l, d, rows', row', text', started')
  <2>1. /\ IInv /\ at = "loop" /\ Buffered /\ Consume
        /\ Char \in {Delim, Newline} => inQuotes
        /\ rows' = rows /\ row' = row
    BY <1>2
  <2>2. text \in Seq(Chars)
    BY <1>1, TextIs
  <2>3. text' = IF Char # Quote /\ Char # Return /\ (started \/ Char \notin Whitespace)
                  THEN text \o <<Char>> ELSE text
    BY <1>2, <2>2, ConcatEmptySeq
  <2>4. started' = (started \/ Char \notin Whitespace)
    BY <1>2
  <2> QED
    BY ONLY <1>1, <2>1, <2>3, <2>4, PlainStep
<1>4. inQuotes' = Inside(file', Consumed' + 1) /\ Single(file', Consumed', d)
  <2>1. Consumed' = Consumed + 1 /\ file' = file /\ inQuotes = FALSE /\ file[Consumed + 1] = Quote
    BY <1>2, Consuming, Position DEF Consume, IInv, TypeOK
  <2>2. inQuotes' = Inside(file', Consumed' + 1)
    BY <1>1, <1>2, <2>1, Flags
  <2> QED
    BY <1>1, <2>1, <2>2 DEF Single, Closing
<1>5. Follows'
  BY <1>3, <1>4, ToLoop
<1>6. TypeOK'
  BY Consuming DEF IInv, TypeOK, Place
<1>7. WidthsChecked' /\ AllLines' /\ WrongLine'
  BY Returned DEF Consume
<1> QED
  BY <1>5, <1>6, <1>7, Consuming DEF IInv

LEMMA QuoteInQuotesStep == ASSUME IInv, QuoteInQuotes PROVE IInv'
<1> USE DEF QuoteInQuotes, automaton
<1>1. PICK l, d : /\ Tokenized(file, Consumed, l, d, rows, row, text, started)
                  /\ inQuotes = Inside(file, Consumed + 1) /\ Single(file, Consumed, d)
  BY AtLoop
<1>2. Char = Quote /\ Char \notin {Delim, Newline} /\ started \in BOOLEAN /\ started
  BY Differ DEF IInv, TypeOK
<1>3. Tokenized(file', Consumed', l, d, rows', row', text', started')
  <2>1. /\ IInv /\ at = "loop" /\ Buffered /\ Consume
        /\ Char \in {Delim, Newline} => inQuotes
        /\ rows' = rows /\ row' = row
    BY <1>2
  <2>2. text' = IF Char # Quote /\ Char # Return /\ (started \/ Char \notin Whitespace)
                  THEN text \o <<Char>> ELSE text
    BY <1>2
  <2>3. started' = (started \/ Char \notin Whitespace)
    BY <1>2
  <2> QED
    BY ONLY <1>1, <2>1, <2>2, <2>3, PlainStep
<1>4. Consumed' > d /\ Closing(file', Consumed')
  <2>1. Consumed' = Consumed + 1 /\ file' = file /\ file[Consumed + 1] = Quote
    BY <1>2, Consuming, Position DEF Consume
  <2>2. d \in Nat /\ d <= Consumed /\ Consumed \in Nat
    BY <1>1, Position DEF Tokenized
  <2> QED
    BY <1>1, <2>1, <2>2 DEF Closing
<1>5. Follows'
  BY <1>3, <1>4 DEF Follows
<1>6. TypeOK'
  BY Consuming DEF IInv, TypeOK, Place
<1>7. WidthsChecked' /\ AllLines' /\ WrongLine'
  BY Returned DEF Consume
<1> QED
  BY <1>5, <1>6, <1>7, Consuming DEF IInv

LEMMA EscapedQuoteStep == ASSUME IInv, EscapedQuote PROVE IInv'
<1> USE DEF EscapedQuote, Add
<1>1. PICK l, d : /\ Tokenized(file, Consumed, l, d, rows, row, text, started)
                  /\ Consumed > d /\ Closing(file, Consumed)
  BY DEF IInv, Follows, Reading
<1>2. PICK f, c : /\ f = file /\ c = Consumed /\ f \in Seq(Chars) /\ c \in Nat /\ c < Len(f)
                  /\ d \in Nat /\ c > d /\ f[c + 1] = Quote /\ f[c] = Quote /\ Inside(f, c)
                  /\ Tokenized(f, c, l, d, rows, row, text, started)
  BY <1>1, Position DEF Tokenized, Closing
<1>3. Tokenized(f, c + 1, l, d, rows, row, text', started')
  <2>1. c + 1 \notin Separators(f, Delim) /\ c + 1 \notin Separators(f, Newline)
    BY <1>2, Differ DEF Separators
  <2>2. Grown(f, d, c, text, text')
    <3>1. c + 1 > d + 1 /\ (c + 1) - 1 = c
      BY <1>2
    <3>2. InText(f, d + 1, c + 1)
      BY <1>2, <3>1 DEF InText
    <3> QED
      BY <1>2, <3>2 DEF Grown
  <2>3. Seen(f, c, started, started')
    BY <1>2, Differ DEF Seen, Whitespace
  <2> QED
    BY ONLY <1>2, <2>1, <2>2, <2>3, NextPlain
<1>4. Consumed' = c + 1 /\ file' = f /\ rows' = rows /\ row' = row
  BY <1>2, Consuming DEF Consume
<1>5. Tokenized(file', Consumed', l, d, rows', row', text', started')
  BY <1>3, <1>4
<1>6. inQuotes' = Inside(file', Consumed' + 1) /\ Single(file', Consumed', d)
  <2>1. Inside(f, c + 1) = FALSE
    <3>1. Consumed > 0
      BY <1>2
    <3> QED
      BY <1>1, <1>2, <3>1, Closed
  <2>2. inQuotes = TRUE /\ Char = Quote
    BY DEF IInv, TypeOK
  <2>3. Inside(f, (c + 1) + 1) = TRUE
    BY <1>2, <2>1, <2>2, Flags
  <2> QED
    BY <1>4, <2>1, <2>2, <2>3 DEF Single, Closing
<1>7. Follows'
  BY <1>5, <1>6, ToLoop
<1>8. TypeOK'
  BY Consuming DEF IInv, TypeOK, Place
<1>9. WidthsChecked' /\ AllLines' /\ WrongLine'
  BY Returned DEF Consume
<1> QED
  BY <1>7, <1>8, <1>9, Consuming DEF IInv

LEMMA CloseQuotesStep == ASSUME IInv, CloseQuotes PROVE IInv'
<1> USE DEF CloseQuotes, buffer
<1>1. PICK l, d : /\ Tokenized(file, Consumed, l, d, rows, row, text, started)
                  /\ Consumed > d /\ Closing(file, Consumed)
  BY DEF IInv, Follows, Reading
<1>2. Consumed' = Consumed
  BY DEF Consumed
<1>3. Tokenized(file', Consumed', l, d, rows', row', text', started')
  BY <1>1, <1>2
<1>4. inQuotes' = Inside(file', Consumed' + 1)
  <2>1. Consumed > 0
    BY <1>1, Position DEF Tokenized
  <2> QED
    BY <1>1, <1>2, <2>1, Closed
<1>5. Single(file', Consumed', d)
  <2>1. Consumed < Len(file) => file[Consumed + 1] # Quote
    BY Position
  <2> QED
    BY <1>2, <2>1 DEF Single
<1>6. Follows'
  BY <1>3, <1>4, <1>5, ToLoop
<1>7. TypeOK' /\ BufferTypes'
  BY DEF IInv, TypeOK, Place, BufferTypes
<1>8. WidthsChecked' /\ AllLines' /\ WrongLine'
  BY Returned
<1> QED
  BY <1>6, <1>7, <1>8 DEF IInv

LEMMA EndFieldStep == ASSUME IInv, EndField PROVE IInv'
<1> USE DEF EndField
<1>1. PICK l, d : /\ Tokenized(file, Consumed, l, d, rows, row, text, started)
                  /\ inQuotes = Inside(file, Consumed + 1) /\ Single(file, Consumed, d)
  BY AtLoop
<1>2. PICK f, c : /\ f = file /\ c = Consumed /\ f \in Seq(Chars) /\ c \in Nat /\ c < Len(f)
                  /\ DOMAIN f = 1..Len(f) /\ Len(f) \in Nat
                  /\ f[c + 1] = Delim /\ Inside(f, c + 1) = FALSE
                  /\ Tokenized(f, c, l, d, rows, row, text, started)
  BY <1>1, Position DEF IInv, TypeOK
<1>3. Tokenized(f, c + 1, l, c + 1, rows, RowWithText, <<>>, FALSE)
  <2>1. c + 1 \in Separators(f, Delim) /\ c + 1 \notin Separators(f, Newline)
    BY <1>2, Differ DEF Separators
  <2> QED
    BY ONLY <1>2, <2>1, NextDelim DEF RowWithText
<1>4. Consumed' = c + 1 /\ file' = f /\ rows' = rows
  BY <1>2, Consuming DEF Consume
<1>5. Tokenized(file', Consumed', l, c + 1, rows', row', text', started')
  BY <1>3, <1>4
<1>6. inQuotes' = Inside(file', Consumed' + 1) /\ Single(file', Consumed', c + 1)
  <2>1. Char # Quote /\ inQuotes = FALSE
    BY Differ DEF IInv, TypeOK
  <2>2. Inside(f, (c + 1) + 1) = FALSE
    BY <1>2, <2>1, Flags
  <2>3. ~(c + 1 > c + 1)
    BY <1>2
  <2> QED
    BY <1>4, <2>1, <2>2, <2>3 DEF Single
<1>7. Follows'
  BY <1>5, <1>6, ToLoop
<1>8. TypeOK'
  BY Consuming DEF IInv, TypeOK, Place
<1>9. WidthsChecked' /\ AllLines' /\ WrongLine'
  BY Returned DEF Consume
<1> QED
  BY <1>7, <1>8, <1>9, Consuming DEF IInv

\* The smaller of two numbers.
LEMMA LesserIs ==
  ASSUME NEW a, a \in Nat, NEW b, b \in Nat
  PROVE  Min({a, b}) = IF a <= b THEN a ELSE b
<1>1. PICK S : S = {a, b} /\ S \in SUBSET Int
  <2>1. {a, b} \in SUBSET Int
    OBVIOUS
  <2> QED
    BY <2>1
<1>2. CASE a <= b
  <2>1. a \in S /\ \A y \in S : a <= y
    BY <1>1, <1>2
  <2>2. Min(S) = a
    BY ONLY <1>1, <2>1, MinIs
  <2> QED
    BY <1>1, <1>2, <2>2
<1>3. CASE ~(a <= b)
  <2>1. b \in S /\ \A y \in S : b <= y
    BY <1>1, <1>3
  <2>2. Min(S) = b
    BY ONLY <1>1, <2>1, MinIs
  <2> QED
    BY <1>1, <1>3, <2>2
<1> QED
  BY <1>2, <1>3

LEMMA RefillBufferStep == ASSUME IInv, RefillBuffer PROVE IInv'
<1> USE DEF RefillBuffer, automaton
<1>1. PICK n : n = Len(file) /\ n \in Nat
  BY Position
<1>2. /\ read \in Nat /\ pos \in Nat /\ end \in Nat /\ size \in Nat \ {0}
      /\ pos = end /\ end <= read /\ read <= n /\ n - read \in Nat
  BY <1>1 DEF IInv, BufferTypes, TypeOK, Buffered
<1>3. PICK count : /\ count = Min({size, n - read})
                   /\ read' = read + count /\ end' = count /\ eof' = (count = 0)
  BY <1>1
<1>4. PICK m : m = n - read /\ m \in Nat
  BY <1>2
<1>5. count \in Nat /\ count <= size /\ count <= m /\ (count = 0 => m = 0)
  <2>1. count = IF size <= m THEN size ELSE m
    <3>1. size \in Nat /\ m \in Nat /\ count = Min({size, m})
      BY <1>2, <1>3, <1>4
    <3>2. Min({size, m}) = IF size <= m THEN size ELSE m
      BY ONLY <3>1, LesserIs
    <3> QED
      BY ONLY <3>1, <3>2
  <2> QED
    BY ONLY <1>2, <1>4, <2>1
<1>6. /\ count \in Nat /\ count <= size /\ read' \in Nat /\ read' <= n /\ end' <= read'
      /\ count = 0 => read' = n
  BY ONLY <1>1, <1>2, <1>3, <1>4, <1>5
<1>7. (read' - end') + 0 = (read - end) + pos
  BY ONLY <1>2, <1>3, <1>5
<1>8. Consumed' = Consumed
  BY <1>7 DEF Consumed
<1>9. TypeOK' /\ BufferTypes'
  <2>1. pos' = 0 /\ UNCHANGED <<file, size, expected, at, started, inQuotes, text, row>>
    OBVIOUS
  <2>2. eof' \in BOOLEAN /\ (eof' => read' = n /\ end' = 0)
    BY ONLY <1>3, <1>6
  <2>3. pos' <= end' /\ end' <= size' /\ end' <= read' /\ read' <= Len(file')
    BY ONLY <1>1, <1>3, <1>6, <2>1
  <2>4. BufferTypes'
    BY ONLY IInv, <1>3, <1>6, <2>1 DEF IInv, BufferTypes
  <2> QED
    BY ONLY IInv, at \in {"loop", "quote"}, <1>1, <2>1, <2>2, <2>3, <2>4 DEF IInv, TypeOK, Place
<1>10. WidthsChecked' /\ AllLines' /\ WrongLine'
  BY Returned
<1>11. Follows'
  BY <1>8 DEF IInv, Follows, Reading
<1> QED
  BY <1>9, <1>10, <1>11 DEF IInv

LEMMA BeginRowStep == ASSUME IInv, BeginRow PROVE IInv'
<1> USE DEF BeginRow, buffer, automaton
<1>1. Consumed' = Consumed
  BY DEF Consumed
<1>2. Follows'
  BY <1>1 DEF IInv, TypeOK, Follows, Reading
<1>3. TypeOK' /\ BufferTypes'
  BY DEF IInv, TypeOK, Place, BufferTypes
<1>4. WidthsChecked' /\ AllLines' /\ WrongLine'
  BY DEF IInv, WidthsChecked, AllLines, WrongLine
<1> QED
  BY <1>2, <1>3, <1>4 DEF IInv

\* What is behind a sequence may be anything.
LEMMA WithOneMore ==
  ASSUME NEW V, NEW p \in Seq(V), NEW v, NEW q, q = Append(p, v)
  PROVE  /\ Len(p) \in Nat /\ DOMAIN p = 1..Len(p)
         /\ Len(q) = Len(p) + 1 /\ DOMAIN q = 1..(Len(p) + 1)
         /\ q[Len(p) + 1] = v /\ \A i \in 1..Len(p) : q[i] = p[i]
<1>1. PICK W : W = V \cup {v} /\ p \in Seq(W) /\ v \in W
  <2>1. /\ Len(p) \in Nat /\ DOMAIN p = 1..Len(p) /\ p \in [1..Len(p) -> V]
    BY LenProperties, ElementOfSeq
  <2>2. PICK n, W : n = Len(p) /\ W = V \cup {v}
    OBVIOUS
  <2>3. n \in Nat /\ p \in [1..n -> W] /\ v \in W
    BY <2>1, <2>2
  <2>4. p \in Seq(W)
    BY ONLY <2>3, IsSequence
  <2> QED
    BY <2>2, <2>3, <2>4
<1>2. /\ q \in Seq(W) /\ Len(q) = Len(p) + 1 /\ q[Len(p) + 1] = v
      /\ \A i \in 1..Len(p) : q[i] = p[i]
  BY <1>1, AppendProperties
<1> QED
  BY <1>1, <1>2, LenProperties

\* One row more of the width expected.
LEMMA OneRow ==
  ASSUME NEW V, NEW p \in Seq(V), NEW v, NEW q, q = Append(p, v), NEW w,
         \A i \in DOMAIN p : w \in {0, Len(p[i])}, w \in {0, Len(v)}
  PROVE  \A i \in DOMAIN q : w \in {0, Len(q[i])}
<1>1. /\ Len(p) \in Nat /\ DOMAIN p = 1..Len(p) /\ DOMAIN q = 1..(Len(p) + 1)
      /\ q[Len(p) + 1] = v /\ \A i \in 1..Len(p) : q[i] = p[i]
  BY WithOneMore
<1>2. \A i \in 1..(Len(p) + 1) : i \in 1..Len(p) \/ i = Len(p) + 1
  BY <1>1
<1> QED
  BY <1>1, <1>2

\* Rows that are followed by one of another width.
LEMMA StopsBehind ==
  ASSUME NEW V, NEW p \in Seq(V), NEW v, NEW a, a = Append(p, v),
         NEW q \in Seq(V), StartsWith(q, a), NEW w, w \notin {0, Len(v)}
  PROVE  Stopped(p, q, w)
<1>1. /\ Len(p) \in Nat /\ Len(a) = Len(p) + 1 /\ a[Len(p) + 1] = v
      /\ \A i \in 1..Len(p) : a[i] = p[i]
  BY WithOneMore
<1>0. Len(q) \in Nat
  BY LenProperties
<1>2. Len(a) <= Len(q) /\ \A i \in 1..Len(a) : a[i] = q[i]
  BY DEF StartsWith
<1>3. /\ Len(p) < Len(q) /\ Len(p) + 1 \in 1..Len(a)
      /\ \A i \in 1..Len(p) : i \in 1..Len(a)
  BY <1>0, <1>1, <1>2
<1>4. p = SubSeq(q, 1, Len(p))
  <2>1. PICK n : n = Len(p) /\ n \in Nat
    BY <1>1
  <2>2. PICK u : u = SubSeq(q, 1, n)
    OBVIOUS
  <2>3. u \in Seq(V) /\ Len(u) = n /\ \A i \in 1..n : u[i] = q[i]
    <3>1. \A i \in 1..n : i \in 1..Len(q) /\ q[i] \in V
      BY <1>0, <1>3, <2>1, ElementOfSeq
    <3> QED
      BY <1>0, <2>1, <2>2, <3>1, SubSeqProperties
  <2>4. \A i \in 1..n : p[i] = q[i]
    BY <1>1, <1>2, <1>3, <2>1
  <2>5. p = u
    BY ONLY p \in Seq(V), <2>1, <2>3, <2>4, SeqEqual
  <2> QED
    BY <2>1, <2>2, <2>5
<1> QED
  BY <1>1, <1>2, <1>3, <1>4 DEF Stopped

\* What has been returned are the first lines.
LEMMA RowsAre ==
  ASSUME NEW X, NEW f \in Seq(X), NEW c \in Nat, c <= Len(f),
         NEW l, NEW d, NEW rs, NEW r, NEW t, NEW b, Tokenized(f, c, l, d, rs, r, t, b)
  PROVE  /\ rs \in Seq(Values(LinesOf(f))) /\ Lines(f) \in Seq(Values(LinesOf(f)))
         /\ StartsWith(Lines(f), rs)
<1>1. rs = Pieces(LinesOf(f), Newlines(f, c))
  BY DEF Tokenized
<1>2. /\ rs \in Seq(Values(LinesOf(f))) /\ Lines(f) \in Seq(Values(LinesOf(f)))
      /\ Len(rs) <= Len(Lines(f)) /\ \A i \in 1..Len(rs) : rs[i] = Lines(f)[i]
  BY <1>1, LinesBegin
<1> QED
  BY <1>2, LenProperties DEF StartsWith

LEMMA EndLineStep == ASSUME IInv, EndLine PROVE IInv'
<1> USE DEF EndLine, FinishRow
<1>1. PICK l, d : /\ Tokenized(file, Consumed, l, d, rows, row, text, started)
                  /\ inQuotes = Inside(file, Consumed + 1) /\ Single(file, Consumed, d)
  BY AtLoop
<1>2. PICK f, c : /\ f = file /\ c = Consumed /\ f \in Seq(Chars) /\ c \in Nat /\ c < Len(f)
                  /\ DOMAIN f = 1..Len(f) /\ Len(f) \in Nat
                  /\ f[c + 1] = Newline /\ Inside(f, c + 1) = FALSE
                  /\ Tokenized(f, c, l, d, rows, row, text, started)
  BY <1>1, Position DEF IInv, TypeOK
<1>3. PICK a : a = Append(rows, RowWithText)
  OBVIOUS
<1>4. Tokenized(f, c + 1, c + 1, c + 1, a, <<>>, <<>>, FALSE)
  <2>1. c + 1 \in Separators(f, Newline) /\ c + 1 \notin Separators(f, Delim)
    BY <1>2, Differ DEF Separators
  <2> QED
    BY ONLY <1>2, <1>3, <2>1, NextLine DEF RowWithText
<1>5. Consumed' = c + 1 /\ file' = f /\ expected' = expected
  BY <1>2, Consuming DEF Consume
<1>6. rows \in Seq(Values(LinesOf(f))) /\ Lines(f) \in Seq(Values(LinesOf(f)))
  <2>1. c <= Len(f)
    BY <1>2
  <2> QED
    BY <1>2, <2>1, RowsAre
<1>7. StartsWith(Lines(f), a)
  <2>1. c + 1 \in Nat /\ c + 1 <= Len(f)
    BY <1>2
  <2> QED
    BY ONLY <1>2, <1>4, <2>1, RowsAre
<1>8. TypeOK'
  BY Consuming DEF IInv, TypeOK, Place
<1>9. CASE expected \in {0, Len(RowWithText)}
  <2>1. at' = "call" /\ rows' = a /\ eof' = FALSE
    BY <1>3, <1>9, Consuming
  <2>2. Tokenized(file', Consumed', c + 1, c + 1, rows', row', text', started')
    BY <1>4, <1>5, <2>1
  <2>3. inQuotes' = Inside(file', Consumed' + 1) /\ Single(file', Consumed', c + 1)
    <3>1. Char # Quote /\ ~(c + 1 > c + 1)
      BY <1>2, Differ
    <3>2. Inside(f, (c + 1) + 1) = FALSE
      BY <1>2, <3>1, Flags
    <3> QED
      BY <1>5, <3>1, <3>2 DEF Single
  <2>4. Follows'
    BY <2>1, <2>2, <2>3 DEF Follows
  <2>5. WidthsChecked'
    <3>1. \A i \in DOMAIN rows : expected \in {0, Len(rows[i])}
      BY DEF IInv, WidthsChecked
    <3>2. \A i \in DOMAIN a : expected \in {0, Len(a[i])}
      BY <1>3, <1>6, <1>9, <3>1, OneRow
    <3> QED
      BY <1>5, <2>1, <3>2 DEF WidthsChecked
  <2>6. AllLines' /\ WrongLine'
    BY <2>1 DEF AllLines, WrongLine
  <2> QED
    BY <1>8, <2>4, <2>5, <2>6, Consuming DEF IInv
<1>10. CASE expected \notin {0, Len(RowWithText)}
  <2>1. at' = "thrown" /\ rows' = rows
    BY <1>10
  <2>2. Stopped(rows, Lines(f), expected)
    BY <1>3, <1>6, <1>7, <1>10, StopsBehind
  <2>3. Follows' /\ AllLines' /\ WrongLine'
    BY <1>5, <2>1, <2>2 DEF Follows, Reading, AllLines, WrongLine
  <2>4. WidthsChecked'
    BY <1>5, <2>1 DEF IInv, WidthsChecked
  <2> QED
    BY <1>8, <2>3, <2>4, Consuming DEF IInv
<1> QED
  BY <1>9, <1>10

LEMMA EndOfFileStep == ASSUME IInv, EndOfFile PROVE IInv'
<1> USE DEF EndOfFile, FinishRow, buffer, automaton
<1>1. PICK l, d : Tokenized(file, Consumed, l, d, rows, row, text, started)
  BY AtLoop
<1>2. PICK f, c, last : /\ f = file /\ c = Len(f) /\ f \in Seq(Chars) /\ c \in Nat
                        /\ last = IF started THEN RowWithText ELSE row
                        /\ Tokenized(f, c, l, d, rows, row, text, started)
  BY <1>1, Position
<1>3. Lines(f) = IF last = <<>> THEN rows ELSE Append(rows, last)
  <2>1. last = Ended(row, text, started)
    BY <1>2 DEF RowWithText, Ended
  <2> QED
    BY ONLY <1>2, <2>1, AtEnd
<1>4. rows \in Seq(Values(LinesOf(f))) /\ Lines(f) \in Seq(Values(LinesOf(f)))
  <2>1. c <= Len(f)
    BY <1>2
  <2> QED
    BY <1>2, <2>1, RowsAre
<1>5. /\ file' = f /\ expected' = expected /\ eof' = TRUE /\ BufferTypes'
  BY <1>2 DEF IInv, TypeOK, BufferTypes
<1>6. CASE last = <<>>
  <2>1. at' = "end" /\ rows' = rows /\ UNCHANGED automaton
    BY <1>2, <1>6
  <2>2. TypeOK'
    BY <1>5, <2>1 DEF IInv, TypeOK, Place
  <2>3. Follows' /\ AllLines' /\ WrongLine'
    BY <1>3, <1>5, <1>6, <2>1 DEF Follows, Reading, AllLines, WrongLine
  <2>4. WidthsChecked'
    BY <1>5, <2>1 DEF IInv, WidthsChecked
  <2> QED
    BY <1>5, <2>2, <2>3, <2>4 DEF IInv
<1>7. CASE last # <<>>
  <2>1. /\ started' = FALSE /\ inQuotes' = FALSE /\ text' = <<>> /\ row' = <<>>
        /\ IF expected \in {0, Len(last)} THEN at' = "call" /\ rows' = Append(rows, last)
                                          ELSE at' = "thrown" /\ rows' = rows
    BY <1>2, <1>7
  <2>2. TypeOK'
    BY <1>5, <2>1 DEF IInv, TypeOK, Place
  <2>3. CASE expected \in {0, Len(last)}
    <3>1. at' = "call" /\ rows' = Append(rows, last)
      BY <2>1, <2>3
    <3>2. Follows' /\ AllLines' /\ WrongLine'
      BY <1>3, <1>5, <1>7, <3>1 DEF Follows, Reading, AllLines, WrongLine
    <3>3. WidthsChecked'
      <4>1. \A i \in DOMAIN rows : expected \in {0, Len(rows[i])}
        BY DEF IInv, WidthsChecked
      <4>2. PICK a : a = Append(rows, last)
        OBVIOUS
      <4>3. \A i \in DOMAIN a : expected \in {0, Len(a[i])}
        BY <1>4, <2>3, <4>1, <4>2, OneRow
      <4> QED
        BY <1>5, <3>1, <4>2, <4>3 DEF WidthsChecked
    <3> QED
      BY <1>5, <2>2, <3>2, <3>3 DEF IInv
  <2>4. CASE expected \notin {0, Len(last)}
    <3>1. at' = "thrown" /\ rows' = rows
      BY <2>1, <2>4
    <3>2. Stopped(rows, Lines(f), expected)
      <4>1. PICK a : a = Append(rows, last)
        OBVIOUS
      <4>2. a = Lines(f)
        BY <1>3, <1>7, <4>1
      <4>3. StartsWith(Lines(f), a)
        BY <1>4, <4>2, LenProperties DEF StartsWith
      <4> QED
        BY <1>4, <2>4, <4>1, <4>3, StopsBehind
    <3>3. Follows' /\ AllLines' /\ WrongLine'
      BY <1>5, <3>1, <3>2 DEF Follows, Reading, AllLines, WrongLine
    <3>4. WidthsChecked'
      BY <1>5, <3>1 DEF IInv, WidthsChecked
    <3> QED
      BY <1>5, <2>2, <3>3, <3>4 DEF IInv
  <2> QED
    BY <2>3, <2>4
<1> QED
  BY <1>6, <1>7

-----------------------------------------------------------------------------
(* The theorems. *)

LEMMA InitInvariant == Init => IInv
<1> SUFFICES ASSUME Init PROVE IInv
  OBVIOUS
<1> USE DEF Init
<1>1. file \in Seq(Chars) /\ size \in Nat \ {0} /\ expected \in Nat
  BY TokenizerAssumption DEF Chars
<1>2. Len(file) \in Nat
  BY <1>1, LenProperties
<1>3. TypeOK /\ BufferTypes
  <2>1. pos <= end /\ end <= size /\ end <= read /\ read <= Len(file)
    BY <1>1, <1>2
  <2>2. BufferTypes
    BY <1>1 DEF BufferTypes
  <2> QED
    BY <2>1, <2>2 DEF TypeOK, Place
<1>4. Follows
  <2>1. Consumed = 0
    BY DEF Consumed
  <2>2. Tokenized(file, Consumed, 0, 0, rows, row, text, started)
    BY <1>1, <2>1, TokenizedFirst
  <2>3. Inside(file, 0 + 1) = FALSE
    BY InsideNext DEF Inside
  <2>4. inQuotes = Inside(file, Consumed + 1)
    BY <2>1, <2>3
  <2>5. Single(file, Consumed, 0)
    BY <2>1 DEF Single
  <2> QED
    BY <2>2, <2>4, <2>5 DEF Follows
<1>5. WidthsChecked /\ AllLines /\ WrongLine
  BY DEF WidthsChecked, AllLines, WrongLine
<1> QED
  BY <1>3, <1>4, <1>5 DEF IInv

LEMMA NextInvariant == IInv /\ [Next]_vars => IInv'
<1> SUFFICES ASSUME IInv, [Next]_vars PROVE IInv'
  OBVIOUS
<1>1. ASSUME UNCHANGED vars PROVE IInv'
  <2>1. /\ UNCHANGED <<file, expected, size, read, pos, end, eof, at, rows>>
        /\ UNCHANGED <<started, inQuotes, text, row>>
    BY <1>1 DEF vars, buffer, automaton
  <2>2. TypeOK' /\ BufferTypes'
    BY <2>1 DEF IInv, TypeOK, BufferTypes
  <2>3. WidthsChecked' /\ AllLines' /\ WrongLine'
    BY <2>1 DEF IInv, WidthsChecked, AllLines, WrongLine
  <2>4. Follows'
    BY <2>1 DEF IInv, Follows, Reading, Consumed
  <2> QED
    BY <2>2, <2>3, <2>4 DEF IInv
<1>2. CASE Over
  BY <1>1, <1>2 DEF Over
<1>3. CASE RefillBuffer \/ SkipWhitespace \/ AddChar \/ OpenQuotes
  BY <1>3, RefillBufferStep, SkipWhitespaceStep, AddCharStep, OpenQuotesStep
<1>4. CASE QuoteInQuotes \/ EscapedQuote \/ CloseQuotes \/ EndField
  BY <1>4, QuoteInQuotesStep, EscapedQuoteStep, CloseQuotesStep, EndFieldStep
<1>5. CASE BeginRow \/ EndLine \/ EndOfFile
  BY <1>5, BeginRowStep, EndLineStep, EndOfFileStep
<1> QED
  BY <1>1, <1>2, <1>3, <1>4, <1>5 DEF Next

LEMMA Invariant == Spec => []IInv
BY InitInvariant, NextInvariant, PTL DEF Spec

\* In every state of the tokenizer the buffer holds what was read last, within its size
\* and within the file; the end of the file is noticed by a read that gives nothing; in
\* quotes a string has begun, and between two calls of ReadRow no row is under way.
THEOREM TokenizerTypeCorrect == Spec => []TypeOK
<1>1. IInv => TypeOK
  BY DEF IInv
<1> QED
  BY <1>1, Invariant, PTL

\* What ReadRow returns, call by call and through buffers of any size, are the lines of
\* the file as they are defined on the whole file, up to the first line of another width
\* than expected_columns_; it throws exactly if there is such a line.
THEOREM RowsAreTheLines == Spec => []RowsAreLines
<1>1. IInv => RowsAreLines
  <2> SUFFICES ASSUME IInv, at \in {"end", "thrown"}
               PROVE  LET lines == Lines(file)
                          wrong == {i \in DOMAIN lines : expected \notin {0, Len(lines[i])}}
                      IN /\ (at = "thrown") = (wrong # {})
                         /\ rows = SubSeq(lines, 1, IF wrong = {} THEN Len(lines)
                                                                  ELSE Min(wrong) - 1)
    BY DEF RowsAreLines
  <2>1. PICK lines, wrong : /\ lines = Lines(file)
                            /\ wrong = {i \in DOMAIN lines : expected \notin {0, Len(lines[i])}}
    OBVIOUS
  <2>2. PICK V : lines \in Seq(V)
    <3>1. 0 \in Nat /\ 0 <= Len(file) /\ file \in Seq(Chars)
      BY Position
    <3>2. Lines(file) \in Seq(Values(LinesOf(file)))
      BY <3>1, LinesBegin
    <3> QED
      BY <2>1, <3>2
  <2>3. Len(lines) \in Nat /\ DOMAIN lines = 1..Len(lines) /\ SubSeq(lines, 1, Len(lines)) = lines
    BY <2>2, LenProperties, SubSeqFull
  <2>4. \A i \in DOMAIN rows : expected \in {0, Len(rows[i])}
    BY DEF IInv, WidthsChecked
  <2>5. CASE at = "end"
    <3>1. rows = lines
      BY <2>1, <2>5 DEF IInv, AllLines
    <3>2. wrong = {}
      BY <2>1, <2>4, <3>1
    <3> QED
      BY <2>1, <2>3, <2>5, <3>1, <3>2
  <2>6. CASE at = "thrown"
    <3>1. PICK n : /\ n = Len(rows) /\ n \in Nat /\ n < Len(lines) /\ rows = SubSeq(lines, 1, n)
                   /\ expected \notin {0, Len(lines[n + 1])}
      BY <2>1, <2>6 DEF IInv, WrongLine, Stopped
    <3>2. \A i \in 1..n : i \in DOMAIN rows /\ rows[i] = lines[i]
      <4>1. \A i \in 1..n : i \in 1..Len(lines) /\ lines[i] \in V
        BY <2>2, <2>3, <3>1, ElementOfSeq
      <4>2. rows \in Seq(V) /\ \A i \in 1..n : rows[i] = lines[i]
        BY <2>2, <2>3, <3>1, <4>1, SubSeqProperties
      <4>3. DOMAIN rows = 1..n
        BY <3>1, <4>2, LenProperties
      <4> QED
        BY <4>2, <4>3
    <3>3. n + 1 \in wrong /\ \A i \in wrong : i \in Nat /\ n + 1 <= i
      <4>1. n + 1 \in wrong /\ wrong \subseteq 1..Len(lines)
        BY <2>1, <2>3, <3>1
      <4>2. \A i \in wrong : i \notin 1..n
        BY <2>1, <2>4, <3>2
      <4> QED
        BY <3>1, <4>1, <4>2
    <3>4. Min(wrong) = n + 1
      <4>1. wrong \in SUBSET Int /\ n + 1 \in wrong /\ \A i \in wrong : n + 1 <= i
        BY <3>3
      <4> QED
        BY ONLY <4>1, MinIs
    <3>5. wrong # {} /\ (n + 1) - 1 = n
      BY <3>1, <3>3
    <3>6. rows = SubSeq(lines, 1, IF wrong = {} THEN Len(lines) ELSE Min(wrong) - 1)
      BY ONLY <3>1, <3>4, <3>5
    <3> QED
      BY <2>1, <2>6, <3>5, <3>6
  <2> QED
    BY <2>5, <2>6
<1> QED
  BY <1>1, Invariant, PTL

-----------------------------------------------------------------------------
(* Tables that were written with quotes. *)

\* Behind position c of f comes x.
Holds(f, c, x) == c + Len(x) <= Len(f) /\ \A i \in 1..Len(x) : f[c + i] = x[i]

\* Behind c comes z, which is x and then y, all over C.
Joined(C, f, c, x, y, z) ==
  /\ x \in Seq(C) /\ y \in Seq(C) /\ z = x \o y
  /\ Len(f) \in Nat /\ c \in Nat /\ Holds(f, c, z)

\* So behind c comes x, and behind that y.
InTurn(C, f, c, x, y, z) ==
  /\ z \in Seq(C) /\ Len(x) \in Nat /\ Len(y) \in Nat /\ Len(z) = Len(x) + Len(y)
  /\ Holds(f, c, x) /\ Holds(f, c + Len(x), y)

LEMMA HoldsBoth ==
  ASSUME NEW C, NEW f, NEW c, NEW x, NEW y, NEW z, Joined(C, f, c, x, y, z)
  PROVE  InTurn(C, f, c, x, y, z)
<1>0. /\ x \in Seq(C) /\ y \in Seq(C) /\ z = x \o y
      /\ Len(f) \in Nat /\ c \in Nat /\ Holds(f, c, z)
  BY DEF Joined
<1>1. /\ z \in Seq(C) /\ Len(z) = Len(x) + Len(y)
      /\ \A i \in 1..(Len(x) + Len(y)) : z[i] = IF i <= Len(x) THEN x[i] ELSE y[i - Len(x)]
  BY <1>0, ConcatProperties
<1>2. PICK m, n : m = Len(x) /\ n = Len(y) /\ m \in Nat /\ n \in Nat
  BY <1>0, LenProperties
<1>3. c + (m + n) <= Len(f) /\ \A i \in 1..(m + n) : f[c + i] = z[i]
  BY <1>0, <1>1, <1>2 DEF Holds
<1>4. Holds(f, c, x)
  <2>1. c + m <= Len(f) /\ \A i \in 1..m : i \in 1..(m + n) /\ i <= m
    BY <1>0, <1>2, <1>3
  <2>2. \A i \in 1..m : f[c + i] = x[i]
    BY <1>1, <1>2, <1>3, <2>1
  <2> QED
    BY <1>2, <2>1, <2>2 DEF Holds
<1>5. Holds(f, c + m, y)
  <2>1. (c + m) + n <= Len(f)
    BY <1>0, <1>2, <1>3
  <2>2. ASSUME NEW i \in 1..n PROVE f[(c + m) + i] = y[i]
    <3>1. /\ m + i \in 1..(m + n) /\ ~(m + i <= m) /\ (m + i) - m = i
          /\ c + (m + i) = (c + m) + i
      BY <1>0, <1>2
    <3> QED
      BY <1>1, <1>2, <1>3, <3>1, SMTT(30)
  <2> QED
    BY <1>2, <2>1, <2>2 DEF Holds
<1> QED
  BY <1>1, <1>2, <1>4, <1>5 DEF InTurn

\* Behind c come the parts of a flattened sequence, each where the one before it ends.
LEMMA HoldsParts ==
  ASSUME NEW C, NEW g \in Seq(Seq(C)), NEW P, Ends(P, g), NEW f, Len(f) \in Nat,
         NEW c, c \in Nat, Holds(f, c, FlattenSeq(g))
  PROVE  /\ Len(FlattenSeq(g)) = P[Len(g)]
         /\ \A i \in 1..Len(g) : /\ P[i - 1] \in Nat /\ P[i] = P[i - 1] + Len(g[i])
                                 /\ Holds(f, c + P[i - 1], g[i])
<1>1. PICK n, z : n = Len(g) /\ n \in Nat /\ z = FlattenSeq(g)
  BY LenProperties
<1>2. /\ Len(z) = P[n]
      /\ \A i \in 1..n : \A j \in 1..Len(g[i]) : z[P[i - 1] + j] = g[i][j]
  <2>1. /\ Len(FlattenSeq(g)) = P[Len(g)]
        /\ \A i \in 1..Len(g) : \A j \in 1..Len(g[i]) : FlattenSeq(g)[P[i - 1] + j] = g[i][j]
    BY FlattenPlaces
  <2> QED
    BY ONLY <1>1, <2>1
<1>3. /\ \A i \in 0..n : P[i] \in Nat
      /\ \A i \in 1..n : P[i] = P[i - 1] + Len(g[i])
  BY <1>1 DEF Ends
<1>4. \A i \in 0..n : P[i] <= P[n]
  <2>1. n \in 0..Len(g)
    BY <1>1
  <2> QED
    BY <1>1, <2>1, EndsAscend
<1>5. c + P[n] <= Len(f) /\ \A k \in 1..P[n] : f[c + k] = z[k]
  BY <1>1, <1>2 DEF Holds
<1>6. ASSUME NEW i \in 1..n
      PROVE  P[i - 1] \in Nat /\ Holds(f, c + P[i - 1], g[i])
  <2>1. PICK a, m : a = P[i - 1] /\ m = Len(g[i])
    OBVIOUS
  <2>2. a \in Nat /\ m \in Nat /\ P[n] \in Nat /\ a + m <= P[n]
    <3>1. i - 1 \in 0..n /\ i \in 0..n /\ n \in 0..n /\ i \in 1..Len(g)
      BY <1>1
    <3>2. g[i] \in Seq(C)
      BY <3>1, ElementOfSeq
    <3> QED
      BY <1>3, <1>4, <2>1, <3>1, <3>2, LenProperties
  <2>3. (c + a) + m <= Len(f)
    BY ONLY c \in Nat, Len(f) \in Nat, <1>5, <2>2
  <2>4. ASSUME NEW j \in 1..m PROVE f[(c + a) + j] = g[i][j]
    <3>1. a + j \in 1..P[n] /\ c + (a + j) = (c + a) + j
      BY <2>2
    <3>2. z[a + j] = g[i][j]
      BY <1>2, <2>1
    <3> QED
      BY <1>5, <3>1, <3>2
  <2> QED
    BY <2>1, <2>2, <2>3, <2>4 DEF Holds
<1> QED
  BY <1>1, <1>2, <1>3, <1>6

\* The first elements of a sequence.
LEMMA FirstOnes ==
  ASSUME NEW C, NEW s \in Seq(C)
  PROVE  /\ SubSeq(s, 1, 0) = <<>>
         /\ \A k \in 1..Len(s) : /\ SubSeq(s, 1, k) = SubSeq(s, 1, k - 1) \o <<s[k]>>
                                 /\ SubSeq(s, 1, k) = Append(SubSeq(s, 1, k - 1), s[k])
<1>1. SubSeq(s, 1, 0) = <<>>
  BY SubSeqEmpty
<1>2. ASSUME NEW k \in 1..Len(s)
      PROVE  /\ SubSeq(s, 1, k) = SubSeq(s, 1, k - 1) \o <<s[k]>>
             /\ SubSeq(s, 1, k) = Append(SubSeq(s, 1, k - 1), s[k])
  <2>1. Len(s) \in Nat /\ 1 \in 1..Len(s) /\ k \in 1..Len(s)
    BY LenProperties
  <2>2. SubSeq(s, 1, k) = SubSeq(s, 1, k - 1) \o <<s[k]>>
    BY <2>1, SubSeqRecursiveSecond
  <2>3. SubSeq(s, 1, k - 1) \in Seq(C) /\ s[k] \in C
    <3>1. \A i \in 1..(k - 1) : s[i] \in C
      BY <2>1, ElementOfSeq
    <3> QED
      BY <2>1, <3>1, SubSeqProperties, ElementOfSeq
  <2>4. Append(SubSeq(s, 1, k - 1), s[k]) = SubSeq(s, 1, k - 1) \o <<s[k]>>
    BY <2>3, AppendIsConcat
  <2> QED
    BY <2>2, <2>4
<1> QED
  BY <1>1, <1>2

\* The characters up to c end in the quoted text t of a field, which goes on.
InField(f, c, l, d, rs, r, t) ==
  Tokenized(f, c, l, d, rs, r, t, TRUE) /\ Inside(f, c + 1) /\ ~Closing(f, c)

\* A quote opens a field.
LEMMA OpensField ==
  ASSUME NEW X, NEW f \in Seq(X), NEW c, c \in Nat, c < Len(f), f[c + 1] = Quote,
         NEW l, NEW rs, NEW r, Tokenized(f, c, l, c, rs, r, <<>>, FALSE), ~Inside(f, c + 1)
  PROVE  InField(f, c + 1, l, c, rs, r, <<>>)
<1>1. c + 1 \notin Separators(f, Delim) /\ c + 1 \notin Separators(f, Newline)
  BY Differ DEF Separators
<1>2. Grown(f, c, c, <<>>, <<>>)
  <2>1. ~(c + 1 > c + 1)
    OBVIOUS
  <2>2. ~InText(f, c + 1, c + 1)
    BY <2>1 DEF InText
  <2> QED
    BY <2>2 DEF Grown
<1>3. Seen(f, c, FALSE, TRUE)
  BY Differ DEF Seen, Whitespace
<1>4. Tokenized(f, c + 1, l, c, rs, r, <<>>, TRUE)
  BY ONLY f \in Seq(X), c \in Nat, c < Len(f), Tokenized(f, c, l, c, rs, r, <<>>, FALSE),
     <1>1, <1>2, <1>3, NextPlain
<1>5. c + 1 \in Nat \ {0}
  OBVIOUS
<1>6. Inside(f, (c + 1) + 1)
  BY <1>5, InsideNext
<1> QED
  BY <1>4, <1>6 DEF InField, Closing

\* In quotes a character is text.
LEMMA QuotedChar ==
  ASSUME NEW X, NEW f \in Seq(X), NEW c, c \in Nat, c < Len(f),
         f[c + 1] # Quote, f[c + 1] # Return,
         NEW l, NEW d, NEW rs, NEW r, NEW t, InField(f, c, l, d, rs, r, t)
  PROVE  InField(f, c + 1, l, d, rs, r, t \o <<f[c + 1]>>)
<1>1. Tokenized(f, c, l, d, rs, r, t, TRUE) /\ Inside(f, c + 1)
  BY DEF InField
<1>2. c + 1 \notin Separators(f, Delim) /\ c + 1 \notin Separators(f, Newline)
  BY <1>1 DEF Separators
<1>3. InText(f, d + 1, c + 1)
  <2>1. d \in Nat /\ d <= c /\ \E k \in (d + 1)..c : f[k] \notin Whitespace
    BY <1>1 DEF Tokenized
  <2>2. \A k \in (d + 1)..c : k \in (d + 1)..(c + 1)
    BY <2>1
  <2>3. \E k \in (d + 1)..(c + 1) : f[k] \notin Whitespace
    BY <2>1, <2>2
  <2> QED
    BY <2>3 DEF InText
<1>4. PICK u : u = t \o <<f[c + 1]>>
  OBVIOUS
<1>5. Grown(f, d, c, t, u) /\ Seen(f, c, TRUE, TRUE)
  BY <1>3, <1>4 DEF Grown, Seen
<1>6. Tokenized(f, c + 1, l, d, rs, r, u, TRUE)
  BY ONLY f \in Seq(X), c \in Nat, c < Len(f), <1>1, <1>2, <1>5, NextPlain
<1>7. c + 1 \in Nat \ {0}
  OBVIOUS
<1>8. Inside(f, (c + 1) + 1)
  BY <1>1, <1>7, InsideNext
<1> QED
  BY <1>4, <1>6, <1>8 DEF InField, Closing

\* A quote in quotes is no text yet.
LEMMA FirstQuote ==
  ASSUME NEW X, NEW f \in Seq(X), NEW c, c \in Nat, c < Len(f), f[c + 1] = Quote,
         NEW l, NEW d, NEW rs, NEW r, NEW t, InField(f, c, l, d, rs, r, t)
  PROVE  Tokenized(f, c + 1, l, d, rs, r, t, TRUE) /\ ~Inside(f, (c + 1) + 1)
<1>1. Tokenized(f, c, l, d, rs, r, t, TRUE) /\ Inside(f, c + 1) /\ ~Closing(f, c)
  BY DEF InField
<1>2. c + 1 \notin Separators(f, Delim) /\ c + 1 \notin Separators(f, Newline)
  BY <1>1 DEF Separators
<1>3. ~InText(f, d + 1, c + 1)
  <2>1. (c + 1) - 1 = c
    OBVIOUS
  <2> QED
    BY <1>1, <2>1 DEF InText, Closing
<1>4. Grown(f, d, c, t, t) /\ Seen(f, c, TRUE, TRUE)
  BY <1>3 DEF Grown, Seen
<1>5. Tokenized(f, c + 1, l, d, rs, r, t, TRUE)
  BY ONLY f \in Seq(X), c \in Nat, c < Len(f), <1>1, <1>2, <1>4, NextPlain
<1>6. c + 1 \in Nat \ {0}
  OBVIOUS
<1>7. ~Inside(f, (c + 1) + 1)
  BY <1>1, <1>6, InsideNext
<1> QED
  BY <1>5, <1>7

\* Two of them are one in the text.
LEMMA TwoQuotes ==
  ASSUME NEW X, NEW f \in Seq(X), NEW c, c \in Nat, c + 2 <= Len(f),
         f[c + 1] = Quote, f[c + 2] = Quote,
         NEW l, NEW d, NEW rs, NEW r, NEW t, InField(f, c, l, d, rs, r, t)
  PROVE  InField(f, c + 2, l, d, rs, r, t \o <<Quote>>)
<1>1. PICK e : /\ e = c + 1 /\ e \in Nat /\ e < Len(f) /\ e + 1 = c + 2
               /\ c < Len(f) /\ f[e + 1] = Quote
  <2>1. Len(f) \in Nat
    BY LenProperties
  <2>2. c + 1 \in Nat /\ c + 1 < Len(f) /\ (c + 1) + 1 = c + 2 /\ c < Len(f)
    BY <2>1
  <2> QED
    BY <2>2
<1>2. Tokenized(f, e, l, d, rs, r, t, TRUE) /\ ~Inside(f, e + 1)
  BY <1>1, FirstQuote
<1>3. Inside(f, c + 1)
  BY DEF InField
<1>4. e + 1 \notin Separators(f, Delim) /\ e + 1 \notin Separators(f, Newline)
  BY <1>1, Differ DEF Separators
<1>5. InText(f, d + 1, e + 1)
  <2>1. d \in Nat /\ d <= c
    BY DEF InField, Tokenized
  <2>2. e + 1 > d + 1 /\ (e + 1) - 1 = e
    BY <1>1, <2>1
  <2> QED
    BY <1>1, <1>3, <2>2 DEF InText
<1>6. PICK u : u = t \o <<Quote>>
  OBVIOUS
<1>7. Grown(f, d, e, t, u) /\ Seen(f, e, TRUE, TRUE)
  BY <1>1, <1>5, <1>6 DEF Grown, Seen
<1>8. Tokenized(f, e + 1, l, d, rs, r, u, TRUE)
  BY ONLY f \in Seq(X), <1>1, <1>2, <1>4, <1>7, NextPlain
<1>9. e + 1 \in Nat \ {0}
  BY <1>1
<1>10. Inside(f, (e + 1) + 1)
  BY <1>1, <1>2, <1>9, InsideNext
<1> QED
  BY <1>1, <1>2, <1>6, <1>8, <1>10 DEF InField, Closing

\* An alphabet of a file.
Alphabet(C) == {Quote, Delim, Newline} \subseteq C

\* The text of a field, with its quotes doubled, is read as it was.
LEMMA TextIsRead ==
  ASSUME NEW C, Alphabet(C), NEW s \in Seq(C), \A k \in 1..Len(s) : s[k] # Return,
         NEW X, NEW f \in Seq(X), NEW c, c \in Nat, Holds(f, c, Escaped(s)),
         NEW l, NEW d, NEW rs, NEW r, InField(f, c, l, d, rs, r, <<>>)
  PROVE  InField(f, c + Len(Escaped(s)), l, d, rs, r, s)
<1>1. PICK n : n = Len(s) /\ n \in Nat /\ DOMAIN s = 1..n /\ \A k \in 1..n : s[k] \in C
  BY LenProperties, ElementOfSeq
<1>2. PICK g : g = [k \in 1..n |-> IF s[k] = Quote THEN <<Quote, Quote>> ELSE <<s[k]>>]
  OBVIOUS
<1>3. Escaped(s) = FlattenSeq(g)
  BY <1>1, <1>2 DEF Escaped
<1>4. g \in Seq(Seq(C)) /\ Len(g) = n
  <2>1. \A k \in 1..n : <<Quote, Quote>> \in Seq(C) /\ <<s[k]>> \in Seq(C)
    BY <1>1 DEF Alphabet
  <2>2. g \in [1..n -> Seq(C)]
    BY <1>2, <2>1
  <2> QED
    BY <1>1, <2>2, IsSequence
<1>5. PICK P : Ends(P, g)
  BY <1>4, EndsExist
<1>6. /\ Len(Escaped(s)) = P[n] /\ P[0] = 0
      /\ \A i \in 1..n : /\ P[i - 1] \in Nat /\ P[i] = P[i - 1] + Len(g[i])
                         /\ Holds(f, c + P[i - 1], g[i])
  <2>1. Len(f) \in Nat /\ Holds(f, c, FlattenSeq(g))
    BY <1>3, LenProperties
  <2>2. /\ Len(FlattenSeq(g)) = P[Len(g)]
        /\ \A i \in 1..Len(g) : /\ P[i - 1] \in Nat /\ P[i] = P[i - 1] + Len(g[i])
                                /\ Holds(f, c + P[i - 1], g[i])
    BY ONLY c \in Nat, <1>4, <1>5, <2>1, HoldsParts
  <2> QED
    BY <1>3, <1>4, <1>5, <2>2 DEF Ends
<1>7. /\ SubSeq(s, 1, 0) = <<>>
      /\ \A k \in 1..n : SubSeq(s, 1, k) = SubSeq(s, 1, k - 1) \o <<s[k]>>
  BY <1>1, FirstOnes
<1> DEFINE T == {k \in Nat : k <= n => InField(f, c + P[k], l, d, rs, r, SubSeq(s, 1, k))}
<1>8. 0 \in T
  <2>1. c + P[0] = c
    BY <1>6
  <2> QED
    BY <1>7, <2>1
<1>9. ASSUME NEW k \in Nat, k \in T
      PROVE  k + 1 \in T
  <2> SUFFICES ASSUME k + 1 <= n
               PROVE  InField(f, c + P[k + 1], l, d, rs, r, SubSeq(s, 1, k + 1))
    OBVIOUS
  <2>1. k + 1 \in 1..n /\ (k + 1) - 1 = k /\ k <= n
    BY <1>1
  <2>7. InField(f, c + P[k], l, d, rs, r, SubSeq(s, 1, k))
    BY <1>9, <2>1, Zenon
  <2>8. /\ P[k] \in Nat /\ P[k + 1] = P[k] + Len(g[k + 1]) /\ Holds(f, c + P[k], g[k + 1])
        /\ SubSeq(s, 1, k + 1) = SubSeq(s, 1, k) \o <<s[k + 1]>>
    <3>1. PICK i : i = k + 1 /\ i \in 1..n /\ i - 1 = k
      BY <2>1
    <3>2. /\ P[i - 1] \in Nat /\ P[i] = P[i - 1] + Len(g[i]) /\ Holds(f, c + P[i - 1], g[i])
          /\ SubSeq(s, 1, i) = SubSeq(s, 1, i - 1) \o <<s[i]>>
      BY ONLY <1>6, <1>7, <3>1
    <3> QED
      BY ONLY <3>1, <3>2
  <2>9. PICK e, t : e = c + P[k] /\ t = SubSeq(s, 1, k)
    OBVIOUS
  <2>2. /\ e = c + P[k] /\ e \in Nat /\ t = SubSeq(s, 1, k)
        /\ P[k + 1] = P[k] + Len(g[k + 1]) /\ P[k] \in Nat
        /\ Holds(f, e, g[k + 1])
        /\ SubSeq(s, 1, k + 1) = t \o <<s[k + 1]>>
    BY <2>8, <2>9
  <2>3. InField(f, e, l, d, rs, r, t)
    BY <2>2, <2>7
  <2>4. Len(f) \in Nat
    BY LenProperties
  <2>5. CASE s[k + 1] = Quote
    <3>1. g[k + 1] = <<Quote, Quote>>
      BY <1>2, <2>1, <2>5
    <3>2. PICK x : x = <<Quote, Quote>> /\ Len(x) = 2 /\ x[1] = Quote /\ x[2] = Quote
      <4>1. Len(<<Quote, Quote>>) = 2 /\ <<Quote, Quote>>[1] = Quote /\ <<Quote, Quote>>[2] = Quote
        OBVIOUS
      <4> QED
        BY ONLY <4>1
    <3>3. e + 2 <= Len(f) /\ f[e + 1] = Quote /\ f[e + 2] = Quote
      <4>1. e + Len(x) <= Len(f) /\ \A j \in 1..Len(x) : f[e + j] = x[j]
        BY <2>2, <3>1, <3>2 DEF Holds
      <4>2. 1 \in 1..Len(x) /\ 2 \in 1..Len(x)
        BY <3>2
      <4> QED
        BY <3>2, <4>1, <4>2
    <3>4. InField(f, e + 2, l, d, rs, r, t \o <<Quote>>)
      BY ONLY f \in Seq(X), <2>2, <2>3, <3>3, TwoQuotes
    <3>5. e + 2 = c + P[k + 1]
      BY <2>2, <3>1, <3>2, SMTT(30)
    <3> QED
      BY <2>2, <2>5, <3>4, <3>5
  <2>6. CASE s[k + 1] # Quote
    <3>1. g[k + 1] = <<s[k + 1]>>
      BY <1>2, <2>1, <2>6
    <3>2. PICK x : x = <<s[k + 1]>> /\ Len(x) = 1 /\ x[1] = s[k + 1]
      <4>1. PICK v : v = s[k + 1]
        OBVIOUS
      <4>2. Len(<<v>>) = 1 /\ <<v>>[1] = v
        OBVIOUS
      <4> QED
        BY ONLY <4>1, <4>2
    <3>3. e + 1 <= Len(f) /\ f[e + 1] = s[k + 1]
      BY <2>2, <3>1, <3>2 DEF Holds
    <3>4. e < Len(f) /\ f[e + 1] # Quote /\ f[e + 1] # Return
      BY <1>1, <2>1, <2>2, <2>4, <2>6, <3>3
    <3>5. InField(f, e + 1, l, d, rs, r, t \o <<f[e + 1]>>)
      BY ONLY f \in Seq(X), <2>2, <2>3, <3>4, QuotedChar
    <3>6. e + 1 = c + P[k + 1]
      BY <2>2, <3>1, <3>2
    <3> QED
      BY <2>2, <3>3, <3>5, <3>6
  <2> QED
    BY <2>5, <2>6
<1>10. n \in T
  <2> HIDE DEF T
  <2>1. \A k \in Nat : k \in T
    BY <1>8, <1>9, SetInduction
  <2> QED
    BY <1>1, <2>1
<1>11. SubSeq(s, 1, n) = s
  BY <1>1, SubSeqFull
<1>12. InField(f, c + P[n], l, d, rs, r, SubSeq(s, 1, n))
  <2>1. n <= n
    BY <1>1
  <2> QED
    BY <1>10, <2>1, Zenon
<1> QED
  BY <1>6, <1>11, <1>12

\* What is written for a text is over the alphabet.
LEMMA EscapedIs ==
  ASSUME NEW C, Alphabet(C), NEW s \in Seq(C)
  PROVE  Escaped(s) \in Seq(C)
<1>1. PICK n : n = Len(s) /\ n \in Nat /\ DOMAIN s = 1..n /\ \A k \in 1..n : s[k] \in C
  BY LenProperties, ElementOfSeq
<1>2. PICK g : g = [k \in 1..n |-> IF s[k] = Quote THEN <<Quote, Quote>> ELSE <<s[k]>>]
  OBVIOUS
<1>3. \A k \in 1..n : <<Quote, Quote>> \in Seq(C) /\ <<s[k]>> \in Seq(C)
  BY <1>1 DEF Alphabet
<1>4. g \in [1..n -> Seq(C)]
  BY <1>2, <1>3
<1>5. g \in Seq(Seq(C))
  BY <1>1, <1>4, IsSequence
<1>6. Escaped(s) = FlattenSeq(g)
  BY <1>1, <1>2 DEF Escaped
<1> QED
  BY <1>5, <1>6, FlattenType

\* A field as it is written, behind what is in D.
PieceOf(D, s) == D \o <<Quote>> \o Escaped(s) \o <<Quote>>

\* Behind c comes the text s as a field; a is where it begins and b where it ends.
Field(C, f, c, D, s, a, b) ==
  /\ D \in Seq(C) /\ s \in Seq(C) /\ Len(f) \in Nat /\ c \in Nat
  /\ Holds(f, c, PieceOf(D, s)) /\ a = c + Len(D) /\ b = (a + 1) + Len(Escaped(s))

\* So behind c come D, a quote, the text with its quotes doubled, and a quote.
InQuotes(f, c, D, s, a, b) ==
  /\ Holds(f, c, D) /\ a \in Nat /\ a < Len(f) /\ f[a + 1] = Quote
  /\ Holds(f, a + 1, Escaped(s)) /\ b \in Nat /\ b < Len(f) /\ f[b + 1] = Quote
  /\ Len(PieceOf(D, s)) \in Nat /\ b + 1 = c + Len(PieceOf(D, s))

LEMMA PieceHolds ==
  ASSUME NEW C, Alphabet(C), NEW f, NEW c, NEW D, NEW s, NEW a, NEW b, Field(C, f, c, D, s, a, b)
  PROVE  InQuotes(f, c, D, s, a, b)
<1>0. /\ D \in Seq(C) /\ s \in Seq(C) /\ Len(f) \in Nat /\ c \in Nat
      /\ Holds(f, c, PieceOf(D, s)) /\ a = c + Len(D) /\ b = (a + 1) + Len(Escaped(s))
  BY DEF Field
<1>1. PICK q, E, x, y, z : /\ q = <<Quote>> /\ E = Escaped(s) /\ x = D \o q
                           /\ y = x \o E /\ z = y \o q
  OBVIOUS
<1>2. z = PieceOf(D, s)
  BY <1>1 DEF PieceOf
<1>3. q \in Seq(C) /\ Len(q) = 1 /\ q[1] = Quote /\ E \in Seq(C)
  BY <1>0, <1>1, EscapedIs DEF Alphabet
<1>4. x \in Seq(C) /\ y \in Seq(C)
  BY <1>0, <1>1, <1>3, ConcatProperties
<1>5. InTurn(C, f, c, y, q, z)
  <2>1. Joined(C, f, c, y, q, z)
    BY <1>0, <1>1, <1>2, <1>3, <1>4 DEF Joined
  <2> QED
    BY ONLY <2>1, HoldsBoth
<1>6. InTurn(C, f, c, x, E, y)
  <2>1. Joined(C, f, c, x, E, y)
    BY <1>0, <1>1, <1>3, <1>4, <1>5 DEF Joined, InTurn
  <2> QED
    BY ONLY <2>1, HoldsBoth
<1>7. InTurn(C, f, c, D, q, x)
  <2>1. Joined(C, f, c, D, q, x)
    BY <1>0, <1>1, <1>3, <1>6 DEF Joined, InTurn
  <2> QED
    BY ONLY <2>1, HoldsBoth
<1>8. \A i : Holds(f, i, q) => i + 1 <= Len(f) /\ f[i + 1] = Quote
  BY <1>3 DEF Holds
<1>9. /\ a \in Nat /\ b \in Nat /\ c + Len(x) = a + 1 /\ c + Len(y) = b
      /\ Len(z) \in Nat /\ b + 1 = c + Len(z)
  BY <1>0, <1>1, <1>3, <1>5, <1>6, <1>7, SMTT(30) DEF InTurn
<1>10. /\ a + 1 <= Len(f) /\ f[a + 1] = Quote /\ b + 1 <= Len(f) /\ f[b + 1] = Quote
       /\ Holds(f, c, D) /\ Holds(f, a + 1, E)
  <2>1. /\ Holds(f, c, D) /\ Holds(f, c + Len(D), q) /\ Holds(f, c + Len(x), E)
        /\ Holds(f, c + Len(y), q)
    BY <1>5, <1>6, <1>7 DEF InTurn
  <2>2. Holds(f, a, q) /\ Holds(f, a + 1, E) /\ Holds(f, b, q)
    BY ONLY <2>1, <1>0, <1>9
  <2> QED
    BY ONLY <1>8, <2>1, <2>2
<1>11. a < Len(f) /\ b < Len(f)
  BY ONLY <1>0, <1>9, <1>10, SMTT(30)
<1> QED
  BY <1>1, <1>2, <1>9, <1>10, <1>11 DEF InQuotes

\* A field is read as it was.
LEMMA PieceIsRead ==
  ASSUME NEW C, Alphabet(C), NEW D, D \in Seq(C), NEW s, s \in Seq(C),
         \A k \in 1..Len(s) : s[k] # Return,
         NEW X, NEW f \in Seq(X), NEW c, c \in Nat, Holds(f, c, PieceOf(D, s)),
         NEW a, a = c + Len(D), NEW l, NEW rs, NEW r,
         Tokenized(f, a, l, a, rs, r, <<>>, FALSE), ~Inside(f, a + 1),
         NEW e, e = c + Len(PieceOf(D, s))
  PROVE  e \in Nat /\ e <= Len(f) /\ Tokenized(f, e, l, a, rs, r, s, TRUE) /\ ~Inside(f, e + 1)
<1>1. Len(f) \in Nat
  BY LenProperties
<1>2. PICK E, b : E = Escaped(s) /\ b = (a + 1) + Len(E)
  OBVIOUS
<1>3. /\ a \in Nat /\ a < Len(f) /\ f[a + 1] = Quote
      /\ Holds(f, a + 1, E) /\ b \in Nat /\ b < Len(f) /\ f[b + 1] = Quote
      /\ b + 1 = e
  <2>1. Field(C, f, c, D, s, a, b)
    BY <1>1, <1>2 DEF Field
  <2>2. InQuotes(f, c, D, s, a, b)
    BY ONLY Alphabet(C), <2>1, PieceHolds
  <2> QED
    BY <1>2, <2>2 DEF InQuotes
<1>4. InField(f, a + 1, l, a, rs, r, <<>>)
  BY <1>3, OpensField
<1>5. InField(f, b, l, a, rs, r, s)
  <2>1. a + 1 \in Nat
    BY <1>3
  <2>2. InField(f, (a + 1) + Len(E), l, a, rs, r, s)
    BY <1>2, <1>3, <1>4, <2>1, TextIsRead
  <2> QED
    BY <1>2, <2>2
<1>6. Tokenized(f, b + 1, l, a, rs, r, s, TRUE) /\ ~Inside(f, (b + 1) + 1)
  BY <1>3, <1>5, FirstQuote
<1>7. e \in Nat /\ e <= Len(f)
  BY <1>1, <1>3
<1> QED
  BY <1>3, <1>6, <1>7

\* A text without white space at its end is trimmed.
LEMMA TrimmedIs ==
  ASSUME NEW C, NEW s \in Seq(C), s # <<>> => s[Len(s)] \notin Whitespace
  PROVE  Trimmed(s) = s
<1>1. PICK n, ends : /\ n = Len(s) /\ n \in Nat /\ DOMAIN s = 1..n
                     /\ ends = {i \in DOMAIN s : s[i] \notin Whitespace}
  BY LenProperties
<1>2. Trimmed(s) = SubSeq(s, 1, IF ends = {} THEN 0 ELSE Max(ends))
  BY <1>1 DEF Trimmed
<1>3. (IF ends = {} THEN 0 ELSE Max(ends)) = n
  <2>1. CASE n = 0
    BY <1>1, <2>1
  <2>2. CASE n > 0
    <3>1. n \in ends /\ ends \in SUBSET Int /\ \A y \in ends : n >= y
      <4>1. s # <<>>
        BY <1>1, <2>2, EmptySeq
      <4> QED
        BY <1>1, <2>2, <4>1
    <3>2. Max(ends) = n
      BY ONLY <3>1, MaxIs
    <3> QED
      BY <3>1, <3>2
  <2> QED
    BY <1>1, <2>1, <2>2
<1> QED
  BY <1>1, <1>2, <1>3, SubSeqFull

\* A field as it is written is over the alphabet.
LEMMA PieceType ==
  ASSUME NEW C, Alphabet(C), NEW D, D \in Seq(C), NEW s, s \in Seq(C)
  PROVE  PieceOf(D, s) \in Seq(C)
<1>1. PICK q, E : q = <<Quote>> /\ E = Escaped(s)
  OBVIOUS
<1>2. q \in Seq(C) /\ E \in Seq(C)
  BY <1>1, EscapedIs DEF Alphabet
<1>3. D \o q \in Seq(C)
  BY <1>2, ConcatProperties
<1>4. (D \o q) \o E \in Seq(C)
  BY <1>2, <1>3, ConcatProperties
<1>5. ((D \o q) \o E) \o q \in Seq(C)
  BY <1>2, <1>4, ConcatProperties
<1> QED
  BY <1>1, <1>5 DEF PieceOf

\* The characters up to e end in the closing quote of a field with the text t, behind the
\* fields q of a line.
ReadTo(f, e, l, rs, q, t) ==
  /\ e \in Nat /\ e <= Len(f) /\ ~Inside(f, e + 1)
  /\ \E d : Tokenized(f, e, l, d, rs, q, t, TRUE)

\* A delimiter and the next field.
LEMMA FieldIsRead ==
  ASSUME NEW C, Alphabet(C), NEW s, s \in Seq(C), \A k \in 1..Len(s) : s[k] # Return,
         NEW X, NEW f \in Seq(X), NEW c, NEW l, NEW rs, NEW q, NEW t, Trimmed(t) = t,
         ReadTo(f, c, l, rs, q, t), Holds(f, c, PieceOf(<<Delim>>, s)),
         NEW e, e = c + Len(PieceOf(<<Delim>>, s))
  PROVE  ReadTo(f, e, l, rs, Append(q, t), s)
<1>1. PICK d : /\ c \in Nat /\ c <= Len(f) /\ ~Inside(f, c + 1)
               /\ Tokenized(f, c, l, d, rs, q, t, TRUE)
  BY DEF ReadTo
<1>2. PICK D : D = <<Delim>>
  OBVIOUS
<1>3. D \in Seq(C) /\ Len(D) = 1 /\ D[1] = Delim /\ Len(f) \in Nat
  BY <1>2, LenProperties DEF Alphabet
<1>4. PICK a, b : a = c + Len(D) /\ b = (a + 1) + Len(Escaped(s))
  OBVIOUS
<1>5. Holds(f, c, D)
  <2>1. Field(C, f, c, D, s, a, b)
    BY <1>1, <1>2, <1>3, <1>4 DEF Field
  <2>2. InQuotes(f, c, D, s, a, b)
    BY ONLY Alphabet(C), <2>1, PieceHolds
  <2> QED
    BY <2>2 DEF InQuotes
<1>6. a = c + 1 /\ a \in Nat /\ c < Len(f) /\ c + 1 \in 1..Len(f) /\ f[c + 1] = Delim
  <2>1. c + 1 <= Len(f) /\ f[c + 1] = Delim
    BY <1>3, <1>5 DEF Holds
  <2> QED
    BY <1>1, <1>3, <1>4, <2>1
<1>7. c + 1 \in Separators(f, Delim) /\ c + 1 \notin Separators(f, Newline)
  <2>1. DOMAIN f = 1..Len(f)
    BY LenProperties
  <2> QED
    BY <1>1, <1>6, <2>1, Differ DEF Separators
<1>8. Tokenized(f, c + 1, l, c + 1, rs, Append(q, t), <<>>, FALSE)
  <2>1. Tokenized(f, c + 1, l, c + 1, rs, Append(q, Trimmed(t)), <<>>, FALSE)
    BY ONLY f \in Seq(X), <1>1, <1>6, <1>7, NextDelim
  <2> QED
    BY <2>1
<1>9. ~Inside(f, (c + 1) + 1)
  <2>1. c + 1 \in Nat \ {0}
    BY <1>1
  <2> QED
    BY <1>1, <1>6, <2>1, InsideNext, Differ
<1>10. PICK p : p = Append(q, t)
  OBVIOUS
<1>11. /\ Alphabet(C) /\ D \in Seq(C) /\ s \in Seq(C) /\ \A k \in 1..Len(s) : s[k] # Return
       /\ f \in Seq(X) /\ c \in Nat /\ Holds(f, c, PieceOf(D, s)) /\ a = c + Len(D)
       /\ Tokenized(f, a, l, a, rs, p, <<>>, FALSE) /\ ~Inside(f, a + 1)
       /\ e = c + Len(PieceOf(D, s))
  BY <1>1, <1>2, <1>3, <1>4, <1>6, <1>8, <1>9, <1>10
<1>12. e \in Nat /\ e <= Len(f) /\ Tokenized(f, e, l, a, rs, p, s, TRUE) /\ ~Inside(f, e + 1)
  BY ONLY <1>11, PieceIsRead
<1> QED
  BY <1>10, <1>12 DEF ReadTo

\* A text that quotes keep as it is.
Readable(s) == (\A k \in 1..Len(s) : s[k] # Return) /\ Trimmed(s) = s

\* A row of such texts, with at least one of them.
ReadableRow(C, r) == r \in Seq(Seq(C)) /\ r # <<>> /\ \A j \in 1..Len(r) : Readable(r[j])

\* What is written for the fields of a row.
Opening(j)  == IF j = 1 THEN <<>> ELSE <<Delim>>
PiecesOf(r) == [j \in DOMAIN r |-> PieceOf(Opening(j), r[j])]

LEMMA RowPieces ==
  ASSUME NEW C, Alphabet(C), NEW r, r \in Seq(Seq(C))
  PROVE  /\ PiecesOf(r) \in Seq(Seq(C)) /\ Len(PiecesOf(r)) = Len(r)
         /\ \A j \in 1..Len(r) : /\ r[j] \in Seq(C) /\ Opening(j) \in Seq(C)
                                 /\ PiecesOf(r)[j] = PieceOf(Opening(j), r[j])
         /\ WrittenRow(r) = FlattenSeq(PiecesOf(r))
         /\ WrittenRow(r) \in Seq(C)
<1>1. PICK n : n = Len(r) /\ n \in Nat /\ DOMAIN r = 1..n /\ \A j \in 1..n : r[j] \in Seq(C)
  BY LenProperties, ElementOfSeq
<1>2. \A j \in 1..n : Opening(j) \in Seq(C)
  BY DEF Opening, Alphabet
<1>3. ASSUME NEW j \in 1..n PROVE PieceOf(Opening(j), r[j]) \in Seq(C)
  BY <1>1, <1>2, PieceType
<1>4. PICK g : g = PiecesOf(r)
  OBVIOUS
<1>5. g \in [1..n -> Seq(C)] /\ \A j \in 1..n : g[j] = PieceOf(Opening(j), r[j])
  BY <1>1, <1>3, <1>4 DEF PiecesOf
<1>6. g \in Seq(Seq(C)) /\ Len(g) = n
  BY <1>1, <1>5, IsSequence
<1>7. WrittenRow(r) = FlattenSeq(g)
  BY <1>4, Zenon DEF WrittenRow, PiecesOf, PieceOf, Opening
<1>8. FlattenSeq(g) \in Seq(C)
  BY <1>6, FlattenType
<1> QED
  BY <1>1, <1>2, <1>4, <1>5, <1>6, <1>7, <1>8

\* A row is read as it was, up to its last field, which is still open.
LEMMA RowIsRead ==
  ASSUME NEW C, Alphabet(C), NEW r, ReadableRow(C, r),
         NEW X, NEW f \in Seq(X), NEW c, c \in Nat, Holds(f, c, WrittenRow(r)),
         NEW rs, Tokenized(f, c, c, c, rs, <<>>, <<>>, FALSE), ~Inside(f, c + 1),
         NEW e, e = c + Len(WrittenRow(r)), NEW m, m = Len(r) - 1
  PROVE  /\ m \in Nat /\ Append(SubSeq(r, 1, m), Trimmed(r[m + 1])) = r
         /\ ReadTo(f, e, c, rs, SubSeq(r, 1, m), r[m + 1])
<1>1. /\ r \in Seq(Seq(C)) /\ \A j \in 1..Len(r) : Readable(r[j])
      /\ m \in Nat /\ m + 1 = Len(r) /\ Len(f) \in Nat
  <2>1. r \in Seq(Seq(C)) /\ r # <<>> /\ \A j \in 1..Len(r) : Readable(r[j])
    BY DEF ReadableRow
  <2>2. Len(r) \in Nat /\ Len(r) # 0
    BY <2>1, LenProperties, EmptySeq
  <2>3. Len(f) \in Nat
    BY LenProperties
  <2> QED
    BY <2>1, <2>2, <2>3
<1>2. PICK g : /\ g = PiecesOf(r) /\ g \in Seq(Seq(C)) /\ Len(g) = m + 1
               /\ \A j \in 1..(m + 1) : /\ r[j] \in Seq(C) /\ Opening(j) \in Seq(C)
                                        /\ g[j] = PieceOf(Opening(j), r[j])
               /\ WrittenRow(r) = FlattenSeq(g)
  BY <1>1, RowPieces
<1>3. PICK P : Ends(P, g)
  BY <1>2, EndsExist
<1>4. /\ Len(FlattenSeq(g)) = P[m + 1]
      /\ \A i \in 1..(m + 1) : /\ P[i - 1] \in Nat /\ P[i] = P[i - 1] + Len(g[i])
                               /\ Holds(f, c + P[i - 1], g[i])
  <2>1. Holds(f, c, FlattenSeq(g))
    BY <1>2
  <2>2. \A i \in 1..Len(g) : /\ P[i - 1] \in Nat /\ P[i] = P[i - 1] + Len(g[i])
                             /\ Holds(f, c + P[i - 1], g[i])
    BY <1>1, <1>2, <1>3, <2>1, HoldsParts
  <2>3. Len(FlattenSeq(g)) = P[Len(g)]
    BY <1>2, <1>3, FlattenPlaces
  <2> QED
    BY <1>2, <2>2, <2>3
<1>5. P[0] = 0 /\ \A i \in 0..(m + 1) : P[i] \in Nat
  BY <1>2, <1>3 DEF Ends
<1> DEFINE T == {k \in Nat : k <= m => ReadTo(f, c + P[k + 1], c, rs, SubSeq(r, 1, k), r[k + 1])}
<1>6. 0 \in T
  <2>1. PICK D, s, h : D = <<>> /\ s = r[1] /\ h = c + P[1]
    OBVIOUS
  <2>2. /\ D = Opening(1) /\ D \in Seq(C) /\ Len(D) = 0 /\ s \in Seq(C)
        /\ \A k \in 1..Len(s) : s[k] # Return
    <3>1. 1 \in 1..(m + 1) /\ m + 1 = Len(r)
      BY <1>1
    <3> QED
      BY <1>1, <1>2, <2>1, <3>1 DEF Readable, Opening
  <2>3. Holds(f, c, PieceOf(D, s)) /\ h = c + Len(PieceOf(D, s))
    <3>1. 1 \in 1..(m + 1) /\ 1 - 1 = 0 /\ c + 0 = c
      BY <1>1
    <3>2. g[1] = PieceOf(D, s)
      BY <1>2, <2>1, <2>2, <3>1
    <3>3. Holds(f, c + P[0], g[1]) /\ P[1] = P[0] + Len(g[1]) /\ P[1] \in Nat
      BY <1>4, <1>5, <3>1
    <3> QED
      BY <1>5, <2>1, <3>1, <3>2, <3>3
  <2>4. c = c + Len(D)
    <3>1. Len(D) = 0
      BY <2>2
    <3> QED
      BY ONLY c \in Nat, <3>1
  <2>5. h \in Nat /\ h <= Len(f) /\ Tokenized(f, h, c, c, rs, <<>>, s, TRUE) /\ ~Inside(f, h + 1)
    BY ONLY Alphabet(C), f \in Seq(X), c \in Nat, ~Inside(f, c + 1),
       Tokenized(f, c, c, c, rs, <<>>, <<>>, FALSE), <2>2, <2>3, <2>4, PieceIsRead
  <2>6. SubSeq(r, 1, 0) = <<>> /\ 0 + 1 = 1
    BY <1>1, FirstOnes
  <2>7. ReadTo(f, h, c, rs, <<>>, s)
    BY <2>5 DEF ReadTo
  <2> QED
    BY <2>1, <2>6, <2>7
<1>7. ASSUME NEW k \in Nat, k \in T PROVE k + 1 \in T
  <2> SUFFICES ASSUME k + 1 <= m
               PROVE  ReadTo(f, c + P[(k + 1) + 1], c, rs, SubSeq(r, 1, k + 1), r[(k + 1) + 1])
    OBVIOUS
  <2>1. PICK i : /\ i = (k + 1) + 1 /\ i \in 1..(m + 1) /\ i - 1 = k + 1 /\ i # 1
                 /\ k + 1 \in 1..(m + 1) /\ k <= m /\ (k + 1) - 1 = k /\ i \in 1..Len(r)
                 /\ k + 1 \in 1..Len(r)
    <3>1. /\ (k + 1) + 1 \in 1..(m + 1) /\ ((k + 1) + 1) - 1 = k + 1 /\ (k + 1) + 1 # 1
          /\ k + 1 \in 1..(m + 1) /\ k <= m /\ (k + 1) - 1 = k
      BY <1>1
    <3> QED
      BY <1>1, <3>1
  <2>2. PICK b, h, q, t, s : /\ b = c + P[k + 1] /\ h = c + P[i] /\ q = SubSeq(r, 1, k)
                             /\ t = r[k + 1] /\ s = r[i]
    OBVIOUS
  <2>3. ReadTo(f, b, c, rs, q, t)
    BY <1>7, <2>1, <2>2
  <2>4. s \in Seq(C) /\ Trimmed(t) = t /\ \A j \in 1..Len(s) : s[j] # Return
    BY <1>1, <1>2, <2>1, <2>2 DEF Readable
  <2>5. Holds(f, b, PieceOf(<<Delim>>, s)) /\ h = b + Len(PieceOf(<<Delim>>, s))
    <3>1. g[i] = PieceOf(<<Delim>>, s)
      BY <1>2, <2>1, <2>2 DEF Opening
    <3>2. Holds(f, c + P[k + 1], g[i]) /\ P[i] = P[k + 1] + Len(g[i])
      BY <1>4, <2>1
    <3>3. P[i] \in Nat /\ P[k + 1] \in Nat /\ Len(g[i]) \in Nat
      <4>1. g[i] \in Seq(C)
        BY <1>2, <2>1, ElementOfSeq
      <4>2. i \in 0..(m + 1) /\ k + 1 \in 0..(m + 1)
        BY <1>1, <2>1
      <4> QED
        BY <1>5, <4>1, <4>2, LenProperties
    <3>4. h = b + Len(g[i])
      BY ONLY c \in Nat, <2>2, <3>2, <3>3, SMTT(30)
    <3> QED
      BY <2>2, <3>1, <3>2, <3>4
  <2>6. ReadTo(f, h, c, rs, Append(q, t), s)
    BY ONLY Alphabet(C), f \in Seq(X), <2>3, <2>4, <2>5, FieldIsRead
  <2>7. Append(q, t) = SubSeq(r, 1, k + 1)
    BY <1>1, <2>1, <2>2, FirstOnes
  <2> QED
    BY <2>1, <2>2, <2>6, <2>7
<1>8. m \in T
  <2> HIDE DEF T
  <2>1. \A k \in Nat : k \in T
    BY <1>6, <1>7, SetInduction
  <2> QED
    BY <1>1, <2>1
<1>9. ReadTo(f, c + P[m + 1], c, rs, SubSeq(r, 1, m), r[m + 1])
  <2>1. m <= m
    BY <1>1
  <2> QED
    BY <1>8, <2>1, Zenon
<1>10. Append(SubSeq(r, 1, m), Trimmed(r[m + 1])) = r
  <2>1. m + 1 \in 1..Len(r) /\ (m + 1) - 1 = m
    BY <1>1
  <2>2. SubSeq(r, 1, m + 1) = Append(SubSeq(r, 1, m), r[m + 1])
    BY <1>1, <2>1, FirstOnes
  <2>3. SubSeq(r, 1, m + 1) = r
    BY <1>1, SubSeqFull
  <2>4. Trimmed(r[m + 1]) = r[m + 1]
    BY <1>1, <2>1 DEF Readable
  <2> QED
    BY <2>2, <2>3, <2>4
<1> QED
  BY <1>1, <1>2, <1>4, <1>9, <1>10

\* The characters up to c are the lines rs.
Begun(f, c, rs) ==
  c \in Nat /\ Tokenized(f, c, c, c, rs, <<>>, <<>>, FALSE) /\ ~Inside(f, c + 1)

LineOf(r) == WrittenRow(r) \o <<Newline>>

\* A row and its newline.
LEMMA LineIsRead ==
  ASSUME NEW C, Alphabet(C), NEW r, ReadableRow(C, r), NEW X, NEW f \in Seq(X), NEW c,
         NEW rs, Begun(f, c, rs), Holds(f, c, LineOf(r)), NEW e, e = c + Len(LineOf(r))
  PROVE  Begun(f, e, Append(rs, r))
<1>1. c \in Nat /\ Tokenized(f, c, c, c, rs, <<>>, <<>>, FALSE) /\ ~Inside(f, c + 1)
  BY DEF Begun
<1>2. PICK x, y, z : x = WrittenRow(r) /\ y = <<Newline>> /\ z = x \o y
  OBVIOUS
<1>3. y \in Seq(C) /\ Len(y) = 1 /\ y[1] = Newline /\ Len(f) \in Nat
  BY <1>2, LenProperties DEF Alphabet
<1>4. InTurn(C, f, c, x, y, z)
  <2>1. r \in Seq(Seq(C))
    BY DEF ReadableRow
  <2>2. x \in Seq(C)
    BY <1>2, <2>1, RowPieces
  <2>3. Joined(C, f, c, x, y, z)
    BY <1>1, <1>2, <1>3, <2>2 DEF Joined, LineOf
  <2> QED
    BY ONLY <2>3, HoldsBoth
<1>5. PICK a, m : a = c + Len(x) /\ m = Len(r) - 1
  OBVIOUS
<1>6. /\ Append(SubSeq(r, 1, m), Trimmed(r[m + 1])) = r
      /\ ReadTo(f, a, c, rs, SubSeq(r, 1, m), r[m + 1])
  <2>1. Holds(f, c, WrittenRow(r)) /\ a = c + Len(WrittenRow(r)) /\ m = Len(r) - 1
    BY <1>2, <1>4, <1>5 DEF InTurn
  <2> QED
    BY ONLY Alphabet(C), ReadableRow(C, r), f \in Seq(X), <1>1, <2>1, RowIsRead
<1>7. PICK q, t : q = SubSeq(r, 1, m) /\ t = r[m + 1]
  OBVIOUS
<1>8. PICK d : a \in Nat /\ ~Inside(f, a + 1) /\ Tokenized(f, a, c, d, rs, q, t, TRUE)
  BY <1>6, <1>7 DEF ReadTo
<1>9. e = a + 1 /\ e \in Nat /\ a < Len(f) /\ a + 1 \in 1..Len(f) /\ f[a + 1] = Newline
  <2>1. a + 1 <= Len(f) /\ f[a + 1] = Newline
    BY <1>3, <1>4, <1>5 DEF Holds, InTurn
  <2>2. Len(z) = Len(x) + 1 /\ Len(x) \in Nat /\ e = c + Len(z)
    BY <1>2, <1>3, <1>4 DEF InTurn, LineOf
  <2>3. e = a + 1
    BY ONLY <1>1, <1>5, <2>2
  <2> QED
    BY ONLY <1>3, <1>8, <2>1, <2>3
<1>10. a + 1 \in Separators(f, Newline) /\ a + 1 \notin Separators(f, Delim)
  <2>1. DOMAIN f = 1..Len(f)
    BY LenProperties
  <2> QED
    BY <1>8, <1>9, <2>1, Differ DEF Separators
<1>11. Tokenized(f, a + 1, a + 1, a + 1, Append(rs, Append(q, Trimmed(t))), <<>>, <<>>, FALSE)
  BY ONLY f \in Seq(X), <1>8, <1>9, <1>10, NextLine
<1>12. ~Inside(f, (a + 1) + 1)
  <2>1. a + 1 \in Nat \ {0}
    BY <1>8
  <2> QED
    BY <1>8, <1>9, <2>1, InsideNext, Differ
<1>13. Append(q, Trimmed(t)) = r
  BY <1>6, <1>7
<1> QED
  BY <1>9, <1>11, <1>12, <1>13 DEF Begun

\* A table of such rows.
ReadableTable(C, t) == t \in Seq(Seq(Seq(C))) /\ \A i \in 1..Len(t) : ReadableRow(C, t[i])

LinesWritten(t) == [i \in DOMAIN t |-> LineOf(t[i])]

\* The lines of what is written for a table are its rows.
LEMMA TableIsRead ==
  ASSUME NEW C, Alphabet(C), NEW t, ReadableTable(C, t), NEW X, NEW f \in Seq(X), f = Written(t)
  PROVE  Lines(f) = t
<1>1. PICK n : /\ n = Len(t) /\ n \in Nat /\ DOMAIN t = 1..n /\ t \in Seq(Seq(Seq(C)))
               /\ \A i \in 1..n : ReadableRow(C, t[i])
  BY LenProperties DEF ReadableTable
<1>2. PICK g : g = LinesWritten(t)
  OBVIOUS
<1>3. ASSUME NEW i \in 1..n PROVE LineOf(t[i]) \in Seq(C)
  <2>1. t[i] \in Seq(Seq(C))
    BY <1>1 DEF ReadableRow
  <2>2. PICK x, y : x = WrittenRow(t[i]) /\ y = <<Newline>> /\ x \in Seq(C) /\ y \in Seq(C)
    <3>1. WrittenRow(t[i]) \in Seq(C)
      BY <2>1, RowPieces
    <3>2. <<Newline>> \in Seq(C)
      BY DEF Alphabet
    <3> QED
      BY <3>1, <3>2
  <2> QED
    BY <2>2, ConcatProperties DEF LineOf
<1>4. g \in [1..n -> Seq(C)] /\ \A i \in 1..n : g[i] = LineOf(t[i])
  BY <1>1, <1>2, <1>3 DEF LinesWritten
<1>5. g \in Seq(Seq(C)) /\ Len(g) = n
  BY <1>1, <1>4, IsSequence
<1>6. f = FlattenSeq(g)
  BY <1>2, Zenon DEF Written, LinesWritten, LineOf
<1>7. PICK P : Ends(P, g)
  BY <1>5, EndsExist
<1>8. /\ Len(f) = P[n] /\ Len(f) \in Nat
      /\ \A i \in 1..n : /\ P[i - 1] \in Nat /\ P[i] = P[i - 1] + Len(g[i])
                         /\ Holds(f, P[i - 1], g[i])
  <2>1. Len(f) \in Nat /\ Holds(f, 0, f)
    <3>1. Len(f) \in Nat /\ 0 + Len(f) <= Len(f) /\ \A i \in 1..Len(f) : 0 + i = i
      BY LenProperties
    <3> QED
      BY <3>1 DEF Holds
  <2>2. 0 \in Nat /\ Holds(f, 0, FlattenSeq(g))
    BY <1>6, <2>1
  <2>3. \A i \in 1..Len(g) : /\ P[i - 1] \in Nat /\ P[i] = P[i - 1] + Len(g[i])
                             /\ Holds(f, 0 + P[i - 1], g[i])
    BY <1>5, <1>7, <2>1, <2>2, HoldsParts
  <2>4. Len(f) = P[Len(g)]
    BY <1>5, <1>6, <1>7, FlattenPlaces
  <2>5. \A i \in 1..n : 0 + P[i - 1] = P[i - 1]
    BY <1>5, <2>3
  <2> QED
    BY <1>5, <2>1, <2>3, <2>4, <2>5
<1>9. P[0] = 0
  BY <1>7 DEF Ends
<1> DEFINE T == {k \in Nat : k <= n => Begun(f, P[k], SubSeq(t, 1, k))}
<1>10. 0 \in T
  <2>1. Begun(f, 0, <<>>)
    <3>1. 0 \in Nat /\ 0 + 1 = 1
      OBVIOUS
    <3>2. Tokenized(f, 0, 0, 0, <<>>, <<>>, <<>>, FALSE)
      BY TokenizedFirst
    <3>3. ~Inside(f, 1)
      BY InsideNext
    <3> QED
      BY ONLY <3>1, <3>2, <3>3 DEF Begun
  <2>2. SubSeq(t, 1, 0) = <<>>
    BY <1>1, FirstOnes
  <2> QED
    BY <1>9, <2>1, <2>2
<1>11. ASSUME NEW k \in Nat, k \in T PROVE k + 1 \in T
  <2> SUFFICES ASSUME k + 1 <= n PROVE Begun(f, P[k + 1], SubSeq(t, 1, k + 1))
    OBVIOUS
  <2>1. PICK i : i = k + 1 /\ i \in 1..n /\ i - 1 = k /\ k <= n
    <3>1. k + 1 \in 1..n /\ (k + 1) - 1 = k /\ k <= n
      BY <1>1
    <3> QED
      BY ONLY <3>1
  <2>2. PICK c, e, rs, r : c = P[k] /\ e = P[i] /\ rs = SubSeq(t, 1, k) /\ r = t[i]
    OBVIOUS
  <2>3. Begun(f, c, rs) /\ ReadableRow(C, r)
    BY <1>1, <1>11, <2>1, <2>2
  <2>4. Holds(f, c, LineOf(r)) /\ e = c + Len(LineOf(r))
    BY <1>4, <1>8, <2>1, <2>2
  <2>5. Begun(f, e, Append(rs, r))
    BY ONLY Alphabet(C), f \in Seq(X), <2>3, <2>4, LineIsRead
  <2>6. Append(rs, r) = SubSeq(t, 1, i)
    BY <1>1, <2>1, <2>2, FirstOnes
  <2> QED
    BY <2>1, <2>2, <2>5, <2>6
<1>12. n \in T
  <2> HIDE DEF T
  <2>1. \A k \in Nat : k \in T
    BY <1>10, <1>11, SetInduction
  <2> QED
    BY <1>1, <2>1
<1>13. Begun(f, P[n], t)
  <2>1. n <= n
    BY <1>1
  <2>2. Begun(f, P[n], SubSeq(t, 1, n))
    BY <1>12, <2>1, Zenon
  <2>3. SubSeq(t, 1, n) = t
    BY <1>1, SubSeqFull
  <2> QED
    BY <2>2, <2>3
<1>14. PICK c : c = Len(f) /\ Tokenized(f, c, c, c, t, <<>>, <<>>, FALSE)
  BY <1>8, <1>13 DEF Begun
<1>15. <<>> = Ended(<<>>, <<>>, FALSE)
  BY DEF Ended
<1>16. PICK last : last = <<>> /\ last = Ended(<<>>, <<>>, FALSE)
  BY <1>15
<1>17. Lines(f) = IF last = <<>> THEN t ELSE Append(t, last)
  BY ONLY f \in Seq(X), <1>14, <1>16, AtEnd, ZenonT(30)
<1> QED
  BY <1>16, <1>17

\* A sequence is over the set that its elements are in.
LEMMA SequenceOver ==
  ASSUME NEW A, NEW s \in Seq(A), NEW B, \A i \in 1..Len(s) : s[i] \in B
  PROVE  s \in Seq(B)
<1>1. Len(s) \in Nat /\ s \in [1..Len(s) -> B]
  <2>1. Len(s) \in Nat /\ DOMAIN s = 1..Len(s) /\ s = [i \in 1..Len(s) |-> s[i]]
    BY LenProperties
  <2> QED
    BY <2>1
<1> QED
  BY <1>1, IsSequence

\* The tables have such rows.
LEMMA TablesAreReadable ==
  ASSUME NEW t \in Tables
  PROVE  /\ \E C : Alphabet(C) /\ ReadableTable(C, t)
         /\ \A i \in 1..Len(t) : Len(t[i]) = Len(t[1])
<1>1. PICK A, C : /\ A = UNION {Range(u) : u \in TableTexts}
                  /\ C = A \cup {Quote, Delim, Newline}
  OBVIOUS
<1>2. /\ t \in Seq(Seq(TableTexts))
      /\ \A i \in DOMAIN t : t[i] # <<>> /\ Len(t[i]) = Len(t[1])
  BY TablesAssumption
<1>3. PICK n : n = Len(t) /\ n \in Nat /\ DOMAIN t = 1..n
  BY <1>2, LenProperties
<1>4. ASSUME NEW s \in TableTexts
      PROVE  s \in Seq(C) /\ Readable(s)
  <2>1. s \in Seq(A) /\ Return \notin Range(s) /\ (s # <<>> => s[Len(s)] \notin Whitespace)
    <3>1. /\ s \in Seq(UNION {Range(u) : u \in TableTexts}) /\ Return \notin Range(s)
          /\ s # <<>> => s[Len(s)] \notin Whitespace
      BY TablesAssumption, Zenon
    <3> QED
      BY <1>1, <3>1
  <2>2. DOMAIN s = 1..Len(s) /\ \A k \in 1..Len(s) : s[k] \in A
    BY <2>1, LenProperties, ElementOfSeq
  <2>3. \A k \in 1..Len(s) : s[k] \in C /\ s[k] # Return
    BY <1>1, <2>1, <2>2 DEF Range
  <2>4. s \in Seq(C)
    BY <2>1, <2>3, SequenceOver
  <2>5. Trimmed(s) = s
    BY <2>1, TrimmedIs
  <2> QED
    BY <2>3, <2>4, <2>5 DEF Readable
<1>5. ASSUME NEW i \in 1..n
      PROVE  ReadableRow(C, t[i])
  <2>1. PICK r : r = t[i] /\ r \in Seq(TableTexts) /\ r # <<>>
    BY <1>2, <1>3, ElementOfSeq
  <2>2. \A j \in 1..Len(r) : r[j] \in TableTexts
    BY <2>1, ElementOfSeq
  <2>3. \A j \in 1..Len(r) : r[j] \in Seq(C) /\ Readable(r[j])
    BY <1>4, <2>2
  <2>4. r \in Seq(Seq(C))
    BY <2>1, <2>3, SequenceOver
  <2> QED
    BY <2>1, <2>3, <2>4 DEF ReadableRow
<1>6. t \in Seq(Seq(Seq(C)))
  <2>1. \A i \in 1..Len(t) : t[i] \in Seq(Seq(C))
    BY <1>3, <1>5 DEF ReadableRow
  <2> QED
    BY <1>2, <2>1, SequenceOver
<1>7. Alphabet(C) /\ ReadableTable(C, t)
  BY <1>1, <1>3, <1>5, <1>6 DEF Alphabet, ReadableTable
<1> QED
  BY <1>2, <1>3, <1>7

\* A table whose texts are written in quotes, with the quotes in them doubled, is what
\* the calls of ReadRow return from the file, whatever delimiters, newlines, quotes and
\* leading spaces are in the texts and wherever the buffer ends.
THEOREM QuotedTablesAreRead == Spec => []QuotedTablesSurvive
<1>1. IInv => QuotedTablesSurvive
  <2> SUFFICES ASSUME IInv, at \in {"end", "thrown"}, NEW t \in Tables,
                      WrittenTables[t] = file, expected \in {0, Len(t[1])}
               PROVE  at = "end" /\ rows = t
    BY DEF QuotedTablesSurvive
  <2>1. PICK C : Alphabet(C) /\ ReadableTable(C, t)
    BY TablesAreReadable
  <2>2. Lines(file) = t
    <3>1. file \in Seq(Chars) /\ file = Written(t)
      BY Position DEF WrittenTables
    <3> QED
      BY <2>1, <3>1, TableIsRead
  <2>3. at # "thrown"
    <3> SUFFICES ASSUME at = "thrown" PROVE FALSE
      OBVIOUS
    <3>1. PICK n : /\ n \in Nat /\ n < Len(t) /\ expected \notin {0, Len(t[n + 1])}
      BY <2>2 DEF IInv, WrongLine, Stopped
    <3>2. n + 1 \in 1..Len(t)
      <4>1. Len(t) \in Nat
        BY <2>1, LenProperties DEF ReadableTable
      <4> QED
        BY <3>1, <4>1
    <3>3. Len(t[n + 1]) = Len(t[1])
      BY <3>2, TablesAreReadable
    <3> QED
      BY <3>1, <3>3
  <2> QED
    BY <2>2, <2>3 DEF IInv, AllLines
<1> QED
  BY <1>1, Invariant, PTL
=============================================================================
