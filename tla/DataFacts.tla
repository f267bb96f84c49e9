------------------------------- MODULE DataFacts -------------------------------
(***************************************************************************)
(* Facts about data that the proofs of several components use, for data of *)
(* any size: what FlattenSeq and SumFunction return, and that a function   *)
(* defined by recursion over numbers exists.                               *)
(*                                                                         *)
(* A property proved by induction is stated as the set of the numbers that *)
(* have it.                                                                *)
(***************************************************************************)
EXTENDS Integers, SequencesExt, SequenceTheorems, FiniteSetTheorems,
        WellFoundedInduction, TLAPS

\* Every nonempty set of numbers has a least element.
LEMMA LeastNumber ==
  ASSUME NEW T \in SUBSET Nat, T # {}
  PROVE  \E m \in T : \A n \in T : m <= n
<1>1. PICK m \in T : \A n \in T : <<n, m>> \notin OpToRel(<, Nat)
  BY NatLessThanWellFounded, WFMin, Zenon
<1>2. \A n \in T : ~(n < m)
  BY <1>1 DEF OpToRel
<1> QED
  BY <1>2

\* Induction, for a property given as the set of the numbers that have it.
LEMMA SetInduction ==
  ASSUME NEW T, 0 \in T, \A n \in Nat : n \in T => n + 1 \in T
  PROVE  \A n \in Nat : n \in T
<1> SUFFICES ASSUME Nat \ T # {} PROVE FALSE
  OBVIOUS
<1>1. PICK m \in Nat \ T : \A n \in Nat \ T : m <= n
  BY LeastNumber
<1>2. m - 1 \in Nat /\ m - 1 \notin Nat \ T
  BY <1>1
<1> QED
  BY <1>1, <1>2

\* A function on the first numbers is a sequence.
LEMMA IsSequence ==
  ASSUME NEW S, NEW n \in Nat, NEW p \in [1..n -> S]
  PROVE  p \in Seq(S) /\ Len(p) = n /\ DOMAIN p = 1..n
<1>1. p \in Seq(S)
  BY SeqDef
<1>2. DOMAIN p = 1..n /\ Len(p) \in Nat /\ DOMAIN p = 1..Len(p)
  BY <1>1, LenProperties
<1> QED
  BY <1>1, <1>2

-----------------------------------------------------------------------------
(* FlattenSeq. *)

\* The prefixes of a flattened sequence: what F[i] is for a sequence s.
Flattens(F, s, n) ==
  /\ F = [i \in 1..n |-> F[i]]
  /\ n > 0 => F[1] = s[1]
  /\ \A i \in 1..n : i < n => F[i + 1] = F[i] \o s[i + 1]

\* There is such a function for every sequence and every length.
LEMMA FlattensExists ==
  ASSUME NEW s, NEW n \in Nat
  PROVE  \E F : Flattens(F, s, n)
<1> DEFINE T == {k \in Nat : \E F : Flattens(F, s, k)}
<1>1. 0 \in T
  <2>1. Flattens([i \in 1..0 |-> 0], s, 0)
    BY DEF Flattens
  <2> QED
    BY <2>1
<1>2. ASSUME NEW k \in Nat, k \in T
      PROVE  k + 1 \in T
  <2>1. PICK F : Flattens(F, s, k)
    BY <1>2
  <2>2. PICK v : v = IF k = 0 THEN s[1] ELSE F[k] \o s[k + 1]
    OBVIOUS
  <2> DEFINE G == [i \in 1..(k + 1) |-> IF i \in 1..k THEN F[i] ELSE v]
  <2>3. G = [i \in 1..(k + 1) |-> G[i]]
    OBVIOUS
  <2>4. \A i \in 1..k : G[i] = F[i]
    OBVIOUS
  <2>5. G[k + 1] = v
    OBVIOUS
  <2> HIDE DEF G
  <2>6. G[1] = s[1]
    <3>1. CASE k = 0
      BY <2>2, <2>5, <3>1
    <3>2. CASE k > 0
      <4>1. F[1] = s[1]
        BY <2>1, <3>2 DEF Flattens
      <4> QED
        BY <2>4, <3>2, <4>1
    <3> QED
      BY <3>1, <3>2
  <2>7. ASSUME NEW i \in 1..(k + 1), i < k + 1
        PROVE  G[i + 1] = G[i] \o s[i + 1]
    <3>1. CASE i < k
      <4>1. i \in 1..k /\ i + 1 \in 1..k
        BY <3>1
      <4>2. F[i + 1] = F[i] \o s[i + 1]
        BY <2>1, <3>1, <4>1 DEF Flattens
      <4>3. G[i + 1] = F[i + 1] /\ G[i] = F[i]
        BY <2>4, <4>1
      <4> QED
        BY ONLY <4>2, <4>3
    <3>2. CASE i = k
      <4>1. k # 0 /\ k \in 1..k
        BY <3>2
      <4>2. v = F[k] \o s[k + 1]
        BY ONLY <2>2, <4>1, Zenon
      <4>3. G[k] = F[k]
        BY <2>4, <4>1
      <4> QED
        BY ONLY <2>5, <3>2, <4>2, <4>3, Zenon
    <3>3. i < k \/ i = k
      BY <2>7
    <3> QED
      BY ONLY <3>1, <3>2, <3>3, Zenon
  <2>8. Flattens(G, s, k + 1)
    BY <2>3, <2>6, <2>7, Zenon DEF Flattens
  <2> QED
    BY <2>8
<1> HIDE DEF T
<1>3. \A k \in Nat : k \in T
  BY <1>1, <1>2, SetInduction
<1> QED
  BY <1>3 DEF T

\* Two sequences have the same first m elements.
SameUpTo(m, s, t) == \A i \in 1..m : s[i] = t[i]

\* It depends on the first elements of the sequence alone.
LEMMA FlattensUnique ==
  ASSUME NEW m \in Nat, NEW n \in Nat, m <= n, NEW s, NEW t, NEW F, NEW G,
         SameUpTo(m, s, t), Flattens(F, s, m), Flattens(G, t, n)
  PROVE  SameUpTo(m, F, G)
<1> USE DEF SameUpTo
<1> DEFINE T == {k \in Nat : k \in 1..m => F[k] = G[k]}
<1>1. 0 \in T
  OBVIOUS
<1>2. ASSUME NEW k \in Nat, k \in T
      PROVE  k + 1 \in T
  <2> SUFFICES ASSUME k + 1 \in 1..m
               PROVE  F[k + 1] = G[k + 1]
    OBVIOUS
  <2>1. CASE k = 0
    BY <2>1 DEF Flattens
  <2>2. CASE k # 0
    <3>1. k \in 1..m /\ k < m /\ k \in 1..n /\ k < n
      BY <2>2
    <3>2. F[k + 1] = F[k] \o s[k + 1]
      BY <3>1 DEF Flattens
    <3>3. G[k + 1] = G[k] \o t[k + 1]
      BY <3>1 DEF Flattens
    <3>4. F[k] = G[k] /\ s[k + 1] = t[k + 1]
      BY <1>2, <3>1
    <3> QED
      BY ONLY <3>2, <3>3, <3>4
  <2> QED
    BY <2>1, <2>2
<1> HIDE DEF T
<1>3. \A k \in Nat : k \in T
  BY <1>1, <1>2, SetInduction
<1> QED
  BY <1>3 DEF T

\* FlattenSeq, whose definition chooses such a function, is its last value.
LEMMA FlattenIs ==
  ASSUME NEW s, Len(s) \in Nat \ {0}, NEW F, Flattens(F, s, Len(s))
  PROVE  FlattenSeq(s) = F[Len(s)]
<1> DEFINE n == Len(s)
           Is(G) == G = [i \in 1..n |-> IF i = 1 THEN s[i] ELSE G[i - 1] \o s[i]]
           H == CHOOSE G : Is(G)
<1>1. Is(F)
  <2>1. \A i \in 1..n : F[i] = IF i = 1 THEN s[i] ELSE F[i - 1] \o s[i]
    <3> TAKE i \in 1..n
    <3>1. CASE i = 1
      BY <3>1 DEF Flattens
    <3>2. CASE i # 1
      <4>1. PICK j : j = i - 1
        OBVIOUS
      <4>2. j \in 1..n /\ j < n /\ i = j + 1
        BY <3>2, <4>1
      <4>3. F[j + 1] = F[j] \o s[j + 1]
        BY <4>2, Zenon DEF Flattens
      <4> QED
        BY <3>2, <4>1, <4>2, <4>3
    <3> QED
      BY <3>1, <3>2
  <2>2. F = [i \in 1..n |-> F[i]]
    BY DEF Flattens
  <2> QED
    BY <2>1, <2>2, Zenon
<1>2. Is(H)
  BY <1>1, Zenon
<1> HIDE DEF H
<1>3. Flattens(H, s, n)
  <2>1. H = [i \in 1..n |-> H[i]]
    BY <1>2
  <2>2. \A i \in 1..n : H[i] = IF i = 1 THEN s[i] ELSE H[i - 1] \o s[i]
    BY <1>2, Zenon
  <2>3. H[1] = s[1]
    BY <2>2
  <2>4. ASSUME NEW i \in 1..n, i < n
        PROVE  H[i + 1] = H[i] \o s[i + 1]
    <3>1. i + 1 \in 1..n /\ i + 1 # 1 /\ (i + 1) - 1 = i
      BY <2>4
    <3>2. H[i + 1] = H[(i + 1) - 1] \o s[i + 1]
      BY <2>2, <3>1
    <3> QED
      BY <3>1, <3>2
  <2> QED
    BY <2>1, <2>3, <2>4 DEF Flattens
<1>4. H[n] = F[n]
  <2>1. n \in Nat /\ n <= n /\ n \in 1..n /\ SameUpTo(n, s, s)
    BY DEF SameUpTo
  <2>2. SameUpTo(n, H, F)
    BY ONLY <1>3, Flattens(F, s, n), <2>1, FlattensUnique
  <2> QED
    BY <2>1, <2>2 DEF SameUpTo
<1>5. FlattenSeq(s) = H[n]
  BY DEF FlattenSeq, H
<1> QED
  BY <1>4, <1>5

\* Flattening nothing gives nothing.
LEMMA FlattenEmpty == FlattenSeq(<<>>) = <<>>
BY EmptySeq DEF FlattenSeq

\* Flattening sequences over S gives a sequence over S.
LEMMA FlattenType ==
  ASSUME NEW S, NEW s \in Seq(Seq(S))
  PROVE  FlattenSeq(s) \in Seq(S)
<1>1. CASE s = <<>>
  BY <1>1, FlattenEmpty, EmptySeq
<1>2. CASE s # <<>>
  <2>1. Len(s) \in Nat \ {0} /\ \A i \in 1..Len(s) : s[i] \in Seq(S)
    BY <1>2, EmptySeq, ElementOfSeq
  <2>2. PICK F : Flattens(F, s, Len(s))
    BY <2>1, FlattensExists
  <2> DEFINE T == {k \in Nat : k \in 1..Len(s) => F[k] \in Seq(S)}
  <2>3. 0 \in T
    OBVIOUS
  <2>4. ASSUME NEW k \in Nat, k \in T
        PROVE  k + 1 \in T
    <3> SUFFICES ASSUME k + 1 \in 1..Len(s)
                 PROVE  F[k + 1] \in Seq(S)
      OBVIOUS
    <3>1. CASE k = 0
      BY <2>1, <2>2, <3>1 DEF Flattens
    <3>2. CASE k # 0
      <4>1. k \in 1..Len(s) /\ k < Len(s)
        BY <3>2, <2>1
      <4>2. F[k + 1] = F[k] \o s[k + 1]
        BY <2>2, <4>1 DEF Flattens
      <4>3. F[k] \in Seq(S) /\ s[k + 1] \in Seq(S)
        BY <2>1, <2>4, <4>1
      <4> QED
        BY ONLY <4>2, <4>3, ConcatProperties
    <3> QED
      BY <3>1, <3>2
  <2> HIDE DEF T
  <2>5. \A k \in Nat : k \in T
    BY <2>3, <2>4, SetInduction
  <2>6. F[Len(s)] \in Seq(S)
    BY <2>1, <2>5 DEF T
  <2> QED
    BY <2>1, <2>2, <2>6, FlattenIs
<1> QED
  BY <1>1, <1>2

\* One more sequence is put behind the others.
LEMMA FlattenAppend ==
  ASSUME NEW S, NEW s \in Seq(Seq(S)), NEW x \in Seq(S)
  PROVE  FlattenSeq(Append(s, x)) = FlattenSeq(s) \o x
<1>1. PICK t : t = Append(s, x)
  OBVIOUS
<1>2. PICK n : n = Len(s)
  OBVIOUS
<1>3. /\ n \in Nat /\ n + 1 \in Nat \ {0}
      /\ Len(t) = n + 1
      /\ \A i \in 1..n : t[i] = s[i]
      /\ t[n + 1] = x
  BY <1>1, <1>2, LenProperties, AppendProperties
<1>4. PICK G : Flattens(G, t, n + 1)
  BY <1>3, FlattensExists
<1>5. FlattenSeq(t) = G[n + 1]
  BY <1>3, <1>4, FlattenIs
<1>6. CASE n = 0
  <2>1. G[n + 1] = x
    BY <1>3, <1>4, <1>6 DEF Flattens
  <2>2. s = <<>>
    BY <1>2, <1>6, EmptySeq
  <2> QED
    BY <1>1, <1>5, <2>1, <2>2, FlattenEmpty, ConcatEmptySeq
<1>7. CASE n # 0
  <2>1. PICK F : Flattens(F, s, n)
    BY <1>3, FlattensExists
  <2>2. FlattenSeq(s) = F[n]
    BY <1>2, <1>3, <1>7, <2>1, FlattenIs
  <2>3. /\ n \in Nat /\ n + 1 \in Nat /\ n <= n + 1 /\ n < n + 1
        /\ n \in 1..n /\ n \in 1..(n + 1)
        /\ \A i \in 1..n : s[i] = t[i]
    BY <1>3, <1>7
  <2>4. \A i \in 1..n : F[i] = G[i]
    <3>1. PICK m : m = n + 1
      OBVIOUS
    <3>2. m \in Nat /\ n <= m /\ Flattens(G, t, m)
      BY <1>4, <2>3, <3>1
    <3>3. n \in Nat /\ SameUpTo(n, s, t)
      BY <2>3 DEF SameUpTo
    <3>4. SameUpTo(n, F, G)
      BY ONLY <2>1, <3>2, <3>3, FlattensUnique
    <3> QED
      BY <3>4 DEF SameUpTo
  <2>5. G[n + 1] = G[n] \o t[n + 1]
    BY <1>4, <2>3 DEF Flattens
  <2>6. F[n] = G[n]
    BY <2>3, <2>4
  <2> QED
    BY ONLY <1>1, <1>3, <1>5, <2>2, <2>5, <2>6
<1> QED
  BY <1>6, <1>7

\* P has, for each length, where the sequences up to that length end when they are
\* put behind each other.
Ends(P, s) ==
  /\ P \in [0..Len(s) -> Nat]
  /\ P[0] = 0
  /\ \A i \in 1..Len(s) : P[i] = P[i - 1] + Len(s[i])

\* The ends ascend.
LEMMA EndsAscend ==
  ASSUME NEW S, NEW s \in Seq(Seq(S)), NEW P, Ends(P, s)
  PROVE  \A k \in 0..Len(s) : \A i \in 0..k : P[i] <= P[k]
<1> DEFINE T == {k \in Nat : k \in 0..Len(s) => \A i \in 0..k : P[i] <= P[k]}
<1>0. Len(s) \in Nat /\ \A i \in 1..Len(s) : s[i] \in Seq(S) /\ Len(s[i]) \in Nat
  BY ElementOfSeq, LenProperties
<1>1. 0 \in T
  BY DEF Ends
<1>2. ASSUME NEW k \in Nat, k \in T
      PROVE  k + 1 \in T
  <2> SUFFICES ASSUME k + 1 \in 0..Len(s), NEW i \in 0..(k + 1)
               PROVE  P[i] <= P[k + 1]
    OBVIOUS
  <2>1. /\ k \in 0..Len(s) /\ k + 1 \in 1..Len(s)
        /\ P[k] \in Nat /\ P[k + 1] \in Nat /\ Len(s[k + 1]) \in Nat
    <3>1. k \in 0..Len(s) /\ k + 1 \in 1..Len(s)
      BY <1>0
    <3> QED
      BY <1>0, <3>1 DEF Ends
  <2>2. P[k + 1] = P[(k + 1) - 1] + Len(s[k + 1])
    BY <2>1 DEF Ends
  <2>3. P[k + 1] = P[k] + Len(s[k + 1])
    BY <2>2
  <2>4. CASE i = k + 1
    BY <2>1, <2>4
  <2>5. CASE i \in 0..k
    <3>1. i \in 0..Len(s)
      BY <1>0, <2>1, <2>5
    <3>2. P[i] \in Nat /\ P[i] <= P[k]
      BY <1>2, <2>1, <2>5, <3>1 DEF Ends
    <3> QED
      BY <2>1, <2>3, <3>2
  <2> QED
    BY <2>4, <2>5
<1> HIDE DEF T
<1>3. \A k \in Nat : k \in T
  BY <1>1, <1>2, SetInduction
<1> QED
  BY <1>0, <1>3 DEF T

\* Flattening puts element j of sequence i behind the ends of those before it.
LEMMA FlattenPlaces ==
  ASSUME NEW S, NEW s \in Seq(Seq(S)), NEW P, Ends(P, s)
  PROVE  /\ Len(FlattenSeq(s)) = P[Len(s)]
         /\ \A i \in 1..Len(s) : \A j \in 1..Len(s[i]) : FlattenSeq(s)[P[i - 1] + j] = s[i][j]
<1>0. Len(s) \in Nat /\ \A i \in 1..Len(s) : s[i] \in Seq(S) /\ Len(s[i]) \in Nat
  BY ElementOfSeq, LenProperties
<1>1. CASE s = <<>>
  BY <1>1, FlattenEmpty, EmptySeq DEF Ends
<1>2. CASE s # <<>>
  <2>1. Len(s) \in Nat \ {0}
    BY <1>2, EmptySeq
  <2>2. PICK F : Flattens(F, s, Len(s))
    BY <2>1, FlattensExists
  <2> DEFINE Placed(k) == /\ F[k] \in Seq(S)
                          /\ Len(F[k]) = P[k]
                          /\ \A i \in 1..k : \A j \in 1..Len(s[i]) : F[k][P[i - 1] + j] = s[i][j]
             T == {k \in Nat : k \in 1..Len(s) => Placed(k)}
  <2>3. 0 \in T
    OBVIOUS
  <2>4. ASSUME NEW k \in Nat, k \in T
        PROVE  k + 1 \in T
    <3> SUFFICES ASSUME k + 1 \in 1..Len(s)
                 PROVE  Placed(k + 1)
      OBVIOUS
    <3>1. CASE k = 0
      <4>1. F[1] = s[1] /\ P[1] = P[0] + Len(s[1]) /\ P[0] = 0
        <5>1. 1 \in 1..Len(s) /\ 1 - 1 = 0
          BY <2>1
        <5>2. P[1] = P[1 - 1] + Len(s[1])
          BY <5>1 DEF Ends
        <5> QED
          BY <2>1, <2>2, <5>1, <5>2 DEF Flattens, Ends
      <4>2. s[1] \in Seq(S) /\ Len(s[1]) \in Nat
        BY <1>0, <2>1
      <4>3. \A i \in 1..1 : i = 1 /\ i - 1 = 0
        OBVIOUS
      <4>4. \A j \in 1..Len(s[1]) : P[0] + j = j
        BY <4>1, <4>2
      <4>5. Placed(1)
        BY <4>1, <4>2, <4>3, <4>4
      <4> QED
        BY <3>1, <4>5
    <3>2. CASE k # 0
      <4>1. k \in 1..Len(s) /\ k < Len(s) /\ k + 1 \in 1..Len(s) /\ (k + 1) - 1 = k
        BY <3>2, <1>0
      <4>2. F[k + 1] = F[k] \o s[k + 1]
        BY <2>2, <4>1 DEF Flattens
      <4>3. Placed(k) /\ s[k + 1] \in Seq(S)
        BY <1>0, <2>4, <4>1
      <4>4. P[k + 1] = P[k] + Len(s[k + 1])
        BY <4>1 DEF Ends
      <4>5. P[k] \in Nat /\ \A i \in 0..k : P[i] \in Nat /\ P[i] <= P[k]
        <5>1. k \in 0..Len(s) /\ \A i \in 0..k : i \in 0..Len(s)
          BY <1>0, <4>1
        <5>2. \A i \in 0..k : P[i] <= P[k]
          BY <5>1, EndsAscend
        <5> QED
          BY <5>1, <5>2 DEF Ends
      <4>6. /\ F[k + 1] \in Seq(S)
            /\ Len(F[k + 1]) = P[k + 1]
            /\ \A n \in 1..P[k] : F[k + 1][n] = F[k][n]
            /\ \A n \in (P[k] + 1)..P[k + 1] : F[k + 1][n] = s[k + 1][n - P[k]]
        <5>1. PICK x, y, z : x = F[k] /\ y = s[k + 1] /\ z = F[k + 1]
          OBVIOUS
        <5>2. x \in Seq(S) /\ y \in Seq(S) /\ z = x \o y /\ Len(x) = P[k]
              /\ P[k + 1] = Len(x) + Len(y)
          BY <4>2, <4>3, <4>4, <5>1
        <5>3. /\ z \in Seq(S) /\ Len(z) = Len(x) + Len(y)
              /\ \A n \in 1..(Len(x) + Len(y)) : z[n] = IF n <= Len(x) THEN x[n] ELSE y[n - Len(x)]
          BY ONLY <5>2, ConcatProperties
        <5>4. Len(x) \in Nat /\ Len(y) \in Nat
          BY <5>2, LenProperties
        <5>5. /\ \A n \in 1..Len(x) : z[n] = x[n]
              /\ \A n \in (Len(x) + 1)..(Len(x) + Len(y)) : z[n] = y[n - Len(x)]
          BY ONLY <5>3, <5>4
        <5> QED
          BY <5>1, <5>2, <5>3, <5>5
      <4>7. ASSUME NEW i \in 1..(k + 1), NEW j \in 1..Len(s[i])
            PROVE  F[k + 1][P[i - 1] + j] = s[i][j]
        <5>1. CASE i = k + 1
          <6>1. P[i - 1] = P[k] /\ Len(s[k + 1]) \in Nat /\ j \in Nat /\ j >= 1 /\ j <= Len(s[k + 1])
            BY <1>0, <4>1, <5>1
          <6>2. PICK m, p, q, l : m = P[k] + j /\ p = P[k] /\ q = P[k + 1] /\ l = Len(s[k + 1])
            OBVIOUS
          <6>3. m \in (P[k] + 1)..P[k + 1] /\ m - P[k] = j
            <7>1. m = p + j /\ q = p + l /\ p \in Nat /\ l \in Nat /\ j \in Nat /\ j >= 1 /\ j <= l
              BY <4>4, <4>5, <5>1, <6>1, <6>2, Zenon
            <7>2. m \in (p + 1)..q /\ m - p = j
              BY ONLY <7>1
            <7> QED
              BY <6>2, <7>2, Zenon
          <6>4. F[k + 1][m] = s[k + 1][m - P[k]]
            BY <4>6, <6>3
          <6> QED
            BY <5>1, <6>1, <6>2, <6>3, <6>4
        <5>2. CASE i # k + 1
          <6>1. i \in 1..k /\ i - 1 \in 0..k /\ i \in 0..k /\ i \in 1..Len(s)
            BY <4>1, <5>2
          <6>2. P[i] = P[i - 1] + Len(s[i]) /\ Len(s[i]) \in Nat
            BY <1>0, <6>1 DEF Ends
          <6>3. P[i - 1] + j \in 1..P[k]
            <7>1. PICK p, q, l : p = P[i - 1] /\ q = P[k] /\ l = Len(s[i])
              OBVIOUS
            <7>2. p \in Nat /\ q \in Nat /\ l \in Nat /\ p + l <= q /\ j \in 1..l
              BY <4>5, <6>1, <6>2, <7>1
            <7>3. p + j \in 1..q
              BY ONLY <7>2
            <7> QED
              BY <7>1, <7>3, Zenon
          <6>4. F[k][P[i - 1] + j] = s[i][j]
            BY <4>3, <6>1
          <6> QED
            BY <4>6, <6>3, <6>4
        <5> QED
          BY <5>1, <5>2
      <4> QED
        BY <4>6, <4>7
    <3> QED
      BY <3>1, <3>2
  <2> HIDE DEF T
  <2>5. \A k \in Nat : k \in T
    BY <2>3, <2>4, SetInduction
  <2>6. Placed(Len(s))
    BY <2>1, <2>5 DEF T
  <2>7. FlattenSeq(s) = F[Len(s)]
    BY <2>1, <2>2, FlattenIs
  <2> QED
    BY <2>6, <2>7
<1> QED
  BY <1>1, <1>2

-----------------------------------------------------------------------------
(* Counting. *)

\* The first p elements of a sequence are at most p, and p if none is twice.
LEMMA FirstElements ==
  ASSUME NEW s, NEW p \in Nat
  PROVE  /\ IsFiniteSet({s[j] : j \in 1..p})
         /\ Cardinality({s[j] : j \in 1..p}) <= p
         /\ (\A i, j \in 1..p : s[i] = s[j] => i = j) => Cardinality({s[j] : j \in 1..p}) = p
<1> DEFINE T == {s[j] : j \in 1..p}
           f == [j \in 1..p |-> s[j]]
<1>1. IsFiniteSet(1..p) /\ Cardinality(1..p) = p
  BY FS_Interval
<1>2. f \in Surjection(1..p, T)
  BY DEF Surjection
<1>3. (\A i, j \in 1..p : s[i] = s[j] => i = j) => f \in Injection(1..p, T)
  BY DEF Injection, IsInjective
<1> HIDE DEF T, f
<1>4. IsFiniteSet(T) /\ Cardinality(T) <= p
  BY <1>1, <1>2, FS_Surjection
<1>5. f \in Injection(1..p, T) => Cardinality(T) = p
  BY <1>1, <1>2, FS_Surjection
<1> QED
  BY <1>3, <1>4, <1>5 DEF T

-----------------------------------------------------------------------------
(* Recursion over numbers. *)

\* F starts with base, and value i follows value i - 1 as g[i] says.
Recurs(F, n, base, g) == F[0] = base /\ \A i \in 1..n : F[i] = g[i][F[i - 1]]

\* There is such a function.
LEMMA RecursionExists ==
  ASSUME NEW n \in Nat, NEW X, NEW base \in X, NEW g \in [1..n -> [X -> X]]
  PROVE  \E F \in [0..n -> X] : Recurs(F, n, base, g)
<1> USE DEF Recurs
<1> DEFINE Up(F, k) == F[0] = base /\ \A i \in 1..k : F[i] = g[i][F[i - 1]]
           T == {k \in Nat : k <= n => \E F \in [0..k -> X] : Up(F, k)}
<1>1. 0 \in T
  <2>1. [i \in 0..0 |-> base] \in [0..0 -> X] /\ Up([i \in 0..0 |-> base], 0)
    OBVIOUS
  <2> QED
    BY <2>1
<1>2. ASSUME NEW k \in Nat, k \in T
      PROVE  k + 1 \in T
  <2> SUFFICES ASSUME k + 1 <= n
               PROVE  \E F \in [0..(k + 1) -> X] : Up(F, k + 1)
    OBVIOUS
  <2>1. PICK F \in [0..k -> X] : Up(F, k)
    BY <1>2
  <2>2. PICK v \in X : v = g[k + 1][F[k]]
    BY <2>1
  <2> DEFINE G == [i \in 0..(k + 1) |-> IF i \in 0..k THEN F[i] ELSE v]
  <2>3. G \in [0..(k + 1) -> X] /\ G[k + 1] = v /\ \A i \in 0..k : G[i] = F[i]
    BY <2>1
  <2> HIDE DEF G
  <2>4. Up(G, k + 1)
    <3>1. G[0] = base
      BY <2>1, <2>3
    <3>2. \A i \in 1..k : G[i] = g[i][G[i - 1]]
      BY <2>1, <2>3
    <3>3. G[k + 1] = g[k + 1][G[k]]
      BY <2>2, <2>3
    <3> QED
      BY <3>1, <3>2, <3>3
  <2> QED
    BY <2>3, <2>4
<1> HIDE DEF T
<1>3. \A k \in Nat : k \in T
  BY <1>1, <1>2, SetInduction
<1> QED
  BY <1>3 DEF T

-----------------------------------------------------------------------------
(* SumFunction. *)

\* The element that a sum over T adds first.
Chosen(T) == CHOOSE x \in T : TRUE

\* F has the sums of f over the subsets of S: what SumFunction defines by recursion.
IsSum(F, f, S) ==
  F = [T \in SUBSET S |-> IF T = {} THEN 0 ELSE f[Chosen(T)] + F[T \ {Chosen(T)}]]

\* A set without its chosen element.
LEMMA WithoutChosen ==
  ASSUME NEW T, IsFiniteSet(T), T # {}
  PROVE  /\ Chosen(T) \in T
         /\ IsFiniteSet(T \ {Chosen(T)})
         /\ Cardinality(T) \in Nat
         /\ Cardinality(T \ {Chosen(T)}) = Cardinality(T) - 1
         /\ Cardinality(T \ {Chosen(T)}) \in Nat
<1>1. Chosen(T) \in T
  BY DEF Chosen
<1> QED
  BY <1>1, FS_RemoveElement, FS_CardinalityType

\* There is such an F for every finite set.
LEMMA SumExists ==
  ASSUME NEW S, IsFiniteSet(S), NEW f
  PROVE  \E F : IsSum(F, f, S)
<1> DEFINE Value(F, T) == IF T = {} THEN 0 ELSE f[Chosen(T)] + F[T \ {Chosen(T)}]
           Up(F, k) == \A T \in SUBSET S : Cardinality(T) <= k => F[T] = Value(F, T)
           N == {k \in Nat : \E F : Up(F, k)}
<1>0. \A T \in SUBSET S : IsFiniteSet(T) /\ Cardinality(T) \in Nat
  BY FS_Subset, FS_CardinalityType
<1>1. 0 \in N
  <2>1. \A T \in SUBSET S : Cardinality(T) <= 0 => T = {}
    BY <1>0, FS_EmptySet
  <2>2. Up([T \in SUBSET S |-> 0], 0)
    BY <2>1
  <2> QED
    BY <2>2
<1>2. ASSUME NEW k \in Nat, k \in N
      PROVE  k + 1 \in N
  <2>1. PICK F : Up(F, k)
    BY <1>2
  <2> DEFINE G == [T \in SUBSET S |-> Value(F, T)]
  <2>2. ASSUME NEW T \in SUBSET S, Cardinality(T) <= k
        PROVE  G[T] = F[T]
    BY <2>1, <2>2
  <2>3. ASSUME NEW T \in SUBSET S, Cardinality(T) <= k + 1
        PROVE  G[T] = Value(G, T)
    <3>1. CASE T = {}
      BY <3>1
    <3>2. CASE T # {}
      <4>1. PICK U : U = T \ {Chosen(T)}
        OBVIOUS
      <4>2. U \in SUBSET S /\ Cardinality(U) <= k
        BY <1>0, <2>3, <3>2, <4>1, WithoutChosen
      <4>3. G[U] = F[U]
        BY <2>2, <4>2
      <4> QED
        BY <3>2, <4>1, <4>3
    <3> QED
      BY <3>1, <3>2
  <2>4. Up(G, k + 1)
    BY <2>3
  <2> HIDE DEF G, Up
  <2> QED
    BY <2>4
<1> HIDE DEF N
<1>3. \A k \in Nat : k \in N
  BY <1>1, <1>2, SetInduction
<1>4. PICK F : Up(F, Cardinality(S))
  BY <1>0, <1>3 DEF N
<1> DEFINE G == [T \in SUBSET S |-> F[T]]
<1>5. \A T \in SUBSET S : Cardinality(T) <= Cardinality(S)
  BY FS_Subset
<1>6. ASSUME NEW T \in SUBSET S
      PROVE  G[T] = Value(G, T)
  <2>1. T \ {Chosen(T)} \in SUBSET S
    OBVIOUS
  <2> QED
    BY <1>4, <1>5, <2>1
<1>7. IsSum(G, f, S)
  BY <1>6 DEF IsSum
<1> QED
  BY <1>7

\* SumFunction, whose definition chooses such an F, is its value for all of S.
LEMMA SumIs ==
  ASSUME NEW f, IsFiniteSet(DOMAIN f)
  PROVE  \E F : IsSum(F, f, DOMAIN f) /\ SumFunction(f) = F[DOMAIN f]
<1> DEFINE H == CHOOSE F : F = [T \in SUBSET DOMAIN f |->
                                  IF T = {} THEN 0
                                  ELSE f[CHOOSE x \in T : TRUE] + F[T \ {CHOOSE x \in T : TRUE}]]
<1>1. SumFunction(f) = H[DOMAIN f]
  BY DEF SumFunction, SumFunctionOnSet, FoldFunctionOnSet, MapThenFoldSet
<1>2. IsSum(H, f, DOMAIN f)
  <2>1. \E F : F = [T \in SUBSET DOMAIN f |->
                      IF T = {} THEN 0
                      ELSE f[CHOOSE x \in T : TRUE] + F[T \ {CHOOSE x \in T : TRUE}]]
    <3>1. PICK F : IsSum(F, f, DOMAIN f)
      BY SumExists
    <3> QED
      BY <3>1 DEF IsSum, Chosen
  <2> QED
    BY <2>1 DEF IsSum, Chosen
<1> QED
  BY <1>1, <1>2

\* A sum of integers is an integer, and in whatever order they are added.
LEMMA SumStep ==
  ASSUME NEW S, IsFiniteSet(S), NEW f, \A x \in S : f[x] \in Int, NEW F, IsSum(F, f, S)
  PROVE  /\ F[{}] = 0
         /\ \A T \in SUBSET S : F[T] \in Int
         /\ \A T \in SUBSET S : \A p \in S \ T : F[T \cup {p}] = F[T] + f[p]
<1>0. \A T \in SUBSET S : IsFiniteSet(T) /\ Cardinality(T) \in Nat
  BY FS_Subset, FS_CardinalityType
<1>1. /\ F[{}] = 0
      /\ \A T \in SUBSET S : T # {} => F[T] = f[Chosen(T)] + F[T \ {Chosen(T)}]
  <2>1. \A T \in SUBSET S :
          F[T] = IF T = {} THEN 0 ELSE f[Chosen(T)] + F[T \ {Chosen(T)}]
    BY Zenon DEF IsSum
  <2> QED
    BY <2>1
<1> DEFINE N == {k \in Nat : \A T \in SUBSET S : Cardinality(T) = k =>
                   /\ F[T] \in Int
                   /\ \A p \in S \ T : F[T \cup {p}] = F[T] + f[p]}
<1>2. 0 \in N
  <2>1. \A T \in SUBSET S : Cardinality(T) = 0 => T = {}
    BY <1>0, FS_EmptySet
  <2>2. ASSUME NEW p \in S
        PROVE  F[{} \cup {p}] = F[{}] + f[p]
    <3>1. PICK U : U = {p}
      OBVIOUS
    <3>2. U \in SUBSET S /\ U # {} /\ Chosen(U) = p /\ U \ {Chosen(U)} = {}
      BY <3>1 DEF Chosen
    <3>3. F[U] = f[p] + F[{}]
      BY <1>1, <3>2
    <3>4. {} \cup {p} = U /\ f[p] \in Int
      BY <3>1
    <3>5. F[U] = F[{}] + f[p]
      BY ONLY <1>1, <3>3, <3>4
    <3> QED
      BY ONLY <3>4, <3>5, Zenon
  <2> SUFFICES ASSUME NEW T \in SUBSET S, T = {}
               PROVE  /\ F[T] \in Int
                      /\ \A p \in S \ T : F[T \cup {p}] = F[T] + f[p]
    BY <2>1
  <2>3. F[T] \in Int
    BY <1>1
  <2>4. ASSUME NEW p \in S
        PROVE  F[T \cup {p}] = F[T] + f[p]
    BY ONLY <2>2, T = {}, p \in S, Zenon
  <2> QED
    BY <2>3, <2>4
<1>3. ASSUME NEW k \in Nat, k \in N
      PROVE  k + 1 \in N
  <2> SUFFICES ASSUME NEW T \in SUBSET S, Cardinality(T) = k + 1
               PROVE  /\ F[T] \in Int
                      /\ \A p \in S \ T : F[T \cup {p}] = F[T] + f[p]
    OBVIOUS
  <2>1. T # {}
    BY <1>0, FS_EmptySet
  <2>2. F[T] \in Int
    <3>1. PICK U : U = T \ {Chosen(T)}
      OBVIOUS
    <3>2. U \in SUBSET S /\ Cardinality(U) = k /\ Chosen(T) \in S
      BY <1>0, <2>1, <3>1, WithoutChosen
    <3>3. F[U] \in Int
      BY <1>3, <3>2
    <3>4. F[T] = f[Chosen(T)] + F[U]
      BY <1>1, <2>1, <3>1
    <3> QED
      BY <3>2, <3>3, <3>4
  <2>3. ASSUME NEW p \in S \ T
        PROVE  F[T \cup {p}] = F[T] + f[p]
    <3>1. PICK V : V = T \cup {p}
      OBVIOUS
    <3>2. PICK y : y = Chosen(V)
      OBVIOUS
    <3>3. y \in V /\ V \in SUBSET S /\ V # {} /\ F[V] = f[y] + F[V \ {y}]
      <4>1. V \in SUBSET S /\ V # {}
        BY <3>1
      <4>2. y \in V
        BY <3>2, <4>1 DEF Chosen
      <4> QED
        BY <1>1, <3>2, <4>1, <4>2
    <3>4. CASE y = p
      <4>1. V \ {y} = T
        BY <3>1, <3>4
      <4>2. f[p] \in Int
        OBVIOUS
      <4> QED
        <5>1. F[V] = f[p] + F[T]
          BY ONLY <3>3, <3>4, <4>1, Zenon
        <5>2. F[V] = F[T] + f[p]
          BY ONLY <2>2, <4>2, <5>1
        <5> QED
          BY ONLY <3>1, <5>2, Zenon
    <3>5. CASE y # p
      <4>1. PICK U : U = T \ {y}
        OBVIOUS
      <4>2. /\ U \in SUBSET S /\ y \in T /\ y \in S \ U /\ p \in S \ U
            /\ V \ {y} = U \cup {p} /\ T = U \cup {y}
        BY <3>1, <3>3, <3>5, <4>1
      <4>3. Cardinality(U) = k
        <5>1. Cardinality(U) = Cardinality(T) - 1
          BY <1>0, <4>1, <4>2, FS_RemoveElement
        <5> QED
          BY <5>1
      <4>4. F[U] \in Int /\ F[U \cup {p}] = F[U] + f[p] /\ F[U \cup {y}] = F[U] + f[y]
        BY <1>3, <4>2, <4>3
      <4>5. F[V] = f[y] + (F[U] + f[p]) /\ F[T] = F[U] + f[y]
        BY <3>3, <4>2, <4>4
      <4>6. f[y] \in Int /\ f[p] \in Int
        BY <4>2
      <4> QED
        BY ONLY <3>1, <4>4, <4>5, <4>6
    <3> QED
      BY <3>4, <3>5
  <2> QED
    BY <2>2, <2>3
<1> HIDE DEF N
<1>4. \A k \in Nat : k \in N
  BY <1>2, <1>3, SetInduction
<1> QED
  BY <1>0, <1>1, <1>4 DEF N

\* The sum over T depends on the values for T alone.
LEMMA SumAgrees ==
  ASSUME NEW S, IsFiniteSet(S), NEW f, NEW F, IsSum(F, f, S),
         NEW R, NEW g, NEW G, IsSum(G, g, R),
         \A x \in S : x \in R /\ f[x] = g[x]
  PROVE  F[S] = G[S]
<1>0. \A T \in SUBSET S : IsFiniteSet(T) /\ Cardinality(T) \in Nat /\ T \in SUBSET R
  BY FS_Subset, FS_CardinalityType
<1> DEFINE N == {k \in Nat : \A T \in SUBSET S : Cardinality(T) = k => F[T] = G[T]}
<1>1. /\ F[{}] = 0 /\ G[{}] = 0
      /\ \A T \in SUBSET S : T # {} => /\ F[T] = f[Chosen(T)] + F[T \ {Chosen(T)}]
                                       /\ G[T] = g[Chosen(T)] + G[T \ {Chosen(T)}]
  <2>1. \A T \in SUBSET S :
          F[T] = IF T = {} THEN 0 ELSE f[Chosen(T)] + F[T \ {Chosen(T)}]
    BY Zenon DEF IsSum
  <2>2. \A T \in SUBSET R :
          G[T] = IF T = {} THEN 0 ELSE g[Chosen(T)] + G[T \ {Chosen(T)}]
    BY Zenon DEF IsSum
  <2> QED
    BY <1>0, <2>1, <2>2
<1>2. 0 \in N
  BY <1>0, <1>1, FS_EmptySet
<1>3. ASSUME NEW k \in Nat, k \in N
      PROVE  k + 1 \in N
  <2> SUFFICES ASSUME NEW T \in SUBSET S, Cardinality(T) = k + 1
               PROVE  F[T] = G[T]
    OBVIOUS
  <2>1. T # {}
    BY <1>0, FS_EmptySet
  <2>2. PICK U : U = T \ {Chosen(T)}
    OBVIOUS
  <2>3. U \in SUBSET S /\ Cardinality(U) = k /\ Chosen(T) \in S
    BY <1>0, <2>1, <2>2, WithoutChosen
  <2>4. F[U] = G[U] /\ f[Chosen(T)] = g[Chosen(T)]
    BY <1>3, <2>3
  <2> QED
    BY <1>1, <2>1, <2>2, <2>4
<1> HIDE DEF N
<1>4. \A k \in Nat : k \in N
  BY <1>2, <1>3, SetInduction
<1> QED
  BY <1>0, <1>4 DEF N

\* The sum of the values v of the elements of D.
SumOf(v, D) == SumFunction([x \in D |-> v[x]])

\* The sum of no values.
LEMMA SumOfNone == ASSUME NEW v PROVE SumOf(v, {}) = 0
<1> DEFINE f == [x \in {} |-> v[x]]
<1>1. DOMAIN f = {} /\ IsFiniteSet({})
  BY FS_EmptySet
<1>2. PICK F : IsSum(F, f, {}) /\ SumFunction(f) = F[{}]
  BY <1>1, SumIs
<1>3. F[{}] = 0
  BY <1>1, <1>2, SumStep
<1> QED
  BY <1>2, <1>3 DEF SumOf

\* The sum of one value more.
LEMMA SumOfOneMore ==
  ASSUME NEW D, IsFiniteSet(D), NEW p, p \notin D, NEW v,
         \A x \in D \cup {p} : v[x] \in Int
  PROVE  SumOf(v, D) \in Int /\ SumOf(v, D \cup {p}) = SumOf(v, D) + v[p]
<1> DEFINE f == [x \in D |-> v[x]]
           g == [x \in D \cup {p} |-> v[x]]
<1>1. IsFiniteSet(D \cup {p})
  BY FS_AddElement
<1>2. DOMAIN f = D /\ DOMAIN g = D \cup {p}
  OBVIOUS
<1>3. PICK F : IsSum(F, f, D) /\ SumFunction(f) = F[D]
  BY <1>2, SumIs
<1>4. PICK G : IsSum(G, g, D \cup {p}) /\ SumFunction(g) = G[D \cup {p}]
  BY <1>1, <1>2, SumIs
<1>5. \A x \in D : x \in D \cup {p} /\ f[x] = g[x]
  OBVIOUS
<1>6. F[D] = G[D]
  BY <1>3, <1>4, <1>5, SumAgrees
<1>7. G[D] \in Int /\ G[D \cup {p}] = G[D] + g[p]
  <2>1. \A x \in D \cup {p} : g[x] \in Int
    OBVIOUS
  <2>2. D \in SUBSET (D \cup {p}) /\ p \in (D \cup {p}) \ D
    OBVIOUS
  <2>3. IsSum(G, g, D \cup {p})
    BY <1>4
  <2> HIDE DEF g
  <2> QED
    BY ONLY <1>1, <2>1, <2>2, <2>3, SumStep
<1>8. g[p] = v[p]
  OBVIOUS
<1> QED
  BY <1>3, <1>4, <1>6, <1>7, <1>8 DEF SumOf

\* Sums over disjoint sets add up.
LEMMA SumOfUnion ==
  ASSUME NEW P, IsFiniteSet(P), NEW Q, IsFiniteSet(Q), P \cap Q = {}, NEW v,
         \A x \in P \cup Q : v[x] \in Int
  PROVE  /\ SumOf(v, P) \in Int /\ SumOf(v, Q) \in Int
         /\ SumOf(v, P \cup Q) = SumOf(v, P) + SumOf(v, Q)
<1> DEFINE N == {k \in Nat : \A R \in SUBSET Q : Cardinality(R) = k =>
                   /\ SumOf(v, P \cup R) = SumOf(v, P) + SumOf(v, R)
                   /\ SumOf(v, R) \in Int}
<1>0. \A R \in SUBSET Q : IsFiniteSet(R) /\ Cardinality(R) \in Nat /\ IsFiniteSet(P \cup R)
  BY FS_Subset, FS_CardinalityType, FS_Union
<1>1. ASSUME NEW D, IsFiniteSet(D), D \subseteq P \cup Q
      PROVE  SumOf(v, D) \in Int
  <2>1. CASE D = {}
    BY <2>1, SumOfNone
  <2>2. CASE D # {}
    <3>1. PICK p \in D : TRUE
      BY <2>2
    <3>2. PICK E : E = D \ {p}
      OBVIOUS
    <3>3. IsFiniteSet(E) /\ p \notin E /\ E \cup {p} = D
      BY <1>1, <3>1, <3>2, FS_Subset
    <3>4. \A x \in E \cup {p} : v[x] \in Int
      BY <1>1, <3>3
    <3>5. SumOf(v, E) \in Int /\ SumOf(v, E \cup {p}) = SumOf(v, E) + v[p]
      BY ONLY <3>3, <3>4, SumOfOneMore
    <3>6. v[p] \in Int
      BY <3>4
    <3>7. SumOf(v, E) + v[p] \in Int
      BY ONLY <3>5, <3>6
    <3> QED
      BY ONLY <3>3, <3>5, <3>7, Zenon
  <2> QED
    BY <2>1, <2>2
<1>2. SumOf(v, P) \in Int /\ SumOf(v, Q) \in Int
  BY <1>1
<1>3. 0 \in N
  <2>1. \A R \in SUBSET Q : Cardinality(R) = 0 => R = {}
    BY <1>0, FS_EmptySet
  <2>2. PICK n : n = SumOf(v, P)
    OBVIOUS
  <2>3. PICK m : m = SumOf(v, {})
    OBVIOUS
  <2>4. P \cup {} = P /\ m = 0 /\ n \in Int
    BY <1>2, <2>2, <2>3, SumOfNone
  <2>5. SumOf(v, P \cup {}) = SumOf(v, P) + SumOf(v, {}) /\ SumOf(v, {}) \in Int
    BY ONLY <2>2, <2>3, <2>4
  <2> QED
    BY ONLY <2>1, <2>5
<1>4. ASSUME NEW k \in Nat, k \in N
      PROVE  k + 1 \in N
  <2> SUFFICES ASSUME NEW R \in SUBSET Q, Cardinality(R) = k + 1
               PROVE  SumOf(v, P \cup R) = SumOf(v, P) + SumOf(v, R)
    BY <1>0, <1>1
  <2>1. R # {} /\ IsFiniteSet(R)
    <3>1. Cardinality({}) = 0
      BY FS_EmptySet
    <3>2. Cardinality(R) # 0
      OBVIOUS
    <3> QED
      BY <1>0, <3>1, <3>2, Zenon
  <2>2. PICK p \in R : TRUE
    BY <2>1
  <2>3. PICK U : U = R \ {p}
    OBVIOUS
  <2>4. /\ U \in SUBSET Q /\ p \notin U /\ U \cup {p} = R /\ IsFiniteSet(U)
        /\ p \notin P \cup U /\ (P \cup U) \cup {p} = P \cup R /\ IsFiniteSet(P \cup U)
    BY <1>0, <2>2, <2>3
  <2>5. Cardinality(U) = k
    <3>1. Cardinality(U) = Cardinality(R) - 1
      BY <2>1, <2>2, <2>3, FS_RemoveElement
    <3> QED
      BY <3>1
  <2>6. SumOf(v, P \cup U) = SumOf(v, P) + SumOf(v, U) /\ SumOf(v, U) \in Int
    BY <1>4, <2>4, <2>5
  <2>7. SumOf(v, R) = SumOf(v, U) + v[p]
    <3>1. \A x \in U \cup {p} : v[x] \in Int
      BY <2>2, <2>4
    <3>2. SumOf(v, U \cup {p}) = SumOf(v, U) + v[p]
      BY ONLY <2>4, <3>1, SumOfOneMore
    <3> QED
      BY <2>4, <3>2
  <2>8. SumOf(v, P \cup R) = SumOf(v, P \cup U) + v[p]
    <3>1. \A x \in (P \cup U) \cup {p} : v[x] \in Int
      BY <2>2, <2>4
    <3>2. SumOf(v, (P \cup U) \cup {p}) = SumOf(v, P \cup U) + v[p]
      BY ONLY <2>4, <3>1, SumOfOneMore
    <3> QED
      BY <2>4, <3>2
  <2>9. v[p] \in Int
    BY <2>2
  <2> QED
    BY ONLY <1>2, <2>6, <2>7, <2>8, <2>9
<1> HIDE DEF N
<1>5. \A k \in Nat : k \in N
  BY <1>3, <1>4, SetInduction
<1>6. SumOf(v, P \cup Q) = SumOf(v, P) + SumOf(v, Q)
  BY <1>0, <1>5 DEF N
<1> QED
  BY <1>2, <1>6

\* A sum over an interval, and over one with a number more.
LEMMA SumOfInterval ==
  ASSUME NEW a \in Int, NEW b \in Int, a <= b + 1, NEW v, \A x \in a..(b + 1) : v[x] \in Int
  PROVE  /\ SumOf(v, a..b) \in Int
         /\ SumOf(v, a..(b + 1)) = SumOf(v, a..b) + v[b + 1]
<1>1. PICK D, c : D = a..b /\ c = b + 1
  OBVIOUS
<1>2. c \notin D /\ D \cup {c} = a..(b + 1)
  BY <1>1
<1>3. IsFiniteSet(D)
  BY <1>1, FS_Interval
<1>4. \A x \in D \cup {c} : v[x] \in Int
  BY <1>2
<1>5. SumOf(v, D) \in Int /\ SumOf(v, D \cup {c}) = SumOf(v, D) + v[c]
  BY ONLY <1>2, <1>3, <1>4, SumOfOneMore
<1> QED
  BY <1>1, <1>2, <1>5

\* A sum of numbers is a number, and one number more is added to it.
LEMMA SumOfNumbers ==
  ASSUME NEW n \in Nat, NEW v, \A i \in 1..n : v[i] \in Nat
  PROVE  /\ SumOf(v, 1..n) \in Nat
         /\ SumOf(v, 1..0) = 0
         /\ n > 0 => SumOf(v, 1..(n - 1)) \in Nat /\ SumOf(v, 1..n) = SumOf(v, 1..(n - 1)) + v[n]
<1> DEFINE T == {k \in Nat : k <= n => SumOf(v, 1..k) \in Nat}
<1>1. SumOf(v, 1..0) = 0
  <2>1. 1..0 = {}
    OBVIOUS
  <2> QED
    BY <2>1, SumOfNone
<1>2. ASSUME NEW k \in Nat, k + 1 <= n
      PROVE  SumOf(v, 1..(k + 1)) = SumOf(v, 1..k) + v[k + 1]
  <2>1. 1 \in Int /\ k \in Int /\ 1 <= k + 1 /\ \A x \in 1..(k + 1) : v[x] \in Int
    BY <1>2
  <2> QED
    BY ONLY <2>1, SumOfInterval
<1>3. 0 \in T
  BY <1>1
<1>4. ASSUME NEW k \in Nat, k \in T
      PROVE  k + 1 \in T
  <2> SUFFICES ASSUME k + 1 <= n
               PROVE  SumOf(v, 1..(k + 1)) \in Nat
    OBVIOUS
  <2>1. v[k + 1] \in Nat /\ SumOf(v, 1..k) \in Nat
    BY <1>4
  <2> QED
    BY <1>2, <2>1
<1> HIDE DEF T
<1>5. \A k \in Nat : k \in T
  BY <1>3, <1>4, SetInduction
<1>6. \A k \in Nat : k <= n => SumOf(v, 1..k) \in Nat
  BY <1>5 DEF T
<1>7. CASE n > 0
  <2>1. PICK k \in Nat : n = k + 1
    BY <1>7
  <2>2. k = n - 1 /\ k <= n /\ k + 1 <= n
    BY <2>1
  <2> QED
    BY <1>1, <1>2, <1>6, <2>1, <2>2
<1> QED
  BY <1>1, <1>6, <1>7

\* A sum is the same when its values are moved to other places.
LEMMA SumOfShifted ==
  ASSUME NEW n \in Nat, NEW d \in Nat, NEW v, NEW w,
         \A i \in 1..n : v[i] \in Int /\ w[d + i] = v[i]
  PROVE  SumOf(w, (d + 1)..(d + n)) = SumOf(v, 1..n) /\ SumOf(v, 1..n) \in Int
<1> DEFINE T == {k \in Nat : k <= n => /\ SumOf(w, (d + 1)..(d + k)) = SumOf(v, 1..k)
                                       /\ SumOf(v, 1..k) \in Int}
<1>1. 0 \in T
  <2>1. 1..0 = {} /\ (d + 1)..(d + 0) = {}
    OBVIOUS
  <2> QED
    BY <2>1, SumOfNone
<1>2. ASSUME NEW k \in Nat, k \in T
      PROVE  k + 1 \in T
  <2> SUFFICES ASSUME k + 1 <= n
               PROVE  /\ SumOf(w, (d + 1)..(d + (k + 1))) = SumOf(v, 1..(k + 1))
                      /\ SumOf(v, 1..(k + 1)) \in Int
    OBVIOUS
  <2>1. 1 \in Int /\ k \in Int /\ 1 <= k + 1 /\ \A x \in 1..(k + 1) : v[x] \in Int
    OBVIOUS
  <2>2. SumOf(v, 1..k) \in Int /\ SumOf(v, 1..(k + 1)) = SumOf(v, 1..k) + v[k + 1]
    BY ONLY <2>1, SumOfInterval
  <2>3. d + 1 \in Int /\ d + k \in Int /\ d + 1 <= (d + k) + 1 /\ (d + k) + 1 = d + (k + 1)
    OBVIOUS
  <2>4. \A x \in (d + 1)..(d + (k + 1)) : w[x] \in Int
    <3> SUFFICES ASSUME NEW x \in (d + 1)..(d + (k + 1))
                 PROVE  w[x] \in Int
      OBVIOUS
    <3>1. PICK i \in 1..(k + 1) : x = d + i
      <4>1. x - d \in 1..(k + 1) /\ x = d + (x - d)
        OBVIOUS
      <4> QED
        BY <4>1
    <3>2. i \in 1..n
      OBVIOUS
    <3> QED
      BY <3>1, <3>2
  <2>5. SumOf(w, (d + 1)..(d + (k + 1))) = SumOf(w, (d + 1)..(d + k)) + w[d + (k + 1)]
    BY ONLY <2>3, <2>4, SumOfInterval
  <2>6. v[k + 1] \in Int /\ w[d + (k + 1)] = v[k + 1]
    BY <2>1
  <2>7. SumOf(w, (d + 1)..(d + k)) = SumOf(v, 1..k)
    BY <1>2
  <2> QED
    BY <2>2, <2>5, <2>6, <2>7
<1> HIDE DEF T
<1>3. \A k \in Nat : k \in T
  BY <1>1, <1>2, SetInduction
<1> QED
  BY <1>3 DEF T

-----------------------------------------------------------------------------
(* Extremes and remainders. *)

\* A greatest element of S is its maximum.
LEMMA MaxIs ==
  ASSUME NEW S \in SUBSET Int, NEW x \in S, \A y \in S : x >= y
  PROVE  Max(S) = x
<1>1. \A z \in S : (\A y \in S : z >= y) => z = x
  OBVIOUS
<1> QED
  BY <1>1 DEF Max

\* A least element of S is its minimum.
LEMMA MinIs ==
  ASSUME NEW S \in SUBSET Int, NEW x \in S, \A y \in S : x <= y
  PROVE  Min(S) = x
<1>1. \A z \in S : (\A y \in S : z =< y) => z = x
  OBVIOUS
<1> QED
  BY <1>1 DEF Min

\* A finite set of numbers has a greatest and a least element.
LEMMA Extremes ==
  ASSUME NEW S \in SUBSET Int, IsFiniteSet(S), S # {}
  PROVE  /\ Max(S) \in S /\ \A y \in S : Max(S) >= y
         /\ Min(S) \in S /\ \A y \in S : Min(S) <= y
<1> DEFINE Has(T) == /\ \E x \in T : \A y \in T : x >= y
                     /\ \E x \in T : \A y \in T : x <= y
           N == {k \in Nat : \A T \in SUBSET S : Cardinality(T) = k + 1 => Has(T)}
<1>0. \A T \in SUBSET S : IsFiniteSet(T) /\ Cardinality(T) \in Nat
  BY FS_Subset, FS_CardinalityType
<1>1. ASSUME NEW k \in Nat, NEW T \in SUBSET S, Cardinality(T) = k + 1
      PROVE  \E p \in T : Cardinality(T \ {p}) = k
  <2>1. T # {}
    <3>1. Cardinality({}) = 0
      BY FS_EmptySet
    <3> QED
      BY <1>1, <3>1
  <2>2. PICK p \in T : TRUE
    BY <2>1
  <2>3. Cardinality(T \ {p}) = Cardinality(T) - 1
    BY <1>0, <2>2, FS_RemoveElement
  <2> QED
    BY <1>1, <2>2, <2>3
<1>2. 0 \in N
  <2> SUFFICES ASSUME NEW T \in SUBSET S, Cardinality(T) = 0 + 1
               PROVE  Has(T)
    OBVIOUS
  <2>1. PICK p \in T : Cardinality(T \ {p}) = 0
    BY <1>1
  <2>2. T \ {p} = {}
    <3>1. IsFiniteSet(T \ {p})
      BY <1>0
    <3> QED
      BY <2>1, <3>1, FS_EmptySet
  <2>3. T = {p} /\ p \in Int
    BY <2>2
  <2> QED
    BY <2>3
<1>3. ASSUME NEW k \in Nat, k \in N
      PROVE  k + 1 \in N
  <2> SUFFICES ASSUME NEW T \in SUBSET S, Cardinality(T) = (k + 1) + 1
               PROVE  Has(T)
    OBVIOUS
  <2>1. PICK p \in T : Cardinality(T \ {p}) = k + 1
    BY <1>1
  <2>2. PICK U \in SUBSET S : U = T \ {p}
    OBVIOUS
  <2>3. Has(U)
    BY <1>3, <2>1, <2>2
  <2>4. \A y \in T : y \in U \/ y = p
    BY <2>2
  <2>5. p \in T /\ p \in Int /\ U \subseteq T /\ T \subseteq Int
    BY <2>1, <2>2
  <2>6. PICK x \in U : \A y \in U : x >= y
    BY <2>3
  <2>7. PICK z \in U : \A y \in U : z <= y
    BY <2>3
  <2>8. \E w \in T : \A y \in T : w >= y
    <3>1. CASE x >= p
      BY <2>4, <2>5, <2>6, <3>1
    <3>2. CASE ~(x >= p)
      BY <2>4, <2>5, <2>6, <3>2
    <3> QED
      BY <3>1, <3>2
  <2>9. \E w \in T : \A y \in T : w <= y
    <3>1. CASE z <= p
      BY <2>4, <2>5, <2>7, <3>1
    <3>2. CASE ~(z <= p)
      BY <2>4, <2>5, <2>7, <3>2
    <3> QED
      BY <3>1, <3>2
  <2> QED
    BY <2>8, <2>9
<1> HIDE DEF N
<1>4. \A k \in Nat : k \in N
  BY <1>2, <1>3, SetInduction
<1>5. Cardinality(S) # 0
  BY FS_EmptySet
<1>6. Cardinality(S) - 1 \in Nat /\ Cardinality(S) = (Cardinality(S) - 1) + 1
  BY <1>0, <1>5
<1>7. Has(S)
  BY <1>4, <1>6 DEF N
<1> QED
  BY <1>7, MaxIs, MinIs

\* Division with remainder.
LEMMA DivideBy ==
  ASSUME NEW m \in Nat \ {0}, NEW x \in Int
  PROVE  /\ x \div m \in Int /\ x % m \in 0..(m - 1)
         /\ x = m * (x \div m) + (x % m)
OBVIOUS

\* There is one remainder.
LEMMA RemainderIs ==
  ASSUME NEW m \in Nat \ {0}, NEW x \in Int, NEW q \in Int, NEW r \in 0..(m - 1),
         x = m * q + r
  PROVE  x % m = r
<1>1. PICK p \in Int, s \in 0..(m - 1) : x = m * p + s /\ s = x % m
  BY DivideBy
<1>2. m * (q - p) = s - r
  BY <1>1
<1>3. CASE q - p >= 1
  <2>1. m * (q - p) >= m
    BY <1>3
  <2> QED
    BY <1>2, <2>1
<1>4. CASE q - p <= -1
  <2>1. m * (q - p) <= -m
    BY <1>4
  <2> QED
    BY <1>2, <2>1
<1>5. CASE q - p = 0
  <2>1. q = p
    BY <1>5
  <2>2. m * (q - p) = 0
    BY <2>1
  <2>3. s = r
    BY <1>2, <2>2
  <2> QED
    BY <1>1, <2>3
<1> QED
  BY <1>3, <1>4, <1>5

\* Multiples of the modulus do not change the remainder.
LEMMA RemainderShift ==
  ASSUME NEW m \in Nat \ {0}, NEW x \in Int, NEW k \in Int
  PROVE  (m * k + x) % m = x % m
<1>1. PICK p \in Int, s \in 0..(m - 1) : x = m * p + s /\ s = x % m
  BY DivideBy
<1>2. m * k + x = m * (k + p) + s
  BY <1>1
<1>3. m * k + x \in Int /\ k + p \in Int
  OBVIOUS
<1> QED
  BY <1>1, <1>2, <1>3, RemainderIs

-----------------------------------------------------------------------------
(* What is in a sequence of sequences. *)

\* The elements of all of them.
Members(s) == UNION {ToSet(s[i]) : i \in DOMAIN s}

\* No element is at two places.
Apart(s) == \A a, b \in DOMAIN s : \A i \in DOMAIN s[a], j \in DOMAIN s[b] :
              s[a][i] = s[b][j] => a = b /\ i = j

\* It is so if no two of the sequences, and no two places of one, have the same.
LEMMA ApartIs ==
  ASSUME NEW s, \A a \in DOMAIN s : IsInjective(s[a]),
         \A a, b \in DOMAIN s : a # b => ToSet(s[a]) \cap ToSet(s[b]) = {}
  PROVE  Apart(s)
<1> SUFFICES ASSUME NEW a \in DOMAIN s, NEW b \in DOMAIN s,
                    NEW i \in DOMAIN s[a], NEW j \in DOMAIN s[b], s[a][i] = s[b][j]
             PROVE  a = b /\ i = j
  BY DEF Apart
<1>1. s[a][i] \in ToSet(s[a]) /\ s[a][i] \in ToSet(s[b])
  BY Zenon DEF ToSet
<1>2. a = b
  BY <1>1
<1> QED
  BY <1>2, Zenon DEF IsInjective

\* And only then.
LEMMA ApartGives ==
  ASSUME NEW s, Apart(s)
  PROVE  /\ \A a \in DOMAIN s : IsInjective(s[a])
         /\ \A a, b \in DOMAIN s : a # b => ToSet(s[a]) \cap ToSet(s[b]) = {}
<1>1. ASSUME NEW a \in DOMAIN s
      PROVE  IsInjective(s[a])
  BY Zenon DEF Apart, IsInjective
<1>2. ASSUME NEW a \in DOMAIN s, NEW b \in DOMAIN s, NEW x \in ToSet(s[a]), x \in ToSet(s[b])
      PROVE  a = b
  <2>1. PICK i \in DOMAIN s[a] : x = s[a][i]
    BY Zenon DEF ToSet
  <2>2. PICK j \in DOMAIN s[b] : x = s[b][j]
    BY <1>2, Zenon DEF ToSet
  <2> QED
    BY <2>1, <2>2, Zenon DEF Apart
<1> QED
  BY <1>1, <1>2

\* What two sequences have together.
LEMMA ConcatMembers ==
  ASSUME NEW S, NEW x \in Seq(S), NEW y \in Seq(S)
  PROVE  /\ ToSet(x \o y) = ToSet(x) \cup ToSet(y)
         /\ IsInjective(x) /\ IsInjective(y) /\ ToSet(x) \cap ToSet(y) = {} => IsInjective(x \o y)
<1>1. PICK z, m, n : z = x \o y /\ m = Len(x) /\ n = Len(y)
  OBVIOUS
<1>2. /\ m \in Nat /\ n \in Nat
      /\ DOMAIN x = 1..m /\ DOMAIN y = 1..n /\ DOMAIN z = 1..(m + n)
      /\ \A i \in 1..(m + n) : z[i] = IF i <= m THEN x[i] ELSE y[i - m]
  BY <1>1, ConcatProperties, LenProperties
<1>3. \A i \in 1..m : i \in 1..(m + n) /\ z[i] = x[i]
  BY <1>2
<1>4. ASSUME NEW i \in 1..n
      PROVE  m + i \in 1..(m + n) /\ z[m + i] = y[i]
  <2>1. PICK j \in 1..(m + n) : j = m + i /\ ~(j <= m) /\ j - m = i
    BY <1>2
  <2> QED
    BY <1>2, <2>1
<1>5. ASSUME NEW j \in 1..(m + n)
      PROVE  j \in 1..m \/ \E i \in 1..n : j = m + i
  <2>1. CASE ~(j <= m)
    <3>1. j - m \in 1..n /\ j = m + (j - m)
      BY <1>2, <2>1
    <3> QED
      BY <3>1
  <2> QED
    BY <1>2, <2>1
<1>6. ToSet(x) = {x[i] : i \in 1..m} /\ ToSet(y) = {y[i] : i \in 1..n}
      /\ ToSet(z) = {z[i] : i \in 1..(m + n)}
  BY <1>2, Zenon DEF ToSet
<1>7. ToSet(z) = ToSet(x) \cup ToSet(y)
  BY <1>3, <1>4, <1>5, <1>6
<1>8. ASSUME IsInjective(x), IsInjective(y), ToSet(x) \cap ToSet(y) = {},
             NEW a \in 1..(m + n), NEW b \in 1..(m + n), z[a] = z[b]
      PROVE  a = b
  <2>1. \A i \in 1..m, k \in 1..n : x[i] # y[k]
    BY <1>6, <1>8
  <2>2. CASE a \in 1..m
    <3>1. b \in 1..m
      BY <1>3, <1>4, <1>5, <1>8, <2>1, <2>2
    <3> QED
      BY <1>2, <1>3, <1>8, <2>2, <3>1 DEF IsInjective
  <2>3. CASE a \notin 1..m
    <3>1. PICK i \in 1..n : a = m + i
      BY <1>5, <2>3
    <3>2. b \notin 1..m
      BY <1>3, <1>4, <1>8, <2>1, <3>1
    <3>3. PICK k \in 1..n : b = m + k
      BY <1>5, <3>2
    <3>4. y[i] = y[k]
      BY <1>4, <1>8, <3>1, <3>3
    <3>5. i = k
      BY <1>2, <1>8, <3>4 DEF IsInjective
    <3> QED
      BY <3>1, <3>3, <3>5
  <2> QED
    BY <2>2, <2>3
<1>9. IsInjective(x) /\ IsInjective(y) /\ ToSet(x) \cap ToSet(y) = {} => IsInjective(z)
  <2>1. SUFFICES ASSUME IsInjective(x), IsInjective(y), ToSet(x) \cap ToSet(y) = {}
                 PROVE  \A a, b \in 1..(m + n) : z[a] = z[b] => a = b
    BY <1>2, Zenon DEF IsInjective
  <2> QED
    BY <1>8, <2>1
<1> QED
  BY <1>1, <1>7, <1>9

\* What is in the flattened sequence.
LEMMA FlattenMembers ==
  ASSUME NEW S, NEW s \in Seq(Seq(S))
  PROVE  /\ ToSet(FlattenSeq(s)) = Members(s)
         /\ Apart(s) => IsInjective(FlattenSeq(s))
<1> DEFINE Good(t) == /\ ToSet(FlattenSeq(t)) = Members(t)
                      /\ Apart(t) => IsInjective(FlattenSeq(t))
           T == {n \in Nat : \A t \in Seq(Seq(S)) : Len(t) = n => Good(t)}
<1>1. 0 \in T
  <2> SUFFICES ASSUME NEW t \in Seq(Seq(S)), Len(t) = 0
               PROVE  Good(t)
    BY Zenon
  <2>1. t = <<>>
    BY EmptySeq
  <2>2. FlattenSeq(<<>>) = <<>> /\ DOMAIN <<>> = {}
    BY FlattenEmpty
  <2>3. ToSet(<<>>) = {} /\ Members(<<>>) = {} /\ IsInjective(<<>>)
    BY <2>2 DEF ToSet, Members, IsInjective
  <2> QED
    BY <2>1, <2>2, <2>3
<1>2. ASSUME NEW n \in Nat, n \in T
      PROVE  n + 1 \in T
  <2>0. n + 1 \in Nat
    OBVIOUS
  <2> SUFFICES ASSUME NEW t \in Seq(Seq(S)), Len(t) = n + 1
               PROVE  Good(t)
    BY <2>0, Zenon
  <2>1. PICK u \in Seq(Seq(S)), x \in Seq(S) : t = Append(u, x)
    <3>1. t # <<>>
      BY EmptySeq
    <3> QED
      BY <3>1, SequenceEmptyOrAppend
  <2>2. /\ Len(u) = n /\ DOMAIN u = 1..n /\ DOMAIN t = 1..(n + 1)
        /\ \A i \in 1..n : t[i] = u[i]
        /\ t[n + 1] = x
    BY <2>1, AppendProperties, LenProperties
  <2>3. Good(u)
    BY <1>2, <2>2
  <2>4. FlattenSeq(t) = FlattenSeq(u) \o x /\ FlattenSeq(u) \in Seq(S)
    BY <2>1, FlattenAppend, FlattenType
  <2>5. \A i \in 1..(n + 1) : i \in 1..n \/ i = n + 1
    OBVIOUS
  <2>6. Members(t) = Members(u) \cup ToSet(x)
    <3>1. \A e : e \in Members(t) <=> \E i \in 1..(n + 1) : e \in ToSet(t[i])
      BY <2>2, Zenon DEF Members
    <3>2. \A e : e \in Members(u) <=> \E i \in 1..n : e \in ToSet(u[i])
      BY <2>2, Zenon DEF Members
    <3>3. n + 1 \in 1..(n + 1) /\ \A i \in 1..n : i \in 1..(n + 1)
      OBVIOUS
    <3> HIDE DEF T, Good
    <3>4. \A e : e \in Members(t) <=> e \in Members(u) \/ e \in ToSet(x)
      BY <2>2, <2>5, <3>1, <3>2, <3>3, Zenon
    <3> QED
      BY ONLY <3>4
  <2>7. ToSet(FlattenSeq(t)) = Members(t)
    BY <2>3, <2>4, <2>6, ConcatMembers
  <2>8. ASSUME Apart(t)
        PROVE  IsInjective(FlattenSeq(t))
    <3>1. /\ \A a \in 1..(n + 1) : IsInjective(t[a])
          /\ \A a, b \in 1..(n + 1) : a # b => ToSet(t[a]) \cap ToSet(t[b]) = {}
      BY <2>2, <2>8, ApartGives
    <3>2. \A a \in 1..n : a \in 1..(n + 1) /\ a # n + 1
      OBVIOUS
    <3>3. Apart(u)
      BY <2>2, <3>1, <3>2, ApartIs
    <3>4. IsInjective(x)
      BY <2>2, <3>1
    <3>5. Members(u) \cap ToSet(x) = {}
      BY <2>2, <3>1, <3>2 DEF Members
    <3> QED
      BY <2>3, <2>4, <3>3, <3>4, <3>5, ConcatMembers
  <2> QED
    BY <2>7, <2>8
<1> HIDE DEF T
<1>3. \A n \in Nat : n \in T
  BY <1>1, <1>2, SetInduction
<1> USE DEF T
<1>4. Len(s) \in Nat
  BY LenProperties
<1> QED
  BY <1>3, <1>4, Zenon

\* Each place up to the last end is a place of one of the sequences.
EndsCover(P, s) ==
  \A x \in 1..P[Len(s)] : \E k \in 1..Len(s) : \E j \in 1..Len(s[k]) : x = P[k - 1] + j

\* A place in all the sequences, one behind the other, is a place of one of them.
LEMMA FlattenFinds ==
  ASSUME NEW S, NEW s \in Seq(Seq(S)), NEW P, Ends(P, s)
  PROVE  EndsCover(P, s)
<1> SUFFICES ASSUME NEW x \in 1..P[Len(s)]
             PROVE  \E k \in 1..Len(s) : \E j \in 1..Len(s[k]) : x = P[k - 1] + j
  BY DEF EndsCover
<1>1. PICK n \in Nat : n = Len(s) /\ \A k \in 1..n : Len(s[k]) \in Nat
  BY LenProperties, ElementOfSeq
<1>2. /\ \A k \in 0..n : P[k] \in Nat
      /\ P[0] = 0 /\ \A i \in 1..n : P[i] = P[i - 1] + Len(s[i])
  BY <1>1 DEF Ends
<1> DEFINE T == {k \in 0..n : x <= P[k]}
<1>3. T \in SUBSET Nat /\ T # {}
  <2>1. n \in T
    BY <1>1, <1>2
  <2> QED
    BY <2>1
<1>4. PICK k \in T : \A m \in T : k <= m
  BY <1>3, LeastNumber
<1>5. k \in 1..n /\ k - 1 \in 0..n
  <2>1. k # 0
    BY <1>2, <1>4
  <2> QED
    BY <1>1, <1>4, <2>1
<1>6. ~(x <= P[k - 1])
  BY <1>4, <1>5
<1>7. PICK a, b, l : a = P[k - 1] /\ b = P[k] /\ l = Len(s[k])
  OBVIOUS
<1>8. a \in Nat /\ b = a + l /\ l \in Nat /\ x <= b /\ ~(x <= a) /\ x \in Nat
  <2>1. P[n] \in Nat
    BY <1>1, <1>2
  <2> QED
    BY <1>1, <1>2, <1>4, <1>5, <1>6, <1>7, <2>1
<1>9. x - a \in 1..l /\ x = a + (x - a)
  BY <1>8
<1>10. \E j \in 1..l : x = a + j
  BY ONLY <1>9
<1> QED
  BY <1>1, <1>5, <1>7, <1>10

\* The ends exist.
LEMMA EndsExist ==
  ASSUME NEW S, NEW s \in Seq(Seq(S))
  PROVE  \E P : Ends(P, s)
<1>1. PICK n \in Nat : n = Len(s) /\ \A k \in 1..n : Len(s[k]) \in Nat
  BY LenProperties, ElementOfSeq
<1> DEFINE g == [i \in 1..n |-> [x \in Nat |-> x + Len(s[i])]]
<1>2. g \in [1..n -> [Nat -> Nat]] /\ \A i \in 1..n : \A x \in Nat : g[i][x] = x + Len(s[i])
  BY <1>1
<1> HIDE DEF g
<1>3. PICK F \in [0..n -> Nat] : Recurs(F, n, 0, g)
  BY <1>2, RecursionExists
<1>4. F[0] = 0 /\ \A i \in 1..n : F[i] = F[i - 1] + Len(s[i])
  <2>1. \A i \in 1..n : i - 1 \in 0..n
    OBVIOUS
  <2> QED
    BY <1>2, <1>3, <2>1 DEF Recurs
<1> QED
  BY <1>1, <1>3, <1>4 DEF Ends

\* The sequences of t are those of s under f.
MapsTo(f, s, t) ==
  /\ Len(t) = Len(s)
  /\ \A i \in 1..Len(s) : Len(t[i]) = Len(s[i])
  /\ \A i \in 1..Len(s) : \A j \in 1..Len(s[i]) : t[i][j] = f[s[i][j]]

\* Then the elements of the flattened sequences are, too.
LEMMA FlattenMaps ==
  ASSUME NEW S, NEW s \in Seq(Seq(S)), NEW T, NEW t \in Seq(Seq(T)), NEW f, MapsTo(f, s, t)
  PROVE  /\ Len(FlattenSeq(t)) = Len(FlattenSeq(s))
         /\ \A x \in 1..Len(FlattenSeq(s)) : FlattenSeq(t)[x] = f[FlattenSeq(s)[x]]
<1>1. PICK P : Ends(P, s)
  BY EndsExist
<1>2. Ends(P, t)
  BY <1>1 DEF Ends, MapsTo
<1>3. PICK u : /\ u = FlattenSeq(s)
               /\ Len(u) = P[Len(s)]
               /\ \A i \in 1..Len(s) : \A j \in 1..Len(s[i]) : u[P[i - 1] + j] = s[i][j]
  <2>1. /\ Len(FlattenSeq(s)) = P[Len(s)]
        /\ \A i \in 1..Len(s) : \A j \in 1..Len(s[i]) : FlattenSeq(s)[P[i - 1] + j] = s[i][j]
    BY <1>1, FlattenPlaces
  <2> QED
    BY ONLY <2>1
<1>4. PICK v : /\ v = FlattenSeq(t)
               /\ Len(v) = P[Len(t)]
               /\ \A i \in 1..Len(t) : \A j \in 1..Len(t[i]) : v[P[i - 1] + j] = t[i][j]
  <2>1. /\ Len(FlattenSeq(t)) = P[Len(t)]
        /\ \A i \in 1..Len(t) : \A j \in 1..Len(t[i]) : FlattenSeq(t)[P[i - 1] + j] = t[i][j]
    BY <1>2, FlattenPlaces
  <2> QED
    BY ONLY <2>1
<1>5. /\ Len(v) = P[Len(s)]
      /\ \A i \in 1..Len(s) : \A j \in 1..Len(s[i]) : v[P[i - 1] + j] = t[i][j]
  BY <1>4 DEF MapsTo
<1>6. \A x \in 1..P[Len(s)] : \E k \in 1..Len(s) : \E j \in 1..Len(s[k]) : x = P[k - 1] + j
  <2>1. EndsCover(P, s)
    BY <1>1, FlattenFinds
  <2> QED
    BY <2>1 DEF EndsCover
<1>7. ASSUME NEW x \in 1..P[Len(s)]
      PROVE  v[x] = f[u[x]]
  <2>1. PICK k \in 1..Len(s) : \E j \in 1..Len(s[k]) : x = P[k - 1] + j
    BY <1>6
  <2>2. PICK j \in 1..Len(s[k]) : x = P[k - 1] + j
    BY <2>1
  <2>3. u[x] = s[k][j] /\ v[x] = t[k][j]
    BY <1>3, <1>5, <2>2, Zenon
  <2> QED
    BY <2>3, Zenon DEF MapsTo
<1> QED
  BY <1>3, <1>4, <1>5, <1>7, Zenon DEF MapsTo

=============================================================================
