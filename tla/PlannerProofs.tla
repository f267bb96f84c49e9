---------------------------- MODULE PlannerProofs ----------------------------
(***************************************************************************)
(* Proofs about Planner, for any set of plans, any table and any names.    *)
(*                                                                         *)
(* Three invariants, each of which uses the ones before it.                *)
(*                                                                         *)
(* Control says where the recursion is: the pipelines that the nodes up to *)
(* the current one have been translated to, which of them runs, and that   *)
(* a sink and its source are the same node.                                *)
(*                                                                         *)
(* InPlace follows the columns.  Some assignment S of a schema to every    *)
(* node agrees with the schemas that the builder handed out, and the batch *)
(* in hand has the columns that S says its transform is to find there: so  *)
(* the index that an expression was given by name on the way up is the     *)
(* place of that name in every batch of the run.                           *)
(*                                                                         *)
(* Pruned follows the names that are required.  Whatever a plan needs of   *)
(* its scan is needed by a node above, and a name that an expression looks *)
(* for on the way up was required on the way down.                         *)
(***************************************************************************)
EXTENDS Planner, DataFacts

\* Where there is a value, the one found is right.
LEMMA IndexIs ==
  ASSUME NEW fields, Len(fields) \in Nat, DOMAIN fields = 1..Len(fields), NEW name
  PROVE  LET k == IndexByName(fields, name)
         IN /\ k \in 0..Len(fields)
            /\ k # 0 => k \in DOMAIN fields /\ fields[k] = name
            /\ k = 0 => name \notin Range(fields)
<1> DEFINE I == {i \in 1..Len(fields) : fields[i] = name}
<1>1. IndexByName(fields, name) = IF I # {} THEN Min(I) ELSE 0
  BY DEF IndexByName, SelectInSeq
<1>2. I \in SUBSET Nat
  OBVIOUS
<1>3. I # {} => Min(I) \in I
  <2> SUFFICES ASSUME I # {}
               PROVE  Min(I) \in I
    OBVIOUS
  <2>1. PICK m \in I : \A n \in I : m <= n
    BY <1>2, LeastNumber
  <2> QED
    BY <2>1 DEF Min
<1>4. I = {} => name \notin Range(fields)
  BY DEF Range
<1> QED
  BY <1>1, <1>3, <1>4

\* Dropping columns keeps the positions of the others, whose columns these are.
LEMMA KeptIs ==
  ASSUME NEW fields, fields \in Seq(Nat), NEW dropped
  PROVE  LET kept == Kept(fields, dropped)
             left == FlattenSeq([i \in DOMAIN fields |->
                                   IF fields[i] \in Range(dropped) THEN <<>> ELSE <<fields[i]>>])
         IN /\ kept \in Seq(Nat) /\ left \in Seq(Nat)
            /\ Range(kept) = {i \in DOMAIN fields : fields[i] \notin Range(dropped)}
            /\ Range(left) = Range(fields) \ Range(dropped)
            /\ left = [i \in DOMAIN kept |-> fields[kept[i]]]
<1> DEFINE place(i) == IF fields[i] \in Range(dropped) THEN <<>> ELSE <<i>>
           name(i) == IF fields[i] \in Range(dropped) THEN <<>> ELSE <<fields[i]>>
           places == [i \in DOMAIN fields |-> place(i)]
           names == [i \in DOMAIN fields |-> name(i)]
<1>1. PICK n \in Nat : n = Len(fields) /\ DOMAIN fields = 1..n /\ \A i \in 1..n : fields[i] \in Nat
  BY LenProperties, ElementOfSeq
<1>2. \A i \in 1..n : place(i) \in Seq(Nat) /\ name(i) \in Seq(Nat) /\ Len(place(i)) = Len(name(i))
  BY <1>1
<1>3. /\ places \in Seq(Seq(Nat)) /\ Len(places) = n /\ DOMAIN places = 1..n
      /\ names \in Seq(Seq(Nat)) /\ Len(names) = n /\ DOMAIN names = 1..n
  <2>1. places \in [1..n -> Seq(Nat)] /\ names \in [1..n -> Seq(Nat)]
    BY <1>1, <1>2
  <2> QED
    BY <2>1, IsSequence
<1>4. \A i \in 1..n :
        \/ fields[i] \in Range(dropped) /\ places[i] = <<>> /\ names[i] = <<>>
        \/ fields[i] \notin Range(dropped) /\ places[i] = <<i>> /\ names[i] = <<fields[i]>>
  BY <1>1, Zenon
<1>5. Kept(fields, dropped) = FlattenSeq(places)
  BY DEF Kept
<1> HIDE DEF place, name, places, names
<1>6. PICK kept, left : kept = FlattenSeq(places) /\ left = FlattenSeq(names)
  OBVIOUS
<1>7. kept \in Seq(Nat) /\ left \in Seq(Nat) /\ ToSet(kept) = Members(places) /\ ToSet(left) = Members(names)
  BY <1>3, <1>6, FlattenType, FlattenMembers
<1>8. Len(left) = Len(kept) /\ \A x \in 1..Len(kept) : left[x] = fields[kept[x]]
  <2>1. \A i \in 1..n : Len(names[i]) = Len(places[i])
    <3>1. \A x : Len(<<x>>) = 1
      OBVIOUS
    <3> QED
      BY <1>4, <3>1, Zenon
  <2>2. \A i \in 1..n : \A j \in 1..Len(places[i]) : names[i][j] = fields[places[i][j]]
    <3> SUFFICES ASSUME NEW i \in 1..n, NEW j \in 1..Len(places[i])
                 PROVE  names[i][j] = fields[places[i][j]]
      OBVIOUS
    <3>1. places[i] = <<i>> /\ names[i] = <<fields[i]>>
      <4>1. places[i] # <<>>
        OBVIOUS
      <4> QED
        BY <1>4, <4>1
    <3>2. j = 1
      BY <3>1
    <3> QED
      BY <3>1, <3>2
  <2> QED
    <3>1. places \in Seq(Seq(Nat)) /\ names \in Seq(Seq(Nat)) /\ MapsTo(fields, places, names)
      BY <1>3, <2>1, <2>2 DEF MapsTo
    <3>2. /\ Len(FlattenSeq(names)) = Len(FlattenSeq(places))
          /\ \A x \in 1..Len(FlattenSeq(places)) :
               FlattenSeq(names)[x] = fields[FlattenSeq(places)[x]]
      BY ONLY <3>1, FlattenMaps
    <3> QED
      BY <1>6, <3>2
<1>9. left = [i \in DOMAIN kept |-> fields[kept[i]]]
  BY <1>7, <1>8, LenProperties
<1>10. \A x : ToSet(<<x>>) = {x} /\ ToSet(<<>>) = {}
  BY DEF ToSet
<1>11. Range(kept) = {i \in DOMAIN fields : fields[i] \notin Range(dropped)}
  <2>1. \A x : x \in ToSet(kept) <=> \E i \in 1..n : x \in ToSet(places[i])
    BY <1>3, <1>7, Zenon DEF Members
  <2>2. \A i \in 1..n : \A x : x \in ToSet(places[i]) <=> x = i /\ fields[i] \notin Range(dropped)
    <3> SUFFICES ASSUME NEW i \in 1..n, NEW x
                 PROVE  x \in ToSet(places[i]) <=> x = i /\ fields[i] \notin Range(dropped)
      OBVIOUS
    <3> QED
      BY <1>4, <1>10, ZenonT(60)
  <2>3. Range(kept) = ToSet(kept)
    BY Zenon DEF Range, ToSet
  <2> QED
    <3>1. \A x : x \in Range(kept) <=> x \in DOMAIN fields /\ fields[x] \notin Range(dropped)
      <4>1. \A x : x \in ToSet(kept) <=> \E i \in 1..n : x = i /\ fields[i] \notin Range(dropped)
        BY <2>1, <2>2, Zenon
      <4> QED
        BY ONLY <1>1, <2>3, <4>1
    <3> QED
      BY ONLY <3>1
<1>12. Range(left) = Range(fields) \ Range(dropped)
  <2>1. \A x : x \in ToSet(left) <=> \E i \in 1..n : x \in ToSet(names[i])
    BY <1>3, <1>7, Zenon DEF Members
  <2>2. \A i \in 1..n : \A x : x \in ToSet(names[i]) <=> x = fields[i] /\ fields[i] \notin Range(dropped)
    <3> SUFFICES ASSUME NEW i \in 1..n, NEW x
                 PROVE  x \in ToSet(names[i]) <=> x = fields[i] /\ fields[i] \notin Range(dropped)
      OBVIOUS
    <3>1. CASE fields[i] \in Range(dropped)
      <4>1. names[i] = <<>>
        BY <1>4, <3>1
      <4> QED
        BY <1>10, <3>1, <4>1
    <3>2. CASE fields[i] \notin Range(dropped)
      <4>1. names[i] = <<fields[i]>>
        BY <1>4, <3>2
      <4>2. ToSet(<<fields[i]>>) = {fields[i]}
        BY <1>10, Zenon
      <4> QED
        BY <3>2, <4>1, <4>2
    <3> QED
      BY <3>1, <3>2
  <2>3. Range(left) = ToSet(left) /\ \A x : x \in Range(fields) <=> \E i \in 1..n : x = fields[i]
    BY <1>1, Zenon DEF Range, ToSet
  <2>4. \A x : x \in Range(left) <=> x \in Range(fields) /\ x \notin Range(dropped)
    <3>1. \A x : x \in ToSet(left) <=> \E i \in 1..n : x = fields[i] /\ fields[i] \notin Range(dropped)
      BY <2>1, <2>2, Zenon
    <3> QED
      BY ONLY <2>3, <3>1
  <2> QED
    BY ONLY <2>4
<1> QED
  BY <1>5, <1>6, <1>7, <1>9, <1>11, <1>12, Zenon DEF name, names

\* A finite set of numbers in ascending order.
LEMMA AscendingIs ==
  ASSUME NEW S \in SUBSET Nat, IsFiniteSet(S)
  PROVE  Ascending(S) \in Seq(Nat) /\ Range(Ascending(S)) = S
<1> DEFINE Up(s, k, U) == s \in [1..k -> U] /\ \A i, j \in 1..k : i < j => s[i] < s[j]
           T == {k \in Nat : \A U \in SUBSET S : Cardinality(U) = k => \E s : Up(s, k, U)}
<1>1. 0 \in T
  <2>1. \A U : Up([i \in 1..0 |-> 0], 0, U)
    OBVIOUS
  <2> QED
    BY <2>1
<1>2. ASSUME NEW k \in Nat, k \in T
      PROVE  k + 1 \in T
  <2>0. k + 1 \in Nat
    OBVIOUS
  <2> SUFFICES ASSUME NEW U \in SUBSET S, Cardinality(U) = k + 1
               PROVE  \E s : Up(s, k + 1, U)
    BY <2>0, Zenon
  <2>1. IsFiniteSet(U) /\ U # {} /\ U \subseteq Int
    <3>1. IsFiniteSet(U)
      BY FS_Subset
    <3>2. Cardinality({}) = 0
      BY FS_EmptySet
    <3>3. U # {}
      BY <3>2
    <3> QED
      BY <3>1, <3>3
  <2>2. PICK m \in U : \A y \in U : m >= y
    BY <2>1, Extremes
  <2>3. Cardinality(U \ {m}) = k
    <3>1. Cardinality(U \ {m}) = Cardinality(U) - 1
      BY <2>1, <2>2, FS_RemoveElement
    <3> QED
      BY <3>1
  <2>4. PICK s : Up(s, k, U \ {m})
    BY <1>2, <2>3, Zenon
  <2>5. PICK t : t = [i \in 1..(k + 1) |-> IF i \in 1..k THEN s[i] ELSE m]
    OBVIOUS
  <2>6. \A i \in 1..(k + 1) : i \in 1..k \/ i = k + 1
    OBVIOUS
  <2>7. t[k + 1] = m /\ \A i \in 1..k : t[i] = s[i] /\ t[i] \in U /\ t[i] < m
    <3>1. \A i \in 1..k : t[i] = s[i] /\ t[i] \in U \ {m}
      BY <2>4, <2>5
    <3>2. t[k + 1] = m
      BY <2>5
    <3>3. m \in Nat /\ \A i \in 1..k : t[i] \in U /\ t[i] \in Nat /\ t[i] # m /\ m >= t[i]
      BY <2>2, <3>1
    <3> QED
      BY <3>1, <3>2, <3>3
  <2>8. t \in [1..(k + 1) -> U]
    BY <2>2, <2>5, <2>6, <2>7
  <2>9. ASSUME NEW i \in 1..(k + 1), NEW j \in 1..(k + 1), i < j
        PROVE  t[i] < t[j]
    <3>1. i \in 1..k
      BY <2>9
    <3> QED
      BY <2>4, <2>6, <2>7, <2>9, <3>1
  <2> QED
    BY <2>8, <2>9
<1> HIDE DEF T
<1>3. \A k \in Nat : k \in T
  BY <1>1, <1>2, SetInduction
<1> USE DEF T
<1>4. PICK n \in Nat : n = Cardinality(S)
  BY FS_CardinalityType
<1>5. PICK s : Up(s, n, S)
  BY <1>3, <1>4, Zenon
<1>6. s \in SetToSeqs(S) /\ \A i, j \in DOMAIN s : i < j => s[i] < s[j]
  <2>1. s \in [1..n -> S] /\ \A i, j \in 1..n : i < j => s[i] < s[j]
    BY <1>5
  <2>2. \A i \in 1..n : s[i] \in Nat
    BY <2>1
  <2>3. \A i, j \in 1..n : i # j => s[i] # s[j]
    <3> SUFFICES ASSUME NEW i \in 1..n, NEW j \in 1..n, i # j
                 PROVE  s[i] # s[j]
      OBVIOUS
    <3>1. i < j \/ j < i
      OBVIOUS
    <3> QED
      BY <2>1, <2>2, <3>1
  <2>4. s \in SetToSeqs(S)
    BY <1>4, <2>1, <2>3, Zenon DEF SetToSeqs
  <2> QED
    BY <2>1, <2>4
<1>7. PICK t : t = Ascending(S)
  OBVIOUS
<1>8. t \in SetToSeqs(S)
  BY <1>6, <1>7 DEF Ascending
<1>9. t \in [1..n -> S] /\ \A i, j \in 1..n : i # j => t[i] # t[j]
  BY <1>4, <1>8 DEF SetToSeqs
<1>10. t \in Seq(Nat) /\ DOMAIN t = 1..n
  BY <1>9, IsSequence
<1>11. Cardinality({t[j] : j \in 1..n}) = n
  BY <1>9, FirstElements
<1>12. {t[j] : j \in 1..n} = S
  BY <1>4, <1>9, <1>11, FS_Subset
<1> QED
  BY <1>7, <1>10, <1>12 DEF Range

-----------------------------------------------------------------------------
(* What a node looks up. *)

Kinds == {"scan", "aggregate", "filter", "orderby", "limit", "scalar", "drop", "reorder"}

\* The fields of a node.
LEMMA NodeIs ==
  ASSUME NEW n \in Node
  PROVE  /\ n.kind \in Kinds
         /\ n.kind = "scan" => n.columns \in Seq(Nat) \cup {Star}
         /\ n.kind = "aggregate" => n.by \in Seq(Nat) /\ n.exprs \in Seq(Expression)
         /\ n.kind = "filter" => n.reads \in Seq(Nat)
         /\ n.kind = "orderby" => n.by \in Seq(Nat)
         /\ n.kind = "scalar" => n.exprs \in Seq(Expression)
         /\ n.kind = "drop" => n.columns \in Seq(Nat)
         /\ n.kind = "reorder" => n.order \in Seq(Nat)
BY DEF Node, Kinds

\* The names an operator looks up, expression by expression: a Drop those it drops.
Asked(n) == IF n.kind = "drop" THEN <<n.columns>> ELSE Wanted(n, <<>>)

\* The columns expression i sees.
Seen(n, fields, i) == fields \o SubSeq(Made(n), 1, IF Made(n) = <<>> THEN 0 ELSE i - 1)

\* Sequences of what expressions read and give.
LEMMA ExpressionsAre ==
  ASSUME NEW exprs \in Seq(Expression)
  PROVE  /\ OutputsOf(exprs) \in Seq(Nat) /\ Len(OutputsOf(exprs)) = Len(exprs)
         /\ DOMAIN OutputsOf(exprs) = 1..Len(exprs)
         /\ \A i \in 1..Len(exprs) : exprs[i].reads \in Seq(Nat)
         /\ [i \in DOMAIN exprs |-> exprs[i].reads] \in Seq(Seq(Nat))
         /\ Len([i \in DOMAIN exprs |-> exprs[i].reads]) = Len(exprs)
<1>1. PICK m \in Nat : m = Len(exprs) /\ DOMAIN exprs = 1..m
  BY LenProperties
<1>2. \A i \in 1..m : exprs[i].reads \in Seq(Nat) /\ exprs[i].output \in Nat
  <2>1. \A i \in 1..m : exprs[i] \in Expression
    BY <1>1, ElementOfSeq
  <2>2. \A e \in Expression : e.reads \in Seq(Nat) /\ e.output \in Nat
    BY DEF Expression
  <2> QED
    BY <2>1, <2>2, Zenon
<1>3. PICK u, v : u = OutputsOf(exprs) /\ v = [i \in DOMAIN exprs |-> exprs[i].reads]
  OBVIOUS
<1>4. u \in [1..m -> Nat] /\ v \in [1..m -> Seq(Nat)]
  BY <1>1, <1>2, <1>3 DEF OutputsOf
<1>5. u \in Seq(Nat) /\ Len(u) = m /\ DOMAIN u = 1..m /\ v \in Seq(Seq(Nat)) /\ Len(v) = m
  BY <1>4, IsSequence
<1> QED
  BY <1>1, <1>2, <1>3, <1>5

\* A projection makes columns, and what an expression sees are the child's and some of them.
LEMMA MadeIs ==
  ASSUME NEW n \in Node
  PROVE  Made(n) \in Seq(Nat)
<1>1. <<>> \in Seq(Nat)
  BY EmptySeq
<1> QED
  BY <1>1, NodeIs, ExpressionsAre DEF Made

\* They are names, the child's among them.
LEMMA SeenIs ==
  ASSUME NEW n \in Node, NEW fields \in Seq(Nat), NEW i \in 1..(Len(Made(n)) + 1)
  PROVE  /\ Seen(n, fields, i) \in Seq(Nat)
         /\ Range(fields) \subseteq Range(Seen(n, fields, i))
<1>1. Made(n) \in Seq(Nat) /\ Len(Made(n)) \in Nat
  BY MadeIs, LenProperties
<1>2. PICK b : b = IF Made(n) = <<>> THEN 0 ELSE i - 1
  OBVIOUS
<1>3. b \in 0..Len(Made(n))
  BY <1>1, <1>2
<1>4. PICK m : m = SubSeq(Made(n), 1, b)
  OBVIOUS
<1>5. m \in Seq(Nat)
  BY <1>1, <1>3, <1>4, SubSeqProperties
<1>6. Seen(n, fields, i) = fields \o m
  BY <1>2, <1>4 DEF Seen
<1>7. ToSet(fields \o m) = ToSet(fields) \cup ToSet(m) /\ fields \o m \in Seq(Nat)
  BY <1>5, ConcatMembers, ConcatProperties
<1> QED
  BY <1>6, <1>7 DEF ToSet, Range

\* What is asked, sequence by sequence.
LEMMA AskedIs ==
  ASSUME NEW n \in Node
  PROVE  /\ Asked(n) \in Seq(Seq(Nat))
         /\ Made(n) # <<>> => Len(Asked(n)) = Len(Made(n))
         /\ n.kind = "aggregate" => Asked(n) = <<n.by>> \o [i \in DOMAIN n.exprs |-> n.exprs[i].reads]
         /\ n.kind = "filter" => Asked(n) = <<n.reads>>
         /\ n.kind = "orderby" => Asked(n) = <<n.by>>
         /\ n.kind = "scalar" => Asked(n) = [i \in DOMAIN n.exprs |-> n.exprs[i].reads]
         /\ n.kind = "drop" => Asked(n) = <<n.columns>>
         /\ n.kind = "reorder" => Asked(n) = <<n.order>>
         /\ n.kind \in {"scan", "limit"} => Asked(n) = <<>>
<1>1. /\ n.kind = "aggregate" => Asked(n) = <<n.by>> \o [i \in DOMAIN n.exprs |-> n.exprs[i].reads]
      /\ n.kind = "filter" => Asked(n) = <<n.reads>>
      /\ n.kind = "orderby" => Asked(n) = <<n.by>>
      /\ n.kind = "scalar" => Asked(n) = [i \in DOMAIN n.exprs |-> n.exprs[i].reads]
      /\ n.kind = "drop" => Asked(n) = <<n.columns>>
      /\ n.kind = "reorder" => Asked(n) = <<n.order>>
      /\ n.kind \in {"scan", "limit"} => Asked(n) = <<>>
  BY DEF Asked, Wanted
<1>2. \A x \in Seq(Nat) : <<x>> \in Seq(Seq(Nat))
  OBVIOUS
<1>3. <<>> \in Seq(Seq(Nat))
  BY EmptySeq
<1>4. ASSUME n.kind = "aggregate"
      PROVE  Asked(n) \in Seq(Seq(Nat))
  <2>1. <<n.by>> \in Seq(Seq(Nat)) /\ [i \in DOMAIN n.exprs |-> n.exprs[i].reads] \in Seq(Seq(Nat))
    BY <1>2, <1>4, NodeIs, ExpressionsAre
  <2> QED
    BY <1>1, <1>4, <2>1, ConcatProperties
<1>5. ASSUME n.kind = "scalar"
      PROVE  Asked(n) \in Seq(Seq(Nat)) /\ Len(Asked(n)) = Len(Made(n))
  BY <1>1, <1>5, NodeIs, ExpressionsAre DEF Made
<1>6. n.kind # "scalar" => Made(n) = <<>>
  BY DEF Made
<1>7. Asked(n) \in Seq(Seq(Nat))
  BY <1>1, <1>2, <1>3, <1>4, <1>5, NodeIs DEF Kinds
<1> QED
  BY <1>1, <1>5, <1>6, <1>7

\* Positions of names.
LEMMA IndicesAre ==
  ASSUME NEW fields, fields \in Seq(Nat), NEW names, names \in Seq(Nat)
  PROVE  /\ Indices(fields, names) \in Seq(Nat)
         /\ Len(Indices(fields, names)) = Len(names)
         /\ \A j \in 1..Len(names) :
              \/ Indices(fields, names)[j] = 0 /\ names[j] \notin Range(fields)
              \/ /\ Indices(fields, names)[j] # 0
                 /\ Indices(fields, names)[j] \in DOMAIN fields
                 /\ fields[Indices(fields, names)[j]] = names[j]
<1>1. Len(fields) \in Nat /\ DOMAIN fields = 1..Len(fields)
  BY LenProperties
<1>2. PICK m \in Nat : m = Len(names) /\ DOMAIN names = 1..m
  BY LenProperties
<1>3. PICK u : u = Indices(fields, names)
  OBVIOUS
<1>4. \A j \in 1..m : u[j] = IndexByName(fields, names[j])
  BY <1>2, <1>3 DEF Indices
<1>5. ASSUME NEW j \in 1..m
      PROVE  /\ u[j] \in Nat
             /\ \/ u[j] = 0 /\ names[j] \notin Range(fields)
                \/ u[j] # 0 /\ u[j] \in DOMAIN fields /\ fields[u[j]] = names[j]
  BY <1>1, <1>4, IndexIs
<1>6. u \in [1..m -> Nat]
  BY <1>2, <1>3, <1>5 DEF Indices
<1>7. u \in Seq(Nat) /\ Len(u) = m
  BY <1>6, IsSequence
<1> QED
  BY <1>2, <1>3, <1>5, <1>7

\* Without new columns, an expression sees the child's.
LEMMA SeenAll ==
  ASSUME NEW n, Made(n) = <<>>, NEW fields \in Seq(Nat), NEW i
  PROVE  Seen(n, fields, i) = fields
<1>1. SubSeq(<<>>, 1, 0) = <<>>
  BY SubSeqEmpty
<1>2. fields \o <<>> = fields
  BY ConcatEmptySeq
<1> QED
  BY <1>1, <1>2 DEF Seen

\* A node looks up what it asks for in what it sees.
LEMMA LookedUpIs ==
  ASSUME NEW n \in Node, schema \in Seq(Nat)
  PROVE  /\ LookedUp(n) \in Seq(Seq(Nat))
         /\ Len(LookedUp(n)) = Len(Asked(n))
         /\ \A i \in 1..Len(Asked(n)) :
              LookedUp(n)[i] = Indices(Seen(n, schema, i), Asked(n)[i])
<1>1. CASE n.kind \in {"scan", "limit"}
  <2>1. LookedUp(n) = <<>> /\ Asked(n) = <<>>
    BY <1>1, AskedIs DEF LookedUp
  <2>2. <<>> \in Seq(Seq(Nat)) /\ Len(<<>>) = 0
    BY EmptySeq
  <2> QED
    BY <2>1, <2>2
<1>2. ASSUME NEW names \in Seq(Nat), Asked(n) = <<names>>, LookedUp(n) = <<Indices(schema, names)>>,
             Made(n) = <<>>
      PROVE  /\ LookedUp(n) \in Seq(Seq(Nat))
             /\ Len(LookedUp(n)) = Len(Asked(n))
             /\ \A i \in 1..Len(Asked(n)) :
                  LookedUp(n)[i] = Indices(Seen(n, schema, i), Asked(n)[i])
  <2>1. Indices(schema, names) \in Seq(Nat)
    BY IndicesAre
  <2>2. \A i : Seen(n, schema, i) = schema
    BY <1>2, SeenAll
  <2>3. /\ <<Indices(schema, names)>> \in Seq(Seq(Nat))
        /\ Len(<<Indices(schema, names)>>) = 1 /\ Len(<<names>>) = 1
        /\ <<Indices(schema, names)>>[1] = Indices(schema, names) /\ <<names>>[1] = names
    BY <2>1
  <2>4. \A i \in 1..1 : i = 1
    OBVIOUS
  <2> QED
    BY <1>2, <2>2, <2>3, <2>4, Zenon
<1>3. CASE n.kind = "filter"
  <2>1. n.reads \in Seq(Nat) /\ Asked(n) = <<n.reads>>
    BY <1>3, NodeIs, AskedIs
  <2>2. LookedUp(n) = <<Indices(schema, n.reads)>> /\ Made(n) = <<>>
    BY <1>3 DEF LookedUp, Made
  <2> QED
    BY <1>2, <2>1, <2>2
<1>4. CASE n.kind = "orderby"
  <2>1. n.by \in Seq(Nat) /\ Asked(n) = <<n.by>>
    BY <1>4, NodeIs, AskedIs
  <2>2. LookedUp(n) = <<Indices(schema, n.by)>> /\ Made(n) = <<>>
    BY <1>4 DEF LookedUp, Made
  <2> QED
    BY <1>2, <2>1, <2>2
<1>5. CASE n.kind = "drop"
  <2>1. n.columns \in Seq(Nat) /\ Asked(n) = <<n.columns>>
    BY <1>5, NodeIs, AskedIs
  <2>2. LookedUp(n) = <<Indices(schema, n.columns)>> /\ Made(n) = <<>>
    BY <1>5 DEF LookedUp, Made
  <2> QED
    BY <1>2, <2>1, <2>2
<1>6. CASE n.kind = "reorder"
  <2>1. n.order \in Seq(Nat) /\ Asked(n) = <<n.order>>
    BY <1>6, NodeIs, AskedIs
  <2>2. LookedUp(n) = <<Indices(schema, n.order)>> /\ Made(n) = <<>>
    BY <1>6 DEF LookedUp, Made
  <2> QED
    BY <1>2, <2>1, <2>2
<1>7. CASE n.kind = "scalar"
  <2>1. n.exprs \in Seq(Expression) /\ Asked(n) = [i \in DOMAIN n.exprs |-> n.exprs[i].reads]
        /\ LookedUp(n) = ScalarUses(n.exprs) /\ Made(n) = OutputsOf(n.exprs)
    BY <1>7, NodeIs, AskedIs DEF LookedUp, Made
  <2>2. PICK m \in Nat : m = Len(n.exprs) /\ DOMAIN n.exprs = 1..m
    BY <2>1, LenProperties
  <2>3. /\ Asked(n) \in Seq(Seq(Nat)) /\ Len(Asked(n)) = m
        /\ Made(n) \in Seq(Nat) /\ Len(Made(n)) = m
    BY <2>1, <2>2, ExpressionsAre, AskedIs
  <2>4. DOMAIN Asked(n) = 1..m /\ \A i \in 1..m : Asked(n)[i] \in Seq(Nat)
    BY <2>3, ElementOfSeq, LenProperties
  <2>5. ASSUME NEW i \in 1..m
        PROVE  /\ ScalarUses(n.exprs)[i] = Indices(Seen(n, schema, i), Asked(n)[i])
               /\ ScalarUses(n.exprs)[i] \in Seq(Nat)
    <3>1. Made(n) # <<>>
      <4>1. Len(<<>>) = 0
        OBVIOUS
      <4> QED
        BY <2>3, <4>1
    <3>2. Seen(n, schema, i) = schema \o SubSeq(OutputsOf(n.exprs), 1, i - 1)
      BY <2>1, <3>1 DEF Seen
    <3>3. Asked(n)[i] = n.exprs[i].reads
      BY <2>1, <2>2
    <3>4. ScalarUses(n.exprs)[i] = Indices(schema \o SubSeq(OutputsOf(n.exprs), 1, i - 1), n.exprs[i].reads)
      BY <2>2 DEF ScalarUses
    <3>5. Seen(n, schema, i) \in Seq(Nat) /\ Asked(n)[i] \in Seq(Nat)
      BY <2>3, <2>4, SeenIs
    <3>6. PICK f, g : f = Seen(n, schema, i) /\ g = Asked(n)[i]
      OBVIOUS
    <3>7. ScalarUses(n.exprs)[i] = Indices(f, g)
      BY <3>2, <3>3, <3>4, <3>6, Zenon
    <3>8. f \in Seq(Nat) /\ g \in Seq(Nat)
      BY <3>5, <3>6
    <3>9. Indices(f, g) \in Seq(Nat)
      BY ONLY <3>8, IndicesAre
    <3> QED
      BY <3>6, <3>7, <3>9, Zenon
  <2>6. ScalarUses(n.exprs) \in [1..m -> Seq(Nat)]
    BY <2>2, <2>5 DEF ScalarUses
  <2>7. ScalarUses(n.exprs) \in Seq(Seq(Nat)) /\ Len(ScalarUses(n.exprs)) = m
    BY <2>6, IsSequence
  <2> QED
    BY <2>1, <2>3, <2>5, <2>7
<1>8. CASE n.kind = "aggregate"
  <2>1. n.by \in Seq(Nat) /\ n.exprs \in Seq(Expression) /\ Made(n) = <<>>
        /\ Asked(n) = <<n.by>> \o [i \in DOMAIN n.exprs |-> n.exprs[i].reads]
        /\ LookedUp(n) = <<Indices(schema, n.by)>>
                           \o [i \in DOMAIN n.exprs |-> Indices(schema, n.exprs[i].reads)]
    BY <1>8, NodeIs, AskedIs DEF LookedUp, Made
  <2>2. PICK m \in Nat : m = Len(n.exprs) /\ DOMAIN n.exprs = 1..m
    BY <2>1, LenProperties
  <2>3. PICK u, v : /\ u = [i \in DOMAIN n.exprs |-> n.exprs[i].reads]
                    /\ v = [i \in DOMAIN n.exprs |-> Indices(schema, n.exprs[i].reads)]
    OBVIOUS
  <2>4. u \in Seq(Seq(Nat)) /\ Len(u) = m
    BY <2>1, <2>2, <2>3, ExpressionsAre
  <2>5. \A i \in 1..m : u[i] \in Seq(Nat) /\ v[i] = Indices(schema, u[i])
    BY <2>2, <2>3, <2>4, ElementOfSeq
  <2>6. \A i \in 1..m : v[i] \in Seq(Nat)
    BY <2>5, IndicesAre
  <2>7. v \in [1..m -> Seq(Nat)]
    BY <2>2, <2>3, <2>6
  <2>8. v \in Seq(Seq(Nat)) /\ Len(v) = m
    BY <2>7, IsSequence
  <2>9. PICK b, c : b = n.by /\ c = Indices(schema, n.by)
    OBVIOUS
  <2>10. b \in Seq(Nat) /\ c \in Seq(Nat)
    BY <2>1, <2>9, IndicesAre
  <2>11. /\ <<b>> \in Seq(Seq(Nat)) /\ Len(<<b>>) = 1 /\ <<b>>[1] = b
         /\ <<c>> \in Seq(Seq(Nat)) /\ Len(<<c>>) = 1 /\ <<c>>[1] = c
    BY <2>10
  <2>17. PICK p, q, x, y : p = <<b>> /\ q = <<c>> /\ x = p \o u /\ y = q \o v
    OBVIOUS
  <2>18. /\ p \in Seq(Seq(Nat)) /\ Len(p) = 1 /\ p[1] = b
         /\ q \in Seq(Seq(Nat)) /\ Len(q) = 1 /\ q[1] = c
    BY <2>11, <2>17
  <2>19. u \in Seq(Seq(Nat)) /\ v \in Seq(Seq(Nat))
    BY <2>4, <2>8
  <2>20. /\ p \o u \in Seq(Seq(Nat)) /\ Len(p \o u) = Len(p) + Len(u)
         /\ \A i \in 1..(Len(p) + Len(u)) : (p \o u)[i] = IF i <= Len(p) THEN p[i] ELSE u[i - Len(p)]
    BY ONLY <2>18, <2>19, ConcatProperties
  <2>21. /\ q \o v \in Seq(Seq(Nat)) /\ Len(q \o v) = Len(q) + Len(v)
         /\ \A i \in 1..(Len(q) + Len(v)) : (q \o v)[i] = IF i <= Len(q) THEN q[i] ELSE v[i - Len(q)]
    BY ONLY <2>18, <2>19, ConcatProperties
  <2>12. /\ y \in Seq(Seq(Nat)) /\ Len(y) = 1 + m /\ Len(x) = 1 + m
         /\ \A i \in 1..(1 + m) : y[i] = IF i <= 1 THEN c ELSE v[i - 1]
         /\ \A i \in 1..(1 + m) : x[i] = IF i <= 1 THEN b ELSE u[i - 1]
    <3>1. \A i \in 1..(1 + m) : i <= 1 => i = 1
      OBVIOUS
    <3> QED
      BY <2>4, <2>8, <2>17, <2>18, <2>20, <2>21, <3>1
  <2>14. ASSUME NEW i \in 1..(1 + m)
         PROVE  y[i] = Indices(schema, x[i])
    <3>1. CASE i = 1
      BY <2>9, <2>12, <3>1
    <3>2. CASE i # 1
      <4>1. i - 1 \in 1..m /\ ~(i <= 1)
        BY <3>2
      <4>2. y[i] = v[i - 1] /\ x[i] = u[i - 1]
        BY <2>12, <4>1
      <4> QED
        BY <2>5, <4>1, <4>2
    <3> QED
      BY <3>1, <3>2
  <2>15. \A i : Seen(n, schema, i) = schema
    BY <2>1, SeenAll
  <2>16. Asked(n) = x /\ LookedUp(n) = y
    BY <2>1, <2>3, <2>9, <2>17
  <2> QED
    BY <2>12, <2>14, <2>15, <2>16
<1> QED
  BY <1>1, <1>3, <1>4, <1>5, <1>6, <1>7, <1>8, NodeIs DEF Kinds

-----------------------------------------------------------------------------
(* Positions and columns. *)

\* The positions are those of the columns the operator is to find.
Fits(n, fields, uses) == Behind(fields, Made(n), uses) = Wanted(n, fields)

\* The columns behind a node, of those its child delivers.
Delivers(n, fields) ==
  CASE n.kind = "aggregate" -> n.by \o OutputsOf(n.exprs)
    [] n.kind = "drop"      -> Wanted(n, fields)[1]
    [] n.kind = "reorder"   -> n.order
    [] OTHER                -> fields \o Made(n)

\* A position that was not found is a zero.
LEMMA FoundIs ==
  ASSUME NEW n \in Node, schema \in Seq(Nat)
  PROVE  0 \notin Range(FlattenSeq(LookedUp(n)))
           <=> \A i \in 1..Len(Asked(n)) : \A j \in 1..Len(Asked(n)[i]) : LookedUp(n)[i][j] # 0
<1>1. PICK l : l = LookedUp(n)
  OBVIOUS
<1>2. PICK a : a = Asked(n)
  OBVIOUS
<1>3. a \in Seq(Seq(Nat)) /\ l \in Seq(Seq(Nat)) /\ Len(l) = Len(a)
      /\ \A i \in 1..Len(a) : l[i] = Indices(Seen(n, schema, i), a[i])
  BY <1>1, <1>2, AskedIs, LookedUpIs
<1>4. PICK m \in Nat : m = Len(l) /\ m = Len(a) /\ DOMAIN l = 1..m /\ DOMAIN a = 1..m
  BY <1>3, LenProperties
<1>5. ASSUME NEW i \in 1..m
      PROVE  l[i] \in Seq(Nat) /\ a[i] \in Seq(Nat) /\ Len(l[i]) = Len(a[i])
  <2>1. l[i] \in Seq(Nat) /\ a[i] \in Seq(Nat)
    BY <1>3, <1>4, ElementOfSeq
  <2>2. Made(n) # <<>> => m = Len(Made(n))
    BY <1>2, <1>4, AskedIs
  <2>3. Seen(n, schema, i) \in Seq(Nat)
    <3>1. CASE Made(n) = <<>>
      BY <3>1, SeenAll
    <3>2. CASE Made(n) # <<>>
      <4>1. i \in 1..(Len(Made(n)) + 1)
        BY <2>2, <3>2
      <4> QED
        BY <4>1, SeenIs
    <3> QED
      BY <3>1, <3>2
  <2>4. PICK f, g : f = Seen(n, schema, i) /\ g = a[i]
    OBVIOUS
  <2>5. f \in Seq(Nat) /\ g \in Seq(Nat)
    BY <2>1, <2>3, <2>4
  <2>6. Len(Indices(f, g)) = Len(g)
    BY ONLY <2>5, IndicesAre
  <2> QED
    BY <1>3, <1>4, <2>1, <2>4, <2>6
<1>6. Range(FlattenSeq(l)) = ToSet(FlattenSeq(l)) /\ ToSet(FlattenSeq(l)) = Members(l)
  BY <1>3, FlattenMembers DEF Range, ToSet
<1>7. \A i \in 1..m : DOMAIN l[i] = 1..Len(a[i])
  BY <1>5, LenProperties
<1>8. 0 \in Members(l) <=> \E i \in 1..m : \E j \in 1..Len(a[i]) : l[i][j] = 0
  <2>1. 0 \in Members(l) <=> \E i \in 1..m : 0 \in ToSet(l[i])
    BY <1>4 DEF Members
  <2>2. \A i \in 1..m : 0 \in ToSet(l[i]) <=> \E j \in 1..Len(a[i]) : l[i][j] = 0
    BY <1>7 DEF ToSet
  <2> QED
    BY <2>1, <2>2, Zenon
<1> QED
  BY <1>1, <1>2, <1>4, <1>6, <1>8

\* What an expression sees, and what it asks for.
LEMMA SeesIs ==
  ASSUME NEW n \in Node, schema \in Seq(Nat), NEW i \in 1..Len(Asked(n))
  PROVE  /\ Seen(n, schema, i) \in Seq(Nat)
         /\ Range(schema) \subseteq Range(Seen(n, schema, i))
         /\ Asked(n)[i] \in Seq(Nat)
<1>1. Asked(n) \in Seq(Seq(Nat))
  BY AskedIs
<1>2. Asked(n)[i] \in Seq(Nat)
  BY <1>1, ElementOfSeq
<1>3. CASE Made(n) = <<>>
  BY <1>2, <1>3, SeenAll
<1>4. CASE Made(n) # <<>>
  <2>1. Len(Asked(n)) = Len(Made(n)) /\ Len(Made(n)) \in Nat
    BY <1>4, AskedIs, MadeIs, LenProperties
  <2>2. i \in 1..(Len(Made(n)) + 1)
    BY <2>1
  <2> QED
    BY <1>2, <2>2, SeenIs
<1> QED
  BY <1>3, <1>4

\* If a name is not found, it is not one of the child's columns.
LEMMA NotFoundIs ==
  ASSUME NEW n \in Node, schema \in Seq(Nat), 0 \in Range(FlattenSeq(LookedUp(n)))
  PROVE  \E i \in 1..Len(Asked(n)) : \E j \in 1..Len(Asked(n)[i]) : Asked(n)[i][j] \notin Range(schema)
<1>1. PICK i \in 1..Len(Asked(n)) : \E j \in 1..Len(Asked(n)[i]) : LookedUp(n)[i][j] = 0
  BY FoundIs
<1>2. PICK j \in 1..Len(Asked(n)[i]) : LookedUp(n)[i][j] = 0
  BY <1>1
<1>3. PICK f, g : f = Seen(n, schema, i) /\ g = Asked(n)[i]
  OBVIOUS
<1>4. f \in Seq(Nat) /\ g \in Seq(Nat) /\ Range(schema) \subseteq Range(f)
  BY <1>3, SeesIs
<1>5. LookedUp(n)[i] = Indices(f, g)
  BY <1>3, LookedUpIs
<1>6. g[j] \notin Range(f)
  <2>1. \A k \in 1..Len(g) :
          \/ Indices(f, g)[k] = 0 /\ g[k] \notin Range(f)
          \/ /\ Indices(f, g)[k] # 0
             /\ Indices(f, g)[k] \in DOMAIN f
             /\ f[Indices(f, g)[k]] = g[k]
    BY ONLY <1>4, IndicesAre
  <2> QED
    BY <1>2, <1>3, <1>5, <2>1
<1> QED
  BY <1>3, <1>4, <1>6

\* If all names are found, the positions fit.
LEMMA LookupsFit ==
  ASSUME NEW n \in Node, n.kind # "drop", schema \in Seq(Nat),
         0 \notin Range(FlattenSeq(LookedUp(n)))
  PROVE  Fits(n, schema, LookedUp(n))
<1>1. PICK a, l : a = Asked(n) /\ l = LookedUp(n)
  OBVIOUS
<1>2. /\ a \in Seq(Seq(Nat)) /\ l \in Seq(Seq(Nat)) /\ Len(l) = Len(a)
      /\ \A i \in 1..Len(a) : l[i] = Indices(Seen(n, schema, i), a[i])
      /\ \A i \in 1..Len(a) : \A j \in 1..Len(a[i]) : l[i][j] # 0
  BY <1>1, AskedIs, LookedUpIs, FoundIs
<1>3. PICK m \in Nat : m = Len(a) /\ DOMAIN l = 1..m /\ DOMAIN a = 1..m
  BY <1>2, LenProperties
<1> DEFINE found(i) == [j \in DOMAIN l[i] |->
                          IF l[i][j] \in DOMAIN Seen(n, schema, i)
                            THEN Seen(n, schema, i)[l[i][j]] ELSE NoColumn]
<1>4. Behind(schema, Made(n), l) = [i \in DOMAIN l |-> found(i)]
  BY DEF Behind, Seen
<1>5. ASSUME NEW i \in 1..m
      PROVE  found(i) = a[i]
  <2>1. PICK f, g, u : f = Seen(n, schema, i) /\ g = a[i] /\ u = l[i]
    OBVIOUS
  <2>2. f \in Seq(Nat) /\ g \in Seq(Nat)
    BY <1>1, <1>3, <2>1, SeesIs
  <2>3. u = Indices(f, g)
    BY <1>2, <1>3, <2>1
  <2>4. /\ Indices(f, g) \in Seq(Nat) /\ Len(Indices(f, g)) = Len(g)
        /\ \A j \in 1..Len(g) :
             \/ Indices(f, g)[j] = 0 /\ g[j] \notin Range(f)
             \/ /\ Indices(f, g)[j] # 0
                /\ Indices(f, g)[j] \in DOMAIN f
                /\ f[Indices(f, g)[j]] = g[j]
    BY ONLY <2>2, IndicesAre
  <2>5. PICK k \in Nat : k = Len(g) /\ DOMAIN g = 1..k /\ DOMAIN u = 1..k
    BY <2>2, <2>3, <2>4, LenProperties
  <2>6. \A j \in 1..k : u[j] \in DOMAIN f /\ f[u[j]] = g[j]
    <3>1. \A j \in 1..k : u[j] # 0
      BY <1>2, <1>3, <2>1, <2>5
    <3> QED
      BY <2>3, <2>4, <2>5, <3>1
  <2>7. found(i) = [j \in DOMAIN u |-> IF u[j] \in DOMAIN f THEN f[u[j]] ELSE NoColumn]
    BY <2>1, Zenon
  <2>8. g \in [1..k -> Nat]
    BY <2>2, <2>5, LenProperties
  <2>9. g = [j \in 1..k |-> g[j]]
    BY <2>8
  <2>10. [j \in DOMAIN u |-> IF u[j] \in DOMAIN f THEN f[u[j]] ELSE NoColumn] = [j \in 1..k |-> g[j]]
    BY <2>5, <2>6, Zenon
  <2> QED
    BY <2>1, <2>7, <2>9, <2>10, Zenon
<1>6. a \in [1..m -> Seq(Nat)]
  BY <1>2, <1>3, LenProperties
<1>7. a = [i \in 1..m |-> a[i]]
  BY <1>6
<1>8. [i \in DOMAIN l |-> found(i)] = [i \in 1..m |-> a[i]]
  BY <1>3, <1>5, Zenon
<1>9. Wanted(n, schema) = a
  BY <1>1, NodeIs DEF Wanted, Asked, Kinds
<1> QED
  BY <1>1, <1>4, <1>7, <1>8, <1>9, Zenon DEF Fits

\* A Drop's positions fit, those of the columns it keeps.
LEMMA DropFits ==
  ASSUME NEW n \in Node, n.kind = "drop", NEW fields, fields \in Seq(Nat)
  PROVE  LET kept == Kept(fields, n.columns)
         IN /\ kept \in Seq(Nat)
            /\ Fits(n, fields, <<kept>>)
            /\ Delivers(n, fields) = [i \in DOMAIN kept |-> fields[kept[i]]]
            /\ Delivers(n, fields) \in Seq(Nat)
            /\ Range(Delivers(n, fields)) = Range(fields) \ Range(n.columns)
<1>1. PICK k, left : /\ k = Kept(fields, n.columns)
                     /\ left = FlattenSeq([i \in DOMAIN fields |->
                                 IF fields[i] \in Range(n.columns) THEN <<>> ELSE <<fields[i]>>])
  OBVIOUS
<1>2. /\ k \in Seq(Nat) /\ left \in Seq(Nat)
      /\ Range(k) = {i \in DOMAIN fields : fields[i] \notin Range(n.columns)}
      /\ Range(left) = Range(fields) \ Range(n.columns)
      /\ left = [i \in DOMAIN k |-> fields[k[i]]]
  <2>1. PICK d : d = n.columns
    OBVIOUS
  <2>2. LET kept == Kept(fields, d)
            gone == FlattenSeq([i \in DOMAIN fields |->
                                  IF fields[i] \in Range(d) THEN <<>> ELSE <<fields[i]>>])
        IN /\ kept \in Seq(Nat) /\ gone \in Seq(Nat)
           /\ Range(kept) = {i \in DOMAIN fields : fields[i] \notin Range(d)}
           /\ Range(gone) = Range(fields) \ Range(d)
           /\ gone = [i \in DOMAIN kept |-> fields[kept[i]]]
    BY KeptIs
  <2> QED
    BY <1>1, <2>1, <2>2, Zenon
<1>3. Wanted(n, fields) = <<left>> /\ Made(n) = <<>>
  BY <1>1 DEF Wanted, Made
<1>4. Delivers(n, fields) = left
  BY <1>3 DEF Delivers
<1>5. \A i \in DOMAIN k : k[i] \in DOMAIN fields
  BY <1>2 DEF Range
<1>6. Fits(n, fields, <<k>>)
  <2>1. fields \o SubSeq(<<>>, 1, 0) = fields
    BY SubSeqEmpty, ConcatEmptySeq
  <2>0. PICK w : w = <<k>>
    OBVIOUS
  <2>2. Behind(fields, <<>>, w)
          = [i \in DOMAIN w |-> [j \in DOMAIN w[i] |->
               IF w[i][j] \in DOMAIN fields THEN fields[w[i][j]] ELSE NoColumn]]
    BY <2>1 DEF Behind
  <2>3. DOMAIN w = 1..1 /\ \A i \in 1..1 : w[i] = k
    <3>1. DOMAIN <<k>> = 1..1 /\ <<k>>[1] = k /\ \A i \in 1..1 : i = 1
      OBVIOUS
    <3> QED
      BY <2>0, <3>1, Zenon
  <2>4. [j \in DOMAIN k |-> IF k[j] \in DOMAIN fields THEN fields[k[j]] ELSE NoColumn] = left
    BY <1>2, <1>5, Zenon
  <2>5. Behind(fields, <<>>, w) = [i \in 1..1 |-> left]
    BY <2>2, <2>3, <2>4, Zenon
  <2>6. [i \in 1..1 |-> left] = <<left>>
    OBVIOUS
  <2> QED
    BY <1>3, <2>0, <2>5, <2>6, Zenon DEF Fits
<1> QED
  BY <1>1, <1>2, <1>4, <1>6

\* What a node delivers, and its names.
LEMMA DeliversIs ==
  ASSUME NEW n \in Node, NEW fields, fields \in Seq(Nat)
  PROVE  /\ Delivers(n, fields) \in Seq(Nat)
         /\ n.kind \in {"scan", "filter", "limit", "orderby"} =>
              Delivers(n, fields) = fields
         /\ n.kind = "scalar" =>
              /\ Delivers(n, fields) = fields \o OutputsOf(n.exprs)
              /\ Range(Delivers(n, fields)) = Range(fields) \cup Range(OutputsOf(n.exprs))
         /\ n.kind = "drop" => Range(Delivers(n, fields)) = Range(fields) \ Range(n.columns)
         /\ n.kind = "reorder" => Delivers(n, fields) = n.order
         /\ n.kind = "aggregate" =>
              Range(Delivers(n, fields)) = Range(n.by) \cup Range(OutputsOf(n.exprs))
<1>1. CASE n.kind \in {"scan", "filter", "limit", "orderby"}
  <2>1. Delivers(n, fields) = fields \o <<>>
    BY <1>1 DEF Delivers, Made
  <2>2. fields \o <<>> = fields
    BY ConcatEmptySeq
  <2> QED
    BY <1>1, <2>1, <2>2
<1>2. ASSUME NEW x, x \in Seq(Nat), NEW y, y \in Seq(Nat)
      PROVE  x \o y \in Seq(Nat) /\ Range(x \o y) = Range(x) \cup Range(y)
  <2>1. x \o y \in Seq(Nat) /\ ToSet(x \o y) = ToSet(x) \cup ToSet(y)
    BY <1>2, ConcatMembers, ConcatProperties
  <2> QED
    BY <2>1 DEF ToSet, Range
<1>3. CASE n.kind = "scalar"
  <2>1. Delivers(n, fields) = fields \o OutputsOf(n.exprs)
    BY <1>3 DEF Delivers, Made
  <2>2. OutputsOf(n.exprs) \in Seq(Nat)
    BY <1>3, NodeIs, ExpressionsAre
  <2> QED
    BY <1>2, <1>3, <2>1, <2>2
<1>4. CASE n.kind = "aggregate"
  <2>1. Delivers(n, fields) = n.by \o OutputsOf(n.exprs)
    BY <1>4 DEF Delivers
  <2>2. OutputsOf(n.exprs) \in Seq(Nat) /\ n.by \in Seq(Nat)
    BY <1>4, NodeIs, ExpressionsAre
  <2> QED
    BY <1>2, <1>4, <2>1, <2>2
<1>5. CASE n.kind = "drop"
  BY <1>5, DropFits
<1>6. CASE n.kind = "reorder"
  BY <1>6, NodeIs DEF Delivers
<1> QED
  BY <1>1, <1>3, <1>4, <1>5, <1>6, NodeIs DEF Kinds

-----------------------------------------------------------------------------
(* The building actions. *)

Movers == {"filter", "limit", "scalar", "drop", "reorder"}

\* A transform's positions and the schema behind it, as the node asks for.
Suits(n, fields, uses, output) ==
  /\ uses \in Seq(Seq(Nat))
  /\ n.kind \in {"drop", "reorder"} => Len(uses) = 1
  /\ Fits(n, fields, uses)
  /\ output = Delivers(n, fields)
  /\ output \in Seq(Nat)

\* Each node that stays in its pipeline adds a transform that suits.
LEMMA TransformIsBuilt ==
  ASSUME schema \in Seq(Nat), plan[node] \in Node,
         BuildFilter \/ BuildLimit \/ BuildScalar \/ BuildDrop \/ BuildReorder
  PROVE  \E kind, uses, output : /\ kind \in Movers
                                 /\ BuildTransform(kind, uses, output)
                                 /\ Suits(plan[node], schema, uses, output)
<1> DEFINE n == plan[node]
<1>1. Delivers(n, schema) \in Seq(Nat) /\ LookedUp(n) \in Seq(Seq(Nat))
  BY DeliversIs, LookedUpIs
<1>2. ASSUME NEW kind, NEW uses, NEW output, BuildTransform(kind, uses, output)
      PROVE  n.kind = kind /\ 0 \notin Range(FlattenSeq(LookedUp(n)))
  BY <1>2 DEF BuildTransform, AllFound
<1>3. CASE BuildFilter
  <2>1. BuildTransform("filter", LookedUp(n), schema)
    BY <1>3 DEF BuildFilter
  <2>2. n.kind = "filter" /\ Fits(n, schema, LookedUp(n)) /\ schema = Delivers(n, schema)
    BY <1>2, <2>1, LookupsFit, DeliversIs
  <2> QED
    BY <1>1, <2>1, <2>2 DEF Suits, Movers
<1>4. CASE BuildLimit
  <2>1. BuildTransform("limit", <<>>, schema)
    BY <1>4 DEF BuildLimit
  <2>2. n.kind = "limit" /\ schema = Delivers(n, schema)
    BY <1>2, <2>1, DeliversIs
  <2>3. Fits(n, schema, <<>>)
    <3>1. Wanted(n, schema) = <<>> /\ Made(n) = <<>>
      BY <2>2 DEF Wanted, Made
    <3>2. Behind(schema, <<>>, <<>>) = <<>>
      BY DEF Behind
    <3> QED
      BY <3>1, <3>2 DEF Fits
  <2>4. Suits(n, schema, <<>>, schema)
    <3>1. <<>> \in Seq(Seq(Nat))
      BY EmptySeq
    <3> QED
      BY <2>2, <2>3, <3>1 DEF Suits
  <2>5. "limit" \in Movers
    BY DEF Movers
  <2> QED
    BY <2>1, <2>4, <2>5, Zenon
<1>5. CASE BuildScalar
  <2>1. BuildTransform("scalar", ScalarUses(n.exprs), schema \o OutputsOf(n.exprs))
    BY <1>5 DEF BuildScalar
  <2>2. n.kind = "scalar" /\ Fits(n, schema, LookedUp(n)) /\ schema \o OutputsOf(n.exprs) = Delivers(n, schema)
    BY <1>2, <2>1, LookupsFit, DeliversIs, ZenonT(60)
  <2>3. LookedUp(n) = ScalarUses(n.exprs)
    BY <2>2 DEF LookedUp
  <2> QED
    BY <1>1, <2>1, <2>2, <2>3 DEF Suits, Movers
<1>6. CASE BuildDrop
  <2>1. PICK kept : kept = Kept(schema, n.columns)
    OBVIOUS
  <2>2. BuildTransform("drop", <<kept>>, [i \in DOMAIN kept |-> schema[kept[i]]])
    BY <1>6, <2>1 DEF BuildDrop
  <2>3. n.kind = "drop"
    BY <1>2, <2>2
  <2>4. PICK output : output = [i \in DOMAIN kept |-> schema[kept[i]]]
    OBVIOUS
  <2>5. /\ kept \in Seq(Nat) /\ Fits(n, schema, <<kept>>)
        /\ Delivers(n, schema) = output
    <3>1. LET k == Kept(schema, n.columns)
          IN /\ k \in Seq(Nat)
             /\ Fits(n, schema, <<k>>)
             /\ Delivers(n, schema) = [i \in DOMAIN k |-> schema[k[i]]]
      BY <2>3, DropFits
    <3> QED
      BY <2>1, <2>4, <3>1, Zenon
  <2>6. <<kept>> \in Seq(Seq(Nat)) /\ Len(<<kept>>) = 1
    BY <2>5
  <2>7. Suits(n, schema, <<kept>>, output)
    BY <1>1, <2>5, <2>6 DEF Suits
  <2>8. "drop" \in Movers /\ BuildTransform("drop", <<kept>>, output)
    BY <2>2, <2>4, Zenon DEF Movers
  <2> QED
    BY <2>7, <2>8, Zenon
<1>7. CASE BuildReorder
  <2>1. BuildTransform("reorder", LookedUp(n), n.order)
    BY <1>7 DEF BuildReorder
  <2>2. n.kind = "reorder" /\ Fits(n, schema, LookedUp(n)) /\ n.order = Delivers(n, schema)
    BY <1>2, <2>1, LookupsFit, DeliversIs
  <2>3. Len(LookedUp(n)) = 1
    <3>1. LookedUp(n) = <<Indices(schema, n.order)>>
      BY <2>2 DEF LookedUp
    <3> QED
      BY <3>1
  <2> QED
    BY <1>1, <2>1, <2>2, <2>3 DEF Suits, Movers
<1> QED
  BY <1>3, <1>4, <1>5, <1>6, <1>7

\* And each breaker ends its inner pipeline in one that does.
LEMMA BreakerIsBuilt ==
  ASSUME schema \in Seq(Nat), plan[node] \in Node, BuildAggregate \/ BuildOrderBy
  PROVE  \E kind, output : /\ kind \in Breakers
                           /\ BuildBreaker(kind, output)
                           /\ Suits(plan[node], schema, LookedUp(plan[node]), output)
<1> DEFINE n == plan[node]
<1>1. Delivers(n, schema) \in Seq(Nat) /\ LookedUp(n) \in Seq(Seq(Nat))
  BY DeliversIs, LookedUpIs
<1>2. ASSUME NEW kind, NEW output, BuildBreaker(kind, output)
      PROVE  n.kind = kind /\ 0 \notin Range(FlattenSeq(LookedUp(n)))
  BY <1>2 DEF BuildBreaker, AllFound
<1>3. CASE BuildAggregate
  <2>1. BuildBreaker("aggregate", n.by \o OutputsOf(n.exprs))
    BY <1>3 DEF BuildAggregate
  <2>2. n.kind = "aggregate" /\ Fits(n, schema, LookedUp(n))
    BY <1>2, <2>1, LookupsFit
  <2>3. n.by \o OutputsOf(n.exprs) = Delivers(n, schema)
    BY <2>2 DEF Delivers
  <2> QED
    BY <1>1, <2>1, <2>2, <2>3 DEF Suits, Breakers
<1>4. CASE BuildOrderBy
  <2>1. BuildBreaker("orderby", schema)
    BY <1>4 DEF BuildOrderBy
  <2>2. n.kind = "orderby" /\ Fits(n, schema, LookedUp(n)) /\ schema = Delivers(n, schema)
    BY <1>2, <2>1, LookupsFit, DeliversIs
  <2> QED
    BY <1>1, <2>1, <2>2 DEF Suits, Breakers
<1> QED
  BY <1>3, <1>4

-----------------------------------------------------------------------------
(* The invariant of the building and of the run's types. *)

\* Transforms of a plan, pipelines made of them, and batches.
Entries(p) ==
  {e \in [node : 1..Len(p), uses : Seq(Seq(Nat))] :
     /\ p[e.node].kind \in Movers
     /\ p[e.node].kind \in {"drop", "reorder"} => Len(e.uses) = 1}

\* The breakers from node i on.
Breaking(p, i) == {k \in i..Len(p) : p[k].kind \in Breakers}

PipelinesOf(p) == [source : 0..Len(p), transforms : Seq(Entries(p)),
                   sink : {0} \cup Breaking(p, 1), uses : Seq(Seq(Nat))]

Batches == [columns : Seq(Nat), rows : BOOLEAN]

\* Finitely many names.
FiniteNames(A) == A \in SUBSET Nat /\ IsFiniteSet(A)

\* TypeOK, with what transforms, frames and results are: what is built, and what runs.
TypedBuilding ==
  /\ plan \in Plans /\ node \in 1..Len(plan)
  /\ FiniteNames(required)
  /\ pipelines \in Seq(PipelinesOf(plan)) /\ current \in 1..Len(pipelines)
  /\ frames \in Seq([outer : Nat, inner : Nat])
  /\ completed \in Seq(Nat) /\ \A k \in 1..Len(completed) : completed[k] \in 1..Len(pipelines)
  /\ schema \in Seq(Nat)

TypedRunning ==
  /\ at \in Place
  /\ running \in 0..Len(completed)
  /\ batch \in Batches /\ rest \in Seq(Entries(plan))
  /\ results \in [0..Len(plan) -> Batches]

\* The stack has a frame for each of them: pipelines are nested.
Stacked(i) ==
  /\ current = Len(frames) + 1
  /\ \A j \in 1..Len(frames) : frames[j] = [outer |-> j, inner |-> j + 1]
  /\ Cardinality(Breaking(plan, i)) = Len(frames)

\* The pipelines q from the last to number c are the nodes 1 to top of the plan,
\* each ending where the next one starts; those below c are not begun.
ChainOf(q, c, top) ==
  /\ q[Len(q)].source = 1
  /\ \A k \in c..Len(q) : \A i \in 1..Len(q[k].transforms) :
       q[k].transforms[i].node = q[k].source + i
  /\ \A k \in (c + 1)..Len(q) : /\ q[k].sink = q[k].source + Len(q[k].transforms) + 1
                                /\ q[k - 1].source = q[k].sink
  /\ q[c].sink = 0
  /\ q[c].source + Len(q[c].transforms) = top
  /\ \A k \in 1..(c - 1) : q[k] = NewPipeline

\* The last m pipelines are completed, the innermost first.
CompletedLast(m) ==
  /\ Len(completed) = m
  /\ \A k \in 1..m : completed[k] = Len(pipelines) + 1 - k

Control ==
  /\ TypedBuilding /\ TypedRunning
  /\ at = "down" => /\ Stacked(node + 1)
                    /\ current = Len(pipelines)
                    /\ \A k \in 1..Len(pipelines) : pipelines[k] = NewPipeline
                    /\ completed = <<>> /\ running = 0
                    /\ results = [i \in 0..Len(plan) |-> NoBatch]
  /\ at = "up" => /\ node > 1 /\ running = 0 /\ Stacked(node)
                  /\ ChainOf(pipelines, current, node - 1)
                  /\ CompletedLast(Len(pipelines) - current)
  /\ Built => /\ ChainOf(pipelines, current, Len(plan))
              /\ CompletedLast(Len(pipelines) - current + 1)
              /\ running > 0

-----------------------------------------------------------------------------
(* Chains of pipelines. *)

\* The shape of a pipeline's record, whatever its plan.
IsPipeline(r) == /\ r.source \in Nat /\ r.sink \in Nat
                 /\ Len(r.transforms) \in Nat

\* Of q, only pipeline c is another: r.
OneChanged(q, s, c, r) ==
  /\ Len(s) = Len(q)
  /\ s[c] = r
  /\ \A k \in 1..Len(q) : k # c => s[k] = q[k]

\* The scan begins the innermost pipeline.
LEMMA ChainBegins ==
  ASSUME NEW q, NEW s, NEW r, NEW c, c \in Nat \ {0}, Len(q) = c, OneChanged(q, s, c, r),
         \A k \in 1..c : q[k] = NewPipeline,
         r.source = 1, r.transforms = <<>>, r.sink = 0
  PROVE  ChainOf(s, c, 1)
<1>1. Len(<<>>) = 0
  OBVIOUS
<1>2. s[Len(s)].source = 1 /\ s[c].sink = 0 /\ s[c].source + Len(s[c].transforms) = 1
  BY <1>1 DEF OneChanged
<1>3. \A k \in c..Len(s) : \A i \in 1..Len(s[k].transforms) : s[k].transforms[i].node = s[k].source + i
  <2>1. \A k \in c..Len(s) : s[k].transforms = <<>>
    BY DEF OneChanged
  <2> QED
    BY <1>1, <2>1
<1>4. \A k \in (c + 1)..Len(s) : FALSE
  BY DEF OneChanged
<1>5. \A k \in 1..(c - 1) : s[k] = NewPipeline
  BY DEF OneChanged
<1> QED
  BY <1>2, <1>3, <1>4, <1>5 DEF ChainOf

\* A transform is appended to the pipeline at hand.
LEMMA ChainExtends ==
  ASSUME NEW q, NEW s, NEW r, NEW c, NEW top, c \in 1..Len(q), Len(q) \in Nat, top \in Nat,
         OneChanged(q, s, c, r), ChainOf(q, c, top), IsPipeline(q[c]),
         r.source = q[c].source, r.sink = q[c].sink,
         Len(r.transforms) = Len(q[c].transforms) + 1,
         \A i \in 1..Len(q[c].transforms) : r.transforms[i] = q[c].transforms[i],
         r.transforms[Len(q[c].transforms) + 1].node = top + 1
  PROVE  ChainOf(s, c, top + 1)
<1>1. PICK a, l, m : a = q[c].source /\ l = Len(q[c].transforms) /\ m = Len(q)
  OBVIOUS
<1>2. a \in Nat /\ l \in Nat /\ m \in Nat /\ a + l = top /\ c \in 1..m /\ Len(s) = m
  BY <1>1 DEF ChainOf, IsPipeline, OneChanged
<1>3. s[Len(s)].source = 1
  <2>1. CASE c = m
    BY <1>1, <1>2, <2>1 DEF ChainOf, OneChanged
  <2>2. CASE c # m
    BY <1>1, <1>2, <2>2 DEF ChainOf, OneChanged
  <2> QED
    BY <2>1, <2>2
<1>4. ASSUME NEW k \in c..m, NEW i \in 1..Len(s[k].transforms)
      PROVE  s[k].transforms[i].node = s[k].source + i
  <2>1. CASE k = c
    <3>1. s[k] = r /\ i \in 1..(l + 1) /\ r.source = a
      BY <1>1, <1>4, <2>1 DEF OneChanged
    <3>2. CASE i \in 1..l
      <4>1. r.transforms[i] = q[c].transforms[i]
        BY <1>1, <3>2
      <4>2. c \in c..Len(q)
        BY <1>1, <1>2
      <4>3. q[c].transforms[i].node = q[c].source + i
        BY <1>1, <3>2, <4>2 DEF ChainOf
      <4> QED
        BY <1>1, <3>1, <4>1, <4>3
    <3>3. CASE i = l + 1
      <4>1. s[k].transforms[i] = r.transforms[l + 1] /\ s[k].source = a
        BY <3>1, <3>3
      <4>2. r.transforms[l + 1].node = top + 1
        BY <1>1
      <4>3. top + 1 = a + i
        BY <1>2, <3>3
      <4> QED
        BY <4>1, <4>2, <4>3
    <3> QED
      BY <1>2, <3>1, <3>2, <3>3
  <2>2. CASE k # c
    <3>1. s[k] = q[k] /\ k \in c..Len(q)
      BY <1>1, <1>2, <2>2 DEF OneChanged
    <3> QED
      BY <3>1 DEF ChainOf
  <2> QED
    BY <2>1, <2>2
<1>5. ASSUME NEW k \in (c + 1)..m
      PROVE  s[k].sink = s[k].source + Len(s[k].transforms) + 1 /\ s[k - 1].source = s[k].sink
  <2>1. s[k] = q[k] /\ k \in (c + 1)..Len(q)
    BY <1>1, <1>2 DEF OneChanged
  <2>2. q[k].sink = q[k].source + Len(q[k].transforms) + 1 /\ q[k - 1].source = q[k].sink
    BY <2>1 DEF ChainOf
  <2>3. s[k - 1].source = q[k - 1].source
    <3>1. CASE k - 1 = c
      BY <3>1 DEF OneChanged
    <3>2. CASE k - 1 # c
      <4>1. PICK j : j = k - 1
        OBVIOUS
      <4>2. j \in 1..Len(q) /\ j # c
        BY <1>1, <1>2, <3>2, <4>1
      <4>3. s[j] = q[j]
        BY <4>2 DEF OneChanged
      <4> QED
        BY <4>1, <4>3
    <3> QED
      BY <3>1, <3>2
  <2> QED
    BY <2>1, <2>2, <2>3
<1>6. s[c].sink = 0 /\ s[c].source + Len(s[c].transforms) = top + 1
  <2>1. s[c] = r /\ r.sink = 0 /\ r.source = a /\ Len(r.transforms) = l + 1
    BY <1>1 DEF OneChanged, ChainOf
  <2> QED
    BY <1>2, <2>1
<1>7. \A k \in 1..(c - 1) : s[k] = NewPipeline
  <2>1. \A k \in 1..(c - 1) : k \in 1..Len(q) /\ k # c
    BY <1>1, <1>2
  <2> QED
    BY <2>1 DEF OneChanged, ChainOf
<1> QED
  BY <1>2, <1>3, <1>4, <1>5, <1>6, <1>7 DEF ChainOf

\* A breaker ends the inner pipeline and begins the outer one.
LEMMA ChainCloses ==
  ASSUME NEW q, NEW s, NEW c, NEW top, c \in 2..Len(q), Len(q) \in Nat, top \in Nat,
         ChainOf(q, c, top), IsPipeline(q[c]), Len(s) = Len(q),
         \A k \in 1..Len(q) : k # c /\ k # c - 1 => s[k] = q[k],
         s[c].source = q[c].source, s[c].transforms = q[c].transforms, s[c].sink = top + 1,
         s[c - 1].source = top + 1, s[c - 1].transforms = q[c - 1].transforms,
         s[c - 1].sink = q[c - 1].sink
  PROVE  ChainOf(s, c - 1, top + 1)
<1>1. PICK a, l, m : a = q[c].source /\ l = Len(q[c].transforms) /\ m = Len(q)
  OBVIOUS
<1>2. a \in Nat /\ l \in Nat /\ m \in Nat /\ a + l = top /\ c \in 2..m
  BY <1>1 DEF ChainOf, IsPipeline
<1>3. q[c - 1].transforms = <<>> /\ q[c - 1].sink = 0 /\ Len(<<>>) = 0
  <2>1. c - 1 \in 1..(c - 1)
    BY <1>2
  <2>2. q[c - 1] = NewPipeline
    BY <2>1 DEF ChainOf
  <2> QED
    BY <2>2 DEF NewPipeline
<1>4. s[m].source = 1
  <2>1. q[m].source = 1
    BY <1>1 DEF ChainOf
  <2>2. CASE m = c
    BY <2>1, <2>2
  <2>3. CASE m # c
    BY <1>1, <1>2, <2>1, <2>3
  <2> QED
    BY <2>2, <2>3
<1>5. ASSUME NEW k \in (c - 1)..m, NEW i \in 1..Len(s[k].transforms)
      PROVE  s[k].transforms[i].node = s[k].source + i
  <2>1. CASE k = c - 1
    BY <1>3, <1>5, <2>1
  <2>2. CASE k # c - 1
    <3>1. k \in c..Len(q) /\ s[k].transforms = q[k].transforms /\ s[k].source = q[k].source
      <4>1. k \in c..m
        BY <1>2, <2>2
      <4>2. CASE k = c
        BY <1>1, <4>1, <4>2
      <4>3. CASE k # c
        BY <1>1, <1>2, <2>2, <4>1, <4>3
      <4> QED
        BY <4>2, <4>3
    <3> QED
      BY <1>5, <3>1 DEF ChainOf
  <2> QED
    BY <2>1, <2>2
<1>6. ASSUME NEW k \in ((c - 1) + 1)..m
      PROVE  s[k].sink = s[k].source + Len(s[k].transforms) + 1 /\ s[k - 1].source = s[k].sink
  <2>1. CASE k = c
    <3>1. s[k].sink = top + 1 /\ s[k - 1].source = top + 1 /\ s[k].source = a /\ Len(s[k].transforms) = l
      BY <1>1, <2>1
    <3> QED
      BY <1>2, <3>1
  <2>2. CASE k # c
    <3>1. k \in (c + 1)..Len(q) /\ s[k] = q[k]
      BY <1>1, <1>2, <2>2
    <3>2. q[k].sink = q[k].source + Len(q[k].transforms) + 1 /\ q[k - 1].source = q[k].sink
      BY <3>1 DEF ChainOf
    <3>3. s[k - 1].source = q[k - 1].source
      <4>1. CASE k - 1 = c
        BY <4>1
      <4>2. CASE k - 1 # c
        <5>1. PICK j : j = k - 1
          OBVIOUS
        <5>2. j \in 1..Len(q) /\ j # c /\ j # c - 1
          BY <1>1, <1>2, <2>2, <4>2, <5>1
        <5>3. s[j] = q[j]
          BY <5>2
        <5> QED
          BY <5>1, <5>3
      <4> QED
        BY <4>1, <4>2
    <3> QED
      BY <3>1, <3>2, <3>3
  <2> QED
    BY <2>1, <2>2
<1>7. s[c - 1].sink = 0 /\ s[c - 1].source + Len(s[c - 1].transforms) = top + 1
  BY <1>2, <1>3
<1>8. \A k \in 1..((c - 1) - 1) : s[k] = NewPipeline
  <2>1. \A k \in 1..((c - 1) - 1) : k \in 1..Len(q) /\ k # c /\ k # c - 1 /\ k \in 1..(c - 1)
    BY <1>1, <1>2, SMTT(30)
  <2> QED
    BY <2>1 DEF ChainOf
<1> QED
  BY <1>1, <1>4, <1>5, <1>6, <1>7, <1>8, ZenonT(60) DEF ChainOf

-----------------------------------------------------------------------------
(* Control holds. *)

\* A plan is a sequence of nodes that begins with a scan.
LEMMA PlanIs ==
  ASSUME NEW p \in Plans
  PROVE  /\ p \in Seq(Node) /\ Len(p) \in Nat \ {0} /\ DOMAIN p = 1..Len(p)
         /\ \A i \in 1..Len(p) : p[i] \in Node /\ p[i].kind \in Kinds /\ (p[i].kind = "scan" <=> i = 1)
<1>1. p \in Seq(Node) /\ p # <<>> /\ \A i \in DOMAIN p : p[i].kind = "scan" <=> i = 1
  BY PlannerAssumption
<1>2. Len(p) \in Nat /\ DOMAIN p = 1..Len(p) /\ \A i \in 1..Len(p) : p[i] \in Node
  BY <1>1, LenProperties, ElementOfSeq
<1>3. Len(p) # 0
  BY <1>1, EmptySeq
<1> QED
  BY <1>1, <1>2, <1>3, NodeIs

\* A sequence has finitely many elements.
LEMMA RangeIs ==
  ASSUME NEW S, NEW s, s \in Seq(S)
  PROVE  Range(s) \in SUBSET S /\ IsFiniteSet(Range(s))
<1>1. PICK m \in Nat : m = Len(s) /\ DOMAIN s = 1..m
  BY LenProperties
<1>2. Range(s) = {s[j] : j \in 1..m}
  BY <1>1 DEF Range
<1>3. IsFiniteSet({s[j] : j \in 1..m})
  BY FirstElements
<1>4. \A j \in 1..m : s[j] \in S
  BY <1>1, ElementOfSeq
<1> QED
  BY <1>2, <1>3, <1>4

\* A node needs finitely many columns.
LEMMA NeededIs ==
  ASSUME NEW n \in Node, NEW above, FiniteNames(above)
  PROVE  FiniteNames(Needed(n, above))
<1>1. ASSUME NEW exprs \in Seq(Expression)
      PROVE  FiniteNames(ReadsOf(exprs))
  <2>1. PICK m \in Nat : m = Len(exprs) /\ DOMAIN exprs = 1..m
    BY LenProperties
  <2>2. \A i \in 1..m : exprs[i].reads \in Seq(Nat)
    BY <2>1, ExpressionsAre
  <2> DEFINE v == [i \in 1..m |-> Range(exprs[i].reads)]
             R == {v[i] : i \in 1..m}
  <2>3. \A i \in 1..m : v[i] \in SUBSET Nat /\ IsFiniteSet(v[i])
    BY <2>2, RangeIs
  <2>4. ReadsOf(exprs) = UNION R
    BY <2>1 DEF ReadsOf
  <2> HIDE DEF v
  <2>5. IsFiniteSet(R)
    BY FirstElements
  <2>6. IsFiniteSet(UNION R)
    BY <2>3, <2>5, FS_UNION
  <2> QED
    BY <2>3, <2>4, <2>6 DEF FiniteNames
<1>2. /\ \A A, B : FiniteNames(A) /\ FiniteNames(B) => FiniteNames(A \cup B) /\ FiniteNames(A \ B)
      /\ \A x : x \in Seq(Nat) => FiniteNames(Range(x))
      /\ \A x : x \in Seq(Expression) => FiniteNames(ReadsOf(x))
      /\ FiniteNames(above)
  <2>1. ASSUME NEW A, NEW B, FiniteNames(A), FiniteNames(B)
        PROVE  FiniteNames(A \cup B) /\ FiniteNames(A \ B)
    <3>1. IsFiniteSet(A) /\ IsFiniteSet(B)
      BY <2>1 DEF FiniteNames
    <3>2. IsFiniteSet(A \cup B) /\ IsFiniteSet(A \ B)
      BY <3>1, FS_Union, FS_Difference
    <3> QED
      BY <2>1, <3>2 DEF FiniteNames
  <2> QED
    BY <1>1, <2>1, RangeIs DEF FiniteNames
<1>3. CASE n.kind = "aggregate"
  <2>1. Needed(n, above) = Range(n.by) \cup ReadsOf(n.exprs)
    BY <1>3 DEF Needed
  <2>2. n.by \in Seq(Nat) /\ n.exprs \in Seq(Expression)
    BY <1>3, NodeIs
  <2> QED
    BY ONLY <1>2, <2>1, <2>2, Zenon
<1>4. CASE n.kind = "filter"
  <2>1. Needed(n, above) = above \cup Range(n.reads)
    BY <1>4 DEF Needed
  <2>2. n.reads \in Seq(Nat)
    BY <1>4, NodeIs
  <2> QED
    BY ONLY <1>2, <2>1, <2>2, Zenon
<1>5. CASE n.kind = "orderby"
  <2>1. Needed(n, above) = above \cup Range(n.by)
    BY <1>5 DEF Needed
  <2>2. n.by \in Seq(Nat)
    BY <1>5, NodeIs
  <2> QED
    BY ONLY <1>2, <2>1, <2>2, Zenon
<1>6. CASE n.kind = "scalar"
  <2>1. Needed(n, above) = (above \ Range(OutputsOf(n.exprs))) \cup ReadsOf(n.exprs)
    BY <1>6 DEF Needed
  <2>2. OutputsOf(n.exprs) \in Seq(Nat) /\ n.exprs \in Seq(Expression)
    BY <1>6, NodeIs, ExpressionsAre
  <2> QED
    BY ONLY <1>2, <2>1, <2>2, Zenon
<1>7. CASE n.kind \in {"scan", "limit", "drop", "reorder"}
  BY <1>2, <1>7 DEF Needed
<1> QED
  BY <1>3, <1>4, <1>5, <1>6, <1>7, NodeIs DEF Kinds

\* The number of breakers from a node on.
LEMMA BreakingIs ==
  ASSUME NEW p, Len(p) \in Nat, NEW i, i \in 1..Len(p)
  PROVE  /\ Cardinality(Breaking(p, i)) \in Nat
         /\ Cardinality(Breaking(p, i + 1)) \in Nat
         /\ \/ /\ p[i].kind \in Breakers
               /\ Cardinality(Breaking(p, i)) = Cardinality(Breaking(p, i + 1)) + 1
            \/ /\ p[i].kind \notin Breakers
               /\ Cardinality(Breaking(p, i)) = Cardinality(Breaking(p, i + 1))
<1>1. PICK m \in Nat : m = Len(p)
  OBVIOUS
<1>2. IsFiniteSet(Breaking(p, i)) /\ IsFiniteSet(Breaking(p, i + 1))
  <2>1. IsFiniteSet(1..m)
    BY FS_Interval
  <2>2. Breaking(p, i) \subseteq 1..m /\ Breaking(p, i + 1) \subseteq 1..m
    BY <1>1 DEF Breaking
  <2> QED
    BY <2>1, <2>2, FS_Subset
<1>3. Cardinality(Breaking(p, i)) \in Nat /\ Cardinality(Breaking(p, i + 1)) \in Nat
  BY <1>2, FS_CardinalityType
<1>4. i..m = {i} \cup ((i + 1)..m) /\ i \notin (i + 1)..m
  BY <1>1
<1>5. CASE p[i].kind \in Breakers
  <2>1. Breaking(p, i) = Breaking(p, i + 1) \cup {i} /\ i \notin Breaking(p, i + 1)
    BY <1>1, <1>4, <1>5 DEF Breaking
  <2>2. Cardinality(Breaking(p, i + 1) \cup {i}) = Cardinality(Breaking(p, i + 1)) + 1
    BY <1>2, <2>1, FS_AddElement
  <2> QED
    BY <1>3, <1>5, <2>1, <2>2
<1>6. CASE p[i].kind \notin Breakers
  <2>1. Breaking(p, i) = Breaking(p, i + 1)
    BY <1>1, <1>4, <1>6 DEF Breaking
  <2> QED
    BY <1>3, <1>6, <2>1
<1> QED
  BY <1>5, <1>6

\* Building begins at the root, with one pipeline that has nothing in it.
LEMMA ControlInit == Init => Control
<1> SUFFICES ASSUME Init
             PROVE  Control
  OBVIOUS
<1> USE DEF Init
<1>1. /\ Len(plan) \in Nat \ {0} /\ DOMAIN plan = 1..Len(plan)
  BY PlanIs
<1>2. NewPipeline \in PipelinesOf(plan)
  <2>1. <<>> \in Seq(Entries(plan)) /\ <<>> \in Seq(Seq(Nat))
    BY EmptySeq
  <2> QED
    BY <1>1, <2>1 DEF NewPipeline, PipelinesOf
<1>3. <<NewPipeline>> \in Seq(PipelinesOf(plan)) /\ Len(<<NewPipeline>>) = 1 /\ <<NewPipeline>>[1] = NewPipeline
  BY <1>2
<1>4. IsFiniteSet({}) /\ Cardinality({}) = 0
  BY FS_EmptySet
<1>5. Breaking(plan, node + 1) = {}
  BY <1>1 DEF Breaking
<1>6. Len(<<>>) = 0 /\ <<>> \in Seq(Nat) /\ <<>> \in Seq(Entries(plan)) /\ <<>> \in Seq([outer : Nat, inner : Nat])
  BY EmptySeq
<1>7. NoBatch \in Batches
  BY <1>6 DEF NoBatch, Batches
<1>8. TypedBuilding
  BY <1>1, <1>3, <1>4, <1>6 DEF TypedBuilding, FiniteNames
<1>9. TypedRunning
  BY <1>6, <1>7 DEF TypedRunning, Place
<1>10. Stacked(node + 1)
  BY <1>4, <1>5, <1>6 DEF Stacked
<1>11. current = Len(pipelines) /\ \A k \in 1..Len(pipelines) : pipelines[k] = NewPipeline
  BY <1>3
<1> QED
  BY <1>8, <1>9, <1>10, <1>11 DEF Control, Built

\* Another pipeline in the place of one.
LEMMA OneReplaced ==
  ASSUME NEW X, NEW q, q \in Seq(X), NEW c, c \in 1..Len(q), NEW r, r \in X
  PROVE  /\ [q EXCEPT ![c] = r] \in Seq(X)
         /\ OneChanged(q, [q EXCEPT ![c] = r], c, r)
<1>1. PICK m \in Nat : m = Len(q) /\ DOMAIN q = 1..m
  BY LenProperties
<1>2. q \in [1..m -> X]
  BY <1>1, LenProperties
<1>3. PICK s : s = [q EXCEPT ![c] = r]
  OBVIOUS
<1>4. s \in [1..m -> X] /\ s[c] = r /\ \A k \in 1..m : k # c => s[k] = q[k]
  BY <1>1, <1>2, <1>3
<1>5. s \in Seq(X) /\ Len(s) = m
  BY <1>4, IsSequence
<1> QED
  BY <1>1, <1>3, <1>4, <1>5 DEF OneChanged

\* The parts of a pipeline.
LEMMA PipelineIs ==
  ASSUME NEW p, Len(p) \in Nat, NEW q, q \in Seq(PipelinesOf(p)), NEW k, k \in 1..Len(q)
  PROVE  /\ q[k] \in PipelinesOf(p)
         /\ IsPipeline(q[k])
         /\ q[k].source \in 0..Len(p) /\ q[k].sink \in {0} \cup Breaking(p, 1)
         /\ q[k].transforms \in Seq(Entries(p)) /\ q[k].uses \in Seq(Seq(Nat))
<1>1. q[k] \in PipelinesOf(p)
  BY ElementOfSeq
<1>2. /\ q[k].source \in 0..Len(p) /\ q[k].sink \in {0} \cup Breaking(p, 1)
      /\ q[k].transforms \in Seq(Entries(p)) /\ q[k].uses \in Seq(Seq(Nat))
  BY <1>1 DEF PipelinesOf
<1>3. Len(q[k].transforms) \in Nat
  BY <1>2, LenProperties
<1>4. q[k].sink \in 0..Len(p)
  BY <1>2 DEF Breaking
<1> QED
  BY <1>1, <1>2, <1>3, <1>4 DEF IsPipeline

\* Down, in the same pipeline.
LEMMA DescendKeeps ==
  ASSUME Control, Descend
  PROVE  Control'
<1> USE DEF Descend
<1>1. /\ Len(plan) \in Nat \ {0} /\ plan[node] \in Node /\ plan[node].kind # "scan"
      /\ plan[node].kind \notin Breakers
      /\ node \in 1..Len(plan)
  BY PlanIs DEF Control, TypedBuilding
<1>2. node # 1
  BY <1>1, PlanIs DEF Control, TypedBuilding
<1>3. node' \in 1..Len(plan) /\ node' + 1 = node
  BY <1>1, <1>2
<1>4. FiniteNames(required')
  BY <1>1, NeededIs DEF Control, TypedBuilding
<1>5. TypedBuilding'
  BY <1>3, <1>4 DEF Control, TypedBuilding
<1>6. TypedRunning'
  BY DEF Control, TypedRunning
<1>7. Stacked(node + 1)'
  <2>1. Cardinality(Breaking(plan, node)) = Cardinality(Breaking(plan, node + 1))
    BY <1>1, BreakingIs
  <2>2. Stacked(node + 1)
    BY DEF Control
  <2> QED
    BY <1>3, <2>1, <2>2 DEF Stacked
<1>8. at' = "down"
  OBVIOUS
<1> QED
  BY <1>5, <1>6, <1>7, <1>8 DEF Control, Built

\* Down, into a new pipeline.
LEMMA DescendIntoNewKeeps ==
  ASSUME Control, DescendIntoNewPipeline
  PROVE  Control'
<1>0. /\ at = "down" /\ plan[node].kind \in Breakers
      /\ frames' = Append(frames, [outer |-> current, inner |-> Len(pipelines) + 1])
      /\ pipelines' = Append(pipelines, NewPipeline)
      /\ current' = Len(pipelines) + 1
      /\ required' = Needed(plan[node], required)
      /\ node' = node - 1
      /\ UNCHANGED <<plan, at, completed, schema, running, batch, rest, results>>
  BY DEF DescendIntoNewPipeline
<1>1. /\ Len(plan) \in Nat \ {0} /\ plan[node] \in Node /\ plan[node].kind # "scan"
      /\ node \in 1..Len(plan)
  BY <1>0, PlanIs DEF Control, TypedBuilding, Breakers
<1>2. node # 1
  BY <1>1, PlanIs DEF Control, TypedBuilding
<1>3. node' \in 1..Len(plan) /\ node' + 1 = node
  BY <1>0, <1>1, <1>2
<1>4. FiniteNames(required')
  BY <1>0, <1>1, NeededIs DEF Control, TypedBuilding
<1>5. NewPipeline \in PipelinesOf(plan)
  <2>1. <<>> \in Seq(Entries(plan)) /\ <<>> \in Seq(Seq(Nat))
    BY EmptySeq
  <2> QED
    BY <1>1, <2>1 DEF NewPipeline, PipelinesOf
<1>6. PICK m \in Nat : m = Len(pipelines) /\ current = m /\ m # 0
  BY <1>0, LenProperties DEF Control, TypedBuilding
<1>7. /\ pipelines' \in Seq(PipelinesOf(plan)) /\ Len(pipelines') = m + 1
      /\ \A k \in 1..m : pipelines'[k] = pipelines[k]
      /\ pipelines'[m + 1] = NewPipeline
  <2>1. pipelines \in Seq(PipelinesOf(plan))
    BY DEF Control, TypedBuilding
  <2> QED
    BY <1>0, <1>5, <1>6, <2>1, AppendProperties
<1>8. PICK d \in Nat : d = Len(frames)
  BY LenProperties DEF Control, TypedBuilding
<1>9. PICK f : f = [outer |-> m, inner |-> m + 1]
  OBVIOUS
<1>10. f \in [outer : Nat, inner : Nat]
  BY <1>9
<1>11. /\ frames' \in Seq([outer : Nat, inner : Nat]) /\ Len(frames') = d + 1
       /\ \A k \in 1..d : frames'[k] = frames[k]
       /\ frames'[d + 1] = f
  <2>1. frames \in Seq([outer : Nat, inner : Nat]) /\ frames' = Append(frames, f)
    BY <1>0, <1>6, <1>9 DEF Control, TypedBuilding
  <2> QED
    BY <1>8, <1>10, <2>1, AppendProperties
<1>12. /\ completed' \in Seq(Nat)
       /\ \A k \in 1..Len(completed') : completed'[k] \in 1..Len(pipelines')
  <2>1. completed = <<>> /\ completed' = completed
    BY <1>0 DEF Control
  <2>2. Len(<<>>) = 0 /\ <<>> \in Seq(Nat)
    BY EmptySeq
  <2> QED
    BY <2>1, <2>2
<1>13. current' \in 1..Len(pipelines')
  BY <1>0, <1>6, <1>7
<1>14. plan' \in Plans /\ schema' \in Seq(Nat) /\ Len(plan') = Len(plan) /\ PipelinesOf(plan') = PipelinesOf(plan)
  BY <1>0 DEF Control, TypedBuilding
<1>15. TypedBuilding'
  BY <1>3, <1>4, <1>7, <1>11, <1>12, <1>13, <1>14 DEF TypedBuilding
<1>16. TypedRunning'
  BY <1>0 DEF Control, TypedRunning
<1>17. Stacked(node + 1)'
  <2>1. Cardinality(Breaking(plan, node)) = Cardinality(Breaking(plan, node + 1)) + 1
    BY <1>0, <1>1, BreakingIs
  <2>2. /\ current = d + 1
        /\ \A j \in 1..d : frames[j] = [outer |-> j, inner |-> j + 1]
        /\ Cardinality(Breaking(plan, node + 1)) = d
    BY <1>0, <1>8 DEF Control, Stacked
  <2>3. current' = Len(frames') + 1 /\ Cardinality(Breaking(plan, node)) = Len(frames')
    BY <1>0, <1>6, <1>11, <2>1, <2>2
  <2>4. \A j \in 1..Len(frames') : frames'[j] = [outer |-> j, inner |-> j + 1]
    <3>1. \A j \in 1..(d + 1) : j \in 1..d \/ j = d + 1
      OBVIOUS
    <3>2. f = [outer |-> d + 1, inner |-> (d + 1) + 1]
      BY <1>6, <1>9, <2>2
    <3> QED
      BY <1>11, <2>2, <3>1, <3>2
  <2>5. Breaking(plan', node' + 1) = Breaking(plan, node)
    BY <1>0, <1>3
  <2> QED
    BY <2>3, <2>4, <2>5 DEF Stacked
<1>18. current' = Len(pipelines') /\ \A k \in 1..Len(pipelines') : pipelines'[k] = NewPipeline
  <2>1. \A k \in 1..m : pipelines[k] = NewPipeline
    BY <1>0, <1>6 DEF Control
  <2>2. \A k \in 1..(m + 1) : k \in 1..m \/ k = m + 1
    OBVIOUS
  <2> QED
    BY <1>0, <1>6, <1>7, <2>1, <2>2
<1>19. at' = "down" /\ completed' = <<>> /\ running' = 0 /\ results' = [i \in 0..Len(plan') |-> NoBatch]
  BY <1>0 DEF Control
<1> QED
  BY <1>15, <1>16, <1>17, <1>18, <1>19 DEF Control, Built

\* Up: the child is built, and its parent or the run is next.
LEMMA AscendKeeps ==
  ASSUME TypedBuilding, running = 0, Ascend, plan' = plan,
         NEW list, list \in Seq(Nat), Len(list) = Len(pipelines') - current',
         \A k \in 1..Len(list) : list[k] = Len(pipelines') + 1 - k,
         completed' = CompleteIfRoot(list, current'),
         FiniteNames(required'), schema' \in Seq(Nat), frames' \in Seq([outer : Nat, inner : Nat]),
         pipelines' \in Seq(PipelinesOf(plan)), current' \in 1..Len(pipelines'),
         batch' \in Batches, rest' \in Seq(Entries(plan)), results' \in [0..Len(plan) -> Batches],
         ChainOf(pipelines', current', node),
         current' = Len(frames') + 1,
         \A j \in 1..Len(frames') : frames'[j] = [outer |-> j, inner |-> j + 1],
         Cardinality(Breaking(plan, node + 1)) = Len(frames')
  PROVE  Control'
<1>1. PICK m \in Nat : m = Len(pipelines')
  BY LenProperties
<1>2. Len(plan) \in Nat \ {0} /\ node \in 1..Len(plan)
  BY PlanIs DEF TypedBuilding
<1>3. PICK l, c : l = Len(list) /\ c = current' /\ l = m - c /\ l \in Nat /\ c \in 1..m
  BY <1>1, LenProperties
<1>4. CASE node = Len(plan)
  <2>1. at' = "source" /\ node' = node /\ running' = 1
    BY <1>4 DEF Ascend
  <2>2. completed' = Append(list, c)
    BY <1>3, <1>4 DEF CompleteIfRoot, Complete
  <2>3. /\ completed' \in Seq(Nat) /\ Len(completed') = l + 1
        /\ \A k \in 1..l : completed'[k] = list[k]
        /\ completed'[l + 1] = c
    <3>1. c \in Nat
      BY <1>1, <1>3
    <3>2. list \in Seq(Nat)
      OBVIOUS
    <3>3. /\ Append(list, c) \in Seq(Nat) /\ Len(Append(list, c)) = Len(list) + 1
          /\ \A k \in 1..Len(list) : Append(list, c)[k] = list[k]
          /\ Append(list, c)[Len(list) + 1] = c
      BY ONLY <3>1, <3>2, AppendProperties
    <3> QED
      BY ONLY <1>3, <2>2, <3>3
  <2>4. Len(completed') = m - c + 1 /\ m + 1 - (l + 1) = c
    <3>1. l + 1 = m - c + 1 /\ m + 1 - (l + 1) = c
      BY ONLY <1>1, <1>3
    <3> QED
      BY ONLY <2>3, <3>1
  <2>5. ASSUME NEW k \in 1..(m - c + 1)
        PROVE  completed'[k] = m + 1 - k /\ completed'[k] \in 1..m
    <3>1. k \in 1..l \/ k = l + 1
      BY ONLY <1>1, <1>3, <2>5
    <3>2. CASE k \in 1..l
      <4>1. completed'[k] = m + 1 - k
        BY <1>1, <1>3, <2>3, <3>2
      <4>2. m + 1 - k \in 1..m
        BY <1>1, <1>3, <3>2
      <4> QED
        BY <4>1, <4>2
    <3>3. CASE k = l + 1
      BY <1>1, <1>3, <2>3, <2>4, <3>3
    <3> QED
      BY <3>1, <3>2, <3>3
  <2>6. TypedBuilding'
    BY <1>1, <1>2, <2>1, <2>3, <2>4, <2>5 DEF TypedBuilding
  <2>7. TypedRunning'
    <3>1. 1 \in 0..Len(completed')
      <4>1. PICK e : e = l + 1 /\ e = Len(completed')
        BY <2>3
      <4>2. l \in Nat /\ e = l + 1
        BY ONLY <1>3, <4>1
      <4>3. 1 \in 0..e
        BY ONLY <4>2
      <4> QED
        BY ONLY <4>1, <4>3
    <3>2. at' \in Place
      BY <2>1 DEF Place
    <3> QED
      BY <2>1, <3>1, <3>2 DEF TypedRunning
  <2>8. ChainOf(pipelines', current', Len(plan'))
    BY <1>4
  <2>9. CompletedLast(Len(pipelines) - current + 1)'
    BY <1>1, <1>3, <2>4, <2>5 DEF CompletedLast
  <2> QED
    BY <2>1, <2>6, <2>7, <2>8, <2>9 DEF Control, Built
<1>5. CASE node # Len(plan)
  <2>1. at' = "up" /\ node' = node + 1 /\ running' = running
    BY <1>5 DEF Ascend
  <2>2. completed' = list
    BY <1>5 DEF CompleteIfRoot
  <2>3. \A k \in 1..Len(completed') : completed'[k] \in 1..m
    <3>1. \A k \in 1..l : list[k] = m + 1 - k
      BY <1>1, <1>3
    <3>2. \A k \in 1..l : m + 1 - k \in 1..m
      BY <1>1, <1>3
    <3> QED
      BY <1>3, <2>2, <3>1, <3>2
  <2>4. TypedBuilding'
    BY <1>1, <1>2, <1>5, <2>1, <2>2, <2>3 DEF TypedBuilding
  <2>5. TypedRunning'
    BY <1>1, <1>3, <2>1, <2>2 DEF TypedRunning, Place
  <2>6. node' - 1 = node /\ node' > 1
    BY <1>2, <2>1
  <2>7. ChainOf(pipelines', current', node' - 1)
    BY <2>6
  <2>8. CompletedLast(Len(pipelines) - current)'
    BY <2>2 DEF CompletedLast
  <2>9. Stacked(node)'
    BY <2>1 DEF Stacked
  <2> QED
    BY <2>1, <2>4, <2>5, <2>6, <2>7, <2>8, <2>9 DEF Control, Built
<1> QED
  BY <1>4, <1>5

\* The columns a scan reads: those selected, and the others that are needed.
Selected(n) == IF n.columns = Star THEN Table ELSE n.columns

\* They are the columns selected, and then those that are required and not among them.
LEMMA ScanColumnsIs ==
  ASSUME NEW n \in Node, n.kind = "scan", FiniteNames(required)
  PROVE  /\ Selected(n) \in Seq(Nat)
         /\ ScanColumns(n) \in Seq(Nat)
         /\ Range(ScanColumns(n)) = Range(Selected(n)) \cup required
<1>1. PICK u : u = Selected(n)
  OBVIOUS
<1>2. u \in Seq(Nat)
  BY <1>1, NodeIs, PlannerAssumption DEF Selected
<1>3. PICK more : more = required \ Range(u)
  OBVIOUS
<1>4. more \in SUBSET Nat /\ IsFiniteSet(more)
  BY <1>3, FS_Difference DEF FiniteNames
<1>5. PICK v : v = Ascending(more)
  OBVIOUS
<1>6. v \in Seq(Nat) /\ Range(v) = more
  BY <1>4, <1>5, AscendingIs
<1>7. ScanColumns(n) = u \o v
  BY <1>1, <1>3, <1>5 DEF ScanColumns, Selected
<1>8. u \o v \in Seq(Nat) /\ ToSet(u \o v) = ToSet(u) \cup ToSet(v)
  BY <1>2, <1>6, ConcatMembers, ConcatProperties
<1>9. Range(u \o v) = Range(u) \cup Range(v)
  BY <1>8 DEF ToSet, Range
<1> QED
  BY <1>1, <1>2, <1>3, <1>6, <1>7, <1>8, <1>9

\* The scan.
LEMMA BuildScanKeeps ==
  ASSUME Control, BuildScan
  PROVE  Control'
<1>1. PICK columns : columns = ScanColumns(plan[node])
  OBVIOUS
<1>2. /\ at = "down" /\ plan[node].kind = "scan"
      /\ pipelines' = [pipelines EXCEPT ![current].source = node]
      /\ schema' = columns
      /\ results' = [results EXCEPT ![node].columns = columns]
      /\ completed' = CompleteIfRoot(completed, current)
      /\ Ascend
      /\ UNCHANGED <<plan, required, current, frames, batch, rest>>
  BY <1>1 DEF BuildScan
<1>3. /\ Len(plan) \in Nat \ {0} /\ node \in 1..Len(plan) /\ plan[node] \in Node /\ node = 1
  BY <1>2, PlanIs DEF Control, TypedBuilding
<1>4. columns \in Seq(Nat)
  BY <1>1, <1>2, <1>3, ScanColumnsIs DEF Control, TypedBuilding
<1>5. PICK c : c = Len(pipelines) /\ c = current /\ c \in Nat \ {0}
  BY <1>2, LenProperties DEF Control, TypedBuilding
<1>6. \A k \in 1..c : pipelines[k] = NewPipeline
  BY <1>2, <1>5 DEF Control
<1>7. PICK r : r = [NewPipeline EXCEPT !.source = 1]
  OBVIOUS
<1>8. pipelines' = [pipelines EXCEPT ![c] = r]
  <2>1. pipelines[c] = NewPipeline
    BY <1>5, <1>6
  <2> QED
    BY <1>2, <1>3, <1>5, <1>7, <2>1
<1>9. r \in PipelinesOf(plan) /\ r.source = 1 /\ r.transforms = <<>> /\ r.sink = 0
  <2>1. <<>> \in Seq(Entries(plan)) /\ <<>> \in Seq(Seq(Nat))
    BY EmptySeq
  <2> QED
    <3>1. r = [source |-> 1, transforms |-> <<>>, sink |-> 0, uses |-> <<>>]
      BY <1>7 DEF NewPipeline
    <3>2. 1 \in 0..Len(plan) /\ 0 \in 0..Len(plan)
      BY <1>3
    <3> QED
      BY <2>1, <3>1, <3>2 DEF PipelinesOf
<1>10. pipelines' \in Seq(PipelinesOf(plan)) /\ OneChanged(pipelines, pipelines', c, r)
  <2>1. pipelines \in Seq(PipelinesOf(plan)) /\ c \in 1..Len(pipelines)
    BY <1>5 DEF Control, TypedBuilding
  <2> QED
    BY <1>8, <1>9, <2>1, OneReplaced
<1>11. ChainOf(pipelines', c, 1)
  BY <1>5, <1>6, <1>9, <1>10, ChainBegins
<1>12. results' \in [0..Len(plan) -> Batches]
  <2>1. results \in [0..Len(plan) -> Batches] /\ 1 \in 0..Len(plan)
    BY <1>3 DEF Control, TypedRunning
  <2>2. [results[1] EXCEPT !.columns = columns] \in Batches
    BY <1>4, <2>1 DEF Batches
  <2>3. results' = [results EXCEPT ![1] = [results[1] EXCEPT !.columns = columns]]
    BY <1>2, <1>3
  <2> QED
    BY <2>1, <2>2, <2>3
<1>13. Len(pipelines') = c
  BY <1>5, <1>10 DEF OneChanged
<1>14. Len(completed) = 0 /\ completed \in Seq(Nat) /\ \A k \in 1..Len(completed) : FALSE
  <2>1. completed = <<>>
    BY <1>2 DEF Control
  <2>2. Len(<<>>) = 0 /\ <<>> \in Seq(Nat)
    BY EmptySeq
  <2> QED
    BY <2>1, <2>2
<1>15. /\ FiniteNames(required') /\ frames' \in Seq([outer : Nat, inner : Nat])
       /\ batch' \in Batches /\ rest' \in Seq(Entries(plan)) /\ TypedBuilding /\ running = 0
  BY <1>2 DEF Control, TypedBuilding, TypedRunning
<1>16. /\ current' = Len(frames') + 1
       /\ \A j \in 1..Len(frames') : frames'[j] = [outer |-> j, inner |-> j + 1]
       /\ Cardinality(Breaking(plan, node + 1)) = Len(frames')
  BY <1>2 DEF Control, Stacked
<1>17. /\ current' = c /\ current' \in 1..Len(pipelines') /\ schema' \in Seq(Nat)
       /\ Len(completed) = Len(pipelines') - current'
       /\ \A k \in 1..Len(completed) : completed[k] = Len(pipelines') + 1 - k
       /\ completed' = CompleteIfRoot(completed, current')
       /\ ChainOf(pipelines', current', node)
  BY <1>2, <1>3, <1>4, <1>5, <1>11, <1>13, <1>14
<1>18. plan' = plan /\ Ascend
  BY <1>2
<1> QED
  BY ONLY <1>10, <1>12, <1>14, <1>15, <1>16, <1>17, <1>18, AscendKeeps

\* A transform is put behind those of the pipeline at hand.
LEMMA TransformAdds ==
  ASSUME Control, NEW kind, NEW uses, NEW output, kind \in Movers,
         BuildTransform(kind, uses, output), Suits(plan[node], schema, uses, output)
  PROVE  \E r : /\ OneChanged(pipelines, pipelines', current, r)
                /\ pipelines' \in Seq(PipelinesOf(plan))
                /\ r.source = pipelines[current].source /\ r.sink = pipelines[current].sink
                /\ Len(r.transforms) = Len(pipelines[current].transforms) + 1
                /\ \A i \in 1..Len(pipelines[current].transforms) :
                     r.transforms[i] = pipelines[current].transforms[i]
                /\ r.transforms[Len(pipelines[current].transforms) + 1].node = node
                /\ r.transforms[Len(pipelines[current].transforms) + 1].uses = uses
<1>1. PICK e : e = [node |-> node, uses |-> uses]
  OBVIOUS
<1>2. /\ at = "up" /\ plan[node].kind = kind
      /\ pipelines' = [pipelines EXCEPT ![current].transforms = Append(@, e)]
      /\ schema' = output
      /\ completed' = CompleteIfRoot(completed, current)
      /\ Ascend
      /\ UNCHANGED <<plan, required, current, frames, batch, rest, results>>
  BY <1>1 DEF BuildTransform
<1>3. /\ uses \in Seq(Seq(Nat))
      /\ plan[node].kind \in {"drop", "reorder"} => Len(uses) = 1
      /\ output \in Seq(Nat)
  BY DEF Suits
<1>4. /\ Len(plan) \in Nat \ {0} /\ node \in 1..Len(plan) /\ plan[node] \in Node
      /\ pipelines \in Seq(PipelinesOf(plan)) /\ current \in 1..Len(pipelines)
      /\ node > 1 /\ ChainOf(pipelines, current, node - 1)
      /\ CompletedLast(Len(pipelines) - current)
      /\ Stacked(node) /\ running = 0
  BY <1>2, PlanIs DEF Control, TypedBuilding
<1>5. e \in Entries(plan) /\ e.node = node /\ e.uses = uses
  <2>1. e \in [node : 1..Len(plan), uses : Seq(Seq(Nat))] /\ e.node = node /\ e.uses = uses
    <3>1. e.node = node /\ e.uses = uses
      BY ONLY <1>1
    <3>2. node \in 1..Len(plan) /\ uses \in Seq(Seq(Nat))
      BY <1>3, <1>4
    <3>3. e \in [node : 1..Len(plan), uses : Seq(Seq(Nat))]
      BY ONLY <1>1, <3>2
    <3> QED
      BY <3>1, <3>3
  <2>2. plan[node].kind \in Movers
    BY <1>2
  <2> QED
    BY <1>3, <2>1, <2>2, Zenon DEF Entries
<1>6. PICK c, q : c = current /\ q = pipelines[c]
  OBVIOUS
<1>7. q \in PipelinesOf(plan) /\ IsPipeline(q) /\ q.transforms \in Seq(Entries(plan))
  BY <1>4, <1>6, PipelineIs
<1>8. PICK t : t = Append(q.transforms, e)
  OBVIOUS
<1>9. /\ t \in Seq(Entries(plan)) /\ Len(t) = Len(q.transforms) + 1
      /\ \A i \in 1..Len(q.transforms) : t[i] = q.transforms[i]
      /\ t[Len(q.transforms) + 1] = e
  <2>1. q.transforms \in Seq(Entries(plan)) /\ e \in Entries(plan)
    BY <1>5, <1>7
  <2>2. PICK u : u = q.transforms
    OBVIOUS
  <2> QED
    BY <1>8, <2>1, <2>2, AppendProperties
<1>10. PICK r : r = [q EXCEPT !.transforms = t]
  OBVIOUS
<1>11. r \in PipelinesOf(plan) /\ r.source = q.source /\ r.sink = q.sink /\ r.transforms = t
  BY <1>7, <1>9, <1>10 DEF PipelinesOf
<1>12. pipelines' = [pipelines EXCEPT ![c] = r]
  BY <1>2, <1>6, <1>8, <1>10
<1>13. /\ pipelines' \in Seq(PipelinesOf(plan)) /\ OneChanged(pipelines, pipelines', c, r)
  <2>1. pipelines \in Seq(PipelinesOf(plan)) /\ c \in 1..Len(pipelines)
    BY <1>4, <1>6
  <2> QED
    BY <1>11, <1>12, <2>1, OneReplaced
<1> QED
  BY <1>5, <1>6, <1>9, <1>11, <1>13

\* A transform.
LEMMA BuildTransformKeeps ==
  ASSUME Control, NEW kind, NEW uses, NEW output, kind \in Movers,
         BuildTransform(kind, uses, output), Suits(plan[node], schema, uses, output)
  PROVE  Control'
<1>2. /\ at = "up" /\ plan[node].kind = kind
      /\ schema' = output
      /\ completed' = CompleteIfRoot(completed, current)
      /\ Ascend
      /\ UNCHANGED <<plan, required, current, frames, batch, rest, results>>
  BY DEF BuildTransform
<1>3. output \in Seq(Nat)
  BY DEF Suits
<1>4. /\ Len(plan) \in Nat \ {0} /\ node \in 1..Len(plan) /\ plan[node] \in Node
      /\ pipelines \in Seq(PipelinesOf(plan)) /\ current \in 1..Len(pipelines)
      /\ node > 1 /\ ChainOf(pipelines, current, node - 1)
      /\ CompletedLast(Len(pipelines) - current)
      /\ Stacked(node) /\ running = 0
  BY <1>2, PlanIs DEF Control, TypedBuilding
<1>6. PICK c : c = current
  OBVIOUS
<1>7. IsPipeline(pipelines[c])
  BY <1>4, <1>6, PipelineIs
<1>13. PICK r : /\ OneChanged(pipelines, pipelines', c, r)
                /\ pipelines' \in Seq(PipelinesOf(plan))
                /\ r.source = pipelines[c].source /\ r.sink = pipelines[c].sink
                /\ Len(r.transforms) = Len(pipelines[c].transforms) + 1
                /\ \A i \in 1..Len(pipelines[c].transforms) :
                     r.transforms[i] = pipelines[c].transforms[i]
                /\ r.transforms[Len(pipelines[c].transforms) + 1].node = node
  BY <1>6, TransformAdds
<1>14. PICK m \in Nat : m = Len(pipelines)
  BY <1>4, LenProperties
<1>15. ChainOf(pipelines', c, node)
  <2>1. (node - 1) + 1 = node /\ node - 1 \in Nat
    BY <1>4
  <2>2. ChainOf(pipelines', c, (node - 1) + 1)
    <3>1. c \in 1..Len(pipelines) /\ Len(pipelines) \in Nat
      BY <1>4, <1>6, <1>14
    <3>2. /\ IsPipeline(pipelines[c]) /\ ChainOf(pipelines, c, node - 1)
          /\ r.source = pipelines[c].source /\ r.sink = pipelines[c].sink
          /\ Len(r.transforms) = Len(pipelines[c].transforms) + 1
          /\ \A i \in 1..Len(pipelines[c].transforms) : r.transforms[i] = pipelines[c].transforms[i]
      BY <1>4, <1>6, <1>7, <1>13
    <3>3. r.transforms[Len(pipelines[c].transforms) + 1].node = (node - 1) + 1
      BY <1>13, <2>1
    <3> QED
      BY ONLY <1>13, <2>1, <3>1, <3>2, <3>3, ChainExtends
  <2> QED
    BY <2>1, <2>2
<1>16. Len(pipelines') = m
  BY <1>13, <1>14 DEF OneChanged
<1>17. /\ current' = c /\ completed' = CompleteIfRoot(completed, current') /\ completed \in Seq(Nat)
       /\ Len(completed) = Len(pipelines') - current'
       /\ \A k \in 1..Len(completed) : completed[k] = Len(pipelines') + 1 - k
       /\ current' \in 1..Len(pipelines')
  BY <1>2, <1>4, <1>6, <1>14, <1>16 DEF Control, TypedBuilding, CompletedLast
<1>18. /\ FiniteNames(required') /\ frames' \in Seq([outer : Nat, inner : Nat])
       /\ batch' \in Batches /\ rest' \in Seq(Entries(plan)) /\ TypedBuilding
       /\ results' \in [0..Len(plan) -> Batches] /\ schema' \in Seq(Nat)
  BY <1>2, <1>3 DEF Control, TypedBuilding, TypedRunning
<1>19. /\ current' = Len(frames') + 1
       /\ \A j \in 1..Len(frames') : frames'[j] = [outer |-> j, inner |-> j + 1]
       /\ Cardinality(Breaking(plan, node + 1)) = Len(frames')
  <2>1. Cardinality(Breaking(plan, node)) = Cardinality(Breaking(plan, node + 1))
    <3>1. plan[node].kind \notin Breakers
      BY <1>2 DEF Movers, Breakers
    <3> QED
      BY <1>4, <3>1, BreakingIs
  <2> QED
    BY <1>2, <1>4, <2>1 DEF Stacked
<1>20. plan' = plan /\ Ascend /\ running = 0 /\ ChainOf(pipelines', current', node)
  BY <1>2, <1>4, <1>15, <1>17
<1> QED
  BY ONLY <1>13, <1>17, <1>18, <1>19, <1>20, AscendKeeps

\* What is left of a sequence without its last element.
LEMMA FrontIs ==
  ASSUME NEW S, NEW s, s \in Seq(S), Len(s) # 0
  PROVE  /\ Front(s) \in Seq(S) /\ Len(Front(s)) = Len(s) - 1
         /\ \A k \in 1..(Len(s) - 1) : Front(s)[k] = s[k]
         /\ Last(s) = s[Len(s)]
<1>1. PICK m \in Nat : m = Len(s) /\ DOMAIN s = 1..m /\ \A k \in 1..m : s[k] \in S
  BY LenProperties, ElementOfSeq
<1>2. \A k \in 1..(m - 1) : s[k] \in S
  BY <1>1
<1>3. /\ SubSeq(s, 1, m - 1) \in Seq(S)
      /\ Len(SubSeq(s, 1, m - 1)) = IF 1 <= m - 1 THEN (m - 1) - 1 + 1 ELSE 0
      /\ \A k \in 1..((m - 1) - 1 + 1) : SubSeq(s, 1, m - 1)[k] = s[1 + k - 1]
  BY <1>1, <1>2, SubSeqProperties
<1>4. Front(s) = SubSeq(s, 1, m - 1)
  BY <1>1 DEF Front
<1>5. m # 0
  BY <1>1
<1> QED
  BY <1>1, <1>3, <1>4, <1>5 DEF Last

\* A breaker ends the pipeline at hand, and the one around it starts from there.
LEMMA BreakerLinks ==
  ASSUME Control, NEW kind, NEW output, kind \in Breakers,
         BuildBreaker(kind, output), Suits(plan[node], schema, LookedUp(plan[node]), output)
  PROVE  /\ pipelines' \in Seq(PipelinesOf(plan)) /\ Len(pipelines') = Len(pipelines)
         /\ current \in 2..Len(pipelines) /\ current = Len(frames) + 1
         /\ completed' = CompleteIfRoot(Complete(completed, current), current - 1)
         /\ current' = current - 1
         /\ pipelines'[current].source = pipelines[current].source
         /\ pipelines'[current].transforms = pipelines[current].transforms
         /\ pipelines'[current].sink = node
         /\ pipelines'[current].uses = LookedUp(plan[node])
         /\ pipelines'[current - 1].source = node
         /\ pipelines'[current - 1].transforms = pipelines[current - 1].transforms
         /\ pipelines'[current - 1].sink = pipelines[current - 1].sink
         /\ \A k \in 1..Len(pipelines) : k # current /\ k # current - 1 => pipelines'[k] = pipelines[k]
         /\ Cardinality(Breaking(plan, node + 1)) = Len(frames) - 1
<1>1. PICK frame, uses : frame = Last(frames) /\ uses = LookedUp(plan[node])
  OBVIOUS
<1>2. /\ at = "up" /\ plan[node].kind = kind
      /\ pipelines' = [pipelines EXCEPT ![frame.inner].sink = node,
                                        ![frame.inner].uses = uses,
                                        ![frame.outer] = SourceSet(frame.outer, node)]
      /\ completed' = CompleteIfRoot(Complete(completed, frame.inner), frame.outer)
      /\ current' = frame.outer
      /\ frames' = Front(frames)
      /\ schema' = output
      /\ Ascend
      /\ UNCHANGED <<plan, required, batch, rest, results>>
  BY <1>1 DEF BuildBreaker
<1>3. uses \in Seq(Seq(Nat)) /\ output \in Seq(Nat)
  BY <1>1 DEF Suits
<1>4. /\ Len(plan) \in Nat \ {0} /\ node \in 1..Len(plan) /\ plan[node] \in Node
      /\ pipelines \in Seq(PipelinesOf(plan)) /\ current \in 1..Len(pipelines)
      /\ node > 1 /\ ChainOf(pipelines, current, node - 1)
      /\ CompletedLast(Len(pipelines) - current)
      /\ Stacked(node) /\ running = 0 /\ frames \in Seq([outer : Nat, inner : Nat])
  BY <1>2, PlanIs DEF Control, TypedBuilding
<1>5. PICK d : d = Len(frames) /\ d \in Nat
  BY <1>4, LenProperties
<1>6. /\ Cardinality(Breaking(plan, node + 1)) = d - 1 /\ d # 0
      /\ current = d + 1
      /\ \A j \in 1..d : frames[j] = [outer |-> j, inner |-> j + 1]
  <2>1. /\ Cardinality(Breaking(plan, node)) = Cardinality(Breaking(plan, node + 1)) + 1
        /\ Cardinality(Breaking(plan, node + 1)) \in Nat
    BY <1>2, <1>4, BreakingIs
  <2>2. /\ current = Len(frames) + 1
        /\ \A j \in 1..Len(frames) : frames[j] = [outer |-> j, inner |-> j + 1]
        /\ Cardinality(Breaking(plan, node)) = Len(frames)
    BY <1>4 DEF Stacked
  <2>3. PICK a, b : a = Cardinality(Breaking(plan, node)) /\ b = Cardinality(Breaking(plan, node + 1))
    OBVIOUS
  <2>4. a = b + 1 /\ b \in Nat /\ a = d
    BY <1>5, <2>1, <2>2, <2>3
  <2>5. b = d - 1 /\ d # 0
    BY ONLY <2>4
  <2> QED
    BY <1>5, <2>2, <2>3, <2>5
<1>7. PICK c : c = current /\ c = d + 1 /\ c \in 2..Len(pipelines)
  BY <1>4, <1>5, <1>6
<1>8. frame.outer = c - 1 /\ frame.inner = c
  <2>1. frame = frames[d]
    BY <1>1, <1>4, <1>5, <1>6, FrontIs
  <2>2. frame = [outer |-> d, inner |-> d + 1]
    BY <1>5, <1>6, <2>1
  <2> QED
    BY <1>5, <1>7, <2>2
<1>9. PICK m : m = Len(pipelines) /\ m \in Nat
  BY <1>4, LenProperties
<1>10. PICK q, p : q = pipelines[c] /\ p = pipelines[c - 1]
  OBVIOUS
<1>11. c \in 2..m /\ c - 1 \in 1..m /\ c \in 1..m /\ c - 1 # c
  BY <1>7, <1>9
<1>12. /\ q \in PipelinesOf(plan) /\ p \in PipelinesOf(plan) /\ IsPipeline(q)
  BY <1>4, <1>9, <1>10, <1>11, PipelineIs
<1>13. PICK r, o : r = [q EXCEPT !.sink = node, !.uses = uses] /\ o = [p EXCEPT !.source = node]
  OBVIOUS
<1>14. /\ r \in PipelinesOf(plan) /\ o \in PipelinesOf(plan)
       /\ r.source = q.source /\ r.transforms = q.transforms /\ r.sink = node /\ r.uses = uses
       /\ o.source = node /\ o.transforms = p.transforms /\ o.sink = p.sink
  <2>1. PICK a, t, z, u : q = [source |-> a, transforms |-> t, sink |-> z, uses |-> u]
                          /\ a \in 0..Len(plan) /\ t \in Seq(Entries(plan))
    BY <1>12 DEF PipelinesOf
  <2>2. PICK t2, z2, u2, a2 : p = [source |-> a2, transforms |-> t2, sink |-> z2, uses |-> u2]
                          /\ t2 \in Seq(Entries(plan)) /\ z2 \in {0} \cup Breaking(plan, 1) /\ u2 \in Seq(Seq(Nat))
    BY <1>12 DEF PipelinesOf
  <2>3. /\ r = [source |-> a, transforms |-> t, sink |-> node, uses |-> uses]
        /\ o = [source |-> node, transforms |-> t2, sink |-> z2, uses |-> u2]
    BY <1>13, <2>1, <2>2
  <2>4. node \in 0..Len(plan) /\ node \in {0} \cup Breaking(plan, 1)
    BY <1>2, <1>4 DEF Breaking
  <2>5. r \in PipelinesOf(plan) /\ o \in PipelinesOf(plan)
    BY <1>3, <2>1, <2>2, <2>3, <2>4 DEF PipelinesOf
  <2> QED
    BY <2>1, <2>2, <2>3, <2>5
<1>15. pipelines' = [[pipelines EXCEPT ![c] = r] EXCEPT ![c - 1] = o]
  <2>1. SourceSet(c - 1, node) = o
    BY <1>10, <1>13 DEF SourceSet
  <2>2. DOMAIN pipelines = 1..m
    BY <1>4, <1>9, LenProperties
  <2>3. pipelines' = [pipelines EXCEPT ![c].sink = node, ![c].uses = uses, ![c - 1] = o]
    BY <1>2, <1>8, <2>1
  <2> QED
    BY <1>10, <1>11, <1>13, <2>2, <2>3
<1>16. /\ pipelines' \in Seq(PipelinesOf(plan)) /\ Len(pipelines') = m
       /\ pipelines'[c] = r /\ pipelines'[c - 1] = o
       /\ \A k \in 1..m : k # c /\ k # c - 1 => pipelines'[k] = pipelines[k]
  <2>1. PICK s : s = [pipelines EXCEPT ![c] = r]
    OBVIOUS
  <2>2. pipelines \in Seq(PipelinesOf(plan)) /\ c \in 1..Len(pipelines) /\ r \in PipelinesOf(plan)
    BY <1>4, <1>9, <1>11, <1>14
  <2>3. s \in Seq(PipelinesOf(plan)) /\ OneChanged(pipelines, s, c, r)
    BY <2>1, <2>2, OneReplaced
  <2>4. c - 1 \in 1..Len(s) /\ o \in PipelinesOf(plan) /\ s \in Seq(PipelinesOf(plan))
    BY <1>9, <1>11, <1>14, <2>3 DEF OneChanged
  <2>5. PICK b : b = c - 1
    OBVIOUS
  <2>6. [s EXCEPT ![b] = o] \in Seq(PipelinesOf(plan)) /\ OneChanged(s, [s EXCEPT ![b] = o], b, o)
    BY <2>4, <2>5, OneReplaced
  <2>7. pipelines' = [s EXCEPT ![b] = o]
    BY <1>15, <2>1, <2>5
  <2> QED
    BY <1>9, <1>11, <2>3, <2>5, <2>6, <2>7 DEF OneChanged
<1> QED
  BY <1>1, <1>2, <1>5, <1>6, <1>7, <1>8, <1>9, <1>10, <1>14, <1>16

\* A breaker.
LEMMA BuildBreakerKeeps ==
  ASSUME Control, NEW kind, NEW output, kind \in Breakers,
         BuildBreaker(kind, output), Suits(plan[node], schema, LookedUp(plan[node]), output)
  PROVE  Control'
<1>2. /\ at = "up" /\ plan[node].kind = kind
      /\ frames' = Front(frames)
      /\ schema' = output
      /\ Ascend
      /\ UNCHANGED <<plan, required, batch, rest, results>>
  BY DEF BuildBreaker
<1>3. output \in Seq(Nat)
  BY DEF Suits
<1>4. /\ Len(plan) \in Nat \ {0} /\ node \in 1..Len(plan) /\ plan[node] \in Node
      /\ pipelines \in Seq(PipelinesOf(plan)) /\ current \in 1..Len(pipelines)
      /\ node > 1 /\ ChainOf(pipelines, current, node - 1)
      /\ CompletedLast(Len(pipelines) - current)
      /\ Stacked(node) /\ running = 0 /\ frames \in Seq([outer : Nat, inner : Nat])
  BY <1>2, PlanIs DEF Control, TypedBuilding
<1>5. PICK d : d = Len(frames) /\ d \in Nat
  BY <1>4, LenProperties
<1>9. PICK m : m = Len(pipelines) /\ m \in Nat
  BY <1>4, LenProperties
<1>7. PICK c : c = current /\ c = d + 1 /\ c \in 2..m /\ d # 0
  <2>1. current \in 2..Len(pipelines) /\ current = Len(frames) + 1
    BY BreakerLinks
  <2> QED
    BY <1>5, <1>9, <2>1
<1>16. /\ pipelines' \in Seq(PipelinesOf(plan)) /\ Len(pipelines') = m
       /\ completed' = CompleteIfRoot(Complete(completed, c), c - 1)
       /\ current' = c - 1
       /\ pipelines'[c].source = pipelines[c].source
       /\ pipelines'[c].transforms = pipelines[c].transforms
       /\ pipelines'[c].sink = node
       /\ pipelines'[c - 1].source = node
       /\ pipelines'[c - 1].transforms = pipelines[c - 1].transforms
       /\ pipelines'[c - 1].sink = pipelines[c - 1].sink
       /\ \A k \in 1..m : k # c /\ k # c - 1 => pipelines'[k] = pipelines[k]
       /\ Cardinality(Breaking(plan, node + 1)) = d - 1
  BY <1>5, <1>7, <1>9, BreakerLinks
<1>6. current = d + 1 /\ \A j \in 1..d : frames[j] = [outer |-> j, inner |-> j + 1]
  BY <1>4, <1>5 DEF Stacked
<1>11. c \in 2..m /\ c - 1 \in 1..m /\ c \in 1..m /\ c - 1 # c
  BY <1>7, <1>9
<1>12. IsPipeline(pipelines[c])
  BY <1>4, <1>9, <1>11, PipelineIs
<1>17. ChainOf(pipelines', c - 1, node)
  <2>1. (node - 1) + 1 = node /\ node - 1 \in Nat
    BY <1>4
  <2>2. ChainOf(pipelines', c - 1, (node - 1) + 1)
    <3>1. c \in 2..Len(pipelines) /\ Len(pipelines) \in Nat /\ Len(pipelines') = Len(pipelines)
      BY <1>9, <1>11, <1>16
    <3>2. /\ IsPipeline(pipelines[c]) /\ ChainOf(pipelines, c, node - 1)
      BY <1>4, <1>7, <1>12
    <3>3. /\ pipelines'[c].source = pipelines[c].source
          /\ pipelines'[c].transforms = pipelines[c].transforms
          /\ pipelines'[c].sink = (node - 1) + 1
          /\ pipelines'[c - 1].source = (node - 1) + 1
          /\ pipelines'[c - 1].transforms = pipelines[c - 1].transforms
          /\ pipelines'[c - 1].sink = pipelines[c - 1].sink
      BY <1>16, <2>1
    <3>4. \A k \in 1..Len(pipelines) : k # c /\ k # c - 1 => pipelines'[k] = pipelines[k]
      BY <1>9, <1>16
    <3> QED
      BY ONLY <2>1, <3>1, <3>2, <3>3, <3>4, ChainCloses
  <2> QED
    BY <2>1, <2>2
<1>18. PICK list : list = Append(completed, c)
  OBVIOUS
<1>19. /\ list \in Seq(Nat) /\ Len(list) = Len(pipelines') - (c - 1)
       /\ \A k \in 1..Len(list) : list[k] = Len(pipelines') + 1 - k
  <2>1. completed \in Seq(Nat) /\ c \in Nat
    BY <1>7 DEF Control, TypedBuilding
  <2>2. /\ Append(completed, c) \in Seq(Nat) /\ Len(Append(completed, c)) = Len(completed) + 1
        /\ \A k \in 1..Len(completed) : Append(completed, c)[k] = completed[k]
        /\ Append(completed, c)[Len(completed) + 1] = c
    BY ONLY <2>1, AppendProperties
  <2>3. PICK l : l = Len(completed) /\ l = m - c /\ \A k \in 1..l : completed[k] = m + 1 - k
    BY <1>4, <1>7, <1>9 DEF CompletedLast
  <2>4. l \in Nat /\ l + 1 = m - (c - 1) /\ m + 1 - (l + 1) = c
    BY <1>9, <1>11, <2>3
  <2>5. \A k \in 1..(l + 1) : k \in 1..l \/ k = l + 1
    BY <2>4
  <2>6. \A k \in 1..l : list[k] = m + 1 - k
    BY <1>18, <2>2, <2>3
  <2>7. list[l + 1] = m + 1 - (l + 1)
    BY <1>18, <2>2, <2>3, <2>4
  <2>8. list \in Seq(Nat) /\ Len(list) = l + 1
    BY <1>18, <2>2, <2>3
  <2>9. \A k \in 1..(l + 1) : list[k] = m + 1 - k
    BY <2>5, <2>6, <2>7
  <2> QED
    BY <1>16, <2>4, <2>8, <2>9
<1>20. /\ current' = c - 1 /\ completed' = CompleteIfRoot(list, current')
       /\ current' \in 1..Len(pipelines') /\ Len(list) = Len(pipelines') - current'
  BY <1>11, <1>16, <1>18, <1>19 DEF Complete
<1>21. /\ FiniteNames(required')
       /\ batch' \in Batches /\ rest' \in Seq(Entries(plan)) /\ TypedBuilding
       /\ results' \in [0..Len(plan) -> Batches] /\ schema' \in Seq(Nat)
  BY <1>2, <1>3 DEF Control, TypedBuilding, TypedRunning
<1>22. /\ frames' \in Seq([outer : Nat, inner : Nat])
       /\ current' = Len(frames') + 1
       /\ \A j \in 1..Len(frames') : frames'[j] = [outer |-> j, inner |-> j + 1]
       /\ Cardinality(Breaking(plan, node + 1)) = Len(frames')
  <2>1. /\ frames' \in Seq([outer : Nat, inner : Nat]) /\ Len(frames') = d - 1
        /\ \A k \in 1..(d - 1) : frames'[k] = frames[k]
    BY <1>2, <1>4, <1>5, <1>7, FrontIs
  <2>2. \A k \in 1..(d - 1) : k \in 1..d
    BY <1>5
  <2>3. current' = Len(frames') + 1 /\ Cardinality(Breaking(plan, node + 1)) = Len(frames')
    <3>1. c - 1 = (d - 1) + 1
      BY <1>5, <1>7
    <3> QED
      BY <1>16, <1>20, <2>1, <3>1
  <2>4. \A j \in 1..(d - 1) : frames'[j] = [outer |-> j, inner |-> j + 1]
    BY <1>6, <2>1, <2>2
  <2> QED
    BY <2>1, <2>3, <2>4
<1>23. plan' = plan /\ Ascend /\ running = 0 /\ ChainOf(pipelines', current', node)
  BY <1>2, <1>4, <1>17, <1>20
<1> QED
  BY ONLY <1>16, <1>19, <1>20, <1>21, <1>22, <1>23, AscendKeeps

\* Building is abandoned.
LEMMA RejectKeeps ==
  ASSUME Control, Reject
  PROVE  Control'
<1>1. at' = "rejected" /\ UNCHANGED <<building, running, batch, rest, results>>
  BY DEF Reject
<1>2. TypedBuilding'
  BY <1>1 DEF Control, TypedBuilding, building
<1>3. TypedRunning'
  BY <1>1 DEF Control, TypedRunning, Place, building
<1> QED
  BY <1>1, <1>2, <1>3 DEF Control, Built

\* What runs leaves the pipelines as they are.
LEMMA RunKeeps ==
  ASSUME Control, Built, UNCHANGED building,
         at' \in {"source", "transforms", "finalize", "undefined", "done"},
         running' \in 1..Len(completed), batch' \in Batches, rest' \in Seq(Entries(plan)),
         results' \in [0..Len(plan) -> Batches]
  PROVE  Control'
<1>1. TypedBuilding'
  BY DEF Control, TypedBuilding, building
<1>2. at' \in Place
  BY DEF Place
<1>3. running' \in 0..Len(completed') /\ running' > 0
  <2>1. completed' = completed /\ Len(completed) \in Nat
    BY LenProperties DEF building, Control, TypedBuilding
  <2> QED
    BY <2>1
<1>4. plan' = plan
  BY DEF building
<1>5. TypedRunning'
  BY <1>2, <1>3, <1>4 DEF TypedRunning
<1>6. /\ ChainOf(pipelines, current, Len(plan))'
      /\ CompletedLast(Len(pipelines) - current + 1)'
  BY DEF Control, building, CompletedLast
<1> QED
  BY <1>1, <1>3, <1>5, <1>6 DEF Control, Built

\* What runs is a pipeline of the plan.
LEMMA PipeIs ==
  ASSUME Control, Built
  PROVE  /\ running \in 1..Len(completed) /\ Len(completed) \in Nat
         /\ completed[running] \in 1..Len(pipelines)
         /\ Pipe \in PipelinesOf(plan) /\ IsPipeline(Pipe)
         /\ Pipe.source \in 0..Len(plan) /\ Pipe.sink \in {0} \cup Breaking(plan, 1)
         /\ Pipe.transforms \in Seq(Entries(plan)) /\ Pipe.uses \in Seq(Seq(Nat))
<1>1. Len(completed) \in Nat /\ running \in 1..Len(completed)
  BY LenProperties DEF Control, TypedBuilding, TypedRunning
<1>2. completed[running] \in 1..Len(pipelines)
  BY <1>1 DEF Control, TypedBuilding
<1>3. Len(plan) \in Nat /\ pipelines \in Seq(PipelinesOf(plan))
  BY PlanIs DEF Control, TypedBuilding
<1>4. PICK k : k = completed[running]
  OBVIOUS
<1>5. /\ pipelines[k] \in PipelinesOf(plan) /\ IsPipeline(pipelines[k])
      /\ pipelines[k].source \in 0..Len(plan) /\ pipelines[k].sink \in {0} \cup Breaking(plan, 1)
      /\ pipelines[k].transforms \in Seq(Entries(plan)) /\ pipelines[k].uses \in Seq(Seq(Nat))
  BY <1>2, <1>3, <1>4, PipelineIs
<1> QED
  BY <1>1, <1>2, <1>4, <1>5 DEF Pipe

\* One expression's columns are a batch's if none is beyond it.
LEMMA OneBehind ==
  ASSUME NEW columns, columns \in Seq(Nat), NEW uses, uses \in Seq(Seq(Nat)), Len(uses) = 1,
         InBatch(Behind(columns, <<>>, uses))
  PROVE  Behind(columns, <<>>, uses)[1] \in Seq(Nat)
<1> DEFINE S == Nat \cup {NoColumn}
<1>1. SubSeq(<<>>, 1, 0) = <<>> /\ columns \o <<>> = columns
  BY SubSeqEmpty, ConcatEmptySeq
<1>2. PICK u, n : u = uses[1] /\ n = Len(u)
  OBVIOUS
<1>3. DOMAIN uses = 1..1 /\ u \in Seq(Nat) /\ n \in Nat /\ DOMAIN u = 1..n
  <2>1. DOMAIN uses = 1..1 /\ 1 \in 1..Len(uses)
    BY LenProperties
  <2>2. u \in Seq(Nat)
    BY <1>2, <2>1, ElementOfSeq
  <2> QED
    BY <1>2, <2>1, <2>2, LenProperties
<1>4. PICK v : v = [j \in DOMAIN u |-> IF u[j] \in DOMAIN columns THEN columns[u[j]] ELSE NoColumn]
  OBVIOUS
<1>5. PICK b : b = Behind(columns, <<>>, uses)
  OBVIOUS
<1>6. b = [i \in 1..1 |-> v]
  <2>1. b = [i \in 1..1 |-> [j \in DOMAIN uses[i] |->
               IF uses[i][j] \in DOMAIN columns THEN columns[uses[i][j]] ELSE NoColumn]]
    BY <1>1, <1>3, <1>5, Zenon DEF Behind
  <2>2. \A i \in 1..1 : i = 1
    OBVIOUS
  <2> QED
    BY <1>2, <1>4, <2>1, <2>2
<1>7. v \in [1..n -> S]
  <2>1. \A j \in DOMAIN columns : columns[j] \in Nat
    BY LenProperties, ElementOfSeq
  <2> QED
    BY <1>3, <1>4, <2>1
<1>8. v \in Seq(S) /\ Len(v) = n
  BY <1>3, <1>7, IsSequence
<1>9. b \in [1..1 -> Seq(S)]
  BY <1>6, <1>8
<1>10. b \in Seq(Seq(S)) /\ DOMAIN b = 1..1 /\ b[1] = v
  BY <1>6, <1>9, IsSequence
<1>11. ToSet(FlattenSeq(b)) = Members(b)
  BY <1>10, FlattenMembers
<1>12. NoColumn \notin ToSet(FlattenSeq(b))
  BY <1>5 DEF InBatch, Range, ToSet
<1>13. \A j \in 1..n : v[j] # NoColumn
  <2>1. ASSUME NEW j \in 1..n
        PROVE  v[j] \in Members(b)
    <3>1. v[j] \in ToSet(b[1])
      BY <1>7, <1>10 DEF ToSet
    <3> QED
      BY <1>10, <3>1 DEF Members
  <2> QED
    BY <1>11, <1>12, <2>1
<1>14. v \in [1..n -> Nat]
  BY <1>7, <1>13
<1>15. v \in Seq(Nat)
  BY <1>3, <1>14, IsSequence
<1> QED
  BY <1>5, <1>10, <1>15

\* What is left of a sequence without its first element.
LEMMA TailIs ==
  ASSUME NEW S, NEW s, s \in Seq(S), s # <<>>
  PROVE  /\ Head(s) \in S /\ Head(s) = s[1] /\ Tail(s) \in Seq(S)
         /\ Len(s) \in Nat \ {0} /\ Len(Tail(s)) = Len(s) - 1
         /\ \A k \in 1..(Len(s) - 1) : Tail(s)[k] = s[k + 1]
BY HeadTailProperties, EmptySeq, LenProperties

\* A batch is fetched.
LEMMA GetDataKeeps ==
  ASSUME Control, GetData
  PROVE  Control'
<1>1. at = "source" /\ UNCHANGED <<building, running, results>>
  BY DEF GetData
<1>2. PICK got : got = results[Pipe.source]
  OBVIOUS
<1>3. PICK rows \in BOOLEAN :
        IF Pipe.source = 1 /\ ~rows /\ got.columns # <<>>
          THEN at' = "finalize" /\ batch' = NoBatch /\ rest' = <<>>
          ELSE /\ at' = "transforms"
               /\ batch' = [got EXCEPT !.rows = rows]
               /\ rest' = Pipe.transforms
  BY <1>2 DEF GetData
<1>4. Built
  BY <1>1 DEF Built
<1>5. /\ running \in 1..Len(completed) /\ Pipe.source \in 0..Len(plan)
      /\ Pipe.transforms \in Seq(Entries(plan))
  BY <1>4, PipeIs
<1>6. got \in Batches
  BY <1>2, <1>5 DEF Control, TypedRunning
<1>7. [got EXCEPT !.rows = rows] \in Batches
  BY <1>6 DEF Batches
<1>8. <<>> \in Seq(Entries(plan)) /\ NoBatch \in Batches
  BY EmptySeq DEF NoBatch, Batches
<1>9. batch' \in Batches /\ rest' \in Seq(Entries(plan)) /\ at' \in {"transforms", "finalize"}
  BY <1>3, <1>5, <1>7, <1>8
<1>10. results' \in [0..Len(plan) -> Batches] /\ running' \in 1..Len(completed)
  BY <1>1, <1>5 DEF Control, TypedRunning
<1>11. at' \in {"source", "transforms", "finalize", "undefined", "done"} /\ UNCHANGED building
  BY <1>1, <1>9
<1> QED
  BY <1>4, <1>9, <1>10, <1>11, RunKeeps

\* The columns of a batch behind a transform.
Moved(n, columns, found) ==
  IF n.kind \in {"drop", "reorder"} THEN found[1] ELSE columns \o Made(n)

\* They are names.
LEMMA MovedIs ==
  ASSUME NEW n \in Node, n.kind \in Movers, NEW columns, columns \in Seq(Nat),
         NEW uses, uses \in Seq(Seq(Nat)), n.kind \in {"drop", "reorder"} => Len(uses) = 1,
         InBatch(Behind(columns, Made(n), uses))
  PROVE  Moved(n, columns, Behind(columns, Made(n), uses)) \in Seq(Nat)
<1>1. CASE n.kind \in {"drop", "reorder"}
  <2>1. Made(n) = <<>>
    BY <1>1 DEF Made
  <2>2. Behind(columns, <<>>, uses)[1] \in Seq(Nat)
    BY <1>1, <2>1, OneBehind
  <2> QED
    BY <1>1, <2>1, <2>2, Zenon DEF Moved
<1>2. CASE n.kind \notin {"drop", "reorder"}
  <2>1. PICK m : m = Made(n)
    OBVIOUS
  <2>2. m \in Seq(Nat)
    BY <2>1, MadeIs
  <2>3. columns \o m \in Seq(Nat)
    BY <2>2, ConcatProperties
  <2> QED
    BY <1>2, <2>1, <2>3 DEF Moved
<1> QED
  BY <1>1, <1>2

\* The next transform, and what it finds.
LEMMA TransformDoes ==
  ASSUME Transform
  PROVE  \E e, n, found :
           /\ e = Head(rest) /\ n = plan[e.node]
           /\ found = Behind(batch.columns, Made(n), e.uses)
           /\ at = "transforms" /\ rest # <<>> /\ InBatch(found)
           /\ \/ /\ batch.rows
                 /\ batch' = [columns |-> Moved(n, batch.columns, found), rows |-> TRUE]
                 /\ rest' \in {Tail(rest)} \cup (IF n.kind = "limit" THEN {<<>>} ELSE {})
                 /\ UNCHANGED at
              \/ batch' = NoBatch /\ rest' = <<>> /\ at' = "finalize"
           /\ UNCHANGED <<building, running, results>>
<1>1. PICK e, n, found : /\ e = Head(rest) /\ n = plan[e.node]
                         /\ found = Behind(batch.columns, Made(n), e.uses)
  OBVIOUS
<1>2. PICK columns : columns = Moved(n, batch.columns, found)
  OBVIOUS
<1>3. /\ at = "transforms" /\ rest # <<>>
      /\ InBatch(found)
      /\ \E rows \in (IF n.kind \in {"filter", "limit"} /\ batch.rows
                        THEN BOOLEAN ELSE {batch.rows}) :
           IF rows
             THEN /\ batch' = [columns |-> columns, rows |-> TRUE]
                  /\ rest' \in {Tail(rest)} \cup (IF n.kind = "limit" THEN {<<>>} ELSE {})
                  /\ UNCHANGED at
             ELSE batch' = NoBatch /\ rest' = <<>> /\ at' = "finalize"
      /\ UNCHANGED <<building, running, results>>
  BY <1>1, <1>2 DEF Transform, Moved
<1>4. PICK rows : /\ rows \in (IF n.kind \in {"filter", "limit"} /\ batch.rows
                                 THEN BOOLEAN ELSE {batch.rows})
                  /\ IF rows
                       THEN /\ batch' = [columns |-> columns, rows |-> TRUE]
                            /\ rest' \in {Tail(rest)} \cup (IF n.kind = "limit" THEN {<<>>} ELSE {})
                            /\ UNCHANGED at
                       ELSE batch' = NoBatch /\ rest' = <<>> /\ at' = "finalize"
  BY <1>3
<1>5. rows => batch.rows
  BY <1>4
<1>6. \/ /\ batch.rows
         /\ batch' = [columns |-> Moved(n, batch.columns, found), rows |-> TRUE]
         /\ rest' \in {Tail(rest)} \cup (IF n.kind = "limit" THEN {<<>>} ELSE {})
         /\ UNCHANGED at
      \/ batch' = NoBatch /\ rest' = <<>> /\ at' = "finalize"
  BY <1>2, <1>4, <1>5
<1> QED
  BY <1>1, <1>3, <1>6

\* A transform runs.
LEMMA TransformKeeps ==
  ASSUME Control, Transform
  PROVE  Control'
<1>1. PICK e, n, found :
           /\ e = Head(rest) /\ n = plan[e.node]
           /\ found = Behind(batch.columns, Made(n), e.uses)
           /\ at = "transforms" /\ rest # <<>> /\ InBatch(found)
           /\ \/ /\ batch.rows
                 /\ batch' = [columns |-> Moved(n, batch.columns, found), rows |-> TRUE]
                 /\ rest' \in {Tail(rest)} \cup (IF n.kind = "limit" THEN {<<>>} ELSE {})
                 /\ UNCHANGED at
              \/ batch' = NoBatch /\ rest' = <<>> /\ at' = "finalize"
           /\ UNCHANGED <<building, running, results>>
  BY TransformDoes
<1>2. Built
  BY <1>1 DEF Built
<1>3. batch \in Batches /\ rest \in Seq(Entries(plan)) /\ results \in [0..Len(plan) -> Batches]
  BY DEF Control, TypedRunning
<1>4. e \in Entries(plan) /\ Tail(rest) \in Seq(Entries(plan))
  BY <1>1, <1>3, TailIs
<1>5. /\ e.node \in 1..Len(plan) /\ e.uses \in Seq(Seq(Nat)) /\ n.kind \in Movers
      /\ n.kind \in {"drop", "reorder"} => Len(e.uses) = 1
  BY <1>1, <1>4 DEF Entries
<1>6. n \in Node
  BY <1>1, <1>5, PlanIs DEF Control, TypedBuilding
<1>7. batch.columns \in Seq(Nat)
  BY <1>3 DEF Batches
<1>8. Moved(n, batch.columns, found) \in Seq(Nat)
  BY <1>1, <1>5, <1>6, <1>7, MovedIs
<1>9. <<>> \in Seq(Entries(plan)) /\ NoBatch \in Batches
  BY EmptySeq DEF NoBatch, Batches
<1>10. batch' \in Batches
  <2>1. PICK c : c = Moved(n, batch.columns, found)
    OBVIOUS
  <2>2. batch' = [columns |-> c, rows |-> TRUE] \/ batch' = NoBatch
    BY <1>1, <2>1
  <2>3. [columns |-> c, rows |-> TRUE] \in Batches
    BY <1>8, <2>1 DEF Batches
  <2> QED
    BY ONLY <1>9, <2>2, <2>3
<1>11. rest' \in Seq(Entries(plan))
  BY <1>1, <1>4, <1>9
<1>12. at' \in {"source", "transforms", "finalize", "undefined", "done"} /\ UNCHANGED building
  BY <1>1
<1>13. running' \in 1..Len(completed) /\ results' \in [0..Len(plan) -> Batches]
  BY <1>1, <1>2, <1>3, PipeIs
<1> QED
  BY <1>2, <1>10, <1>11, <1>12, <1>13, RunKeeps

\* The sink takes the batch, or an operator reads beyond it.
LEMMA SinkKeeps ==
  ASSUME Control, Sink \/ ReadsBeyond
  PROVE  Control'
<1>1. Built
  BY DEF Sink, ReadsBeyond, Built
<1>2. NoBatch \in Batches
  BY EmptySeq DEF NoBatch, Batches
<1>3. batch' \in Batches /\ rest' \in Seq(Entries(plan))
  BY <1>2 DEF Sink, ReadsBeyond, Control, TypedRunning
<1>4. running' \in 1..Len(completed)
  BY <1>1, PipeIs DEF Sink, ReadsBeyond
<1>5. results' \in [0..Len(plan) -> Batches] /\ UNCHANGED building
  BY DEF Sink, ReadsBeyond, Control, TypedRunning
<1>6. at' \in {"source", "transforms", "finalize", "undefined", "done"}
  BY DEF Sink, ReadsBeyond
<1> QED
  BY <1>1, <1>3, <1>4, <1>5, <1>6, RunKeeps

\* What Finalize makes are batches.
LEMMA FinalizedIs ==
  ASSUME NEW n \in Node, n.kind \in Breakers, batch \in Batches, NEW made, made \in Finalized(n)
  PROVE  /\ made \in Batches
         /\ n.kind = "aggregate" => made.columns = n.by \o OutputsOf(n.exprs)
         /\ n.kind = "orderby" => made.columns = batch.columns /\ (made.rows => batch.rows)
<1>1. CASE n.kind = "aggregate"
  <2>1. PICK c : c = n.by \o OutputsOf(n.exprs)
    OBVIOUS
  <2>2. Delivers(n, <<>>) = c /\ <<>> \in Seq(Nat)
    BY <1>1, <2>1, EmptySeq DEF Delivers
  <2>3. c \in Seq(Nat)
    BY <2>2, DeliversIs
  <2>4. PICK b : b = (n.by = <<>> \/ batch.rows) /\ b \in BOOLEAN
    BY DEF Batches
  <2>5. made = [columns |-> c, rows |-> b]
    BY <1>1, <2>1, <2>4 DEF Finalized
  <2> QED
    BY <1>1, <2>1, <2>3, <2>4, <2>5 DEF Batches
<1>2. CASE n.kind = "orderby"
  <2>1. PICK rows \in {batch.rows, FALSE} : made = [columns |-> batch.columns, rows |-> rows]
    BY <1>2 DEF Finalized
  <2> QED
    BY <1>2, <2>1 DEF Batches
<1> QED
  BY <1>1, <1>2 DEF Breakers

\* A pipeline ends.
LEMMA FinalizeKeeps ==
  ASSUME Control, Finalize
  PROVE  Control'
<1>1. PICK made : /\ made \in (IF Pipe.sink = 0 THEN {batch} ELSE Finalized(plan[Pipe.sink]))
                  /\ results' = [results EXCEPT ![Pipe.sink] = made]
  BY DEF Finalize
<1>2. /\ at = "finalize"
      /\ IF running = Len(completed)
           THEN at' = "done" /\ running' = running
           ELSE at' = "source" /\ running' = running + 1
      /\ batch' = NoBatch
      /\ UNCHANGED <<building, rest>>
  BY DEF Finalize
<1>3. Built
  BY <1>2 DEF Built
<1>4. running \in 1..Len(completed) /\ Len(completed) \in Nat /\ Pipe.sink \in {0} \cup Breaking(plan, 1)
  BY <1>3, PipeIs
<1>5. batch \in Batches /\ rest \in Seq(Entries(plan)) /\ results \in [0..Len(plan) -> Batches]
  BY DEF Control, TypedRunning
<1>6. Len(plan) \in Nat /\ \A i \in 1..Len(plan) : plan[i] \in Node
  BY PlanIs DEF Control, TypedBuilding
<1>7. made \in Batches
  <2>1. CASE Pipe.sink = 0
    BY <1>1, <1>5, <2>1
  <2>2. CASE Pipe.sink # 0
    <3>1. Pipe.sink \in 1..Len(plan) /\ plan[Pipe.sink].kind \in Breakers
      BY <1>4, <2>2 DEF Breaking
    <3>2. plan[Pipe.sink] \in Node
      BY <1>6, <3>1
    <3> QED
      BY <1>1, <1>5, <2>2, <3>1, <3>2, FinalizedIs
  <2> QED
    BY <2>1, <2>2
<1>8. results' \in [0..Len(plan) -> Batches]
  BY <1>1, <1>5, <1>7
<1>9. running' \in 1..Len(completed)
  BY <1>2, <1>4
<1>10. NoBatch \in Batches
  BY EmptySeq DEF NoBatch, Batches
<1>11. /\ at' \in {"source", "transforms", "finalize", "undefined", "done"} /\ UNCHANGED building
       /\ batch' \in Batches /\ rest' \in Seq(Entries(plan))
  BY <1>2, <1>5, <1>10
<1> QED
  BY <1>3, <1>8, <1>9, <1>11, RunKeeps

\* Every step keeps it.
LEMMA ControlNext == Control /\ [Next]_vars => Control'
<1> SUFFICES ASSUME Control, [Next]_vars
             PROVE  Control'
  OBVIOUS
<1>1. CASE Descend
  BY <1>1, DescendKeeps
<1>2. CASE DescendIntoNewPipeline
  BY <1>2, DescendIntoNewKeeps
<1>3. CASE BuildScan
  BY <1>3, BuildScanKeeps
<1>4. CASE BuildFilter \/ BuildLimit \/ BuildScalar \/ BuildDrop \/ BuildReorder \/ BuildAggregate \/ BuildOrderBy
  <2>1. schema \in Seq(Nat) /\ plan[node] \in Node
    BY PlanIs DEF Control, TypedBuilding
  <2>2. CASE BuildFilter \/ BuildLimit \/ BuildScalar \/ BuildDrop \/ BuildReorder
    <3>1. PICK kind, uses, output : /\ kind \in Movers
                                    /\ BuildTransform(kind, uses, output)
                                    /\ Suits(plan[node], schema, uses, output)
      BY <2>1, <2>2, TransformIsBuilt
    <3> QED
      BY <3>1, BuildTransformKeeps
  <2>3. CASE BuildAggregate \/ BuildOrderBy
    <3>1. PICK kind, output : /\ kind \in Breakers
                              /\ BuildBreaker(kind, output)
                              /\ Suits(plan[node], schema, LookedUp(plan[node]), output)
      BY <2>1, <2>3, BreakerIsBuilt
    <3> QED
      BY <3>1, BuildBreakerKeeps
  <2> QED
    BY <1>4, <2>2, <2>3
<1>5. CASE Reject
  BY <1>5, RejectKeeps
<1>6. CASE GetData
  BY <1>6, GetDataKeeps
<1>7. CASE Transform
  BY <1>7, TransformKeeps
<1>8. CASE Sink \/ ReadsBeyond
  BY <1>8, SinkKeeps
<1>9. CASE Finalize
  BY <1>9, FinalizeKeeps
<1>10. CASE UNCHANGED vars
  BY <1>10 DEF Control, TypedBuilding, TypedRunning, Stacked, CompletedLast, Built, vars, building
<1> QED
  BY <1>1, <1>2, <1>3, <1>4, <1>5, <1>6, <1>7, <1>8, <1>9, <1>10 DEF Next, Over

\* What is built and what runs is well-formed and follows the plan.
THEOREM ControlHolds == Spec => []Control
<1>1. Init => Control
  BY ControlInit
<1>2. Control /\ [Next]_vars => Control'
  BY ControlNext
<1> QED
  BY <1>1, <1>2, PTL DEF Spec

\* It has the types stated for it.
LEMMA ControlTypes == Control => TypeOK
<1> SUFFICES ASSUME Control
             PROVE  TypeOK
  OBVIOUS
<1>1. /\ plan \in Plans /\ node \in 1..Len(plan) /\ FiniteNames(required)
      /\ pipelines \in Seq(PipelinesOf(plan)) /\ current \in 1..Len(pipelines)
      /\ completed \in Seq(Nat) /\ \A k \in 1..Len(completed) : completed[k] \in 1..Len(pipelines)
      /\ schema \in Seq(Nat)
      /\ at \in Place /\ running \in 0..Len(completed) /\ batch \in Batches
  BY DEF Control, TypedBuilding, TypedRunning
<1>2. DOMAIN pipelines = 1..Len(pipelines) /\ DOMAIN completed = 1..Len(completed)
  BY <1>1, LenProperties
<1>3. Nodes = 1..Len(plan) /\ Len(plan) \in Nat
  BY <1>1, PlanIs DEF Nodes
<1>4. required \subseteq Nat /\ batch.columns \in Seq(Nat)
  BY <1>1 DEF FiniteNames, Batches
<1>5. Range(completed) \subseteq DOMAIN pipelines
  BY <1>1, <1>2 DEF Range
<1>6. ASSUME NEW p \in Range(pipelines)
      PROVE  {p.source, p.sink} \subseteq Nodes \cup {0}
  <2>1. PICK k \in 1..Len(pipelines) : p = pipelines[k]
    BY <1>2 DEF Range
  <2>2. p.source \in 0..Len(plan) /\ p.sink \in {0} \cup Breaking(plan, 1)
    BY <1>1, <1>3, <2>1, PipelineIs
  <2> QED
    BY <1>3, <2>2 DEF Breaking
<1> QED
  BY <1>1, <1>2, <1>3, <1>4, <1>5, <1>6 DEF TypeOK

\* Types of the planner's state, through building, running and rejection.
THEOREM PlannerTypeCorrect == Spec => []TypeOK
BY ControlHolds, ControlTypes, PTL

-----------------------------------------------------------------------------
(* What is completed is the plan. *)

\* Pipeline number k of those that run.
Completed(k) == pipelines[completed[k]]

\* A sequence without its elements' other parts.
NodesOf(transforms) == [i \in DOMAIN transforms |-> transforms[i].node]

\* One starts where the one before it ends, and the last one ends in the result.
LEMMA CompletedFollow ==
  ASSUME Control, Built
  PROVE  /\ Len(completed) \in Nat \ {0}
         /\ \A k \in 1..Len(completed) :
              /\ Completed(k) \in PipelinesOf(plan) /\ IsPipeline(Completed(k))
              /\ Completed(k).transforms \in Seq(Entries(plan))
              /\ \A i \in 1..Len(Completed(k).transforms) :
                   Completed(k).transforms[i].node = Completed(k).source + i
              /\ k = 1 => Completed(k).source = 1
              /\ k < Len(completed) =>
                   /\ Completed(k).sink = Completed(k).source + Len(Completed(k).transforms) + 1
                   /\ Completed(k + 1).source = Completed(k).sink
              /\ k = Len(completed) =>
                   /\ Completed(k).sink = 0
                   /\ Completed(k).source + Len(Completed(k).transforms) = Len(plan)
<1>1. PICK m, c : m = Len(pipelines) /\ c = current /\ m \in Nat /\ c \in 1..m
  BY LenProperties DEF Control, TypedBuilding
<1>2. PICK l : l = Len(completed) /\ l = m - c + 1 /\ \A k \in 1..l : completed[k] = m + 1 - k
  BY <1>1 DEF Control, CompletedLast
<1>3. ChainOf(pipelines, c, Len(plan))
  BY <1>1 DEF Control
<1>4. Len(plan) \in Nat /\ pipelines \in Seq(PipelinesOf(plan))
  BY PlanIs DEF Control, TypedBuilding
<1>5. l \in Nat \ {0}
  BY <1>1, <1>2
<1>6. ASSUME NEW k \in 1..l
      PROVE  /\ Completed(k) \in PipelinesOf(plan) /\ IsPipeline(Completed(k))
             /\ Completed(k).transforms \in Seq(Entries(plan))
             /\ \A i \in 1..Len(Completed(k).transforms) :
                  Completed(k).transforms[i].node = Completed(k).source + i
             /\ k = 1 => Completed(k).source = 1
             /\ k < l =>
                  /\ Completed(k).sink = Completed(k).source + Len(Completed(k).transforms) + 1
                  /\ Completed(k + 1).source = Completed(k).sink
             /\ k = l =>
                  /\ Completed(k).sink = 0
                  /\ Completed(k).source + Len(Completed(k).transforms) = Len(plan)
  <2>1. PICK j : j = m + 1 - k /\ j \in c..m /\ j \in 1..m
    BY <1>1, <1>2, <1>5, <1>6
  <2>2. Completed(k) = pipelines[j]
    BY <1>2, <2>1 DEF Completed
  <2>3. /\ pipelines[j] \in PipelinesOf(plan) /\ IsPipeline(pipelines[j])
        /\ pipelines[j].transforms \in Seq(Entries(plan))
    BY <1>1, <1>4, <2>1, PipelineIs
  <2>4. \A i \in 1..Len(pipelines[j].transforms) : pipelines[j].transforms[i].node = pipelines[j].source + i
    BY <1>1, <1>3, <2>1 DEF ChainOf
  <2>5. k = 1 => pipelines[j].source = 1
    <3>1. k = 1 => j = m
      BY <1>1, <2>1
    <3> QED
      BY <1>1, <1>3, <3>1 DEF ChainOf
  <2>6. ASSUME k < l
        PROVE  /\ pipelines[j].sink = pipelines[j].source + Len(pipelines[j].transforms) + 1
               /\ Completed(k + 1).source = pipelines[j].sink
    <3>1. j \in (c + 1)..m /\ k + 1 \in 1..l /\ m + 1 - (k + 1) = j - 1
      BY <1>1, <1>2, <1>5, <1>6, <2>1, <2>6
    <3>2. Completed(k + 1) = pipelines[j - 1]
      BY <1>2, <3>1 DEF Completed
    <3> QED
      BY <1>1, <1>3, <3>1, <3>2 DEF ChainOf
  <2>7. ASSUME k = l
        PROVE  /\ pipelines[j].sink = 0
               /\ pipelines[j].source + Len(pipelines[j].transforms) = Len(plan)
    <3>1. j = c
      BY <1>1, <1>2, <2>1, <2>7
    <3> QED
      BY <1>3, <3>1 DEF ChainOf
  <2> QED
    BY <2>2, <2>3, <2>4, <2>5, <2>6, <2>7
<1> QED
  BY ONLY <1>2, <1>5, <1>6

\* Then their nodes, one pipeline behind the other, are those of the plan.
LEMMA ControlFollows == Control => PipelinesFollowPlan
<1> SUFFICES ASSUME Control, Built
             PROVE  /\ FlattenSeq([k \in DOMAIN completed |->
                                <<Completed(k).source>> \o NodesOf(Completed(k).transforms)])
                         = [i \in Nodes |-> i]
                    /\ \A k \in DOMAIN completed :
                         Completed(k).sink = IF k = Len(completed) THEN 0 ELSE Completed(k + 1).source
  BY DEF PipelinesFollowPlan, Completed, NodesOf
<1>1. PICK l, n : l = Len(completed) /\ n = Len(plan) /\ l \in Nat \ {0}
  BY CompletedFollow
<1>2. DOMAIN completed = 1..l /\ Nodes = 1..n /\ n \in Nat
  BY <1>1, PlanIs, LenProperties DEF Control, TypedBuilding, Nodes
<1> DEFINE a(k) == Completed(k).source
           w(k) == Len(Completed(k).transforms)
<1>3. \A k \in 1..l : /\ a(k) \in Nat /\ w(k) \in Nat
                      /\ k = 1 => a(k) = 1
                      /\ k < l => a(k + 1) = a(k) + w(k) + 1 /\ Completed(k).sink = a(k + 1)
                      /\ k = l => a(k) + w(k) = n /\ Completed(k).sink = 0
  BY <1>1, CompletedFollow DEF IsPipeline
<1>4. \A k \in DOMAIN completed :
        Completed(k).sink = IF k = Len(completed) THEN 0 ELSE Completed(k + 1).source
  BY <1>1, <1>2, <1>3
<1>5. PICK s : s = [k \in 1..l |-> <<Completed(k).source>> \o NodesOf(Completed(k).transforms)]
  OBVIOUS
<1>6. ASSUME NEW k \in 1..l
      PROVE  /\ s[k] \in Seq(Nat) /\ Len(s[k]) = w(k) + 1
             /\ \A j \in 1..(w(k) + 1) : s[k][j] = (a(k) - 1) + j
  <2>1. PICK t, v, b : t = Completed(k).transforms /\ v = w(k) /\ b = a(k)
    OBVIOUS
  <2>2. t \in Seq(Entries(plan)) /\ v = Len(t) /\ v \in Nat /\ b \in Nat
        /\ \A i \in 1..v : t[i].node = b + i
    BY <1>1, <1>3, <2>1, CompletedFollow
  <2>3. PICK d : d = NodesOf(t)
    OBVIOUS
  <2>4. DOMAIN t = 1..v
    BY <2>2, LenProperties
  <2>5. d \in [1..v -> Nat] /\ \A i \in 1..v : d[i] = b + i
    BY <2>2, <2>3, <2>4 DEF NodesOf
  <2>6. d \in Seq(Nat) /\ Len(d) = v
    BY <2>2, <2>5, IsSequence
  <2>7. PICK h : h = <<b>>
    OBVIOUS
  <2>8. h \in Seq(Nat) /\ Len(h) = 1 /\ h[1] = b
    BY <2>2, <2>7
  <2>9. /\ h \o d \in Seq(Nat) /\ Len(h \o d) = Len(h) + Len(d)
        /\ \A j \in 1..(Len(h) + Len(d)) : (h \o d)[j] = IF j <= Len(h) THEN h[j] ELSE d[j - Len(h)]
    BY <2>6, <2>8, ConcatProperties
  <2>10. s[k] = h \o d
    BY <1>5, <2>1, <2>3, <2>7
  <2>11. ASSUME NEW j \in 1..(v + 1)
         PROVE  s[k][j] = (b - 1) + j
    <3>1. s[k][j] = IF j <= 1 THEN h[j] ELSE d[j - 1]
      BY <2>2, <2>6, <2>8, <2>9, <2>10
    <3>2. CASE j = 1
      BY <2>2, <2>8, <3>1, <3>2
    <3>3. CASE j # 1
      <4>1. PICK i : i = j - 1 /\ i \in 1..v /\ ~(j <= 1)
        BY <2>2, <2>11, <3>3
      <4>2. s[k][j] = b + i
        BY <2>5, <3>1, <4>1
      <4> QED
        BY <2>2, <4>1, <4>2
    <3> QED
      BY <3>2, <3>3
  <2>12. Len(s[k]) = v + 1
    BY <2>2, <2>6, <2>8, <2>9, <2>10
  <2> QED
    BY <2>1, <2>9, <2>10, <2>11, <2>12
<1>7. s \in Seq(Seq(Nat)) /\ Len(s) = l
  <2>1. s \in [1..l -> Seq(Nat)]
    BY <1>5, <1>6
  <2> QED
    BY <1>1, <2>1, IsSequence
<1>8. PICK P : P = [k \in 0..l |-> IF k = 0 THEN 0 ELSE a(k) + w(k)]
  OBVIOUS
<1> HIDE DEF a, w
<1>9. \A k \in 1..l : P[k - 1] = a(k) - 1 /\ P[k] = a(k) + w(k)
  <2> SUFFICES ASSUME NEW k \in 1..l
               PROVE  P[k - 1] = a(k) - 1 /\ P[k] = a(k) + w(k)
    OBVIOUS
  <2>1. P[k] = a(k) + w(k)
    BY <1>1, <1>8
  <2>2. CASE k = 1
    BY <1>1, <1>3, <1>8, <2>2
  <2>3. CASE k # 1
    <3>1. PICK i : i = k - 1 /\ i \in 1..l /\ i < l /\ i + 1 = k /\ i # 0 /\ i \in 0..l
      BY <1>1, <2>3
    <3>2. P[i] = a(i) + w(i) /\ a(k) = a(i) + w(i) + 1 /\ a(i) \in Nat /\ w(i) \in Nat
      BY <1>3, <1>8, <3>1
    <3> QED
      BY <2>1, <3>1, <3>2
  <2> QED
    BY <2>1, <2>2, <2>3
<1>10. Ends(P, s)
  <2>1. \A k \in 0..l : k = 0 \/ k \in 1..l
    BY <1>1
  <2>2. P \in [0..l -> Nat] /\ P[0] = 0
    BY <1>1, <1>3, <1>8, <2>1
  <2>3. \A k \in 1..l : P[k] = P[k - 1] + Len(s[k])
    BY <1>3, <1>6, <1>9
  <2> QED
    BY <1>7, <2>2, <2>3 DEF Ends
<1>11. \A k \in 1..l : \A j \in 1..Len(s[k]) : s[k][j] = P[k - 1] + j
  BY <1>6, <1>9
<1>12. P[l] = n
  BY <1>1, <1>3, <1>9
<1>13. PICK f : f = FlattenSeq(s)
  OBVIOUS
<1>14. /\ f \in Seq(Nat) /\ Len(f) = n
       /\ \A k \in 1..l : \A j \in 1..Len(s[k]) : f[P[k - 1] + j] = s[k][j]
  BY <1>7, <1>10, <1>12, <1>13, FlattenType, FlattenPlaces, ZenonT(60)
<1>15. \A x \in 1..n : f[x] = x
  <2>1. EndsCover(P, s)
    BY <1>7, <1>10, FlattenFinds
  <2>2. \A x \in 1..n : \E k \in 1..l : \E j \in 1..Len(s[k]) : x = P[k - 1] + j
    BY <1>7, <1>12, <2>1 DEF EndsCover
  <2>3. ASSUME NEW x \in 1..n
        PROVE  f[x] = x
    <3>0. PICK k \in 1..l : \E j \in 1..Len(s[k]) : x = P[k - 1] + j
      BY <2>2
    <3>1. PICK j \in 1..Len(s[k]) : x = P[k - 1] + j
      BY <3>0
    <3>2. f[P[k - 1] + j] = s[k][j]
      BY <1>14
    <3>3. s[k][j] = P[k - 1] + j
      BY <1>11
    <3> QED
      BY <3>1, <3>2, <3>3
  <2> QED
    BY <2>3
<1>16. f = [i \in 1..n |-> i]
  BY <1>14, <1>15, LenProperties
<1> QED
  BY <1>2, <1>4, <1>5, <1>13, <1>16

\* The pipelines that run are the plan, node by node, whatever the plan's breakers are.
THEOREM PlannerFollowsPlan == Spec => []PipelinesFollowPlan
BY ControlHolds, ControlFollows, PTL

-----------------------------------------------------------------------------
(* The invariant of the columns: schemas by node. *)

\* S[i] are the columns behind node i of plan p.
Follows(p, S) == /\ S \in [1..Len(p) -> Seq(Nat)]
                 /\ \A i \in 2..Len(p) : S[i] = Delivers(p[i], S[i - 1])

\* What pipeline q of plan p looked up is in place in the columns its operators get.
FitsIn(p, S, q) ==
  /\ \A i \in 1..Len(q.transforms) :
       Fits(p[q.source + i], S[q.source + i - 1], q.transforms[i].uses)
  /\ q.sink # 0 => Fits(p[q.sink], S[q.sink - 1], q.uses)

\* The node that is built last.
Top == IF at = "up" THEN node - 1 ELSE Len(plan)

\* The scan's columns are known, and what else there is has its node's columns.
Holds(S) ==
  /\ results[1].columns = S[1]
  /\ \A i \in 2..Len(plan) : results[i] = NoBatch \/ results[i].columns = S[i]
  /\ results[0] = NoBatch \/ results[0].columns = S[Len(plan)]

\* The batch has gone d transforms far.
Gone(S, d) ==
  /\ d \in 0..Len(Pipe.transforms) /\ Len(rest) = Len(Pipe.transforms) - d
  /\ \A i \in 1..Len(rest) : rest[i] = Pipe.transforms[d + i]
  /\ batch.rows \/ batch.columns # <<>> => batch.columns = S[Pipe.source + d]

\* Where the pipeline that runs is.
Runs(S) ==
  /\ at = "transforms" => \E d : Gone(S, d)
  /\ at = "finalize" => \/ batch = NoBatch
                        \/ batch.columns = S[Pipe.source + Len(Pipe.transforms)]

Placed(S) ==
  /\ Follows(plan, S) /\ Holds(S) /\ Runs(S)
  /\ schema = S[Top]
  /\ \A k \in current..Len(pipelines) : FitsIn(plan, S, pipelines[k])

InPlace == Control /\ (at = "up" \/ Built => \E S : Placed(S))

\* The columns the scan reads determine those behind every node.
LEMMA SchemasExist ==
  ASSUME NEW p \in Plans, NEW c, c \in Seq(Nat)
  PROVE  \E S : Follows(p, S) /\ S[1] = c
<1>1. PICK n : n = Len(p) /\ n \in Nat \ {0} /\ \A i \in 1..n : p[i] \in Node
  BY PlanIs
<1>2. PICK m \in Nat : m = n - 1
  BY <1>1
<1>3. PICK g : g = [i \in 1..m |-> [x \in Seq(Nat) |-> Delivers(p[i + 1], x)]]
  OBVIOUS
<1>4. \A i \in 1..m : \A x : x \in Seq(Nat) => Delivers(p[i + 1], x) \in Seq(Nat)
  <2> SUFFICES ASSUME NEW i \in 1..m, NEW x, x \in Seq(Nat)
               PROVE  Delivers(p[i + 1], x) \in Seq(Nat)
    OBVIOUS
  <2>1. p[i + 1] \in Node
    BY <1>1, <1>2
  <2> QED
    BY <2>1, DeliversIs
<1>5. /\ g \in [1..m -> [Seq(Nat) -> Seq(Nat)]]
      /\ \A i \in 1..m : \A x \in Seq(Nat) : g[i][x] = Delivers(p[i + 1], x)
  BY <1>3, <1>4
<1>6. PICK F \in [0..m -> Seq(Nat)] : Recurs(F, m, c, g)
  BY <1>2, <1>5, RecursionExists
<1>7. PICK S : S = [i \in 1..n |-> F[i - 1]]
  OBVIOUS
<1>8. S \in [1..n -> Seq(Nat)] /\ S[1] = c
  <2>1. \A i \in 1..n : i - 1 \in 0..m
    BY <1>1, <1>2
  <2> QED
    BY <1>1, <1>6, <1>7, <2>1 DEF Recurs
<1>9. ASSUME NEW i \in 2..n
      PROVE  S[i] = Delivers(p[i], S[i - 1])
  <2>0. PICK j : j = i - 1
    OBVIOUS
  <2>1. j = i - 1 /\ j \in 1..m /\ j + 1 = i /\ j \in 1..n /\ j - 1 \in 0..m /\ i \in 1..n
    <3>1. n \in Nat /\ m = n - 1
      BY <1>1, <1>2
    <3> QED
      BY ONLY <1>9, <2>0, <3>1
  <2>2. F[j] = g[j][F[j - 1]] /\ F[j - 1] \in Seq(Nat)
    BY <1>6, <2>1 DEF Recurs
  <2>3. S[i] = F[j] /\ S[j] = F[j - 1]
    BY <1>7, <2>1
  <2> QED
    BY <1>5, <2>1, <2>2, <2>3
<1> QED
  BY <1>1, <1>8, <1>9 DEF Follows

\* The node is behind, and its parent or the run is next.
LEMMA AscendTop ==
  ASSUME Ascend, plan' = plan
  PROVE  Top' = (IF at' = "up" THEN (node + 1) - 1 ELSE node) /\ at' \in {"up", "source"}
BY DEF Ascend, Top

\* A pipeline of no transforms that ends nowhere looks nothing up.
LEMMA NothingFits ==
  ASSUME NEW p, NEW S, NEW q, q.transforms = <<>>, q.sink = 0
  PROVE  FitsIn(p, S, q)
<1>1. Len(<<>>) = 0
  OBVIOUS
<1> QED
  BY <1>1 DEF FitsIn

\* The scan reads its columns.
LEMMA BuildScanPlaces ==
  ASSUME Control, BuildScan
  PROVE  \E S : Placed(S)'
<1>1. PICK columns : columns = ScanColumns(plan[node])
  OBVIOUS
<1>2. /\ at = "down" /\ plan[node].kind = "scan"
      /\ pipelines' = [pipelines EXCEPT ![current].source = node]
      /\ schema' = columns
      /\ results' = [results EXCEPT ![node].columns = columns]
      /\ Ascend
      /\ UNCHANGED <<plan, current>>
  BY <1>1 DEF BuildScan
<1>3. /\ plan \in Plans /\ Len(plan) \in Nat \ {0} /\ plan[node] \in Node /\ node = 1
  BY <1>2, PlanIs DEF Control, TypedBuilding
<1>4. columns \in Seq(Nat)
  BY <1>1, <1>2, <1>3, ScanColumnsIs DEF Control, TypedBuilding
<1>5. PICK S : Follows(plan, S) /\ S[1] = columns
  BY <1>3, <1>4, SchemasExist
<1>6. Top' = 1 /\ at' \in {"up", "source"}
  BY <1>2, <1>3, AscendTop
<1>7. results = [i \in 0..Len(plan) |-> NoBatch]
  BY <1>2 DEF Control
<1>8. results'[1].columns = columns /\ \A i \in 0..Len(plan) : i # 1 => results'[i] = NoBatch
  BY <1>2, <1>3, <1>7
<1>9. Holds(S)'
  BY <1>2, <1>3, <1>5, <1>8 DEF Holds
<1>10. Runs(S)'
  BY <1>6 DEF Runs
<1>11. \A k \in current'..Len(pipelines') : FitsIn(plan', S, pipelines'[k])
  <2>1. PICK m : m = Len(pipelines) /\ m \in Nat \ {0} /\ current = m /\ pipelines[m] = NewPipeline
                 /\ DOMAIN pipelines = 1..m /\ pipelines \in Seq(PipelinesOf(plan))
    BY <1>2, LenProperties DEF Control, TypedBuilding
  <2>2. PICK r : r = [pipelines[m] EXCEPT !.source = node]
    OBVIOUS
  <2>3. pipelines' = [pipelines EXCEPT ![m] = r]
    BY <1>2, <2>1, <2>2
  <2>4. r.transforms = <<>> /\ r.sink = 0
    BY <2>1, <2>2 DEF NewPipeline
  <2>5. pipelines'[m] = r /\ Len(pipelines') = m
    BY <2>1, <2>3
  <2>6. FitsIn(plan, S, r)
    BY <2>4, NothingFits
  <2>7. \A k \in m..m : k = m
    BY <2>1
  <2> QED
    BY <1>2, <2>1, <2>5, <2>6, <2>7
<1> QED
  BY <1>2, <1>5, <1>6, <1>9, <1>10, <1>11 DEF Placed

\* A transform looks up what its child delivers, and delivers its own.
LEMMA BuildTransformPlaces ==
  ASSUME Control, NEW kind, NEW uses, NEW output, kind \in Movers,
         BuildTransform(kind, uses, output), Suits(plan[node], schema, uses, output),
         NEW S, Placed(S)
  PROVE  Placed(S)'
<1>1. /\ at = "up" /\ schema' = output /\ Ascend
      /\ UNCHANGED <<plan, current, results>>
  BY DEF BuildTransform
<1>2. PICK c, m : c = current /\ m = Len(pipelines) /\ m \in Nat /\ c \in 1..m
  BY LenProperties DEF Control, TypedBuilding
<1>3. /\ Len(plan) \in Nat /\ node \in 2..Len(plan)
      /\ ChainOf(pipelines, c, node - 1) /\ pipelines \in Seq(PipelinesOf(plan))
  BY <1>1, <1>2, PlanIs DEF Control, TypedBuilding
<1>4. PICK r : /\ OneChanged(pipelines, pipelines', c, r)
               /\ r.source = pipelines[c].source /\ r.sink = pipelines[c].sink
               /\ Len(r.transforms) = Len(pipelines[c].transforms) + 1
               /\ \A i \in 1..Len(pipelines[c].transforms) :
                    r.transforms[i] = pipelines[c].transforms[i]
               /\ r.transforms[Len(pipelines[c].transforms) + 1].uses = uses
  BY <1>2, TransformAdds
<1>5. /\ Follows(plan, S) /\ Holds(S) /\ schema = S[node - 1]
      /\ \A k \in c..m : FitsIn(plan, S, pipelines[k])
  BY <1>1, <1>2 DEF Placed, Top
<1>0. PICK a, l : a = pipelines[c].source /\ l = Len(pipelines[c].transforms)
  OBVIOUS
<1>6. /\ a = pipelines[c].source /\ l = Len(pipelines[c].transforms)
      /\ a \in Nat /\ l \in Nat /\ a + l = node - 1 /\ pipelines[c].sink = 0
  <2>1. IsPipeline(pipelines[c])
    BY <1>2, <1>3, PipelineIs
  <2> QED
    BY <1>0, <1>3, <2>1 DEF ChainOf, IsPipeline
<1>7. FitsIn(plan, S, r)
  <2>1. r.sink = 0 /\ r.source = a /\ Len(r.transforms) = l + 1
    BY <1>4, <1>6
  <2>2. ASSUME NEW i \in 1..(l + 1)
        PROVE  Fits(plan[a + i], S[a + i - 1], r.transforms[i].uses)
    <3>1. CASE i \in 1..l
      <4>1. r.transforms[i] = pipelines[c].transforms[i]
        BY <1>4, <1>6, <3>1
      <4>2. FitsIn(plan, S, pipelines[c])
        BY <1>2, <1>5
      <4>3. Fits(plan[a + i], S[a + i - 1], pipelines[c].transforms[i].uses)
        BY <1>6, <3>1, <4>2 DEF FitsIn
      <4> QED
        BY <4>1, <4>3
    <3>2. CASE i = l + 1
      <4>1. a + i = node /\ a + i - 1 = node - 1
        <5>1. a \in Nat /\ l \in Nat /\ a + l = node - 1 /\ node \in Nat
          BY <1>3, <1>6
        <5> QED
          BY ONLY <3>2, <5>1
      <4>2. r.transforms[i].uses = uses
        BY <1>4, <1>6, <3>2
      <4>3. Fits(plan[node], S[node - 1], uses)
        BY <1>5 DEF Suits
      <4> QED
        BY <4>1, <4>2, <4>3
    <3>3. i \in 1..l \/ i = l + 1
      BY <1>6
    <3> QED
      BY <3>1, <3>2, <3>3
  <2> QED
    BY <2>1, <2>2 DEF FitsIn
<1>8. \A k \in current'..Len(pipelines') : FitsIn(plan', S, pipelines'[k])
  <2>1. Len(pipelines') = m /\ pipelines'[c] = r /\ \A k \in 1..m : k # c => pipelines'[k] = pipelines[k]
    BY <1>2, <1>4 DEF OneChanged
  <2>2. \A k \in c..m : FitsIn(plan, S, pipelines'[k])
    BY <1>2, <1>5, <1>7, <2>1
  <2> QED
    BY <1>1, <1>2, <2>1, <2>2
<1>9. Top' = node /\ at' \in {"up", "source"}
  <2>1. (node + 1) - 1 = node
    BY <1>3
  <2> QED
    BY <1>1, <2>1, AscendTop
<1>10. schema' = S[node]
  <2>1. S[node] = Delivers(plan[node], S[node - 1])
    BY <1>3, <1>5 DEF Follows
  <2> QED
    BY <1>1, <1>5, <2>1 DEF Suits
<1>11. Holds(S)' /\ Runs(S)'
  BY <1>1, <1>5, <1>9 DEF Holds, Runs
<1> QED
  BY <1>1, <1>5, <1>8, <1>9, <1>10, <1>11 DEF Placed

\* So does a breaker.
LEMMA BuildBreakerPlaces ==
  ASSUME Control, NEW kind, NEW output, kind \in Breakers,
         BuildBreaker(kind, output), Suits(plan[node], schema, LookedUp(plan[node]), output),
         NEW S, Placed(S)
  PROVE  Placed(S)'
<1>1. /\ at = "up" /\ schema' = output /\ Ascend
      /\ UNCHANGED <<plan, results>>
  BY DEF BuildBreaker
<1>2. PICK c, m : c = current /\ m = Len(pipelines) /\ m \in Nat /\ c \in 2..m
  BY LenProperties, BreakerLinks DEF Control, TypedBuilding
<1>3. /\ Len(plan) \in Nat /\ node \in 2..Len(plan)
      /\ ChainOf(pipelines, c, node - 1) /\ pipelines \in Seq(PipelinesOf(plan))
  BY <1>1, <1>2, PlanIs DEF Control, TypedBuilding
<1>4. /\ Len(pipelines') = m /\ current' = c - 1
      /\ pipelines'[c].source = pipelines[c].source
      /\ pipelines'[c].transforms = pipelines[c].transforms
      /\ pipelines'[c].sink = node
      /\ pipelines'[c].uses = LookedUp(plan[node])
      /\ pipelines'[c - 1].transforms = pipelines[c - 1].transforms
      /\ pipelines'[c - 1].sink = pipelines[c - 1].sink
      /\ \A k \in 1..m : k # c /\ k # c - 1 => pipelines'[k] = pipelines[k]
  BY <1>2, BreakerLinks
<1>5. /\ Follows(plan, S) /\ Holds(S) /\ schema = S[node - 1]
      /\ \A k \in c..m : FitsIn(plan, S, pipelines[k])
  BY <1>1, <1>2 DEF Placed, Top
<1>6. FitsIn(plan, S, pipelines'[c - 1])
  <2>1. pipelines[c - 1] = NewPipeline
    BY <1>2, <1>3 DEF ChainOf
  <2>2. pipelines'[c - 1].transforms = <<>> /\ pipelines'[c - 1].sink = 0
    BY <1>4, <2>1 DEF NewPipeline
  <2> QED
    BY <2>2, NothingFits
<1>7. FitsIn(plan, S, pipelines'[c])
  <2>1. FitsIn(plan, S, pipelines[c])
    BY <1>2, <1>5
  <2>2. Fits(plan[node], S[node - 1], LookedUp(plan[node]))
    BY <1>5 DEF Suits
  <2> QED
    BY <1>4, <2>1, <2>2 DEF FitsIn
<1>8. \A k \in current'..Len(pipelines') : FitsIn(plan', S, pipelines'[k])
  <2>1. \A k \in (c - 1)..m : k = c - 1 \/ k = c \/ (k \in c..m /\ k \in 1..m /\ k # c /\ k # c - 1)
    BY <1>2
  <2>2. \A k \in (c - 1)..m : FitsIn(plan, S, pipelines'[k])
    BY <1>4, <1>5, <1>6, <1>7, <2>1
  <2> QED
    BY <1>1, <1>4, <2>2
<1>9. Top' = node /\ at' \in {"up", "source"}
  <2>1. (node + 1) - 1 = node
    BY <1>3
  <2> QED
    BY <1>1, <2>1, AscendTop
<1>10. schema' = S[node]
  <2>1. S[node] = Delivers(plan[node], S[node - 1])
    BY <1>3, <1>5 DEF Follows
  <2> QED
    BY <1>1, <1>5, <2>1 DEF Suits
<1>11. Holds(S)' /\ Runs(S)'
  BY <1>1, <1>5, <1>9 DEF Holds, Runs
<1> QED
  BY <1>1, <1>5, <1>8, <1>9, <1>10, <1>11 DEF Placed

\* What runs is between its source and its sink.
LEMMA PipeLies ==
  ASSUME Control, Built
  PROVE  /\ Pipe.source \in 1..Len(plan) /\ Len(Pipe.transforms) \in Nat /\ Len(plan) \in Nat
         /\ Pipe.source + Len(Pipe.transforms) \in 1..Len(plan)
         /\ \A i \in 1..Len(Pipe.transforms) : Pipe.transforms[i].node = Pipe.source + i
         /\ Pipe.sink = 0 => Pipe.source + Len(Pipe.transforms) = Len(plan)
         /\ Pipe.sink # 0 => /\ Pipe.sink = Pipe.source + Len(Pipe.transforms) + 1
                             /\ Pipe.sink \in 2..Len(plan)
                             /\ plan[Pipe.sink].kind \in Breakers
<1>1. PICK k, m : k = running /\ m = Len(completed) /\ m \in Nat /\ k \in 1..m
  BY PipeIs
<1>2. PICK n : n = Len(plan) /\ n \in Nat
  BY PlanIs DEF Control, TypedBuilding
<1>3. Pipe = Completed(k)
  BY <1>1 DEF Pipe, Completed
<1>4. /\ \A i \in 1..Len(Pipe.transforms) : Pipe.transforms[i].node = Pipe.source + i
      /\ k < m => Pipe.sink = Pipe.source + Len(Pipe.transforms) + 1
      /\ k = m => Pipe.sink = 0 /\ Pipe.source + Len(Pipe.transforms) = n
      /\ k = 1 => Pipe.source = 1
  BY <1>1, <1>2, <1>3, CompletedFollow
<1>5. PICK a, l, z : a = Pipe.source /\ l = Len(Pipe.transforms) /\ z = Pipe.sink
  OBVIOUS
<1>6. a \in Nat /\ l \in Nat
  BY <1>5, PipeIs DEF IsPipeline
<1>7. a > 0
  <2>1. CASE k = 1
    BY <1>4, <1>5, <2>1
  <2>2. CASE k # 1
    <3>1. PICK j : j = k - 1
      OBVIOUS
    <3>2. j \in 1..m /\ j < m /\ j + 1 = k
      BY <1>1, <2>2, <3>1
    <3>3. /\ IsPipeline(Completed(j))
          /\ Completed(j).sink = Completed(j).source + Len(Completed(j).transforms) + 1
          /\ Completed(k).source = Completed(j).sink
      BY <1>1, <3>2, CompletedFollow
    <3>4. PICK b, e : b = Completed(j).source /\ e = Len(Completed(j).transforms)
      OBVIOUS
    <3>5. b \in Nat /\ e \in Nat /\ a = b + e + 1
      BY <1>3, <1>5, <3>3, <3>4 DEF IsPipeline
    <3> QED
      BY ONLY <3>5
  <2> QED
    BY <2>1, <2>2
<1>8. z \in {0} \cup Breaking(plan, 1)
  BY <1>5, PipeIs
<1>9. z # 0 => z \in 1..n /\ plan[z].kind \in Breakers
  BY <1>2, <1>8 DEF Breaking
<1>10. /\ z = 0 => a + l = n
       /\ z # 0 => z = a + l + 1
  <2>1. k < m => z = a + l + 1
    BY <1>4, <1>5
  <2>2. k = m => z = 0 /\ a + l = n
    BY <1>4, <1>5
  <2>3. k < m \/ k = m
    BY <1>1
  <2>4. a + l + 1 # 0
    BY <1>6
  <2> QED
    BY <2>1, <2>2, <2>3, <2>4
<1>11. a \in 1..n /\ a + l \in 1..n /\ (z # 0 => z \in 2..n)
  BY ONLY <1>2, <1>6, <1>7, <1>9, <1>10
<1> QED
  BY <1>2, <1>4, <1>5, <1>6, <1>9, <1>10, <1>11

\* It has what it looks up in place.
LEMMA PipeFits ==
  ASSUME Control, Built, NEW S, Placed(S)
  PROVE  /\ FitsIn(plan, S, Pipe) /\ Follows(plan, S) /\ Holds(S) /\ Runs(S)
         /\ schema = S[Len(plan)]
<1>1. PICK k, m, c : k = running /\ m = Len(pipelines) /\ c = current /\ m \in Nat /\ c \in 1..m
  BY LenProperties DEF Control, TypedBuilding
<1>2. PICK l : l = Len(completed) /\ l = m - c + 1 /\ completed[k] = m + 1 - k /\ k \in 1..l
  <2>1. k \in 1..Len(completed)
    BY <1>1, PipeIs
  <2> QED
    BY <1>1, <2>1 DEF Control, CompletedLast
<1>3. completed[k] \in c..m
  <2>1. PICK j : j = m + 1 - k
    OBVIOUS
  <2>2. m \in Nat /\ c \in 1..m /\ k \in 1..l /\ l = m - c + 1
    BY <1>1, <1>2
  <2>3. j \in c..m
    BY ONLY <2>1, <2>2
  <2> QED
    BY <1>2, <2>1, <2>3
<1> QED
  BY <1>1, <1>3 DEF Placed, Pipe, Top, Built

\* What runs leaves the columns of the nodes as they are.
LEMMA RunPlaces ==
  ASSUME Control, Built, NEW S, Placed(S), UNCHANGED building,
         at' \in {"source", "transforms", "finalize", "undefined", "done"}, Holds(S)', Runs(S)'
  PROVE  Placed(S)'
<1>1. schema' = S[Top]' /\ Follows(plan, S)'
  BY DEF Placed, Top, building, Built
<1>2. \A k \in current'..Len(pipelines') : FitsIn(plan', S, pipelines'[k])
  BY DEF Placed, building
<1> QED
  BY <1>1, <1>2 DEF Placed

\* The batch is a source's.
LEMMA GetDataPlaces ==
  ASSUME Control, GetData, NEW S, Placed(S)
  PROVE  Placed(S)'
<1>1. at = "source" /\ UNCHANGED <<building, running, results>>
  BY DEF GetData
<1>2. PICK got, a : got = results[Pipe.source] /\ a = Pipe.source
  OBVIOUS
<1>3. PICK rows : /\ rows = got.rows \/ a = 1
                  /\ IF a = 1 /\ ~rows /\ got.columns # <<>>
                       THEN at' = "finalize" /\ batch' = NoBatch /\ rest' = <<>>
                       ELSE /\ at' = "transforms"
                            /\ batch' = [got EXCEPT !.rows = rows]
                            /\ rest' = Pipe.transforms
  BY <1>2 DEF GetData
<1>4. Built
  BY <1>1 DEF Built
<1>5. a \in 1..Len(plan) /\ Len(plan) \in Nat /\ Len(Pipe.transforms) \in Nat
  BY <1>2, <1>4, PipeLies
<1>6. Holds(S)
  BY DEF Placed
<1>7. Pipe' = Pipe /\ plan' = plan /\ results' = results
  BY <1>1 DEF Pipe, building
<1>8. Holds(S)'
  BY <1>6, <1>7 DEF Holds
<1>9. CASE at' = "finalize"
  <2>1. batch' = NoBatch
    BY <1>3, <1>9
  <2>2. Runs(S)'
    BY <1>9, <2>1 DEF Runs
  <2> QED
    BY <1>1, <1>4, <1>8, <1>9, <2>2, RunPlaces
<1>10. CASE at' = "transforms"
  <2>1. batch' = [got EXCEPT !.rows = rows] /\ rest' = Pipe.transforms
    BY <1>3, <1>10
  <2>2. got \in Batches
    BY <1>2, <1>5 DEF Control, TypedRunning
  <2>3. batch'.columns = got.columns /\ batch'.rows = rows
    BY <2>1, <2>2 DEF Batches
  <2>4. batch'.rows \/ batch'.columns # <<>> => batch'.columns = S[a]
    <3>1. CASE a = 1
      BY <1>2, <1>6, <2>3, <3>1 DEF Holds
    <3>2. CASE a # 1
      <4>1. got = NoBatch \/ got.columns = S[a]
        <5>1. a \in 2..Len(plan)
          BY <1>5, <3>2
        <5> QED
          BY <1>2, <1>6, <5>1 DEF Holds
      <4>2. ASSUME got = NoBatch
            PROVE  ~rows /\ got.columns = <<>>
        <5>1. got.rows = FALSE /\ got.columns = <<>>
          BY <4>2 DEF NoBatch
        <5>2. rows = got.rows
          BY <1>3, <3>2
        <5> QED
          BY <5>1, <5>2, Zenon
      <4> QED
        BY <2>3, <4>1, <4>2
    <3> QED
      BY <3>1, <3>2
  <2>5. Gone(S, 0)'
    <3>1. PICK t, l : t = Pipe.transforms /\ l = Len(t)
      OBVIOUS
    <3>2. rest' = t /\ Pipe'.transforms = t /\ Pipe'.source = a /\ l \in Nat
      BY <1>2, <1>5, <1>7, <2>1, <3>1
    <3>3. 0 \in 0..l /\ l = l - 0 /\ \A i \in 1..l : 0 + i = i
      BY <3>2
    <3>4. a + 0 = a
      BY <1>5
    <3> QED
      BY <2>4, <3>1, <3>2, <3>3, <3>4 DEF Gone
  <2>6. Runs(S)'
    BY <1>10, <2>5 DEF Runs
  <2> QED
    BY <1>1, <1>4, <1>8, <1>10, <2>6, RunPlaces
<1> QED
  BY <1>3, <1>9, <1>10

\* A transform that finds what it wants delivers its node's columns.
LEMMA MovedDelivers ==
  ASSUME NEW n, n.kind \in Movers, NEW columns, NEW uses, Fits(n, columns, uses)
  PROVE  Moved(n, columns, Behind(columns, Made(n), uses)) = Delivers(n, columns)
<1>1. Behind(columns, Made(n), uses) = Wanted(n, columns)
  BY DEF Fits
<1>2. CASE n.kind = "drop"
  BY <1>1, <1>2 DEF Moved, Delivers
<1>3. CASE n.kind = "reorder"
  <2>1. Wanted(n, columns) = <<n.order>>
    BY <1>3 DEF Wanted
  <2> QED
    BY <1>1, <1>3, <2>1 DEF Moved, Delivers
<1>4. CASE n.kind \in {"filter", "limit", "scalar"}
  BY <1>4 DEF Moved, Delivers
<1> QED
  BY <1>2, <1>3, <1>4 DEF Movers

\* A limit that is the last of its pipeline is the plan's last node or in front of a breaker.
LEMMA LimitEnds ==
  ASSUME Control, Built, \A p \in Plans : LimitsLast(p), NEW i, i \in 1..Len(Pipe.transforms),
         plan[Pipe.source + i].kind = "limit"
  PROVE  i = Len(Pipe.transforms)
<1>1. PICK a, l, n, t : a = Pipe.source /\ l = Len(t) /\ n = Len(plan) /\ t = Pipe.transforms
  OBVIOUS
<1>2. /\ a \in 1..n /\ l \in Nat /\ n \in Nat /\ a + l \in 1..n
      /\ \A j \in 1..l : t[j].node = a + j
  BY <1>1, PipeLies
<1>3. SUFFICES ASSUME i # l
               PROVE  FALSE
  BY <1>1
<1>4. i + 1 \in 1..l /\ a + i \in 1..n /\ a + i # n /\ (a + i) + 1 = a + (i + 1)
  <2>1. i \in 1..l
    BY <1>1
  <2> QED
    BY ONLY <1>2, <1>3, <2>1
<1>5. LimitsLast(plan) /\ DOMAIN plan = 1..n
  BY <1>1, PlanIs DEF Control, TypedBuilding
<1>6. plan[a + (i + 1)].kind \in Breakers
  <2>1. plan[(a + i) + 1].kind \in Breakers
    BY <1>1, <1>4, <1>5 DEF LimitsLast
  <2> QED
    BY <1>4, <2>1
<1>7. t[i + 1] \in Entries(plan) /\ t[i + 1].node = a + (i + 1)
  <2>1. t \in Seq(Entries(plan))
    BY <1>1, PipeIs
  <2> QED
    BY <1>1, <1>2, <1>4, <2>1, ElementOfSeq
<1>8. plan[a + (i + 1)].kind \in Movers
  BY <1>7 DEF Entries
<1> QED
  BY <1>6, <1>8 DEF Breakers, Movers

\* A transform delivers its node's columns.
LEMMA TransformPlaces ==
  ASSUME Control, Transform, \A p \in Plans : LimitsLast(p), NEW S, Placed(S)
  PROVE  Placed(S)'
<1>1. PICK e, n, found :
           /\ e = Head(rest) /\ n = plan[e.node]
           /\ found = Behind(batch.columns, Made(n), e.uses)
           /\ at = "transforms" /\ rest # <<>> /\ InBatch(found)
           /\ \/ /\ batch.rows
                 /\ batch' = [columns |-> Moved(n, batch.columns, found), rows |-> TRUE]
                 /\ rest' \in {Tail(rest)} \cup (IF n.kind = "limit" THEN {<<>>} ELSE {})
                 /\ UNCHANGED at
              \/ batch' = NoBatch /\ rest' = <<>> /\ at' = "finalize"
           /\ UNCHANGED <<building, running, results>>
  BY TransformDoes
<1>2. Built
  BY <1>1 DEF Built
<1>3. Pipe' = Pipe /\ plan' = plan /\ results' = results
  BY <1>1 DEF Pipe, building
<1>4. Holds(S)'
  BY <1>3 DEF Placed, Holds
<1>5. CASE batch' = NoBatch /\ rest' = <<>> /\ at' = "finalize"
  <2>1. Runs(S)'
    BY <1>5 DEF Runs
  <2> QED
    BY <1>1, <1>2, <1>4, <1>5, <2>1, RunPlaces
<1>6. CASE /\ batch.rows
           /\ batch' = [columns |-> Moved(n, batch.columns, found), rows |-> TRUE]
           /\ rest' \in {Tail(rest)} \cup (IF n.kind = "limit" THEN {<<>>} ELSE {})
           /\ UNCHANGED at
  <2>1. PICK d : Gone(S, d)
    BY <1>1 DEF Placed, Runs
  <2>2. PICK a, l, t : a = Pipe.source /\ t = Pipe.transforms /\ l = Len(t)
    OBVIOUS
  <2>3. /\ a \in 1..Len(plan) /\ l \in Nat /\ a + l \in 1..Len(plan) /\ Len(plan) \in Nat
        /\ \A i \in 1..l : t[i].node = a + i
    BY <1>2, <2>2, PipeLies
  <2>4. /\ d \in 0..l /\ Len(rest) = l - d
        /\ \A i \in 1..Len(rest) : rest[i] = t[d + i]
        /\ batch.columns = S[a + d]
    BY <1>6, <2>1, <2>2 DEF Gone
  <2>5. rest \in Seq(Entries(plan))
    BY DEF Control, TypedRunning
  <2>6. /\ e = rest[1] /\ e \in Entries(plan) /\ Len(rest) \in Nat \ {0} /\ Len(Tail(rest)) = Len(rest) - 1
        /\ \A k \in 1..(Len(rest) - 1) : Tail(rest)[k] = rest[k + 1]
    BY <1>1, <2>5, TailIs
  <2>7. d + 1 \in 1..l /\ (a + d) + 1 = a + (d + 1) /\ a + (d + 1) \in 2..Len(plan)
        /\ (a + (d + 1)) - 1 = a + d
    <3>1. PICK r : r = Len(rest) /\ r \in Nat \ {0} /\ r = l - d
      BY <2>4, <2>6
    <3>2. d \in 0..l
      BY <2>4
    <3> QED
      BY ONLY <2>3, <3>1, <3>2
  <2>8. e = t[d + 1] /\ e.node = a + (d + 1) /\ n.kind \in Movers /\ n = plan[a + (d + 1)]
    <3>1. e = t[d + 1]
      BY <2>4, <2>6
    <3>2. e.node = a + (d + 1)
      BY <2>3, <2>7, <3>1
    <3> QED
      BY <1>1, <2>6, <3>1, <3>2 DEF Entries
  <2>9. FitsIn(plan, S, Pipe) /\ Follows(plan, S)
    BY <1>2, PipeFits
  <2>10. Fits(n, batch.columns, e.uses)
    <3>1. Fits(plan[a + (d + 1)], S[a + (d + 1) - 1], t[d + 1].uses)
      BY <2>2, <2>7, <2>9 DEF FitsIn
    <3> QED
      BY <2>4, <2>7, <2>8, <3>1
  <2>11. Moved(n, batch.columns, found) = S[a + (d + 1)]
    <3>1. Moved(n, batch.columns, found) = Delivers(n, batch.columns)
      BY <1>1, <2>8, <2>10, MovedDelivers
    <3>2. S[a + (d + 1)] = Delivers(plan[a + (d + 1)], S[(a + (d + 1)) - 1])
      BY <2>7, <2>9 DEF Follows
    <3> QED
      BY <2>4, <2>7, <2>8, <3>1, <3>2
  <2>12. batch'.columns = S[a + (d + 1)]
    BY <1>6, <2>11
  <2>13. Gone(S, d + 1)'
    <3>1. Pipe'.source = a /\ Pipe'.transforms = t
      BY <1>3, <2>2
    <3>2. CASE rest' = Tail(rest)
      <4>1. PICK r : r = Len(rest) /\ r \in Nat \ {0} /\ r = l - d
        BY <2>4, <2>6
      <4>2. Len(rest') = l - (d + 1)
        <5>1. d \in 0..l /\ l \in Nat
          BY <2>3, <2>4
        <5>2. r - 1 = l - (d + 1)
          BY ONLY <4>1, <5>1
        <5> QED
          BY <2>6, <3>2, <4>1, <5>2
      <4>3. ASSUME NEW i \in 1..Len(rest')
            PROVE  rest'[i] = t[(d + 1) + i]
        <5>1. i \in 1..(r - 1) /\ i + 1 \in 1..r
          <6>1. i \in 1..(r - 1)
            BY <2>6, <3>2, <4>1
          <6> QED
            BY <4>1, <6>1
        <5>2. rest'[i] = rest[i + 1] /\ rest[i + 1] = t[d + (i + 1)]
          BY <2>4, <2>6, <3>2, <4>1, <5>1
        <5>3. d + (i + 1) = (d + 1) + i
          BY <2>3, <2>4, <5>1
        <5> QED
          BY <5>2, <5>3
      <4>4. d + 1 \in 0..l
        BY <2>3, <2>4, <2>7
      <4> QED
        BY <2>2, <2>12, <3>1, <4>2, <4>3, <4>4 DEF Gone
    <3>3. CASE rest' = <<>> /\ n.kind = "limit"
      <4>1. d + 1 = l
        BY <1>2, <2>2, <2>7, <2>8, <3>3, LimitEnds
      <4>2. Len(<<>>) = 0 /\ l - (d + 1) = 0 /\ d + 1 \in 0..l
        BY <2>3, <4>1
      <4> QED
        BY <2>2, <2>12, <3>1, <3>3, <4>2 DEF Gone
    <3> QED
      BY <1>6, <3>2, <3>3
  <2>14. at' = "transforms"
    BY <1>1, <1>6
  <2>15. Runs(S)'
    BY <2>13, <2>14 DEF Runs
  <2> QED
    BY <1>1, <1>2, <1>4, <2>14, <2>15, RunPlaces
<1> QED
  BY <1>1, <1>5, <1>6

\* The sink gets what is behind the last transform.
LEMMA SinkPlaces ==
  ASSUME Control, Sink \/ ReadsBeyond, NEW S, Placed(S)
  PROVE  Placed(S)'
<1>1. UNCHANGED <<building, running, results>> /\ at = "transforms"
  BY DEF Sink, ReadsBeyond
<1>2. Built
  BY <1>1 DEF Built
<1>3. Pipe' = Pipe /\ plan' = plan /\ results' = results
  BY <1>1 DEF Pipe, building
<1>4. Holds(S)'
  BY <1>3 DEF Placed, Holds
<1>5. at' \in {"finalize", "undefined"}
  BY DEF Sink, ReadsBeyond
<1>6. Runs(S)'
  <2>1. CASE ReadsBeyond
    BY <2>1 DEF ReadsBeyond, Runs
  <2>2. CASE Sink
    <3>1. rest = <<>> /\ batch' = IF batch.rows THEN batch ELSE NoBatch
      BY <2>2 DEF Sink
    <3>2. PICK d : Gone(S, d)
      BY <1>1 DEF Placed, Runs
    <3>3. Len(Pipe.transforms) \in Nat
      BY <1>2, PipeLies
    <3>4. d = Len(Pipe.transforms)
      <4>1. PICK l, r : l = Len(Pipe.transforms) /\ r = Len(rest)
        OBVIOUS
      <4>2. Len(<<>>) = 0
        OBVIOUS
      <4>3. r = 0 /\ d \in 0..l /\ r = l - d /\ l \in Nat
        BY <3>1, <3>2, <3>3, <4>1, <4>2 DEF Gone
      <4>4. d = l
        BY ONLY <4>3
      <4> QED
        BY <4>1, <4>4
    <3>5. batch.rows => batch.columns = S[Pipe.source + Len(Pipe.transforms)]
      BY <3>2, <3>4 DEF Gone
    <3>6. batch' = NoBatch \/ batch'.columns = S[Pipe.source + Len(Pipe.transforms)]
      BY <3>1, <3>5
    <3> QED
      BY <1>3, <1>5, <3>6 DEF Runs, Sink
  <2> QED
    BY <2>1, <2>2
<1> QED
  BY <1>1, <1>2, <1>4, <1>5, <1>6, RunPlaces

\* A breaker gives its node's columns, and the result has the last node's.
LEMMA FinalizePlaces ==
  ASSUME Control, Finalize, NEW S, Placed(S)
  PROVE  Placed(S)'
<1>1. PICK z, made : /\ z = Pipe.sink
                     /\ made \in (IF z = 0 THEN {batch} ELSE Finalized(plan[z]))
                     /\ results' = [results EXCEPT ![z] = made]
  BY DEF Finalize
<1>2. at = "finalize" /\ UNCHANGED building /\ at' \in {"done", "source"}
  BY DEF Finalize
<1>3. Built
  BY <1>2 DEF Built
<1>4. PICK n : n = Len(plan) /\ n \in Nat \ {0} /\ \A i \in 1..n : plan[i] \in Node
  BY PlanIs DEF Control, TypedBuilding
<1>5. batch \in Batches /\ results \in [0..n -> Batches]
  BY <1>4 DEF Control, TypedRunning
<1>6. PICK y : y = Pipe.source + Len(Pipe.transforms)
  OBVIOUS
<1>7. /\ y \in 1..n
      /\ z = 0 => y = n
      /\ z # 0 => z = y + 1 /\ z \in 2..n /\ plan[z].kind \in Breakers
  BY <1>1, <1>3, <1>4, <1>6, PipeLies
<1>8. batch = NoBatch \/ batch.columns = S[y]
  BY <1>2, <1>6 DEF Placed, Runs
<1>9. Follows(plan, S) /\ Holds(S)
  BY DEF Placed
<1>10. z = 0 => made = NoBatch \/ made.columns = S[n]
  BY <1>1, <1>7, <1>8
<1>11. ASSUME z # 0
       PROVE  made = NoBatch \/ made.columns = S[z]
  <2>1. /\ made \in Batches
        /\ plan[z].kind = "aggregate" => made.columns = plan[z].by \o OutputsOf(plan[z].exprs)
        /\ plan[z].kind = "orderby" => made.columns = batch.columns /\ (made.rows => batch.rows)
    <3>1. plan[z] \in Node /\ plan[z].kind \in Breakers /\ made \in Finalized(plan[z])
      BY <1>1, <1>4, <1>7, <1>11
    <3> QED
      BY <1>5, <3>1, FinalizedIs
  <2>2. S[z] = Delivers(plan[z], S[y]) /\ S[y] \in Seq(Nat)
    <3>1. z - 1 = y /\ z \in 2..Len(plan) /\ y \in 1..Len(plan)
      BY <1>4, <1>7, <1>11
    <3>2. S[z] = Delivers(plan[z], S[z - 1])
      BY <1>9, <3>1 DEF Follows
    <3> QED
      BY <1>9, <3>1, <3>2 DEF Follows
  <2>3. CASE plan[z].kind = "aggregate"
    BY <2>1, <2>2, <2>3 DEF Delivers
  <2>4. CASE plan[z].kind = "orderby"
    <3>1. S[z] = S[y]
      <4>1. plan[z] \in Node
        BY <1>4, <1>7, <1>11
      <4>2. PICK x : x = S[y] /\ x \in Seq(Nat)
        BY <2>2
      <4> QED
        BY <2>2, <2>4, <4>1, <4>2, DeliversIs
    <3>2. CASE batch.columns = S[y]
      BY <2>1, <2>4, <3>1, <3>2
    <3>3. CASE batch = NoBatch
      <4>1. batch.columns = <<>> /\ batch.rows = FALSE
        BY <3>3 DEF NoBatch
      <4>2. made.columns = <<>> /\ ~made.rows
        BY <2>1, <2>4, <4>1
      <4>3. PICK c, b : made = [columns |-> c, rows |-> b] /\ b \in BOOLEAN
        BY <2>1 DEF Batches
      <4>4. c = <<>> /\ b = FALSE
        BY <4>2, <4>3
      <4> QED
        BY <4>3, <4>4 DEF NoBatch
    <3> QED
      BY <1>8, <3>2, <3>3
  <2> QED
    BY <1>7, <1>11, <2>3, <2>4 DEF Breakers
<1>12. Holds(S)'
  <2>1. plan' = plan /\ Len(plan') = n
    BY <1>2, <1>4 DEF building
  <2>2. DOMAIN results = 0..n /\ z \in 0..n /\ z # 1
    BY <1>4, <1>5, <1>7
  <2>3. results'[z] = made /\ \A i \in 0..n : i # z => results'[i] = results[i]
    BY <1>1, <2>2
  <2>4. results'[1].columns = S[1]
    BY <1>4, <1>9, <2>2, <2>3 DEF Holds
  <2>5. \A i \in 2..n : results'[i] = NoBatch \/ results'[i].columns = S[i]
    <3>1. \A i \in 2..n : i \in 0..n /\ i # 0
      BY <1>4
    <3> QED
      BY <1>4, <1>9, <1>11, <2>3, <3>1 DEF Holds
  <2>6. results'[0] = NoBatch \/ results'[0].columns = S[n]
    BY <1>4, <1>9, <1>10, <2>3 DEF Holds
  <2> QED
    BY <2>1, <2>4, <2>5, <2>6 DEF Holds
<1>13. Runs(S)'
  BY <1>2 DEF Runs
<1> QED
  BY <1>2, <1>3, <1>12, <1>13, RunPlaces

\* Nothing is built yet.
LEMMA InPlaceInit == Init => InPlace
<1>1. Init => at = "down"
  BY DEF Init
<1> QED
  BY <1>1, ControlInit DEF InPlace, Built

\* Every step keeps the columns in place.
LEMMA InPlaceNext ==
  ASSUME \A p \in Plans : LimitsLast(p)
  PROVE  InPlace /\ [Next]_vars => InPlace'
<1> SUFFICES ASSUME InPlace, [Next]_vars
             PROVE  InPlace'
  OBVIOUS
<1>1. Control /\ Control'
  BY ControlNext DEF InPlace
<1>2. ASSUME at = "up" \/ Built
      PROVE  \E S : Placed(S)
  BY <1>2 DEF InPlace
<1>3. CASE Descend \/ DescendIntoNewPipeline \/ Reject
  <2>1. at' \in {"down", "rejected"}
    BY <1>3 DEF Descend, DescendIntoNewPipeline, Reject
  <2> QED
    BY <1>1, <2>1 DEF InPlace, Built
<1>4. CASE BuildScan
  BY <1>1, <1>4, BuildScanPlaces DEF InPlace
<1>5. CASE BuildFilter \/ BuildLimit \/ BuildScalar \/ BuildDrop \/ BuildReorder \/ BuildAggregate \/ BuildOrderBy
  <2>1. schema \in Seq(Nat) /\ plan[node] \in Node
    BY <1>1, PlanIs DEF Control, TypedBuilding
  <2>2. CASE BuildFilter \/ BuildLimit \/ BuildScalar \/ BuildDrop \/ BuildReorder
    <3>1. PICK kind, uses, output : /\ kind \in Movers
                                    /\ BuildTransform(kind, uses, output)
                                    /\ Suits(plan[node], schema, uses, output)
      BY <2>1, <2>2, TransformIsBuilt
    <3>2. at = "up"
      BY <3>1 DEF BuildTransform
    <3>3. PICK S : Placed(S)
      BY <1>2, <3>2
    <3>4. Placed(S)'
      BY <1>1, <3>1, <3>3, BuildTransformPlaces
    <3> QED
      BY <1>1, <3>4 DEF InPlace
  <2>3. CASE BuildAggregate \/ BuildOrderBy
    <3>1. PICK kind, output : /\ kind \in Breakers
                              /\ BuildBreaker(kind, output)
                              /\ Suits(plan[node], schema, LookedUp(plan[node]), output)
      BY <2>1, <2>3, BreakerIsBuilt
    <3>2. at = "up"
      BY <3>1 DEF BuildBreaker
    <3>3. PICK S : Placed(S)
      BY <1>2, <3>2
    <3>4. Placed(S)'
      BY <1>1, <3>1, <3>3, BuildBreakerPlaces
    <3> QED
      BY <1>1, <3>4 DEF InPlace
  <2> QED
    BY <1>5, <2>2, <2>3
<1>6. CASE GetData \/ Transform \/ Sink \/ ReadsBeyond \/ Finalize
  <2>1. Built
    BY <1>6 DEF GetData, Transform, Sink, ReadsBeyond, Finalize, Built
  <2>2. PICK S : Placed(S)
    BY <1>2, <2>1
  <2>3. Placed(S)'
    BY <1>1, <1>6, <2>2, GetDataPlaces, TransformPlaces, SinkPlaces, FinalizePlaces
  <2> QED
    BY <1>1, <2>3 DEF InPlace
<1>7. CASE UNCHANGED vars
  <2> SUFFICES ASSUME at' = "up" \/ Built'
               PROVE  \E S : Placed(S)'
    BY <1>1 DEF InPlace
  <2>1. at = "up" \/ Built
    BY <1>7 DEF Built, vars
  <2>2. PICK S : Placed(S)
    BY <1>2, <2>1
  <2>3. Holds(S)' /\ Runs(S)'
    BY <1>7, <2>2 DEF Placed, Holds, Runs, Gone, Pipe, vars, building
  <2>4. Follows(plan, S)' /\ schema' = S[Top]' /\ \A k \in current'..Len(pipelines') : FitsIn(plan', S, pipelines'[k])
    BY <1>7, <2>2 DEF Placed, Top, vars, building
  <2> QED
    BY <2>3, <2>4 DEF Placed
<1> QED
  BY <1>3, <1>4, <1>5, <1>6, <1>7 DEF Next, Over

\* What a batch's operator looked up is where it looks.
LEMMA PlacedColumns == InPlace => ColumnsInPlace
<1> SUFFICES ASSUME InPlace, at = "transforms", batch.rows \/ batch.columns # <<>>
             PROVE  IF rest # <<>>
                      THEN Behind(batch.columns, Made(plan[Head(rest).node]), Head(rest).uses)
                             = Wanted(plan[Head(rest).node], batch.columns)
                      ELSE Pipe.sink # 0 =>
                             Behind(batch.columns, <<>>, Pipe.uses) = Wanted(plan[Pipe.sink], batch.columns)
  BY DEF ColumnsInPlace
<1>1. Control /\ Built
  BY DEF InPlace, Built
<1>2. PICK S : Placed(S)
  BY <1>1 DEF InPlace
<1>3. FitsIn(plan, S, Pipe)
  BY <1>1, <1>2, PipeFits
<1>4. PICK d : Gone(S, d)
  BY <1>2 DEF Placed, Runs
<1>5. PICK a, l, t, r : a = Pipe.source /\ t = Pipe.transforms /\ l = Len(t) /\ r = Len(rest)
  OBVIOUS
<1>6. /\ a \in 1..Len(plan) /\ l \in Nat /\ Len(plan) \in Nat
      /\ \A i \in 1..l : t[i].node = a + i
      /\ Pipe.sink # 0 => Pipe.sink = a + l + 1 /\ plan[Pipe.sink].kind \in Breakers
  BY <1>1, <1>5, PipeLies
<1>7. /\ d \in 0..l /\ r = l - d
      /\ \A i \in 1..r : rest[i] = t[d + i]
      /\ batch.columns = S[a + d]
  BY <1>4, <1>5 DEF Gone
<1>8. CASE rest # <<>>
  <2>1. Head(rest) = rest[1] /\ r \in Nat \ {0}
    <3>1. rest \in Seq(Entries(plan))
      BY <1>1 DEF Control, TypedRunning
    <3> QED
      BY <1>5, <1>8, <3>1, TailIs
  <2>2. d + 1 \in 1..l /\ a + (d + 1) - 1 = a + d
    BY ONLY <1>6, <1>7, <2>1
  <2>3. Head(rest) = t[d + 1] /\ Head(rest).node = a + (d + 1)
    <3>1. Head(rest) = t[d + 1]
      BY <1>7, <2>1
    <3> QED
      BY <1>6, <2>2, <3>1
  <2>4. Fits(plan[a + (d + 1)], S[a + (d + 1) - 1], t[d + 1].uses)
    BY <1>3, <1>5, <2>2 DEF FitsIn
  <2> QED
    BY <1>7, <1>8, <2>2, <2>3, <2>4 DEF Fits
<1>9. CASE rest = <<>>
  <2> SUFFICES ASSUME Pipe.sink # 0
               PROVE  Behind(batch.columns, <<>>, Pipe.uses) = Wanted(plan[Pipe.sink], batch.columns)
    BY <1>9
  <2>1. r = 0
    BY <1>5, <1>9
  <2>2. d = l
    <3>1. l \in Nat
      BY <1>6
    <3> QED
      BY ONLY <1>7, <2>1, <3>1
  <2>3. Pipe.sink - 1 = a + d /\ Made(plan[Pipe.sink]) = <<>>
    <3>1. Pipe.sink = a + l + 1
      BY <1>6
    <3>2. plan[Pipe.sink].kind # "scalar"
      BY <1>6 DEF Breakers
    <3> QED
      BY <1>6, <2>2, <3>1, <3>2 DEF Made
  <2>4. Fits(plan[Pipe.sink], S[Pipe.sink - 1], Pipe.uses)
    BY <1>3 DEF FitsIn
  <2> QED
    BY <1>7, <2>3, <2>4 DEF Fits
<1> QED
  BY <1>8, <1>9

\* The last batches have the last node's columns.
LEMMA PlacedResult == InPlace => ResultMatchesSchema
<1> SUFFICES ASSUME InPlace, at = "done", results[0].rows
             PROVE  results[0].columns = schema
  BY DEF ResultMatchesSchema
<1>1. Control /\ Built
  BY DEF InPlace, Built
<1>2. PICK S : Placed(S)
  BY <1>1 DEF InPlace
<1>3. Holds(S) /\ schema = S[Len(plan)]
  BY <1>1, <1>2, PipeFits
<1>4. results[0] # NoBatch
  BY DEF NoBatch
<1> QED
  BY <1>3, <1>4 DEF Holds

\* The positions worked out while the plan was built are those of the columns the plan
\* names when the batch arrives, for plans whose limits are last in their pipelines.
THEOREM PlannerKeepsPlaces ==
  ASSUME \A p \in Plans : LimitsLast(p)
  PROVE  Spec => []ColumnsInPlace
<1>1. InPlace /\ [Next]_vars => InPlace'
  BY InPlaceNext
<1> QED
  BY <1>1, InPlaceInit, PlacedColumns, PTL DEF Spec

\* The result of such a plan has the columns of the schema returned with it.
THEOREM PlannerMatchesSchema ==
  ASSUME \A p \in Plans : LimitsLast(p)
  PROVE  Spec => []ResultMatchesSchema
<1>1. InPlace /\ [Next]_vars => InPlace'
  BY InPlaceNext
<1> QED
  BY <1>1, InPlaceInit, PlacedResult, PTL DEF Spec

-----------------------------------------------------------------------------
(* Pruning. *)

\* f[i] are the names behind node i of plan p if its scan reads those in from.
Offering(p, from, f) ==
  f[1] = from /\ \A i \in 2..Len(p) : f[i] = Offers(p[i], f[i - 1], from)

\* Offered is the function that does it for the plan.
LEMMA OfferedIs ==
  ASSUME plan \in Plans, NEW from, from \in SUBSET Nat
  PROVE  Offering(plan, from, Offered(from))
<1> DEFINE Is(F) == F = [i \in Nodes |-> Offers(plan[i], F[i - 1], from)]
           H == CHOOSE F : Is(F)
<1>1. Offered(from) = H
  BY Zenon DEF Offered
<1>2. PICK n : n = Len(plan) /\ n \in Nat \ {0} /\ \A i \in 1..n : plan[i] \in Node /\ (plan[i].kind = "scan" <=> i = 1)
  BY PlanIs
<1>3. Nodes = 1..n
  BY <1>2, PlanIs DEF Nodes
<1>4. PICK m \in Nat : m = n - 1
  BY <1>2
<1>5. PICK g : g = [k \in 1..m |-> [A \in SUBSET Nat |-> Offers(plan[k + 1], A, from)]]
  OBVIOUS
<1>6. ASSUME NEW k \in 1..m, NEW A \in SUBSET Nat
      PROVE  Offers(plan[k + 1], A, from) \in SUBSET Nat
  <2>1. PICK x : x = plan[k + 1] /\ x \in Node /\ x.kind # "scan"
    BY <1>2, <1>4
  <2>2. \A y : y \in Seq(Nat) => Range(y) \in SUBSET Nat
    BY RangeIs
  <2>3. CASE x.kind \in {"aggregate", "scalar"}
    <3>1. Range(OutputsOf(x.exprs)) \in SUBSET Nat
      BY <2>1, <2>2, <2>3, NodeIs, ExpressionsAre
    <3>2. x.kind = "aggregate" => Range(x.by) \in SUBSET Nat
      BY <2>1, <2>2, NodeIs
    <3> QED
      BY <2>1, <2>3, <3>1, <3>2 DEF Offers
  <2>4. CASE x.kind = "reorder"
    <3>1. Range(x.order) \in SUBSET Nat
      BY <2>1, <2>2, <2>4, NodeIs
    <3> QED
      BY <2>1, <2>4, <3>1 DEF Offers
  <2>5. CASE x.kind \in {"filter", "orderby", "limit", "drop"}
    BY <2>1, <2>5 DEF Offers
  <2> QED
    BY <2>1, <2>3, <2>4, <2>5, NodeIs DEF Kinds
<1>7. /\ g \in [1..m -> [SUBSET Nat -> SUBSET Nat]]
      /\ \A k \in 1..m : \A A \in SUBSET Nat : g[k][A] = Offers(plan[k + 1], A, from)
  BY <1>5, <1>6
<1>8. PICK F \in [0..m -> SUBSET Nat] : Recurs(F, m, from, g)
  BY <1>4, <1>7, RecursionExists
<1>9. PICK G : G = [i \in 1..n |-> F[i - 1]]
  OBVIOUS
<1>10. ASSUME NEW i \in 1..n
       PROVE  G[i] = Offers(plan[i], G[i - 1], from)
  <2>1. CASE i = 1
    <3>1. G[i] = from
      BY <1>2, <1>8, <1>9, <2>1 DEF Recurs
    <3>2. plan[i].kind = "scan"
      BY <1>2, <2>1
    <3> QED
      BY <3>1, <3>2 DEF Offers
  <2>2. CASE i # 1
    <3>1. PICK k : k = i - 1
      OBVIOUS
    <3>2. k \in 1..m /\ k + 1 = i /\ k \in 1..n /\ k - 1 \in 0..m
      <4>1. n \in Nat /\ m = n - 1
        BY <1>2, <1>4
      <4> QED
        BY ONLY <1>10, <2>2, <3>1, <4>1
    <3>3. F[k] = g[k][F[k - 1]] /\ F[k - 1] \in SUBSET Nat
      BY <1>8, <3>2 DEF Recurs
    <3>4. G[i] = F[k] /\ G[k] = F[k - 1]
      BY <1>9, <1>10, <3>1, <3>2
    <3>5. F[k] = Offers(plan[i], F[k - 1], from)
      BY <1>7, <3>2, <3>3
    <3> QED
      BY <3>1, <3>4, <3>5
  <2> QED
    BY <2>1, <2>2
<1>11. Is(G)
  <2>1. G = [i \in 1..n |-> G[i]]
    BY <1>9
  <2> QED
    BY <1>3, <1>10, <2>1, Zenon
<1>12. Is(H)
  BY <1>11, Zenon
<1> HIDE DEF H
<1>13. \A i \in 1..n : H[i] = Offers(plan[i], H[i - 1], from)
  BY <1>3, <1>12, Zenon
<1>14. H[1] = from
  <2>1. plan[1].kind = "scan" /\ 1 \in 1..n
    BY <1>2
  <2> QED
    BY <1>13, <2>1 DEF Offers
<1>15. \A i \in 2..Len(plan) : H[i] = Offers(plan[i], H[i - 1], from)
  BY <1>2, <1>13
<1> QED
  BY <1>1, <1>14, <1>15 DEF Offering

\* R[i] are the columns required of node i of plan p by those above it.
Requires(p, R) ==
  /\ R \in [1..Len(p) -> SUBSET Nat]
  /\ R[Len(p)] = {}
  /\ \A i \in 2..Len(p) : R[i - 1] = Needed(p[i], R[i])

\* There is such an R, with what is required of each node by the ones above it.
LEMMA RequiresExists ==
  ASSUME NEW p \in Plans
  PROVE  \E R : Requires(p, R)
<1>1. PICK n : n = Len(p) /\ n \in Nat \ {0} /\ \A i \in 1..n : p[i] \in Node
  BY PlanIs
<1>2. PICK m \in Nat : m = n - 1
  BY <1>1
<1> DEFINE X == {A \in SUBSET Nat : IsFiniteSet(A)}
<1>3. PICK g : g = [k \in 1..m |-> [A \in X |-> Needed(p[n - k + 1], A)]]
  OBVIOUS
<1>4. ASSUME NEW k \in 1..m, NEW A \in X
      PROVE  Needed(p[n - k + 1], A) \in X
  <2>1. p[n - k + 1] \in Node
    BY <1>1, <1>2
  <2> QED
    BY <2>1, NeededIs DEF FiniteNames
<1>5. g \in [1..m -> [X -> X]] /\ \A k \in 1..m : \A A \in X : g[k][A] = Needed(p[n - k + 1], A)
  BY <1>3, <1>4
<1>6. {} \in X
  BY FS_EmptySet
<1> HIDE DEF X
<1>7. PICK F \in [0..m -> X] : Recurs(F, m, {}, g)
  BY <1>2, <1>5, <1>6, RecursionExists
<1>8. PICK R : R = [i \in 1..n |-> F[n - i]]
  OBVIOUS
<1>9. R \in [1..n -> SUBSET Nat]
  <2>1. \A i \in 1..n : n - i \in 0..m
    BY <1>1, <1>2
  <2> QED
    BY <1>7, <1>8, <2>1 DEF X
<1>10. R[n] = {}
  <2>1. n \in 1..n /\ n - n = 0
    BY <1>1
  <2> QED
    BY <1>7, <1>8, <2>1 DEF Recurs
<1>11. ASSUME NEW i \in 2..n
       PROVE  R[i - 1] = Needed(p[i], R[i])
  <2>1. PICK j, k : j = i - 1 /\ k = n - j
    OBVIOUS
  <2>2. j \in 1..n /\ i \in 1..n /\ k \in 1..m /\ k - 1 = n - i /\ n - k + 1 = i /\ k - 1 \in 0..m
    <3>1. n \in Nat /\ m = n - 1
      BY <1>1, <1>2
    <3> QED
      BY ONLY <1>11, <2>1, <3>1
  <2>3. F[k] = g[k][F[k - 1]] /\ F[k - 1] \in X
    BY <1>7, <2>2 DEF Recurs
  <2>4. R[j] = F[k] /\ R[i] = F[k - 1]
    BY <1>8, <2>1, <2>2
  <2> QED
    BY <1>5, <2>1, <2>2, <2>3, <2>4
<1> QED
  BY <1>1, <1>9, <1>10, <1>11 DEF Requires

\* Behind each node of plan p there are the names t if the whole table is read and s if
\* what is selected is; what R requires is asked for sensibly.
Sense(p, t, s, R) ==
  /\ Offering(p, Range(Table), t) /\ Offering(p, Range(Selected(p[1])), s) /\ Requires(p, R)
  /\ Range(Selected(p[1])) \subseteq Range(Table)
  /\ \A i \in 2..Len(p) :
       /\ p[i].kind = "drop" => Range(p[i].columns) \subseteq s[i - 1]
       /\ p[i].kind = "reorder" => Range(p[i].order) \subseteq s[i - 1]
       /\ p[i].kind \notin {"drop", "reorder"} => Needed(p[i], {}) \subseteq t[i - 1]

\* A plan that makes sense has them.
LEMMA SenseExists ==
  ASSUME plan \in Plans, MakesSense
  PROVE  \E t, s, R : Sense(plan, t, s, R)
<1>1. PICK n : n = Len(plan) /\ n \in Nat \ {0} /\ \A i \in 1..n : plan[i] \in Node /\ (plan[i].kind = "scan" <=> i = 1)
  BY PlanIs
<1>2. PICK a, b : a = Range(Selected(plan[1])) /\ b = Range(Table)
  OBVIOUS
<1>3. PICK s, t : s = Offered(a) /\ t = Offered(b)
  OBVIOUS
<1>4. a \in SUBSET Nat /\ b \in SUBSET Nat
  <2>1. Selected(plan[1]) \in Seq(Nat) /\ Table \in Seq(Nat)
    BY <1>1, NodeIs, PlannerAssumption DEF Selected
  <2> QED
    BY <1>2, <2>1, RangeIs
<1>5. Offering(plan, a, s) /\ Offering(plan, b, t)
  BY <1>3, <1>4, OfferedIs
<1>6. PICK R : Requires(plan, R)
  BY RequiresExists
<1>7. /\ a \subseteq b
      /\ \A i \in Nodes \ {1} :
           LET x == plan[i]
           IN CASE x.kind = "drop"    -> Range(x.columns) \subseteq s[i - 1]
                [] x.kind = "reorder" -> Range(x.order) \subseteq s[i - 1]
                [] OTHER              -> Needed(x, {}) \subseteq t[i - 1]
  BY <1>2, <1>3, Zenon DEF MakesSense, Selected
<1>8. Nodes = 1..n
  BY <1>1, PlanIs DEF Nodes
<1>9. ASSUME NEW i \in 2..n
      PROVE  /\ plan[i].kind = "drop" => Range(plan[i].columns) \subseteq s[i - 1]
             /\ plan[i].kind = "reorder" => Range(plan[i].order) \subseteq s[i - 1]
             /\ plan[i].kind \notin {"drop", "reorder"} => Needed(plan[i], {}) \subseteq t[i - 1]
  <2>1. i \in Nodes \ {1}
    BY <1>1, <1>8
  <2> QED
    BY <1>7, <2>1
<1> QED
  BY <1>1, <1>2, <1>5, <1>6, <1>7, <1>9 DEF Sense

\* What a node needs is below it if what is required of it is behind it.
LEMMA NeedsOffered ==
  ASSUME NEW n \in Node, n.kind # "scan", NEW A, NEW below, NEW from,
         A \subseteq Offers(n, below, from),
         n.kind = "reorder" => Range(n.order) \subseteq below,
         n.kind \notin {"drop", "reorder"} => Needed(n, {}) \subseteq below
  PROVE  Needed(n, A) \subseteq below
<1>1. CASE n.kind = "aggregate"
  BY <1>1 DEF Needed
<1>2. CASE n.kind = "filter"
  <2>1. Needed(n, A) = A \cup Range(n.reads) /\ Needed(n, {}) = {} \cup Range(n.reads) /\ Offers(n, below, from) = below
    BY <1>2 DEF Needed, Offers
  <2> QED
    BY <1>2, <2>1
<1>3. CASE n.kind = "orderby"
  <2>1. Needed(n, A) = A \cup Range(n.by) /\ Needed(n, {}) = {} \cup Range(n.by) /\ Offers(n, below, from) = below
    BY <1>3 DEF Needed, Offers
  <2> QED
    BY <1>3, <2>1
<1>4. CASE n.kind = "scalar"
  <2>1. /\ Needed(n, A) = (A \ Range(OutputsOf(n.exprs))) \cup ReadsOf(n.exprs)
        /\ Needed(n, {}) = ({} \ Range(OutputsOf(n.exprs))) \cup ReadsOf(n.exprs)
        /\ Offers(n, below, from) = below \cup Range(OutputsOf(n.exprs))
    BY <1>4 DEF Needed, Offers
  <2> QED
    BY <1>4, <2>1
<1>5. CASE n.kind \in {"limit", "drop", "reorder"}
  BY <1>5 DEF Needed, Offers
<1> QED
  BY <1>1, <1>2, <1>3, <1>4, <1>5, NodeIs DEF Kinds

\* What a node needs is the more, the more is required of it.
LEMMA NeedsMore ==
  ASSUME NEW n \in Node, NEW A
  PROVE  Needed(n, {}) \subseteq Needed(n, A)
BY NodeIs DEF Needed, Kinds

\* What is below a node and offered again is in what it delivers, and what is required of
\* it, too.
LEMMA DeliversOffered ==
  ASSUME NEW n \in Node, n.kind # "scan", NEW fields, fields \in Seq(Nat), NEW from
  PROVE  /\ \A below : below \subseteq Range(fields) =>
                         Offers(n, below, from) \subseteq Range(Delivers(n, fields))
         /\ \A A, below : A \subseteq Offers(n, below, from) /\ Needed(n, A) \subseteq Range(fields) =>
                         A \subseteq Range(Delivers(n, fields))
<1>1. CASE n.kind \in {"filter", "limit", "orderby"}
  <2>1. Delivers(n, fields) = fields /\ \A A : A \subseteq Needed(n, A)
    BY <1>1, DeliversIs DEF Needed
  <2> QED
    BY <1>1, <2>1 DEF Offers
<1>2. CASE n.kind = "aggregate"
  BY <1>2, DeliversIs DEF Offers
<1>3. CASE n.kind = "scalar"
  <2>1. Range(Delivers(n, fields)) = Range(fields) \cup Range(OutputsOf(n.exprs))
    BY <1>3, DeliversIs
  <2>2. \A A : A \ Range(OutputsOf(n.exprs)) \subseteq Needed(n, A)
    BY <1>3 DEF Needed
  <2>3. \A below : Offers(n, below, from) = below \cup Range(OutputsOf(n.exprs))
    BY <1>3 DEF Offers
  <2> QED
    BY <2>1, <2>2, <2>3
<1>4. CASE n.kind = "drop"
  <2>1. Range(Delivers(n, fields)) = Range(fields) \ Range(n.columns)
    BY <1>4, DeliversIs
  <2>2. \A A : Needed(n, A) = A
    BY <1>4 DEF Needed
  <2>3. \A below : Offers(n, below, from) = below \ Range(n.columns)
    BY <1>4 DEF Offers
  <2> QED
    BY <2>1, <2>2, <2>3
<1>5. CASE n.kind = "reorder"
  BY <1>5, DeliversIs DEF Offers
<1> QED
  BY <1>1, <1>2, <1>3, <1>4, <1>5, NodeIs DEF Kinds

\* A name that is asked for and not found is needed, dropped or ordered.
LEMMA AskedNames ==
  ASSUME NEW n \in Node, schema \in Seq(Nat), 0 \in Range(FlattenSeq(LookedUp(n)))
  PROVE  /\ n.kind = "drop" => ~(Range(n.columns) \subseteq Range(schema))
         /\ n.kind = "reorder" => ~(Range(n.order) \subseteq Range(schema))
         /\ n.kind \notin {"drop", "reorder"} => ~(Needed(n, {}) \subseteq Range(schema))
<1>1. PICK a : a = Asked(n)
  OBVIOUS
<1>2. a \in Seq(Seq(Nat)) /\ Len(a) \in Nat
  BY <1>1, AskedIs, LenProperties
<1>3. PICK i \in 1..Len(a) : \E j \in 1..Len(a[i]) : a[i][j] \notin Range(schema)
  BY <1>1, NotFoundIs
<1>4. PICK j \in 1..Len(a[i]) : a[i][j] \notin Range(schema)
  BY <1>3
<1>5. PICK b : b = a[i]
  OBVIOUS
<1>6. b \in Seq(Nat) /\ DOMAIN b = 1..Len(b)
  BY <1>2, <1>5, ElementOfSeq, LenProperties
<1>7. b[j] \in Range(b) /\ b[j] \notin Range(schema)
  BY <1>4, <1>5, <1>6 DEF Range
<1>8. ASSUME NEW names, a = <<names>>
      PROVE  b = names
  BY <1>5, <1>8
<1>9. CASE n.kind = "drop"
  <2>1. b = n.columns
    BY <1>1, <1>8, <1>9, AskedIs
  <2> QED
    BY <1>7, <1>9, <2>1
<1>10. CASE n.kind = "reorder"
  <2>1. b = n.order
    BY <1>1, <1>8, <1>10, AskedIs
  <2> QED
    BY <1>7, <1>10, <2>1
<1>11. CASE n.kind = "filter"
  <2>1. b = n.reads
    BY <1>1, <1>8, <1>11, AskedIs
  <2> QED
    BY <1>7, <1>11, <2>1 DEF Needed
<1>12. CASE n.kind = "orderby"
  <2>1. b = n.by
    BY <1>1, <1>8, <1>12, AskedIs
  <2> QED
    BY <1>7, <1>12, <2>1 DEF Needed
<1>13. ASSUME n.kind \in {"scalar", "aggregate"}, NEW k \in 1..Len(n.exprs), b = n.exprs[k].reads
       PROVE  ~(Needed(n, {}) \subseteq Range(schema))
  <2>1. n.exprs \in Seq(Expression)
    BY <1>13, NodeIs
  <2>2. k \in DOMAIN n.exprs
    BY <2>1, LenProperties
  <2>3. Range(b) \subseteq ReadsOf(n.exprs)
    BY <1>13, <2>2 DEF ReadsOf
  <2>4. ReadsOf(n.exprs) \subseteq Needed(n, {})
    BY <1>13 DEF Needed
  <2> QED
    BY <1>7, <2>3, <2>4
<1>14. ASSUME n.kind \in {"scalar", "aggregate"}
       PROVE  /\ Len(n.exprs) \in Nat /\ DOMAIN n.exprs = 1..Len(n.exprs)
              /\ [k \in DOMAIN n.exprs |-> n.exprs[k].reads] \in Seq(Seq(Nat))
              /\ Len([k \in DOMAIN n.exprs |-> n.exprs[k].reads]) = Len(n.exprs)
  <2>1. n.exprs \in Seq(Expression)
    BY <1>14, NodeIs
  <2> QED
    BY <2>1, ExpressionsAre, LenProperties
<1>15. CASE n.kind = "scalar"
  <2>1. a = [k \in DOMAIN n.exprs |-> n.exprs[k].reads]
    BY <1>1, <1>15, AskedIs
  <2>2. i \in 1..Len(n.exprs) /\ b = n.exprs[i].reads
    BY <1>5, <1>14, <1>15, <2>1
  <2> QED
    BY <1>13, <1>15, <2>2
<1>16. CASE n.kind = "aggregate"
  <2>1. PICK u, v : u = <<n.by>> /\ v = [k \in DOMAIN n.exprs |-> n.exprs[k].reads]
    OBVIOUS
  <2>2. a = u \o v
    BY <1>1, <1>16, <2>1, AskedIs
  <2>3. /\ u \in Seq(Seq(Nat)) /\ Len(u) = 1 /\ u[1] = n.by
        /\ v \in Seq(Seq(Nat)) /\ Len(v) = Len(n.exprs) /\ Len(n.exprs) \in Nat
    BY <1>14, <1>16, <2>1, NodeIs
  <2>4. /\ Len(u \o v) = Len(u) + Len(v)
        /\ \A k \in 1..(Len(u) + Len(v)) : (u \o v)[k] = IF k <= Len(u) THEN u[k] ELSE v[k - Len(u)]
    <3>1. u \in Seq(Seq(Nat)) /\ v \in Seq(Seq(Nat))
      BY <2>3
    <3> QED
      BY ONLY <3>1, ConcatProperties
  <2>5. CASE i = 1
    <3>1. b = n.by
      BY <1>5, <2>2, <2>3, <2>4, <2>5
    <3> QED
      BY <1>7, <1>16, <3>1 DEF Needed
  <2>6. CASE i # 1
    <3>1. PICK k : k = i - 1
      OBVIOUS
    <3>2. k \in 1..Len(n.exprs) /\ ~(i <= 1) /\ i \in 1..(Len(u) + Len(v))
      <4>1. PICK w : w = Len(n.exprs) /\ w \in Nat /\ Len(a) = 1 + w
        BY <2>2, <2>3, <2>4
      <4>2. i \in 1..(1 + w)
        BY <1>3, <4>1
      <4>3. k \in 1..w /\ ~(i <= 1)
        BY ONLY <2>6, <3>1, <4>1, <4>2
      <4> QED
        BY <2>3, <4>1, <4>2, <4>3
    <3>3. b = v[k]
      BY <1>5, <2>2, <2>3, <2>4, <3>1, <3>2
    <3>4. b = n.exprs[k].reads
      BY <1>14, <1>16, <2>1, <3>2, <3>3
    <3> QED
      BY <1>13, <1>16, <3>2, <3>4
  <2> QED
    BY <2>5, <2>6
<1>17. CASE n.kind \in {"scan", "limit"}
  <2>1. a = <<>>
    BY <1>1, <1>17, AskedIs
  <2>2. Len(<<>>) = 0
    OBVIOUS
  <2> QED
    BY <1>3, <2>1, <2>2
<1> QED
  BY <1>9, <1>10, <1>11, <1>12, <1>15, <1>16, <1>17, NodeIs DEF Kinds

\* A name that is there if the selected columns are read is there if the whole table is.
LEMMA SelectedBelow ==
  ASSUME NEW p \in Plans, NEW t, NEW s, NEW R, Sense(p, t, s, R)
  PROVE  \A i \in 1..Len(p) : s[i] \subseteq t[i]
<1> DEFINE T == {k \in Nat : k + 1 \in 1..Len(p) => s[k + 1] \subseteq t[k + 1]}
<1>1. PICK n : n = Len(p) /\ n \in Nat \ {0} /\ \A i \in 1..n : p[i] \in Node /\ (p[i].kind = "scan" <=> i = 1)
  BY PlanIs
<1>2. PICK a, b : /\ a = Range(Selected(p[1])) /\ b = Range(Table) /\ a \subseteq b
                  /\ Offering(p, b, t) /\ Offering(p, a, s)
  BY DEF Sense
<1>3. 0 \in T
  BY <1>2 DEF Offering
<1>4. ASSUME NEW k \in Nat, k \in T
      PROVE  k + 1 \in T
  <2>0. k + 1 \in Nat
    OBVIOUS
  <2> SUFFICES ASSUME (k + 1) + 1 \in 1..Len(p)
               PROVE  s[(k + 1) + 1] \subseteq t[(k + 1) + 1]
    BY <2>0, Zenon
  <2>1. PICK i, j : i = (k + 1) + 1 /\ j = k + 1
    OBVIOUS
  <2>2. i \in 2..n /\ j \in 1..n /\ i - 1 = j
    BY <1>1, <2>1
  <2>3. s[j] \subseteq t[j]
    BY <1>1, <1>4, <2>1, <2>2
  <2>4. s[i] = Offers(p[i], s[j], a) /\ t[i] = Offers(p[i], t[j], b)
    BY <1>1, <1>2, <2>2 DEF Offering
  <2>5. p[i].kind # "scan" /\ p[i].kind \in Kinds
    <3>1. i \in 1..n /\ i # 1
      BY <1>1, <2>2
    <3> QED
      BY <1>1, <3>1, NodeIs
  <2>6. Offers(p[i], s[j], a) \subseteq Offers(p[i], t[j], b)
    BY <2>3, <2>5 DEF Offers, Kinds
  <2> QED
    BY <2>1, <2>4, <2>6
<1> HIDE DEF T
<1>5. \A k \in Nat : k \in T
  BY <1>3, <1>4, SetInduction
<1>6. ASSUME NEW i \in 1..n
      PROVE  s[i] \subseteq t[i]
  <2>1. PICK k : k = i - 1
    OBVIOUS
  <2>2. k \in Nat /\ k + 1 = i
    BY <1>1, <2>1
  <2>3. k \in T
    BY <1>5, <2>2
  <2> QED
    BY <1>1, <2>2, <2>3 DEF T
<1> QED
  BY <1>1, <1>6

\* So is what is required.
LEMMA RequiredOffered ==
  ASSUME NEW p \in Plans, NEW t, NEW s, NEW R, Sense(p, t, s, R)
  PROVE  \A i \in 1..Len(p) : R[i] \subseteq t[i]
<1> DEFINE T == {k \in Nat : Len(p) - k \in 1..Len(p) => R[Len(p) - k] \subseteq t[Len(p) - k]}
<1>1. PICK n : n = Len(p) /\ n \in Nat \ {0} /\ \A i \in 1..n : p[i] \in Node /\ (p[i].kind = "scan" <=> i = 1)
  BY PlanIs
<1>2. PICK b : b = Range(Table) /\ Offering(p, b, t) /\ Requires(p, R)
  BY DEF Sense
<1>3. 0 \in T
  <2>1. n - 0 = n /\ R[n] = {}
    BY <1>1, <1>2 DEF Requires
  <2> QED
    BY <1>1, <2>1
<1>4. ASSUME NEW k \in Nat, k \in T
      PROVE  k + 1 \in T
  <2>0. k + 1 \in Nat
    OBVIOUS
  <2> SUFFICES ASSUME Len(p) - (k + 1) \in 1..Len(p)
               PROVE  R[Len(p) - (k + 1)] \subseteq t[Len(p) - (k + 1)]
    BY <2>0, Zenon
  <2>1. PICK i, j : i = n - k /\ j = n - (k + 1)
    OBVIOUS
  <2>2. i \in 2..n /\ j \in 1..n /\ i - 1 = j /\ i \in 1..n /\ i # 1
    <3>1. n \in Nat /\ n - (k + 1) \in 1..n /\ k \in Nat
      BY <1>1
    <3> QED
      BY ONLY <2>1, <3>1
  <2>3. R[i] \subseteq t[i]
    BY <1>1, <1>4, <2>1, <2>2
  <2>4. t[i] = Offers(p[i], t[j], b) /\ R[j] = Needed(p[i], R[i])
    BY <1>1, <1>2, <2>2 DEF Offering, Requires
  <2>5. p[i].kind # "scan" /\ p[i] \in Node
    BY <1>1, <2>2
  <2>6. /\ p[i].kind = "reorder" => Range(p[i].order) \subseteq t[j]
        /\ p[i].kind \notin {"drop", "reorder"} => Needed(p[i], {}) \subseteq t[j]
    <3>1. s[j] \subseteq t[j]
      BY <1>1, <2>2, SelectedBelow
    <3> QED
      BY <1>1, <2>2, <3>1 DEF Sense
  <2>7. Needed(p[i], R[i]) \subseteq t[j]
    BY <2>3, <2>4, <2>5, <2>6, NeedsOffered
  <2> QED
    BY <1>1, <2>1, <2>4, <2>7
<1> HIDE DEF T
<1>5. \A k \in Nat : k \in T
  BY <1>3, <1>4, SetInduction
<1>6. ASSUME NEW i \in 1..n
      PROVE  R[i] \subseteq t[i]
  <2>1. PICK k : k = n - i
    OBVIOUS
  <2>2. k \in Nat /\ n - k = i
    BY <1>1, <2>1
  <2>3. k \in T
    BY <1>5, <2>2
  <2> QED
    BY <1>1, <2>2, <2>3 DEF T
<1> QED
  BY <1>1, <1>6

\* Going down, what is required is R; coming up, what is required and what is selected is
\* in the schema.
Prunes(t, s, R) ==
  /\ at = "down" => required = R[node]
  /\ at = "up" => R[node - 1] \subseteq Range(schema) /\ s[node - 1] \subseteq Range(schema)
  /\ at # "rejected"

Pruned == Control /\ \A t, s, R : Sense(plan, t, s, R) => Prunes(t, s, R)

\* What is behind a node is in its schema if what is below it is in its child's.
LEMMA SchemaOffers ==
  ASSUME Control, NEW t, NEW s, NEW R, Sense(plan, t, s, R), at = "up", Prunes(t, s, R)
  PROVE  /\ R[node] \subseteq Range(Delivers(plan[node], schema))
         /\ s[node] \subseteq Range(Delivers(plan[node], schema))
<1>1. /\ plan \in Plans /\ Len(plan) \in Nat /\ node \in 2..Len(plan) /\ schema \in Seq(Nat)
      /\ plan[node] \in Node /\ plan[node].kind # "scan"
  BY PlanIs DEF Control, TypedBuilding
<1>2. PICK a, b : /\ a = Range(Selected(plan[1])) /\ b = Range(Table)
                  /\ Offering(plan, b, t) /\ Offering(plan, a, s) /\ Requires(plan, R)
  BY DEF Sense
<1>3. PICK i, j, n, f : i = node /\ j = node - 1 /\ n = plan[node] /\ f = schema
  OBVIOUS
<1>4. /\ s[i] = Offers(n, s[j], a) /\ t[i] = Offers(n, t[j], b) /\ R[j] = Needed(n, R[i])
      /\ R[j] \subseteq Range(f) /\ s[j] \subseteq Range(f)
  BY <1>1, <1>2, <1>3 DEF Offering, Requires, Prunes
<1>5. R[i] \subseteq t[i]
  <2>1. i \in 1..Len(plan)
    BY <1>1, <1>3
  <2> QED
    BY <1>1, <2>1, RequiredOffered
<1>6. n \in Node /\ n.kind # "scan" /\ f \in Seq(Nat)
  BY <1>1, <1>3
<1>7. s[i] \subseteq Range(Delivers(n, f))
  BY <1>4, <1>6, DeliversOffered
<1>8. R[i] \subseteq Range(Delivers(n, f))
  BY <1>4, <1>5, <1>6, DeliversOffered
<1> QED
  BY <1>3, <1>7, <1>8

\* The names a node asks for are in its child's schema.
LEMMA NoneMissing ==
  ASSUME Control, NEW t, NEW s, NEW R, Sense(plan, t, s, R), at = "up", Prunes(t, s, R)
  PROVE  AllFound
<1>1. /\ plan \in Plans /\ Len(plan) \in Nat /\ node \in 2..Len(plan) /\ schema \in Seq(Nat)
      /\ plan[node] \in Node
  BY PlanIs DEF Control, TypedBuilding
<1>2. PICK j, n, f : j = node - 1 /\ n = plan[node] /\ f = schema
  OBVIOUS
<1>3. /\ n.kind = "drop" => Range(n.columns) \subseteq s[j]
      /\ n.kind = "reorder" => Range(n.order) \subseteq s[j]
      /\ R[j] = Needed(n, R[node])
      /\ R[j] \subseteq Range(f) /\ s[j] \subseteq Range(f)
  BY <1>1, <1>2 DEF Sense, Requires, Prunes
<1>4. Needed(n, {}) \subseteq Range(f)
  <2>1. Needed(n, {}) \subseteq Needed(n, R[node])
    BY <1>1, <1>2, NeedsMore
  <2> QED
    BY <1>3, <2>1
<1> QED
  BY <1>1, <1>2, <1>3, <1>4, AskedNames DEF AllFound

\* Nothing is required of the root.
LEMMA PrunedInit == Init => Pruned
<1> SUFFICES ASSUME Init
             PROVE  Pruned
  OBVIOUS
<1>1. Control /\ at = "down" /\ required = {} /\ node = Len(plan)
  BY ControlInit DEF Init
<1>2. ASSUME NEW t, NEW s, NEW R, Sense(plan, t, s, R)
      PROVE  required = R[node]
  BY <1>1, <1>2 DEF Sense, Requires
<1> QED
  BY <1>1, <1>2 DEF Pruned, Prunes

\* The plan stays, and a plan that makes sense is not rejected.
LEMMA PrunesNext ==
  ASSUME Control, Next, NEW t, NEW s, NEW R, Sense(plan, t, s, R), Prunes(t, s, R)
  PROVE  Prunes(t, s, R)'
<1>1. /\ plan \in Plans /\ Len(plan) \in Nat \ {0} /\ node \in 1..Len(plan) /\ plan[node] \in Node
      /\ schema \in Seq(Nat) /\ FiniteNames(required)
      /\ (plan[node].kind = "scan" <=> node = 1)
  BY PlanIs DEF Control, TypedBuilding
<1>2. Requires(plan, R) /\ s[1] = Range(Selected(plan[1])) /\ t[1] = Range(Table)
      /\ Range(Selected(plan[1])) \subseteq Range(Table)
  BY DEF Sense, Offering
<1>3. CASE Descend \/ DescendIntoNewPipeline
  <2>1. /\ at = "down" /\ at' = "down" /\ required' = Needed(plan[node], required) /\ node' = node - 1
        /\ plan[node].kind # "scan"
    BY <1>3 DEF Descend, DescendIntoNewPipeline, Breakers
  <2>2. node \in 2..Len(plan)
    BY <1>1, <2>1
  <2>3. R[node - 1] = Needed(plan[node], R[node]) /\ required = R[node]
    BY <1>2, <2>1, <2>2 DEF Requires, Prunes
  <2> QED
    BY <2>1, <2>3 DEF Prunes
<1>4. CASE BuildScan
  <2>1. PICK columns : columns = ScanColumns(plan[node])
    OBVIOUS
  <2>2. at = "down" /\ plan[node].kind = "scan" /\ schema' = columns /\ Ascend
    BY <1>4, <2>1 DEF BuildScan
  <2>3. node = 1 /\ required = R[1]
    BY <1>1, <2>2 DEF Prunes
  <2>4. Range(columns) = Range(Selected(plan[1])) \cup R[1]
    BY <1>1, <2>1, <2>2, <2>3, ScanColumnsIs
  <2>5. at' = "source" \/ (at' = "up" /\ node' - 1 = 1)
    BY <2>2, <2>3 DEF Ascend
  <2> QED
    BY <1>2, <2>2, <2>4, <2>5 DEF Prunes
<1>5. ASSUME at = "up", NEW output, schema' = output, output = Delivers(plan[node], schema), Ascend
      PROVE  Prunes(t, s, R)'
  <2>1. /\ R[node] \subseteq Range(Delivers(plan[node], schema))
        /\ s[node] \subseteq Range(Delivers(plan[node], schema))
    BY <1>5, SchemaOffers
  <2>2. at' = "source" \/ (at' = "up" /\ node' - 1 = node)
    BY <1>1, <1>5 DEF Ascend
  <2> QED
    BY <1>5, <2>1, <2>2 DEF Prunes
<1>6. CASE BuildFilter \/ BuildLimit \/ BuildScalar \/ BuildDrop \/ BuildReorder
  <2>1. PICK kind, uses, output : /\ kind \in Movers
                                  /\ BuildTransform(kind, uses, output)
                                  /\ Suits(plan[node], schema, uses, output)
    BY <1>1, <1>6, TransformIsBuilt
  <2> QED
    BY <1>5, <2>1 DEF BuildTransform, Suits
<1>7. CASE BuildAggregate \/ BuildOrderBy
  <2>1. PICK kind, output : /\ kind \in Breakers
                            /\ BuildBreaker(kind, output)
                            /\ Suits(plan[node], schema, LookedUp(plan[node]), output)
    BY <1>1, <1>7, BreakerIsBuilt
  <2>2. at = "up" /\ schema' = output /\ Ascend
    BY <2>1 DEF BuildBreaker
  <2> QED
    BY <1>5, <2>1, <2>2 DEF Suits
<1>8. CASE Reject
  <2>1. CASE at = "down" /\ plan[node].kind = "scan" /\ ~(Range(ScanColumns(plan[node])) \subseteq Range(Table))
    <3>1. node = 1 /\ required = R[1]
      BY <1>1, <2>1 DEF Prunes
    <3>2. Range(ScanColumns(plan[node])) = Range(Selected(plan[1])) \cup R[1]
      BY <1>1, <2>1, <3>1, ScanColumnsIs
    <3>3. R[1] \subseteq t[1]
      BY <1>1, RequiredOffered
    <3> QED
      BY <1>2, <2>1, <3>2, <3>3
  <2>2. CASE at = "up" /\ ~AllFound
    BY <2>2, NoneMissing
  <2> QED
    BY <1>8, <2>1, <2>2 DEF Reject
<1>9. CASE GetData \/ Transform \/ Sink \/ ReadsBeyond \/ Finalize
  <2>1. at' \in {"source", "transforms", "finalize", "undefined", "done"}
    <3>1. GetData \/ Sink \/ ReadsBeyond \/ Finalize => at' \in {"source", "transforms", "finalize", "undefined", "done"}
      BY DEF GetData, Sink, ReadsBeyond, Finalize
    <3>2. Transform => at' \in {"transforms", "finalize"}
      BY TransformDoes
    <3> QED
      BY <1>9, <3>1, <3>2
  <2> QED
    BY <2>1 DEF Prunes
<1>10. CASE Over
  BY <1>10, SMTT(30) DEF Over, Prunes, vars, building
<1> QED
  BY <1>3, <1>4, <1>6, <1>7, <1>8, <1>9, <1>10 DEF Next

\* The plan stays the same.
LEMMA PlanStays ==
  ASSUME [Next]_vars
  PROVE  plan' = plan
BY Zenon DEF Next, vars, building, Over, Descend, DescendIntoNewPipeline, BuildScan, BuildTransform,
       BuildFilter, BuildLimit, BuildScalar, BuildDrop, BuildReorder, BuildBreaker, BuildAggregate,
       BuildOrderBy, Reject, GetData, Transform, Sink, ReadsBeyond, Finalize

\* Every step keeps what is required sufficient.
LEMMA PrunedNext == Pruned /\ [Next]_vars => Pruned'
<1> SUFFICES ASSUME Pruned, [Next]_vars
             PROVE  Pruned'
  OBVIOUS
<1>1. Control /\ Control' /\ plan' = plan
  BY ControlNext, PlanStays DEF Pruned
<1>2. ASSUME NEW t, NEW s, NEW R, Sense(plan, t, s, R)
      PROVE  Prunes(t, s, R)'
  <2>1. Prunes(t, s, R)
    BY <1>2 DEF Pruned
  <2>2. CASE Next
    BY <1>1, <1>2, <2>1, <2>2, PrunesNext
  <2>3. CASE UNCHANGED vars
    BY <2>1, <2>3 DEF Prunes, vars, building
  <2> QED
    BY <2>2, <2>3
<1> QED
  BY <1>1, <1>2 DEF Pruned

\* A plan that is rejected does not make sense.
LEMMA PrunedSuffices == Pruned => PruningSuffices
<1> SUFFICES ASSUME Pruned, at = "rejected", MakesSense
             PROVE  FALSE
  BY DEF PruningSuffices
<1>1. plan \in Plans
  BY DEF Pruned, Control, TypedBuilding
<1>2. PICK t, s, R : Sense(plan, t, s, R)
  BY <1>1, SenseExists
<1>3. Prunes(t, s, R)
  BY <1>2 DEF Pruned
<1> QED
  BY <1>3 DEF Prunes

\* Reading only the columns that are needed fails no plan that makes sense when the whole
\* table is read: the way down asks for every column that the way up looks for.
THEOREM PlannerPruningSuffices == Spec => []PruningSuffices
BY PrunedInit, PrunedNext, PrunedSuffices, PTL DEF Spec

=============================================================================
