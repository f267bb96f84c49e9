---------------------------- MODULE ConversionProofs ----------------------------
(***************************************************************************)
(* Proofs about Conversion, for every CSV file, every schema and every     *)
(* size of a chunk and of the cache: the cells arrive in file order, the   *)
(* extents the writer records tile the file, and the reader refuses a file *)
(* that was not finished.                                                  *)
(***************************************************************************)
EXTENDS Conversion, DataFacts

-----------------------------------------------------------------------------
(* CsvConvert: cells and bytes of rows. *)

\* A cell is a row and a column.
Cell == Nat \X Nat

\* The rows rs have the width of the file.
Wide(rs) == rs \in Seq(Nat) /\ \A i \in 1..Len(rs) : file[rs[i]].width = Width

\* The width is a number.
LEMMA WidthIs == Width \in Nat \ {0} /\ Columns = 1..Width
BY ConvertAssumption DEF Columns

\* Cell j of row i is where GetString2D looks for it.
LEMMA CellsAre ==
  ASSUME NEW rs, Wide(rs)
  PROVE  /\ CellsOf(rs) \in Seq(Cell)
         /\ Len(CellsOf(rs)) = Width * Len(rs)
         /\ \A i \in 1..Len(rs) : \A j \in Columns :
              /\ (i - 1) * Width + j \in 1..Len(CellsOf(rs))
              /\ CellsOf(rs)[(i - 1) * Width + j] = <<rs[i], j>>
<1> DEFINE parts == [i \in DOMAIN rs |-> [j \in 1..file[rs[i]].width |-> <<rs[i], j>>]]
           P == [k \in 0..Len(rs) |-> Width * k]
<1>1. /\ Len(rs) \in Nat /\ DOMAIN rs = 1..Len(rs)
      /\ \A i \in 1..Len(rs) : rs[i] \in Nat /\ file[rs[i]].width = Width
  BY LenProperties, ElementOfSeq DEF Wide
<1>2. parts = [i \in 1..Len(rs) |-> [j \in 1..Width |-> <<rs[i], j>>]]
  BY <1>1
<1>3. \A i \in 1..Len(rs) : parts[i] \in [1..Width -> Cell]
  BY <1>1, <1>2, WidthIs DEF Cell
<1>4. \A i \in 1..Len(rs) : parts[i] \in Seq(Cell) /\ Len(parts[i]) = Width
  <2> SUFFICES ASSUME NEW i \in 1..Len(rs)
               PROVE  parts[i] \in Seq(Cell) /\ Len(parts[i]) = Width
    OBVIOUS
  <2>1. parts[i] \in [1..Width -> Cell] /\ Width \in Nat
    BY <1>3, WidthIs
  <2> HIDE DEF parts
  <2> QED
    BY ONLY <2>1, IsSequence
<1>5. parts \in Seq(Seq(Cell)) /\ Len(parts) = Len(rs)
  <2>1. parts \in [1..Len(rs) -> Seq(Cell)]
    BY <1>2, <1>4
  <2> HIDE DEF parts
  <2> QED
    BY <1>1, <2>1, IsSequence
<1>6. Ends(P, parts)
  <2>1. P \in [0..Len(rs) -> Nat] /\ P[0] = 0
    BY <1>1, WidthIs
  <2>2. ASSUME NEW i \in 1..Len(rs)
        PROVE  P[i] = P[i - 1] + Width
    <3>1. i \in 0..Len(rs) /\ i - 1 \in 0..Len(rs)
      BY <1>1
    <3>2. Width * i = Width * (i - 1) + Width
      BY WidthIs
    <3> QED
      BY <3>1, <3>2
  <2> HIDE DEF P, parts
  <2> QED
    BY <1>4, <1>5, <2>1, <2>2 DEF Ends
<1>7. CellsOf(rs) = FlattenSeq(parts)
  BY DEF CellsOf
<1>8. CellsOf(rs) \in Seq(Cell)
  BY <1>5, <1>7, FlattenType
<1>9. Len(CellsOf(rs)) = P[Len(rs)]
  BY <1>5, <1>6, <1>7, FlattenPlaces
<1>10. Len(CellsOf(rs)) = Width * Len(rs)
  BY <1>1, <1>9
<1>11. ASSUME NEW i \in 1..Len(rs), NEW j \in Columns
       PROVE  /\ (i - 1) * Width + j \in 1..Len(CellsOf(rs))
              /\ CellsOf(rs)[(i - 1) * Width + j] = <<rs[i], j>>
  <2>1. j \in 1..Width /\ j \in 1..Len(parts[i]) /\ parts[i][j] = <<rs[i], j>>
    <3>1. j \in 1..Width
      BY WidthIs
    <3>2. Len(parts[i]) = Width
      BY <1>4
    <3>3. parts[i] = [l \in 1..Width |-> <<rs[i], l>>]
      BY <1>2
    <3> HIDE DEF parts
    <3> QED
      BY <3>1, <3>2, <3>3
  <2>2. CellsOf(rs)[P[i - 1] + j] = <<rs[i], j>>
    <3> HIDE DEF parts, P
    <3>1. i \in 1..Len(parts)
      BY <1>5
    <3>2. FlattenSeq(parts)[P[i - 1] + j] = parts[i][j]
      BY <1>5, <1>6, <2>1, <3>1, FlattenPlaces
    <3> QED
      BY <1>7, <2>1, <3>2
  <2>3. P[i - 1] = (i - 1) * Width
    <3>1. i - 1 \in 0..Len(rs)
      BY <1>1
    <3> QED
      BY <3>1, WidthIs
  <2>4. (i - 1) * Width \in Nat /\ (i - 1) * Width + Width <= Width * Len(rs)
    <3>1. i - 1 \in Nat /\ Len(rs) - i \in Nat
      BY <1>1
    <3>2. \A k, n \in Nat : k * n \in Nat
      OBVIOUS
    <3>3. (i - 1) * Width \in Nat /\ (Len(rs) - i) * Width \in Nat
      BY <3>1, <3>2, WidthIs
    <3>4. Width * Len(rs) = (i - 1) * Width + Width + (Len(rs) - i) * Width
      BY <1>1, WidthIs
    <3> QED
      BY <3>3, <3>4, WidthIs
  <2>5. (i - 1) * Width + j \in 1..Len(CellsOf(rs))
    <3>1. PICK x, y, w : x = (i - 1) * Width /\ y = Len(CellsOf(rs)) /\ w = Width
      OBVIOUS
    <3>2. x \in Nat /\ w \in Nat /\ x + w <= y /\ y \in Nat /\ j \in 1..w
      BY <1>8, <1>10, <2>1, <2>4, <3>1, WidthIs, LenProperties
    <3>3. x + j \in 1..y
      BY ONLY <3>2
    <3> QED
      BY <3>1, <3>3
  <2> QED
    BY <2>2, <2>3, <2>5
<1> QED
  BY <1>8, <1>10, <1>11

\* The last n of the first m rows.
LastRows(m, n) == [i \in 1..n |-> m - n + i]

\* The first m rows have the width of the file.
WideTo(m) == m \in 0..Len(file) /\ \A r \in 1..m : file[r].width = Width

\* A file is a sequence of rows.
LEMMA FileIs ==
  ASSUME file \in Files
  PROVE  /\ Len(file) \in Nat /\ DOMAIN file = 1..Len(file)
         /\ \A r \in 1..Len(file) : file[r].width \in Nat /\ file[r].bytes \in Nat
<1> DEFINE R == [width : Nat \ {0}, bytes : Nat, parses : BOOLEAN]
<1>1. file \in Seq(R)
  BY ConvertAssumption
<1> HIDE DEF R
<1>2. Len(file) \in Nat /\ DOMAIN file = 1..Len(file) /\ \A r \in 1..Len(file) : file[r] \in R
  BY <1>1, LenProperties, ElementOfSeq
<1> QED
  BY <1>2 DEF R

\* The last rows are rows.
LEMMA LastRowsAre ==
  ASSUME NEW m, WideTo(m), NEW n \in 0..m, file \in Files
  PROVE  Wide(LastRows(m, n)) /\ Len(LastRows(m, n)) = n
<1>1. m \in Nat /\ n \in Nat
  BY FileIs DEF WideTo
<1>2. LastRows(m, n) \in [1..n -> Nat] /\ \A i \in 1..n : LastRows(m, n)[i] \in 1..m
  BY <1>1 DEF LastRows
<1>3. LastRows(m, n) \in Seq(Nat) /\ Len(LastRows(m, n)) = n
  BY <1>1, <1>2, IsSequence
<1> QED
  BY <1>2, <1>3 DEF Wide, WideTo

\* More rows have more bytes.
LEMMA ApproxGrows ==
  ASSUME NEW m, WideTo(m), NEW n \in 0..m, NEW k \in 0..n, file \in Files
  PROVE  /\ ApproxByteSize(LastRows(m, k)) \in Nat
         /\ ApproxByteSize(LastRows(m, n)) >= ApproxByteSize(LastRows(m, k))
<1> DEFINE v(l) == [i \in 1..l |-> file[m - l + i].bytes]
<1>1. m \in Nat /\ n \in Nat /\ k \in Nat /\ k <= n /\ n <= m /\ n \in 0..m /\ k \in 0..m
  BY FileIs DEF WideTo
<1>2. ASSUME NEW l \in 0..m
      PROVE  /\ ApproxByteSize(LastRows(m, l)) = SumOf(v(l), 1..l) + (Width * l + 1) * OffsetBytes
             /\ \A i \in 1..l : v(l)[i] \in Nat
             /\ SumOf(v(l), 1..l) \in Nat
  <2>1. l \in Nat /\ \A i \in 1..l : m - l + i \in 1..m
    BY <1>1
  <2>2. \A i \in 1..l : v(l)[i] \in Nat
    <3>1. \A r \in 1..m : file[r].bytes \in Nat
      BY FileIs DEF WideTo
    <3> QED
      BY <2>1, <3>1
  <2>3. [i \in DOMAIN LastRows(m, l) |-> file[LastRows(m, l)[i]].bytes]
          = [i \in 1..l |-> v(l)[i]]
    BY DEF LastRows
  <2>4. Len(CellsOf(LastRows(m, l))) = Width * l
    BY LastRowsAre, CellsAre
  <2>5. SumOf(v(l), 1..l) \in Nat
    BY <2>1, <2>2, SumOfNumbers
  <2> QED
    BY <2>2, <2>3, <2>4, <2>5 DEF ApproxByteSize, SumOf
<1>3. PICK d \in Nat : n = d + k
  <2>1. n - k \in Nat /\ n = (n - k) + k
    BY <1>1
  <2> QED
    BY <2>1
<1>4. PICK a, b : a = v(n) /\ b = v(k)
  OBVIOUS
<1>5. /\ ApproxByteSize(LastRows(m, n)) = SumOf(a, 1..n) + (Width * n + 1) * OffsetBytes
      /\ ApproxByteSize(LastRows(m, k)) = SumOf(b, 1..k) + (Width * k + 1) * OffsetBytes
      /\ SumOf(a, 1..n) \in Nat /\ SumOf(b, 1..k) \in Nat
      /\ \A i \in 1..n : a[i] \in Nat
      /\ \A i \in 1..k : b[i] \in Nat
  <2> HIDE DEF v
  <2> QED
    BY <1>1, <1>2, <1>4
<1>6. \A i \in 1..k : b[i] \in Int /\ a[d + i] = b[i]
  <2> SUFFICES ASSUME NEW i \in 1..k
               PROVE  b[i] \in Int /\ a[d + i] = b[i]
    OBVIOUS
  <2>1. d + i \in 1..n /\ m - n + (d + i) = m - k + i
    BY <1>1, <1>3
  <2>2. v(n)[d + i] = v(k)[i]
    BY <2>1
  <2>3. b[i] \in Nat
    BY <1>5
  <2> QED
    BY <1>4, <2>2, <2>3
<1>7. SumOf(a, (d + 1)..(d + k)) = SumOf(b, 1..k)
  BY <1>1, <1>6, SumOfShifted
<1>8. SumOf(a, 1..n) = SumOf(a, 1..d) + SumOf(a, (d + 1)..(d + k)) /\ SumOf(a, 1..d) \in Nat
  <2>1. PICK A, B : A = 1..d /\ B = (d + 1)..(d + k)
    OBVIOUS
  <2>2. A \cap B = {} /\ A \cup B = 1..n /\ IsFiniteSet(A) /\ IsFiniteSet(B)
    <3>1. A \cap B = {} /\ A \cup B = 1..n
      BY <1>1, <1>3, <2>1
    <3>2. IsFiniteSet(A) /\ IsFiniteSet(B)
      <4>1. d \in Int /\ 1 \in Int /\ d + 1 \in Int /\ d + k \in Int
        BY <1>1
      <4> QED
        BY ONLY <2>1, <4>1, FS_Interval
    <3> QED
      BY <3>1, <3>2
  <2>3. \A x \in 1..n : a[x] \in Nat
    BY <1>5
  <2>4. SumOf(a, A \cup B) = SumOf(a, A) + SumOf(a, B)
    <3>1. \A x \in A \cup B : a[x] \in Int
      BY <2>2, <2>3
    <3> QED
      BY ONLY <2>2, <3>1, SumOfUnion
  <2>5. \A x \in 1..d : a[x] \in Nat
    BY <1>1, <1>3, <2>3
  <2>6. SumOf(a, 1..d) \in Nat
    BY ONLY <2>5, <1>3, SumOfNumbers
  <2> QED
    BY <2>1, <2>2, <2>4, <2>6
<1>9. PICK x, y : x = (Width * k + 1) * OffsetBytes /\ y = (Width * n + 1) * OffsetBytes
  OBVIOUS
<1>10. x \in Nat /\ y \in Nat /\ x <= y
  <2>1. \A p, q \in Nat : p * q \in Nat
    OBVIOUS
  <2>2. OffsetBytes \in Nat /\ Width \in Nat
    BY ConvertAssumption
  <2>3. Width * d \in Nat /\ Width * k \in Nat /\ Width * k + 1 \in Nat
    BY <1>1, <2>1, <2>2
  <2>4. (Width * d) * OffsetBytes \in Nat /\ x \in Nat
    BY <1>9, <2>1, <2>2, <2>3
  <2>5. y = x + (Width * d) * OffsetBytes
    BY <1>1, <1>3, <1>9, <2>2
  <2> QED
    BY <2>4, <2>5
<1>11. PICK p, q, r : p = SumOf(a, 1..n) /\ q = SumOf(b, 1..k) /\ r = SumOf(a, 1..d)
  OBVIOUS
<1>12. p = r + q /\ r \in Nat /\ q \in Nat
  BY <1>7, <1>8, <1>5, <1>11
<1>13. /\ ApproxByteSize(LastRows(m, n)) = p + y
       /\ ApproxByteSize(LastRows(m, k)) = q + x
  BY <1>5, <1>9, <1>11
<1>14. q + x \in Nat /\ p + y >= q + x
  BY ONLY <1>10, <1>12
<1> QED
  BY <1>13, <1>14

-----------------------------------------------------------------------------
(* CsvConvert: the cells of a column, in the chunks and in its builder. *)

\* The cells of column c in the n rows behind row w.
CellsFrom(c, w, n) == [i \in 1..n |-> <<w + i, c>>]

\* What the chunks cs have of column c, chunk by chunk.
Pieces(cs, c) == [k \in DOMAIN cs |-> cs[k][c]]

\* The chunks cs have the first w rows and the builders bs the n rows behind them.
Holding(bs, cs, w, n) ==
  /\ w \in Nat /\ n \in Nat
  /\ bs = [c \in Columns |-> CellsFrom(c, w, n)]
  /\ cs \in Seq([Columns -> Seq(Cell)])
  /\ \A c \in Columns : FlattenSeq(Pieces(cs, c)) = CellsFrom(c, 0, w)

\* Cells are cells.
LEMMA CellsTyped ==
  ASSUME NEW c \in Nat, NEW w \in Nat, NEW n \in Nat
  PROVE  CellsFrom(c, w, n) \in Seq(Cell) /\ Len(CellsFrom(c, w, n)) = n
<1>1. CellsFrom(c, w, n) \in [1..n -> Cell]
  BY DEF CellsFrom, Cell
<1> QED
  BY <1>1, IsSequence

\* The cells of n rows behind row w, and of the k rows behind these, are adjacent.
Joined(c, w, n, k) == CellsFrom(c, w, n) \o CellsFrom(c, w + n, k) = CellsFrom(c, w, n + k)

\* They join to those of n + k rows.
LEMMA CellsJoin == \A c, w, n, k \in Nat : Joined(c, w, n, k)
<1> TAKE c, w, n, k \in Nat
<1>1. w + n \in Nat /\ n + k \in Nat
  OBVIOUS
<1>2. PICK x, y, z : /\ x = CellsFrom(c, w, n) /\ y = CellsFrom(c, w + n, k)
                     /\ z = CellsFrom(c, w, n + k)
  OBVIOUS
<1>3. /\ x \in Seq(Cell) /\ Len(x) = n
      /\ y \in Seq(Cell) /\ Len(y) = k
      /\ z \in Seq(Cell) /\ Len(z) = n + k
  BY <1>1, <1>2, CellsTyped
<1>4. /\ x \o y \in Seq(Cell) /\ Len(x \o y) = n + k
      /\ \A i \in 1..(n + k) : (x \o y)[i] = IF i <= n THEN x[i] ELSE y[i - n]
  BY ONLY <1>3, ConcatProperties
<1>5. ASSUME NEW i \in 1..(n + k)
      PROVE  (x \o y)[i] = z[i]
  <2>1. z[i] = <<w + i, c>>
    BY <1>2 DEF CellsFrom
  <2>2. CASE i <= n
    <3>1. x[i] = <<w + i, c>>
      BY <1>2, <2>2 DEF CellsFrom
    <3> QED
      BY <1>4, <2>1, <2>2, <3>1
  <2>3. CASE ~(i <= n)
    <3>1. i - n \in 1..k /\ (w + n) + (i - n) = w + i
      BY <2>3
    <3>2. y[i - n] = <<w + i, c>>
      BY <1>2, <3>1 DEF CellsFrom
    <3> QED
      BY <1>4, <2>1, <2>3, <3>2
  <2> QED
    BY <2>2, <2>3
<1>6. PICK xy : xy = x \o y
  OBVIOUS
<1>7. xy = z
  <2>1. xy \in Seq(Cell) /\ z \in Seq(Cell) /\ Len(xy) = Len(z) /\ \A i \in 1..Len(xy) : xy[i] = z[i]
    BY <1>3, <1>4, <1>5, <1>6
  <2> QED
    BY ONLY <2>1, SeqEqual
<1> QED
  BY <1>2, <1>6, <1>7 DEF Joined

\* The pieces of one column are sequences of cells.
LEMMA PiecesAre ==
  ASSUME NEW cs \in Seq([Columns -> Seq(Cell)]), NEW c \in Columns
  PROVE  /\ Pieces(cs, c) \in Seq(Seq(Cell))
         /\ \A x \in [Columns -> Seq(Cell)] :
              Pieces(Append(cs, x), c) = Append(Pieces(cs, c), x[c])
<1>1. Len(cs) \in Nat /\ DOMAIN cs = 1..Len(cs) /\ \A k \in 1..Len(cs) : cs[k] \in [Columns -> Seq(Cell)]
  BY LenProperties, ElementOfSeq
<1>2. Pieces(cs, c) \in [1..Len(cs) -> Seq(Cell)]
  BY <1>1 DEF Pieces
<1>3. Pieces(cs, c) \in Seq(Seq(Cell)) /\ Len(Pieces(cs, c)) = Len(cs)
  BY <1>1, <1>2, IsSequence
<1>4. ASSUME NEW x \in [Columns -> Seq(Cell)]
      PROVE  Pieces(Append(cs, x), c) = Append(Pieces(cs, c), x[c])
  <2>1. PICK a, p, b, n : /\ a = Append(cs, x) /\ p = Pieces(cs, c)
                          /\ b = Append(Pieces(cs, c), x[c]) /\ n = Len(cs)
    OBVIOUS
  <2>2. /\ n \in Nat /\ a \in Seq([Columns -> Seq(Cell)]) /\ Len(a) = n + 1
        /\ \A k \in 1..n : a[k] = cs[k]
        /\ a[n + 1] = x
    BY <1>1, <2>1, AppendProperties
  <2>3. /\ b \in Seq(Seq(Cell)) /\ Len(b) = n + 1
        /\ \A k \in 1..n : b[k] = p[k]
        /\ b[n + 1] = x[c]
    BY <1>1, <1>3, <2>1, AppendProperties
  <2>4. DOMAIN a = 1..(n + 1) /\ DOMAIN b = 1..(n + 1)
    BY <2>2, <2>3, LenProperties
  <2>5. \A k \in 1..(n + 1) : b[k] = a[k][c]
    <3>1. \A k \in 1..n : p[k] = cs[k][c]
      BY <1>1, <2>1 DEF Pieces
    <3>2. \A k \in 1..(n + 1) : k \in 1..n \/ k = n + 1
      BY <2>2
    <3> QED
      BY <2>2, <2>3, <3>1, <3>2
  <2>6. b = [k \in 1..(n + 1) |-> a[k][c]]
    <3>1. b = [k \in DOMAIN b |-> b[k]]
      BY <2>3
    <3> QED
      BY <2>4, <2>5, <3>1
  <2>7. Pieces(a, c) = [k \in 1..(n + 1) |-> a[k][c]]
    BY <2>4 DEF Pieces
  <2> QED
    BY <2>1, <2>6, <2>7
<1> QED
  BY <1>3, <1>4

\* More rows are put into the builders, and perhaps a chunk is written.
LEMMA HoldingMore ==
  ASSUME NEW bs, NEW cs, NEW w, NEW n, Holding(bs, cs, w, n), NEW k, k \in Nat,
         NEW more, more = [c \in Columns |-> bs[c] \o CellsFrom(c, w + n, k)]
  PROVE  /\ Holding(more, cs, w, n + k)
         /\ Holding(NoCells, Append(cs, more), w + (n + k), 0)
<1>1. w \in Nat /\ n \in Nat /\ n + k \in Nat /\ Columns \subseteq Nat
  BY WidthIs DEF Holding
<1>2. \A c \in Columns : bs[c] = CellsFrom(c, w, n)
  BY DEF Holding
<1>3. \A c \in Columns : more[c] = CellsFrom(c, w, n + k) /\ more[c] \in Seq(Cell)
  <2> SUFFICES ASSUME NEW c \in Columns
               PROVE  more[c] = CellsFrom(c, w, n + k) /\ more[c] \in Seq(Cell)
    OBVIOUS
  <2>1. c \in Nat /\ w \in Nat /\ n \in Nat /\ k \in Nat /\ n + k \in Nat
    BY <1>1
  <2>2. CellsFrom(c, w, n) \o CellsFrom(c, w + n, k) = CellsFrom(c, w, n + k)
    <3>1. c \in Nat /\ w \in Nat /\ n \in Nat /\ k \in Nat
      BY <2>1
    <3>2. Joined(c, w, n, k)
      BY ONLY <3>1, CellsJoin, Zenon
    <3> QED
      BY <3>2, Zenon DEF Joined
  <2>3. CellsFrom(c, w, n + k) \in Seq(Cell)
    BY ONLY <2>1, CellsTyped
  <2>4. more[c] = bs[c] \o CellsFrom(c, w + n, k) /\ bs[c] = CellsFrom(c, w, n)
    BY <1>2
  <2> QED
    BY ONLY <2>2, <2>3, <2>4
<1>4. more = [c \in Columns |-> CellsFrom(c, w, n + k)]
  BY <1>3
<1>5. Holding(more, cs, w, n + k)
  BY <1>1, <1>4 DEF Holding
<1>6. more \in [Columns -> Seq(Cell)]
  BY <1>3
<1>7. Append(cs, more) \in Seq([Columns -> Seq(Cell)])
  BY <1>6, AppendProperties DEF Holding
<1>8. NoCells = [c \in Columns |-> CellsFrom(c, w + (n + k), 0)]
  <2>1. \A c \in Columns : CellsFrom(c, w + (n + k), 0) = <<>>
    <3>1. 1..0 = {}
      OBVIOUS
    <3> QED
      BY <3>1 DEF CellsFrom
  <2> QED
    BY <2>1 DEF NoCells
<1>9. ASSUME NEW c \in Columns
      PROVE  FlattenSeq(Pieces(Append(cs, more), c)) = CellsFrom(c, 0, w + (n + k))
  <2>1. cs \in Seq([Columns -> Seq(Cell)]) /\ FlattenSeq(Pieces(cs, c)) = CellsFrom(c, 0, w)
    BY DEF Holding
  <2>2. PICK p : p = Pieces(cs, c)
    OBVIOUS
  <2>3. p \in Seq(Seq(Cell)) /\ Pieces(Append(cs, more), c) = Append(p, more[c])
    BY <1>6, <2>1, <2>2, PiecesAre
  <2>4. FlattenSeq(Append(p, more[c])) = FlattenSeq(p) \o more[c]
    BY <1>3, <2>3, FlattenAppend
  <2>5. CellsFrom(c, 0, w) \o CellsFrom(c, 0 + w, n + k) = CellsFrom(c, 0, w + (n + k))
    <3>1. c \in Nat /\ 0 \in Nat /\ w \in Nat /\ n + k \in Nat
      BY <1>1
    <3>2. Joined(c, 0, w, n + k)
      BY ONLY <3>1, CellsJoin, Zenon
    <3> QED
      BY <3>2, Zenon DEF Joined
  <2>6. 0 + w = w
    BY <1>1
  <2> QED
    BY <1>3, <2>1, <2>2, <2>3, <2>4, <2>5, <2>6
<1>10. Holding(NoCells, Append(cs, more), w + (n + k), 0)
  <2>1. w + (n + k) \in Nat /\ 0 \in Nat
    BY <1>1
  <2>2. PICK a, v : a = Append(cs, more) /\ v = w + (n + k)
    OBVIOUS
  <2>3. Holding(NoCells, a, v, 0)
    BY <1>7, <1>8, <1>9, <2>1, <2>2 DEF Holding
  <2> QED
    BY <2>2, <2>3
<1> QED
  BY <1>5, <1>10

-----------------------------------------------------------------------------
(* CsvConvert: the invariant. *)

\* The rows read that are not in the cache, and those of them in the chunks.
Done     == next - 1 - Len(cache)
InChunks == Done - accumulated

\* The rows read have the width of the file, the last ones are in the cache, and
\* the cache and the builders have no more than a chunk's rows.
RowsInv ==
  /\ file \in Files
  /\ at \in Place /\ endFlag \in BOOLEAN
  /\ next \in 1..(Len(file) + 1)
  /\ WideTo(next - 1)
  /\ Len(cache) \in 0..(next - 1)
  /\ cache = LastRows(next - 1, Len(cache))
  /\ accumulated \in 0..(RowsPerChunk - 1)
  /\ accumulated + Len(cache) \in 0..RowsPerChunk

\* Rows wait in the builders only because the cache was full when they came, since
\* the last chunk.
WaitInv ==
  /\ at = "fill" => endFlag
  /\ at = "append" /\ endFlag => ~Room
  /\ at = "done" => cache = <<>>
  /\ accumulated > 0 => ApproxByteSize(LastRows(Done, accumulated)) >= BytesPerCache

ConvertInv ==
  /\ RowsInv
  /\ WaitInv
  /\ Holding(builders, chunks, InChunks, accumulated)

\* The numbers in RowsInv.
LEMMA RowNumbers ==
  ASSUME RowsInv
  PROVE  /\ Len(file) \in Nat /\ next - 1 \in 0..Len(file) /\ next \in Nat
         /\ Len(cache) \in Nat /\ Done \in Nat /\ accumulated \in Nat
         /\ RowsPerChunk \in Nat \ {0} /\ accumulated < RowsPerChunk
         /\ Wide(cache) /\ DOMAIN cache = 1..Len(cache)
<1>1. Len(file) \in Nat /\ RowsPerChunk \in Nat \ {0}
  BY FileIs, ConvertAssumption DEF RowsInv
<1>2. Wide(cache)
  BY LastRowsAre DEF RowsInv
<1> QED
  BY <1>1, <1>2, LenProperties DEF RowsInv, Done, Wide

\* GetString2D gives each column the cells of the cached rows.
LEMMA AppendedIs ==
  ASSUME RowsInv
  PROVE  Appended = [c \in Columns |-> CellsFrom(c, Done, Len(cache))]
<1>1. ASSUME NEW c \in Columns, NEW i \in 1..Len(cache)
      PROVE  GetString2D(i, c) = <<Done + i, c>>
  <2>1. /\ 1 \in 1..Len(cache) /\ file[cache[1]].width = Width
        /\ DOMAIN CellsOf(cache) = 1..Len(CellsOf(cache))
    <3>1. 1 \in 1..Len(cache)
      BY RowNumbers
    <3>2. Wide(cache)
      BY RowNumbers
    <3> QED
      BY <3>1, <3>2, CellsAre, LenProperties DEF Wide
  <2>2. /\ (i - 1) * Width + c \in 1..Len(CellsOf(cache))
        /\ CellsOf(cache)[(i - 1) * Width + c] = <<cache[i], c>>
    BY RowNumbers, CellsAre
  <2>3. cache[i] = Done + i
    <3>1. LastRows(next - 1, Len(cache))[i] = next - 1 - Len(cache) + i
      BY DEF LastRows
    <3>2. cache = LastRows(next - 1, Len(cache))
      BY DEF RowsInv
    <3>3. cache[i] = next - 1 - Len(cache) + i
      BY <3>1, <3>2, Zenon
    <3> QED
      BY <3>3 DEF Done
  <2> QED
    BY <2>1, <2>2, <2>3 DEF GetString2D
<1>2. DOMAIN cache = 1..Len(cache)
  BY RowNumbers
<1> QED
  BY <1>1, <1>2 DEF Appended, CellsFrom

\* At first nothing is read.
LEMMA ConvertBegins == Init => ConvertInv
<1> SUFFICES ASSUME Init PROVE ConvertInv
  OBVIOUS
<1>1. /\ file \in Files /\ at = "fill" /\ next = 1 /\ cache = <<>> /\ endFlag = TRUE
      /\ accumulated = 0 /\ builders = NoCells /\ chunks = <<>>
  BY DEF Init
<1>2. Len(cache) = 0 /\ Len(file) \in Nat /\ RowsPerChunk \in Nat \ {0}
  BY <1>1, EmptySeq, FileIs, ConvertAssumption
<1>3. cache = LastRows(next - 1, Len(cache)) /\ NoCells = [c \in Columns |-> CellsFrom(c, 0, 0)]
  <2>1. 1..0 = {}
    OBVIOUS
  <2> QED
    BY <1>1, <1>2, <2>1 DEF LastRows, NoCells, CellsFrom
<1>4. WideTo(next - 1)
  BY <1>1, <1>2 DEF WideTo
<1>5. RowsInv
  BY <1>1, <1>2, <1>3, <1>4 DEF RowsInv, Place
<1>6. WaitInv
  BY <1>1 DEF WaitInv
<1>7. Done = 0 /\ InChunks = 0
  <2>1. PICK n, l : n = next /\ l = Len(cache)
    OBVIOUS
  <2>2. n - 1 - l = 0
    BY ONLY <1>1, <1>2, <2>1
  <2>3. Done = 0
    BY <2>1, <2>2 DEF Done
  <2> QED
    BY <1>1, <2>3 DEF InChunks
<1>8. \A c \in Columns : FlattenSeq(Pieces(chunks, c)) = CellsFrom(c, 0, 0)
  <2> SUFFICES ASSUME NEW c \in Columns
               PROVE  FlattenSeq(Pieces(chunks, c)) = CellsFrom(c, 0, 0)
    OBVIOUS
  <2>1. Pieces(chunks, c) = <<>> /\ CellsFrom(c, 0, 0) = <<>>
    <3>1. DOMAIN chunks = {} /\ 1..0 = {}
      BY <1>1
    <3> QED
      BY <3>1 DEF Pieces, CellsFrom
  <2> QED
    BY <2>1, FlattenEmpty
<1>9. Holding(builders, chunks, InChunks, accumulated)
  <2>1. chunks \in Seq([Columns -> Seq(Cell)])
    BY <1>1, EmptySeq
  <2> QED
    BY <1>1, <1>3, <1>7, <1>8, <2>1 DEF Holding
<1> QED
  BY <1>5, <1>6, <1>9 DEF ConvertInv

\* A step that leaves the rows alone keeps their numbers.
LEMMA RowsStay ==
  ASSUME RowsInv, UNCHANGED <<file, next, cache, accumulated>>,
         at' \in Place, endFlag' \in BOOLEAN
  PROVE  RowsInv' /\ Done' = Done /\ InChunks' = InChunks
BY DEF RowsInv, WideTo, Done, InChunks

\* The bytes of some rows of the file do not change.
LEMMA BytesStay ==
  ASSUME UNCHANGED <<file, accumulated>>, Done' = Done
  PROVE  ApproxByteSize(LastRows(Done, accumulated))' = ApproxByteSize(LastRows(Done, accumulated))
BY DEF ApproxByteSize, CellsOf, LastRows

\* A step that only moves on to another place.
LEMMA PlaceKeeps ==
  ASSUME ConvertInv, UNCHANGED <<file, next, cache, accumulated, builders, chunks>>,
         at' \in Place, endFlag' \in BOOLEAN,
         at' = "fill" => endFlag',
         at' = "append" /\ endFlag' => ~Room',
         at' = "done" => cache = <<>>
  PROVE  ConvertInv'
<1>1. RowsInv' /\ Done' = Done /\ InChunks' = InChunks
  BY RowsStay DEF ConvertInv
<1>2. WaitInv'
  BY <1>1, BytesStay DEF ConvertInv, WaitInv
<1>3. Holding(builders, chunks, InChunks, accumulated)'
  BY <1>1 DEF ConvertInv, Holding, Pieces
<1> QED
  BY <1>1, <1>2, <1>3 DEF ConvertInv

\* A row of the right width goes into the cache.
LEMMA ReadKeeps ==
  ASSUME ConvertInv, ReadRow
  PROVE  ConvertInv'
<1>1. /\ at = "fill" /\ next \in DOMAIN file /\ WidthOk(file[next])
      /\ cache' = Append(cache, next) /\ next' = next + 1
      /\ UNCHANGED <<file, at, endFlag, accumulated, builders, chunks>>
      /\ accumulated + Len(cache) < RowsPerChunk
  BY DEF ReadRow, Room
<1>2. RowsInv
  BY DEF ConvertInv
<1>3. file[next].width = Width
  <2>1. CASE Expected # 0
    BY <1>1, <2>1, ConvertAssumption DEF WidthOk
  <2>2. CASE Expected = 0
    BY <1>1, <1>2, <2>2, ConvertAssumption DEF RowsInv
  <2> QED
    BY <2>1, <2>2
<1>4. /\ next \in 1..Len(file) /\ next' - 1 = next /\ next \in Nat
      /\ Len(cache) \in Nat /\ Len(cache) <= next - 1 /\ cache \in Seq(Nat)
      /\ accumulated \in Nat /\ RowsPerChunk \in Nat
  BY <1>1, <1>2, RowNumbers, FileIs DEF RowsInv, Wide
<1>5. WideTo(next - 1)'
  <2>1. \A r \in 1..(next - 1) : file[r].width = Width
    BY <1>2 DEF RowsInv, WideTo
  <2>2. \A r \in 1..next : r \in 1..(next - 1) \/ r = next
    BY <1>4
  <2>3. WideTo(next)
    BY <1>3, <1>4, <2>1, <2>2 DEF WideTo
  <2> QED
    BY <1>1, <1>4, <2>3 DEF WideTo
<1>6. Len(cache') = Len(cache) + 1 /\ cache' = LastRows(next, Len(cache) + 1)
  <2>1. PICK c, d, n, e : c = cache /\ d = cache' /\ n = Len(cache) /\ e = LastRows(next, n + 1)
    OBVIOUS
  <2>2. /\ d \in Seq(Nat) /\ Len(d) = n + 1
        /\ \A i \in 1..n : d[i] = c[i]
        /\ d[n + 1] = next
    BY <1>1, <1>4, <2>1, AppendProperties
  <2>3. e \in [1..(n + 1) -> Nat] /\ \A i \in 1..(n + 1) : e[i] = next - (n + 1) + i
    BY <1>4, <2>1 DEF LastRows
  <2>4. e \in Seq(Nat) /\ Len(e) = n + 1
    <3>1. n + 1 \in Nat
      BY <1>4, <2>1
    <3> QED
      BY ONLY <2>3, <3>1, IsSequence
  <2>5. \A i \in 1..n : c[i] = next - 1 - n + i
    BY <1>2, <2>1 DEF RowsInv, LastRows
  <2>6. \A i \in 1..(n + 1) : d[i] = e[i]
    <3> SUFFICES ASSUME NEW i \in 1..(n + 1)
                 PROVE  d[i] = e[i]
      OBVIOUS
    <3>1. CASE i \in 1..n
      BY <1>4, <2>1, <2>2, <2>3, <2>5, <3>1, SMTT(30)
    <3>2. CASE i = n + 1
      <4>1. e[n + 1] = next - (n + 1) + (n + 1)
        <5>1. n + 1 \in 1..(n + 1)
          BY <1>4, <2>1
        <5> QED
          BY <2>3, <5>1
      <4>2. next - (n + 1) + (n + 1) = next
        BY <1>4, <2>1
      <4> QED
        BY <2>2, <3>2, <4>1, <4>2
    <3> QED
      BY <1>4, <2>1, <3>1, <3>2
  <2>7. d = e
    BY <2>2, <2>4, <2>6, SeqEqual
  <2> QED
    BY <2>1, <2>2, <2>7
<1>7. RowsInv'
  <2>1. next' \in 1..(Len(file') + 1) /\ Len(cache') \in 0..(next' - 1)
        /\ accumulated' \in 0..(RowsPerChunk - 1)
        /\ accumulated' + Len(cache') \in 0..RowsPerChunk
    BY <1>1, <1>2, <1>4, <1>6 DEF RowsInv
  <2>2. cache' = LastRows(next - 1, Len(cache))'
    BY <1>4, <1>6 DEF LastRows
  <2>3. file' \in Files /\ at' \in Place /\ endFlag' \in BOOLEAN
    BY <1>1, <1>2 DEF RowsInv
  <2> QED
    BY <1>5, <2>1, <2>2, <2>3 DEF RowsInv
<1>8. Done' = Done /\ InChunks' = InChunks
  <2>1. next' - 1 - Len(cache') = next - 1 - Len(cache)
    BY <1>1, <1>4, <1>6
  <2>2. Done' = Done
    BY <2>1 DEF Done
  <2> QED
    BY <1>1, <2>2 DEF InChunks
<1>9. WaitInv'
  <2>1. ApproxByteSize(LastRows(Done, accumulated))' = ApproxByteSize(LastRows(Done, accumulated))
    BY <1>1, <1>8, BytesStay
  <2> QED
    BY <1>1, <2>1 DEF ConvertInv, WaitInv
<1>10. Holding(builders, chunks, InChunks, accumulated)'
  BY <1>1, <1>8 DEF ConvertInv, Holding, Pieces
<1> QED
  BY <1>7, <1>9, <1>10 DEF ConvertInv

\* The cache goes into the builders, and from there perhaps into a chunk.
LEMMA AppendKeeps ==
  ASSUME ConvertInv, AppendRows
  PROVE  /\ ConvertInv'
         /\ chunks' = chunks \/ \E x \in [Columns -> Seq(Cell)] : chunks' = Append(chunks, x)
<1> DEFINE n == accumulated + Len(cache)
           cells == [c \in Columns |-> builders[c] \o Appended[c]]
<1>1. /\ at = "append" /\ cache # <<>> /\ cache' = <<>>
      /\ at' = IF endFlag THEN "fill" ELSE "done"
      /\ UNCHANGED <<file, next, endFlag>>
  BY DEF AppendRows
<1>2. ChunkIsDue(n) => chunks' = Append(chunks, cells) /\ accumulated' = 0 /\ builders' = NoCells
  BY DEF AppendRows
<1>3. ~ChunkIsDue(n) => builders' = cells /\ accumulated' = n /\ chunks' = chunks
  BY DEF AppendRows
<1>4. (ChunkIsDue(n) => accumulated' = 0) /\ (~ChunkIsDue(n) => accumulated' = n)
  BY <1>2, <1>3
<1>5. RowsInv /\ WaitInv /\ Holding(builders, chunks, InChunks, accumulated)
  BY DEF ConvertInv
<1>6. PICK l : l = Len(cache)
  OBVIOUS
<1>7. /\ l \in Nat /\ Done \in Nat /\ next - 1 = Done + l /\ next - 1 \in Nat
      /\ accumulated \in Nat /\ n \in 0..RowsPerChunk /\ n \in Nat /\ n = accumulated + l
      /\ RowsPerChunk \in Nat \ {0} /\ InChunks \in Nat /\ Done = InChunks + accumulated
  <2>1. /\ l \in Nat /\ Done \in Nat /\ next \in Nat /\ accumulated \in Nat
        /\ RowsPerChunk \in Nat \ {0} /\ n \in 0..RowsPerChunk
    BY <1>5, <1>6, RowNumbers DEF RowsInv
  <2>2. Done = next - 1 - l
    BY <1>6 DEF Done
  <2>3. InChunks \in Nat /\ InChunks = Done - accumulated
    BY <1>5 DEF Holding, InChunks
  <2> QED
    BY <1>6, <2>1, <2>2, <2>3
<1>8. Len(cache') = 0 /\ LastRows(next - 1, 0) = <<>>
  <2>1. 1..0 = {}
    OBVIOUS
  <2> QED
    BY <1>1, <2>1, EmptySeq DEF LastRows
<1>9. cells = [c \in Columns |-> builders[c] \o CellsFrom(c, InChunks + accumulated, l)]
  BY <1>5, <1>6, <1>7, AppendedIs
<1>10. /\ Holding(cells, chunks, InChunks, n)
       /\ Holding(NoCells, Append(chunks, cells), InChunks + n, 0)
  <2>1. PICK w, a, more : w = InChunks /\ a = accumulated /\ more = cells
    OBVIOUS
  <2>2. Holding(builders, chunks, w, a) /\ l \in Nat
        /\ more = [c \in Columns |-> builders[c] \o CellsFrom(c, w + a, l)]
    BY <1>5, <1>7, <1>9, <2>1
  <2>3. /\ Holding(more, chunks, w, a + l)
        /\ Holding(NoCells, Append(chunks, more), w + (a + l), 0)
    BY ONLY <2>2, HoldingMore
  <2> QED
    BY <1>6, <2>1, <2>3
<1>11. cells \in [Columns -> Seq(Cell)]
  <2>1. cells = [c \in Columns |-> CellsFrom(c, InChunks, n)]
    BY <1>10 DEF Holding
  <2>2. \A c \in Columns : CellsFrom(c, InChunks, n) \in Seq(Cell)
    BY <1>7, WidthIs, CellsTyped
  <2> QED
    BY <2>1, <2>2
<1>12. accumulated' \in 0..(RowsPerChunk - 1)
  <2>1. CASE ChunkIsDue(n)
    BY <1>7, <1>4, <2>1
  <2>2. CASE ~ChunkIsDue(n)
    <3>1. ~(n >= RowsPerChunk)
      BY <2>2 DEF ChunkIsDue
    <3> QED
      BY <1>7, <1>4, <2>2, <3>1
  <2> QED
    BY <2>1, <2>2
<1>13. RowsInv'
  <2>1. file' \in Files /\ endFlag' \in BOOLEAN /\ next' \in 1..(Len(file') + 1) /\ WideTo(next - 1)'
    BY <1>1, <1>5 DEF RowsInv, WideTo
  <2>2. at' \in Place
    BY <1>1 DEF Place
  <2>3. Len(cache') \in 0..(next' - 1) /\ accumulated' + Len(cache') \in 0..RowsPerChunk
    <3>1. PICK x, a, z, r : /\ x = next' - 1 /\ a = accumulated' /\ z = Len(cache')
                            /\ r = RowsPerChunk
      OBVIOUS
    <3>2. x \in Nat /\ a \in 0..(r - 1) /\ r \in Nat /\ z = 0
      BY <1>1, <1>7, <1>8, <1>12, <3>1
    <3>3. z \in 0..x /\ a + z \in 0..r
      BY ONLY <3>2
    <3> QED
      BY <3>1, <3>3
  <2>4. cache' = LastRows(next - 1, Len(cache))'
    BY <1>1, <1>8 DEF LastRows
  <2> QED
    BY <1>12, <2>1, <2>2, <2>3, <2>4 DEF RowsInv
<1>14. Done' = Done + l
  <2>1. next' - 1 - Len(cache') = Done + l
    BY <1>1, <1>7, <1>8
  <2> QED
    BY <2>1 DEF Done
<1>15. Holding(builders, chunks, InChunks, accumulated)'
  <2>1. CASE ChunkIsDue(n)
    <3>1. InChunks' = InChunks + n
      <4>1. Done' - accumulated' = InChunks + n
        BY <1>7, <1>14, <1>4, <2>1
      <4> QED
        BY <4>1 DEF InChunks
    <3> QED
      BY <1>2, <1>10, <2>1, <3>1 DEF Holding, NoCells, Pieces
  <2>2. CASE ~ChunkIsDue(n)
    <3>1. InChunks' = InChunks
      <4>1. Done' - accumulated' = InChunks
        BY <1>7, <1>14, <1>4, <2>2
      <4> QED
        BY <4>1 DEF InChunks
    <3> QED
      BY <1>3, <1>10, <2>2, <3>1 DEF Holding, Pieces
  <2> QED
    BY <2>1, <2>2
<1>16. WaitInv'
  <2>1. /\ at' = "fill" => endFlag'
        /\ ~(at' = "append")
        /\ at' = "done" => cache' = <<>>
    BY <1>1
  <2>2. ASSUME accumulated' > 0
        PROVE  ApproxByteSize(LastRows(Done, accumulated))' >= BytesPerCache
    <3>1. ~ChunkIsDue(n) /\ accumulated' = n
      BY <1>4, <2>2
    <3>2. endFlag /\ n < RowsPerChunk
      BY <1>5, <1>7, <3>1 DEF ChunkIsDue, RowsInv
    <3>3. ~Room
      BY <1>1, <1>5, <3>2 DEF WaitInv
    <3>4. ~(ApproxByteSize(cache) < BytesPerCache)
      BY <3>2, <3>3 DEF Room
    <3>5. cache = LastRows(next - 1, l) /\ WideTo(next - 1) /\ file \in Files
      BY <1>5, <1>6 DEF RowsInv
    <3>6. /\ ApproxByteSize(LastRows(next - 1, l)) \in Nat
          /\ ApproxByteSize(LastRows(next - 1, n)) \in Nat
          /\ ApproxByteSize(LastRows(next - 1, n)) >= ApproxByteSize(LastRows(next - 1, l))
      <4>1. n \in 0..(next - 1) /\ l \in 0..n /\ n \in 0..n
        BY <1>7
      <4> QED
        BY <3>5, <4>1, ApproxGrows
    <3>7. ApproxByteSize(LastRows(Done, accumulated))' = ApproxByteSize(LastRows(next - 1, n))
      BY <1>1, <1>7, <1>14, <3>1 DEF ApproxByteSize, CellsOf, LastRows
    <3>8. BytesPerCache \in Nat
      BY ConvertAssumption
    <3> QED
      BY <3>4, <3>5, <3>6, <3>7, <3>8
  <2> QED
    BY <2>1, <2>2 DEF WaitInv
<1>17. chunks' = chunks \/ \E x \in [Columns -> Seq(Cell)] : chunks' = Append(chunks, x)
  BY <1>2, <1>3, <1>11
<1> QED
  BY <1>13, <1>15, <1>16, <1>17 DEF ConvertInv

\* Every step of a conversion keeps the invariant, and writes at most one chunk.
LEMMA ConvertKeeps ==
  ASSUME ConvertInv, [Next]_vars
  PROVE  /\ ConvertInv'
         /\ chunks' = chunks \/ \E x \in [Columns -> Seq(Cell)] : chunks' = Append(chunks, x)
<1>1. RowsInv /\ WaitInv
  BY DEF ConvertInv
<1>2. CASE ReadRow
  BY <1>2, ReadKeeps DEF ReadRow
<1>3. CASE AppendRows
  BY <1>3, AppendKeeps
<1>4. CASE RowRejected
  <2>1. ConvertInv'
    BY <1>1, <1>4, PlaceKeeps DEF RowRejected, RowsInv, Place
  <2> QED
    BY <1>4, <2>1 DEF RowRejected
<1>5. CASE EndOfFile
  <2>1. ConvertInv'
    BY <1>1, <1>5, PlaceKeeps DEF EndOfFile, Place
  <2> QED
    BY <1>5, <2>1 DEF EndOfFile
<1>6. CASE CacheFull
  <2>1. ~Room'
    BY <1>6 DEF CacheFull, Room, ApproxByteSize, CellsOf
  <2>2. ConvertInv'
    BY <1>1, <1>6, <2>1, PlaceKeeps DEF CacheFull, RowsInv, Place
  <2> QED
    BY <1>6, <2>2 DEF CacheFull
<1>7. CASE FieldRejected
  <2>1. ConvertInv'
    BY <1>1, <1>7, PlaceKeeps DEF FieldRejected, RowsInv, Place
  <2> QED
    BY <1>7, <2>1 DEF FieldRejected
<1>8. CASE NothingRead
  <2>1. ConvertInv'
    BY <1>1, <1>8, PlaceKeeps DEF NothingRead, RowsInv, Place
  <2> QED
    BY <1>8, <2>1 DEF NothingRead
<1>9. CASE UNCHANGED vars
  <2>1. Room' <=> Room
    BY <1>9 DEF vars, Room, ApproxByteSize, CellsOf
  <2>2. ConvertInv'
    BY <1>1, <1>9, <2>1, PlaceKeeps DEF vars, RowsInv, WaitInv
  <2> QED
    BY <1>9, <2>2 DEF vars
<1> QED
  BY <1>2, <1>3, <1>4, <1>5, <1>6, <1>7, <1>8, <1>9 DEF Next, Over

\* The rows arrive in file order.
LEMMA RowsArrive == ConvertInv => RowsInOrder
<1> SUFFICES ASSUME ConvertInv, NEW c \in Columns
             PROVE  Converted(c) = [i \in 1..(next - 1 - Len(cache)) |-> <<i, c>>]
  BY DEF RowsInOrder
<1>1. PICK w, n : w = InChunks /\ n = accumulated
  OBVIOUS
<1>2. /\ Holding(builders, chunks, w, n) /\ RowsInv
  BY <1>1 DEF ConvertInv
<1>3. w \in Nat /\ n \in Nat /\ builders[c] = CellsFrom(c, w, n)
      /\ FlattenSeq(Pieces(chunks, c)) = CellsFrom(c, 0, w)
  BY <1>2 DEF Holding
<1>4. c \in Nat /\ 0 \in Nat /\ 0 + w = w
  BY <1>3, WidthIs
<1>5. CellsFrom(c, 0, w) \o CellsFrom(c, 0 + w, n) = CellsFrom(c, 0, w + n)
  <2>1. Joined(c, 0, w, n)
    BY ONLY <1>3, <1>4, CellsJoin, Zenon
  <2> QED
    BY <2>1, Zenon DEF Joined
<1>6. Converted(c) = CellsFrom(c, 0, w + n)
  BY <1>3, <1>4, <1>5 DEF Converted, Pieces
<1>7. w + n = next - 1 - Len(cache)
  <2>1. Done \in Nat /\ w = Done - n
    BY <1>1, <1>2, RowNumbers DEF InChunks
  <2>2. w + n = Done
    BY <1>3, <2>1
  <2> QED
    BY <2>2 DEF Done
<1>8. CellsFrom(c, 0, w + n) = [i \in 1..(w + n) |-> <<i, c>>]
  <2>1. \A i \in 1..(w + n) : 0 + i = i
    BY <1>3
  <2> QED
    BY <2>1 DEF CellsFrom
<1> QED
  BY <1>6, <1>7, <1>8

\* Rows are left in the builders only if they filled a cache.
LEMMA TailsWait == ConvertInv => SmallTailKept
<1> SUFFICES ASSUME ConvertInv, at = "done", accumulated > 0
             PROVE  ApproxByteSize([i \in 1..accumulated |-> next - 1 - accumulated + i])
                      >= BytesPerCache
  BY DEF SmallTailKept
<1>1. cache = <<>> /\ ApproxByteSize(LastRows(Done, accumulated)) >= BytesPerCache
  BY DEF ConvertInv, WaitInv
<1>2. Done = next - 1
  <2>1. Len(cache) = 0 /\ next \in Nat
    BY <1>1, EmptySeq, RowNumbers DEF ConvertInv
  <2>2. next - 1 - Len(cache) = next - 1
    BY <2>1
  <2> QED
    BY <2>2 DEF Done
<1> QED
  BY <1>1, <1>2 DEF LastRows

\* The types of CsvConvert.
LEMMA ConvertTyped == ConvertInv => TypeOK
<1> SUFFICES ASSUME ConvertInv PROVE TypeOK
  OBVIOUS
<1>1. RowsInv /\ Holding(builders, chunks, InChunks, accumulated)
  BY DEF ConvertInv
<1>2. cache \in Seq(DOMAIN file)
  <2>1. Len(cache) \in Nat /\ DOMAIN file = 1..Len(file) /\ next - 1 \in 0..Len(file)
        /\ Len(file) \in Nat /\ Len(cache) \in 0..(next - 1)
    BY <1>1, RowNumbers, FileIs DEF RowsInv
  <2>2. cache = LastRows(next - 1, Len(cache))
    BY <1>1 DEF RowsInv
  <2>3. PICK l, m : l = Len(cache) /\ m = next - 1
    OBVIOUS
  <2>4. LastRows(m, l) \in [1..l -> DOMAIN file]
    BY <2>1, <2>3 DEF LastRows
  <2>5. LastRows(m, l) \in Seq(DOMAIN file)
    BY <2>1, <2>3, <2>4, IsSequence
  <2> QED
    BY <2>2, <2>3, <2>5
<1>3. DOMAIN builders = Columns
  BY <1>1 DEF Holding
<1>4. \A k \in DOMAIN chunks : DOMAIN chunks[k] = Columns
  <2>1. chunks \in Seq([Columns -> Seq(Cell)])
    BY <1>1 DEF Holding
  <2>2. DOMAIN chunks = 1..Len(chunks) /\ \A k \in 1..Len(chunks) : chunks[k] \in [Columns -> Seq(Cell)]
    BY <2>1, LenProperties, ElementOfSeq
  <2> QED
    BY <2>2
<1> QED
  BY <1>1, <1>2, <1>3, <1>4 DEF TypeOK, RowsInv

-----------------------------------------------------------------------------
(* ColumnarFormat: the bytes of a column. *)

\* The names of columns.
Names == UNION {{s[i].name : i \in DOMAIN s} : s \in Schemas \cup {CsvSchema}}

\* The texts of the cells in the CSV files.
FieldIn(f, i, j) == TextIn(<<i, j>>, f[i].bytes)
FieldsOf(f)      == {FieldIn(f, p[1], p[2]) : p \in (DOMAIN f) \X (1..Width)}
Fields           == UNION {FieldsOf(f) : f \in Files}

\* What other columns than those of strings hold.
Held == Numbers \cup {NumberIn(x) : x \in Cell}

\* What a byte of a file may be: one of a text or of a name, or one of a value.
TextByte  == UNION {Range(t) : t \in Texts \cup Names \cup Fields}
ValueByte == (Nat \cup Held \cup {Magic}) \X Nat
Byte      == TextByte \cup ValueByte

\* A column of type t.
IsColumn(t, col) == col \in Seq(IF t = StringType THEN Seq(Byte) ELSE Held)

\* The bytes of a value are as many as it has.
LEMMA BytesAre ==
  ASSUME NEW v, v \in Nat \cup Held \cup {Magic}, NEW n, n \in Nat
  PROVE  Bytes(v, n) \in Seq(Byte) /\ Len(Bytes(v, n)) = n
<1>1. Bytes(v, n) \in [1..n -> Byte]
  <2>1. \A i \in 1..n : i \in Nat
    OBVIOUS
  <2>2. \A i \in 1..n : <<v, i>> \in ValueByte
    BY <2>1 DEF ValueByte
  <2>3. \A i \in 1..n : <<v, i>> \in Byte
    BY <2>2 DEF Byte
  <2> QED
    BY <2>3 DEF Bytes
<1> QED
  BY <1>1, IsSequence

\* A text, a name, or a field, is one of bytes.
LEMMA TextsAre == \A t \in Texts \cup Names \cup Fields : t \in Seq(Byte)
<1> SUFFICES ASSUME NEW t \in Texts \cup Names \cup Fields PROVE t \in Seq(Byte)
  OBVIOUS
<1>1. PICK R : R = Range(t)
  OBVIOUS
<1>2. t \in Seq(R)
  <2>1. CASE t \in Texts
    BY <1>1, <2>1, ConversionAssumption
  <2>2. CASE t \in Names
    BY <1>1, <2>2, ConversionAssumption DEF Names
  <2>3. CASE t \in Fields
    <3>1. PICK f \in Files : t \in FieldsOf(f)
      BY <2>3 DEF Fields
    <3>2. PICK p \in (DOMAIN f) \X (1..Width) : t = FieldIn(f, p[1], p[2])
      BY <3>1 DEF FieldsOf
    <3>3. PICK i \in DOMAIN f, j \in 1..Width : t = TextIn(<<i, j>>, f[i].bytes)
      <4>1. p[1] \in DOMAIN f /\ p[2] \in 1..Width
        OBVIOUS
      <4> QED
        BY <3>2, <4>1 DEF FieldIn
    <3>4. LET text == TextIn(<<i, j>>, f[i].bytes) IN text \in Seq(Range(text))
      BY ConversionAssumption
    <3> QED
      BY <1>1, <3>3, <3>4
  <2> QED
    BY <2>1, <2>2, <2>3
<1>3. R \subseteq Byte
  BY <1>1 DEF Byte, TextByte
<1>4. Len(t) \in Nat /\ t \in [1..Len(t) -> R]
  BY <1>2, LenProperties
<1>5. t \in [1..Len(t) -> Byte]
  BY <1>3, <1>4
<1> QED
  BY <1>4, <1>5, IsSequence

\* Every type but that of strings has a size.
LEMMA SizesAre == \A t \in ColumnType \ {StringType} : ValueSize[t] \in Nat
BY DEF ColumnType, StringType, ValueSize

\* The size recorded for a column is the number of its bytes.
LEMMA EncodeIs ==
  ASSUME NEW t \in ColumnType, NEW col, IsColumn(t, col)
  PROVE  /\ Encode(t, col) \in Seq(Byte)
         /\ Len(Encode(t, col)) \in Nat
         /\ EncodedSize(t, col) = Len(Encode(t, col))
<1> DEFINE parts == [i \in DOMAIN col |-> IF t = StringType THEN Bytes(Len(col[i]), 4) \o col[i]
                                          ELSE Bytes(col[i], ValueSize[t])]
<1>1. PICK n : n = Len(col)
  OBVIOUS
<1>2. n \in Nat /\ DOMAIN col = 1..n
  BY <1>1, LenProperties DEF IsColumn
<1>3. Encode(t, col) = FlattenSeq(parts)
  BY DEF Encode
<1>4. CASE t # StringType
  <2> DEFINE P == [k \in 0..n |-> k * ValueSize[t]]
  <2>1. ValueSize[t] \in Nat /\ \A i \in 1..n : col[i] \in Held
    BY <1>1, <1>4, SizesAre, ElementOfSeq DEF IsColumn
  <2>2. \A i \in 1..n : parts[i] \in Seq(Byte) /\ Len(parts[i]) = ValueSize[t]
    BY <1>2, <1>4, <2>1, BytesAre
  <2>3. parts \in Seq(Seq(Byte)) /\ Len(parts) = n
    <3>1. parts \in [1..n -> Seq(Byte)]
      BY <1>2, <2>2
    <3> QED
      BY <1>2, <3>1, IsSequence
  <2>4. Ends(P, parts)
    <3>1. PICK w : w = ValueSize[t]
      OBVIOUS
    <3>2. \A k, v \in Nat : k * v \in Nat
      OBVIOUS
    <3>3. P \in [0..n -> Nat] /\ P[0] = 0
      BY <1>2, <2>1, <3>2
    <3>4. ASSUME NEW i \in 1..n
          PROVE  P[i] = P[i - 1] + Len(parts[i])
      <4>1. i \in 0..n /\ i - 1 \in 0..n
        BY <1>2
      <4>2. i * w = (i - 1) * w + w
        BY <2>1, <3>1
      <4>3. P[i] = i * w /\ P[i - 1] = (i - 1) * w /\ Len(parts[i]) = w
        BY <2>2, <3>1, <4>1
      <4> QED
        BY <4>2, <4>3
    <3> HIDE DEF P, parts
    <3> QED
      BY <2>3, <3>3, <3>4 DEF Ends
  <2>5. P[n] = n * ValueSize[t]
    BY <1>2
  <2> HIDE DEF P, parts
  <2>6. Len(FlattenSeq(parts)) = n * ValueSize[t] /\ FlattenSeq(parts) \in Seq(Byte)
    BY <2>3, <2>4, <2>5, FlattenPlaces, FlattenType
  <2> QED
    BY <1>1, <1>3, <1>4, <2>6, LenProperties DEF EncodedSize
<1>5. CASE t = StringType
  <2>1. col \in Seq(Seq(Byte)) /\ \A i \in 1..n : col[i] \in Seq(Byte) /\ Len(col[i]) \in Nat
    <3>1. col \in Seq(Seq(Byte))
      BY <1>5 DEF IsColumn
    <3> QED
      BY <1>1, <3>1, ElementOfSeq, LenProperties
  <2>2. \A i \in 1..n : parts[i] \in Seq(Byte) /\ Len(parts[i]) = 4 + Len(col[i])
    <3> SUFFICES ASSUME NEW i \in 1..n
                 PROVE  parts[i] \in Seq(Byte) /\ Len(parts[i]) = 4 + Len(col[i])
      OBVIOUS
    <3>1. PICK x, y, l : x = Bytes(Len(col[i]), 4) /\ y = col[i] /\ l = Len(col[i])
      OBVIOUS
    <3>2. x \in Seq(Byte) /\ Len(x) = 4 /\ y \in Seq(Byte) /\ Len(y) = l
      <4>1. l \in Nat
        BY <2>1, <3>1
      <4> QED
        BY <2>1, <3>1, <4>1, BytesAre
    <3>3. x \o y \in Seq(Byte) /\ Len(x \o y) = 4 + l
      <4>1. x \o y \in Seq(Byte) /\ Len(x \o y) = Len(x) + Len(y)
        BY <3>2, ConcatProperties
      <4> QED
        BY <3>2, <4>1
    <3>4. parts[i] = x \o y
      BY <1>2, <1>5, <3>1
    <3> HIDE DEF parts
    <3> QED
      BY <3>1, <3>3, <3>4
  <2>3. parts \in Seq(Seq(Byte)) /\ Len(parts) = n
    <3>1. DOMAIN parts = 1..n /\ parts = [i \in DOMAIN parts |-> parts[i]]
      BY <1>2
    <3> HIDE DEF parts
    <3>2. parts \in [1..n -> Seq(Byte)]
      BY <2>2, <3>1
    <3> QED
      BY <1>2, <3>2, IsSequence
  <2> HIDE DEF parts
  <2> DEFINE lens == [i \in 1..n |-> Len(col[i])]
             Q == [k \in 0..n |-> SumOf(lens, 1..k)]
             P == [k \in 0..n |-> Q[k] + 4 * k]
  <2>4. /\ Q \in [0..n -> Nat] /\ Q[0] = 0
        /\ \A i \in 1..n : Q[i] = Q[i - 1] + Len(col[i])
    <3>1. \A i \in 1..n : lens[i] = Len(col[i]) /\ lens[i] \in Nat
      BY <2>1
    <3> HIDE DEF lens
    <3>2. ASSUME NEW k \in 0..n
          PROVE  /\ SumOf(lens, 1..k) \in Nat
                 /\ k > 0 => SumOf(lens, 1..k) = SumOf(lens, 1..(k - 1)) + lens[k]
                 /\ SumOf(lens, 1..0) = 0
      <4>1. k \in Nat /\ \A i \in 1..k : lens[i] \in Nat
        BY <1>2, <3>1
      <4> QED
        BY ONLY <4>1, SumOfNumbers
    <3>3. Q \in [0..n -> Nat] /\ Q[0] = 0
      BY <1>2, <3>2
    <3>4. ASSUME NEW i \in 1..n
          PROVE  Q[i] = Q[i - 1] + Len(col[i])
      <4>1. i \in 0..n /\ i - 1 \in 0..n /\ i > 0
        BY <1>2
      <4> QED
        BY <3>1, <3>2, <4>1
    <3> QED
      BY <3>3, <3>4
  <2> HIDE DEF Q
  <2>5. Ends(Q, col)
    BY <1>1, <2>4 DEF Ends
  <2>6. Ends(P, parts)
    <3>1. P \in [0..n -> Nat] /\ P[0] = 0
      BY <1>2, <2>4
    <3>2. ASSUME NEW i \in 1..n
          PROVE  P[i] = P[i - 1] + Len(parts[i])
      <4>1. i \in 0..n /\ i - 1 \in 0..n
        BY <1>2
      <4>2. P[i] = Q[i] + 4 * i /\ P[i - 1] = Q[i - 1] + 4 * (i - 1)
        BY <4>1
      <4>3. Q[i] = Q[i - 1] + Len(col[i]) /\ Len(parts[i]) = 4 + Len(col[i])
        BY <2>2, <2>4
      <4>4. PICK a, b, c \in Nat : a = Q[i] /\ b = Q[i - 1] /\ c = Len(col[i])
        BY <2>1, <2>4, <4>1
      <4> HIDE DEF P
      <4>5. PICK d, e, f : d = P[i] /\ e = P[i - 1] /\ f = Len(parts[i])
        OBVIOUS
      <4>6. d = a + 4 * i /\ e = b + 4 * (i - 1) /\ a = b + c /\ f = 4 + c
        BY <4>2, <4>3, <4>4, <4>5
      <4>7. d = e + f
        BY ONLY <4>6, a \in Nat, b \in Nat, c \in Nat, i \in Int
      <4> QED
        BY <4>5, <4>7
    <3> HIDE DEF P
    <3> QED
      BY <2>3, <3>1, <3>2 DEF Ends
  <2>7. n \in 0..n /\ P[n] = Q[n] + 4 * n
    BY <1>2
  <2> HIDE DEF P
  <2>8. /\ Len(FlattenSeq(parts)) = P[n] /\ FlattenSeq(parts) \in Seq(Byte)
        /\ Len(FlattenSeq(col)) = Q[n]
    BY <1>1, <2>1, <2>3, <2>5, <2>6, FlattenPlaces, FlattenType
  <2>9. EncodedSize(t, col) = Q[n] + 4 * n
    BY <1>1, <1>5, <2>8 DEF EncodedSize
  <2> QED
    BY <1>3, <2>7, <2>8, <2>9, LenProperties
<1> QED
  BY <1>4, <1>5

-----------------------------------------------------------------------------
(* ColumnarFile: the bytes of a batch. *)

\* The writer's layout is the one read.
LEMMA SameFormat ==
  /\ \A t, col : Writer!Encode(t, col) = Encode(t, col)
  /\ \A t, col : Writer!EncodedSize(t, col) = EncodedSize(t, col)
  /\ \A s : Writer!FlattenSeq(s) = FlattenSeq(s)
  /\ \A v, n : Writer!Bytes(v, n) = Bytes(v, n)
  /\ \A n, f : Writer!SumFunction([d \in 1..n |-> f[d]]) = SumOf(f, 1..n)
<1>1. \A s : Writer!FlattenSeq(s) = FlattenSeq(s)
  BY DEF Writer!FlattenSeq, FlattenSeq
<1>2. \A v, n : Writer!Bytes(v, n) = Bytes(v, n)
  BY DEF Writer!Bytes, Bytes
<1>3. Writer!StringType = StringType /\ Writer!ValueSize = ValueSize
  BY DEF Writer!StringType, StringType, Writer!ValueSize, ValueSize, Writer!ColumnType, ColumnType
<1>4. \A t, col : Writer!Encode(t, col) = Encode(t, col)
  BY <1>1, <1>2, <1>3 DEF Writer!Encode, Encode
<1>5. \A t, col : Writer!EncodedSize(t, col) = EncodedSize(t, col)
  BY <1>1, <1>3 DEF Writer!EncodedSize, EncodedSize
<1>6. \A n, f : Writer!SumFunction([d \in 1..n |-> f[d]]) = SumOf(f, 1..n)
  BY DEF Writer!SumFunction, SumOf, SumFunction, Writer!SumFunctionOnSet, SumFunctionOnSet,
         Writer!FoldFunctionOnSet, FoldFunctionOnSet, Writer!MapThenFoldSet, MapThenFoldSet
<1> QED
  BY <1>1, <1>2, <1>4, <1>5, <1>6

\* The schema of a file.
SchemaIs == schema \in Schemas \cup {CsvSchema}

\* The batches a writer may be given.
Batch == {b \in [DOMAIN schema -> Seq(Seq(Byte)) \cup Seq(Held)] :
            \A c \in DOMAIN schema : IsColumn(schema[c].type, b[c])}

\* The bytes of column c of the batch b, those of b, and how many those of each column are.
Data(b, c)    == Encode(schema[c].type, b[c])
BatchBytes(b) == FlattenSeq([c \in DOMAIN schema |-> Data(b, c)])
Sizes(b)      == [c \in DOMAIN schema |-> Len(Data(b, c))]

\* They are what the writer writes.
LEMMA SameBatch == \A b : Writer!BatchBytes(b) = BatchBytes(b)
<1> SUFFICES ASSUME NEW b PROVE Writer!BatchBytes(b) = BatchBytes(b)
  OBVIOUS
<1>1. Writer!BatchBytes(b)
        = Writer!FlattenSeq([c \in DOMAIN schema |-> Writer!Encode(schema[c].type, b[c])])
  BY DEF Writer!BatchBytes, Writer!Columns
<1>2. [c \in DOMAIN schema |-> Writer!Encode(schema[c].type, b[c])]
        = [c \in DOMAIN schema |-> Data(b, c)]
  BY SameFormat DEF Data
<1> QED
  BY <1>1, <1>2, SameFormat DEF BatchBytes

\* Where column c of the batch b starts in it, and with c beyond the last, its end.
StartIn(b, c) == SumOf(Sizes(b), 1..(c - 1))

\* A schema has columns.
LEMMA SchemaHas ==
  ASSUME SchemaIs
  PROVE  /\ Len(schema) \in Nat \ {0} /\ DOMAIN schema = 1..Len(schema)
         /\ \A c \in DOMAIN schema : schema[c].type \in ColumnType
<1>1. PICK R : R = Range(schema)
  OBVIOUS
<1>2. schema \in Seq(R) /\ schema # <<>> /\ \A c \in DOMAIN schema : schema[c].type \in ColumnType
  BY <1>1, ConversionAssumption DEF SchemaIs
<1> QED
  BY <1>2, EmptySeq, LenProperties

\* Where the columns are in the bytes of a batch.
LEMMA BatchIs ==
  ASSUME SchemaIs, NEW b, b \in Batch
  PROVE  /\ BatchBytes(b) \in Seq(Byte)
         /\ StartIn(b, 1) = 0
         /\ Len(BatchBytes(b)) = StartIn(b, Len(schema) + 1)
         /\ \A c \in DOMAIN schema :
              /\ Sizes(b)[c] \in Nat /\ EncodedSize(schema[c].type, b[c]) = Sizes(b)[c]
              /\ Data(b, c) \in Seq(Byte) /\ Len(Data(b, c)) = Sizes(b)[c]
              /\ StartIn(b, c) \in Nat
              /\ StartIn(b, c + 1) = StartIn(b, c) + Sizes(b)[c]
              /\ StartIn(b, c + 1) <= StartIn(b, Len(schema) + 1)
              /\ \A j \in 1..Sizes(b)[c] : BatchBytes(b)[StartIn(b, c) + j] = Data(b, c)[j]
<1>1. PICK n : n = Len(schema)
  OBVIOUS
<1>2. n \in Nat \ {0} /\ DOMAIN schema = 1..n
  BY <1>1, SchemaHas
<1>3. PICK z : z = Sizes(b)
  OBVIOUS
<1>4. ASSUME NEW c \in 1..n
      PROVE  /\ Data(b, c) \in Seq(Byte) /\ Len(Data(b, c)) = z[c] /\ z[c] \in Nat
             /\ EncodedSize(schema[c].type, b[c]) = z[c]
  <2>1. IsColumn(schema[c].type, b[c]) /\ schema[c].type \in ColumnType
    BY <1>2, SchemaHas DEF Batch
  <2>2. z[c] = Len(Data(b, c))
    BY <1>2, <1>3 DEF Sizes
  <2> QED
    BY <2>1, <2>2, EncodeIs DEF Data
<1>5. PICK parts : parts = [c \in 1..n |-> Data(b, c)]
  OBVIOUS
<1>6. parts \in Seq(Seq(Byte)) /\ Len(parts) = n /\ BatchBytes(b) = FlattenSeq(parts)
  <2>1. parts \in [1..n -> Seq(Byte)]
    BY <1>4, <1>5
  <2> QED
    BY <1>2, <1>5, <2>1, IsSequence DEF BatchBytes
<1>7. PICK P : P = [k \in 0..n |-> SumOf(z, 1..k)]
  OBVIOUS
<1>8. ASSUME NEW k \in 0..n
      PROVE  /\ P[k] \in Nat /\ P[k] = SumOf(z, 1..k)
             /\ k > 0 => P[k] = P[k - 1] + z[k]
  <2>1. k \in Nat /\ \A i \in 1..k : z[i] \in Nat
    BY <1>2, <1>4
  <2>2. SumOf(z, 1..k) \in Nat /\ (k > 0 => SumOf(z, 1..k) = SumOf(z, 1..(k - 1)) + z[k])
    BY ONLY <2>1, SumOfNumbers
  <2>3. k > 0 => k - 1 \in 0..n
    BY <1>2
  <2> QED
    BY <1>7, <2>2, <2>3
<1>9. P[0] = 0
  <2>1. 1..0 = {} /\ 0 \in 0..n
    BY <1>2
  <2> QED
    BY <1>7, <2>1, SumOfNone
<1>10. Ends(P, parts)
  <2>1. P \in [0..n -> Nat]
    BY <1>7, <1>8
  <2>2. ASSUME NEW i \in 1..n
        PROVE  P[i] = P[i - 1] + Len(parts[i])
    <3>1. i \in 0..n /\ i > 0
      BY <1>2
    <3>2. Len(parts[i]) = z[i]
      BY <1>4, <1>5
    <3> QED
      BY <1>8, <3>1, <3>2
  <2> QED
    BY <1>6, <1>9, <2>1, <2>2 DEF Ends
<1>11. /\ BatchBytes(b) \in Seq(Byte)
       /\ Len(BatchBytes(b)) = P[n]
       /\ \A c \in 1..n : \A j \in 1..Len(parts[c]) : BatchBytes(b)[P[c - 1] + j] = parts[c][j]
  BY <1>6, <1>10, FlattenPlaces, FlattenType
<1>12. \A k \in 0..n : \A i \in 0..k : P[i] <= P[k]
  BY <1>6, <1>10, EndsAscend
<1>13. ASSUME NEW c \in 1..(n + 1)
       PROVE  c - 1 \in 0..n /\ StartIn(b, c) = P[c - 1]
  <2>1. c - 1 \in 0..n
    BY <1>2
  <2> QED
    BY <1>3, <1>8, <2>1 DEF StartIn
<1>14. StartIn(b, 1) = 0 /\ StartIn(b, n + 1) = P[n]
  <2>1. 1 \in 1..(n + 1) /\ n + 1 \in 1..(n + 1) /\ 1 - 1 = 0 /\ (n + 1) - 1 = n
    BY <1>2
  <2> QED
    BY <1>9, <1>13, <2>1
<1>15. ASSUME NEW c \in 1..n
       PROVE  /\ StartIn(b, c) \in Nat
              /\ StartIn(b, c + 1) = StartIn(b, c) + z[c]
              /\ StartIn(b, c + 1) <= StartIn(b, n + 1)
              /\ \A j \in 1..z[c] : BatchBytes(b)[StartIn(b, c) + j] = Data(b, c)[j]
  <2>1. /\ c \in 1..(n + 1) /\ c + 1 \in 1..(n + 1) /\ (c + 1) - 1 = c
        /\ c \in 0..n /\ c > 0 /\ n \in 0..n /\ c \in 0..n /\ c - 1 \in 0..n
    BY <1>2
  <2>2. StartIn(b, c) = P[c - 1] /\ StartIn(b, c + 1) = P[c]
    BY <1>13, <2>1
  <2>3. P[c - 1] \in Nat /\ P[c] = P[c - 1] + z[c]
    BY <1>8, <2>1
  <2>4. P[c] <= P[n]
    BY <1>12, <2>1
  <2>5. parts[c] = Data(b, c) /\ Len(parts[c]) = z[c]
    BY <1>4, <1>5
  <2> QED
    BY <1>11, <1>14, <2>2, <2>3, <2>4, <2>5
<1> QED
  BY <1>1, <1>2, <1>3, <1>4, <1>11, <1>14, <1>15

-----------------------------------------------------------------------------
(* ColumnarFile: the invariant. *)

\* Where batch k starts in the file, and behind the last one, where the next will.
Start(k) == IF k \in 1..Len(written) THEN metadata[1].offsets[k] ELSE current_offset

\* The batches are behind each other, the first behind the magic, and the metadata
\* says where their columns are.
Recorded ==
  /\ Start(1) = 4
  /\ \A k \in 1..Len(written) :
       /\ Start(k) \in Nat /\ Start(k) >= 4
       /\ Start(k + 1) = Start(k) + StartIn(written[k], Len(schema) + 1)
       /\ \A c \in DOMAIN schema :
            /\ metadata[c].offsets[k] = Start(k) + StartIn(written[k], c)
            /\ metadata[c].sizes[k] = Sizes(written[k])[c]

\* The bytes of the batches bs.
AllBytes(bs) == FlattenSeq([k \in DOMAIN bs |-> BatchBytes(bs[k])])

ChunkTable == [offsets : Seq(Nat), sizes : Seq(Nat)]

\* A file at work is the magic and the batches.
WriterInv ==
  /\ SchemaIs
  /\ writer \in Writer!Place /\ bad \in BOOLEAN
  /\ current_offset \in Nat /\ num_rows \in Nat
  /\ written \in Seq(Batch)
  /\ metadata \in [DOMAIN schema -> ChunkTable]
  /\ \A c \in DOMAIN schema : /\ Len(metadata[c].offsets) = Len(written)
                              /\ Len(metadata[c].sizes) = Len(written)
  /\ writer = "new" => written = <<>> /\ (~bad => disk = <<>>)
  /\ writer # "new" => Recorded /\ current_offset >= 4
  /\ writer = "open" /\ ~bad => disk = Bytes(Magic, 4) \o AllBytes(written)

\* At first nothing is written.
LEMMA WriterBegins ==
  ASSUME NEW s \in Schemas \cup {CsvSchema}, Writer!InitFor(s)
  PROVE  WriterInv
<1>1. /\ schema = s /\ writer = "new" /\ bad = FALSE /\ current_offset = 0 /\ num_rows = 0
      /\ metadata = [c \in DOMAIN s |-> [offsets |-> <<>>, sizes |-> <<>>]]
      /\ written = <<>> /\ disk = <<>>
  BY DEF Writer!InitFor
<1>2. written \in Seq(Batch) /\ Len(written) = 0
  BY <1>1, EmptySeq
<1>3. metadata \in [DOMAIN schema -> ChunkTable]
  BY <1>1, EmptySeq DEF ChunkTable
<1>4. \A c \in DOMAIN schema : metadata[c].offsets = <<>> /\ metadata[c].sizes = <<>>
  BY <1>1
<1> QED
  BY <1>1, <1>2, <1>3, <1>4 DEF WriterInv, SchemaIs, Writer!Place

\* The magic is written.
LEMMA HeaderKeeps ==
  ASSUME WriterInv, Writer!WriteHeader
  PROVE  WriterInv'
<1>1. /\ writer = "new" /\ writer' = "open" /\ current_offset' = 4
      /\ ~bad => disk' = disk \o Bytes(Magic, 4)
      /\ schema' = schema /\ bad' = bad /\ num_rows' = num_rows
      /\ metadata' = metadata /\ written' = written
  BY SameFormat DEF Writer!WriteHeader, Writer!Write, Writer!DataStart
<1>2. written = <<>> /\ Len(written) = 0 /\ (~bad => disk = <<>>)
  BY <1>1, EmptySeq DEF WriterInv
<1>3. Recorded'
  <2>1. \A k : k \notin 1..Len(written')
    BY <1>1, <1>2
  <2> QED
    BY <1>1, <2>1 DEF Recorded, Start
<1>4. ASSUME ~bad
      PROVE  disk' = (Bytes(Magic, 4) \o AllBytes(written))'
  <2>1. AllBytes(written) = <<>>
    <3>1. [k \in DOMAIN written |-> BatchBytes(written[k])] = <<>>
      BY <1>2
    <3> QED
      BY <3>1, FlattenEmpty DEF AllBytes
  <2>2. AllBytes(written)' = AllBytes(written)
    BY <1>1 DEF AllBytes, BatchBytes, Data
  <2>3. PICK m : m = Bytes(Magic, 4)
    OBVIOUS
  <2>4. m \in Seq(Byte)
    BY <2>3, BytesAre
  <2>5. <<>> \o m = m /\ m \o <<>> = m
    BY <2>4, ConcatEmptySeq
  <2> QED
    BY <1>1, <1>2, <1>4, <2>1, <2>2, <2>3, <2>5
<1>5. SchemaIs' /\ Batch' = Batch
  BY <1>1 DEF WriterInv, SchemaIs, Batch
<1> QED
  BY <1>1, <1>2, <1>3, <1>4, <1>5 DEF WriterInv, Writer!Place

\* Nothing is changed but what has reached the disk.
LEMMA LossKeeps ==
  ASSUME WriterInv, writer' \in Writer!Place, writer' = "new" <=> writer = "new",
         bad' \in BOOLEAN, writer' = "finalized" \/ bad',
         UNCHANGED <<schema, current_offset, num_rows, metadata, written>>
  PROVE  WriterInv'
<1>1. SchemaIs' /\ Batch' = Batch
  BY DEF WriterInv, SchemaIs, Batch
<1>2. Recorded' <=> Recorded
  BY DEF Recorded, Start, StartIn, Sizes, Data
<1> QED
  BY <1>1, <1>2 DEF WriterInv

\* What a batch more is recorded as.
LEMMA BatchRecorded ==
  ASSUME WriterInv, NEW b, b \in Batch, Writer!WriteBatch(b)
  PROVE  /\ writer = "open" /\ current_offset' = current_offset + StartIn(b, Len(schema) + 1)
         /\ num_rows' = num_rows + Len(b[1]) /\ written' = Append(written, b)
         /\ ~bad => disk' = disk \o BatchBytes(b)
         /\ schema' = schema /\ writer' = writer /\ bad' = bad
         /\ metadata' = [c \in DOMAIN schema |->
              [offsets |-> Append(metadata[c].offsets, current_offset + StartIn(b, c)),
               sizes   |-> Append(metadata[c].sizes, Sizes(b)[c])]]
<1>1. SchemaIs /\ DOMAIN schema = 1..Len(schema) /\ Len(schema) \in Nat
  BY SchemaHas DEF WriterInv
<1>2. PICK z : z = Sizes(b)
  OBVIOUS
<1>3. \A c \in DOMAIN schema : Writer!EncodedSize(schema[c].type, b[c]) = z[c]
  BY <1>1, <1>2, SameFormat, BatchIs
<1>4. ASSUME NEW c \in 1..(Len(schema) + 1)
      PROVE  Writer!SumFunction([d \in 1..(c - 1) |-> Writer!EncodedSize(schema[d].type, b[d])])
               = StartIn(b, c)
  <2>1. \A d \in 1..(c - 1) : d \in DOMAIN schema
    BY <1>1
  <2>2. [d \in 1..(c - 1) |-> Writer!EncodedSize(schema[d].type, b[d])] = [d \in 1..(c - 1) |-> z[d]]
    BY <1>3, <2>1
  <2>3. Writer!SumFunction([d \in 1..(c - 1) |-> z[d]]) = SumOf(z, 1..(c - 1))
    BY SameFormat
  <2> QED
    BY <1>2, <2>2, <2>3 DEF StartIn
<1>5. \A c \in DOMAIN schema : c \in 1..(Len(schema) + 1)
  BY <1>1
<1>6. Len(schema) + 1 \in 1..(Len(schema) + 1)
  BY <1>1
<1>7. /\ writer = "open" /\ num_rows' = num_rows + Len(b[1]) /\ written' = Append(written, b)
      /\ schema' = schema /\ writer' = writer /\ bad' = bad
  BY DEF Writer!WriteBatch
<1>8. current_offset' = current_offset + StartIn(b, Len(schema) + 1)
  <2>1. current_offset' = current_offset
          + Writer!SumFunction([d \in 1..((Len(schema) + 1) - 1) |->
                                  Writer!EncodedSize(schema[d].type, b[d])])
    BY DEF Writer!WriteBatch
  <2> QED
    BY <1>4, <1>6, <2>1
<1>9. metadata' = [c \in DOMAIN schema |->
              [offsets |-> Append(metadata[c].offsets, current_offset + StartIn(b, c)),
               sizes   |-> Append(metadata[c].sizes, Sizes(b)[c])]]
  <2>1. metadata' = [c \in DOMAIN schema |->
          [offsets |-> Append(metadata[c].offsets, current_offset
             + Writer!SumFunction([d \in 1..(c - 1) |-> Writer!EncodedSize(schema[d].type, b[d])])),
           sizes   |-> Append(metadata[c].sizes, Writer!EncodedSize(schema[c].type, b[c]))]]
    BY DEF Writer!WriteBatch, Writer!WithChunk, Writer!Columns
  <2> QED
    BY <1>2, <1>3, <1>4, <1>5, <2>1
<1>10. ASSUME ~bad
       PROVE  disk' = disk \o BatchBytes(b)
  <2>1. disk' = disk \o Writer!BatchBytes(b)
    BY <1>10 DEF Writer!WriteBatch, Writer!Write
  <2> QED
    BY <2>1, SameBatch
<1> QED
  BY <1>7, <1>8, <1>9, <1>10

\* The bytes of a batch are put behind those of the others.
LEMMA AllBytesAppend ==
  ASSUME SchemaIs, NEW bs, bs \in Seq(Batch), NEW b, b \in Batch
  PROVE  /\ AllBytes(bs) \in Seq(Byte)
         /\ AllBytes(Append(bs, b)) = AllBytes(bs) \o BatchBytes(b)
<1>1. PICK n, as : n = Len(bs) /\ as = Append(bs, b)
  OBVIOUS
<1>2. /\ n \in Nat /\ DOMAIN bs = 1..n /\ \A k \in 1..n : bs[k] \in Batch
      /\ as \in Seq(Batch) /\ Len(as) = n + 1 /\ as[n + 1] = b
      /\ \A k \in 1..n : as[k] = bs[k]
  BY <1>1, LenProperties, ElementOfSeq, AppendProperties
<1>3. DOMAIN as = 1..(n + 1)
  BY <1>2, LenProperties
<1>4. PICK p : p = [k \in 1..n |-> BatchBytes(bs[k])]
  OBVIOUS
<1>5. p \in Seq(Seq(Byte)) /\ Len(p) = n
  <2>1. \A k \in 1..n : BatchBytes(bs[k]) \in Seq(Byte)
    BY <1>2, BatchIs
  <2>2. p \in [1..n -> Seq(Byte)]
    BY <1>4, <2>1
  <2> QED
    BY <1>2, <2>2, IsSequence
<1>6. PICK x, q : x = BatchBytes(b) /\ q = Append(p, x)
  OBVIOUS
<1>7. x \in Seq(Byte)
  BY <1>6, BatchIs
<1>8. /\ q \in Seq(Seq(Byte)) /\ Len(q) = n + 1 /\ q[n + 1] = x
      /\ \A k \in 1..n : q[k] = p[k]
  BY <1>5, <1>6, <1>7, AppendProperties
<1>9. DOMAIN q = 1..(n + 1) /\ q = [k \in DOMAIN q |-> q[k]]
  BY <1>8, LenProperties
<1>10. ASSUME NEW k \in 1..(n + 1)
       PROVE  q[k] = BatchBytes(as[k])
  <2>1. CASE k \in 1..n
    BY <1>2, <1>4, <1>8, <2>1
  <2>2. CASE k = n + 1
    BY <1>2, <1>6, <1>8, <2>2
  <2>3. k \in 1..n \/ k = n + 1
    BY <1>2
  <2> QED
    BY <2>1, <2>2, <2>3
<1>11. q = [k \in DOMAIN as |-> BatchBytes(as[k])]
  BY <1>3, <1>9, <1>10
<1>12. FlattenSeq(q) = FlattenSeq(p) \o x /\ FlattenSeq(p) \in Seq(Byte)
  BY <1>5, <1>6, <1>7, FlattenAppend, FlattenType
<1>13. p = [k \in DOMAIN bs |-> BatchBytes(bs[k])]
  BY <1>2, <1>4
<1> QED
  BY <1>1, <1>6, <1>11, <1>12, <1>13 DEF AllBytes

\* A batch is written.
LEMMA BatchKeeps ==
  ASSUME WriterInv, NEW b, b \in Batch, Writer!WriteBatch(b)
  PROVE  WriterInv'
<1>1. PICK n, K, o, e : /\ n = Len(schema) /\ K = Len(written) /\ o = current_offset
                        /\ e = StartIn(b, n + 1)
  OBVIOUS
<1>2. /\ SchemaIs /\ n \in Nat \ {0} /\ DOMAIN schema = 1..n
      /\ written \in Seq(Batch) /\ K \in Nat /\ o \in Nat /\ o >= 4
      /\ writer = "open" /\ Recorded
  BY <1>1, SchemaHas, LenProperties, BatchRecorded DEF WriterInv
<1>3. /\ current_offset' = o + e /\ num_rows' = num_rows + Len(b[1])
      /\ written' = Append(written, b)
      /\ ~bad => disk' = disk \o BatchBytes(b)
      /\ schema' = schema /\ writer' = writer /\ bad' = bad
      /\ metadata' = [c \in DOMAIN schema |->
           [offsets |-> Append(metadata[c].offsets, o + StartIn(b, c)),
            sizes   |-> Append(metadata[c].sizes, Sizes(b)[c])]]
  BY <1>1, BatchRecorded
<1>4. /\ SchemaIs' /\ Batch' = Batch
      /\ \A x : Sizes(x)' = Sizes(x) /\ \A c : StartIn(x, c)' = StartIn(x, c)
  BY <1>2, <1>3 DEF SchemaIs, Batch, Sizes, StartIn, Data
<1>5. /\ e \in Nat /\ StartIn(b, 1) = 0
      /\ \A c \in 1..n : Sizes(b)[c] \in Nat /\ StartIn(b, c) \in Nat
  <2>1. /\ StartIn(b, 1) = 0 /\ e = Len(BatchBytes(b)) /\ BatchBytes(b) \in Seq(Byte)
        /\ \A c \in 1..n : Sizes(b)[c] \in Nat /\ StartIn(b, c) \in Nat
    BY <1>1, <1>2, BatchIs
  <2> QED
    BY <2>1, LenProperties
<1>6. /\ written' \in Seq(Batch) /\ Len(written') = K + 1 /\ written'[K + 1] = b
      /\ \A k \in 1..K : written'[k] = written[k]
  BY <1>1, <1>2, <1>3, AppendProperties
<1>7. ASSUME NEW c \in 1..n
      PROVE  /\ metadata[c] \in ChunkTable /\ metadata'[c] \in ChunkTable
             /\ Len(metadata'[c].offsets) = K + 1 /\ Len(metadata'[c].sizes) = K + 1
             /\ metadata'[c].offsets[K + 1] = o + StartIn(b, c)
             /\ metadata'[c].sizes[K + 1] = Sizes(b)[c]
             /\ \A k \in 1..K : /\ metadata'[c].offsets[k] = metadata[c].offsets[k]
                                /\ metadata'[c].sizes[k] = metadata[c].sizes[k]
  <2>1. PICK u, v, x, y : /\ u = metadata[c].offsets /\ v = metadata[c].sizes
                          /\ x = o + StartIn(b, c) /\ y = Sizes(b)[c]
    OBVIOUS
  <2>2. metadata[c] \in ChunkTable /\ Len(u) = K /\ Len(v) = K
    BY <1>1, <1>2, <2>1 DEF WriterInv
  <2>3. u \in Seq(Nat) /\ v \in Seq(Nat)
    BY <2>1, <2>2 DEF ChunkTable
  <2>4. x \in Nat /\ y \in Nat
    BY <1>2, <1>5, <2>1
  <2>5. metadata'[c] = [offsets |-> Append(u, x), sizes |-> Append(v, y)]
    BY <1>2, <1>3, <2>1
  <2>6. /\ Append(u, x) \in Seq(Nat) /\ Len(Append(u, x)) = K + 1 /\ Append(u, x)[K + 1] = x
        /\ \A k \in 1..K : Append(u, x)[k] = u[k]
    BY <2>2, <2>3, <2>4, AppendProperties
  <2>7. /\ Append(v, y) \in Seq(Nat) /\ Len(Append(v, y)) = K + 1 /\ Append(v, y)[K + 1] = y
        /\ \A k \in 1..K : Append(v, y)[k] = v[k]
    BY <2>2, <2>3, <2>4, AppendProperties
  <2>8. metadata'[c].offsets = Append(u, x) /\ metadata'[c].sizes = Append(v, y)
    BY <2>5
  <2> QED
    BY <2>1, <2>2, <2>5, <2>6, <2>7, <2>8 DEF ChunkTable
<1>8. metadata' \in [DOMAIN schema -> ChunkTable]
  <2>1. metadata' = [c \in DOMAIN schema |-> metadata'[c]]
    BY <1>3
  <2> QED
    BY <1>2, <1>7, <2>1
<1>9. 1 \in 1..n
  BY <1>2
<1>10. /\ \A k \in 1..K : Start(k)' = Start(k)
       /\ Start(K + 1)' = o /\ Start(K + 1) = o /\ Start(K + 2)' = o + e
  <2>1. \A k \in 1..K : k \in 1..Len(written) /\ k \in 1..Len(written')
    BY <1>1, <1>2, <1>6
  <2>2. /\ K + 1 \notin 1..Len(written) /\ K + 1 \in 1..Len(written')
        /\ K + 2 \notin 1..Len(written')
    BY <1>1, <1>2, <1>6
  <2>3. \A k \in 1..K : Start(k) = metadata[1].offsets[k] /\ Start(k)' = metadata'[1].offsets[k]
    BY <2>1 DEF Start
  <2>4. /\ Start(K + 1) = o /\ Start(K + 1)' = metadata'[1].offsets[K + 1]
        /\ Start(K + 2)' = o + e
    BY <1>1, <1>3, <2>2 DEF Start
  <2>5. metadata'[1].offsets[K + 1] = o
    BY <1>2, <1>5, <1>7, <1>9
  <2> QED
    BY <1>7, <1>9, <2>3, <2>4, <2>5
<1>11. Recorded'
  <2>1. Start(1)' = 4
    <3>1. CASE K = 0
      <4>1. 1 = K + 1
        BY <3>1
      <4> QED
        BY <1>2, <1>10, <4>1 DEF Recorded
    <3>2. CASE K # 0
      <4>1. 1 \in 1..K
        BY <1>2, <3>2
      <4> QED
        BY <1>2, <1>10, <4>1 DEF Recorded
    <3> QED
      BY <3>1, <3>2
  <2>2. ASSUME NEW k \in 1..(K + 1)
        PROVE  /\ Start(k)' \in Nat /\ Start(k)' >= 4
               /\ Start(k + 1)' = Start(k)' + StartIn(written'[k], n + 1)
               /\ \A c \in 1..n :
                    /\ metadata'[c].offsets[k] = Start(k)' + StartIn(written'[k], c)
                    /\ metadata'[c].sizes[k] = Sizes(written'[k])[c]
    <3>1. CASE k = K + 1
      <4>1. k + 1 = K + 2
        BY <1>2, <3>1
      <4> QED
        BY <1>1, <1>2, <1>6, <1>7, <1>10, <3>1, <4>1, SMTT(30)
    <3>2. CASE k \in 1..K
      <4>1. /\ Start(k) \in Nat /\ Start(k) >= 4
            /\ Start(k + 1) = Start(k) + StartIn(written[k], n + 1)
            /\ \A c \in 1..n :
                 /\ metadata[c].offsets[k] = Start(k) + StartIn(written[k], c)
                 /\ metadata[c].sizes[k] = Sizes(written[k])[c]
        BY <1>1, <1>2, <3>2 DEF Recorded
      <4>2. Start(k)' = Start(k) /\ Start(k + 1)' = Start(k + 1)
        <5>1. k + 1 \in 1..K \/ k + 1 = K + 1
          BY <1>2, <3>2
        <5> QED
          BY <1>10, <3>2, <5>1
      <4>3. /\ written'[k] = written[k]
            /\ \A c \in 1..n : /\ metadata'[c].offsets[k] = metadata[c].offsets[k]
                               /\ metadata'[c].sizes[k] = metadata[c].sizes[k]
        BY <1>6, <1>7, <3>2
      <4> QED
        BY <4>1, <4>2, <4>3
    <3>3. k = K + 1 \/ k \in 1..K
      BY <1>2
    <3> QED
      BY <3>1, <3>2, <3>3
  <2>3. Len(schema') = n /\ DOMAIN schema' = 1..n
    BY <1>1, <1>2, <1>3
  <2>4. \A k \in 1..(K + 1) : /\ StartIn(written[k], Len(schema) + 1)' = StartIn(written'[k], n + 1)
                              /\ \A c \in 1..n : /\ StartIn(written[k], c)' = StartIn(written'[k], c)
                                                 /\ Sizes(written[k])' = Sizes(written'[k])
    BY <1>3, <2>3 DEF StartIn, Sizes, Data
  <2> QED
    BY <1>6, <2>1, <2>2, <2>3, <2>4 DEF Recorded
<1>12. ASSUME ~bad
       PROVE  disk' = (Bytes(Magic, 4) \o AllBytes(written))'
  <2>1. PICK m, a, x : m = Bytes(Magic, 4) /\ a = AllBytes(written) /\ x = BatchBytes(b)
    OBVIOUS
  <2>2. AllBytes(written)' = AllBytes(Append(written, b))
    BY <1>3 DEF AllBytes, BatchBytes, Data
  <2>3. a \in Seq(Byte) /\ AllBytes(Append(written, b)) = a \o x
    BY <1>2, <2>1, AllBytesAppend
  <2>4. m \in Seq(Byte) /\ x \in Seq(Byte)
    BY <1>2, <2>1, BytesAre, BatchIs
  <2>5. (m \o a) \o x = m \o (a \o x)
    BY <2>3, <2>4, ConcatAssociative
  <2>6. disk' = (m \o a) \o x
    BY <1>2, <1>3, <1>12, <2>1 DEF WriterInv
  <2> QED
    BY <2>1, <2>2, <2>3, <2>5, <2>6
<1>13. num_rows' \in Nat
  <2>1. PICK r : r = Len(b[1])
    OBVIOUS
  <2>2. b[1] \in Seq(Seq(Byte)) \cup Seq(Held)
    BY <1>2, <1>9 DEF Batch
  <2>3. r \in Nat
    BY <2>1, <2>2, LenProperties
  <2> QED
    BY <1>3, <2>1, <2>3 DEF WriterInv
<1>14. o + e \in Nat /\ o + e >= 4
  BY <1>2, <1>5
<1> QED
  BY <1>2, <1>3, <1>4, <1>6, <1>7, <1>8, <1>11, <1>12, <1>13, <1>14 DEF WriterInv

-----------------------------------------------------------------------------
(* ColumnarFile: the extents. *)

\* Place i of a table of rows of n, row by row.
LEMMA Grid ==
  ASSUME NEW n, n \in Nat \ {0}, NEW K, K \in Nat, NEW i, i \in 1..(K * n),
         NEW k, k = ((i - 1) \div n) + 1, NEW c, c = ((i - 1) % n) + 1
  PROVE  /\ k \in 1..K /\ c \in 1..n /\ i = (k - 1) * n + c
         /\ i = 1 => k = 1 /\ c = 1
         /\ i = K * n => k = K /\ c = n
<1>1. PICK q, r : q = (i - 1) \div n /\ r = (i - 1) % n
  OBVIOUS
<1>2. i \in Int /\ i >= 1 /\ K * n \in Nat /\ i <= K * n
  <2>1. \A x, y \in Nat : x * y \in Nat
    OBVIOUS
  <2>2. K * n \in Nat
    BY <2>1
  <2> QED
    BY <2>2
<1>3. q \in Int /\ r \in 0..(n - 1) /\ i - 1 = n * q + r
  <2>1. i - 1 \in Int
    BY <1>2
  <2> QED
    BY <1>1, <2>1, DivideBy
<1>4. c = r + 1 /\ k = q + 1 /\ c \in 1..n /\ k \in Int
  BY <1>1, <1>3
<1>5. i = (k - 1) * n + c
  BY <1>2, <1>3, <1>4
<1>6. q >= 0
  <2> SUFFICES ASSUME q <= -1 PROVE FALSE
    BY <1>3
  <2>1. n * q <= -n
    BY <1>3
  <2> QED
    BY <1>2, <1>3, <2>1
<1>7. q < K
  <2> SUFFICES ASSUME q >= K PROVE FALSE
    BY <1>3
  <2>1. q - K \in Nat
    BY <1>3
  <2>2. n * (q - K) \in Nat
    BY <2>1
  <2>3. n * q = n * K + n * (q - K)
    BY <1>3
  <2> QED
    BY <1>2, <1>3, <2>2, <2>3
<1>8. ASSUME i = 1
      PROVE  k = 1 /\ c = 1
  <2>1. n * q \in Nat
    BY <1>3, <1>6
  <2>2. r = 0 /\ n * q = 0
    BY <1>3, <1>8, <2>1
  <2>3. q = 0
    <3> SUFFICES ASSUME q >= 1 PROVE FALSE
      BY <1>3, <1>6
    <3>1. n * q >= n
      BY <1>3
    <3> QED
      BY <2>2, <3>1
  <2> QED
    BY <1>4, <2>2, <2>3
<1>9. ASSUME i = K * n
      PROVE  k = K /\ c = n
  <2>1. K * n = n * q + r + 1
    BY <1>3, <1>2, <1>9
  <2>2. n * (K - q) = r + 1
    BY <1>3, <2>1
  <2>3. K - q = 1
    <3> SUFFICES ASSUME K - q >= 2 PROVE FALSE
      BY <1>3, <1>7
    <3>1. n * (K - q) >= n * 2
      BY <1>3
    <3> QED
      BY <1>3, <2>2, <3>1
  <2>4. n = r + 1
    BY <2>2, <2>3
  <2> QED
    BY <1>3, <1>4, <2>3, <2>4
<1> QED
  BY <1>3, <1>4, <1>5, <1>6, <1>7, <1>8, <1>9

\* The place before place i of a table.
LEMMA GridBefore ==
  ASSUME NEW n, n \in Nat \ {0}, NEW K, K \in Nat, NEW i, i \in 2..(K * n),
         NEW k, k = ((i - 1) \div n) + 1, NEW c, c = ((i - 1) % n) + 1,
         NEW l, l = (((i - 1) - 1) \div n) + 1, NEW d, d = (((i - 1) - 1) % n) + 1
  PROVE  \/ c > 1 /\ l = k /\ d = c - 1
         \/ c = 1 /\ k > 1 /\ l = k - 1 /\ d = n
<1>1. PICK j : j = i - 1
  OBVIOUS
<1>2. K * n \in Nat
  <2>1. \A x, y \in Nat : x * y \in Nat
    OBVIOUS
  <2> QED
    BY <2>1
<1>3. i \in 1..(K * n) /\ j \in 1..(K * n)
  BY <1>1, <1>2
<1>4. k \in 1..K /\ c \in 1..n /\ i = (k - 1) * n + c
  BY <1>3, Grid
<1>5. l \in 1..K /\ d \in 1..n /\ j = (l - 1) * n + d
  BY <1>1, <1>3, Grid
<1>6. (k - l) * n = d - c + 1
  BY <1>1, <1>4, <1>5
<1>7. k - l <= 1
  <2> SUFFICES ASSUME k - l >= 2 PROVE FALSE
    BY <1>4, <1>5
  <2>1. (k - l) * n >= 2 * n
    BY <1>4, <1>5
  <2> QED
    BY <1>4, <1>5, <1>6, <2>1
<1>8. k - l >= 0
  <2> SUFFICES ASSUME k - l <= -1 PROVE FALSE
    BY <1>4, <1>5
  <2>1. (k - l) * n <= -n
    BY <1>4, <1>5
  <2> QED
    BY <1>4, <1>5, <1>6, <2>1
<1>9. CASE k - l = 0
  <2>1. k = l
    BY <1>4, <1>5, <1>9
  <2>2. (k - l) * n = 0
    BY <1>9
  <2>3. d = c - 1
    BY <1>4, <1>5, <1>6, <2>2
  <2> QED
    BY <1>4, <1>5, <2>1, <2>3
<1>10. CASE k - l = 1
  <2>1. (k - l) * n = n
    BY <1>10
  <2>2. d - c + 1 = n
    BY <1>6, <2>1
  <2>3. c = 1 /\ d = n
    BY <1>4, <1>5, <2>2
  <2>4. l = k - 1 /\ k > 1
    BY <1>4, <1>5, <1>10
  <2> QED
    BY <2>3, <2>4
<1> QED
  BY <1>4, <1>5, <1>7, <1>8, <1>9, <1>10

\* Where column c of batch k is recorded to be.
From(k, c) == metadata[c].offsets[k]
To(k, c)   == metadata[c].offsets[k] + metadata[c].sizes[k]

\* The columns of a batch are behind each other in it, and it behind the one before.
LEMMA ExtentIs ==
  ASSUME WriterInv, Recorded, NEW k, k \in 1..Len(written)
  PROVE  /\ Start(k) \in Nat /\ written[k] \in Batch
         /\ From(k, 1) = Start(k) /\ To(k, Len(schema)) = Start(k + 1)
         /\ \A c \in DOMAIN schema :
              /\ From(k, c) = Start(k) + StartIn(written[k], c)
              /\ To(k, c) = From(k, c) + Sizes(written[k])[c]
              /\ c > 1 => From(k, c) = To(k, c - 1)
<1>1. PICK n, b, s : n = Len(schema) /\ b = written[k] /\ s = Start(k)
  OBVIOUS
<1>2. SchemaIs /\ b \in Batch /\ n \in Nat \ {0} /\ DOMAIN schema = 1..n
  BY <1>1, SchemaHas, ElementOfSeq DEF WriterInv
<1>3. /\ s \in Nat /\ Start(k + 1) = s + StartIn(b, n + 1)
      /\ \A c \in 1..n : /\ metadata[c].offsets[k] = s + StartIn(b, c)
                         /\ metadata[c].sizes[k] = Sizes(b)[c]
  BY <1>1, <1>2 DEF Recorded
<1>4. /\ StartIn(b, 1) = 0
      /\ \A c \in 1..n : /\ Sizes(b)[c] \in Nat /\ StartIn(b, c) \in Nat
                         /\ StartIn(b, c + 1) = StartIn(b, c) + Sizes(b)[c]
  BY <1>2, BatchIs
<1>5. ASSUME NEW c \in 1..n
      PROVE  /\ From(k, c) = s + StartIn(b, c)
             /\ To(k, c) = From(k, c) + Sizes(b)[c]
             /\ To(k, c) = s + StartIn(b, c + 1)
  <2>1. From(k, c) = s + StartIn(b, c) /\ To(k, c) = From(k, c) + Sizes(b)[c]
    BY <1>3 DEF From, To
  <2>2. PICK x, y, z, w : /\ x = StartIn(b, c) /\ y = Sizes(b)[c] /\ z = StartIn(b, c + 1)
                          /\ w = To(k, c)
    OBVIOUS
  <2>3. w = (s + x) + y /\ z = x + y /\ x \in Nat /\ y \in Nat
    BY <1>4, <2>1, <2>2
  <2>4. w = s + z
    BY ONLY <1>3, <2>3
  <2> QED
    BY <2>1, <2>2, <2>4
<1>6. From(k, 1) = s /\ To(k, n) = Start(k + 1)
  <2>1. 1 \in 1..n /\ n \in 1..n
    BY <1>2
  <2> QED
    BY <1>3, <1>4, <1>5, <2>1
<1>7. ASSUME NEW c \in 1..n, c > 1
      PROVE  From(k, c) = To(k, c - 1)
  <2>1. c - 1 \in 1..n /\ (c - 1) + 1 = c
    BY <1>2, <1>7
  <2> QED
    BY <1>5, <2>1
<1> QED
  BY <1>1, <1>2, <1>3, <1>5, <1>6, <1>7

\* The magic and the batches.
Body == Bytes(Magic, 4) \o AllBytes(written)

\* The bytes recorded for a column are there.
LEMMA DataIs ==
  ASSUME WriterInv, writer # "new"
  PROVE  /\ Body \in Seq(Byte) /\ Len(Body) = current_offset
         /\ \A k \in 1..Len(written) : \A c \in DOMAIN schema :
              /\ SubSeq(Body, From(k, c) + 1, To(k, c)) = Data(written[k], c)
              /\ To(k, c) <= current_offset
<1>1. PICK n, K, m, a : /\ n = Len(schema) /\ K = Len(written)
                        /\ m = Bytes(Magic, 4) /\ a = AllBytes(written)
  OBVIOUS
<1>2. /\ SchemaIs /\ n \in Nat \ {0} /\ DOMAIN schema = 1..n
      /\ written \in Seq(Batch) /\ K \in Nat /\ DOMAIN written = 1..K
      /\ Recorded /\ Body = m \o a /\ current_offset \in Nat /\ current_offset >= 4
  BY <1>1, SchemaHas, LenProperties DEF WriterInv, Body
<1>3. PICK parts : parts = [k \in 1..K |-> BatchBytes(written[k])]
  OBVIOUS
<1>4. ASSUME NEW k \in 1..K
      PROVE  /\ written[k] \in Batch /\ parts[k] = BatchBytes(written[k]) /\ parts[k] \in Seq(Byte)
             /\ Start(k) \in Nat /\ Start(k) >= 4 /\ Len(parts[k]) \in Nat
             /\ Start(k + 1) = Start(k) + Len(parts[k])
  <2>1. written[k] \in Batch
    BY <1>1, <1>2, ElementOfSeq
  <2>2. parts[k] = BatchBytes(written[k])
    BY <1>3
  <2>3. /\ BatchBytes(written[k]) \in Seq(Byte)
        /\ Len(BatchBytes(written[k])) = StartIn(written[k], Len(schema) + 1)
    BY <1>2, <2>1, BatchIs
  <2>4. /\ Start(k) \in Nat /\ Start(k) >= 4
        /\ Start(k + 1) = Start(k) + StartIn(written[k], Len(schema) + 1)
    BY <1>1, <1>2 DEF Recorded
  <2>5. Len(BatchBytes(written[k])) \in Nat
    BY <2>3, LenProperties
  <2> QED
    BY <2>1, <2>2, <2>3, <2>4, <2>5
<1>5. parts \in Seq(Seq(Byte)) /\ Len(parts) = K /\ a = FlattenSeq(parts)
  <2>1. parts \in [1..K -> Seq(Byte)]
    BY <1>3, <1>4
  <2>2. a = FlattenSeq(parts)
    BY <1>1, <1>2, <1>3 DEF AllBytes
  <2> QED
    BY <1>2, <2>1, <2>2, IsSequence
<1>6. PICK P : P = [k \in 0..K |-> Start(k + 1) - 4]
  OBVIOUS
<1>7. \A k \in 1..(K + 1) : Start(k) \in Nat /\ Start(k) >= 4
  <2>1. Start(K + 1) = current_offset
    <3>1. K + 1 \notin 1..Len(written)
      BY <1>1, <1>2
    <3> QED
      BY <3>1 DEF Start
  <2>2. \A k \in 1..(K + 1) : k \in 1..K \/ k = K + 1
    BY <1>2
  <2> QED
    BY <1>2, <1>4, <2>1, <2>2
<1>8. Start(K + 1) = current_offset
  <2>1. K + 1 \notin 1..Len(written)
    BY <1>1, <1>2
  <2> QED
    BY <2>1 DEF Start
<1>9. Ends(P, parts)
  <2>1. P \in [0..K -> Nat]
    <3>1. \A k \in 0..K : Start(k + 1) - 4 \in Nat
      <4>1. \A k \in 0..K : k + 1 \in 1..(K + 1)
        BY <1>2
      <4> QED
        BY <1>7, <4>1
    <3> QED
      BY <1>6, <3>1
  <2>2. P[0] = 0
    <3>1. 0 \in 0..K /\ 0 + 1 = 1 /\ Start(1) = 4
      BY <1>2 DEF Recorded
    <3> QED
      BY <1>6, <3>1
  <2>3. ASSUME NEW k \in 1..K
        PROVE  P[k] = P[k - 1] + Len(parts[k])
    <3>1. k \in 0..K /\ k - 1 \in 0..K /\ (k - 1) + 1 = k
      BY <1>2
    <3>2. P[k] = Start(k + 1) - 4 /\ P[k - 1] = Start(k) - 4
      BY <1>6, <3>1
    <3>3. PICK x, y, z : x = Start(k + 1) /\ y = Start(k) /\ z = Len(parts[k])
      OBVIOUS
    <3>4. x = y + z /\ y \in Nat /\ z \in Nat
      BY <1>4, <3>3
    <3>5. x - 4 = (y - 4) + z
      BY ONLY <3>4
    <3> QED
      BY <3>2, <3>3, <3>5
  <2> QED
    BY <1>5, <2>1, <2>2, <2>3 DEF Ends
<1>10. /\ Len(a) = P[K]
       /\ \A k \in 1..K : \A j \in 1..Len(parts[k]) : a[P[k - 1] + j] = parts[k][j]
       /\ a \in Seq(Byte)
  <2>1. /\ Len(FlattenSeq(parts)) = P[Len(parts)]
        /\ \A i \in 1..Len(parts) : \A j \in 1..Len(parts[i]) :
             FlattenSeq(parts)[P[i - 1] + j] = parts[i][j]
    BY ONLY <1>5, <1>9, FlattenPlaces, SMTT(30)
  <2>2. FlattenSeq(parts) \in Seq(Byte)
    BY ONLY <1>5, FlattenType
  <2> QED
    BY ONLY <1>5, <2>1, <2>2
<1>11. m \in Seq(Byte) /\ Len(m) = 4
  BY <1>1, BytesAre
<1>12. /\ Body \in Seq(Byte) /\ Len(Body) = 4 + Len(a)
       /\ \A i \in 1..(4 + Len(a)) : Body[i] = IF i <= 4 THEN m[i] ELSE a[i - 4]
  <2>1. /\ m \o a \in Seq(Byte) /\ Len(m \o a) = Len(m) + Len(a)
        /\ \A i \in 1..(Len(m) + Len(a)) : (m \o a)[i] = IF i <= Len(m) THEN m[i] ELSE a[i - Len(m)]
    BY <1>10, <1>11, ConcatProperties
  <2>2. PICK d : d = m \o a
    OBVIOUS
  <2>3. /\ d \in Seq(Byte) /\ Len(d) = 4 + Len(a)
        /\ \A i \in 1..(4 + Len(a)) : d[i] = IF i <= 4 THEN m[i] ELSE a[i - 4]
    BY <1>11, <2>1, <2>2
  <2> QED
    BY <1>2, <2>2, <2>3
<1>13. Len(Body) = current_offset
  <2>1. K \in 0..K
    BY <1>2
  <2>2. P[K] = current_offset - 4
    BY <1>6, <1>8, <2>1
  <2> QED
    BY <1>2, <1>10, <1>12, <2>2
<1>14. ASSUME NEW k \in 1..K, NEW c \in 1..n
       PROVE  /\ SubSeq(Body, From(k, c) + 1, To(k, c)) = Data(written[k], c)
              /\ To(k, c) <= current_offset
  <2>1. PICK s, t, z, x : /\ s = Start(k) /\ t = StartIn(written[k], c)
                          /\ z = Sizes(written[k])[c] /\ x = Data(written[k], c)
    OBVIOUS
  <2>2. From(k, c) = s + t /\ To(k, c) = (s + t) + z
    BY <1>1, <1>2, <2>1, ExtentIs
  <2>3. /\ t \in Nat /\ z \in Nat /\ x \in Seq(Byte) /\ Len(x) = z
        /\ t + z <= Len(parts[k])
        /\ \A j \in 1..z : parts[k][t + j] = x[j]
    <3>1. /\ t \in Nat /\ z \in Nat /\ x \in Seq(Byte) /\ Len(x) = z
          /\ StartIn(written[k], c + 1) = t + z
          /\ StartIn(written[k], c + 1) <= StartIn(written[k], Len(schema) + 1)
          /\ Len(BatchBytes(written[k])) = StartIn(written[k], Len(schema) + 1)
          /\ \A j \in 1..z : BatchBytes(written[k])[t + j] = x[j]
      <4>1. SchemaIs /\ written[k] \in Batch /\ c \in DOMAIN schema
        BY <1>2, <1>4
      <4>2. PICK b : b = written[k]
        OBVIOUS
      <4>3. SchemaIs /\ b \in Batch
        BY <4>1, <4>2
      <4>4. /\ Len(BatchBytes(b)) = StartIn(b, Len(schema) + 1)
            /\ Sizes(b)[c] \in Nat /\ Data(b, c) \in Seq(Byte) /\ Len(Data(b, c)) = Sizes(b)[c]
            /\ StartIn(b, c) \in Nat /\ StartIn(b, c + 1) = StartIn(b, c) + Sizes(b)[c]
            /\ StartIn(b, c + 1) <= StartIn(b, Len(schema) + 1)
            /\ \A j \in 1..Sizes(b)[c] : BatchBytes(b)[StartIn(b, c) + j] = Data(b, c)[j]
        BY ONLY <4>1, <4>3, BatchIs
      <4> QED
        BY <2>1, <4>2, <4>4
    <3> QED
      BY <1>4, <3>1
  <2>4. s \in Nat /\ s >= 4 /\ P[k - 1] = s - 4
    <3>1. k - 1 \in 0..K /\ (k - 1) + 1 = k
      BY <1>2
    <3> QED
      BY <1>4, <1>6, <2>1, <3>1
  <2>5. P[k - 1] + Len(parts[k]) <= Len(a)
    <3>1. k \in 0..Len(parts) /\ Len(parts) \in 0..Len(parts) /\ k \in 0..Len(parts)
      BY <1>2, <1>5
    <3>2. P[k] <= P[K]
      BY <1>2, <1>5, <1>9, <3>1, EndsAscend
    <3>3. P[k] = P[k - 1] + Len(parts[k])
      BY <1>5, <1>9 DEF Ends
    <3> QED
      BY <1>10, <3>2, <3>3
  <2>6. PICK l, L : l = Len(parts[k]) /\ L = Len(a)
    OBVIOUS
  <2>7. l \in Nat /\ L \in Nat /\ (s - 4) + l <= L /\ t + z <= l
    BY <1>4, <1>10, <2>3, <2>4, <2>5, <2>6, LenProperties
  <2>8. ASSUME NEW j \in 1..z
        PROVE  Body[(s + t) + j] = x[j]
    <3>1. /\ (s + t) + j \in 1..(4 + L) /\ ~((s + t) + j <= 4)
          /\ ((s + t) + j) - 4 = (s - 4) + (t + j) /\ t + j \in 1..l
      BY <2>3, <2>4, <2>7
    <3>2. Body[(s + t) + j] = a[(s - 4) + (t + j)]
      BY <1>12, <2>6, <3>1
    <3>3. a[(s - 4) + (t + j)] = parts[k][t + j]
      BY <1>10, <2>4, <2>6, <3>1
    <3> QED
      BY <2>3, <3>2, <3>3
  <2>9. PICK f, g : f = s + t /\ g = (s + t) + z
    OBVIOUS
  <2>10. /\ f \in Nat /\ g = f + z
         /\ \A i \in (f + 1)..g : i \in 1..Len(Body)
    BY <1>12, <2>3, <2>4, <2>6, <2>7, <2>9
  <2>11. \A i \in (f + 1)..g : Body[i] \in Byte
    BY <1>12, <2>10, ElementOfSeq
  <2>12. PICK p : p = SubSeq(Body, f + 1, g)
    OBVIOUS
  <2>13. /\ p \in Seq(Byte) /\ Len(p) = z
         /\ \A i \in 1..z : p[i] = Body[f + i]
    <3>1. f + 1 \in Int /\ g \in Int
      BY <2>3, <2>10
    <3>2. /\ p \in Seq(Byte)
          /\ Len(p) = IF f + 1 <= g THEN g - (f + 1) + 1 ELSE 0
          /\ \A i \in 1..(g - (f + 1) + 1) : p[i] = Body[(f + 1) + i - 1]
      BY <2>11, <2>12, <3>1, SubSeqProperties, SMTT(30)
    <3>3. g - (f + 1) + 1 = z /\ (f + 1 > g => z = 0)
      BY <2>3, <2>10
    <3>4. \A i \in 1..z : (f + 1) + i - 1 = f + i
      BY <2>10
    <3> QED
      BY <2>3, <2>10, <3>2, <3>3, <3>4, SMTT(30)
  <2>14. \A i \in 1..z : p[i] = x[i]
    BY <2>8, <2>9, <2>13
  <2>15. p = x
    <3>1. p \in Seq(Byte) /\ x \in Seq(Byte) /\ Len(p) = Len(x) /\ \A i \in 1..Len(p) : p[i] = x[i]
      BY <2>3, <2>13, <2>14
    <3> QED
      BY ONLY <3>1, SeqEqual
  <2>16. (s + t) + z <= 4 + L
    BY ONLY <2>3, <2>4, <2>7
  <2>17. 4 + L = current_offset
    BY <1>12, <1>13, <2>6
  <2> QED
    BY <2>1, <2>2, <2>9, <2>12, <2>15, <2>16, <2>17
<1> QED
  BY <1>1, <1>2, <1>12, <1>13, <1>14

\* The extents tile the data of the file.
LEMMA ExtentsDo == WriterInv => ExtentsTile
<1> SUFFICES ASSUME WriterInv PROVE Writer!ExtentsTile
  BY DEF ExtentsTile
<1> DEFINE n == Len(schema)
           K == Len(written)
           k(i) == ((i - 1) \div n) + 1
           c(i) == ((i - 1) % n) + 1
           Extent(i) == [from |-> metadata[c(i)].offsets[k(i)],
                         to   |-> metadata[c(i)].offsets[k(i)] + metadata[c(i)].sizes[k(i)],
                         data |-> Writer!Encode(schema[c(i)].type, written[k(i)][c(i)])]
<1>1. n = Len(schema) /\ K = Len(written)
  OBVIOUS
<1>2. /\ SchemaIs /\ n \in Nat \ {0} /\ DOMAIN schema = 1..n /\ K \in Nat
      /\ written \in Seq(Batch)
  BY SchemaHas, LenProperties DEF WriterInv
<1>3. Writer!ExtentsTile <=>
         (writer = "open" =>
            /\ \A i \in 1..(K * n) : Extent(i).from = IF i = 1 THEN 4 ELSE Extent(i - 1).to
            /\ current_offset = IF K * n = 0 THEN 4 ELSE Extent(K * n).to
            /\ ~bad => /\ Len(disk) = current_offset
                       /\ \A i \in 1..(K * n) :
                            SubSeq(disk, Extent(i).from + 1, Extent(i).to) = Extent(i).data)
  BY Zenon DEF Writer!ExtentsTile
<1>4. \A i : /\ Extent(i).from = From(k(i), c(i)) /\ Extent(i).to = To(k(i), c(i))
             /\ Extent(i).data = Data(written[k(i)], c(i))
  <2>1. \A i : Writer!Encode(schema[c(i)].type, written[k(i)][c(i)]) = Data(written[k(i)], c(i))
    BY SameFormat DEF Data
  <2> HIDE DEF k, c, n, K
  <2> QED
    BY <2>1 DEF From, To
<1> HIDE DEF n, K, Extent
<1>5. ASSUME NEW i, i \in 1..(K * n)
      PROVE  /\ k(i) \in 1..K /\ c(i) \in 1..n
             /\ i = 1 => k(i) = 1 /\ c(i) = 1
             /\ i = K * n => k(i) = K /\ c(i) = n
  <2>1. PICK x, y : x = k(i) /\ y = c(i)
    OBVIOUS
  <2>2. x = ((i - 1) \div n) + 1 /\ y = ((i - 1) % n) + 1
    BY <2>1
  <2> HIDE DEF k, c
  <2>3. x \in 1..K /\ y \in 1..n /\ (i = 1 => x = 1 /\ y = 1) /\ (i = K * n => x = K /\ y = n)
    BY ONLY <1>2, <1>5, <2>2, Grid
  <2> QED
    BY <2>1, <2>3
<1>6. ASSUME NEW i, i \in 2..(K * n)
      PROVE  \/ c(i) > 1 /\ k(i - 1) = k(i) /\ c(i - 1) = c(i) - 1
             \/ c(i) = 1 /\ k(i) > 1 /\ k(i - 1) = k(i) - 1 /\ c(i - 1) = n
  <2>1. PICK x, y, u, v : x = k(i) /\ y = c(i) /\ u = k(i - 1) /\ v = c(i - 1)
    OBVIOUS
  <2>2. /\ x = ((i - 1) \div n) + 1 /\ y = ((i - 1) % n) + 1
        /\ u = (((i - 1) - 1) \div n) + 1 /\ v = (((i - 1) - 1) % n) + 1
    BY <2>1
  <2> HIDE DEF k, c
  <2>3. \/ y > 1 /\ u = x /\ v = y - 1
        \/ y = 1 /\ x > 1 /\ u = x - 1 /\ v = n
    BY ONLY <1>2, <1>6, <2>2, GridBefore
  <2> QED
    BY <2>1, <2>3
<1>7. K * n \in Nat /\ (K * n = 0 => K = 0)
  <2>1. \A x, y \in Nat : x * y \in Nat
    OBVIOUS
  <2>2. K >= 1 => K * n >= 1
    BY <1>2
  <2> QED
    BY <1>2, <2>1, <2>2
<1> HIDE DEF k, c
<1>8. ASSUME writer = "open", NEW i \in 1..(K * n)
      PROVE  Extent(i).from = IF i = 1 THEN 4 ELSE Extent(i - 1).to
  <2>1. Recorded
    BY <1>8 DEF WriterInv
  <2>2. k(i) \in 1..K /\ c(i) \in 1..n
    BY <1>5
  <2>3. CASE i = 1
    <3>1. k(i) = 1 /\ c(i) = 1 /\ 1 \in 1..K
      BY <1>5, <2>2, <2>3
    <3>2. From(1, 1) = Start(1) /\ Start(1) = 4
      BY <1>1, <2>1, <3>1, ExtentIs DEF Recorded
    <3> QED
      BY <1>4, <2>3, <3>1, <3>2
  <2>4. CASE i # 1
    <3>1. i \in 2..(K * n)
      BY <1>7, <2>4
    <3>2. CASE c(i) > 1 /\ k(i - 1) = k(i) /\ c(i - 1) = c(i) - 1
      <4>1. From(k(i), c(i)) = To(k(i), c(i) - 1)
        BY <1>1, <1>2, <2>1, <2>2, <3>2, ExtentIs
      <4> QED
        BY <1>4, <2>4, <3>2, <4>1
    <3>3. CASE c(i) = 1 /\ k(i) > 1 /\ k(i - 1) = k(i) - 1 /\ c(i - 1) = n
      <4>1. PICK l : l = k(i) - 1
        OBVIOUS
      <4>2. l \in 1..K /\ l + 1 = k(i)
        BY <1>2, <2>2, <3>3, <4>1
      <4>3. To(l, n) = Start(l + 1)
        BY <1>1, <2>1, <4>2, ExtentIs
      <4>4. From(k(i), 1) = Start(k(i))
        BY <1>1, <2>1, <2>2, ExtentIs
      <4> QED
        BY <1>4, <2>4, <3>3, <4>1, <4>2, <4>3, <4>4
    <3> QED
      BY <1>6, <3>1, <3>2, <3>3
  <2> QED
    BY <2>3, <2>4
<1>9. ASSUME writer = "open"
      PROVE  current_offset = IF K * n = 0 THEN 4 ELSE Extent(K * n).to
  <2>1. Recorded
    BY <1>9 DEF WriterInv
  <2>2. Start(K + 1) = current_offset
    <3>1. K + 1 \notin 1..Len(written)
      BY <1>1, <1>2
    <3> QED
      BY <3>1 DEF Start
  <2>3. CASE K * n = 0
    <3>1. K + 1 = 1
      BY <1>7, <2>3
    <3> QED
      BY <2>1, <2>2, <2>3, <3>1 DEF Recorded
  <2>4. CASE K * n # 0
    <3>1. K * n \in 1..(K * n)
      BY <1>7, <2>4
    <3>2. k(K * n) = K /\ c(K * n) = n /\ K \in 1..K
      BY <1>2, <1>5, <3>1
    <3>3. To(K, n) = Start(K + 1)
      BY <1>1, <2>1, <3>2, ExtentIs
    <3> QED
      BY <1>4, <2>2, <2>4, <3>2, <3>3
  <2> QED
    BY <2>3, <2>4
<1>10. ASSUME writer = "open", ~bad
      PROVE  /\ Len(disk) = current_offset
             /\ \A i \in 1..(K * n) :
                  SubSeq(disk, Extent(i).from + 1, Extent(i).to) = Extent(i).data
  <2>1. /\ Len(disk) = current_offset
        /\ \A l \in 1..K : \A d \in 1..n :
             SubSeq(disk, From(l, d) + 1, To(l, d)) = Data(written[l], d)
    <3>1. disk = Body
      BY <1>10 DEF WriterInv, Body
    <3> QED
      BY <1>1, <1>2, <1>10, <3>1, DataIs
  <2> QED
    BY <1>4, <1>5, <2>1
<1> QED
  BY <1>8, <1>9, <1>10, <1>3

-----------------------------------------------------------------------------
(* Conversion. *)

\* A conversion writes the schema of its CSV file; both components are as they
\* should be.
ConversionInv ==
  /\ converting \in BOOLEAN
  /\ converting => schema = CsvSchema
  /\ ConvertInv
  /\ WriterInv

\* A cell's value is a text or one that other columns hold.
LEMMA ValuesAre ==
  ASSUME file \in Files, NEW cell, cell \in Cell
  PROVE  TextOf(cell) \in Seq(Byte) /\ NumberIn(cell) \in Held
<1>1. CASE cell \in (DOMAIN file) \X Columns
  <2>1. PICK i \in DOMAIN file, j \in 1..Width : cell = <<i, j>>
    BY <1>1, WidthIs
  <2>2. PICK q : q \in (DOMAIN file) \X (1..Width) /\ q = <<i, j>>
    OBVIOUS
  <2>3. TextOf(cell) = FieldIn(file, q[1], q[2])
    BY <1>1, <2>1, <2>2 DEF TextOf, FieldIn
  <2>4. TextOf(cell) \in FieldsOf(file)
    BY <2>2, <2>3 DEF FieldsOf
  <2>5. TextOf(cell) \in Fields
    BY <2>4 DEF Fields
  <2> QED
    BY <2>5, TextsAre DEF Held
<1>2. CASE cell \notin (DOMAIN file) \X Columns
  BY <1>2, EmptySeq DEF TextOf, Held
<1> QED
  BY <1>1, <1>2

\* What the builder of a column makes of cells is a column of its type.
LEMMA BuiltIs ==
  ASSUME file \in Files, NEW c, NEW cells, cells \in Seq(Cell)
  PROVE  /\ IsColumn(schema[c].type, ColumnOf(c, cells)) /\ Len(ColumnOf(c, cells)) = Len(cells)
         /\ ColumnOf(c, cells) \in Seq(Seq(Byte)) \cup Seq(Held)
         /\ \A i \in 1..Len(cells) : ColumnOf(c, cells)[i] = ValueOf(c, cells[i])
<1>1. PICK n, col, V : /\ n = Len(cells) /\ col = ColumnOf(c, cells)
                       /\ V = IF schema[c].type = StringType THEN Seq(Byte) ELSE Held
  OBVIOUS
<1>2. n \in Nat /\ DOMAIN cells = 1..n /\ \A i \in 1..n : cells[i] \in Cell
  BY <1>1, LenProperties, ElementOfSeq
<1>3. \A i \in 1..n : ValueOf(c, cells[i]) \in V
  BY <1>1, <1>2, ValuesAre DEF ValueOf
<1>4. col = [i \in 1..n |-> ValueOf(c, cells[i])]
  BY <1>1, <1>2 DEF ColumnOf
<1>5. col \in [1..n -> V]
  BY <1>3, <1>4
<1>6. col \in Seq(V) /\ Len(col) = n
  BY <1>2, <1>5, IsSequence
<1>7. \A i \in 1..n : col[i] = ValueOf(c, cells[i])
  BY <1>4
<1> QED
  BY <1>1, <1>6, <1>7 DEF IsColumn

\* The builders' cells make a batch.
LEMMA FlushedIs ==
  ASSUME file \in Files, schema = CsvSchema, NEW x, x \in [Columns -> Seq(Cell)]
  PROVE  [c \in Columns |-> ColumnOf(c, x[c])] \in Batch
<1>1. DOMAIN schema = Columns
  <2>1. DOMAIN CsvSchema = 1..Len(CsvSchema)
    BY SchemaHas DEF SchemaIs
  <2> QED
    BY <2>1, WidthIs, ConversionAssumption
<1>2. \A c \in Columns : /\ IsColumn(schema[c].type, ColumnOf(c, x[c]))
                         /\ ColumnOf(c, x[c]) \in Seq(Seq(Byte)) \cup Seq(Held)
  BY BuiltIs
<1> QED
  BY <1>1, <1>2 DEF Batch

\* So do the values a user may give.
LEMMA GivenIs ==
  ASSUME SchemaIs, NEW n, n \in Nat, NEW b, b \in Writer!Batches(n)
  PROVE  b \in Batch
<1>1. DOMAIN schema = 1..Len(schema)
  BY SchemaHas
<1>2. /\ b \in [DOMAIN schema -> [1..n -> Texts \cup Numbers]]
      /\ \A c \in DOMAIN schema : \A i \in 1..n :
           b[c][i] \in IF schema[c].type = StringType THEN Texts ELSE Numbers
  BY DEF Writer!Batches, Writer!Columns, Writer!Cells, Writer!StringType, StringType
<1>3. ASSUME NEW c \in DOMAIN schema
      PROVE  /\ schema[c].type = StringType => b[c] \in Seq(Seq(Byte))
             /\ schema[c].type # StringType => b[c] \in Seq(Held)
  <2>1. PICK col : col = b[c]
    OBVIOUS
  <2>2. col \in [1..n -> Texts \cup Numbers]
    BY <1>2, <2>1
  <2>3. CASE schema[c].type = StringType
    <3>1. \A i \in 1..n : col[i] \in Seq(Byte)
      BY <1>2, <2>1, <2>3, TextsAre
    <3>2. col \in [1..n -> Seq(Byte)]
      BY <2>2, <3>1
    <3> QED
      BY <2>1, <2>3, <3>2, IsSequence
  <2>4. CASE schema[c].type # StringType
    <3>1. \A i \in 1..n : col[i] \in Held
      BY <1>2, <2>1, <2>4 DEF Held
    <3>2. col \in [1..n -> Held]
      BY <2>2, <3>1
    <3> QED
      BY <2>1, <2>4, <3>2, IsSequence
  <2> QED
    BY <2>3, <2>4
<1>4. \A c \in DOMAIN schema : /\ IsColumn(schema[c].type, b[c])
                               /\ b[c] \in Seq(Seq(Byte)) \cup Seq(Held)
  BY <1>3 DEF IsColumn
<1> QED
  BY <1>2, <1>4 DEF Batch

\* A step that is none of the writer's.
LEMMA WriterStays == WriterInv /\ UNCHANGED writerVars => WriterInv'
<1> SUFFICES ASSUME WriterInv, UNCHANGED writerVars PROVE WriterInv'
  OBVIOUS
<1>1. UNCHANGED <<schema, writer, disk, bad, current_offset, num_rows, metadata, written>>
  BY DEF writerVars
<1>2. SchemaIs' /\ Batch' = Batch
  BY <1>1 DEF WriterInv, SchemaIs, Batch
<1>3. Recorded' <=> Recorded
  BY <1>1 DEF Recorded, Start, StartIn, Sizes, Data
<1>4. AllBytes(written)' = AllBytes(written)
  BY <1>1 DEF AllBytes, BatchBytes, Data
<1> QED
  BY <1>1, <1>2, <1>3, <1>4 DEF WriterInv

\* A conversion begins so.
LEMMA ConversionBegins == ConversionInit => ConversionInv
<1> SUFFICES ASSUME ConversionInit PROVE ConversionInv
  OBVIOUS
<1>1. converting \in BOOLEAN /\ ConvertInv
  BY ConvertBegins DEF ConversionInit
<1>2. CASE converting
  <2>1. Writer!InitFor(CsvSchema) /\ CsvSchema \in Schemas \cup {CsvSchema}
    BY <1>2 DEF ConversionInit
  <2>2. WriterInv
    BY ONLY <2>1, WriterBegins
  <2> QED
    BY <1>1, <2>1, <2>2 DEF ConversionInv, Writer!InitFor
<1>3. CASE ~converting
  <2>1. PICK s \in Schemas : Writer!InitFor(s)
    BY <1>3 DEF ConversionInit, Writer!Init
  <2>2. WriterInv
    BY <2>1, WriterBegins
  <2> QED
    BY <1>1, <1>3, <2>2 DEF ConversionInv
<1> QED
  BY <1>1, <1>2, <1>3

\* Every step keeps it so.
LEMMA ConversionKeeps == ConversionInv /\ [ConversionNext]_allVars => ConversionInv'
<1> SUFFICES ASSUME ConversionInv, [ConversionNext]_allVars PROVE ConversionInv'
  OBVIOUS
<1>1. converting \in BOOLEAN /\ (converting => schema = CsvSchema) /\ ConvertInv /\ WriterInv
  BY DEF ConversionInv
<1>2. ASSUME UNCHANGED vars
      PROVE  ConvertInv'
  BY <1>1, <1>2, ConvertKeeps
<1>3. ASSUME Writer!Finalize
      PROVE  WriterInv' /\ schema' = schema
  <2>1. /\ writer = "open" /\ writer' = "finalized" /\ bad' = bad
        /\ UNCHANGED <<schema, current_offset, num_rows, metadata, written>>
    BY <1>3 DEF Writer!Finalize
  <2>2. bad \in BOOLEAN
    BY <1>1 DEF WriterInv
  <2> QED
    BY <1>1, <2>1, <2>2, LossKeeps DEF Writer!Place
<1>4. ASSUME Writer!LoseTail
      PROVE  WriterInv' /\ schema' = schema
  <2>1. bad' = TRUE /\ UNCHANGED <<schema, writer, current_offset, num_rows, metadata, written>>
    BY <1>4 DEF Writer!LoseTail
  <2>2. writer \in Writer!Place
    BY <1>1 DEF WriterInv
  <2> QED
    BY <1>1, <2>1, <2>2, LossKeeps
<1>5. ASSUME Writer!WriteHeader
      PROVE  WriterInv' /\ schema' = schema
  BY <1>1, <1>5, HeaderKeeps DEF Writer!WriteHeader
<1>6. CASE BeginConversion
  BY <1>1, <1>2, <1>5, <1>6 DEF BeginConversion, ConversionInv
<1>7. CASE ConversionStep
  <2>1. Next /\ converting' = converting /\ converting
    BY <1>7 DEF ConversionStep
  <2>2. /\ ConvertInv'
        /\ chunks' = chunks \/ \E x \in [Columns -> Seq(Cell)] : chunks' = Append(chunks, x)
    BY <1>1, <2>1, ConvertKeeps
  <2>3. CASE chunks' = chunks
    <3>1. UNCHANGED writerVars
      BY <1>7, <2>3 DEF ConversionStep
    <3>2. WriterInv' /\ schema' = schema
      BY <1>1, <3>1, WriterStays DEF writerVars
    <3> QED
      BY <1>1, <2>1, <2>2, <3>2 DEF ConversionInv
  <2>4. CASE chunks' # chunks
    <3>1. PICK x \in [Columns -> Seq(Cell)] : chunks' = Append(chunks, x)
      BY <2>2, <2>4
    <3>2. Last(chunks') = x
      <4>1. chunks \in Seq([Columns -> Seq(Cell)])
        BY <1>1 DEF ConvertInv, Holding
      <4>2. Len(chunks') = Len(chunks) + 1 /\ chunks'[Len(chunks) + 1] = x
        BY <3>1, <4>1, AppendProperties
      <4> QED
        BY <4>2 DEF Last
    <3>3. PICK b : b = [c \in Columns |-> ColumnOf(c, x[c])]
      OBVIOUS
    <3>4. Writer!WriteBatch(b)
      <4>1. Writer!WriteBatch([c \in Columns |-> ColumnOf(c, Last(chunks')[c])])
        BY <1>7, <2>4 DEF ConversionStep
      <4> QED
        BY <3>2, <3>3, <4>1
    <3>5. b \in Batch
      BY <1>1, <2>1, <3>3, FlushedIs DEF ConvertInv, RowsInv
    <3>6. WriterInv' /\ schema' = schema
      BY <1>1, <3>4, <3>5, BatchKeeps, BatchRecorded
    <3> QED
      BY <1>1, <2>1, <2>2, <3>6 DEF ConversionInv
  <2> QED
    BY <2>3, <2>4
<1>8. CASE FinishConversion
  BY <1>1, <1>2, <1>3, <1>8 DEF FinishConversion, ConversionInv
<1>9. CASE TailLost
  BY <1>1, <1>2, <1>4, <1>9 DEF TailLost, ConversionInv
<1>10. CASE WriterAlone
  <2>1. ~converting /\ Writer!Next /\ UNCHANGED <<vars, converting>>
    BY <1>10 DEF WriterAlone
  <2>2. CASE Writer!SomeBatch
    <3>1. PICK n \in 0..(MaxRows - num_rows) : \E b \in Writer!Batches(n) : Writer!WriteBatch(b)
      BY <2>2 DEF Writer!SomeBatch
    <3>2. PICK b \in Writer!Batches(n) : Writer!WriteBatch(b)
      BY <3>1
    <3>3. n \in Nat /\ SchemaIs
      BY <1>1, ConversionAssumption DEF WriterInv
    <3>4. b \in Batch
      BY <3>3, GivenIs
    <3>5. WriterInv'
      BY <1>1, <3>2, <3>4, BatchKeeps
    <3> QED
      BY <1>1, <1>2, <2>1, <3>5 DEF ConversionInv
  <2>3. CASE Writer!Over
    <3>1. UNCHANGED writerVars
      BY <2>3 DEF Writer!Over, Writer!vars, writerVars
    <3> QED
      BY <1>1, <1>2, <2>1, <3>1, WriterStays DEF ConversionInv
  <2>4. CASE Writer!WriteHeader \/ Writer!Finalize \/ Writer!LoseTail
    BY <1>1, <1>2, <1>3, <1>4, <1>5, <2>1, <2>4 DEF ConversionInv
  <2> QED
    BY <2>1, <2>2, <2>3, <2>4 DEF Writer!Next
<1>11. CASE UNCHANGED allVars
  <2>1. UNCHANGED vars /\ UNCHANGED writerVars /\ converting' = converting
    BY <1>11 DEF allVars
  <2>2. schema' = schema
    BY <2>1 DEF writerVars
  <2> QED
    BY <1>1, <1>2, <2>1, <2>2, WriterStays DEF ConversionInv
<1> QED
  BY <1>6, <1>7, <1>8, <1>9, <1>10, <1>11 DEF ConversionNext, ConversionOver

\* The types of both components.
LEMMA ConversionTyped == ConversionInv => ConversionTypeOK
<1> SUFFICES ASSUME ConversionInv PROVE ConversionTypeOK
  OBVIOUS
<1>1. TypeOK /\ WriterInv
  BY ConvertTyped DEF ConversionInv
<1>2. \A c \in DOMAIN schema : \A f \in {"offsets", "sizes"} :
        metadata[c][f] \in Seq(Nat) /\ Len(metadata[c][f]) = Len(written)
  <2> SUFFICES ASSUME NEW c \in DOMAIN schema
               PROVE  /\ metadata[c].offsets \in Seq(Nat) /\ metadata[c].sizes \in Seq(Nat)
                      /\ Len(metadata[c].offsets) = Len(written)
                      /\ Len(metadata[c].sizes) = Len(written)
    OBVIOUS
  <2>1. metadata[c] \in ChunkTable
    BY <1>1 DEF WriterInv
  <2> QED
    BY <1>1, <2>1 DEF WriterInv, ChunkTable
<1>3. Writer!TypeOK
  BY <1>1, <1>2 DEF WriterInv, Writer!TypeOK, Writer!Columns
<1> QED
  BY <1>1, <1>3 DEF ConversionTypeOK

-----------------------------------------------------------------------------
(* ColumnarFile: the footer. *)

\* The chunks of a column, its entry, and the entries of all columns.
ChunkBytes(meta)    == FlattenSeq([k \in DOMAIN meta.offsets |->
                         Bytes(meta.offsets[k], 8) \o Bytes(meta.sizes[k], 8)])
EntryBytes(meta, s) == Bytes(Len(s.name), 4) \o s.name \o Bytes(s.type, 1)
                         \o Bytes(Len(meta.offsets), 4) \o ChunkBytes(meta)
Entries == FlattenSeq([c \in DOMAIN metadata |-> EntryBytes(metadata[c], schema[c])])

\* The metadata are their number and they, the rows, and where they start.
Table == Bytes(Len(metadata), 4) \o Entries \o Bytes(num_rows, 8) \o Bytes(current_offset, 8)

\* They are what the writer puts behind the data, and the magic behind them.
LEMMA FooterIs ==
  /\ Writer!MetadataBytes(metadata, schema, current_offset, num_rows) = Table
  /\ Writer!Footer(metadata, schema, current_offset, num_rows) = Table \o Bytes(Magic, 4)
<1>1. \A s : Writer!FlattenSeq(s) = FlattenSeq(s)
  BY DEF Writer!FlattenSeq, FlattenSeq
<1>2. \A v, n : Writer!Bytes(v, n) = Bytes(v, n)
  BY DEF Writer!Bytes, Bytes
<1>3. Writer!MetadataBytes(metadata, schema, current_offset, num_rows) = Table
  BY <1>1, <1>2, Zenon DEF Writer!MetadataBytes, Table, Entries, EntryBytes, ChunkBytes
<1> QED
  BY <1>2, <1>3 DEF Writer!Footer

\* The sequence u is s, which is m long, and t, which is n long.
IsJoin(u, s, m, t, n) ==
  /\ u \in Seq(Byte) /\ Len(u) = m + n
  /\ \A i \in 1..m : u[i] = s[i]
  /\ \A i \in 1..n : u[m + i] = t[i]

\* What puts them together makes it so.
LEMMA JoinIs ==
  ASSUME NEW s, s \in Seq(Byte), NEW m, m = Len(s), NEW t, t \in Seq(Byte), NEW n, n = Len(t),
         NEW u, u = s \o t
  PROVE  IsJoin(u, s, m, t, n)
<1>1. /\ m \in Nat /\ n \in Nat /\ u \in Seq(Byte) /\ Len(u) = m + n
      /\ \A i \in 1..(m + n) : u[i] = IF i <= m THEN s[i] ELSE t[i - m]
  BY ConcatProperties, LenProperties
<1>2. \A i \in 1..m : u[i] = s[i]
  BY <1>1
<1>3. ASSUME NEW i \in 1..n
      PROVE  u[m + i] = t[i]
  <2>1. m + i \in 1..(m + n) /\ ~(m + i <= m) /\ (m + i) - m = i
    BY <1>1
  <2> QED
    BY <1>1, <2>1
<1> QED
  BY <1>1, <1>2, <1>3 DEF IsJoin

\* The chunks of a column take 16 bytes each.
LEMMA ChunkBytesAre ==
  ASSUME NEW meta \in ChunkTable, Len(meta.offsets) = Len(meta.sizes)
  PROVE  /\ ChunkBytes(meta) \in Seq(Byte)
         /\ Len(ChunkBytes(meta)) = 16 * Len(meta.offsets)
         /\ \A k \in 1..Len(meta.offsets) : \A i \in 1..8 :
              /\ ChunkBytes(meta)[16 * (k - 1) + i] = <<meta.offsets[k], i>>
              /\ ChunkBytes(meta)[16 * (k - 1) + 8 + i] = <<meta.sizes[k], i>>
<1>1. PICK n, os, ss : n = Len(os) /\ os = meta.offsets /\ ss = meta.sizes
  OBVIOUS
<1>2. /\ n \in Nat /\ DOMAIN os = 1..n
      /\ \A k \in 1..n : os[k] \in Nat /\ ss[k] \in Nat
  BY <1>1, LenProperties, ElementOfSeq DEF ChunkTable
<1>3. PICK parts : parts = [k \in 1..n |-> Bytes(os[k], 8) \o Bytes(ss[k], 8)]
  OBVIOUS
<1>4. ASSUME NEW k \in 1..n
      PROVE  /\ parts[k] \in Seq(Byte) /\ Len(parts[k]) = 16
             /\ \A i \in 1..8 : parts[k][i] = <<os[k], i>> /\ parts[k][8 + i] = <<ss[k], i>>
  <2>1. PICK x, y, p : x = Bytes(os[k], 8) /\ y = Bytes(ss[k], 8) /\ p = x \o y
    OBVIOUS
  <2>2. x \in Seq(Byte) /\ Len(x) = 8 /\ y \in Seq(Byte) /\ Len(y) = 8
    <3>1. os[k] \in Nat /\ ss[k] \in Nat
      BY <1>2
    <3> QED
      BY <2>1, <3>1, BytesAre
  <2>3. p \in Seq(Byte) /\ Len(p) = 8 + 8
    <3>1. IsJoin(p, x, 8, y, 8)
      BY ONLY <2>1, <2>2, JoinIs
    <3> QED
      BY <3>1 DEF IsJoin
  <2>4. \A i \in 1..8 : p[i] = x[i] /\ p[8 + i] = y[i]
    <3>1. IsJoin(p, x, 8, y, 8)
      BY ONLY <2>1, <2>2, JoinIs
    <3> QED
      BY <3>1 DEF IsJoin
  <2>5. \A i \in 1..8 : x[i] = <<os[k], i>> /\ y[i] = <<ss[k], i>>
    BY <2>1 DEF Bytes
  <2>7. parts[k] = p
    BY <1>3, <2>1
  <2> QED
    <3>1. Len(p) = 16
      BY <2>3
    <3> QED
      BY <2>3, <2>4, <2>5, <2>7, <3>1, Zenon
<1>5. parts \in Seq(Seq(Byte)) /\ Len(parts) = n
  <2>1. parts \in [1..n -> Seq(Byte)]
    BY <1>3, <1>4
  <2> QED
    BY <1>2, <2>1, IsSequence
<1>6. ChunkBytes(meta) = FlattenSeq(parts)
  BY <1>1, <1>2, <1>3 DEF ChunkBytes
<1>7. PICK P : P = [k \in 0..n |-> 16 * k]
  OBVIOUS
<1>8. Ends(P, parts)
  <2>1. P \in [0..n -> Nat] /\ P[0] = 0
    BY <1>2, <1>7
  <2>2. ASSUME NEW k \in 1..n
        PROVE  P[k] = P[k - 1] + Len(parts[k])
    <3>1. k \in 0..n /\ k - 1 \in 0..n
      BY <1>2
    <3>2. P[k] = 16 * k /\ P[k - 1] = 16 * (k - 1)
      BY <1>7, <3>1
    <3>3. Len(parts[k]) = 16
      BY <1>4
    <3>4. 16 * k = 16 * (k - 1) + 16
      BY <1>2
    <3> QED
      BY ONLY <3>2, <3>3, <3>4
  <2> QED
    BY <1>5, <2>1, <2>2 DEF Ends
<1>9. PICK w : w = FlattenSeq(parts)
  OBVIOUS
<1>10. /\ w \in Seq(Byte) /\ Len(w) = P[n]
       /\ \A k \in 1..n : \A i \in 1..Len(parts[k]) : w[P[k - 1] + i] = parts[k][i]
  <2>1. /\ FlattenSeq(parts) \in Seq(Byte) /\ Len(FlattenSeq(parts)) = P[Len(parts)]
        /\ \A k \in 1..Len(parts) : \A i \in 1..Len(parts[k]) :
             FlattenSeq(parts)[P[k - 1] + i] = parts[k][i]
    <3>1. FlattenSeq(parts) \in Seq(Byte)
      BY ONLY <1>5, FlattenType
    <3>2. /\ Len(FlattenSeq(parts)) = P[Len(parts)]
          /\ \A k \in 1..Len(parts) : \A i \in 1..Len(parts[k]) :
               FlattenSeq(parts)[P[k - 1] + i] = parts[k][i]
      <4>1. parts \in Seq(Seq(Byte)) /\ Ends(P, parts)
        BY <1>5, <1>8
      <4> QED
        BY ONLY <4>1, FlattenPlaces, SMTT(30)
    <3> QED
      BY <3>1, <3>2
  <2> QED
    BY ONLY <1>5, <1>9, <2>1
<1>11. P[n] = 16 * n
  BY <1>2, <1>7
<1>12. ASSUME NEW k \in 1..n, NEW i \in 1..8
       PROVE  w[16 * (k - 1) + i] = <<os[k], i>> /\ w[16 * (k - 1) + 8 + i] = <<ss[k], i>>
  <2>1. P[k - 1] = 16 * (k - 1)
    BY <1>2, <1>7
  <2>2. i \in 1..16 /\ 8 + i \in 1..16 /\ 16 * (k - 1) + 8 + i = 16 * (k - 1) + (8 + i)
    OBVIOUS
  <2>3. w[P[k - 1] + i] = parts[k][i] /\ w[P[k - 1] + (8 + i)] = parts[k][8 + i]
    BY <1>4, <1>10, <2>2
  <2> QED
    BY <1>4, <2>1, <2>2, <2>3
<1> QED
  <2>1. ChunkBytes(meta) = w /\ w \in Seq(Byte) /\ Len(w) = 16 * Len(meta.offsets)
    BY <1>1, <1>6, <1>9, <1>10, <1>11
  <2>2. \A k \in 1..Len(meta.offsets) : \A i \in 1..8 :
          /\ w[16 * (k - 1) + i] = <<meta.offsets[k], i>>
          /\ w[16 * (k - 1) + 8 + i] = <<meta.sizes[k], i>>
    BY <1>1, <1>12, Zenon
  <2> QED
    BY <2>1, <2>2, Zenon

\* The sequence e is the entry of a column: the lengths n and K, and what they are of.
IsEntry(e, meta, s, n, K) ==
  /\ e \in Seq(Byte) /\ n \in Nat /\ K \in Nat /\ Len(e) = n + 9 + 16 * K
  /\ \A i \in 1..4 : e[i] = <<n, i>> /\ e[n + 5 + i] = <<K, i>>
  /\ \A i \in 1..n : e[4 + i] = s.name[i]
  /\ e[n + 5] = <<s.type, 1>>
  /\ \A i \in 1..(16 * K) : e[n + 9 + i] = ChunkBytes(meta)[i]

\* The bytes written for a column are its entry.
LEMMA EntryIs ==
  ASSUME NEW meta \in ChunkTable, Len(meta.offsets) = Len(meta.sizes),
         NEW s, s.type \in ColumnType, s.name \in Seq(Byte)
  PROVE  IsEntry(EntryBytes(meta, s), meta, s, Len(s.name), Len(meta.offsets))
<1>0. PICK e, n, K : e = EntryBytes(meta, s) /\ n = Len(s.name) /\ K = Len(meta.offsets)
  OBVIOUS
<1>1. PICK a, b, c, d, f : /\ a = Bytes(n, 4) /\ b = s.name /\ c = Bytes(s.type, 1)
                           /\ d = Bytes(K, 4) /\ f = ChunkBytes(meta)
  OBVIOUS
<1>2. n \in Nat /\ K \in Nat /\ s.type \in Nat
  BY <1>0, LenProperties DEF ChunkTable, ColumnType
<1>3. /\ a \in Seq(Byte) /\ Len(a) = 4
      /\ c \in Seq(Byte) /\ Len(c) = 1
      /\ d \in Seq(Byte) /\ Len(d) = 4
  BY <1>1, <1>2, BytesAre
<1>4. f \in Seq(Byte) /\ Len(f) = 16 * K
  BY <1>0, <1>1, ChunkBytesAre
<1>5. b \in Seq(Byte) /\ Len(b) = n
  BY <1>0, <1>1
<1>6. PICK p, q, r : p = a \o b /\ q = p \o c /\ r = q \o d
  OBVIOUS
<1>7. e = r \o f
  BY <1>0, <1>1, <1>6 DEF EntryBytes
<1>8. /\ p \in Seq(Byte) /\ Len(p) = 4 + n
      /\ \A i \in 1..4 : p[i] = a[i]
      /\ \A i \in 1..n : p[4 + i] = b[i]
  <2>1. a \in Seq(Byte) /\ 4 = Len(a) /\ b \in Seq(Byte) /\ n = Len(b)
        /\ p = a \o b
    BY <1>3, <1>5, <1>6
  <2>2. IsJoin(p, a, 4, b, n)
    BY ONLY <2>1, JoinIs
  <2> QED
    BY <2>2 DEF IsJoin
<1>9. /\ q \in Seq(Byte) /\ Len(q) = (4 + n) + 1
      /\ \A i \in 1..(4 + n) : q[i] = p[i]
      /\ \A i \in 1..1 : q[(4 + n) + i] = c[i]
  <2>1. p \in Seq(Byte) /\ 4 + n = Len(p) /\ c \in Seq(Byte) /\ 1 = Len(c)
        /\ q = p \o c
    BY <1>3, <1>6, <1>8
  <2>2. IsJoin(q, p, 4 + n, c, 1)
    BY ONLY <2>1, JoinIs
  <2> QED
    BY <2>2 DEF IsJoin
<1>10. /\ r \in Seq(Byte) /\ Len(r) = ((4 + n) + 1) + 4
       /\ \A i \in 1..((4 + n) + 1) : r[i] = q[i]
       /\ \A i \in 1..4 : r[((4 + n) + 1) + i] = d[i]
  <2>1. q \in Seq(Byte) /\ (4 + n) + 1 = Len(q) /\ d \in Seq(Byte) /\ 4 = Len(d)
        /\ r = q \o d
    BY <1>3, <1>6, <1>9
  <2>2. IsJoin(r, q, (4 + n) + 1, d, 4)
    BY ONLY <2>1, JoinIs
  <2> QED
    BY <2>2 DEF IsJoin
<1>11. /\ e \in Seq(Byte) /\ Len(e) = (((4 + n) + 1) + 4) + 16 * K
       /\ \A i \in 1..(((4 + n) + 1) + 4) : e[i] = r[i]
       /\ \A i \in 1..(16 * K) : e[(((4 + n) + 1) + 4) + i] = f[i]
  <2>1. r \in Seq(Byte) /\ ((4 + n) + 1) + 4 = Len(r) /\ f \in Seq(Byte) /\ 16 * K = Len(f)
        /\ e = r \o f
    BY <1>4, <1>7, <1>10
  <2>2. IsJoin(e, r, ((4 + n) + 1) + 4, f, 16 * K)
    BY ONLY <2>1, JoinIs
  <2> QED
    BY <2>2 DEF IsJoin
<1>12. \A i \in 1..4 : /\ i \in 1..(4 + n) /\ i \in 1..((4 + n) + 1) /\ i \in 1..(((4 + n) + 1) + 4)
                       /\ ((4 + n) + 1) + i \in 1..(((4 + n) + 1) + 4)
                       /\ ((4 + n) + 1) + i = n + 5 + i
  BY <1>2
<1>13. \A i \in 1..n : /\ 4 + i \in 1..(4 + n) /\ 4 + i \in 1..((4 + n) + 1)
                       /\ 4 + i \in 1..(((4 + n) + 1) + 4)
  BY <1>2
<1>14. /\ 1 \in 1..1 /\ (4 + n) + 1 = n + 5 /\ (4 + n) + 1 \in 1..((4 + n) + 1)
       /\ (4 + n) + 1 \in 1..(((4 + n) + 1) + 4)
       /\ ((4 + n) + 1) + 4 = n + 9
  BY <1>2
<1>15. \A i \in 1..4 : a[i] = <<n, i>> /\ d[i] = <<K, i>>
  BY <1>1 DEF Bytes
<1>16. \A i \in 1..4 : e[i] = <<n, i>> /\ e[n + 5 + i] = <<K, i>>
  <2> TAKE i \in 1..4
  <2>1. e[i] = a[i]
    <3>1. p[i] = a[i] /\ q[i] = p[i]
      BY <1>8, <1>9, <1>12, Zenon
    <3>2. r[i] = q[i] /\ e[i] = r[i]
      BY <1>10, <1>11, <1>12, Zenon
    <3> QED
      BY ONLY <3>1, <3>2
  <2>2. e[((4 + n) + 1) + i] = d[i]
    BY <1>10, <1>11, <1>12, Zenon
  <2> QED
    BY <1>12, <1>15, <2>1, <2>2, Zenon
<1>17. \A i \in 1..n : e[4 + i] = s.name[i]
  <2> TAKE i \in 1..n
  <2>1. e[4 + i] = b[i]
    <3>1. p[4 + i] = b[i] /\ q[4 + i] = p[4 + i]
      BY <1>8, <1>9, <1>13, Zenon
    <3>2. r[4 + i] = q[4 + i] /\ e[4 + i] = r[4 + i]
      BY <1>10, <1>11, <1>13, Zenon
    <3> QED
      BY <3>1, <3>2, Zenon
  <2> QED
    BY <1>1, <2>1, Zenon
<1>18. e[n + 5] = <<s.type, 1>>
  <2>1. c[1] = <<s.type, 1>>
    BY <1>1 DEF Bytes
  <2>2. e[(4 + n) + 1] = c[1]
    <3>1. q[(4 + n) + 1] = c[1]
      BY <1>9, <1>14, Zenon
    <3>2. r[(4 + n) + 1] = q[(4 + n) + 1] /\ e[(4 + n) + 1] = r[(4 + n) + 1]
      BY <1>10, <1>11, <1>14, Zenon
    <3> QED
      BY ONLY <3>1, <3>2
  <2> QED
    BY <1>14, <2>1, <2>2, Zenon
<1>19. \A i \in 1..(16 * K) : e[n + 9 + i] = ChunkBytes(meta)[i]
  BY <1>1, <1>11, <1>14, Zenon
<1>21. Len(e) = n + 9 + 16 * K
  BY <1>11, <1>14, Zenon
<1>22. IsEntry(e, meta, s, n, K)
  BY <1>2, <1>11, <1>16, <1>17, <1>18, <1>19, <1>21 DEF IsEntry
<1> QED
  BY <1>0, <1>22

\* The entry of each column is one, and the table has one for each.
LEMMA TableIs ==
  ASSUME WriterInv
  PROVE  /\ Len(metadata) = Len(schema) /\ DOMAIN metadata = DOMAIN schema
         /\ \A c \in DOMAIN schema :
              /\ schema[c].type \in ColumnType
              /\ schema[c].name \in Seq(Byte)
              /\ metadata[c] \in ChunkTable
              /\ Len(metadata[c].offsets) = Len(written) /\ Len(metadata[c].sizes) = Len(written)
              /\ EntryBytes(metadata[c], schema[c]) \in Seq(Byte)
<1>1. PICK n : n = Len(schema)
  OBVIOUS
<1>2. /\ SchemaIs /\ n \in Nat \ {0} /\ DOMAIN schema = 1..n
      /\ \A c \in 1..n : schema[c].type \in ColumnType
  BY <1>1, SchemaHas DEF WriterInv
<1>3. metadata \in [1..n -> ChunkTable]
  BY <1>2 DEF WriterInv
<1>4. Len(metadata) = n /\ DOMAIN metadata = 1..n
  BY <1>2, <1>3, IsSequence
<1>5. ASSUME NEW c \in 1..n
      PROVE  /\ schema[c].name \in Seq(Byte)
             /\ metadata[c] \in ChunkTable
             /\ Len(metadata[c].offsets) = Len(written) /\ Len(metadata[c].sizes) = Len(written)
             /\ EntryBytes(metadata[c], schema[c]) \in Seq(Byte)
  <2>1. schema[c].name \in Names
    BY <1>2 DEF SchemaIs, Names
  <2>2. schema[c].name \in Seq(Byte)
    BY <2>1, TextsAre
  <2>4. /\ metadata[c] \in ChunkTable
        /\ Len(metadata[c].offsets) = Len(written) /\ Len(metadata[c].sizes) = Len(written)
    BY <1>2, <1>3 DEF WriterInv
  <2>5. PICK meta, s, e : meta = metadata[c] /\ s = schema[c] /\ e = EntryBytes(meta, s)
    OBVIOUS
  <2>6. /\ meta \in ChunkTable /\ Len(meta.offsets) = Len(meta.sizes)
        /\ s.type \in ColumnType /\ s.name \in Seq(Byte)
    BY <1>2, <2>2, <2>4, <2>5, SMTT(30)
  <2>7. e \in Seq(Byte)
    <3>1. IsEntry(EntryBytes(meta, s), meta, s, Len(s.name), Len(meta.offsets))
      BY ONLY <2>6, EntryIs
    <3> QED
      BY ONLY <2>5, <3>1 DEF IsEntry
  <2> QED
    BY <2>2, <2>4, <2>5, <2>7
<1> QED
  BY <1>1, <1>2, <1>4, <1>5

\* The entries are put behind each other.
LEMMA EntriesTyped ==
  ASSUME WriterInv
  PROVE  Entries \in Seq(Byte)
<1>1. PICK n : n = Len(schema)
  OBVIOUS
<1>2. n \in Nat \ {0} /\ DOMAIN schema = 1..n
  BY <1>1, SchemaHas DEF WriterInv
<1>3. PICK parts : parts = [c \in 1..n |-> EntryBytes(metadata[c], schema[c])]
  OBVIOUS
<1>4. \A c \in 1..n : parts[c] \in Seq(Byte)
  BY <1>2, <1>3, TableIs
<1>5. parts \in Seq(Seq(Byte)) /\ Len(parts) = n
  <2>1. parts \in [1..n -> Seq(Byte)]
    BY <1>3, <1>4
  <2> QED
    BY <1>2, <2>1, IsSequence
<1>6. Entries = FlattenSeq(parts)
  BY <1>2, <1>3, TableIs DEF Entries
<1> QED
  BY <1>5, <1>6, FlattenType

\* Where the parts of the footer are.
LEMMA TableBytes ==
  ASSUME WriterInv, NEW n, n = Len(schema), NEW L, L = Len(Entries)
  PROVE  /\ Writer!Footer(metadata, schema, current_offset, num_rows) = Table \o Bytes(Magic, 4)
         /\ Table \in Seq(Byte) /\ n \in Nat /\ L \in Nat /\ Len(Table) = L + 20
         /\ \A i \in 1..4 : Table[i] = <<n, i>>
         /\ \A i \in 1..L : Table[4 + i] = Entries[i]
         /\ \A i \in 1..8 : /\ Table[L + 4 + i] = <<num_rows, i>>
                            /\ Table[L + 12 + i] = <<current_offset, i>>
<1>1. PICK a, b, c, d : /\ a = Bytes(n, 4) /\ b = Entries /\ c = Bytes(num_rows, 8)
                        /\ d = Bytes(current_offset, 8)
  OBVIOUS
<1>2. /\ n \in Nat /\ num_rows \in Nat /\ current_offset \in Nat /\ Len(metadata) = n
      /\ b \in Seq(Byte) /\ L = Len(b) /\ L \in Nat
  <2>2. b \in Seq(Byte)
    BY <1>1, EntriesTyped
  <2> QED
    BY <1>1, <2>2, SchemaHas, TableIs, LenProperties DEF WriterInv
<1>3. /\ a \in Seq(Byte) /\ 4 = Len(a)
      /\ c \in Seq(Byte) /\ 8 = Len(c)
      /\ d \in Seq(Byte) /\ 8 = Len(d)
  BY <1>1, <1>2, BytesAre
<1>4. PICK p, q, r : p = a \o b /\ q = p \o c /\ r = q \o d
  OBVIOUS
<1>5. Table = r
  BY <1>1, <1>2, <1>4 DEF Table
<1>6. /\ p \in Seq(Byte) /\ Len(p) = 4 + L
      /\ \A i \in 1..4 : p[i] = a[i]
      /\ \A i \in 1..L : p[4 + i] = b[i]
  <2>1. IsJoin(p, a, 4, b, L)
    BY ONLY <1>2, <1>3, <1>4, JoinIs
  <2> QED
    BY <2>1 DEF IsJoin
<1>7. /\ q \in Seq(Byte) /\ Len(q) = (4 + L) + 8
      /\ \A i \in 1..(4 + L) : q[i] = p[i]
      /\ \A i \in 1..8 : q[(4 + L) + i] = c[i]
  <2>1. IsJoin(q, p, 4 + L, c, 8)
    BY ONLY <1>3, <1>4, <1>6, JoinIs
  <2> QED
    BY <2>1 DEF IsJoin
<1>8. /\ r \in Seq(Byte) /\ Len(r) = ((4 + L) + 8) + 8
      /\ \A i \in 1..((4 + L) + 8) : r[i] = q[i]
      /\ \A i \in 1..8 : r[((4 + L) + 8) + i] = d[i]
  <2>1. IsJoin(r, q, (4 + L) + 8, d, 8)
    BY ONLY <1>3, <1>4, <1>7, JoinIs
  <2> QED
    BY <2>1 DEF IsJoin
<1>9. /\ \A i \in 1..4 : i \in 1..(4 + L) /\ i \in 1..((4 + L) + 8)
      /\ \A i \in 1..L : 4 + i \in 1..(4 + L) /\ 4 + i \in 1..((4 + L) + 8)
      /\ \A i \in 1..8 : /\ (4 + L) + i \in 1..((4 + L) + 8) /\ (4 + L) + i = L + 4 + i
                         /\ ((4 + L) + 8) + i = L + 12 + i
      /\ ((4 + L) + 8) + 8 = L + 20
  BY <1>2
<1>10. \A i \in 1..4 : r[i] = <<n, i>>
  <2> TAKE i \in 1..4
  <2>1. r[i] = a[i]
    BY <1>6, <1>7, <1>8, <1>9, Zenon
  <2>2. a[i] = <<n, i>>
    BY <1>1 DEF Bytes
  <2> QED
    BY <2>1, <2>2
<1>11. \A i \in 1..L : r[4 + i] = Entries[i]
  <2> TAKE i \in 1..L
  <2>1. p[4 + i] = b[i] /\ q[4 + i] = p[4 + i] /\ r[4 + i] = q[4 + i]
    BY <1>6, <1>7, <1>8, <1>9, Zenon
  <2> QED
    BY <1>1, <2>1
<1>12. \A i \in 1..8 : r[L + 4 + i] = <<num_rows, i>> /\ r[L + 12 + i] = <<current_offset, i>>
  <2> TAKE i \in 1..8
  <2>1. r[(4 + L) + i] = c[i] /\ r[((4 + L) + 8) + i] = d[i]
    BY <1>7, <1>8, <1>9, Zenon
  <2>2. c[i] = <<num_rows, i>> /\ d[i] = <<current_offset, i>>
    BY <1>1 DEF Bytes
  <2> QED
    BY <1>9, <2>1, <2>2, Zenon
<1>14. Writer!Footer(metadata, schema, current_offset, num_rows) = r \o Bytes(Magic, 4)
  BY <1>5, FooterIs
<1> QED
  BY <1>2, <1>5, <1>8, <1>9, <1>10, <1>11, <1>12, <1>14

-----------------------------------------------------------------------------
(* ColumnarFile: what of the file reaches the disk. *)

\* The file as it is meant.
Meant == CASE writer = "new"       -> <<>>
           [] writer = "open"      -> Body
           [] writer = "finalized" -> Body \o (Table \o Bytes(Magic, 4))

\* The sequence d is how m begins.
Begins(d, m) == /\ d \in Seq(Byte) /\ m \in Seq(Byte) /\ Len(d) <= Len(m)
                /\ \A i \in 1..Len(d) : d[i] = m[i]

\* The disk has its beginning, and all of it if nothing has failed.
DiskInv == Begins(disk, Meant) /\ (~bad => disk = Meant)

\* What is added to the meaning, and to the disk, leaves one the beginning of the other.
LEMMA BeginsStill ==
  ASSUME NEW d, NEW m, Begins(d, m), NEW x, x \in Seq(Byte)
  PROVE  Begins(d, m \o x) /\ \A n \in 0..Len(d) : Begins(SubSeq(d, 1, n), m)
<1>1. PICK k, l, u : k = Len(m) /\ l = Len(x) /\ u = m \o x
  OBVIOUS
<1>2. /\ d \in Seq(Byte) /\ m \in Seq(Byte) /\ Len(d) \in Nat /\ Len(d) <= k
      /\ k \in Nat /\ l \in Nat
      /\ \A i \in 1..Len(d) : d[i] = m[i]
  BY <1>1, LenProperties DEF Begins
<1>3. IsJoin(u, m, k, x, l)
  BY ONLY <1>1, <1>2, x \in Seq(Byte), JoinIs
<1>4. Begins(d, u)
  <2>1. u \in Seq(Byte) /\ Len(u) = k + l /\ \A i \in 1..k : u[i] = m[i]
    BY <1>3 DEF IsJoin
  <2>2. \A i \in 1..Len(d) : i \in 1..k
    BY <1>2
  <2> QED
    BY <1>2, <2>1, <2>2 DEF Begins
<1>5. ASSUME NEW n \in 0..Len(d)
      PROVE  Begins(SubSeq(d, 1, n), m)
  <2>1. PICK p : p = SubSeq(d, 1, n)
    OBVIOUS
  <2>2. p \in Seq(Byte) /\ Len(p) = n /\ \A i \in 1..n : p[i] = d[i]
    <3>1. n \in Nat /\ 1 \in Int /\ n \in Int /\ \A i \in 1..n : i \in 1..Len(d)
      BY <1>2
    <3>2. \A i \in 1..n : d[i] \in Byte
      BY <1>2, <3>1, ElementOfSeq
    <3>3. /\ p \in Seq(Byte)
          /\ Len(p) = IF 1 <= n THEN n - 1 + 1 ELSE 0
          /\ \A i \in 1..(n - 1 + 1) : p[i] = d[1 + i - 1]
      BY ONLY <2>1, <3>1, <3>2, SubSeqProperties
    <3>4. n - 1 + 1 = n /\ \A i \in 1..n : 1 + i - 1 = i
      BY <3>1
    <3> QED
      BY <3>1, <3>3, <3>4
  <2>3. n <= k /\ \A i \in 1..n : i \in 1..Len(d)
    BY <1>2
  <2> QED
    BY <1>1, <1>2, <2>1, <2>2, <2>3 DEF Begins
<1> QED
  BY <1>1, <1>4, <1>5

\* At first there is nothing.
LEMMA DiskBegins == ConversionInit => DiskInv
<1> SUFFICES ASSUME ConversionInit PROVE DiskInv
  OBVIOUS
<1>1. writer = "new" /\ disk = <<>> /\ bad = FALSE
  BY DEF ConversionInit, Writer!Init, Writer!InitFor
<1>2. Meant = <<>>
  BY <1>1 DEF Meant
<1>3. <<>> \in Seq(Byte) /\ Len(<<>>) = 0
  BY EmptySeq
<1> QED
  BY <1>1, <1>2, <1>3 DEF DiskInv, Begins

\* A step of the writer adds to the file as it is meant, or takes from the disk.
LEMMA DiskGrows ==
  ASSUME DiskInv, NEW x, x \in Seq(Byte), Meant' = Meant \o x,
         disk' = IF bad THEN disk ELSE disk \o x, bad' = bad
  PROVE  DiskInv'
<1>1. Begins(disk, Meant) /\ (~bad => disk = Meant)
  BY DEF DiskInv
<1>2. Begins(disk, Meant \o x)
  BY <1>1, BeginsStill
<1>3. CASE bad
  <2>1. disk' = disk
    BY <1>3
  <2> QED
    BY <1>2, <1>3, <2>1 DEF DiskInv
<1>4. CASE ~bad
  <2>1. disk' = Meant' /\ Meant' \in Seq(Byte)
    BY <1>1, <1>2, <1>4 DEF Begins
  <2>2. Begins(Meant', Meant')
    BY <2>1, LenProperties DEF Begins
  <2> QED
    BY <2>1, <2>2 DEF DiskInv
<1> QED
  BY <1>3, <1>4

\* The bytes of the batches are bytes.
LEMMA BodyIs ==
  ASSUME WriterInv
  PROVE  Body \in Seq(Byte) /\ AllBytes(written) \in Seq(Byte) /\ Bytes(Magic, 4) \in Seq(Byte)
<1>1. SchemaIs /\ written \in Seq(Batch)
  BY DEF WriterInv
<1>2. PICK K, parts : K = Len(written) /\ parts = [k \in 1..K |-> BatchBytes(written[k])]
  OBVIOUS
<1>3. AllBytes(written) \in Seq(Byte)
  <2>1. K \in Nat /\ DOMAIN written = 1..K
    BY <1>1, <1>2, LenProperties
  <2>2. \A k \in 1..K : parts[k] \in Seq(Byte)
    BY <1>1, <1>2, ElementOfSeq, BatchIs
  <2>3. parts \in [1..K -> Seq(Byte)]
    BY <1>2, <2>2
  <2>4. parts \in Seq(Seq(Byte))
    BY <2>1, <2>3, IsSequence
  <2> QED
    BY <1>2, <2>1, <2>4, FlattenType DEF AllBytes
<1>4. Bytes(Magic, 4) \in Seq(Byte)
  BY BytesAre
<1>5. Body \in Seq(Byte)
  BY <1>3, <1>4, ConcatProperties DEF Body
<1> QED
  BY <1>3, <1>4, <1>5

\* What a conversion writes is what its builders had, as a batch.
LEMMA FlushIs ==
  ASSUME ConversionInv, ConversionStep, chunks' # chunks
  PROVE  \E x \in [Columns -> Seq(Cell)] :
           /\ chunks' = Append(chunks, x)
           /\ [c \in Columns |-> ColumnOf(c, x[c])] \in Batch
           /\ Writer!WriteBatch([c \in Columns |-> ColumnOf(c, x[c])])
<1>1. converting /\ schema = CsvSchema /\ ConvertInv /\ Next
  BY DEF ConversionInv, ConversionStep
<1>2. PICK x \in [Columns -> Seq(Cell)] : chunks' = Append(chunks, x)
  BY <1>1, ConvertKeeps
<1>3. Last(chunks') = x
  <2>1. chunks \in Seq([Columns -> Seq(Cell)])
    BY <1>1 DEF ConvertInv, Holding
  <2>2. Len(chunks') = Len(chunks) + 1 /\ chunks'[Len(chunks) + 1] = x
    BY <1>2, <2>1, AppendProperties
  <2> QED
    BY <2>2 DEF Last
<1>4. Writer!WriteBatch([c \in Columns |-> ColumnOf(c, Last(chunks')[c])])
  BY DEF ConversionStep
<1>5. [c \in Columns |-> ColumnOf(c, x[c])] \in Batch
  BY <1>1, FlushedIs DEF ConvertInv, RowsInv
<1>6. Writer!WriteBatch([c \in Columns |-> ColumnOf(c, x[c])])
  BY <1>3, <1>4
<1> QED
  BY <1>2, <1>5, <1>6

\* Every step of a conversion, and of the writer alone, leaves on the disk how the file
\* begins.
LEMMA DiskKeeps ==
  ASSUME ConversionInv, DiskInv, [ConversionNext]_allVars
  PROVE  DiskInv'
<1>1. WriterInv /\ WriterInv'
  BY ConversionKeeps DEF ConversionInv
<1>2. ASSUME UNCHANGED writerVars
      PROVE  DiskInv'
  <2>1. UNCHANGED <<schema, writer, disk, bad, current_offset, num_rows, metadata, written>>
    BY <1>2 DEF writerVars
  <2>2. Meant' = Meant
    BY <2>1 DEF Meant, Body, AllBytes, BatchBytes, Data, Table, Entries, EntryBytes
  <2> QED
    BY <2>1, <2>2 DEF DiskInv
<1>3. ASSUME Writer!WriteHeader
      PROVE  DiskInv'
  <2>1. /\ writer = "new" /\ writer' = "open" /\ schema' = schema /\ bad' = bad
        /\ written' = written
        /\ disk' = IF bad THEN disk ELSE disk \o Bytes(Magic, 4)
    BY <1>3, SameFormat DEF Writer!WriteHeader, Writer!Write
  <2>2. AllBytes(written)' = <<>>
    <3>1. written = <<>>
      BY <1>1, <2>1 DEF WriterInv
    <3>2. [k \in DOMAIN written |-> BatchBytes(written[k])]' = <<>>
      BY <2>1, <3>1
    <3> QED
      BY <3>2, FlattenEmpty DEF AllBytes
  <2>3. PICK m : m = Bytes(Magic, 4)
    OBVIOUS
  <2>4. m \in Seq(Byte) /\ m \o <<>> = m /\ <<>> \o m = m
    BY <2>3, BytesAre, ConcatEmptySeq
  <2>5. Meant = <<>> /\ Meant' = m \o <<>>
    BY <2>1, <2>2, <2>3 DEF Meant, Body
  <2> QED
    BY <2>1, <2>3, <2>4, <2>5, DiskGrows
<1>4. ASSUME NEW b, b \in Batch, Writer!WriteBatch(b)
      PROVE  DiskInv'
  <2>1. /\ writer = "open" /\ writer' = "open" /\ schema' = schema /\ bad' = bad
        /\ written' = Append(written, b)
    BY <1>1, <1>4, BatchRecorded
  <2>2. disk' = IF bad THEN disk ELSE disk \o BatchBytes(b)
    <3>1. bad => disk' = disk
      BY <1>4 DEF Writer!WriteBatch, Writer!Write
    <3> QED
      BY <1>1, <1>4, <3>1, BatchRecorded
  <2>3. PICK m, a, x : m = Bytes(Magic, 4) /\ a = AllBytes(written) /\ x = BatchBytes(b)
    OBVIOUS
  <2>4. m \in Seq(Byte) /\ a \in Seq(Byte) /\ x \in Seq(Byte)
    BY <1>1, <1>4, <2>3, BodyIs, BatchIs DEF WriterInv
  <2>5. AllBytes(written)' = a \o x
    <3>1. AllBytes(written)' = AllBytes(Append(written, b))
      BY <2>1 DEF AllBytes, BatchBytes, Data
    <3> QED
      BY <1>1, <1>4, <2>3, <3>1, AllBytesAppend DEF WriterInv
  <2>6. Meant = m \o a /\ Meant' = m \o (a \o x)
    BY <2>1, <2>3, <2>5 DEF Meant, Body
  <2>7. (m \o a) \o x = m \o (a \o x)
    BY <2>4, ConcatAssociative
  <2> QED
    BY <2>1, <2>2, <2>3, <2>4, <2>6, <2>7, DiskGrows
<1>5. ASSUME Writer!Finalize
      PROVE  DiskInv'
  <2>1. /\ writer = "open" /\ writer' = "finalized" /\ bad' = bad
        /\ UNCHANGED <<schema, current_offset, num_rows, metadata, written>>
        /\ disk' = IF bad THEN disk
                   ELSE disk \o Writer!Footer(metadata, schema, current_offset, num_rows)
    BY <1>5 DEF Writer!Finalize, Writer!Write
  <2>2. PICK x : x = Table \o Bytes(Magic, 4)
    OBVIOUS
  <2>3. x = Writer!Footer(metadata, schema, current_offset, num_rows) /\ Table \in Seq(Byte)
    BY <1>1, <2>2, TableBytes
  <2>4. x \in Seq(Byte)
    BY <1>1, <2>2, <2>3, BodyIs, ConcatProperties
  <2>5. Meant = Body /\ Meant' = Body \o x
    <3>1. Body' = Body /\ Table' = Table
      BY <2>1 DEF Body, AllBytes, BatchBytes, Data, Table, Entries, EntryBytes
    <3> QED
      BY <2>1, <2>2, <3>1 DEF Meant
  <2> QED
    BY <2>1, <2>3, <2>4, <2>5, DiskGrows
<1>6. ASSUME Writer!LoseTail
      PROVE  DiskInv'
  <2>1. bad' = TRUE /\ UNCHANGED <<schema, writer, current_offset, num_rows, metadata, written>>
    BY <1>6 DEF Writer!LoseTail
  <2>2. PICK n \in 0..Len(disk) : disk' = SubSeq(disk, 1, n)
    BY <1>6 DEF Writer!LoseTail
  <2>3. Meant' = Meant
    BY <2>1 DEF Meant, Body, AllBytes, BatchBytes, Data, Table, Entries, EntryBytes
  <2>4. Begins(SubSeq(disk, 1, n), Meant)
    <3>1. <<>> \in Seq(Byte)
      BY EmptySeq
    <3> QED
      BY <3>1, BeginsStill DEF DiskInv
  <2> QED
    BY <2>1, <2>2, <2>3, <2>4 DEF DiskInv
<1>7. CASE BeginConversion
  BY <1>3, <1>7 DEF BeginConversion
<1>8. CASE ConversionStep
  <2>1. CASE chunks' = chunks
    BY <1>2, <1>8, <2>1 DEF ConversionStep
  <2>2. CASE chunks' # chunks
    <3>1. PICK b : b \in Batch /\ Writer!WriteBatch(b)
      BY <1>8, <2>2, FlushIs
    <3> QED
      BY <1>4, <3>1
  <2> QED
    BY <2>1, <2>2
<1>9. CASE FinishConversion
  BY <1>5, <1>9 DEF FinishConversion
<1>10. CASE TailLost
  BY <1>6, <1>10 DEF TailLost
<1>11. CASE WriterAlone
  <2>1. CASE Writer!SomeBatch
    <3>1. PICK n \in 0..(MaxRows - num_rows) : \E b \in Writer!Batches(n) : Writer!WriteBatch(b)
      BY <2>1 DEF Writer!SomeBatch
    <3>2. PICK b \in Writer!Batches(n) : Writer!WriteBatch(b)
      BY <3>1
    <3>3. n \in Nat /\ SchemaIs
      BY <1>1, ConversionAssumption DEF WriterInv
    <3>4. b \in Batch
      BY <3>3, GivenIs
    <3> QED
      BY <1>4, <3>2, <3>4
  <2>2. CASE Writer!Over
    BY <1>2, <2>2 DEF Writer!Over, Writer!vars, writerVars
  <2> QED
    BY <1>3, <1>5, <1>6, <1>11, <2>1, <2>2 DEF WriterAlone, Writer!Next
<1>12. CASE UNCHANGED allVars \/ ConversionOver
  BY <1>2, <1>12 DEF allVars, ConversionOver
<1> QED
  BY <1>7, <1>8, <1>9, <1>10, <1>11, <1>12 DEF ConversionNext

-----------------------------------------------------------------------------
(* ColumnarFile: what the reader takes for a file. *)

\* The reader takes no file that is short or does not end with the magic.
LEMMA ReaderTakes ==
  ASSUME NEW f, Writer!ParseMetadata(f) # Writer!Refused
  PROVE  ~(Len(f) < 24) /\ Writer!EndsWithMagic(f)
BY Zenon DEF Writer!ParseMetadata

\* The characters of the magic's bytes.
LEMMA MagicIs == \A i \in 1..4 : Bytes(Magic, 4)[i] = <<Magic, i>> /\ Char(<<Magic, i>>) = TUFF[i]
BY FormatAssumption DEF Bytes

\* A file ends with the magic if its last four bytes are these characters.
LEMMA MagicEnds ==
  ASSUME NEW f
  PROVE  Writer!EndsWithMagic(f) <=> \A i \in 1..4 : Char(f[Len(f) - 4 + i]) = TUFF[i]
<1>1. PICK g : g = [i \in 1..4 |-> Char(f[Len(f) - 4 + i])]
  OBVIOUS
<1>2. Writer!EndsWithMagic(f) <=> g = TUFF
  BY <1>1, Zenon DEF Writer!EndsWithMagic, Writer!TUFF, TUFF
<1>3. g = TUFF <=> \A i \in 1..4 : g[i] = TUFF[i]
  <2>1. TUFF = [i \in 1..4 |-> TUFF[i]]
    BY DEF TUFF
  <2>2. g = [i \in 1..4 |-> g[i]]
    BY <1>1
  <2> QED
    BY <2>1, <2>2
<1> QED
  BY <1>1, <1>2, <1>3

\* The n bytes of the content c that a file of N bytes has behind the first magic end
\* with the characters of the magic.
SpellsMagic(c, N) == N - 4 \in 4..Len(c) /\ \A i \in 1..4 : Char(c[N - 8 + i]) = TUFF[i]

\* How the magic, some content, and the magic again begin does not end with the magic,
\* unless the content spells it there or it is all of it.
LEMMA EndsAtMagic ==
  ASSUME NEW c, c \in Seq(Byte), NEW m, m = Bytes(Magic, 4),
         NEW full, full = m \o (c \o m), NEW d, Begins(d, full), NEW N, N = Len(d), N >= 8,
         Writer!EndsWithMagic(d)
  PROVE  N = Len(full) \/ SpellsMagic(c, N)
<1>1. PICK L, w : L = Len(c) /\ w = c \o m
  OBVIOUS
<1>2. /\ m \in Seq(Byte) /\ 4 = Len(m) /\ \A i \in 1..4 : Char(m[i]) = TUFF[i]
      /\ L \in Nat /\ L = Len(c) /\ c \in Seq(Byte) /\ w = c \o m /\ full = m \o w
  BY <1>1, MagicIs, BytesAre, LenProperties
<1>3. /\ w \in Seq(Byte) /\ L + 4 = Len(w)
      /\ \A i \in 1..L : w[i] = c[i]
      /\ \A i \in 1..4 : w[L + i] = m[i]
  <2>1. IsJoin(w, c, L, m, 4)
    BY ONLY <1>2, JoinIs
  <2> QED
    BY <2>1 DEF IsJoin
<1>4. /\ Len(full) = 4 + (L + 4)
      /\ \A i \in 1..(L + 4) : full[4 + i] = w[i]
  <2>1. IsJoin(full, m, 4, w, L + 4)
    BY ONLY <1>2, <1>3, JoinIs
  <2> QED
    BY <2>1 DEF IsJoin
<1>5. /\ N \in Nat /\ N >= 8 /\ N <= 4 + (L + 4)
      /\ \A i \in 1..N : d[i] = full[i]
  BY <1>4, LenProperties DEF Begins
<1>6. \A i \in 1..4 : Char(d[N - 4 + i]) = TUFF[i]
  BY MagicEnds
<1>7. ASSUME NEW j \in 1..4, L + j = N - 4
      PROVE  N = Len(full)
  <2>1. ASSUME NEW i \in 1..4, NEW k \in 1..4, i = 4 - j + k
        PROVE  TUFF[i] = TUFF[k]
    <3>1. N - 4 + i = 4 + (L + k) /\ L + k \in 1..(L + 4) /\ 4 + (L + k) \in 1..N
      BY <1>2, <1>5, <1>7, <2>1, SMTT(30)
    <3>2. d[N - 4 + i] = m[k]
      BY <1>3, <1>4, <1>5, <3>1, ZenonT(60)
    <3> QED
      BY <1>2, <1>6, <3>2
  <2>2. j # 1
    <3>1. j = 1 => TUFF[4] = TUFF[1]
      BY <2>1
    <3> QED
      BY <3>1 DEF TUFF
  <2>3. j # 2
    <3>1. j = 2 => TUFF[4] = TUFF[2]
      BY <2>1
    <3> QED
      BY <3>1 DEF TUFF
  <2>4. j # 3
    <3>1. j = 3 => TUFF[3] = TUFF[2]
      BY <2>1
    <3> QED
      BY <3>1 DEF TUFF
  <2>5. j = 4
    BY <2>2, <2>3, <2>4
  <2> QED
    BY <1>2, <1>4, <1>5, <1>7, <2>5
<1>8. CASE N > L + 4
  <2>1. PICK j : j = N - (L + 4)
    OBVIOUS
  <2>2. j \in 1..4 /\ L + j = N - 4
    <3>1. L \in Nat /\ N \in Nat /\ N <= 4 + (L + 4) /\ N > L + 4
      BY <1>2, <1>5, <1>8
    <3> QED
      BY ONLY <2>1, <3>1
  <2> QED
    BY <1>7, <2>2
<1>9. CASE ~(N > L + 4)
  <2>1. N - 4 \in 4..L
    BY <1>2, <1>5, <1>9
  <2>2. ASSUME NEW i \in 1..4
        PROVE  d[N - 4 + i] = c[N - 8 + i]
    <3>1. /\ N - 8 + i \in 1..L /\ N - 8 + i \in 1..(L + 4) /\ 4 + (N - 8 + i) = N - 4 + i
          /\ N - 4 + i \in 1..N
      BY <1>2, <1>5, <2>1
    <3>2. d[N - 4 + i] = full[4 + (N - 8 + i)]
      BY <1>5, <3>1
    <3>3. full[4 + (N - 8 + i)] = w[N - 8 + i] /\ w[N - 8 + i] = c[N - 8 + i]
      BY <1>3, <1>4, <3>1, Zenon
    <3> QED
      BY ONLY <3>2, <3>3
  <2>3. \A i \in 1..4 : Char(c[N - 8 + i]) = TUFF[i]
    BY <1>6, <2>2
  <2> QED
    BY <1>1, <2>1, <2>3 DEF SpellsMagic
<1> QED
  BY <1>8, <1>9

\* What lies between the magics is the batches and the metadata.
LEMMA ContentIs == Writer!Content = AllBytes(written) \o Table
<1>1. [k \in DOMAIN written |-> Writer!BatchBytes(written[k])]
        = [k \in DOMAIN written |-> BatchBytes(written[k])]
  BY SameBatch
<1> QED
  BY <1>1, SameFormat, FooterIs DEF Writer!Content, AllBytes

\* So a file is cut where its content spells the magic.
LEMMA CutIs ==
  ASSUME NEW N, N = Len(disk), N \in Nat, SpellsMagic(Writer!Content, N)
  PROVE  Writer!CutAtMagic
<1>1. PICK n : n = N - 4
  OBVIOUS
<1>2. n \in 4..Len(Writer!Content) /\ N = 4 + n
  BY <1>1 DEF SpellsMagic
<1>3. \A i \in 1..4 : Char(Writer!Content[n - 4 + i]) = Writer!TUFF[i]
  <2>1. Writer!TUFF = TUFF
    BY DEF Writer!TUFF, TUFF
  <2>2. \A i \in 1..4 : N - 8 + i = n - 4 + i
    BY <1>1
  <2> QED
    BY <2>1, <2>2 DEF SpellsMagic
<1> QED
  BY <1>2, <1>3 DEF Writer!CutAtMagic

\* A file the reader takes is complete, or it was cut where its content spells the magic.
LEMMA TakenIs ==
  ASSUME WriterInv, DiskInv, Writer!ParseMetadata(disk) # Writer!Refused
  PROVE  \/ Writer!Complete /\ writer = "finalized" /\ disk = Meant
         \/ Writer!CutAtMagic
<1>1. PICK N : N = Len(disk)
  OBVIOUS
<1>2. N >= 24 /\ N >= 8 /\ Writer!EndsWithMagic(disk) /\ disk \in Seq(Byte) /\ N \in Nat
  <2>1. disk \in Seq(Byte) /\ N \in Nat
    BY <1>1, LenProperties DEF DiskInv, Begins
  <2> QED
    BY <1>1, <2>1, ReaderTakes
<1>3. PICK m, a, b, c : m = Bytes(Magic, 4) /\ a = AllBytes(written) /\ b = Table /\ c = a \o b
  OBVIOUS
<1>4. /\ m \in Seq(Byte) /\ Len(m) = 4 /\ a \in Seq(Byte) /\ b \in Seq(Byte)
      /\ Body = m \o a
      /\ Writer!Footer(metadata, schema, current_offset, num_rows) = b \o m
      /\ Writer!Content = c
  BY <1>3, BodyIs, TableBytes, BytesAre, ContentIs DEF Body
<1>5. c \in Seq(Byte) /\ Len(c) >= Len(a) /\ \A i \in 1..Len(a) : c[i] = a[i]
  <2>1. PICK x, y : x = Len(a) /\ y = Len(b)
    OBVIOUS
  <2>2. x \in Nat /\ y \in Nat
    BY <1>4, <2>1, LenProperties
  <2>3. IsJoin(c, a, x, b, y)
    BY ONLY <1>3, <1>4, <2>1, JoinIs
  <2> QED
    BY <2>1, <2>2, <2>3 DEF IsJoin
<1>6. CASE writer = "new"
  <2>1. Meant = <<>> /\ Len(<<>>) = 0
    BY <1>6, EmptySeq DEF Meant
  <2> QED
    BY <1>1, <1>2, <2>1 DEF DiskInv, Begins
<1>7. CASE writer = "open"
  <2>1. Meant = m \o a
    BY <1>4, <1>7 DEF Meant
  <2>2. PICK full : full = m \o (a \o m)
    OBVIOUS
  <2>3. full = (m \o a) \o m
    <3>1. m \in Seq(Byte) /\ a \in Seq(Byte)
      BY <1>4
    <3>2. (m \o a) \o m = m \o (a \o m)
      BY ONLY <3>1, ConcatAssociative
    <3> QED
      BY ONLY <2>2, <3>2
  <2>4. Begins(disk, full)
    BY <1>4, <2>1, <2>3, BeginsStill DEF DiskInv
  <2>5. Len(full) = Len(m \o a) + 4 /\ Len(m \o a) \in Nat
    <3>1. m \o a \in Seq(Byte)
      BY <1>4, ConcatProperties
    <3>2. PICK x : x = m \o a
      OBVIOUS
    <3>3. Len(x \o m) = Len(x) + Len(m) /\ Len(x) \in Nat
      BY <1>4, <3>1, <3>2, ConcatProperties, LenProperties
    <3> QED
      BY <1>4, <2>3, <3>2, <3>3
  <2>6. N # Len(full)
    <3>1. N <= Len(m \o a)
      BY <1>1, <2>1 DEF DiskInv, Begins
    <3> QED
      BY <1>2, <2>5, <3>1
  <2>7. SpellsMagic(a, N)
    BY <1>1, <1>2, <1>3, <1>4, <2>2, <2>4, <2>6, EndsAtMagic
  <2>8. SpellsMagic(c, N)
    <3>1. Len(a) \in Nat /\ Len(c) \in Nat
      BY <1>4, <1>5, LenProperties
    <3>2. N - 4 \in 4..Len(c)
      BY <1>2, <1>5, <2>7, <3>1 DEF SpellsMagic
    <3>3. \A i \in 1..4 : N - 8 + i \in 1..Len(a)
      BY <1>2, <2>7, <3>1 DEF SpellsMagic
    <3> QED
      BY <1>5, <2>7, <3>2, <3>3 DEF SpellsMagic
  <2> QED
    BY <1>1, <1>2, <1>4, <2>8, CutIs
<1>8. CASE writer = "finalized"
  <2>1. PICK full : full = m \o (c \o m)
    OBVIOUS
  <2>2. Meant = full
    <3>1. Meant = (m \o a) \o (b \o m)
      BY <1>3, <1>4, <1>8 DEF Meant
    <3>2. b \o m \in Seq(Byte)
      BY <1>4, ConcatProperties
    <3>3. PICK y : y = b \o m
      OBVIOUS
    <3>4. m \in Seq(Byte) /\ a \in Seq(Byte) /\ b \in Seq(Byte) /\ y \in Seq(Byte)
      BY <1>4, <3>2, <3>3
    <3>5. (m \o a) \o y = m \o (a \o y)
      BY ONLY <3>4, ConcatAssociative
    <3>6. (a \o b) \o m = a \o (b \o m)
      BY ONLY <3>4, ConcatAssociative, SMTT(30)
    <3> QED
      BY <1>3, <2>1, <3>1, <3>3, <3>5, <3>6
  <2>3. Begins(disk, full)
    BY <2>2 DEF DiskInv
  <2>4. N = Len(full) \/ SpellsMagic(c, N)
    BY <1>1, <1>2, <1>3, <1>5, <2>1, <2>3, EndsAtMagic
  <2>5. ASSUME N = Len(full)
        PROVE  /\ disk = Meant
               /\ N = current_offset
                    + Len(Writer!Footer(metadata, schema, current_offset, num_rows))
    <3>1. disk = full
      BY <1>1, <2>3, <2>5, SeqEqual DEF Begins
    <3>2. Body \in Seq(Byte) /\ Len(Body) = current_offset
      BY <1>8, DataIs
    <3>3. PICK x, y : x = Body /\ y = b \o m
      OBVIOUS
    <3>4. y \in Seq(Byte) /\ x \in Seq(Byte) /\ Len(x \o y) = Len(x) + Len(y)
      BY <1>4, <3>2, <3>3, ConcatProperties
    <3>5. full = x \o y
      BY <1>3, <1>8, <2>2, <3>3 DEF Meant
    <3> QED
      BY <1>4, <2>2, <2>5, <3>1, <3>2, <3>3, <3>4, <3>5
  <2>6. CASE N = Len(full)
    BY <1>1, <1>8, <2>5, <2>6 DEF Writer!Complete
  <2>7. CASE SpellsMagic(c, N)
    BY <1>1, <1>2, <1>4, <2>7, CutIs
  <2> QED
    BY <2>4, <2>6, <2>7
<1>9. writer \in {"new", "open", "finalized"}
  BY DEF WriterInv, Writer!Place
<1> QED
  BY <1>6, <1>7, <1>8, <1>9

-----------------------------------------------------------------------------
(* ColumnarFormat: what the reader makes of what was written. *)

\* The bytes from offset on, up to behind offset + n, are those of v.
Has(bytes, offset, v, n) == \A i \in 1..n : bytes[offset + i] = <<v, i>>

\* A value is read where it was written.
LEMMA ValueIs ==
  ASSUME NEW bytes, bytes \in Seq(Byte), NEW offset, offset \in Nat, NEW n, n \in Nat \ {0},
         offset + n <= Len(bytes), NEW v, Has(bytes, offset, v, n)
  PROVE  Writer!Value(bytes, offset, n) = v
<1>1. PICK L, field : L = Len(bytes) /\ field = SubSeq(bytes, offset + 1, offset + n)
  OBVIOUS
<1>2. L \in Nat /\ offset \in Nat /\ n \in Nat /\ n >= 1 /\ offset + n <= L
  BY <1>1, LenProperties
<1>3. /\ offset + 1 \in Int /\ offset + n \in Int /\ offset + 1 <= offset + n
      /\ (offset + n) - (offset + 1) + 1 = n
      /\ \A i \in (offset + 1)..(offset + n) : i \in 1..L
      /\ \A i \in 1..n : (offset + 1) + i - 1 = offset + i
      /\ 1 \in 1..n
  BY <1>2
<1>4. \A i \in (offset + 1)..(offset + n) : bytes[i] \in Byte
  BY <1>1, <1>3, ElementOfSeq
<1>5. /\ field \in Seq(Byte)
      /\ Len(field) = IF offset + 1 <= offset + n THEN (offset + n) - (offset + 1) + 1 ELSE 0
      /\ \A i \in 1..((offset + n) - (offset + 1) + 1) : field[i] = bytes[(offset + 1) + i - 1]
  BY ONLY <1>1, <1>3, <1>4, SubSeqProperties
<1>6. field \in Seq(Byte) /\ Len(field) = n /\ \A i \in 1..n : field[i] = <<v, i>>
  <2>1. \A i \in 1..n : bytes[offset + i] = <<v, i>>
    BY DEF Has
  <2> QED
    BY ONLY <1>3, <1>5, <2>1
<1>7. field = Writer!Bytes(v, n)
  <2>1. field = [i \in 1..n |-> field[i]]
    BY <1>6, LenProperties
  <2> QED
    BY <1>6, <2>1, Zenon DEF Writer!Bytes
<1>8. field[1] = <<v, 1>> /\ field[1][1] = v
  <2>1. field[1] = <<v, 1>>
    BY <1>3, <1>6, Zenon
  <2>2. <<v, 1>>[1] = v
    OBVIOUS
  <2> QED
    BY ONLY <2>1, <2>2
<1>9. Len(bytes) >= offset + n
  BY <1>1, <1>2
<1> QED
  BY <1>1, <1>7, <1>8, <1>9 DEF Writer!Value

\* The bytes w are in buffer, behind its first offset ones.
Within(buffer, offset, w) == offset + Len(w) <= Len(buffer)
                             /\ \A i \in 1..Len(w) : buffer[offset + i] = w[i]

\* What the reader makes of the entry of a column.
Parsed(meta, s, offset) ==
  [name |-> s.name, type |-> s.type, offsets |-> meta.offsets, sizes |-> meta.sizes,
   next |-> offset + Len(EntryBytes(meta, s))]

\* The metadata of a column are read where its entry is.
LEMMA ColumnIsParsed ==
  ASSUME NEW meta \in ChunkTable, Len(meta.offsets) = Len(meta.sizes),
         NEW s, s.type \in ColumnType, s.name \in Seq(Byte),
         NEW buffer, buffer \in Seq(Byte), NEW offset, offset \in Nat,
         Within(buffer, offset, EntryBytes(meta, s))
  PROVE  Writer!ParseColumn(buffer, offset) = Parsed(meta, s, offset)
<1>1. PICK e, n, K, L : /\ e = EntryBytes(meta, s) /\ n = Len(s.name) /\ K = Len(meta.offsets)
                        /\ L = Len(buffer)
  OBVIOUS
<1>2. /\ e \in Seq(Byte) /\ n \in Nat /\ K \in Nat /\ Len(e) = n + 9 + 16 * K
      /\ \A i \in 1..4 : e[i] = <<n, i>> /\ e[n + 5 + i] = <<K, i>>
      /\ \A i \in 1..n : e[4 + i] = s.name[i]
      /\ e[n + 5] = <<s.type, 1>>
      /\ \A i \in 1..(16 * K) : e[n + 9 + i] = ChunkBytes(meta)[i]
  <2>1. IsEntry(EntryBytes(meta, s), meta, s, Len(s.name), Len(meta.offsets))
    BY EntryIs
  <2>2. IsEntry(e, meta, s, n, K)
    BY ONLY <1>1, <2>1
  <2> QED
    BY <2>2, Zenon DEF IsEntry
<1>3. \A k \in 1..K : \A i \in 1..8 :
        /\ ChunkBytes(meta)[16 * (k - 1) + i] = <<meta.offsets[k], i>>
        /\ ChunkBytes(meta)[16 * (k - 1) + 8 + i] = <<meta.sizes[k], i>>
  BY <1>1, ChunkBytesAre
<1>4. /\ L \in Nat /\ offset \in Nat /\ offset + (n + 9 + 16 * K) <= L
      /\ \A i \in 1..(n + 9 + 16 * K) : buffer[offset + i] = e[i]
  <2>1. L \in Nat
    BY <1>1, LenProperties
  <2> QED
    BY <1>1, <1>2, <2>1, Zenon DEF Within
<1>5. Writer!Value(buffer, offset, 4) = n
  <2>1. \A i \in 1..4 : i \in 1..(n + 9 + 16 * K)
    BY <1>2
  <2>2. Has(buffer, offset, n, 4)
    BY <1>2, <1>4, <2>1 DEF Has
  <2>3. L \in Nat /\ offset \in Nat /\ n \in Nat /\ K \in Nat /\ offset + (n + 9 + 16 * K) <= L
    BY <1>2, <1>4
  <2>4. offset + 4 <= L /\ 4 \in Nat \ {0}
    BY ONLY <2>3
  <2>5. buffer \in Seq(Byte) /\ offset + 4 <= Len(buffer)
    BY <1>1, <2>4
  <2> QED
    BY ONLY <2>2, <2>3, <2>4, <2>5, ValueIs, Zenon
<1>6. PICK type : type = offset + 4 + n
  OBVIOUS
<1>7. Writer!Value(buffer, type, 1) = s.type
  <2>1. /\ n + 5 \in 1..(n + 9 + 16 * K) /\ offset + (n + 5) = type + 1 /\ type \in Nat
        /\ type + 1 <= L /\ 1 \in Nat \ {0}
    <3>1. offset \in Nat /\ n \in Nat /\ K \in Nat /\ L \in Nat /\ offset + (n + 9 + 16 * K) <= L
      BY <1>2, <1>4
    <3> QED
      BY ONLY <1>6, <3>1
  <2>2. buffer[type + 1] = <<s.type, 1>>
    BY <1>2, <1>4, <2>1, ZenonT(30)
  <2>3. Has(buffer, type, s.type, 1)
    BY <2>2 DEF Has
  <2>4. buffer \in Seq(Byte) /\ type + 1 <= Len(buffer)
    BY <1>1, <2>1
  <2> QED
    BY ONLY <2>1, <2>3, <2>4, ValueIs, Zenon
<1>8. Writer!Value(buffer, type + 1, 4) = K
  <2>1. /\ type + 1 \in Nat /\ (type + 1) + 4 <= L /\ 4 \in Nat \ {0}
        /\ \A i \in 1..4 : /\ n + 5 + i \in 1..(n + 9 + 16 * K)
                           /\ offset + (n + 5 + i) = (type + 1) + i
    BY <1>2, <1>4, <1>6
  <2>2. Has(buffer, type + 1, K, 4)
    <3> SUFFICES ASSUME NEW i \in 1..4 PROVE buffer[(type + 1) + i] = <<K, i>>
      BY DEF Has
    <3>1. buffer[offset + (n + 5 + i)] = e[n + 5 + i] /\ e[n + 5 + i] = <<K, i>>
      BY <1>2, <1>4, <2>1
    <3> QED
      BY <2>1, <3>1
  <2> QED
    <3>1. buffer \in Seq(Byte) /\ (type + 1) + 4 <= Len(buffer)
      BY <1>1, <2>1
    <3> QED
      BY ONLY <2>1, <2>2, <3>1, ValueIs, Zenon
<1>9. ASSUME NEW k \in 1..K
      PROVE  /\ Writer!Value(buffer, type + 5 + 16 * (k - 1), 8) = meta.offsets[k]
             /\ Writer!Value(buffer, (type + 5 + 16 * (k - 1)) + 8, 8) = meta.sizes[k]
  <2>1. PICK p : p = 16 * (k - 1)
    OBVIOUS
  <2>2. p \in Nat /\ p + 16 <= 16 * K
    BY <1>2, <2>1
  <2>3. PICK q : q = type + 5 + p
    OBVIOUS
  <2>4. /\ 8 \in Nat \ {0} /\ q \in Nat /\ q + 8 \in Nat /\ q + 8 <= L /\ (q + 8) + 8 <= L
        /\ \A i \in 1..8 :
             /\ p + i \in 1..(16 * K) /\ p + 8 + i \in 1..(16 * K)
             /\ n + 9 + (p + i) \in 1..(n + 9 + 16 * K)
             /\ n + 9 + (p + 8 + i) \in 1..(n + 9 + 16 * K)
             /\ offset + (n + 9 + (p + i)) = q + i
             /\ offset + (n + 9 + (p + 8 + i)) = (q + 8) + i
    <3>1. offset \in Nat /\ n \in Nat /\ K \in Nat /\ L \in Nat /\ offset + (n + 9 + 16 * K) <= L
      BY <1>2, <1>4
    <3> QED
      BY ONLY <1>6, <2>2, <2>3, <3>1
  <2>5. ASSUME NEW i \in 1..8
        PROVE  buffer[q + i] = <<meta.offsets[k], i>> /\ buffer[(q + 8) + i] = <<meta.sizes[k], i>>
    <3>1. /\ ChunkBytes(meta)[p + i] = <<meta.offsets[k], i>>
          /\ ChunkBytes(meta)[p + 8 + i] = <<meta.sizes[k], i>>
      BY <1>3, <2>1
    <3>2. e[n + 9 + (p + i)] = ChunkBytes(meta)[p + i]
          /\ e[n + 9 + (p + 8 + i)] = ChunkBytes(meta)[p + 8 + i]
      BY <1>2, <2>4, Zenon
    <3>3. buffer[offset + (n + 9 + (p + i))] = e[n + 9 + (p + i)]
          /\ buffer[offset + (n + 9 + (p + 8 + i))] = e[n + 9 + (p + 8 + i)]
      BY <1>4, <2>4, Zenon
    <3>4. offset + (n + 9 + (p + i)) = q + i /\ offset + (n + 9 + (p + 8 + i)) = (q + 8) + i
      BY <2>4
    <3> QED
      BY ONLY <3>1, <3>2, <3>3, <3>4
  <2>6. Has(buffer, q, meta.offsets[k], 8) /\ Has(buffer, q + 8, meta.sizes[k], 8)
    BY <2>5 DEF Has
  <2>7. buffer \in Seq(Byte) /\ q + 8 <= Len(buffer) /\ (q + 8) + 8 <= Len(buffer)
    BY <1>1, <2>4
  <2>8. Writer!Value(buffer, q, 8) = meta.offsets[k]
    BY ONLY <2>4, <2>6, <2>7, ValueIs, Zenon
  <2>9. Writer!Value(buffer, q + 8, 8) = meta.sizes[k]
    BY ONLY <2>4, <2>6, <2>7, ValueIs, Zenon
  <2> QED
    BY <2>1, <2>3, <2>8, <2>9, Zenon
<1>10. SubSeq(buffer, offset + 5, type) = s.name
  <2>1. PICK u : u = SubSeq(buffer, offset + 5, type)
    OBVIOUS
  <2>2. /\ offset + 5 \in Int /\ type \in Int /\ type - (offset + 5) + 1 = n
        /\ (offset + 5 <= type => n >= 1) /\ (~(offset + 5 <= type) => n = 0)
        /\ \A i \in (offset + 5)..type : i \in 1..L
        /\ \A i \in 1..n : /\ (offset + 5) + i - 1 = offset + (4 + i)
                           /\ 4 + i \in 1..(n + 9 + 16 * K)
    <3>1. offset \in Nat /\ n \in Nat /\ K \in Nat /\ L \in Nat /\ offset + (n + 9 + 16 * K) <= L
      BY <1>2, <1>4
    <3> QED
      BY ONLY <1>6, <3>1
  <2>3. \A i \in (offset + 5)..type : buffer[i] \in Byte
    BY <1>1, <2>2, ElementOfSeq
  <2>4. /\ u \in Seq(Byte)
        /\ Len(u) = IF offset + 5 <= type THEN type - (offset + 5) + 1 ELSE 0
        /\ \A i \in 1..(type - (offset + 5) + 1) : u[i] = buffer[(offset + 5) + i - 1]
    BY ONLY <2>1, <2>2, <2>3, SubSeqProperties, SMTT(30)
  <2>5. Len(u) = n
    BY ONLY <2>2, <2>4
  <2>6. \A i \in 1..n : u[i] = s.name[i]
    <3> TAKE i \in 1..n
    <3>1. u[i] = buffer[(offset + 5) + i - 1]
      BY <2>2, <2>4
    <3>2. buffer[offset + (4 + i)] = e[4 + i]
      BY <1>4, <2>2, Zenon
    <3>3. e[4 + i] = s.name[i]
      BY <1>2
    <3>4. (offset + 5) + i - 1 = offset + (4 + i)
      BY <2>2
    <3> QED
      BY ONLY <3>1, <3>2, <3>3, <3>4
  <2>7. u = s.name
    <3>1. s.name \in Seq(Byte) /\ Len(s.name) = n
      BY <1>1
    <3> QED
      BY ONLY <2>4, <2>5, <2>6, <3>1, SeqEqual
  <2> QED
    BY <2>1, <2>7
<1>11. type + 5 + 16 * ((K + 1) - 1) = offset + Len(e)
  BY <1>2, <1>4, <1>6
<1>12. meta.offsets = [k \in 1..K |-> meta.offsets[k]] /\ meta.sizes = [k \in 1..K |-> meta.sizes[k]]
  BY <1>1, LenProperties DEF ChunkTable
<1>13. Writer!ParseColumn(buffer, offset)
         = [name    |-> SubSeq(buffer, offset + 5, type),
            type    |-> Writer!Value(buffer, type, 1),
            offsets |-> [k \in 1..K |-> Writer!Value(buffer, type + 5 + 16 * (k - 1), 8)],
            sizes   |-> [k \in 1..K |-> Writer!Value(buffer, (type + 5 + 16 * (k - 1)) + 8, 8)],
            next    |-> type + 5 + 16 * ((K + 1) - 1)]
  BY <1>2, <1>5, <1>6, <1>8, Zenon DEF Writer!ParseColumn
<1>14. /\ [k \in 1..K |-> Writer!Value(buffer, type + 5 + 16 * (k - 1), 8)] = meta.offsets
       /\ [k \in 1..K |-> Writer!Value(buffer, (type + 5 + 16 * (k - 1)) + 8, 8)] = meta.sizes
  BY <1>9, <1>12
<1> QED
  BY <1>1, <1>7, <1>10, <1>11, <1>13, <1>14, Zenon DEF Parsed

\* The first elements of q, and one more.
LEMMA PrefixGrows ==
  ASSUME NEW q, NEW j, j \in Nat, NEW i, i = j + 1
  PROVE  [c \in 1..i |-> q[c]] = Append([c \in 1..j |-> q[c]], q[i])
<1>1. PICK x, v : x = [c \in 1..j |-> q[c]] /\ v = q[i]
  OBVIOUS
<1>2. PICK S : S = {q[c] : c \in 1..i}
  OBVIOUS
<1>3. x \in [1..j -> S] /\ v \in S
  <2>1. i \in 1..i /\ \A c \in 1..j : c \in 1..i
    OBVIOUS
  <2> QED
    BY <1>1, <1>2, <2>1
<1>4. x \in Seq(S) /\ Len(x) = j
  BY ONLY j \in Nat, <1>3, IsSequence
<1>5. /\ Append(x, v) \in Seq(S) /\ Len(Append(x, v)) = Len(x) + 1
      /\ \A c \in 1..Len(x) : Append(x, v)[c] = x[c]
      /\ Append(x, v)[Len(x) + 1] = v
  BY ONLY <1>3, <1>4, AppendProperties
<1>6. PICK y : y = Append(x, v)
  OBVIOUS
<1>7. y \in Seq(S) /\ Len(y) = i /\ \A c \in 1..i : y[c] = q[c]
  <2>1. y \in Seq(S) /\ Len(y) = i /\ y[i] = v /\ \A c \in 1..j : y[c] = x[c]
    BY ONLY j \in Nat, i = j + 1, <1>4, <1>5, <1>6
  <2>2. \A c \in 1..j : x[c] = q[c]
    BY ONLY <1>1
  <2>3. \A c \in 1..i : c = i \/ c \in 1..j
    BY ONLY j \in Nat, i = j + 1
  <2> QED
    BY ONLY <1>1, <2>1, <2>2, <2>3
<1>8. y = [c \in 1..i |-> y[c]]
  BY <1>7, LenProperties
<1> QED
  BY <1>1, <1>6, <1>7, <1>8

\* What one more turn of the loop over the columns makes of what is parsed.
After(before, buffer) ==
  LET column == Writer!ParseColumn(buffer, before.offset)
  IN IF before = Writer!Misread \/ column = Writer!Misread THEN Writer!Misread
     ELSE [columns |-> Append(before.columns, column), offset |-> column.next]

\* F has what the loop has made behind each column.
Parses(F, buffer, n) ==
  F = [i \in 0..n |-> IF i = 0 THEN [columns |-> <<>>, offset |-> 4] ELSE After(F[i - 1], buffer)]

\* Columns that are read one behind the other are all read.
LEMMA ColumnsAreParsed ==
  ASSUME NEW n, n \in Nat, NEW buffer, NEW P, P[0] = 4, NEW q,
         \A c \in 1..n : /\ Writer!ParseColumn(buffer, P[c - 1]) = q[c]
                         /\ q[c].next = P[c] /\ q[c] # Writer!Misread
  PROVE  Writer!ParseColumns(buffer, n) = [columns |-> [c \in 1..n |-> q[c]], offset |-> P[n]]
<1>1. Writer!ParseColumns(buffer, n) = (CHOOSE F : Parses(F, buffer, n))[n]
  BY Zenon DEF Writer!ParseColumns, Parses, After
<1>2. PICK C : C = [i \in 0..n |-> [c \in 1..i |-> q[c]]]
  OBVIOUS
<1>3. C[0] = <<>> /\ \A i \in 1..n : C[i] = Append(C[i - 1], q[i])
  <2>1. C[0] = <<>>
    <3>1. C[0] = [c \in 1..0 |-> q[c]]
      BY <1>2
    <3> QED
      BY <3>1
  <2>2. ASSUME NEW i \in 1..n
        PROVE  C[i] = Append(C[i - 1], q[i])
    <3>1. PICK j : j = i - 1
      OBVIOUS
    <3>2. j \in Nat /\ j \in 0..n /\ i \in 0..n /\ i = j + 1
      BY <3>1
    <3>3. [c \in 1..i |-> q[c]] = Append([c \in 1..j |-> q[c]], q[i])
      BY ONLY <3>2, PrefixGrows
    <3>4. C[i] = [c \in 1..i |-> q[c]] /\ C[j] = [c \in 1..j |-> q[c]]
      BY <1>2, <3>2
    <3> QED
      BY ONLY <3>1, <3>3, <3>4
  <2> QED
    BY <2>1, <2>2
<1>4. PICK G : G = [i \in 0..n |-> [columns |-> C[i], offset |-> P[i]]]
  OBVIOUS
<1>5. Parses(G, buffer, n)
  <2>1. G[0] = [columns |-> <<>>, offset |-> 4]
    BY <1>3, <1>4
  <2>2. ASSUME NEW i \in 1..n
        PROVE  G[i] = After(G[i - 1], buffer)
    <3>1. i - 1 \in 0..n /\ i \in 0..n
      OBVIOUS
    <3>2. PICK before, c, p : before = G[i - 1] /\ c = C[i - 1] /\ p = P[i - 1]
      OBVIOUS
    <3>3. before = [columns |-> c, offset |-> p]
      BY <1>4, <3>1, <3>2
    <3>4. before.columns = c /\ before.offset = p /\ before # Writer!Misread
      BY ONLY <3>3 DEF Writer!Misread
    <3>5. Writer!ParseColumn(buffer, p) = q[i] /\ q[i].next = P[i] /\ q[i] # Writer!Misread
      BY <3>2
    <3>6. After(before, buffer) = [columns |-> Append(c, q[i]), offset |-> P[i]]
      BY ONLY <3>4, <3>5, Zenon DEF After
    <3>7. G[i] = [columns |-> C[i], offset |-> P[i]] /\ C[i] = Append(c, q[i])
      BY <1>3, <1>4, <3>1, <3>2
    <3> QED
      BY ONLY <3>2, <3>6, <3>7
  <2>3. \A i \in 0..n : i = 0 \/ i \in 1..n
    OBVIOUS
  <2>4. \A i \in 0..n :
          G[i] = IF i = 0 THEN [columns |-> <<>>, offset |-> 4] ELSE After(G[i - 1], buffer)
    BY ONLY <2>1, <2>2, <2>3, Zenon
  <2>5. G = [i \in 0..n |-> G[i]]
    BY <1>4
  <2> QED
    BY ONLY <2>4, <2>5, Zenon DEF Parses
<1>6. PICK F : F = CHOOSE H : Parses(H, buffer, n)
  OBVIOUS
<1>7. Parses(F, buffer, n)
  BY <1>5, <1>6, Zenon
<1>8. F[0] = G[0] /\ \A i \in 1..n : F[i - 1] = G[i - 1] => F[i] = G[i]
  <2>1. \A H : Parses(H, buffer, n) =>
          /\ H[0] = [columns |-> <<>>, offset |-> 4]
          /\ \A i \in 1..n : H[i] = After(H[i - 1], buffer)
    <3>1. 0 \in 0..n /\ \A i \in 1..n : i \in 0..n /\ i # 0
      OBVIOUS
    <3> QED
      BY <3>1, Zenon DEF Parses
  <2>2. /\ F[0] = [columns |-> <<>>, offset |-> 4] /\ G[0] = [columns |-> <<>>, offset |-> 4]
        /\ \A i \in 1..n : F[i] = After(F[i - 1], buffer) /\ G[i] = After(G[i - 1], buffer)
    BY ONLY <1>5, <1>7, <2>1, Zenon
  <2> QED
    BY ONLY <2>2, Zenon
<1>9. F[n] = G[n]
  <2> DEFINE T == {i \in Nat : i <= n => F[i] = G[i]}
  <2>1. 0 \in T
    BY <1>8
  <2>2. ASSUME NEW i \in Nat, i \in T
        PROVE  i + 1 \in T
    <3>1. CASE i + 1 <= n
      <4>1. i + 1 \in 1..n /\ (i + 1) - 1 = i /\ i <= n
        BY <3>1
      <4> QED
        BY <1>8, <2>2, <4>1
    <3>2. CASE ~(i + 1 <= n)
      BY <3>2
    <3> QED
      BY <3>1, <3>2
  <2> HIDE DEF T
  <2>3. n \in T
    BY <2>1, <2>2, SetInduction
  <2> QED
    BY <2>3 DEF T
<1>10. PICK x, p : x = [c \in 1..n |-> q[c]] /\ p = P[n]
  OBVIOUS
<1>11. n \in 0..n /\ C[n] = x
  BY ONLY n \in Nat, <1>2, <1>10
<1>12. G[n] = [columns |-> x, offset |-> p]
  BY ONLY <1>4, <1>10, <1>11
<1>13. Writer!ParseColumns(buffer, n) = F[n]
  BY ONLY <1>1, <1>6, Zenon
<1> QED
  BY ONLY <1>9, <1>10, <1>12, <1>13, Zenon

-----------------------------------------------------------------------------
(* ColumnarFile: what the reader makes of the table. *)

\* The n bytes of d behind the first offset ones.
IsSlice(u, d, offset, n) == /\ u \in Seq(Byte) /\ Len(u) = n
                            /\ \A i \in 1..n : u[i] = d[offset + i]

\* What SubSeq makes is such a part.
LEMMA SliceIs ==
  ASSUME NEW d, d \in Seq(Byte), NEW offset, offset \in Nat, NEW n, n \in Nat,
         offset + n <= Len(d)
  PROVE  IsSlice(SubSeq(d, offset + 1, offset + n), d, offset, n)
<1>1. PICK L, u : L = Len(d) /\ u = SubSeq(d, offset + 1, offset + n)
  OBVIOUS
<1>2. L \in Nat /\ offset \in Nat /\ n \in Nat /\ offset + n <= L
  BY <1>1, LenProperties
<1>3. /\ offset + 1 \in Int /\ offset + n \in Int /\ (offset + n) - (offset + 1) + 1 = n
      /\ (offset + 1 <= offset + n => n >= 1) /\ (~(offset + 1 <= offset + n) => n = 0)
      /\ \A i \in (offset + 1)..(offset + n) : i \in 1..L
      /\ \A i \in 1..n : (offset + 1) + i - 1 = offset + i
  BY ONLY <1>2
<1>4. \A i \in (offset + 1)..(offset + n) : d[i] \in Byte
  BY <1>1, <1>3, ElementOfSeq
<1>5. /\ u \in Seq(Byte)
      /\ Len(u) = IF offset + 1 <= offset + n THEN (offset + n) - (offset + 1) + 1 ELSE 0
      /\ \A i \in 1..((offset + n) - (offset + 1) + 1) : u[i] = d[(offset + 1) + i - 1]
  BY ONLY <1>1, <1>3, <1>4, SubSeqProperties
<1>6. Len(u) = n /\ \A i \in 1..n : u[i] = d[offset + i]
  BY ONLY <1>3, <1>5
<1> QED
  BY <1>1, <1>5, <1>6 DEF IsSlice

\* The entry of column c.
EntryOf(c) == EntryBytes(metadata[c], schema[c])

\* P has where the entries of the first n columns end.
EntriesEnd(P, n) ==
  /\ P[0] = 0 /\ P[n] = Len(Entries)
  /\ \A c \in 1..n :
       /\ P[c - 1] \in Nat /\ P[c] = P[c - 1] + Len(EntryOf(c)) /\ P[c] <= P[n]
       /\ EntryOf(c) \in Seq(Byte)
       /\ \A j \in 1..Len(EntryOf(c)) : Entries[P[c - 1] + j] = EntryOf(c)[j]

\* The entries are one behind the other.
LEMMA EntriesAre ==
  ASSUME WriterInv, NEW n, n = Len(schema)
  PROVE  n \in Nat /\ DOMAIN schema = 1..n /\ \E P : EntriesEnd(P, n)
<1>1. n \in Nat /\ DOMAIN schema = 1..n
  BY SchemaHas DEF WriterInv
<1>2. PICK parts : parts = [c \in 1..n |-> EntryOf(c)]
  OBVIOUS
<1>3. \A c \in 1..n : parts[c] = EntryOf(c) /\ EntryOf(c) \in Seq(Byte) /\ parts[c] \in Seq(Byte)
  BY <1>1, <1>2, TableIs DEF EntryOf
<1>4. parts \in Seq(Seq(Byte)) /\ Len(parts) = n
  <2>1. parts \in [1..n -> Seq(Byte)]
    BY <1>2, <1>3
  <2> QED
    BY <1>1, <2>1, IsSequence
<1>5. Entries = FlattenSeq(parts)
  BY <1>1, <1>2, TableIs DEF Entries, EntryOf
<1>6. PICK P : Ends(P, parts)
  BY ONLY <1>4, EndsExist
<1>7. PICK w : w = FlattenSeq(parts)
  OBVIOUS
<1>8. /\ Len(w) = P[n]
      /\ \A i \in 1..n : \A j \in 1..Len(parts[i]) : w[P[i - 1] + j] = parts[i][j]
  <2>1. /\ Len(FlattenSeq(parts)) = P[Len(parts)]
        /\ \A i \in 1..Len(parts) : \A j \in 1..Len(parts[i]) :
             FlattenSeq(parts)[P[i - 1] + j] = parts[i][j]
    <3>1. parts \in Seq(Seq(Byte)) /\ Ends(P, parts)
      BY <1>4, <1>6
    <3>2. Len(FlattenSeq(parts)) = P[Len(parts)]
      BY ONLY <3>1, FlattenPlaces, SMTT(30)
    <3>3. \A i \in 1..Len(parts) : \A j \in 1..Len(parts[i]) :
             FlattenSeq(parts)[P[i - 1] + j] = parts[i][j]
      BY ONLY <3>1, FlattenPlaces, SMTT(30)
    <3> QED
      BY ONLY <3>2, <3>3
  <2> QED
    BY ONLY <1>4, <1>7, <2>1
<1>9. \A c \in 1..n : P[c - 1] \in Nat /\ P[c] = P[c - 1] + Len(parts[c]) /\ P[c] <= P[n]
  <2>1. \A k \in 0..Len(parts) : \A i \in 0..k : P[i] <= P[k]
    BY ONLY <1>4, <1>6, EndsAscend
  <2>2. \A c \in 1..n : c - 1 \in 0..n /\ c \in 0..n /\ n \in 0..n
    BY <1>1
  <2>3. P \in [0..n -> Nat] /\ \A c \in 1..n : P[c] = P[c - 1] + Len(parts[c])
    BY <1>4, <1>6 DEF Ends
  <2> QED
    BY <1>4, <2>1, <2>2, <2>3
<1>10. P[0] = 0
  BY <1>6 DEF Ends
<1>11. EntriesEnd(P, n)
  BY <1>3, <1>5, <1>7, <1>8, <1>9, <1>10, SMTT(30) DEF EntriesEnd
<1> QED
  BY <1>1, <1>11

\* What the reader makes of the columns' metadata, if their entries end at P.
ColumnsRead(P, n) == [c \in 1..n |-> Parsed(metadata[c], schema[c], P[c - 1] + 4)]

\* The table is read from the file it is in, behind the data and before the magic.
LEMMA TableIsParsed ==
  ASSUME WriterInv, NEW n, n = Len(schema), NEW P, EntriesEnd(P, n),
         NEW buffer, buffer \in Seq(Byte), NEW L, L = Len(Entries), Len(buffer) = L + 4,
         \A i \in 1..(L + 4) : buffer[i] = Table[i]
  PROVE  /\ Writer!Value(buffer, 0, 4) = n
         /\ Writer!ParseColumns(buffer, n) = [columns |-> ColumnsRead(P, n), offset |-> P[n] + 4]
<1>1. n \in Nat /\ DOMAIN schema = 1..n /\ L \in Nat
  BY TableBytes, EntriesAre
<1>2. (\A i \in 1..4 : Table[i] = <<n, i>>) /\ \A i \in 1..L : Table[4 + i] = Entries[i]
  BY TableBytes
<1>3. Writer!Value(buffer, 0, 4) = n
  <2>1. 0 \in Nat /\ 4 \in Nat \ {0} /\ 0 + 4 <= L + 4 /\ \A i \in 1..4 : 0 + i = i /\ i \in 1..(L + 4)
    BY <1>1
  <2>2. Has(buffer, 0, n, 4)
    BY <1>2, <2>1 DEF Has
  <2>3. buffer \in Seq(Byte) /\ 0 + 4 <= Len(buffer)
    BY <2>1
  <2> QED
    BY ONLY <2>1, <2>2, <2>3, ValueIs, Zenon
<1>4. PICK Q : Q = [c \in 0..n |-> P[c] + 4]
  OBVIOUS
<1>5. Q[0] = 4 /\ Q[n] = P[n] + 4 /\ \A c \in 1..n : Q[c - 1] = P[c - 1] + 4 /\ Q[c] = P[c] + 4
  <2>1. 0 \in 0..n /\ n \in 0..n /\ \A c \in 1..n : c \in 0..n /\ c - 1 \in 0..n
    BY <1>1
  <2>2. P[0] = 0
    BY DEF EntriesEnd
  <2> QED
    BY <1>4, <2>1, <2>2
<1>6. PICK q : q = ColumnsRead(P, n)
  OBVIOUS
<1>7. ASSUME NEW c \in 1..n
      PROVE  /\ Writer!ParseColumn(buffer, Q[c - 1]) = q[c]
             /\ q[c].next = Q[c] /\ q[c] # Writer!Misread
  <2>1. PICK e, p, l : e = EntryOf(c) /\ p = P[c - 1] /\ l = Len(e)
    OBVIOUS
  <2>2. /\ p \in Nat /\ P[c] = p + l /\ p + l <= L /\ e \in Seq(Byte) /\ l \in Nat
        /\ \A j \in 1..l : Entries[p + j] = e[j]
    BY <2>1, LenProperties DEF EntriesEnd
  <2>3. Within(buffer, p + 4, e)
    <3>1. (p + 4) + l <= L + 4 /\ p + 4 \in Nat
      BY <1>1, <2>2
    <3>2. ASSUME NEW j \in 1..l
          PROVE  buffer[(p + 4) + j] = e[j]
      <4>1. (p + 4) + j \in 1..(L + 4) /\ p + j \in 1..L /\ (p + 4) + j = 4 + (p + j)
        BY <1>1, <2>2
      <4>2. buffer[(p + 4) + j] = Table[(p + 4) + j]
        BY <4>1
      <4>3. Table[4 + (p + j)] = Entries[p + j]
        BY <1>2, <4>1, Zenon
      <4> QED
        BY <2>2, <4>1, <4>2, <4>3
    <3> QED
      BY <2>1, <3>1, <3>2 DEF Within
  <2>4. /\ metadata[c] \in ChunkTable /\ Len(metadata[c].offsets) = Len(metadata[c].sizes)
        /\ schema[c].type \in ColumnType /\ schema[c].name \in Seq(Byte)
    BY <1>1, TableIs
  <2>5. Writer!ParseColumn(buffer, p + 4) = Parsed(metadata[c], schema[c], p + 4)
    <3>1. p + 4 \in Nat /\ Within(buffer, p + 4, EntryBytes(metadata[c], schema[c]))
      BY <2>1, <2>2, <2>3 DEF EntryOf
    <3> QED
      BY <2>4, <3>1, ColumnIsParsed
  <2>6. q[c] = Parsed(metadata[c], schema[c], p + 4)
    BY <1>6, <2>1 DEF ColumnsRead
  <2>7. Q[c - 1] = p + 4 /\ Q[c] = (p + 4) + l
    BY <1>5, <2>1, <2>2, SMTT(30)
  <2>8. q[c].next = (p + 4) + l
    BY <2>1, <2>6 DEF Parsed, EntryOf
  <2>9. q[c] # Writer!Misread
    <3>1. PICK r : r = Parsed(metadata[c], schema[c], p + 4)
      OBVIOUS
    <3>2. r # [misread |-> TRUE]
      BY ONLY <3>1 DEF Parsed
    <3> QED
      BY <2>6, <3>1, <3>2, Zenon DEF Writer!Misread
  <2> QED
    BY <2>5, <2>6, <2>7, <2>8, <2>9
<1>8. Writer!ParseColumns(buffer, n) = [columns |-> [c \in 1..n |-> q[c]], offset |-> Q[n]]
  BY <1>1, <1>5, <1>7, ColumnsAreParsed, SMTT(30)
<1>9. [c \in 1..n |-> q[c]] = ColumnsRead(P, n)
  BY <1>6 DEF ColumnsRead
<1> QED
  BY <1>3, <1>5, <1>8, <1>9

\* Nothing is missing from the file.
Complete == writer = "finalized" /\ disk = Meant

\* The file d: B bytes of data, L and twenty of the table, and the magic.
IsFile(d, B, L) ==
  /\ d \in Seq(Byte) /\ B \in Nat /\ L \in Nat /\ Len(d) = B + L + 24
  /\ \A i \in 1..B : d[i] = Body[i]
  /\ \A i \in 1..(L + 20) : d[B + i] = Table[i]
  /\ \A i \in 1..4 : d[B + L + 20 + i] = <<Magic, i>>

\* So is a complete one.
LEMMA CompleteIs ==
  ASSUME WriterInv, Complete
  PROVE  IsFile(disk, current_offset, Len(Entries))
<1>0. PICK B, L : B = current_offset /\ L = Len(Entries)
  OBVIOUS
<1>1. PICK t, m, x, y : t = Table /\ m = Bytes(Magic, 4) /\ x = t \o m /\ y = Body
  OBVIOUS
<1>2. /\ t \in Seq(Byte) /\ L \in Nat /\ L + 20 = Len(t) /\ m \in Seq(Byte) /\ 4 = Len(m)
      /\ y \in Seq(Byte) /\ B = Len(y) /\ B \in Nat
  <2>1. t \in Seq(Byte) /\ L \in Nat /\ L + 20 = Len(t)
    BY <1>0, <1>1, TableBytes
  <2>2. y \in Seq(Byte) /\ Len(y) = B
    BY <1>0, <1>1, DataIs DEF Complete
  <2> QED
    BY <1>1, <2>1, <2>2, BytesAre, LenProperties
<1>3. IsJoin(x, t, L + 20, m, 4)
  BY ONLY <1>1, <1>2, JoinIs
<1>4. x \in Seq(Byte) /\ (L + 20) + 4 = Len(x)
  BY <1>3 DEF IsJoin
<1>5. PICK d : d = y \o x
  OBVIOUS
<1>6. IsJoin(d, y, B, x, (L + 20) + 4)
  BY ONLY <1>2, <1>4, <1>5, JoinIs
<1>7. disk = d
  BY <1>1, <1>5 DEF Complete, Meant
<1>8. /\ d \in Seq(Byte) /\ Len(d) = B + ((L + 20) + 4)
      /\ \A i \in 1..B : d[i] = y[i]
      /\ \A i \in 1..((L + 20) + 4) : d[B + i] = x[i]
      /\ \A i \in 1..(L + 20) : x[i] = t[i]
      /\ \A i \in 1..4 : x[(L + 20) + i] = m[i]
  BY <1>3, <1>6, Zenon DEF IsJoin
<1>9. /\ \A i \in 1..(L + 20) : i \in 1..((L + 20) + 4)
      /\ \A i \in 1..4 : /\ (L + 20) + i \in 1..((L + 20) + 4)
                         /\ B + ((L + 20) + i) = B + L + 20 + i
      /\ B + ((L + 20) + 4) = B + L + 24
      /\ B + L + 24 \in Nat
  BY ONLY <1>2
<1>10. \A i \in 1..4 : m[i] = <<Magic, i>>
  BY <1>1 DEF Bytes
<1>11. \A i \in 1..(L + 20) : d[B + i] = t[i]
  BY <1>8, <1>9, Zenon
<1>12. \A i \in 1..4 : d[B + L + 20 + i] = <<Magic, i>>
  <2> TAKE i \in 1..4
  <2>1. d[B + ((L + 20) + i)] = x[(L + 20) + i] /\ x[(L + 20) + i] = m[i] /\ m[i] = <<Magic, i>>
    BY <1>8, <1>9, <1>10, Zenon
  <2> QED
    BY <1>9, <2>1, Zenon
<1> QED
  <2>1. Len(d) = B + L + 24 /\ (\A i \in 1..B : d[i] = Body[i]) /\ \A i \in 1..(L + 20) : d[B + i] = Table[i]
    BY <1>1, <1>8, <1>9, <1>11
  <2>2. IsFile(d, B, L)
    BY <1>2, <1>8, <1>12, <2>1 DEF IsFile
  <2> QED
    BY <1>0, <1>7, <2>2

\* The metadata are read from a complete file.
LEMMA MetadataIs ==
  ASSUME WriterInv, Complete, NEW n, n = Len(schema), NEW P, EntriesEnd(P, n)
  PROVE  Writer!ParseMetadata(disk) = [num_rows |-> num_rows, columns |-> ColumnsRead(P, n)]
<1>1. PICK d, B, L, N, r : /\ d = disk /\ B = current_offset /\ L = Len(Entries) /\ N = Len(disk)
                           /\ r = num_rows
  OBVIOUS
<1>2. /\ d \in Seq(Byte) /\ B \in Nat /\ L \in Nat /\ N \in Nat /\ N = B + L + 24 /\ N = Len(d)
      /\ \A i \in 1..(L + 20) : d[B + i] = Table[i]
      /\ \A i \in 1..4 : d[B + L + 20 + i] = <<Magic, i>>
  <2>1. IsFile(disk, current_offset, Len(Entries))
    BY CompleteIs
  <2>2. IsFile(d, B, L)
    BY ONLY <1>1, <2>1
  <2> QED
    BY <1>1, <2>2, LenProperties DEF IsFile
<1>3. \A i \in 1..8 : Table[L + 4 + i] = <<r, i>> /\ Table[L + 12 + i] = <<B, i>>
  BY <1>1, TableBytes
<1>4. /\ N - 20 = B + L + 4 /\ N - 12 = B + L + 12 /\ N - 20 \in Nat /\ N - 12 \in Nat
      /\ (N - 20) + 8 <= N /\ (N - 12) + 8 <= N /\ 8 \in Nat \ {0} /\ N >= 4 /\ ~(N < 24)
      /\ \A i \in 1..8 : /\ L + 4 + i \in 1..(L + 20) /\ L + 12 + i \in 1..(L + 20)
                         /\ (N - 20) + i = B + (L + 4 + i) /\ (N - 12) + i = B + (L + 12 + i)
      /\ \A i \in 1..4 : N - 4 + i = B + L + 20 + i
      /\ N - 20 = B + (L + 4) /\ L + 4 \in Nat /\ B + (L + 4) <= N
      /\ \A i \in 1..(L + 4) : i \in 1..(L + 20)
  BY ONLY <1>2
<1>5. Has(d, N - 20, r, 8) /\ Has(d, N - 12, B, 8)
  <2>1. ASSUME NEW i \in 1..8
        PROVE  d[(N - 20) + i] = <<r, i>> /\ d[(N - 12) + i] = <<B, i>>
    <3>1. d[B + (L + 4 + i)] = Table[L + 4 + i] /\ d[B + (L + 12 + i)] = Table[L + 12 + i]
      BY <1>2, <1>4, Zenon
    <3> QED
      BY <1>3, <1>4, <3>1, Zenon
  <2> QED
    BY <2>1 DEF Has
<1>6. Writer!Value(d, N - 20, 8) = r /\ Writer!Value(d, N - 12, 8) = B
  <2>1. (N - 20) + 8 <= Len(d) /\ (N - 12) + 8 <= Len(d)
    BY <1>2, <1>4
  <2>2. Writer!Value(d, N - 20, 8) = r
    BY ONLY <1>2, <1>4, <1>5, <2>1, ValueIs, Zenon
  <2>3. Writer!Value(d, N - 12, 8) = B
    BY ONLY <1>2, <1>4, <1>5, <2>1, ValueIs, Zenon
  <2> QED
    BY <2>2, <2>3
<1>7. Writer!EndsWithMagic(d)
  <2>1. \A i \in 1..4 : d[N - 4 + i] = <<Magic, i>>
    BY <1>2, <1>4, Zenon
  <2> QED
    BY <1>2, <2>1, MagicIs, MagicEnds
<1>8. PICK buffer : buffer = SubSeq(d, B + 1, N - 20)
  OBVIOUS
<1>9. buffer \in Seq(Byte) /\ Len(buffer) = L + 4 /\ \A i \in 1..(L + 4) : buffer[i] = Table[i]
  <2>1. B + (L + 4) <= Len(d)
    BY <1>2, <1>4
  <2>2. IsSlice(SubSeq(d, B + 1, B + (L + 4)), d, B, L + 4)
    BY ONLY <1>2, <1>4, <2>1, SliceIs
  <2>3. IsSlice(buffer, d, B, L + 4)
    BY ONLY <1>4, <1>8, <2>2
  <2>4. /\ buffer \in Seq(Byte) /\ Len(buffer) = L + 4
        /\ \A i \in 1..(L + 4) : buffer[i] = d[B + i]
    BY ONLY <2>3 DEF IsSlice
  <2> QED
    BY <1>2, <1>4, <2>4, Zenon
<1>10. PICK cs, p, parsed : /\ cs = ColumnsRead(P, n) /\ p = P[n] + 4
                            /\ parsed = [columns |-> cs, offset |-> p]
  OBVIOUS
<1>11. Writer!Value(buffer, 0, 4) = n /\ Writer!ParseColumns(buffer, n) = parsed
  BY <1>1, <1>9, <1>10, TableIsParsed
<1>12. n \in Nat
  BY EntriesAre
<1>13. parsed # Writer!Misread /\ parsed.columns = cs
  <2>1. parsed # [misread |-> TRUE] /\ parsed.columns = cs
    BY ONLY <1>10
  <2> QED
    BY <2>1, Zenon DEF Writer!Misread
<1>14. Writer!ParseMetadata(d) = [num_rows |-> r, columns |-> parsed.columns]
  BY <1>2, <1>4, <1>6, <1>7, <1>8, <1>11, <1>12, <1>13, Zenon DEF Writer!ParseMetadata
<1> QED
  BY <1>1, <1>10, <1>13, <1>14

-----------------------------------------------------------------------------
(* ColumnarFormat: what the reader makes of a column's bytes. *)

\* What one more turn of the loop over a column's strings makes of what is read.
AfterText(before, buffer) ==
  LET length == Writer!Value(buffer, before.offset, 4)
      end    == before.offset + 4 + length
  IN IF before.offset >= Len(buffer) THEN before
     ELSE IF length \notin Nat
       THEN [offset |-> Len(buffer), texts |-> Append(before.texts, Garbage)]
     ELSE [offset |-> end, texts  |-> Append(before.texts, SubSeq(buffer, before.offset + 5, end))]

\* F has what the loop has made behind each turn.
ReadsTexts(F, buffer, n) ==
  F = [i \in 0..n |-> IF i = 0 THEN [offset |-> 0, texts |-> <<>>] ELSE AfterText(F[i - 1], buffer)]

\* The strings of col are in the buffer, one behind the other, and end at P.
TextsIn(buffer, P, col, n) ==
  /\ P[0] = 0 /\ P[n] = Len(buffer)
  /\ \A i \in 1..n :
       /\ P[i - 1] \in Nat /\ P[i - 1] < Len(buffer) /\ Len(col[i]) \in Nat
       /\ P[i] = P[i - 1] + 4 + Len(col[i])
       /\ Writer!Value(buffer, P[i - 1], 4) = Len(col[i])
       /\ SubSeq(buffer, P[i - 1] + 5, P[i]) = col[i]

\* Strings that are in the buffer one behind the other are all read.
LEMMA TextsAreRead ==
  ASSUME NEW buffer, NEW N, N = Len(buffer), N \in Nat, NEW n, n \in 0..N, NEW P, NEW col,
         TextsIn(buffer, P, col, n)
  PROVE  Writer!Strings(buffer) = [i \in 1..n |-> col[i]]
<1>1. Writer!Strings(buffer) = (CHOOSE F : ReadsTexts(F, buffer, N))[N].texts
  <2>1. Writer!Strings(buffer) = (CHOOSE F : ReadsTexts(F, buffer, Len(buffer)))[Len(buffer)].texts
    BY Zenon DEF Writer!Strings, ReadsTexts, AfterText
  <2> QED
    BY ONLY <2>1, N = Len(buffer)
<1>2. PICK C : C = [i \in 0..n |-> [c \in 1..i |-> col[c]]]
  OBVIOUS
<1>3. C[0] = <<>> /\ \A i \in 1..n : C[i] = Append(C[i - 1], col[i])
  <2>1. C[0] = <<>>
    <3>1. C[0] = [c \in 1..0 |-> col[c]]
      BY <1>2
    <3> QED
      BY <3>1
  <2>2. ASSUME NEW i \in 1..n
        PROVE  C[i] = Append(C[i - 1], col[i])
    <3>1. PICK j : j = i - 1
      OBVIOUS
    <3>2. j \in Nat /\ j \in 0..n /\ i \in 0..n /\ i = j + 1
      BY <3>1
    <3>3. [c \in 1..i |-> col[c]] = Append([c \in 1..j |-> col[c]], col[i])
      BY ONLY <3>2, PrefixGrows
    <3>4. C[i] = [c \in 1..i |-> col[c]] /\ C[j] = [c \in 1..j |-> col[c]]
      BY <1>2, <3>2
    <3> QED
      BY ONLY <3>1, <3>3, <3>4
  <2> QED
    BY <2>1, <2>2
<1>4. PICK H : H = [i \in 0..n |-> [offset |-> P[i], texts |-> C[i]]]
  OBVIOUS
<1>5. PICK G : G = [i \in 0..N |-> IF i <= n THEN H[i] ELSE H[n]]
  OBVIOUS
<1>6. H[0] = [offset |-> 0, texts |-> <<>>] /\ \A i \in 1..n : H[i] = AfterText(H[i - 1], buffer)
  <2>1. H[0] = [offset |-> 0, texts |-> <<>>]
    BY <1>3, <1>4 DEF TextsIn
  <2>2. ASSUME NEW i \in 1..n
        PROVE  H[i] = AfterText(H[i - 1], buffer)
    <3>1. i - 1 \in 0..n /\ i \in 0..n
      OBVIOUS
    <3>2. PICK before, c, p, l : /\ before = H[i - 1] /\ c = C[i - 1] /\ p = P[i - 1]
                                 /\ l = Len(col[i])
      OBVIOUS
    <3>3. before = [offset |-> p, texts |-> c]
      BY <1>4, <3>1, <3>2
    <3>4. before.texts = c /\ before.offset = p
      BY ONLY <3>3
    <3>5. /\ p \in Nat /\ p < Len(buffer) /\ l \in Nat /\ P[i] = p + 4 + l
          /\ Writer!Value(buffer, p, 4) = l /\ SubSeq(buffer, p + 5, P[i]) = col[i]
      BY <3>2 DEF TextsIn
    <3>6. ~(p >= Len(buffer))
      BY <3>5
    <3>7. AfterText(before, buffer) = [offset |-> P[i], texts |-> Append(c, col[i])]
      BY ONLY <3>4, <3>5, <3>6, Zenon DEF AfterText
    <3>8. H[i] = [offset |-> P[i], texts |-> C[i]] /\ C[i] = Append(c, col[i])
      BY <1>3, <1>4, <3>1, <3>2
    <3> QED
      BY ONLY <3>2, <3>7, <3>8
  <2> QED
    BY <2>1, <2>2
<1>7. AfterText(H[n], buffer) = H[n]
  <2>1. H[n] = [offset |-> P[n], texts |-> C[n]]
    BY <1>4
  <2>2. H[n].offset = P[n]
    BY ONLY <2>1
  <2>3. H[n].offset >= Len(buffer)
    BY <2>2 DEF TextsIn
  <2> QED
    BY ONLY <2>3, Zenon DEF AfterText
<1>8. ReadsTexts(G, buffer, N)
  <2>1. G[0] = [offset |-> 0, texts |-> <<>>]
    BY <1>5, <1>6
  <2>2. ASSUME NEW i \in 1..N
        PROVE  G[i] = AfterText(G[i - 1], buffer)
    <3>1. i - 1 \in 0..N /\ i \in 0..N
      OBVIOUS
    <3>2. CASE i <= n
      <4>1. i \in 1..n /\ i - 1 <= n
        BY <3>2
      <4>2. G[i] = H[i] /\ G[i - 1] = H[i - 1]
        BY <1>5, <3>1, <3>2, <4>1
      <4> QED
        BY <1>6, <4>1, <4>2
    <3>3. CASE ~(i <= n)
      <4>1. i - 1 <= n => i - 1 = n
        BY <3>3
      <4>2. G[i] = H[n] /\ G[i - 1] = H[n]
        BY <1>5, <3>1, <3>3, <4>1
      <4> QED
        BY <1>7, <4>2
    <3> QED
      BY <3>2, <3>3
  <2>3. \A i \in 0..N : i = 0 \/ i \in 1..N
    OBVIOUS
  <2>4. \A i \in 0..N :
          G[i] = IF i = 0 THEN [offset |-> 0, texts |-> <<>>] ELSE AfterText(G[i - 1], buffer)
    BY ONLY <2>1, <2>2, <2>3, Zenon
  <2>5. G = [i \in 0..N |-> G[i]]
    BY <1>5
  <2> QED
    BY ONLY <2>4, <2>5, Zenon DEF ReadsTexts
<1>9. PICK F : F = CHOOSE X : ReadsTexts(X, buffer, N)
  OBVIOUS
<1>10. ReadsTexts(F, buffer, N)
  BY <1>8, <1>9, Zenon
<1>11. F[0] = G[0] /\ \A i \in 1..N : F[i - 1] = G[i - 1] => F[i] = G[i]
  <2>1. \A X : ReadsTexts(X, buffer, N) =>
          /\ X[0] = [offset |-> 0, texts |-> <<>>]
          /\ \A i \in 1..N : X[i] = AfterText(X[i - 1], buffer)
    <3>1. 0 \in 0..N /\ \A i \in 1..N : i \in 0..N /\ i # 0
      OBVIOUS
    <3> QED
      BY <3>1, Zenon DEF ReadsTexts
  <2>2. /\ F[0] = [offset |-> 0, texts |-> <<>>] /\ G[0] = [offset |-> 0, texts |-> <<>>]
        /\ \A i \in 1..N : F[i] = AfterText(F[i - 1], buffer) /\ G[i] = AfterText(G[i - 1], buffer)
    BY ONLY <1>8, <1>10, <2>1, Zenon
  <2> QED
    BY ONLY <2>2, Zenon
<1>12. F[N] = G[N]
  <2> DEFINE T == {i \in Nat : i <= N => F[i] = G[i]}
  <2>1. 0 \in T
    BY <1>11
  <2>2. ASSUME NEW i \in Nat, i \in T
        PROVE  i + 1 \in T
    <3>1. CASE i + 1 <= N
      <4>1. i + 1 \in 1..N /\ (i + 1) - 1 = i /\ i <= N
        BY <3>1
      <4> QED
        BY <1>11, <2>2, <4>1
    <3>2. CASE ~(i + 1 <= N)
      BY <3>2
    <3> QED
      BY <3>1, <3>2
  <2> HIDE DEF T
  <2>3. N \in T
    BY <2>1, <2>2, SetInduction
  <2> QED
    BY <2>3 DEF T
<1>13. G[N] = H[n]
  <2>1. N \in 0..N /\ (N <= n => N = n)
    OBVIOUS
  <2> QED
    BY <1>5, <2>1
<1>14. H[n] = [offset |-> P[n], texts |-> [c \in 1..n |-> col[c]]]
  <2>1. n \in 0..n
    OBVIOUS
  <2>2. H[n] = [offset |-> P[n], texts |-> C[n]]
    BY ONLY <1>4, <2>1
  <2>3. C[n] = [c \in 1..n |-> col[c]]
    BY ONLY <1>2, <2>1
  <2> QED
    BY ONLY <2>2, <2>3
<1> QED
  <2>1. PICK p, c : p = P[n] /\ c = [i \in 1..n |-> col[i]]
    OBVIOUS
  <2>2. F[N] = [offset |-> p, texts |-> c]
    BY ONLY <1>12, <1>13, <1>14, <2>1
  <2>3. F[N].texts = c
    BY ONLY <2>2
  <2>4. Writer!Strings(buffer) = F[N].texts
    BY ONLY <1>1, <1>9, Zenon
  <2> QED
    BY ONLY <2>1, <2>3, <2>4

\* A string behind its length.
LengthAnd(s) == Bytes(Len(s), 4) \o s

\* Strings that are encoded are read back.
LEMMA TextsComeBack ==
  ASSUME NEW col, IsColumn(StringType, col)
  PROVE  Writer!Strings(Encode(StringType, col)) = col
<1>1. PICK n : n = Len(col)
  OBVIOUS
<1>2. /\ col \in Seq(Seq(Byte)) /\ n \in Nat /\ DOMAIN col = 1..n
      /\ \A i \in 1..n : col[i] \in Seq(Byte) /\ Len(col[i]) \in Nat
  <2>1. col \in Seq(Seq(Byte))
    BY DEF IsColumn
  <2> QED
    BY <1>1, <2>1, ElementOfSeq, LenProperties
<1>3. PICK parts : parts = [i \in 1..n |-> LengthAnd(col[i])]
  OBVIOUS
<1>4. ASSUME NEW i \in 1..n
      PROVE  /\ parts[i] = LengthAnd(col[i]) /\ parts[i] \in Seq(Byte)
             /\ Len(parts[i]) = 4 + Len(col[i])
             /\ \A j \in 1..4 : parts[i][j] = <<Len(col[i]), j>>
             /\ \A j \in 1..Len(col[i]) : parts[i][4 + j] = col[i][j]
  <2>1. PICK s, l, m, p : s = col[i] /\ l = Len(s) /\ m = Bytes(l, 4) /\ p = m \o s
    OBVIOUS
  <2>2. s \in Seq(Byte) /\ l \in Nat
    BY <1>2, <2>1
  <2>3. m \in Seq(Byte) /\ 4 = Len(m)
    BY <2>1, <2>2, BytesAre
  <2>4. IsJoin(p, m, 4, s, l)
    BY ONLY <2>1, <2>2, <2>3, JoinIs
  <2>5. /\ p \in Seq(Byte) /\ Len(p) = 4 + l /\ \A j \in 1..4 : p[j] = m[j]
        /\ \A j \in 1..l : p[4 + j] = s[j]
    BY <2>4 DEF IsJoin
  <2>6. \A j \in 1..4 : m[j] = <<l, j>>
    BY <2>1 DEF Bytes
  <2>7. parts[i] = LengthAnd(col[i]) /\ LengthAnd(col[i]) = p
    BY <1>3, <2>1 DEF LengthAnd
  <2> QED
    BY <2>1, <2>5, <2>6, <2>7
<1>5. parts \in Seq(Seq(Byte)) /\ Len(parts) = n
  <2>1. parts \in [1..n -> Seq(Byte)]
    BY <1>3, <1>4
  <2> QED
    BY <1>2, <2>1, IsSequence
<1>6. Encode(StringType, col) = FlattenSeq(parts)
  <2>1. Encode(StringType, col) = FlattenSeq([i \in DOMAIN col |-> LengthAnd(col[i])])
    BY Zenon DEF Encode, LengthAnd
  <2> QED
    BY <1>2, <1>3, <2>1
<1>7. PICK P : Ends(P, parts)
  BY ONLY <1>5, EndsExist
<1>8. PICK w : w = FlattenSeq(parts)
  OBVIOUS
<1>9. /\ w \in Seq(Byte) /\ Len(w) = P[n]
      /\ \A i \in 1..n : \A j \in 1..Len(parts[i]) : w[P[i - 1] + j] = parts[i][j]
  <2>1. parts \in Seq(Seq(Byte)) /\ Ends(P, parts)
    BY <1>5, <1>7
  <2>2. Len(FlattenSeq(parts)) = P[Len(parts)]
    BY ONLY <2>1, FlattenPlaces, SMTT(30)
  <2>3. \A i \in 1..Len(parts) : \A j \in 1..Len(parts[i]) :
          FlattenSeq(parts)[P[i - 1] + j] = parts[i][j]
    BY ONLY <2>1, FlattenPlaces, SMTT(30)
  <2>4. FlattenSeq(parts) \in Seq(Byte)
    BY ONLY <2>1, FlattenType
  <2> QED
    BY ONLY <1>5, <1>8, <2>2, <2>3, <2>4
<1>10. /\ P[0] = 0 /\ P \in [0..n -> Nat]
       /\ \A i \in 1..n : P[i] = P[i - 1] + Len(parts[i])
  BY <1>5, <1>7 DEF Ends
<1>11. \A i \in 1..n : /\ P[i - 1] \in Nat /\ P[i] \in Nat /\ P[i] <= P[n]
                       /\ P[i] = P[i - 1] + 4 + Len(col[i])
  <2>1. \A k \in 0..Len(parts) : \A i \in 0..k : P[i] <= P[k]
    BY ONLY <1>5, <1>7, EndsAscend
  <2>2. \A i \in 1..n : i - 1 \in 0..n /\ i \in 0..n /\ n \in 0..n
    BY <1>2
  <2>3. ASSUME NEW i \in 1..n
        PROVE  P[i] = P[i - 1] + 4 + Len(col[i])
    <3>1. PICK x, y, l, z : x = P[i - 1] /\ y = P[i] /\ l = Len(col[i]) /\ z = Len(parts[i])
      OBVIOUS
    <3>2. x \in Nat /\ l \in Nat /\ y = x + z /\ z = 4 + l
      BY <1>2, <1>4, <1>10, <2>2, <3>1
    <3>3. y = x + 4 + l
      BY ONLY <3>2
    <3> QED
      BY <3>1, <3>3
  <2> QED
    BY <1>5, <1>10, <2>1, <2>2, <2>3
<1>12. P[n] \in Nat /\ n <= P[n]
  <2> DEFINE T == {i \in Nat : i <= n => i <= P[i]}
  <2>1. 0 \in T
    BY <1>10
  <2>2. ASSUME NEW i \in Nat, i \in T
        PROVE  i + 1 \in T
    <3>1. CASE i + 1 <= n
      <4>1. PICK k, x, y, l : k = i + 1 /\ x = P[i] /\ y = P[k] /\ l = Len(col[k])
        OBVIOUS
      <4>2. k \in 1..n /\ k - 1 = i /\ i <= x
        <5>1. i <= n
          BY <1>2, <3>1
        <5>2. i <= x
          BY <2>2, <4>1, <5>1
        <5>3. k \in 1..n /\ k - 1 = i
          BY ONLY <1>2, <3>1, <4>1, i \in Nat
        <5> QED
          BY <5>2, <5>3
      <4>3. x \in Nat /\ y = x + 4 + l /\ l \in Nat
        BY <1>2, <1>11, <4>1, <4>2
      <4>4. k <= y
        BY ONLY <4>1, <4>2, <4>3, i \in Nat
      <4> QED
        BY <4>1, <4>4
    <3>2. CASE ~(i + 1 <= n)
      BY <3>2
    <3> QED
      BY <3>1, <3>2
  <2> HIDE DEF T
  <2>3. n \in T
    BY <1>2, <2>1, <2>2, SetInduction
  <2>4. n \in 0..n
    BY <1>2
  <2> QED
    BY <1>2, <1>10, <2>3, <2>4 DEF T
<1>13. ASSUME NEW i \in 1..n
       PROVE  /\ P[i - 1] < P[n]
              /\ Writer!Value(w, P[i - 1], 4) = Len(col[i])
              /\ SubSeq(w, P[i - 1] + 5, P[i]) = col[i]
  <2>1. PICK p, q, l, s, N : p = P[i - 1] /\ q = P[i] /\ l = Len(col[i]) /\ s = col[i] /\ N = P[n]
    OBVIOUS
  <2>2. p \in Nat /\ q = p + 4 + l /\ l \in Nat /\ N \in Nat /\ q <= N
    BY <1>2, <1>11, <1>12, <2>1
  <2>3. /\ p < N /\ p + 4 <= N /\ 4 \in Nat \ {0} /\ p + 4 \in Nat /\ (p + 4) + l <= N
        /\ (p + 4) + 1 = p + 5 /\ (p + 4) + l = q
        /\ (\A j \in 1..4 : j \in 1..(4 + l))
        /\ \A j \in 1..l : 4 + j \in 1..(4 + l) /\ p + (4 + j) = (p + 4) + j
    BY ONLY <2>2
  <2>4. \A j \in 1..(4 + l) : w[p + j] = parts[i][j]
    BY <1>4, <1>9, <2>1
  <2>5. w \in Seq(Byte) /\ Len(w) = N
    BY <1>9, <2>1
  <2>6. Writer!Value(w, p, 4) = l
    <3>1. \A j \in 1..4 : parts[i][j] = <<l, j>>
      BY <1>4, <2>1
    <3>2. \A j \in 1..4 : w[p + j] = <<l, j>>
      BY ONLY <2>3, <2>4, <3>1, Zenon
    <3>3. Has(w, p, l, 4)
      BY <3>2 DEF Has
    <3>4. p + 4 <= Len(w)
      BY <2>3, <2>5
    <3> QED
      BY ONLY <2>2, <2>3, <2>5, <3>3, <3>4, ValueIs, Zenon
  <2>7. SubSeq(w, p + 5, q) = s
    <3>1. (p + 4) + l <= Len(w)
      BY <2>3, <2>5
    <3>2. IsSlice(SubSeq(w, (p + 4) + 1, (p + 4) + l), w, p + 4, l)
      BY ONLY <2>2, <2>3, <2>5, <3>1, SliceIs, Zenon
    <3>3. PICK u : u = SubSeq(w, p + 5, q)
      OBVIOUS
    <3>4. IsSlice(u, w, p + 4, l)
      BY ONLY <2>3, <3>2, <3>3
    <3>5. u \in Seq(Byte) /\ Len(u) = l /\ \A j \in 1..l : u[j] = w[(p + 4) + j]
      BY <3>4 DEF IsSlice
    <3>6. \A j \in 1..l : parts[i][4 + j] = s[j]
      BY <1>4, <2>1
    <3>7. \A j \in 1..l : u[j] = s[j]
      <4> TAKE j \in 1..l
      <4>1. w[p + (4 + j)] = parts[i][4 + j] /\ p + (4 + j) = (p + 4) + j
        BY ONLY <2>3, <2>4, j \in 1..l
      <4>2. u[j] = w[(p + 4) + j] /\ parts[i][4 + j] = s[j]
        BY ONLY <3>5, <3>6, j \in 1..l
      <4> QED
        BY ONLY <4>1, <4>2
    <3>8. s \in Seq(Byte) /\ Len(s) = l
      BY <1>2, <2>1
    <3> QED
      BY ONLY <3>3, <3>5, <3>7, <3>8, SeqEqual
  <2> QED
    BY <2>1, <2>3, <2>6, <2>7
<1>14. TextsIn(w, P, col, n)
  BY <1>2, <1>9, <1>10, <1>11, <1>13 DEF TextsIn
<1>15. Writer!Strings(w) = [i \in 1..n |-> col[i]]
  <2>1. PICK N : N = Len(w)
    OBVIOUS
  <2>2. N \in Nat /\ n \in 0..N
    BY <1>2, <1>9, <1>12, <2>1
  <2> QED
    BY ONLY <1>14, <2>1, <2>2, TextsAreRead
<1>16. col = [i \in 1..n |-> col[i]]
  BY <1>1, <1>2, LenProperties
<1> QED
  BY <1>6, <1>8, <1>15, <1>16

\* The sizes of values.
LEMMA SizeIs ==
  ASSUME NEW t \in ColumnType \ {StringType}
  PROVE  ValueSize[t] \in {1, 2, 4, 8, 16} /\ Writer!ValueSize[t] = ValueSize[t]
<1>1. ValueSize[t] \in {1, 2, 4, 8, 16}
  BY DEF ColumnType, StringType, ValueSize
<1>2. Writer!ValueSize = ValueSize
  BY Zenon DEF ValueSize, Writer!ValueSize, ColumnType, Writer!ColumnType, StringType,
               Writer!StringType
<1> QED
  BY <1>1, <1>2

\* Values of one of these sizes, side by side.
LEMMA Multiples ==
  ASSUME NEW w, w \in {1, 2, 4, 8, 16}, NEW n, n \in Nat
  PROVE  /\ w * n \in Nat /\ (w * n) % w = 0 /\ (w * n) \div w = n
         /\ \A i \in 1..n : /\ w * (i - 1) \in Nat /\ w * i \in Nat
                            /\ w * i = w * (i - 1) + w /\ w * i <= w * n
<1>1. CASE w = 1
  BY <1>1
<1>2. CASE w = 2
  BY <1>2
<1>3. CASE w = 4
  BY <1>3
<1>4. CASE w = 8
  BY <1>4
<1>5. CASE w = 16
  BY <1>5
<1> QED
  BY <1>1, <1>2, <1>3, <1>4, <1>5

\* Other values that are encoded are read back.
LEMMA ValuesComeBack ==
  ASSUME NEW t \in ColumnType \ {StringType}, NEW col, IsColumn(t, col)
  PROVE  Writer!Values(Encode(t, col), Writer!ValueSize[t]) = col
<1>1. PICK n, z : n = Len(col) /\ z = ValueSize[t]
  OBVIOUS
<1>2. /\ n \in Nat /\ DOMAIN col = 1..n /\ t # StringType
      /\ \A i \in 1..n : col[i] \in Held
  BY <1>1, ElementOfSeq, LenProperties DEF IsColumn
<1>3. z \in {1, 2, 4, 8, 16} /\ Writer!ValueSize[t] = z
  BY <1>1, SizeIs
<1>4. /\ z \in Nat \ {0} /\ z * n \in Nat /\ (z * n) % z = 0 /\ (z * n) \div z = n
      /\ \A i \in 1..n : /\ z * (i - 1) \in Nat /\ z * i \in Nat
                         /\ z * i = z * (i - 1) + z /\ z * i <= z * n
  BY ONLY <1>2, <1>3, Multiples
<1>5. PICK parts : parts = [i \in 1..n |-> Bytes(col[i], z)]
  OBVIOUS
<1>6. \A i \in 1..n : /\ parts[i] = Bytes(col[i], z) /\ parts[i] \in Seq(Byte)
                      /\ Len(parts[i]) = z /\ \A j \in 1..z : parts[i][j] = <<col[i], j>>
  <2> TAKE i \in 1..n
  <2>1. parts[i] = Bytes(col[i], z)
    BY <1>5
  <2>2. Bytes(col[i], z) \in Seq(Byte) /\ Len(Bytes(col[i], z)) = z
    BY <1>2, <1>4, BytesAre
  <2>3. \A j \in 1..z : Bytes(col[i], z)[j] = <<col[i], j>>
    BY DEF Bytes
  <2> QED
    BY ONLY <2>1, <2>2, <2>3
<1>7. parts \in Seq(Seq(Byte)) /\ Len(parts) = n
  <2>1. parts \in [1..n -> Seq(Byte)]
    BY <1>5, <1>6
  <2> QED
    BY <1>2, <2>1, IsSequence
<1>8. Encode(t, col) = FlattenSeq(parts)
  <2>1. Encode(t, col) = FlattenSeq([i \in DOMAIN col |-> Bytes(col[i], ValueSize[t])])
    BY <1>2, Zenon DEF Encode
  <2> QED
    BY <1>1, <1>2, <1>5, <2>1
<1>9. PICK P : P = [i \in 0..n |-> z * i]
  OBVIOUS
<1>10. \A i \in 1..n : i \in 0..n /\ i - 1 \in 0..n /\ P[i - 1] = z * (i - 1) /\ P[i] = z * i
  <2>1. \A i \in 1..n : i \in 0..n /\ i - 1 \in 0..n
    BY <1>2
  <2> QED
    BY <1>9, <2>1
<1>11. P[0] = 0 /\ P[n] = z * n /\ P \in [0..n -> Nat]
  <2>1. 0 \in 0..n /\ n \in 0..n /\ z * 0 = 0 /\ \A i \in 0..n : i = 0 \/ i \in 1..n
    BY <1>2, <1>4
  <2>2. P[0] = 0 /\ P[n] = z * n
    BY <1>9, <2>1
  <2>3. \A i \in 0..n : P[i] \in Nat
    BY <1>4, <1>10, <2>1, <2>2
  <2> QED
    BY <1>9, <2>2, <2>3
<1>12. Ends(P, parts)
  <2>1. \A i \in 1..n : P[i] = P[i - 1] + Len(parts[i])
    <3> TAKE i \in 1..n
    <3>1. Len(parts[i]) = z /\ P[i - 1] = z * (i - 1) /\ P[i] = z * i /\ z * i = z * (i - 1) + z
      BY <1>4, <1>6, <1>10
    <3> QED
      BY ONLY <3>1
  <2> QED
    BY ONLY <1>7, <1>11, <2>1 DEF Ends
<1>13. PICK w : w = FlattenSeq(parts)
  OBVIOUS
<1>14. /\ w \in Seq(Byte) /\ Len(w) = z * n
       /\ \A i \in 1..n : \A j \in 1..Len(parts[i]) : w[P[i - 1] + j] = parts[i][j]
  <2>1. parts \in Seq(Seq(Byte)) /\ Ends(P, parts)
    BY <1>7, <1>12
  <2>2. Len(FlattenSeq(parts)) = P[Len(parts)]
    BY ONLY <2>1, FlattenPlaces, SMTT(30)
  <2>3. \A i \in 1..Len(parts) : \A j \in 1..Len(parts[i]) :
          FlattenSeq(parts)[P[i - 1] + j] = parts[i][j]
    BY ONLY <2>1, FlattenPlaces, SMTT(30)
  <2>4. FlattenSeq(parts) \in Seq(Byte)
    BY ONLY <2>1, FlattenType
  <2> QED
    BY ONLY <1>7, <1>11, <1>13, <2>2, <2>3, <2>4
<1>15. \A i \in 1..n : Writer!Value(w, z * (i - 1), z) = col[i]
  <2> TAKE i \in 1..n
  <2>1. PICK p, v : p = z * (i - 1) /\ v = col[i]
    OBVIOUS
  <2>2. p \in Nat /\ p + z <= Len(w)
    BY <1>4, <1>14, <2>1
  <2>3. Has(w, p, v, z)
    <3>1. \A j \in 1..z : w[p + j] = <<v, j>>
      <4>1. P[i - 1] = p /\ Len(parts[i]) = z /\ \A j \in 1..z : parts[i][j] = <<v, j>>
        BY <1>6, <1>10, <2>1
      <4>2. \A j \in 1..Len(parts[i]) : w[P[i - 1] + j] = parts[i][j]
        BY <1>14
      <4> QED
        BY ONLY <4>1, <4>2
    <3> QED
      BY <3>1 DEF Has
  <2>4. Writer!Value(w, p, z) = v
    BY ONLY <1>4, <1>14, <2>2, <2>3, ValueIs, Zenon
  <2> QED
    BY <2>1, <2>4
<1>16. Writer!Values(w, z) = [i \in 1..n |-> Writer!Value(w, z * (i - 1), z)]
  BY <1>4, <1>14, Zenon DEF Writer!Values
<1>17. col = [i \in 1..n |-> col[i]]
  BY <1>1, <1>2, LenProperties DEF IsColumn
<1> QED
  BY <1>3, <1>8, <1>13, <1>15, <1>16, <1>17

-----------------------------------------------------------------------------
(* ColumnarFile: the chunks of a complete file. *)

\* A column that is encoded is read back.
LEMMA ColumnComesBack ==
  ASSUME NEW t \in ColumnType, NEW col, IsColumn(t, col)
  PROVE  (IF t = Writer!StringType THEN Writer!Strings(Encode(t, col))
          ELSE Writer!Values(Encode(t, col), Writer!ValueSize[t])) = col
<1>1. Writer!StringType = StringType
  BY DEF Writer!StringType, StringType
<1>2. CASE t = StringType
  BY <1>1, <1>2, TextsComeBack
<1>3. CASE t # StringType
  BY <1>1, <1>3, ValuesComeBack
<1> QED
  BY <1>2, <1>3

\* Each chunk is read back from a complete file.
LEMMA ChunkComesBack ==
  ASSUME WriterInv, Complete, NEW c, c \in DOMAIN schema, NEW k, k \in 1..Len(written),
         NEW q, q.type = schema[c].type, q.offsets = metadata[c].offsets,
         q.sizes = metadata[c].sizes
  PROVE  Writer!GetColumnData(disk, q, k) = written[k][c]
<1>1. PICK d, B, L, f, z, x, t, col :
        /\ d = disk /\ B = current_offset /\ L = Len(Entries) /\ f = From(k, c)
        /\ z = metadata[c].sizes[k] /\ x = Data(written[k], c) /\ t = schema[c].type
        /\ col = written[k][c]
  OBVIOUS
<1>2. /\ d \in Seq(Byte) /\ B \in Nat /\ L \in Nat /\ Len(d) = B + L + 24
      /\ \A i \in 1..B : d[i] = Body[i]
  <2>1. IsFile(disk, current_offset, Len(Entries))
    BY CompleteIs
  <2>2. IsFile(d, B, L)
    BY ONLY <1>1, <2>1
  <2> QED
    BY <2>2 DEF IsFile
<1>3. /\ SchemaIs /\ Recorded /\ writer # "new" /\ written \in Seq(Batch)
  BY DEF WriterInv, Complete
<1>4. t \in ColumnType /\ IsColumn(t, col) /\ x = Encode(t, col)
  <2>1. written[k] \in Batch
    BY <1>3, ElementOfSeq
  <2> QED
    BY <1>1, <1>3, <2>1, SchemaHas DEF Batch, Data
<1>5. /\ Body \in Seq(Byte) /\ Len(Body) = B
      /\ SubSeq(Body, f + 1, To(k, c)) = x /\ To(k, c) <= B
  BY <1>1, <1>3, DataIs
<1>6. f \in Nat /\ z \in Nat /\ To(k, c) = f + z /\ metadata[c].offsets[k] = f
  <2>1. PICK b : b = written[k]
    OBVIOUS
  <2>2. b \in Batch
    BY <1>3, <2>1, ElementOfSeq
  <2>3. StartIn(b, c) \in Nat /\ Sizes(b)[c] \in Nat
    BY <1>3, <2>2, BatchIs
  <2>4. Start(k) \in Nat /\ f = Start(k) + StartIn(b, c) /\ z = Sizes(b)[c]
    BY <1>1, <1>3, <2>1 DEF Recorded, From
  <2> QED
    BY <1>1, <2>3, <2>4 DEF From, To
<1>7. f + z <= B /\ f + z <= Len(d) /\ f + z <= Len(Body) /\ ~(Len(d) < f + z)
  BY <1>2, <1>5, <1>6, SMTT(30)
<1>8. SubSeq(d, f + 1, f + z) = x
  <2>1. PICK u, v : u = SubSeq(d, f + 1, f + z) /\ v = SubSeq(Body, f + 1, f + z)
    OBVIOUS
  <2>2. IsSlice(SubSeq(d, f + 1, f + z), d, f, z)
    BY ONLY <1>2, <1>6, <1>7, SliceIs, Zenon
  <2>3. IsSlice(SubSeq(Body, f + 1, f + z), Body, f, z)
    BY ONLY <1>5, <1>6, <1>7, SliceIs, Zenon
  <2>4. IsSlice(u, d, f, z) /\ IsSlice(v, Body, f, z)
    BY ONLY <2>1, <2>2, <2>3
  <2>5. /\ u \in Seq(Byte) /\ Len(u) = z /\ \A i \in 1..z : u[i] = d[f + i]
        /\ v \in Seq(Byte) /\ Len(v) = z /\ \A i \in 1..z : v[i] = Body[f + i]
    BY ONLY <2>4 DEF IsSlice
  <2>6. \A i \in 1..z : f + i \in 1..B
    BY ONLY <1>2, <1>6, <1>7
  <2>7. \A i \in 1..z : u[i] = v[i]
    BY ONLY <1>2, <2>5, <2>6
  <2>8. u = v
    BY ONLY <2>5, <2>7, SeqEqual
  <2> QED
    BY <1>5, <1>6, <2>1, <2>8
<1>9. q.type = t /\ q.offsets[k] = f /\ q.sizes[k] = z
  BY <1>1, <1>6
<1>10. Writer!GetColumnData(d, q, k)
         = IF t = Writer!StringType THEN Writer!Strings(x)
           ELSE Writer!Values(x, Writer!ValueSize[t])
  BY <1>7, <1>8, <1>9, Zenon DEF Writer!GetColumnData
<1>11. (IF t = Writer!StringType THEN Writer!Strings(x)
        ELSE Writer!Values(x, Writer!ValueSize[t])) = col
  BY ONLY <1>4, ColumnComesBack
<1> QED
  BY <1>1, <1>10, <1>11

-----------------------------------------------------------------------------
(* ColumnarFile: what the metadata count, and what is read. *)

\* The rows of each of the batches bs, and how many they are together.
RowsOf(bs)  == [k \in DOMAIN bs |-> Len(bs[k][1])]
Counted(bs) == SumOf(RowsOf(bs), 1..Len(bs))

\* One more batch has its rows more.
LEMMA CountedMore ==
  ASSUME SchemaIs, NEW bs, bs \in Seq(Batch), NEW b, b \in Batch
  PROVE  Counted(Append(bs, b)) = Counted(bs) + Len(b[1]) /\ Counted(<<>>) = 0
<1>1. PICK n, cs, u, v : /\ n = Len(bs) /\ cs = Append(bs, b) /\ u = RowsOf(bs) /\ v = RowsOf(cs)
  OBVIOUS
<1>2. /\ n \in Nat /\ DOMAIN bs = 1..n /\ cs \in Seq(Batch) /\ Len(cs) = n + 1
      /\ DOMAIN cs = 1..(n + 1) /\ cs[n + 1] = b /\ \A k \in 1..n : cs[k] = bs[k]
  BY <1>1, AppendProperties, LenProperties
<1>3. \A x \in Batch : Len(x[1]) \in Nat
  <2> SUFFICES ASSUME NEW x, x \in Batch
               PROVE  Len(x[1]) \in Nat
    OBVIOUS
  <2>1. 1 \in DOMAIN schema
    BY SchemaHas
  <2>2. IsColumn(schema[1].type, x[1])
    BY <2>1 DEF Batch
  <2> QED
    BY <2>2, LenProperties DEF IsColumn
<1>4. \A k \in 1..(n + 1) : cs[k] \in Batch /\ v[k] = Len(cs[k][1]) /\ v[k] \in Nat
  <2>1. \A k \in 1..(n + 1) : cs[k] \in Batch
    BY <1>2, ElementOfSeq
  <2> QED
    BY <1>1, <1>2, <1>3, <2>1 DEF RowsOf
<1>5. v[n + 1] = Len(b[1]) /\ \A k \in 1..n : v[k] = u[k]
  <2>1. n + 1 \in 1..(n + 1) /\ \A k \in 1..n : k \in 1..(n + 1)
    BY <1>2
  <2>2. \A k \in 1..n : u[k] = Len(bs[k][1])
    BY <1>1, <1>2 DEF RowsOf
  <2> QED
    BY <1>2, <1>4, <2>1, <2>2
<1>6. SumOf(v, 1..(n + 1)) = SumOf(v, 1..n) + v[n + 1]
  <2>1. PICK m : m = n + 1
    OBVIOUS
  <2>2. m \in Nat /\ m > 0 /\ m - 1 = n /\ \A i \in 1..m : v[i] \in Nat
    BY <1>2, <1>4, <2>1
  <2>3. m > 0 => SumOf(v, 1..(m - 1)) \in Nat /\ SumOf(v, 1..m) = SumOf(v, 1..(m - 1)) + v[m]
    BY ONLY <2>2, SumOfNumbers
  <2> QED
    BY <2>1, <2>2, <2>3
<1>7. SumOf(v, 1..n) = SumOf(u, 1..n)
  <2>1. [k \in 1..n |-> v[k]] = [k \in 1..n |-> u[k]]
    BY <1>5
  <2> QED
    BY <2>1 DEF SumOf
<1>8. Counted(<<>>) = 0
  <2>1. Len(<<>>) = 0 /\ 1..0 = {}
    BY EmptySeq
  <2> QED
    BY <2>1, SumOfNone DEF Counted
<1> QED
  BY <1>1, <1>2, <1>5, <1>6, <1>7, <1>8 DEF Counted

\* The batch that is made of the cells of a chunk.
BatchOf(x) == [c \in Columns |-> ColumnOf(c, x[c])]

\* The metadata count the rows that were written, and a conversion writes its chunks and
\* finishes the file when it is done.
ReaderInv ==
  /\ num_rows = Counted(written)
  /\ converting => /\ Len(written) = Len(chunks)
                   /\ \A k \in 1..Len(chunks) : written[k] = BatchOf(chunks[k])
                   /\ writer = "finalized" => at = "done"

\* It is so at first.
LEMMA ReaderBegins == ConversionInit => ReaderInv
<1> SUFFICES ASSUME ConversionInit
             PROVE  ReaderInv
  OBVIOUS
<1>1. num_rows = 0 /\ written = <<>> /\ writer = "new"
  BY DEF ConversionInit, Writer!Init, Writer!InitFor
<1>2. chunks = <<>> /\ Len(<<>>) = 0
  BY EmptySeq DEF ConversionInit, Init
<1>3. Counted(<<>>) = 0
  <2>1. Len(<<>>) = 0 /\ 1..0 = {}
    BY EmptySeq
  <2> QED
    BY <2>1, SumOfNone DEF Counted
<1> QED
  BY <1>1, <1>2, <1>3 DEF ReaderInv

\* It stays so when nothing is written.
LEMMA ReaderStays ==
  ASSUME ConversionInv, ReaderInv,
         UNCHANGED <<file, schema, num_rows, written, chunks, converting>>,
         converting' /\ writer' = "finalized" => at' = "done"
  PROVE  ReaderInv'
<1>1. \A k \in 1..Len(chunks) : BatchOf(chunks[k])' = BatchOf(chunks[k])
  BY DEF BatchOf, ColumnOf, ValueOf, TextOf
<1>2. Counted(written)' = Counted(written)
  BY DEF Counted, RowsOf
<1> QED
  BY <1>1, <1>2 DEF ReaderInv

\* It stays so when a batch is written, a chunk if this is a conversion.
LEMMA ReaderGrows ==
  ASSUME ConversionInv, ReaderInv, NEW b, b \in Batch, Writer!WriteBatch(b),
         UNCHANGED <<file, converting>>,
         converting => \E x \in [Columns -> Seq(Cell)] : chunks' = Append(chunks, x) /\ b = BatchOf(x)
  PROVE  ReaderInv'
<1>1. SchemaIs /\ written \in Seq(Batch) /\ WriterInv
  BY DEF ConversionInv, WriterInv
<1>2. /\ num_rows' = num_rows + Len(b[1]) /\ written' = Append(written, b)
      /\ writer' = "open" /\ schema' = schema
  BY <1>1, BatchRecorded
<1>3. num_rows' = Counted(written)'
  <2>1. Counted(written)' = Counted(Append(written, b))
    BY <1>2 DEF Counted, RowsOf
  <2>2. Counted(Append(written, b)) = Counted(written) + Len(b[1])
    BY <1>1, CountedMore
  <2> QED
    BY <1>2, <2>1, <2>2 DEF ReaderInv
<1>4. ASSUME converting
      PROVE  /\ Len(written)' = Len(chunks)'
             /\ \A k \in 1..Len(chunks') : written'[k] = BatchOf(chunks[k])'
  <2>1. PICK x \in [Columns -> Seq(Cell)] : chunks' = Append(chunks, x) /\ b = BatchOf(x)
    BY <1>4
  <2>2. PICK n : n = Len(chunks)
    OBVIOUS
  <2>3. chunks \in Seq([Columns -> Seq(Cell)])
    BY DEF ConversionInv, ConvertInv, Holding
  <2>4. /\ n \in Nat /\ Len(chunks') = n + 1 /\ chunks'[n + 1] = x
        /\ \A k \in 1..n : chunks'[k] = chunks[k]
    BY <2>1, <2>2, <2>3, AppendProperties, LenProperties
  <2>5. Len(written) = n /\ \A k \in 1..n : written[k] = BatchOf(chunks[k])
    BY <1>4, <2>2 DEF ReaderInv
  <2>6. Len(written') = n + 1 /\ written'[n + 1] = b /\ \A k \in 1..n : written'[k] = written[k]
    BY <1>1, <1>2, <2>5, AppendProperties
  <2>7. ASSUME NEW k \in 1..(n + 1)
        PROVE  written'[k] = BatchOf(chunks'[k])
    <3>1. CASE k = n + 1
      BY <2>1, <2>4, <2>6, <3>1
    <3>2. CASE k # n + 1
      <4>1. k \in 1..n
        BY <2>4, <3>2
      <4> QED
        BY <2>4, <2>5, <2>6, <4>1
    <3> QED
      BY <3>1, <3>2
  <2>8. \A k \in 1..(n + 1) : BatchOf(chunks[k])' = BatchOf(chunks'[k])
    BY <1>2 DEF BatchOf, ColumnOf, ValueOf, TextOf
  <2> QED
    BY <2>4, <2>6, <2>7, <2>8
<1> QED
  BY <1>2, <1>3, <1>4 DEF ReaderInv

\* Every step of a conversion, and of the writer alone, leaves it so.
LEMMA ReaderKeeps ==
  ASSUME ConversionInv, ReaderInv, [ConversionNext]_allVars
  PROVE  ReaderInv'
<1>1. WriterInv
  BY DEF ConversionInv
<1>2. CASE BeginConversion
  <2>1. /\ UNCHANGED <<file, schema, num_rows, written, chunks, converting>> /\ writer' = "open"
    BY <1>2 DEF BeginConversion, Writer!WriteHeader, vars
  <2> QED
    BY <2>1, ReaderStays
<1>3. CASE ConversionStep
  <2>1. file' = file /\ converting' = converting /\ converting /\ writer = "open"
    BY <1>3 DEF ConversionStep, Next, ReadRow, RowRejected, EndOfFile, CacheFull, AppendRows,
                FieldRejected, NothingRead, Over, vars
  <2>2. CASE chunks' = chunks
    <3>1. UNCHANGED <<schema, num_rows, written, writer>>
      BY <1>3, <2>2 DEF ConversionStep, writerVars
    <3> QED
      BY <2>1, <2>2, <3>1, ReaderStays
  <2>3. CASE chunks' # chunks
    <3>1. PICK x \in [Columns -> Seq(Cell)] :
            /\ chunks' = Append(chunks, x) /\ BatchOf(x) \in Batch /\ Writer!WriteBatch(BatchOf(x))
      BY <1>3, <2>3, FlushIs DEF BatchOf
    <3>2. PICK b : b = BatchOf(x)
      OBVIOUS
    <3> QED
      BY <2>1, <3>1, <3>2, ReaderGrows
  <2> QED
    BY <2>2, <2>3
<1>4. CASE FinishConversion
  <2>1. UNCHANGED <<file, schema, num_rows, written, chunks, converting>> /\ at' = "done"
    BY <1>4 DEF FinishConversion, Writer!Finalize, vars
  <2> QED
    BY <2>1, ReaderStays
<1>5. CASE TailLost
  <2>1. UNCHANGED <<file, schema, num_rows, written, chunks, converting, at, writer>>
    BY <1>5 DEF TailLost, Writer!LoseTail, vars
  <2> QED
    BY <2>1, ReaderStays DEF ReaderInv
<1>6. CASE UNCHANGED allVars \/ ConversionOver
  <2>1. UNCHANGED <<file, schema, num_rows, written, chunks, converting, at, writer>>
    BY <1>6 DEF ConversionOver, allVars, vars, writerVars
  <2> QED
    BY <2>1, ReaderStays DEF ReaderInv
<1>7. CASE WriterAlone
  <2>1. UNCHANGED <<file, chunks, converting>> /\ ~converting
    BY <1>7 DEF WriterAlone, vars
  <2>2. CASE Writer!SomeBatch
    <3>1. PICK n \in 0..(MaxRows - num_rows) : \E b \in Writer!Batches(n) : Writer!WriteBatch(b)
      BY <2>2 DEF Writer!SomeBatch
    <3>2. PICK b \in Writer!Batches(n) : Writer!WriteBatch(b)
      BY <3>1
    <3>3. n \in Nat /\ SchemaIs
      BY <1>1, ConversionAssumption DEF WriterInv
    <3>4. b \in Batch
      BY <3>3, GivenIs
    <3> QED
      BY <2>1, <3>2, <3>4, ReaderGrows
  <2>3. CASE ~Writer!SomeBatch
    <3>1. UNCHANGED <<schema, num_rows, written>>
      BY <1>7, <2>3 DEF WriterAlone, Writer!Next, Writer!WriteHeader, Writer!Finalize,
                        Writer!LoseTail, Writer!Over, Writer!vars
    <3> QED
      BY <2>1, <3>1, ReaderStays
  <2> QED
    BY <2>2, <2>3
<1> QED
  BY <1>2, <1>3, <1>4, <1>5, <1>6, <1>7 DEF ConversionNext

\* What the reader makes of a complete file.
IsRead(meta) ==
  /\ meta # Writer!Refused /\ meta # Writer!Misread
  /\ meta.num_rows = Counted(written)
  /\ Len(meta.columns) = Len(schema)
  /\ \A c \in DOMAIN schema :
       /\ meta.columns[c].name = schema[c].name
       /\ meta.columns[c].type = schema[c].type
       /\ DOMAIN meta.columns[c].offsets = 1..Len(written)
       /\ Len(meta.columns[c].offsets) = Len(written)
       /\ \A k \in 1..Len(written) :
            Writer!GetColumnData(disk, meta.columns[c], k) = written[k][c]

\* From a complete file the reader recovers what was written.
LEMMA CompleteIsRead ==
  ASSUME WriterInv, ReaderInv, Complete
  PROVE  IsRead(Writer!ParseMetadata(disk))
<1>1. PICK n : n = Len(schema)
  OBVIOUS
<1>2. n \in Nat /\ DOMAIN schema = 1..n
  BY <1>1, EntriesAre
<1>3. PICK P : EntriesEnd(P, n)
  BY <1>1, EntriesAre
<1>4. PICK meta, cs : meta = Writer!ParseMetadata(disk) /\ cs = ColumnsRead(P, n)
  OBVIOUS
<1>5. meta = [num_rows |-> num_rows, columns |-> cs]
  BY <1>1, <1>3, <1>4, MetadataIs
<1>6. meta.num_rows = num_rows /\ meta.columns = cs
  BY ONLY <1>5
<1>7. meta # Writer!Refused /\ meta # Writer!Misread
  <2>1. meta # [refused |-> TRUE] /\ meta # [misread |-> TRUE]
    BY ONLY <1>5
  <2> QED
    BY <2>1, Zenon DEF Writer!Refused, Writer!Misread
<1>8. Len(cs) = n
  <2>1. cs = [c \in 1..n |-> Parsed(metadata[c], schema[c], P[c - 1] + 4)]
    BY <1>4 DEF ColumnsRead
  <2>2. PICK S : S = {cs[c] : c \in 1..n}
    OBVIOUS
  <2>3. cs \in [1..n -> S]
    BY <2>1, <2>2
  <2> QED
    BY <1>2, <2>3, IsSequence
<1>9. ASSUME NEW c \in DOMAIN schema
      PROVE  /\ cs[c].name = schema[c].name
             /\ cs[c].type = schema[c].type
             /\ DOMAIN cs[c].offsets = 1..Len(written)
             /\ Len(cs[c].offsets) = Len(written)
             /\ \A k \in 1..Len(written) : Writer!GetColumnData(disk, cs[c], k) = written[k][c]
  <2>1. PICK q : q = cs[c]
    OBVIOUS
  <2>2. q = Parsed(metadata[c], schema[c], P[c - 1] + 4)
    BY <1>2, <1>4, <2>1 DEF ColumnsRead
  <2>3. /\ q.name = schema[c].name /\ q.type = schema[c].type
        /\ q.offsets = metadata[c].offsets /\ q.sizes = metadata[c].sizes
    BY ONLY <2>2 DEF Parsed
  <2>4. DOMAIN q.offsets = 1..Len(written) /\ Len(q.offsets) = Len(written)
    <3>1. metadata[c].offsets \in Seq(Nat) /\ Len(metadata[c].offsets) = Len(written)
      BY TableIs DEF ChunkTable
    <3> QED
      BY <2>3, <3>1, LenProperties
  <2>5. \A k \in 1..Len(written) : Writer!GetColumnData(disk, q, k) = written[k][c]
    BY <2>3, ChunkComesBack
  <2> QED
    BY <2>1, <2>3, <2>4, <2>5
<1>10. num_rows = Counted(written)
  BY DEF ReaderInv
<1>11. IsRead(meta)
  BY <1>1, <1>6, <1>7, <1>8, <1>9, <1>10 DEF IsRead
<1> QED
  BY <1>4, <1>11

\* What was written is what is read: from a finalized file the reader recovers names,
\* types, the number of rows and every chunk value by value.
LEMMA RoundTripDoes ==
  ASSUME WriterInv, ReaderInv, DiskInv
  PROVE  RoundTrip
<1> SUFFICES ASSUME writer = "finalized", ~bad, NEW meta, meta = Writer!ParseMetadata(disk)
             PROVE  /\ meta \notin {Writer!Refused, Writer!Misread}
                    /\ meta.num_rows = Writer!SumFunction([k \in DOMAIN written |-> Len(written[k][1])])
                    /\ Len(meta.columns) = Len(schema)
                    /\ \A c \in Writer!Columns :
                         /\ meta.columns[c].name = schema[c].name
                         /\ meta.columns[c].type = schema[c].type
                         /\ Len(meta.columns[c].offsets) = Len(written)
                         /\ \A k \in DOMAIN written :
                              Writer!GetColumnData(disk, meta.columns[c], k) = written[k][c]
  BY Zenon DEF RoundTrip, Writer!RoundTrip
<1>1. IsRead(meta)
  BY CompleteIsRead DEF DiskInv, Complete
<1>2. DOMAIN written = 1..Len(written)
  BY LenProperties DEF WriterInv
<1>3. Writer!SumFunction([k \in DOMAIN written |-> Len(written[k][1])]) = Counted(written)
  <2>1. PICK n, f : n = Len(written) /\ f = RowsOf(written)
    OBVIOUS
  <2>2. Writer!SumFunction([k \in 1..n |-> f[k]]) = SumOf(f, 1..n)
    BY SameFormat
  <2>3. [k \in DOMAIN written |-> Len(written[k][1])] = [k \in 1..n |-> f[k]]
    BY <1>2, <2>1 DEF RowsOf
  <2> QED
    BY <2>1, <2>2, <2>3 DEF Counted
<1>4. /\ meta # Writer!Refused /\ meta # Writer!Misread
      /\ meta.num_rows = Counted(written)
      /\ Len(meta.columns) = Len(schema)
      /\ \A c \in DOMAIN schema :
           /\ meta.columns[c].name = schema[c].name
           /\ meta.columns[c].type = schema[c].type
           /\ Len(meta.columns[c].offsets) = Len(written)
           /\ \A k \in 1..Len(written) :
                Writer!GetColumnData(disk, meta.columns[c], k) = written[k][c]
  BY <1>1 DEF IsRead
<1> QED
  BY <1>2, <1>3, <1>4, Zenon DEF Writer!Columns

-----------------------------------------------------------------------------
(* Conversion: the file of a CSV file. *)

\* The end has been found behind the last row, and not later than the loop is left.
EndInv == /\ ~endFlag => next = Len(file) + 1
          /\ at = "done" => ~endFlag

\* There is room in an empty cache.
LEMMA RoomAtFirst == ASSUME ConvertInv, cache = <<>> PROVE Room
<1>1. CellsOf(<<>>) = <<>> /\ Len(<<>>) = 0
  <2>1. [i \in DOMAIN <<>> |-> [j \in 1..file[<<>>[i]].width |-> <<<<>>[i], j>>]] = <<>>
    OBVIOUS
  <2> QED
    BY <2>1, FlattenEmpty, EmptySeq DEF CellsOf
<1>2. SumFunction([i \in DOMAIN <<>> |-> file[<<>>[i]].bytes]) = 0
  <2>1. [i \in DOMAIN <<>> |-> file[<<>>[i]].bytes] = [x \in {} |-> 0]
    OBVIOUS
  <2>2. PICK v : v = [x \in {} |-> 0]
    OBVIOUS
  <2>3. [x \in {} |-> v[x]] = v
    BY <2>2
  <2>4. SumFunction([x \in {} |-> v[x]]) = 0
    BY SumOfNone DEF SumOf
  <2> QED
    BY <2>1, <2>2, <2>3, <2>4
<1>3. ApproxByteSize(<<>>) = OffsetBytes
  <2>1. ApproxByteSize(<<>>) = 0 + (0 + 1) * OffsetBytes
    BY <1>1, <1>2 DEF ApproxByteSize
  <2> QED
    BY <2>1, ConvertAssumption
<1>4. OffsetBytes < BytesPerCache /\ accumulated + Len(cache) < RowsPerChunk
  <2>1. accumulated \in Nat /\ accumulated < RowsPerChunk
    BY RowNumbers DEF ConvertInv
  <2> QED
    BY <1>1, <2>1, ConvertAssumption
<1> QED
  BY <1>3, <1>4 DEF Room

\* It is so at first.
LEMMA EndBegins == ConversionInit => EndInv
BY DEF ConversionInit, Init, EndInv

\* It stays so.
LEMMA EndKeeps ==
  ASSUME ConversionInv, EndInv, [ConversionNext]_allVars
  PROVE  EndInv'
<1>1. ConvertInv
  BY DEF ConversionInv
<1>2. UNCHANGED vars \/ Next
  BY DEF ConversionNext, BeginConversion, ConversionStep, FinishConversion, TailLost,
         ConversionOver, WriterAlone, allVars
<1>3. CASE UNCHANGED vars
  BY <1>3 DEF vars, EndInv
<1>4. CASE EndOfFile
  <2>1. next \in 1..(Len(file) + 1) /\ DOMAIN file = 1..Len(file) /\ Len(file) \in Nat
    BY <1>1, FileIs DEF ConvertInv, RowsInv
  <2>2. next = Len(file) + 1
    BY <1>4, <2>1 DEF EndOfFile
  <2> QED
    BY <1>4, <2>2 DEF EndOfFile, EndInv
<1>5. CASE AppendRows
  BY <1>5 DEF AppendRows, EndInv
<1>6. CASE NothingRead
  <2>1. Room
    BY <1>1, <1>6, RoomAtFirst DEF NothingRead
  <2>2. ~endFlag
    BY <1>1, <1>6, <2>1 DEF NothingRead, ConvertInv, WaitInv
  <2> QED
    BY <1>6, <2>2 DEF NothingRead, EndInv
<1>7. CASE ReadRow
  <2>1. endFlag
    BY <1>1, <1>7 DEF ReadRow, ConvertInv, WaitInv
  <2> QED
    BY <1>7, <2>1 DEF ReadRow, EndInv
<1>8. CASE RowRejected \/ CacheFull \/ FieldRejected
  BY <1>8 DEF RowRejected, CacheFull, FieldRejected, EndInv
<1> QED
  BY <1>2, <1>3, <1>4, <1>5, <1>6, <1>7, <1>8 DEF Next, Over

\* What is flattened is as long as all its sequences.
LEMMA FlattenLength ==
  ASSUME NEW S, NEW s, s \in Seq(Seq(S)), NEW n, n = Len(s), NEW v,
         \A k \in 1..n : v[k] = Len(s[k])
  PROVE  Len(FlattenSeq(s)) = SumOf(v, 1..n)
<1>1. n \in Nat /\ \A k \in 1..n : v[k] \in Nat
  BY LenProperties, ElementOfSeq
<1>2. ASSUME NEW k \in 0..n
      PROVE  /\ SumOf(v, 1..k) \in Nat
             /\ k > 0 => SumOf(v, 1..k) = SumOf(v, 1..(k - 1)) + v[k]
             /\ SumOf(v, 1..0) = 0
  <2>1. k \in Nat /\ \A i \in 1..k : v[i] \in Nat
    BY <1>1
  <2> QED
    BY ONLY <2>1, SumOfNumbers
<1>3. PICK P : P = [k \in 0..n |-> SumOf(v, 1..k)]
  OBVIOUS
<1>4. P \in [0..n -> Nat] /\ P[0] = 0 /\ P[n] = SumOf(v, 1..n)
  <2>1. 0 \in 0..n /\ n \in 0..n
    BY <1>1
  <2> QED
    BY <1>2, <1>3, <2>1
<1>5. \A k \in 1..n : P[k] = P[k - 1] + Len(s[k])
  <2> TAKE k \in 1..n
  <2>1. k \in 0..n /\ k - 1 \in 0..n /\ k > 0
    BY <1>1
  <2>2. P[k] = SumOf(v, 1..k) /\ P[k - 1] = SumOf(v, 1..(k - 1))
    BY <1>3, <2>1
  <2>3. SumOf(v, 1..k) = SumOf(v, 1..(k - 1)) + v[k] /\ v[k] = Len(s[k])
    BY <1>2, <2>1
  <2> QED
    BY <2>2, <2>3
<1>6. Ends(P, s)
  BY <1>4, <1>5 DEF Ends
<1>7. Len(FlattenSeq(s)) = P[Len(s)]
  BY ONLY s \in Seq(Seq(S)), <1>6, FlattenPlaces, SMTT(30)
<1> QED
  BY <1>4, <1>7

\* The chunks of column c that were written, one by one.
ColumnWritten(c) == [k \in 1..Len(written) |-> written[k][c]]

\* The K chunks t have the values of column c of the first w rows.
HasValues(t, c, w, K) == /\ FlattenSeq(t) = [i \in 1..w |-> ValueOf(c, <<i, c>>)]
                         /\ w = SumOf([k \in 1..K |-> Len(t[k])], 1..K)

\* What the columns of a conversion are made of.
LEMMA ConvertedHas ==
  ASSUME ConversionInv, ReaderInv, converting, NEW c, c \in Columns
  PROVE  HasValues(ColumnWritten(c), c, InChunks, Len(written))
<1>1. PICK K, w, s, t : /\ K = Len(written) /\ w = InChunks /\ s = Pieces(chunks, c)
                        /\ t = ColumnWritten(c)
  OBVIOUS
<1>a. PICK V : V = IF schema[c].type = StringType THEN Seq(Byte) ELSE Held
  OBVIOUS
<1>2. /\ chunks \in Seq([Columns -> Seq(Cell)]) /\ w \in Nat
      /\ FlattenSeq(s) = CellsFrom(c, 0, w)
  BY <1>1 DEF ConversionInv, ConvertInv, Holding
<1>3. K \in Nat /\ Len(chunks) = K /\ DOMAIN chunks = 1..K
      /\ \A k \in 1..K : written[k] = BatchOf(chunks[k])
  <2>1. Len(written) = Len(chunks) /\ \A k \in 1..Len(chunks) : written[k] = BatchOf(chunks[k])
    BY DEF ReaderInv
  <2> QED
    BY <1>1, <1>2, <2>1, LenProperties
<1>4. s = [k \in 1..K |-> chunks[k][c]] /\ s \in Seq(Seq(Cell)) /\ Len(s) = K
  <2>1. s \in Seq(Seq(Cell))
    BY <1>1, <1>2, PiecesAre
  <2>2. s = [k \in 1..K |-> chunks[k][c]]
    BY <1>1, <1>3 DEF Pieces
  <2>3. s \in [1..K -> Seq(Cell)]
    <3>1. \A k \in 1..K : chunks[k] \in [Columns -> Seq(Cell)]
      BY <1>2, <1>3, ElementOfSeq
    <3> QED
      BY <2>2, <3>1
  <2> QED
    BY <1>3, <2>1, <2>2, <2>3, IsSequence
<1>5. ASSUME NEW k \in 1..K
      PROVE  /\ s[k] \in Seq(Cell) /\ t[k] = ColumnOf(c, s[k])
             /\ t[k] \in Seq(V) /\ Len(t[k]) = Len(s[k])
             /\ \A i \in 1..Len(s[k]) : t[k][i] = ValueOf(c, s[k][i])
  <2>1. s[k] \in Seq(Cell) /\ s[k] = chunks[k][c]
    BY <1>4, ElementOfSeq
  <2>2. t[k] = ColumnOf(c, s[k])
    <3>1. t[k] = written[k][c]
      BY <1>1 DEF ColumnWritten
    <3>2. written[k][c] = ColumnOf(c, chunks[k][c])
      BY <1>3, ZenonT(30) DEF BatchOf
    <3> QED
      BY ONLY <2>1, <3>1, <3>2
  <2>3. /\ IsColumn(schema[c].type, ColumnOf(c, s[k])) /\ Len(ColumnOf(c, s[k])) = Len(s[k])
        /\ \A i \in 1..Len(s[k]) : ColumnOf(c, s[k])[i] = ValueOf(c, s[k][i])
    BY <2>1, BuiltIs, SMTT(30) DEF ConversionInv, ConvertInv, RowsInv
  <2> QED
    BY <1>a, <2>1, <2>2, <2>3 DEF IsColumn
<1>6. t \in Seq(Seq(V)) /\ Len(t) = K
  <2>1. t \in [1..K -> Seq(V)]
    BY <1>1, <1>5 DEF ColumnWritten
  <2> QED
    BY <1>3, <2>1, IsSequence
<1>7. PICK f : f = [cell \in Cell |-> ValueOf(c, cell)]
  OBVIOUS
<1>8. MapsTo(f, s, t)
  <2>1. ASSUME NEW k \in 1..K, NEW i \in 1..Len(s[k])
        PROVE  t[k][i] = f[s[k][i]]
    <3>1. s[k][i] \in Cell
      BY <1>5, ElementOfSeq
    <3> QED
      BY <1>5, <1>7, <3>1
  <2> QED
    BY <1>4, <1>5, <1>6, <2>1, SMTT(30) DEF MapsTo
<1>9. PICK x, y : x = FlattenSeq(s) /\ y = FlattenSeq(t)
  OBVIOUS
<1>10. Len(y) = Len(x) /\ \A i \in 1..Len(x) : y[i] = f[x[i]]
  <2>1. s \in Seq(Seq(Cell)) /\ t \in Seq(Seq(V)) /\ MapsTo(f, s, t)
    BY <1>4, <1>6, <1>8
  <2>2. Len(FlattenSeq(t)) = Len(FlattenSeq(s))
    BY ONLY <2>1, FlattenMaps, SMTT(30)
  <2>3. \A i \in 1..Len(FlattenSeq(s)) : FlattenSeq(t)[i] = f[FlattenSeq(s)[i]]
    BY ONLY <2>1, FlattenMaps, SMTT(30)
  <2> QED
    BY ONLY <1>9, <2>2, <2>3
<1>11. y \in Seq(V)
  BY ONLY <1>6, <1>9, FlattenType
<1>12. c \in Nat /\ Len(x) = w /\ \A i \in 1..w : x[i] = <<i, c>>
  <2>1. c \in Nat /\ 0 \in Nat
    BY WidthIs
  <2>2. Len(CellsFrom(c, 0, w)) = w
    BY <1>2, <2>1, CellsTyped
  <2>3. \A i \in 1..w : CellsFrom(c, 0, w)[i] = <<i, c>>
    BY DEF CellsFrom
  <2> QED
    BY <1>2, <1>9, <2>1, <2>2, <2>3
<1>13. \A i \in 1..w : y[i] = ValueOf(c, <<i, c>>)
  <2> TAKE i \in 1..w
  <2>1. y[i] = f[<<i, c>>]
    BY <1>10, <1>12
  <2>2. <<i, c>> \in Cell
    BY <1>2, <1>12 DEF Cell
  <2> QED
    BY <1>7, <2>1, <2>2
<1>14. y = [i \in 1..w |-> y[i]]
  <2>1. Len(y) = w
    BY <1>10, <1>12
  <2> QED
    BY <1>11, <2>1, LenProperties
<1>15. w = SumOf([k \in 1..K |-> Len(t[k])], 1..K)
  <2>1. PICK v : v = [k \in 1..K |-> Len(t[k])]
    OBVIOUS
  <2>2. \A k \in 1..K : v[k] = Len(t[k])
    BY ONLY <2>1
  <2>3. K = Len(t)
    BY <1>6
  <2>4. Len(FlattenSeq(t)) = SumOf(v, 1..K)
    BY ONLY <1>6, <2>2, <2>3, FlattenLength
  <2> QED
    BY <1>9, <1>10, <1>12, <2>1, <2>4
<1>16. y = [i \in 1..w |-> ValueOf(c, <<i, c>>)]
  BY ONLY <1>13, <1>14
<1> QED
  BY <1>1, <1>9, <1>15, <1>16 DEF HasValues

\* A file the reader takes, converted from CSV, has the values of the CSV file.
LEMMA ConvertedDoes ==
  ASSUME ConversionInv, ReaderInv, DiskInv, EndInv
  PROVE  ConvertedIsRead
<1> SUFFICES ASSUME converting, NEW meta, meta = Writer!ParseMetadata(disk),
                    meta # Writer!Refused, ~Writer!CutAtMagic
             PROVE  /\ at = "done"
                    /\ meta.num_rows = Len(file) - accumulated /\ accumulated < RowsPerChunk
                    /\ \A c \in Columns :
                         FlattenSeq([k \in DOMAIN meta.columns[c].offsets |->
                                       Writer!GetColumnData(disk, meta.columns[c], k)])
                           = [i \in 1..meta.num_rows |-> ValueOf(c, <<i, c>>)]
  BY Zenon DEF ConvertedIsRead
<1>1. WriterInv /\ ConvertInv /\ RowsInv /\ schema = CsvSchema
  BY DEF ConversionInv, ConvertInv
<1>2. Complete
  BY <1>1, TakenIs DEF Complete
<1>3. IsRead(meta)
  BY <1>1, <1>2, CompleteIsRead
<1>4. at = "done"
  BY <1>2 DEF Complete, ReaderInv
<1>5. PICK w, K : w = InChunks /\ K = Len(written)
  OBVIOUS
<1>6. w = Len(file) - accumulated /\ accumulated < RowsPerChunk
  <2>1. cache = <<>> /\ Len(<<>>) = 0 /\ next = Len(file) + 1
    BY <1>1, <1>4, EmptySeq DEF ConvertInv, WaitInv, EndInv
  <2>2. Len(file) \in Nat /\ accumulated \in Nat /\ accumulated < RowsPerChunk
    BY <1>1, RowNumbers
  <2>3. Done = Len(file)
    BY <2>1, <2>2 DEF Done
  <2> QED
    BY <1>5, <2>2, <2>3 DEF InChunks
<1>7. DOMAIN schema = Columns /\ 1 \in Columns
  <2>1. Len(CsvSchema) = Width
    BY ConversionAssumption
  <2>2. DOMAIN schema = 1..Len(schema)
    BY <1>1, SchemaHas DEF WriterInv
  <2> QED
    BY <1>1, <2>1, <2>2, WidthIs
<1>8. meta.num_rows = w
  <2>1. PICK t : t = ColumnWritten(1)
    OBVIOUS
  <2>2. w = SumOf([k \in 1..K |-> Len(t[k])], 1..K)
    <3>1. HasValues(ColumnWritten(1), 1, InChunks, Len(written))
      BY <1>7, ConvertedHas
    <3>2. HasValues(t, 1, w, K)
      BY ONLY <1>5, <2>1, <3>1
    <3> QED
      BY <3>2 DEF HasValues
  <2>3. DOMAIN written = 1..K
    BY <1>1, <1>5, LenProperties DEF WriterInv
  <2>4. [k \in 1..K |-> Len(t[k])] = RowsOf(written)
    <3>1. \A k \in 1..K : t[k] = written[k][1]
      BY <1>5, <2>1 DEF ColumnWritten
    <3> QED
      BY <2>3, <3>1 DEF RowsOf
  <2>5. meta.num_rows = Counted(written)
    BY <1>3 DEF IsRead
  <2> QED
    BY <1>5, <2>2, <2>4, <2>5 DEF Counted
<1>9. ASSUME NEW c \in Columns
      PROVE  FlattenSeq([k \in DOMAIN meta.columns[c].offsets |->
                           Writer!GetColumnData(disk, meta.columns[c], k)])
               = [i \in 1..w |-> ValueOf(c, <<i, c>>)]
  <2>1. PICK t, q : t = ColumnWritten(c) /\ q = meta.columns[c]
    OBVIOUS
  <2>2. FlattenSeq(t) = [i \in 1..w |-> ValueOf(c, <<i, c>>)]
    <3>1. HasValues(ColumnWritten(c), c, InChunks, Len(written))
      BY ConvertedHas
    <3>2. HasValues(t, c, w, K)
      BY ONLY <1>5, <2>1, <3>1
    <3> QED
      BY <3>2 DEF HasValues
  <2>3. /\ DOMAIN q.offsets = 1..K
        /\ \A k \in 1..K : Writer!GetColumnData(disk, q, k) = written[k][c]
    BY <1>3, <1>5, <1>7, <2>1 DEF IsRead
  <2>4. [k \in DOMAIN q.offsets |-> Writer!GetColumnData(disk, q, k)] = t
    BY <1>5, <2>1, <2>3 DEF ColumnWritten
  <2> QED
    BY <2>1, <2>2, <2>4
<1> QED
  BY <1>4, <1>6, <1>8, <1>9

-----------------------------------------------------------------------------
(* The theorems. *)

\* Every variable of a conversion, and of the writer alone, has the type the code
\* gives it.
THEOREM ConversionIsTyped == ConversionSpec => []ConversionTypeOK
<1>1. ConversionSpec => []ConversionInv
  BY ConversionBegins, ConversionKeeps, PTL DEF ConversionSpec
<1> QED
  BY <1>1, ConversionTyped, PTL

\* The cells of every column are converted in the order of the CSV file's rows, none
\* twice, none skipped, each in its own column, however the rows fall into caches
\* and chunks.
THEOREM RowsKeepOrder == ConversionSpec => []RowsInOrder
<1>1. ConversionSpec => []ConversionInv
  BY ConversionBegins, ConversionKeeps, PTL DEF ConversionSpec
<1>2. ConversionInv => RowsInOrder
  BY RowsArrive DEF ConversionInv
<1> QED
  BY <1>1, <1>2, PTL

\* Rows are left in the builders at the end of the CSV file only if they filled a
\* cache since the last chunk.
THEOREM SmallTailsAreKept == ConversionSpec => []SmallTailKept
<1>1. ConversionSpec => []ConversionInv
  BY ConversionBegins, ConversionKeeps, PTL DEF ConversionSpec
<1>2. ConversionInv => SmallTailKept
  BY TailsWait DEF ConversionInv
<1> QED
  BY <1>1, <1>2, PTL

\* The extents the writer records tile the data of the file, and the bytes there are
\* the chunks', for every schema and whatever the batches.
THEOREM ExtentsTileTheFile == ConversionSpec => []ExtentsTile
<1>1. ConversionSpec => []ConversionInv
  BY ConversionBegins, ConversionKeeps, PTL DEF ConversionSpec
<1>2. ConversionInv => ExtentsTile
  BY ExtentsDo DEF ConversionInv
<1> QED
  BY <1>1, <1>2, PTL

\* A file that was not finished is refused, whatever the schema and the batches, the
\* bytes of texts and names, and the characters that the bytes of numbers, lengths and
\* offsets are; wherever it ends, but just behind four bytes of its content that spell
\* the magic.
THEOREM UnfinishedAreRefused == ConversionSpec => []UnfinishedRefused
<1>1. ConversionSpec => [](ConversionInv /\ DiskInv)
  BY ConversionBegins, ConversionKeeps, DiskBegins, DiskKeeps, PTL DEF ConversionSpec
<1>2. ConversionInv /\ DiskInv => UnfinishedRefused
  <2> SUFFICES ASSUME ConversionInv, DiskInv, Writer!ParseMetadata(disk) # Writer!Refused
               PROVE  Writer!Complete \/ Writer!CutAtMagic
    BY DEF UnfinishedRefused, Writer!UnfinishedRefused
  <2> QED
    BY TakenIs DEF ConversionInv
<1> QED
  BY <1>1, <1>2, PTL

\* What was written is what is read, whatever the schema and the batches: from a file
\* that was finished and lost nothing, the reader recovers names, types, the number of
\* rows, and every chunk value by value.
THEOREM WrittenIsRead == ConversionSpec => []RoundTrip
<1>1. ConversionSpec => [](ConversionInv /\ DiskInv /\ ReaderInv)
  BY ConversionBegins, ConversionKeeps, DiskBegins, DiskKeeps, ReaderBegins, ReaderKeeps, PTL
     DEF ConversionSpec
<1>2. ConversionInv /\ DiskInv /\ ReaderInv => RoundTrip
  BY RoundTripDoes DEF ConversionInv
<1> QED
  BY <1>1, <1>2, PTL

\* A file the reader takes, converted from CSV, has in each column the values of the CSV
\* file's rows in their order, but for those left in the builders, and its metadata
\* count them, unless it was cut where its content spells the magic; whatever types the
\* columns have and whatever is in the fields.
THEOREM ConversionIsRead == ConversionSpec => []ConvertedIsRead
<1>1. ConversionSpec => [](ConversionInv /\ DiskInv /\ ReaderInv /\ EndInv)
  BY ConversionBegins, ConversionKeeps, DiskBegins, DiskKeeps, ReaderBegins, ReaderKeeps,
     EndBegins, EndKeeps, PTL DEF ConversionSpec
<1>2. ConversionInv /\ DiskInv /\ ReaderInv /\ EndInv => ConvertedIsRead
  BY ConvertedDoes
<1> QED
  BY <1>1, <1>2, PTL
=============================================================================
