----------------------------- MODULE CsvConvert -----------------------------
(***************************************************************************)
(* io/CsvToColumnar.cpp with the CsvReader it drives: rows are read into a *)
(* cache of flat cells until the cache has its bytes or the chunk its      *)
(* rows; the cache is appended to one builder per column; the builders are *)
(* flushed into a chunk of the columnar file when they hold a chunk's rows *)
(* or the input has ended.                                                 *)
(*                                                                         *)
(* Convert checks the width of every row against the CSV header;           *)
(* ConvertWithSchema does not, and is modelled for files whose rows have   *)
(* the width of the schema.  A cell is the pair of its row and its column. *)
(***************************************************************************)
EXTENDS Naturals, Sequences, SequencesExt, FiniteSetsExt

CONSTANTS Files,          \* the CSV files considered: sequences of rows
          Width,          \* the number of columns of the columnar file
          Expected,       \* CsvReader::expected_columns_; 0: no width is checked
          RowsPerChunk,   \* kRowsPerChunk
          BytesPerCache,  \* kBytePerCache
          OffsetBytes,    \* sizeof(size_t)
          Stray           \* what GetString2D returns from beyond the cache

\* A row of a CSV file: its fields, their bytes, and whether all of them parse.
ASSUME ConvertAssumption ==
  /\ \A f \in Files : f \in Seq([width : Nat \ {0}, bytes : Nat, parses : BOOLEAN])
  /\ {Width, RowsPerChunk, OffsetBytes} \subseteq Nat \ {0}
  /\ BytesPerCache \in Nat /\ BytesPerCache > OffsetBytes
  /\ Expected \in {0, Width}
  /\ Expected = 0 => \A f \in Files : \A i \in DOMAIN f : f[i].width = Width

VARIABLES
  file,         \* the CSV file
  at,           \* where WriteToColumnar is
  next,         \* the row the reader reads next
  cache,        \* column_batch: the rows in it
  endFlag,      \* end_flag: FALSE once the reader has found the end
  accumulated,  \* accumulated_rows
  builders,     \* the cells in each column's builder
  chunks        \* the chunks written: for each, the cells of each column

vars == <<file, at, next, cache, endFlag, accumulated, builders, chunks>>

Columns == 1..Width
Place   == {"fill",     \* in the inner loop
            "append",   \* behind it
            "done",     \* Finalize has written the footer
            "failed"}   \* an exception has left the file without one

\* The cells of the rows rs, in the order the tokenizer adds them.
CellsOf(rs) ==
  FlattenSeq([i \in DOMAIN rs |-> [j \in 1..file[rs[i]].width |-> <<rs[i], j>>]])

\* VectorOfStrings2D::ApproxByteSize of a batch with the rows rs.
ApproxByteSize(rs) ==
  SumFunction([i \in DOMAIN rs |-> file[rs[i]].bytes])
    + (Len(CellsOf(rs)) + 1) * OffsetBytes

\* GetString2D(i, j): the batch is as wide as its first row.
GetString2D(i, j) ==
  LET n == (i - 1) * file[cache[1]].width + j
  IN IF n \in DOMAIN CellsOf(cache) THEN CellsOf(cache)[n] ELSE Stray

\* AddBatch of every builder.
Appended ==
  [c \in Columns |-> [i \in DOMAIN cache |-> GetString2D(i, c)]]

NoCells == [c \in Columns |-> <<>>]

Init == /\ file \in Files
        /\ at = "fill"
        /\ next = 1
        /\ cache = <<>>
        /\ endFlag = TRUE
        /\ accumulated = 0
        /\ builders = NoCells
        /\ chunks = <<>>

-----------------------------------------------------------------------------
(* Seeded bugs: each, put in the place of a definition below, is what shows *)
(* that a property of this module can fail.                                 *)

\* Rows of any width are accepted (for WidthOk).
AnyWidth(row) == TRUE

\* The builders are flushed only when a chunk is full (for ChunkIsDue).
OnlyFullChunks(n) == n >= RowsPerChunk

\* A chunk is one row too late (for ChunkIsDue).
MoreThanAChunk(n) == n > RowsPerChunk \/ ~endFlag

-----------------------------------------------------------------------------
\* The condition of the inner loop.
Room == /\ ApproxByteSize(cache) < BytesPerCache
        /\ accumulated + Len(cache) < RowsPerChunk

\* CsvReader::ReadRow's check of a row.
WidthOk(row) == Expected # 0 => row.width = Expected

\* A turn of the inner loop.
ReadRow == /\ at = "fill" /\ Room
           /\ next \in DOMAIN file
           /\ WidthOk(file[next])
           /\ cache' = Append(cache, next)
           /\ next' = next + 1
           /\ UNCHANGED <<file, at, endFlag, accumulated, builders, chunks>>

\* ReadRow throws: the writer is destroyed without Finalize.
RowRejected == /\ at = "fill" /\ Room
               /\ next \in DOMAIN file
               /\ ~WidthOk(file[next])
               /\ at' = "failed"
               /\ UNCHANGED <<file, next, cache, endFlag, accumulated, builders, chunks>>

\* ReadRow finds the end of the file.
EndOfFile == /\ at = "fill" /\ Room
             /\ next \notin DOMAIN file
             /\ endFlag' = FALSE
             /\ at' = "append"
             /\ UNCHANGED <<file, next, cache, accumulated, builders, chunks>>

\* The cache or the chunk has no room for another row.
CacheFull == /\ at = "fill" /\ ~Room
             /\ at' = "append"
             /\ UNCHANGED <<file, next, cache, endFlag, accumulated, builders, chunks>>

\* The condition for writing a chunk when the builders hold n rows.
ChunkIsDue(n) == n >= RowsPerChunk \/ ~endFlag

\* AddBatch, Finish and WriteBatch if a chunk is due, and the head of the outer loop.
AppendRows ==
  LET n == accumulated + Len(cache)
      cells == [c \in Columns |-> builders[c] \o Appended[c]]
  IN /\ at = "append"
     /\ cache # <<>>
     /\ \A i \in DOMAIN cache : file[cache[i]].parses
     /\ IF ChunkIsDue(n)
          THEN /\ chunks' = Append(chunks, cells)
               /\ accumulated' = 0
               /\ builders' = NoCells
          ELSE /\ builders' = cells
               /\ accumulated' = n
               /\ UNCHANGED chunks
     /\ cache' = <<>>
     /\ at' = IF endFlag THEN "fill" ELSE "done"
     /\ UNCHANGED <<file, next, endFlag>>

\* FromString throws on some field.
FieldRejected == /\ at = "append"
                 /\ \E i \in DOMAIN cache : ~file[cache[i]].parses
                 /\ at' = "failed"
                 /\ UNCHANGED <<file, next, cache, endFlag, accumulated, builders, chunks>>

\* Nothing was read: leave the outer loop.
NothingRead == /\ at = "append"
               /\ cache = <<>>
               /\ at' = "done"
               /\ UNCHANGED <<file, next, cache, endFlag, accumulated, builders, chunks>>

Over == at \in {"done", "failed"} /\ UNCHANGED vars

Next == \/ ReadRow \/ RowRejected \/ EndOfFile \/ CacheFull
        \/ AppendRows \/ FieldRejected \/ NothingRead
        \/ Over

Spec == Init /\ [][Next]_vars

-----------------------------------------------------------------------------
(* Safety. *)

\* The cells of column c in the chunks written and in the builder.
Converted(c) == FlattenSeq([k \in DOMAIN chunks |-> chunks[k][c]]) \o builders[c]

\* Every variable has the type the code gives it.
TypeOK == /\ at \in Place
          /\ next \in 1..(Len(file) + 1)
          /\ cache \in Seq(DOMAIN file)
          /\ endFlag \in BOOLEAN
          /\ accumulated \in 0..(RowsPerChunk - 1)
          /\ DOMAIN builders = Columns
          /\ \A k \in DOMAIN chunks : DOMAIN chunks[k] = Columns

\* Column by column, the chunks and the builders hold the rows in file order,
\* none twice, none skipped, each field in its own column: what Converted lacks
\* of the rows read is in the cache.
RowsInOrder ==
  \A c \in Columns :
    Converted(c) = [i \in 1..(next - 1 - Len(cache)) |-> <<i, c>>]

\* A file that ends before the cache has been filled once since the last chunk
\* is converted to its last row.
SmallTailKept ==
  at = "done" /\ accumulated > 0 =>
    ApproxByteSize([i \in 1..accumulated |-> next - 1 - accumulated + i]) >= BytesPerCache

\* The test's REQUIRE(column->Size() == 2): the columnar file has the rows of the
\* CSV file.
NoRowLost ==
  at = "done" => \A c \in Columns :
    FlattenSeq([k \in DOMAIN chunks |-> chunks[k][c]]) = [i \in DOMAIN file |-> <<i, c>>]
=============================================================================
