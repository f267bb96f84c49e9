----------------------------- MODULE Conversion -----------------------------
(***************************************************************************)
(* io/CsvToColumnar.cpp with its writer: a conversion decides which cells  *)
(* go into a chunk and when (CsvConvert), and the ColumnarWriter puts the  *)
(* chunks into the file a query will read (ColumnarFile).  An exception    *)
(* destroys the writer with the file unfinished.                           *)
(*                                                                         *)
(* Or the writer is on its own, as the tests use it, with every batch a    *)
(* user may give it, and a disk that may be full.                          *)
(***************************************************************************)
EXTENDS CsvConvert, ColumnarFormat

CONSTANTS Schemas, Texts, Numbers, MaxRows, MaxBatches,  \* see ColumnarFile
          CsvSchema,      \* the columns of the CSV file
          TextIn(_, _),   \* the text of a cell, in a row of so many bytes
          NumberIn(_),    \* the value FromString makes of a cell in another column
          LengthLimit     \* 2^32: the length of a text, a uint32_t in the file, is below

ASSUME ConversionAssumption ==
  /\ \A s \in Schemas \cup {CsvSchema} :
       /\ s \in Seq(Range(s)) /\ s # <<>>
       /\ \A i \in DOMAIN s : s[i].type \in ColumnType /\ s[i].name \in Seq(Range(s[i].name))
  /\ \A t \in Texts : t \in Seq(Range(t))
  /\ Len(CsvSchema) = Width
  /\ \A f \in Files : \A i \in DOMAIN f : \A j \in 1..Width :
       LET text == TextIn(<<i, j>>, f[i].bytes) IN text \in Seq(Range(text))
  /\ {MaxRows, MaxBatches} \subseteq Nat

\* What the file says of lengths is not cut off: the writer narrows them unchecked.
ASSUME LengthAssumption ==
  /\ \A t \in Texts : Len(t) < LengthLimit
  /\ \A s \in Schemas \cup {CsvSchema} : \A i \in DOMAIN s : Len(s[i].name) < LengthLimit
  /\ \A f \in Files : \A i \in DOMAIN f : \A j \in 1..Width :
       Len(TextIn(<<i, j>>, f[i].bytes)) < LengthLimit

VARIABLES
  converting,  \* is this a conversion?
  schema, writer, disk, bad, current_offset, num_rows, metadata, written  \* see ColumnarFile

Writer == INSTANCE ColumnarFile WITH at <- writer

writerVars == <<schema, writer, disk, bad, current_offset, num_rows, metadata, written>>
allVars    == <<vars, converting, writerVars>>

\* The text of a cell; what is none (from beyond the cache) is taken for an empty one.
TextOf(cell) ==
  IF cell \in (DOMAIN file) \X Columns THEN TextIn(cell, file[cell[1]].bytes) ELSE <<>>

\* What the builder of column c appends for a cell.
ValueOf(c, cell) == IF schema[c].type = StringType THEN TextOf(cell) ELSE NumberIn(cell)

-----------------------------------------------------------------------------
(* Seeded bugs: each, put in the place of a definition below, is what shows *)
(* that a property of this module can fail.                                 *)

\* Builders take no empty strings (for ColumnOf).
WithoutEmpty(c, cells) ==
  SelectSeq([i \in DOMAIN cells |-> ValueOf(c, cells[i])], LAMBDA value : value # <<>>)

-----------------------------------------------------------------------------
\* The column that Finish makes of the cells of the builder of column c.
ColumnOf(c, cells) == [i \in DOMAIN cells |-> ValueOf(c, cells[i])]

ConversionInit ==
  /\ converting \in BOOLEAN
  /\ Init
  /\ IF converting THEN Writer!InitFor(CsvSchema)
     ELSE Writer!Init /\ file = CHOOSE f \in Files : TRUE

\* writer.WriteHeader, in front of the loop.
BeginConversion == converting /\ Writer!WriteHeader /\ UNCHANGED <<vars, converting>>

\* A step of the loop, with WriteBatch if it has flushed the builders.
ConversionStep ==
  /\ converting /\ writer = "open" /\ at # "done"
  /\ Next
  /\ IF chunks' = chunks THEN UNCHANGED writerVars
     ELSE Writer!WriteBatch([c \in Columns |-> ColumnOf(c, Last(chunks')[c])])
  /\ UNCHANGED converting

\* Behind the loop.
FinishConversion ==
  converting /\ at = "done" /\ Writer!Finalize /\ UNCHANGED <<vars, converting>>

ConversionOver == converting /\ writer = "finalized" /\ UNCHANGED allVars

\* The disk is full, or the process dies.
TailLost == converting /\ Writer!LoseTail /\ UNCHANGED <<vars, converting>>

\* The writer alone.
WriterAlone == ~converting /\ Writer!Next /\ UNCHANGED <<vars, converting>>

ConversionNext ==
  BeginConversion \/ ConversionStep \/ FinishConversion \/ TailLost \/ ConversionOver \/ WriterAlone

ConversionSpec == ConversionInit /\ [][ConversionNext]_allVars

-----------------------------------------------------------------------------
(* Safety. *)

\* The types of both components.
ConversionTypeOK == TypeOK /\ Writer!TypeOK

\* The chunks tile the data of the file, as ColumnarFile states it.
ExtentsTile == Writer!ExtentsTile

\* The reader recovers what was written, as ColumnarFile states it.
RoundTrip == Writer!RoundTrip

\* A file that was not finished is refused, as ColumnarFile states it: also the one
\* a conversion leaves behind that an exception has ended.
UnfinishedRefused == Writer!UnfinishedRefused

\* From the CSV file to the query: a file the reader takes, converted from CSV, has
\* in each column the values of the CSV file's rows in their order, and its
\* metadata counts them; those of the last rows that were left in the builders
\* (SmallTailKept says when there are none) are at most a chunk's.  The exception
\* is UnfinishedRefused's: a file that was cut where the rows or the metadata so
\* far spell the magic.
ConvertedIsRead ==
  LET meta == Writer!ParseMetadata(disk)
      values(c) == FlattenSeq([k \in DOMAIN meta.columns[c].offsets |->
                                 Writer!GetColumnData(disk, meta.columns[c], k)])
  IN converting /\ meta # Writer!Refused =>
       \/ Writer!CutAtMagic
       \/ /\ at = "done"
          /\ meta.num_rows = Len(file) - accumulated /\ accumulated < RowsPerChunk
          /\ \A c \in Columns :
               values(c) = [i \in 1..meta.num_rows |-> ValueOf(c, <<i, c>>)]
=============================================================================
