---------------------------- MODULE ColumnarFile ----------------------------
(***************************************************************************)
(* io/ColumnarWriter.cpp and io/ColumnarReader.cpp on one file: the writer *)
(* puts batches behind each other and the metadata that says where they    *)
(* are behind the last one; the reader starts from the end of the file.    *)
(*                                                                         *)
(* No write is checked.  When one fails (a full disk) the stream refuses   *)
(* all later ones and Finalize returns as if nothing had happened; when    *)
(* the process dies, or an exception destroys the writer before Finalize,  *)
(* nothing more is written.  Either way the file is a prefix of what was   *)
(* meant.                                                                  *)
(* ColumnarFormat has the layout.                                          *)
(***************************************************************************)
EXTENDS ColumnarFormat

CONSTANTS Schemas,  \* the schemas considered: sequences of columns, name and type
          Texts,    \* the strings in STRING columns
          Numbers,  \* the values in the other columns
          MaxRows,  \* bound: the rows of a file
          MaxBatches \* bound: the batches of a file

VARIABLES
  schema,         \* what WriteHeader is called with
  at,             \* where the user of the writer is
  disk,           \* the bytes of the file
  bad,            \* the stream has failed, or the process
  current_offset, \* current_offset_
  num_rows,       \* num_rows_
  metadata,       \* metadata_: offsets and sizes of each column
  written         \* history: the batches given to WriteBatch

vars == <<schema, at, disk, bad, current_offset, num_rows, metadata, written>>

Place   == {"new", "open", "finalized"}
Columns == DOMAIN schema

\* The values a column of type t may hold.
Cells(t) == IF t = StringType THEN Texts ELSE Numbers

\* The batches of n rows: a column of values for each column of the schema.
Batches(n) ==
  {b \in [Columns -> [1..n -> Texts \cup Numbers]] :
     \A c \in Columns : \A i \in 1..n : b[c][i] \in Cells(schema[c].type)}

\* A writer that will be given the schema s.
InitFor(s) == /\ schema = s
              /\ at = "new"
              /\ disk = <<>>
              /\ bad = FALSE
              /\ current_offset = 0
              /\ num_rows = 0
              /\ metadata = [c \in DOMAIN s |-> [offsets |-> <<>>, sizes |-> <<>>]]
              /\ written = <<>>

Init == \E s \in Schemas : InitFor(s)

-----------------------------------------------------------------------------
(* Seeded bugs: each, put in the place of a definition below, is what shows *)
(* that a property of this module can fail.                                 *)

\* The first chunk is taken to start where the file does (for DataStart).
StartOfFile == 0

-----------------------------------------------------------------------------
(* Writing. *)

\* file_.write: nothing reaches the disk once the stream has failed.
Write(bytes) == disk' = IF bad THEN disk ELSE disk \o bytes

\* The metadata of a column with one more chunk.
WithChunk(meta, offset, size) == [offsets |-> Append(meta.offsets, offset),
                                  sizes   |-> Append(meta.sizes, size)]

\* current_offset_ behind the magic.
DataStart == 4

WriteHeader == /\ at = "new"
               /\ at' = "open"
               /\ Write(Bytes(Magic, 4))
               /\ current_offset' = DataStart
               /\ UNCHANGED <<schema, bad, num_rows, metadata, written>>

\* The bytes of a batch, column behind column.
BatchBytes(batch) == FlattenSeq([c \in Columns |-> Encode(schema[c].type, batch[c])])

WriteBatch(batch) ==
  LET Size(c)   == EncodedSize(schema[c].type, batch[c])
      Offset(c) == current_offset + SumFunction([d \in 1..(c - 1) |-> Size(d)])
  IN /\ at = "open"
     /\ Write(BatchBytes(batch))
     /\ metadata' = [c \in Columns |-> WithChunk(metadata[c], Offset(c), Size(c))]
     /\ current_offset' = Offset(Len(schema) + 1)
     /\ num_rows' = num_rows + Len(batch[1])
     /\ written' = Append(written, batch)
     /\ UNCHANGED <<schema, at, bad>>

\* The user of the writer gives it some batch.
SomeBatch == /\ Len(written) < MaxBatches
             /\ \E n \in 0..(MaxRows - num_rows) : \E batch \in Batches(n) : WriteBatch(batch)

Finalize == /\ at = "open"
            /\ at' = "finalized"
            /\ Write(Footer(metadata, schema, current_offset, num_rows))
            /\ UNCHANGED <<schema, bad, current_offset, num_rows, metadata, written>>

\* Some tail of what was written does not reach the disk, nor does what follows.
LoseTail == /\ ~bad
            /\ bad' = TRUE
            /\ \E n \in 0..Len(disk) : disk' = SubSeq(disk, 1, n)
            /\ UNCHANGED <<schema, at, current_offset, num_rows, metadata, written>>

Over == at = "finalized" /\ bad /\ UNCHANGED vars

Next == WriteHeader \/ SomeBatch \/ Finalize \/ LoseTail \/ Over

Spec == Init /\ [][Next]_vars

-----------------------------------------------------------------------------
(* Safety. *)

\* Every variable has the type the code gives it.
TypeOK == /\ at \in Place
          /\ bad \in BOOLEAN
          /\ {current_offset, num_rows} \subseteq Nat
          /\ \A c \in Columns : \A f \in {"offsets", "sizes"} :
               /\ metadata[c][f] \in Seq(Nat)
               /\ Len(metadata[c][f]) = Len(written)

\* The extents recorded for the chunks tile the data of the file: batch by batch
\* and in it column by column, each starts where the one before it ends, the
\* first behind the magic, and the bytes there are the chunk's.
ExtentsTile ==
  LET Extent(i) == LET k == ((i - 1) \div Len(schema)) + 1
                       c == ((i - 1) % Len(schema)) + 1
                   IN [from |-> metadata[c].offsets[k],
                       to   |-> metadata[c].offsets[k] + metadata[c].sizes[k],
                       data |-> Encode(schema[c].type, written[k][c])]
      n == Len(written) * Len(schema)
  IN at = "open" =>
       /\ \A i \in 1..n : Extent(i).from = IF i = 1 THEN 4 ELSE Extent(i - 1).to
       /\ current_offset = IF n = 0 THEN 4 ELSE Extent(n).to
       /\ ~bad => /\ Len(disk) = current_offset
                  /\ \A i \in 1..n :
                       SubSeq(disk, Extent(i).from + 1, Extent(i).to) = Extent(i).data

\* What was written is what is read: from a finalized file the reader recovers
\* names, types and the number of rows, and every chunk value by value, empty
\* batches, empty strings and strings that hold the magic included.
RoundTrip ==
  LET meta == ParseMetadata(disk)
  IN at = "finalized" /\ ~bad =>
       /\ meta \notin {Refused, Misread}
       /\ meta.num_rows = SumFunction([k \in DOMAIN written |-> Len(written[k][1])])
       /\ Len(meta.columns) = Len(schema)
       /\ \A c \in Columns :
            /\ meta.columns[c].name = schema[c].name
            /\ meta.columns[c].type = schema[c].type
            /\ Len(meta.columns[c].offsets) = Len(written)
            /\ \A k \in DOMAIN written :
                 GetColumnData(disk, meta.columns[c], k) = written[k][c]

\* What the writer puts between the two magics, or would if it went on to Finalize.
Content == FlattenSeq([k \in DOMAIN written |-> BatchBytes(written[k])])
             \o MetadataBytes(metadata, schema, current_offset, num_rows)

\* The file ends behind four bytes of the content that happen to be TUFF: of a
\* string or a name, of a number or some numbers side by side, of a length.
CutAtMagic == \E n \in 4..Len(Content) :
                Len(disk) = 4 + n /\ \A i \in 1..4 : Char(Content[n - 4 + i]) = TUFF[i]

\* Finalize's last byte has reached the disk.
Complete == /\ at = "finalized"
            /\ Len(disk) = current_offset
                             + Len(Footer(metadata, schema, current_offset, num_rows))

\* A file that was not finished (the writer still at work, thrown away, killed, or
\* out of disk space without noticing) is refused wherever it ends, unless the
\* last of the content that it has spells the magic.  What the writer itself puts
\* there is no excuse: not the magic in front, and not a part of the one behind
\* with what is before it.
UnfinishedRefused == ParseMetadata(disk) # Refused => Complete \/ CutAtMagic
=============================================================================
