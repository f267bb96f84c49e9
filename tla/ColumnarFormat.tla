--------------------------- MODULE ColumnarFormat ---------------------------
(***************************************************************************)
(* The layout of a columnar file: what io/ColumnarWriter.cpp makes of      *)
(* columns and of the metadata, and what io/ColumnarReader.cpp makes of    *)
(* bytes.                                                                  *)
(*                                                                         *)
(* A byte is a value and the byte's place in it, so that a number read at  *)
(* an offset where none was written is Garbage; and it is a character, the *)
(* same as any other byte may be: bytes of the data, of names, lengths and *)
(* offsets can spell what the magic does.  A text (a string cell, a        *)
(* column's name) is a sequence of bytes.                                  *)
(***************************************************************************)
EXTENDS Naturals, Sequences, SequencesExt, FiniteSetsExt

CONSTANTS Magic,    \* "TUFF" as a value of four bytes
          Garbage,  \* what bytes that were not written as one value mean
          Char(_)   \* the character a byte is

Bytes(v, n) == [i \in 1..n |-> <<v, i>>]

\* The enumeration ColumnType, and sizeof(ValueType) of all but STRING.
StringType == 8
ColumnType == 0..10
ValueSize  == [t \in ColumnType \ {StringType} |-> <<2, 4, 8, 16, 4, 8, 16, 1, 0, 4, 8>>[t + 1]]

TUFF == <<"T", "U", "F", "F">>

ASSUME FormatAssumption ==
  /\ Garbage \notin Nat
  /\ \A i \in 1..4 : Char(Bytes(Magic, 4)[i]) = TUFF[i]

Refused == [refused |-> TRUE]

\* What parsing makes of metadata that are none.
Misread == [misread |-> TRUE]

-----------------------------------------------------------------------------
(* Seeded bugs: each, put in the place of a definition below, is what shows *)
(* that a property of ColumnarFile can fail.                                *)

\* The lengths are not counted as bytes of the chunk (for EncodedSize).
SizeWithoutLengths(t, column) ==
  IF t = StringType THEN Len(FlattenSeq(column)) ELSE Len(column) * ValueSize[t]

\* A file is taken as it is (for EndsWithMagic).
AnyEnd(file) == TRUE

-----------------------------------------------------------------------------
(* Writing. *)

\* The bytes of a column: strings behind their lengths, other values side by side.
Encode(t, column) ==
  FlattenSeq([i \in DOMAIN column |->
    IF t = StringType THEN Bytes(Len(column[i]), 4) \o column[i]
                  ELSE Bytes(column[i], ValueSize[t])])

\* The size recorded for a column, computed beside the bytes.
EncodedSize(t, column) ==
  IF t = StringType THEN Len(FlattenSeq(column)) + 4 * Len(column)
                ELSE Len(column) * ValueSize[t]

\* WriteMetadata.
MetadataBytes(meta, names, start, rows) ==
  Bytes(Len(meta), 4)
    \o FlattenSeq([c \in DOMAIN meta |->
         Bytes(Len(names[c].name), 4) \o names[c].name \o Bytes(names[c].type, 1)
           \o Bytes(Len(meta[c].offsets), 4)
           \o FlattenSeq([k \in DOMAIN meta[c].offsets |->
                Bytes(meta[c].offsets[k], 8) \o Bytes(meta[c].sizes[k], 8)])])
    \o Bytes(rows, 8) \o Bytes(start, 8)

\* WriteMetadata and the magic behind it.
Footer(meta, names, start, rows) == MetadataBytes(meta, names, start, rows) \o Bytes(Magic, 4)

-----------------------------------------------------------------------------
(* Reading. *)

\* The value of n bytes at offset.
Value(bytes, offset, n) ==
  LET field == SubSeq(bytes, offset + 1, offset + n)
  IN IF Len(bytes) >= offset + n /\ field = Bytes(field[1][1], n)
       THEN field[1][1] ELSE Garbage

EndsWithMagic(file) == [i \in 1..4 |-> Char(file[Len(file) - 4 + i])] = TUFF

\* The metadata of the column at offset in the buffer, and the offset behind it.
ParseColumn(buffer, offset) ==
  LET nameLength == Value(buffer, offset, 4)
      type       == offset + 4 + nameLength
      numChunks  == Value(buffer, type + 1, 4)
      pair(k)    == type + 5 + 16 * (k - 1)
  IN IF nameLength \notin Nat \/ numChunks \notin Nat THEN Misread
     ELSE [name    |-> SubSeq(buffer, offset + 5, type),
           type    |-> Value(buffer, type, 1),
           offsets |-> [k \in 1..numChunks |-> Value(buffer, pair(k), 8)],
           sizes   |-> [k \in 1..numChunks |-> Value(buffer, pair(k) + 8, 8)],
           next    |-> pair(numChunks + 1)]

\* The first n columns in the buffer, one behind the other, and the offset behind them.
ParseColumns(buffer, n) ==
  LET parsed[i \in 0..n] ==
        IF i = 0 THEN [columns |-> <<>>, offset |-> 4]
        ELSE LET before == parsed[i - 1]
                 column == ParseColumn(buffer, before.offset)
             IN IF before = Misread \/ column = Misread THEN Misread
                ELSE [columns |-> Append(before.columns, column), offset |-> column.next]
  IN parsed[n]

\* MetadataTable::ParseMetadata; Misread stands for whatever a file that is none
\* makes of the arithmetic.
ParseMetadata(file) ==
  LET size    == Len(file)
      rows    == Value(file, size - 20, 8)
      start   == Value(file, size - 12, 8)
      buffer  == SubSeq(file, start + 1, size - 20)
      numCols == Value(buffer, 0, 4)
      parsed  == ParseColumns(buffer, numCols)
  IN IF size < 24 \/ ~EndsWithMagic(file) THEN Refused
     ELSE IF start \notin Nat \/ numCols \notin Nat \/ parsed = Misread THEN Misread
     ELSE [num_rows |-> rows, columns |-> parsed.columns]

\* StringColumn::ReadFromBuffer: strings until the buffer is used up.
Strings(buffer) ==
  LET read[i \in 0..Len(buffer)] ==
        IF i = 0 THEN [offset |-> 0, texts |-> <<>>]
        ELSE LET before == read[i - 1]
                 length == Value(buffer, before.offset, 4)
                 end    == before.offset + 4 + length
             IN IF before.offset >= Len(buffer) THEN before
                ELSE IF length \notin Nat
                  THEN [offset |-> Len(buffer), texts |-> Append(before.texts, Garbage)]
                ELSE [offset |-> end,
                      texts  |-> Append(before.texts, SubSeq(buffer, before.offset + 5, end))]
  IN read[Len(buffer)].texts

\* ReadFromBuffer of the other columns.
Values(buffer, size) ==
  IF Len(buffer) % size # 0 THEN Refused
  ELSE [i \in 1..(Len(buffer) \div size) |-> Value(buffer, size * (i - 1), size)]

\* ColumnarReader::GetColumnData: a short read is refused.
GetColumnData(file, column, k) ==
  LET offset == column.offsets[k]
      buffer == SubSeq(file, offset + 1, offset + column.sizes[k])
  IN IF Len(file) < offset + column.sizes[k] THEN Refused
     ELSE IF column.type = StringType THEN Strings(buffer)
     ELSE Values(buffer, ValueSize[column.type])
=============================================================================
