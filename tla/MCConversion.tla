---------------------------- MODULE MCConversion ----------------------------
(***************************************************************************)
(* Conversion for TLC.  All CSV files of up to five rows: a chunk is three *)
(* rows; two rows, one of them with a long text, fill a cache.  So chunks  *)
(* end by rows and caches by bytes, in every order.  The columns are a     *)
(* string and a four-byte number, both of which are TUFF in the second     *)
(* row.                                                                    *)
(*                                                                         *)
(* And the writer alone with a schema of a string and a two-byte column,   *)
(* and one of an eight-byte column; strings that are empty, short, and the *)
(* magic with a byte behind it; up to two batches with up to three rows in *)
(* all.  The magic is spelled by that string, by a column's name, by half  *)
(* of the number x, by x and y side by side in two bytes each, and, in the *)
(* place of 0x46465554, by the number five: as a string's length, and in   *)
(* the size of a chunk.                                                    *)
(***************************************************************************)
EXTENDS Conversion

CONSTANTS a, x, y, r1, r2, r3, r4, r5

Row == [width : {2}, bytes : {1, 5}, parses : {TRUE}]

\* Rows of the wrong width and rows with a field that does not parse.
BadRow == [width : {1, 3}, bytes : {1}, parses : {TRUE}]
            \cup [width : {2}, bytes : {1}, parses : {FALSE}]

MCFiles == UNION {[1..n -> Row \cup BadRow] : n \in 0..4} \cup [1..5 -> Row]

\* Rows of the right width, all of whose fields parse.
MCGoodFiles == UNION {[1..n -> Row] : n \in 0..5}

MCCsvSchema == <<[name |-> Bytes(a, 1), type |-> 8], [name |-> Bytes(a, 2), type |-> 1]>>

\* What is in the fields of a row: a number of one character, and no text or one of
\* four.  What is no field is no number.
Field(cell) == <<r1, r2, r3, r4, r5>>[cell[1]]
MCTextIn(cell, bytes) == IF bytes = 1 THEN <<>> ELSE Bytes(Field(cell), 4)
MCNumberIn(cell) == IF cell = Stray THEN Garbage ELSE Field(cell)

MCSchemas == {<<[name |-> Bytes(a, 2), type |-> 8], [name |-> Bytes(a, 1), type |-> 0]>>,
              <<[name |-> Bytes(Magic, 4), type |-> 2]>>}

MCTexts   == {<<>>, Bytes(a, 1), Bytes(Magic, 4) \o Bytes(a, 1)}
MCNumbers == {x, y}

\* The values whose first four bytes are TUFF.
Spells(v) == v = Magic \/ v = x \/ v = r2 \/ v = 5

MCChar(byte) == IF Spells(byte[1]) /\ byte[2] \in 1..4 THEN TUFF[byte[2]]
                ELSE IF byte[1] = y THEN "F" ELSE "other"
=============================================================================
