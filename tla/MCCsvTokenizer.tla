--------------------------- MODULE MCCsvTokenizer ---------------------------
(***************************************************************************)
(* CsvTokenizer for TLC: every file of up to four characters of a letter   *)
(* and the five that mean something, some longer ones, and small tables    *)
(* written with quotes; buffers of one to three characters, and one that   *)
(* holds every file.                                                       *)
(***************************************************************************)
EXTENDS CsvTokenizer

CONSTANTS a, q, d, n, r, s

Short == SeqOf({a, q, d, n, r, s}, 4)

\* a,"b""," with a line end of Windows; white space around a quoted field; a
\* field that goes on behind its quotes; quotes that are never closed.
Long == {<<a, d, q, a, q, q, d, q, r, n, a, d, a>>,
         <<s, q, s, a, s, q, s, d, a, n, a, d>>,
         <<q, a, q, a, q, q, d, n, s, d, s>>,
         <<a, d, q, n, q, q, q, n, a, q, q>>}

Texts == {<<>>, <<a>>, <<q>>, <<d>>, <<n>>, <<s, a>>, <<q, q>>}

MCTables == {<<<<u>>>> : u \in Texts}
              \cup {<<<<u, v>>>> : u, v \in Texts}
              \cup {<<<<u>>, <<v>>>> : u, v \in Texts}

MCFiles == Short \cup Long \cup {Written(t) : t \in MCTables}
=============================================================================
