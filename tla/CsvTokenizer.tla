---------------------------- MODULE CsvTokenizer ----------------------------
(***************************************************************************)
(* io/CsvTokenizer.cpp under CsvReader::ReadRow: the file is read through  *)
(* a buffer, a character at a time, by an automaton of two flags.  A quote *)
(* inside quotes may be the last character of the buffer; what it means is *)
(* only known when the next buffer is there.                               *)
(*                                                                         *)
(* The reader starts behind the header, which has set expected_columns_.   *)
(***************************************************************************)
EXTENDS Naturals, Sequences, SequencesExt, FiniteSetsExt

CONSTANTS Files,     \* the files considered: sequences of characters
          Sizes,     \* kBufferSize
          Widths,    \* expected_columns_; 0: no width is checked
          Quote, Delim, Newline, Return, Space,
          Tables     \* tables that are written with every field in quotes

Whitespace == {Return, Space}     \* is_whitespace_

ASSUME TokenizerAssumption ==
  /\ IsInjective(<<Quote, Delim, Newline, Return, Space>>)
  /\ Files \subseteq Seq(UNION {Range(f) : f \in Files})
  /\ Sizes \subseteq Nat \ {0}
  /\ Widths \subseteq Nat

\* The texts of the tables.
TableTexts == UNION {UNION {Range(r) : r \in Range(t)} : t \in Tables}

\* A table has at least one column and all rows have as many.  There are no carriage
\* returns in its texts and no white space at their ends, which the tokenizer drops.
ASSUME TablesAssumption ==
  /\ \A t \in Tables : /\ t \in Seq(Seq(TableTexts))
                       /\ \A i \in DOMAIN t : t[i] # <<>> /\ Len(t[i]) = Len(t[1])
  /\ \A s \in TableTexts : /\ s \in Seq(UNION {Range(u) : u \in TableTexts})
                           /\ Return \notin Range(s)
                           /\ s # <<>> => s[Len(s)] \notin Whitespace

VARIABLES
  file,       \* the file
  size,       \* buffer_.size()
  expected,   \* expected_columns_
  read,       \* how much of the file has been read into the buffer so far
  pos, end,   \* buffer_pos_, buffer_end_
  eof,        \* eof_reached_
  at,         \* where ReadRow and GetNextRow are
  started,    \* token_started
  inQuotes,   \* in_quotes
  text,       \* the string being added to the row
  row,        \* the strings in the current line
  rows        \* the rows ReadRow has returned

buffer    == <<size, read, pos, end, eof>>
automaton == <<started, inQuotes, text, row>>
vars      == <<file, expected, buffer, at, automaton, rows>>

Place == {"call",     \* the caller is about to call ReadRow
          "loop",     \* at the top of the loop of GetNextRow
          "quote",    \* behind a quote found inside quotes
          "end",      \* ReadRow has returned false
          "thrown"}   \* ReadRow has thrown

Init ==
  /\ file \in Files /\ size \in Sizes /\ expected \in Widths
  /\ read = 0 /\ pos = 0 /\ end = 0 /\ eof = FALSE
  /\ at = "call"
  /\ started = FALSE /\ inQuotes = FALSE
  /\ text = <<>> /\ row = <<>> /\ rows = <<>>

-----------------------------------------------------------------------------
(* The buffer.                                                             *)

\* buffer_[buffer_pos_]: the buffer holds the last `end` characters read.
Char == file[(read - end) + pos + 1]

Buffered == pos < end

-----------------------------------------------------------------------------
(* Seeded bugs, see the README.                                            *)

\* The end of the file is taken for reached when a read fills less than the
\* buffer, although what was read is still to be looked at.
EofOnShortRead ==
  /\ at \in {"loop", "quote"}
  /\ ~Buffered /\ ~eof
  /\ LET count == Min({size, Len(file) - read}) IN
     /\ read' = read + count
     /\ end'  = count
     /\ eof'  = (count < size)
  /\ pos' = 0
  /\ UNCHANGED <<file, size, expected, at, automaton, rows>>

\* A read that gives nothing is not remembered.
EofForgotten ==
  /\ at \in {"loop", "quote"}
  /\ ~Buffered /\ ~eof
  /\ LET count == Min({size, Len(file) - read}) IN read' = read + count /\ end' = count
  /\ pos' = 0
  /\ UNCHANGED <<file, size, expected, eof, at, automaton, rows>>

\* A quote at the end of the buffer is taken for a closing one.
CloseAtBufferEnd ==
  /\ at = "quote"
  /\ Buffered => Char # Quote
  /\ inQuotes' = FALSE
  /\ at' = "loop"
  /\ UNCHANGED <<file, expected, buffer, started, text, row, rows>>

\* The second of two quotes is looked at again.
QuoteNotSkipped ==
  /\ at = "quote" /\ Buffered /\ Char = Quote
  /\ started' = TRUE /\ text' = Append(text, Quote)
  /\ at' = "loop"
  /\ UNCHANGED <<file, expected, buffer, inQuotes, row, rows>>

-----------------------------------------------------------------------------
\* RefillBuffer: the end of the file is noticed by a read that gives nothing.
RefillBuffer ==
  /\ at \in {"loop", "quote"}
  /\ ~Buffered /\ ~eof
  /\ LET count == Min({size, Len(file) - read}) IN
     /\ read' = read + count
     /\ end'  = count
     /\ eof'  = (count = 0)
  /\ pos' = 0
  /\ UNCHANGED <<file, size, expected, at, automaton, rows>>

Consume == pos' = pos + 1 /\ UNCHANGED <<file, size, expected, read, end, eof>>

-----------------------------------------------------------------------------
(* The turns of the loop of GetNextRow, one action per branch.             *)

\* The string without the whitespace at its end.
Trimmed(s) ==
  LET ends == {i \in DOMAIN s : s[i] \notin Whitespace}
  IN SubSeq(s, 1, IF ends = {} THEN 0 ELSE Max(ends))

\* ContinueAddString, after start_token_if_needed.
Add(s) == started' = TRUE /\ text' = text \o s

SkipWhitespace ==
  /\ at = "loop" /\ Buffered
  /\ ~started /\ ~inQuotes /\ Char \in Whitespace
  /\ Consume
  /\ UNCHANGED <<at, automaton, rows>>

\* Carriage returns are dropped everywhere.
AddChar ==
  /\ at = "loop" /\ Buffered
  /\ Char # Quote
  /\ \/ inQuotes
     \/ Char \notin {Delim, Newline} /\ (started \/ Char \notin Whitespace)
  /\ Add(IF Char = Return THEN <<>> ELSE <<Char>>)
  /\ Consume
  /\ UNCHANGED <<at, inQuotes, row, rows>>

OpenQuotes ==
  /\ at = "loop" /\ Buffered
  /\ ~inQuotes /\ Char = Quote
  /\ inQuotes' = TRUE
  /\ Add(<<>>)
  /\ Consume
  /\ UNCHANGED <<at, row, rows>>

QuoteInQuotes ==
  /\ at = "loop" /\ Buffered
  /\ inQuotes /\ Char = Quote
  /\ at' = "quote"
  /\ Consume
  /\ UNCHANGED <<automaton, rows>>

EscapedQuote ==
  /\ at = "quote" /\ Buffered /\ Char = Quote
  /\ Add(<<Quote>>)
  /\ at' = "loop"
  /\ Consume
  /\ UNCHANGED <<inQuotes, row, rows>>

CloseQuotes ==
  /\ at = "quote"
  /\ IF Buffered THEN Char # Quote ELSE eof
  /\ inQuotes' = FALSE
  /\ at' = "loop"
  /\ UNCHANGED <<file, expected, buffer, started, text, row, rows>>

\* EndAddString: the row with the string added.
RowWithText == Append(row, Trimmed(text))

EndField ==
  /\ at = "loop" /\ Buffered
  /\ ~inQuotes /\ Char = Delim
  /\ row' = RowWithText
  /\ started' = FALSE /\ text' = <<>>
  /\ Consume
  /\ UNCHANGED <<at, inQuotes, rows>>

-----------------------------------------------------------------------------
(* ReadRow.                                                                *)

BeginRow ==
  /\ at = "call"
  /\ at' = IF eof THEN "end" ELSE "loop"
  /\ UNCHANGED <<file, expected, buffer, automaton, rows>>

\* What ReadRow does with the row that GetNextRow has added.
FinishRow(r) ==
  /\ started' = FALSE /\ inQuotes' = FALSE /\ text' = <<>> /\ row' = <<>>
  /\ IF expected \in {0, Len(r)} THEN at' = "call" /\ rows' = Append(rows, r)
                                 ELSE at' = "thrown" /\ UNCHANGED rows

EndLine ==
  /\ at = "loop" /\ Buffered
  /\ ~inQuotes /\ Char = Newline
  /\ FinishRow(RowWithText)
  /\ Consume

\* The file has ended.  A last field counts only if it has begun.
EndOfFile ==
  /\ at = "loop" /\ ~Buffered /\ eof
  /\ LET last == IF started THEN RowWithText ELSE row IN
     IF last = <<>> THEN at' = "end" /\ UNCHANGED <<automaton, rows>>
                    ELSE FinishRow(last)
  /\ UNCHANGED <<file, expected, buffer>>

Over == at \in {"end", "thrown"} /\ UNCHANGED vars

Next ==
  \/ RefillBuffer \/ SkipWhitespace \/ AddChar
  \/ OpenQuotes \/ QuoteInQuotes \/ EscapedQuote \/ CloseQuotes
  \/ EndField \/ BeginRow \/ EndLine \/ EndOfFile
  \/ Over

Spec == Init /\ [][Next]_vars

\* One thread reads the file, and nothing it calls blocks.
FairSpec == Spec /\ WF_vars(Next)

-----------------------------------------------------------------------------
(* What a file says, without a buffer and without an automaton.            *)

\* The members of a finite set of numbers, the smallest first.
InOrder(S) == [j \in 1..Cardinality(S) |->
                 CHOOSE x \in S : Cardinality({y \in S : y < x}) = j - 1]

\* Position i is inside quotes: an odd number of quotes is before it.
Inside(f, i) == Cardinality({k \in 1..(i - 1) : f[k] = Quote}) % 2 = 1

\* The separators c of the file: those that are not inside quotes.
Separators(f, c) == {i \in DOMAIN f : f[i] = c /\ ~Inside(f, i)}

\* In the field that begins at s, the character at i is part of the text: a
\* quote if it follows the quote that would have closed the field, another
\* character unless it is a carriage return or white space before everything.
InText(f, s, i) ==
  IF f[i] = Quote
    THEN i > s /\ f[i - 1] = Quote /\ Inside(f, i - 1)
    ELSE f[i] # Return /\ \E k \in s..i : f[k] \notin Whitespace

\* The text of the field from s to e, without the white space at its end.
FieldText(f, s, e) ==
  LET kept == {i \in s..e : InText(f, s, i)}
      body == {i \in kept : \E k \in kept : k >= i /\ f[k] \notin Whitespace}
      places == InOrder(body)
  IN [k \in DOMAIN places |-> f[places[k]]]

\* The fields of the line that begins at s and ends before e.  At the end of
\* the file, a field that has no more than white space is none.
Fields(f, s, e) ==
  LET cuts  == InOrder({s - 1, e} \cup {d \in Separators(f, Delim) : s <= d /\ d < e})
      all   == [j \in 1..(Len(cuts) - 1) |-> FieldText(f, cuts[j] + 1, cuts[j + 1] - 1)]
      blank == e > Len(f) /\ \A k \in (cuts[Len(cuts) - 1] + 1)..Len(f) : f[k] \in Whitespace
  IN IF blank THEN Front(all) ELSE all

\* The lines, each up to its newline, and what is behind the last newline unless it
\* is nothing.
Lines(f) ==
  LET cuts == InOrder({0, Len(f) + 1} \cup Separators(f, Newline))
      all  == [i \in 1..(Len(cuts) - 1) |-> Fields(f, cuts[i] + 1, cuts[i + 1])]
  IN IF Last(all) = <<>> THEN Front(all) ELSE all

\* A table as a file, every field in quotes and every quote in it doubled.
Escaped(s) == FlattenSeq([k \in DOMAIN s |-> IF s[k] = Quote THEN <<Quote, Quote>>
                                                             ELSE <<s[k]>>])
WrittenRow(r) ==
  FlattenSeq([j \in DOMAIN r |-> (IF j = 1 THEN <<>> ELSE <<Delim>>)
                                   \o <<Quote>> \o Escaped(r[j]) \o <<Quote>>])
Written(table) == FlattenSeq([i \in DOMAIN table |-> WrittenRow(table[i]) \o <<Newline>>])

WrittenTables == [t \in Tables |-> Written(t)]

-----------------------------------------------------------------------------
(* Properties.                                                             *)

\* The flags are Booleans, the buffer is no longer than its size and what it
\* holds comes from the file; inside quotes a string has begun, and a row is
\* only under way within GetNextRow.
TypeOK ==
  /\ at \in Place
  /\ {started, inQuotes, eof} \subseteq BOOLEAN
  /\ pos <= end /\ end <= size /\ end <= read /\ read <= Len(file)
  /\ eof => read = Len(file) /\ end = 0
  /\ inQuotes => started
  /\ at = "quote" => inQuotes
  /\ at = "call" => row = <<>> /\ text = <<>> /\ ~started

\* Wherever the buffer ends, in the middle of a field, between two quotes, or
\* behind the last character: the rows that ReadRow returns are the lines of
\* the file up to the first of another width than the header's, and it throws
\* exactly if there is such a line.
RowsAreLines ==
  at \in {"end", "thrown"} =>
    LET lines == Lines(file)
        wrong == {i \in DOMAIN lines : expected \notin {0, Len(lines[i])}}
    IN /\ (at = "thrown") = (wrong # {})
       /\ rows = SubSeq(lines, 1, IF wrong = {} THEN Len(lines) ELSE Min(wrong) - 1)

\* A table that was written with its fields in quotes is read back as it was,
\* delimiters, newlines, quotes and leading spaces included.  (Not so carriage
\* returns and white space at the end of a field, see TablesAssumption.)
QuotedTablesSurvive ==
  at \in {"end", "thrown"} =>
    \A t \in Tables : WrittenTables[t] = file /\ expected \in {0, Len(t[1])} =>
      at = "end" /\ rows = t

\* Whatever the file holds, also quotes that are never closed, reading ends.
ReadingEnds == <>(at \in {"end", "thrown"})
=============================================================================
