------------------------------ MODULE RowQuery ------------------------------
(***************************************************************************)
(* What the transforms of a pipeline promise: a query over rows, one node  *)
(* after the other, with columns addressed by name.  A filter keeps the    *)
(* rows its condition holds of, a projection appends a value to every row, *)
(* Drop and Reorder pick columns, a limit takes a prefix.                  *)
(*                                                                         *)
(* A value is what Display would print: a number, a text as the sequence   *)
(* of its characters, a date <<y, m, d>>, a time <<y, m, d, h, mi, s>>.    *)
(* A condition is the sequence of its subexpressions, operands in front of *)
(* the And or Or they belong to, the whole last.                           *)
(***************************************************************************)
EXTENDS Integers, Sequences, SequencesExt

CONSTANTS Percent,  \* the wildcard of LIKE
          Replace,  \* REGEXP_REPLACE of a query, as a function on texts
          Limit     \* an INT16 holds -Limit .. Limit - 1

VARIABLES
  base,     \* the columns of the source: a sequence of [name, type]
  plan,     \* the nodes, in the order they are applied
  done,     \* how many of them have been
  rows,     \* the rows now
  outcome   \* "pending", "answered" or "refused"

vars == <<base, plan, done, rows, outcome>>

-----------------------------------------------------------------------------
(* Columns.                                                                 *)

NoType == "none"

IntegerTypes == {"INT16", "INT32", "INT64"}

Position(header, name) == SelectInSeq(header, LAMBDA f : f.name = name)
TypeOf(header, name) ==
  IF Position(header, name) = 0 THEN NoType ELSE header[Position(header, name)].type

\* The type of a literal that is compared with a column.
LiteralType(type) == CASE type = "DATE"      -> "INT32"
                       [] type = "TIMESTAMP" -> "INT64"
                       [] OTHER              -> type

ResultType(header, e) == CASE e.fn = "minute"             -> "INT32"
                           [] e.fn = "length"             -> "INT64"
                           [] e.fn = "trunc"              -> "TIMESTAMP"
                           [] e.fn = "replace"            -> "STRING"
                           [] e.fn = "plus"               -> TypeOf(header, e.col)
                           [] e.fn \in {"literal", "case"} -> e.type

WithOutputs(header, exprs) ==
  FoldLeft(LAMBDA h, e : Append(h, [name |-> e.name, type |-> ResultType(h, e)]),
           header, exprs)

\* The columns that Drop and Reorder pick.
Picks(header, node) ==
  IF node.op = "drop"
    THEN SelectSeq([i \in DOMAIN header |-> i], LAMBDA i : header[i].name \notin node.columns)
    ELSE [i \in DOMAIN node.order |-> Position(header, node.order[i])]

Pick(s, positions) == [i \in DOMAIN positions |-> s[positions[i]]]

HeaderAfter(header, node) ==
  CASE node.op = "project"             -> WithOutputs(header, node.exprs)
    [] node.op \in {"drop", "reorder"} -> Pick(header, Picks(header, node))
    [] OTHER                           -> header

\* The columns in front of node n.
Header(n) == FoldLeft(HeaderAfter, base, SubSeq(plan, 1, n - 1))

-----------------------------------------------------------------------------
(* Which queries have an answer.                                            *)

\* How many fields of a time a unit keeps.
Kept == [YEAR |-> 1, MONTH |-> 2, DAY |-> 3, HOUR |-> 4, MINUTE |-> 5, SECOND |-> 6]

CondFits(header, cond) ==
  \A i \in DOMAIN cond :
    cond[i].test \notin {"and", "or"} =>
      LiteralType(TypeOf(header, cond[i].col)) = cond[i].type

ExprFits(header, e) ==
  CASE e.fn = "minute"              -> TypeOf(header, e.col) = "TIMESTAMP"
    [] e.fn = "trunc"               -> /\ TypeOf(header, e.col) = "TIMESTAMP"
                                       /\ e.unit \in DOMAIN Kept
    [] e.fn \in {"length", "replace"} -> TypeOf(header, e.col) = "STRING"
    [] e.fn = "plus"                  -> TypeOf(header, e.col) \in IntegerTypes
    [] e.fn = "literal"               -> TRUE
    [] e.fn = "case" -> /\ CondFits(header, e.cond)
                        /\ \A b \in {e.then, e.else} :
                             b.kind = "column" => TypeOf(header, b.col) = e.type

NodeFits(header, node) ==
  LET names == {header[i].name : i \in DOMAIN header}
  IN CASE node.op = "filter"  -> CondFits(header, node.cond)
       [] node.op = "project" ->
            \A i \in DOMAIN node.exprs :
              ExprFits(WithOutputs(header, SubSeq(node.exprs, 1, i - 1)), node.exprs[i])
       [] node.op = "drop"    -> node.columns \subseteq names
       [] node.op = "reorder" -> Range(node.order) \subseteq names
       [] node.op = "limit"   -> TRUE

\* Every name is known where it is used, and of a type that fits its use.
\* (Header is only defined behind nodes that fit.)
PlanFits ==
  LET fits[n \in 0..Len(plan)] == n = 0 \/ (fits[n - 1] /\ NodeFits(Header(n), plan[n]))
  IN fits[Len(plan)]

-----------------------------------------------------------------------------
(* Values.                                                                  *)

\* The order of sequences of numbers: of dates, of times and of texts.
Before(s, t) ==
  \/ IsStrictPrefix(s, t)
  \/ \E i \in DOMAIN s \cap DOMAIN t :
       SubSeq(s, 1, i - 1) = SubSeq(t, 1, i - 1) /\ s[i] < t[i]

Less(type, a, b) == IF type \in IntegerTypes THEN a < b ELSE Before(a, b)

\* x LIKE pattern: a Percent stands for any text.
Like(x, pattern) ==
  LET m[i \in 1..(Len(x) + 1), j \in 1..(Len(pattern) + 1)] ==
        CASE j > Len(pattern)     -> i > Len(x)
          [] j <= Len(pattern) /\ pattern[j] = Percent -> \E k \in i..(Len(x) + 1) : m[k, j + 1]
          [] OTHER -> i <= Len(x) /\ x[i] = pattern[j] /\ m[i + 1, j + 1]
  IN m[1, 1]

\* Does the condition hold of a row?
Holds(header, cond, row) ==
  LET holds[i \in DOMAIN cond] ==
        LET c == cond[i]
            v == row[Position(header, c.col)]
            type == TypeOf(header, c.col)
        IN CASE c.test = "and"     -> holds[c.left] /\ holds[c.right]
             [] c.test = "or"      -> holds[c.left] \/ holds[c.right]
             [] c.test = "="       -> v = c.value
             [] c.test = "<>"      -> v # c.value
             [] c.test = ">"       -> Less(type, c.value, v)
             [] c.test = ">="      -> ~Less(type, v, c.value)
             [] c.test = "<="      -> ~Less(type, c.value, v)
             [] c.test = "like"    -> Like(v, c.value)
             [] c.test = "notlike" -> ~Like(v, c.value)
  IN holds[Len(cond)]

\* The first moment of the unit a time is in: the fields behind the unit's are
\* at their beginning.
StartOf(t, unit) ==
  [i \in 1..6 |-> CASE i <= Kept[unit] -> t[i] [] i > Kept[unit] /\ i <= 3 -> 1 [] OTHER -> 0]

\* A sum as a value of its type: an INT16 is one modulo its width.  (The sums of
\* the wider types are taken to be in their range.)
Wrapped(type, n) == IF type = "INT16" THEN ((n + Limit) % (2 * Limit)) - Limit ELSE n

\* The value of an expression on a row.
Value(header, e, row) ==
  LET v == row[Position(header, e.col)]
  IN CASE e.fn = "minute"  -> v[5]
       [] e.fn = "trunc"   -> StartOf(v, e.unit)
       [] e.fn = "length"  -> Len(v)
       [] e.fn = "replace" -> Replace[v]
       [] e.fn = "literal" -> e.value
       [] e.fn = "plus"    -> Wrapped(TypeOf(header, e.col), v + e.value)
       [] e.fn = "case"    ->
            LET b == IF Holds(header, e.cond, row) THEN e.then ELSE e.else
            IN IF b.kind = "column" THEN row[Position(header, b.col)] ELSE b.value

Applied(header, node) ==
  CASE node.op = "filter"  -> SelectSeq(rows, LAMBDA r : Holds(header, node.cond, r))
    [] node.op = "project" ->
         [i \in DOMAIN rows |->
            FoldLeft(LAMBDA r, e : Append(r, Value(WithOutputs(header, node.exprs), e, r)),
                     rows[i], node.exprs)]
    [] node.op \in {"drop", "reorder"} ->
         [i \in DOMAIN rows |-> Pick(rows[i], Picks(header, node))]
    [] node.op = "limit"   -> SubSeq(rows, 1, IF node.n < Len(rows) THEN node.n ELSE Len(rows))

-----------------------------------------------------------------------------
Init == done = 0 /\ outcome = "pending"

\* One node.
Apply == /\ outcome = "pending"
         /\ done < Len(plan) /\ NodeFits(Header(done + 1), plan[done + 1])
         /\ rows' = Applied(Header(done + 1), plan[done + 1])
         /\ done' = done + 1
         /\ UNCHANGED <<base, plan, outcome>>

\* The rows go to the sink; without rows there is nothing to go on with.
Answer == /\ outcome = "pending"
          /\ done = Len(plan) \/ rows = <<>>
          /\ outcome' = "answered"
          /\ UNCHANGED <<base, plan, done, rows>>

\* A query that has no answer is refused, unless it is out of rows before.
Refuse == /\ outcome = "pending" /\ ~PlanFits
          /\ outcome' = "refused"
          /\ UNCHANGED <<base, plan, done, rows>>

Spec == Init /\ [][Apply \/ Answer \/ Refuse]_vars
=============================================================================
