----------------------------- MODULE Transforms -----------------------------
(***************************************************************************)
(* The transforms of a pipeline with the filter and scalar functions they  *)
(* call, on one batch.  The plan's expressions are built into functions    *)
(* that address columns by position and cast them to the class their type  *)
(* had in the schema (execution/expressions/*Expressions.h); then the      *)
(* batch goes through the transforms (OperatorsBase.cpp, the loop of       *)
(* Pipeline::Execute).  A filter does not copy rows: it leaves the columns *)
(* as they are and gives the batch the positions of the rows that are left.*)
(*                                                                         *)
(* Positions start at 1 instead of 0.  A query is [header, rows, plan] in  *)
(* the terms of RowQuery; the batch holds its rows as the conversion       *)
(* parsed them.  The limit of a limit node is what is left of it when the  *)
(* batch arrives.                                                          *)
(***************************************************************************)
EXTENDS Calendar, SequencesExt

CONSTANTS Queries,  \* the queries considered
          Percent,  \* '%' in a pattern
          Replace,  \* external: RE2::GlobalReplace with the query's arguments
          Limit     \* an INT16 holds -Limit .. Limit - 1

ASSUME TransformAssumption ==
  /\ Limit \in Nat \ {0}
  /\ \A q \in Queries : \A i \in DOMAIN q.rows : Len(q.rows[i]) = Len(q.header)

VARIABLES
  query,   \* the query
  at,      \* where its pipeline is
  schema,  \* ctx.schema
  chain,   \* transforms: what has been built
  pos,     \* the transform the batch has before it
  batch    \* columns, num_rows and the selection vector, if it has one

vars == <<query, at, schema, chain, pos, batch>>

Place == {"build", "rejected",      \* BuildPipelines; an exception
          "run", "stop", "null",    \* in the loop, behind it, or no batch is left
          "undefined",              \* a column was cast to a class it is not of
          "sunk", "skipped"}        \* the task goes on to its next batch

\* AddBatch of the columns' builders, and FormatValue.
FromText(type, v) == CASE type = "DATE"      -> ParseDate(v)
                       [] type = "TIMESTAMP" -> ParseTime(v)
                       [] OTHER              -> v
ToText(class, v)  == CASE class = "DATE"      -> FormatDate(v)
                       [] class = "TIMESTAMP" -> FormatTime(v)
                       [] OTHER               -> v

\* What the source gives.
SourceBatch(q) ==
  [columns  |-> [c \in DOMAIN q.header |->
                   [class |-> q.header[c].type,
                    data  |-> [i \in DOMAIN q.rows |->
                                 FromText(q.header[c].type, q.rows[i][c])]]],
   filtered |-> FALSE,
   sel      |-> <<>>,
   num_rows |-> Len(q.rows)]

Init == /\ query \in Queries
        /\ at = "build"
        /\ schema = query.header
        /\ chain = <<>>
        /\ pos = 1
        /\ batch = SourceBatch(query)

-----------------------------------------------------------------------------
(* Batches.                                                                 *)

\* physical_size.
Size(b) == IF b.columns = <<>> THEN b.num_rows ELSE Len(b.columns[1].data)

-----------------------------------------------------------------------------
(* Seeded bugs: each, put in the place of a definition below, is what shows *)
(* that a property of this module can fail.                                 *)

\* Or puts the right operand's rows behind the left's (for SetUnion).
Concatenation(a, b) == a \o SelectSeq(b, LAMBDA r : r \notin Range(a))

\* The columns are read without the selection vector (for Visited).
FirstRows(b) == [i \in 1..b.num_rows |-> i]

\* A literal fills as many rows as the batch shows (for ConstantSize).
VisibleSize(b) == b.num_rows

\* LengthExpression adds an INT32 column (for OutputType).
ShortLength(s, e) ==
  CASE e.fn \in {"minute", "length"}             -> "INT32"
    [] e.fn \in {"literal", "case"}              -> e.type
    [] OTHER -> s[SelectInSeq(s, LAMBDA f : f.name = e.col)].type

\* HashKeys appends texts without their lengths (for KeyBytes).
TextsOnly(class, v) == IF class = "STRING" THEN v ELSE <<v>>

-----------------------------------------------------------------------------
\* The positions IterateColumnData visits, in its order.
Visited(b) == IF b.filtered THEN SubSeq(b.sel, 1, b.num_rows) ELSE [i \in 1..b.num_rows |-> i]

-----------------------------------------------------------------------------
(* Building.                                                                *)

\* Schema::GetColumnIndexByName; 0 for the exception.
IndexByName(s, name) == SelectInSeq(s, LAMBDA f : f.name = name)
TypeByName(s, name)  == s[IndexByName(s, name)].type

\* ColumnClass::ValueType.
ValueType(type) == CASE type = "DATE"      -> "INT32"
                     [] type = "TIMESTAMP" -> "INT64"
                     [] OTHER              -> type

IsLeaf(c) == c.test \notin {"and", "or"}

\* CreateFilterFunction finds the columns, of the literals' types.
FilterBuilds(s, cond) ==
  \A i \in DOMAIN cond : IsLeaf(cond[i]) =>
    /\ IndexByName(s, cond[i].col) # 0
    /\ ValueType(TypeByName(s, cond[i].col)) = cond[i].type

\* The constructors of LikeExpression and NotLikeExpression.
Stripped(pattern) == SubSeq(pattern, 2, Len(pattern) - 1)

CreateFilterFunction(s, cond) ==
  [i \in DOMAIN cond |->
     LET c == cond[i]
         class == TypeByName(s, c.col)
     IN IF IsLeaf(c)
          THEN [test |-> c.test, col |-> IndexByName(s, c.col), class |-> class,
                target |-> IF c.test \in {"like", "notlike"} THEN Stripped(c.value)
                           ELSE FromText(class, c.value)]
          ELSE c]

\* The type of the column CreateScalarFunction adds.
OutputType(s, e) ==
  CASE e.fn = "minute"             -> "INT32"
    [] e.fn = "length"             -> "INT64"
    [] e.fn \in {"literal", "case"} -> e.type
    [] OTHER                       -> TypeByName(s, e.col)

\* CreateScalarFunction does not throw.
ScalarBuilds(s, e) ==
  IF e.fn \in {"literal", "case"}
    THEN e.fn = "case" =>
           /\ FilterBuilds(s, e.cond)
           /\ \A b \in {e.then, e.else} : b.kind = "column" => IndexByName(s, b.col) # 0
    ELSE /\ IndexByName(s, e.col) # 0
         /\ e.fn = "trunc" => e.unit \in Units
         /\ TypeByName(s, e.col) \in CASE e.fn = "minute"             -> {"TIMESTAMP"}
                                       [] e.fn = "trunc"              -> {"TIMESTAMP", "DATE"}
                                       [] e.fn \in {"length", "replace"} -> {"STRING"}
                                       [] e.fn = "plus"               -> {"INT16", "INT32", "INT64"}

\* A branch of a CASE: a column's position, or a constant.
ResolvedBranch(s, b) ==
  IF b.kind = "column" THEN [kind |-> "column", col |-> IndexByName(s, b.col)] ELSE b

\* The functions; class is the class they cast their column to.
CreateScalarFunction(s, e) ==
  CASE e.fn = "minute"  -> [fn |-> e.fn, col |-> IndexByName(s, e.col), class |-> "TIMESTAMP"]
    [] e.fn = "trunc"   -> [fn |-> e.fn, col |-> IndexByName(s, e.col), class |-> "TIMESTAMP",
                            part |-> e.unit]
    [] e.fn \in {"length", "replace"} ->
         [fn |-> e.fn, col |-> IndexByName(s, e.col), class |-> "STRING"]
    [] e.fn = "plus"    -> [fn |-> e.fn, col |-> IndexByName(s, e.col),
                            class |-> TypeByName(s, e.col), constant |-> e.value]
    [] e.fn = "literal" -> [fn |-> e.fn, class |-> e.type, constant |-> e.value]
    [] e.fn = "case"    -> [fn |-> e.fn, class |-> e.type,
                            cond |-> CreateFilterFunction(s, e.cond),
                            true |-> ResolvedBranch(s, e.then),
                            false |-> ResolvedBranch(s, e.else)]

\* The schema behind the first n of a projection's expressions.
SchemaWith(exprs, n) ==
  FoldLeft(LAMBDA s, e : Append(s, [name |-> e.name, type |-> OutputType(s, e)]),
           schema, SubSeq(exprs, 1, n))

NodeBuilds(n) ==
  CASE n.op = "filter"  -> FilterBuilds(schema, n.cond)
    [] n.op = "project" -> \A i \in DOMAIN n.exprs :
                             ScalarBuilds(SchemaWith(n.exprs, i - 1), n.exprs[i])
    [] n.op = "drop"    -> \A name \in n.columns : IndexByName(schema, name) # 0
    [] n.op = "reorder" -> \A i \in DOMAIN n.order : IndexByName(schema, n.order[i]) # 0
    [] n.op = "limit"   -> TRUE

\* The node whose BuildPipelines is behind its child's.
Building(op) == /\ at = "build" /\ Len(chain) < Len(query.plan)
                /\ query.plan[Len(chain) + 1].op = op
                /\ NodeBuilds(query.plan[Len(chain) + 1])
                /\ UNCHANGED <<query, at, pos, batch>>
Node == query.plan[Len(chain) + 1]

BuildFilter == /\ Building("filter")
               /\ chain' = Append(chain, [op |-> "filter",
                                          func |-> CreateFilterFunction(schema, Node.cond)])
               /\ UNCHANGED schema

BuildScalar ==
  /\ Building("project")
  /\ chain' = Append(chain, [op |-> "project",
                             funcs |-> [i \in DOMAIN Node.exprs |->
                                          CreateScalarFunction(SchemaWith(Node.exprs, i - 1),
                                                               Node.exprs[i])]])
  /\ schema' = SchemaWith(Node.exprs, Len(Node.exprs))

\* Drop and Reorder pick the positions in the sequence picked.
Picked(op, picked) == /\ chain' = Append(chain, [op |-> op, indices |-> picked])
                      /\ schema' = [i \in DOMAIN picked |-> schema[picked[i]]]

BuildDrop == /\ Building("drop")
             /\ Picked("drop", SelectSeq([i \in DOMAIN schema |-> i],
                                         LAMBDA i : schema[i].name \notin Node.columns))

BuildReorder == /\ Building("reorder")
                /\ Picked("reorder", [i \in DOMAIN Node.order |->
                                        IndexByName(schema, Node.order[i])])

BuildLimit == /\ Building("limit")
              /\ chain' = Append(chain, Node)
              /\ UNCHANGED schema

Reject == /\ at = "build" /\ Len(chain) < Len(query.plan)
          /\ ~NodeBuilds(Node)
          /\ at' = "rejected"
          /\ UNCHANGED <<query, schema, chain, pos, batch>>

StartTask == /\ at = "build" /\ Len(chain) = Len(query.plan)
             /\ at' = "run"
             /\ UNCHANGED <<query, schema, chain, pos, batch>>

-----------------------------------------------------------------------------
(* Filter functions.                                                        *)

\* std::set_intersection and std::set_union, which walk two ascending ranges.
SetIntersection(a, b) ==
  LET m[i \in 1..(Len(a) + 1), j \in 1..(Len(b) + 1)] ==
        IF i > Len(a) \/ j > Len(b) THEN <<>>
        ELSE CASE a[i] < b[j] -> m[i + 1, j]
               [] b[j] < a[i] -> m[i, j + 1]
               [] OTHER       -> <<a[i]>> \o m[i + 1, j + 1]
  IN m[1, 1]

SetUnion(a, b) ==
  LET m[i \in 1..(Len(a) + 1), j \in 1..(Len(b) + 1)] ==
        IF i > Len(a) \/ j > Len(b)
          THEN SubSeq(a, i, Len(a)) \o SubSeq(b, j, Len(b))
          ELSE CASE a[i] < b[j] -> <<a[i]>> \o m[i + 1, j]
                 [] b[j] < a[i] -> <<b[j]>> \o m[i, j + 1]
                 [] OTHER       -> <<a[i]>> \o m[i + 1, j + 1]
  IN m[1, 1]

\* value.find(pattern) != npos.
Finds(v, t) == \E k \in 0..(Len(v) - Len(t)) : SubSeq(v, k + 1, k + Len(t)) = t

\* std::string's order.
LessText(s, t) ==
  \/ IsStrictPrefix(s, t)
  \/ \E i \in DOMAIN s \cap DOMAIN t :
       s[i] < t[i] /\ \A j \in 1..(i - 1) : s[j] = t[j]
LessThan(class, v, w) == IF class = "STRING" THEN LessText(v, w) ELSE v < w

Passes(f, v) == CASE f.test = "="       -> v = f.target
                  [] f.test = "<>"      -> v # f.target
                  [] f.test = ">"       -> LessThan(f.class, f.target, v)
                  [] f.test = ">="      -> ~LessThan(f.class, v, f.target)
                  [] f.test = "<="      -> ~LessThan(f.class, f.target, v)
                  [] f.test = "like"    -> Finds(v, f.target)
                  [] f.test = "notlike" -> ~Finds(v, f.target)

\* FilterFunction::Evaluate.
Evaluate(func, b) ==
  LET ev[i \in DOMAIN func] ==
        LET f == func[i]
        IN CASE f.test = "and" -> SetIntersection(ev[f.left], ev[f.right])
             [] f.test = "or"  -> SetUnion(ev[f.left], ev[f.right])
             [] OTHER -> SelectSeq(Visited(b), LAMBDA r : Passes(f, b.columns[f.col].data[r]))
  IN ev[Len(func)]

-----------------------------------------------------------------------------
(* Scalar functions.                                                        *)

\* Does a static_cast take a column for one of another class?
FilterMiscasts(func, b) ==
  \E i \in DOMAIN func : IsLeaf(func[i]) /\ b.columns[func[i].col].class # func[i].class

Miscasts(f, b) ==
  CASE f.fn = "literal" -> FALSE
    [] f.fn = "case"    -> \/ FilterMiscasts(f.cond, b)
                           \/ \E br \in {f.true, f.false} :
                                br.kind = "column" /\ b.columns[br.col].class # f.class
    [] OTHER            -> b.columns[f.col].class # f.class

\* static_cast<ValueType>(value + constant).  The sum of two shorts is an int and
\* the cast takes it modulo the width; the sums of INT32 and of INT64 of the
\* queries considered do not overflow, which would be undefined.
InType(class, n) == IF class = "INT16" THEN ((n + Limit) % (2 * Limit)) - Limit ELSE n

\* The value a function stores for a value of its column.
Computed(f, v) == CASE f.fn = "minute"  -> ExtractMinute(v)
                    [] f.fn = "trunc"   -> TruncateTime(v, f.part)
                    [] f.fn = "length"  -> Len(v)
                    [] f.fn = "replace" -> Replace[v]
                    [] f.fn = "plus"    -> InType(f.class, v + f.constant)

\* The rows that are not visited keep what the result began with.
Unvisited(f) == IF f.fn = "replace" THEN <<>> ELSE 0
ForVisited(f, b) ==
  [r \in 1..Size(b) |-> IF r \in Range(Visited(b)) THEN Computed(f, b.columns[f.col].data[r])
                        ELSE Unvisited(f)]

\* physical_size in ConstantFunction.
ConstantSize(b) == Size(b)

\* CaseWhenFunction: cur_ind goes along the rows the condition holds of.
Branches(f, b) ==
  LET true_indices == Evaluate(f.cond, b)
      hit(cur, r) == cur <= Len(true_indices) /\ true_indices[cur] = r
      cur_ind[r \in 1..(Size(b) + 1)] ==
        CASE r = 1 -> 1
          [] r > 1 /\ hit(cur_ind[r - 1], r - 1) -> cur_ind[r - 1] + 1
          [] OTHER -> cur_ind[r - 1]
      view(br, r) == IF br.kind = "column" THEN b.columns[br.col].data[r] ELSE br.value
  IN [r \in 1..Size(b) |-> view(IF hit(cur_ind[r], r) THEN f.true ELSE f.false, r)]

\* ScalarFunction::Evaluate.
ResultClass(f) == CASE f.fn = "minute" -> "INT32" [] f.fn = "length" -> "INT64" [] OTHER -> f.class
EvaluateScalar(f, b) ==
  [class |-> ResultClass(f),
   data  |-> CASE f.fn = "literal" -> [r \in 1..ConstantSize(b) |-> f.constant]
               [] f.fn = "case"    -> Branches(f, b)
               [] OTHER            -> ForVisited(f, b)]

\* The batch behind the first n functions of a projection.
BatchWith(funcs, n) ==
  FoldLeft(LAMBDA b, f : [b EXCEPT !.columns = Append(@, EvaluateScalar(f, b))],
           batch, SubSeq(funcs, 1, n))

-----------------------------------------------------------------------------
(* The loop over the transforms.                                            *)

Transform == chain[pos]
Running(op) == at = "run" /\ pos \in DOMAIN chain /\ Transform.op = op

\* Execute has returned the batch b.
Returns(b) == /\ batch' = b
              /\ at' = IF b.num_rows = 0 THEN "null" ELSE "run"
              /\ pos' = pos + 1
              /\ UNCHANGED <<query, schema, chain>>

ReturnsNull == /\ at' = "null"
               /\ pos' = pos + 1
               /\ UNCHANGED <<query, schema, chain, batch>>

\* Undefined behaviour: anything may follow.
CastsWrongly == /\ at' = "undefined"
                /\ UNCHANGED <<query, schema, chain, pos, batch>>

\* FilterTransformOperator::Execute.
FilterExecute ==
  LET selection == Evaluate(Transform.func, batch)
  IN /\ Running("filter")
     /\ IF FilterMiscasts(Transform.func, batch) THEN CastsWrongly
        ELSE IF selection = <<>> THEN ReturnsNull
        ELSE Returns([batch EXCEPT !.filtered = TRUE, !.sel = selection,
                                   !.num_rows = Len(selection)])

\* ScalarTransformOperator::Execute.
ScalarExecute ==
  LET funcs == Transform.funcs
  IN /\ Running("project")
     /\ IF \E i \in DOMAIN funcs : Miscasts(funcs[i], BatchWith(funcs, i - 1))
          THEN CastsWrongly
          ELSE Returns(BatchWith(funcs, Len(funcs)))

\* Execute of Drop, which moves the columns, and of Reorder, which shares them.
PickExecute ==
  /\ Running("drop") \/ Running("reorder")
  /\ Returns([batch EXCEPT !.columns = [i \in DOMAIN Transform.indices |->
                                          @[Transform.indices[i]]]])

\* The selection vector of the first n rows.
Cut(b, n) == IF b.filtered THEN SubSeq(b.sel, 1, n) ELSE [i \in 1..n |-> i]

\* LimitTransformOperator::Execute, and IsPipelineDone.
LimitExecute ==
  LET remaining == Transform.n
  IN /\ Running("limit")
     /\ IF remaining = 0 THEN ReturnsNull
        ELSE IF batch.num_rows < remaining THEN Returns(batch)
        ELSE /\ batch' = IF batch.num_rows = remaining THEN batch
                         ELSE [batch EXCEPT !.filtered = TRUE, !.sel = Cut(batch, remaining),
                                            !.num_rows = remaining]
             /\ at' = "stop"
             /\ pos' = pos + 1
             /\ UNCHANGED <<query, schema, chain>>

\* Behind the loop.
Leave(to) == at' = to /\ UNCHANGED <<query, schema, chain, pos, batch>>
Through   == at = "stop" \/ (at = "run" /\ pos > Len(chain))
Sink      == Through /\ batch.num_rows > 0 /\ Leave("sunk")
Skip      == (at = "null" \/ (Through /\ batch.num_rows = 0)) /\ Leave("skipped")

Over == at \in {"sunk", "skipped", "rejected", "undefined"} /\ UNCHANGED vars

Next == \/ BuildFilter \/ BuildScalar \/ BuildDrop \/ BuildReorder \/ BuildLimit
        \/ Reject \/ StartTask
        \/ FilterExecute \/ ScalarExecute \/ PickExecute \/ LimitExecute
        \/ Sink \/ Skip
        \/ Over

Spec == Init /\ [][Next]_vars

-----------------------------------------------------------------------------
(* What the sinks read.                                                     *)

\* DataResult::Display: the rows of the batch.  (It leaves out rows that have no
\* columns; here they are the empty sequence.)
Display ==
  IF at \in {"null", "skipped"} THEN <<>>
  ELSE [i \in 1..batch.num_rows |->
          LET ind == IF batch.filtered THEN batch.sel[i] ELSE i
          IN [c \in DOMAIN batch.columns |->
                ToText(batch.columns[c].class, batch.columns[c].data[ind])]]

\* ExecutionHelper::HashKeys: the bytes appended for one value, a text's behind
\* its length; a value of fixed width is one byte here.
KeyBytes(class, v) == IF class = "STRING" THEN <<Len(v)>> \o v ELSE <<v>>

\* GroupBySinkSourceOperator::Sink: the composite key of row i.
CompositeKey(group_by, i) ==
  FlattenSeq([k \in DOMAIN group_by |->
                LET col == batch.columns[group_by[k]]
                IN KeyBytes(col.class, col.data[Visited(batch)[i]])])

-----------------------------------------------------------------------------
(* Safety. *)

\* Every variable has the type the code gives it; a batch's columns are equally
\* long, and its selection vector points into them.
TypeOK == /\ at \in Place
          /\ schema \in Seq([name : STRING, type : STRING])
          /\ pos \in 1..(Len(chain) + 1) /\ Len(chain) <= Len(query.plan)
          /\ batch.num_rows \in 0..Size(batch)
          /\ batch.columns # <<>> => batch.sel \in Seq(1..Size(batch))
          /\ \A c \in DOMAIN batch.columns : Len(batch.columns[c].data) = Size(batch)

\* What every reader of a batch relies on.  The selection vector is strictly
\* ascending: set_intersection, set_union and CASE walk it once, in step with
\* the columns.  It is as long as num_rows says, and without one all rows are
\* in the batch: HashKeys goes by its length, not by num_rows.
SelectionAscending ==
  IF batch.filtered
    THEN /\ Len(batch.sel) = batch.num_rows
         /\ \A i \in 2..Len(batch.sel) : batch.sel[i - 1] < batch.sel[i]
    ELSE batch.num_rows = Size(batch)

\* The classes of the columns that reach a sink are the types the schema says
\* (sinks copy by the one into builders made by the other), and what the building
\* of expressions does not check is only this: DATE_TRUNC takes a DATE, and CASE a
\* column of another type than its own.
TypesFollow ==
  /\ at = "sunk" /\ pos > Len(query.plan) =>
       schema = [c \in DOMAIN batch.columns |->
                   [name |-> schema[c].name, type |-> batch.columns[c].class]]
  /\ at = "undefined" =>
       \E f \in Range(Transform.funcs) :
         \/ f.fn = "trunc" /\ batch.columns[f.col].class = "DATE"
         \/ f.fn = "case" /\ ~FilterMiscasts(f.cond, batch)

\* Dates and times are the days and the seconds from 1970 to the moment their
\* text names, whatever century or leap year it is in, and are shown as the text
\* they were read from.
DaysAreCounted ==
  \A c \in DOMAIN query.header : \A i \in DOMAIN query.rows :
    LET type == query.header[c].type
        text == query.rows[i][c]
        n    == FromText(type, text)
    IN /\ type = "DATE" => n = DayNumber(text)
       /\ type = "TIMESTAMP" => n = 86400 * DayNumber(SubSeq(text, 1, 3))
                                     + 3600 * text[4] + 60 * text[5] + text[6]
       /\ ToText(type, n) = text

\* GROUP BY on two columns: two rows have one composite key just if they have
\* the same values, although the bytes of texts are put side by side.
KeysSeparate ==
  at = "sunk" =>
    \A b, c \in DOMAIN batch.columns :
      LET values(i) == <<batch.columns[b].data[Visited(batch)[i]],
                         batch.columns[c].data[Visited(batch)[i]]>>
          groups(Of(_)) == Cardinality({Of(i) : i \in 1..batch.num_rows})
          key(i) == CompositeKey(<<b, c>>, i)
          both(i) == <<values(i), key(i)>>
      IN groups(values) = groups(both) /\ groups(key) = groups(both)

-----------------------------------------------------------------------------
(* The transforms implement the query over rows: what Display would print   *)
(* of the batch after each of them is what RowQuery has.                    *)

Row == INSTANCE RowQuery WITH
         base    <- query.header,
         plan    <- query.plan,
         done    <- pos - 1,
         rows    <- Display,
         outcome <- CASE at \in {"sunk", "skipped"}       -> "answered"
                      [] at \in {"rejected", "undefined"} -> "refused"
                      [] OTHER                            -> "pending"

\* Selecting rows by position instead of copying them, and building functions
\* from names and types beforehand, changes no answer and refuses no query that
\* has one.
ImplementsRowQuery == Row!Spec

\* DATE_TRUNC gives the first moment of the unit the time is in.
DateTruncStarts ==
  at = "sunk" =>
    \A i \in DOMAIN Display :
      Display[i][2] = Row!StartOf(Display[i][1], query.plan[1].exprs[1].unit)
=============================================================================
