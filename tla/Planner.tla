------------------------------- MODULE Planner -------------------------------
(***************************************************************************)
(* execution/ExecutionLogic.cpp under DataFrame::Collect: BuildPipelines   *)
(* goes down a plan and collects the columns each node needs, reaches the  *)
(* scan, which reads these and the selected ones, and comes back up making *)
(* operators that address columns by their position in the schema so far;  *)
(* then the pipelines run, one behind the other.                           *)
(*                                                                         *)
(* A plan is the sequence of its nodes, the scan first.  A column's name   *)
(* is a number, so that sorting names is an order on numbers; its type is  *)
(* left out.  A batch is the names of its columns and whether it has rows: *)
(* all batches of a pipeline have the same columns, and one stands for     *)
(* them.  How many rows there are, and which, is QueryExecution's subject. *)
(***************************************************************************)
EXTENDS Naturals, Sequences, SequencesExt, FiniteSetsExt

CONSTANTS Table,    \* the columns of the table, in the order of its metadata
          Plans,    \* the plans considered
          Star,     \* "*", all columns
          NoColumn  \* what is behind an index outside of a batch

\* Nodes: the fields of the structs in ExecutionLogic.h.  An expression has the
\* names it reads and, but for a filter's, its output's name.
Expression == [reads : Seq(Nat), output : Nat]
Node == [kind : {"scan"}, columns : Seq(Nat) \cup {Star}]
          \cup [kind : {"aggregate"}, by : Seq(Nat), exprs : Seq(Expression)]
          \cup [kind : {"filter"}, reads : Seq(Nat)]
          \cup [kind : {"orderby"}, by : Seq(Nat)]
          \cup [kind : {"limit"}]
          \cup [kind : {"scalar"}, exprs : Seq(Expression)]
          \cup [kind : {"drop"}, columns : Seq(Nat)]
          \cup [kind : {"reorder"}, order : Seq(Nat)]

ASSUME PlannerAssumption ==
  /\ Table \in Seq(Nat) /\ {Star, NoColumn} \cap Nat = {}
  /\ \A p \in Plans : p \in Seq(Node) /\ p # <<>>
  /\ \A p \in Plans : \A i \in DOMAIN p : p[i].kind = "scan" <=> i = 1

VARIABLES
  plan,       \* the plan
  at,         \* where Collect is
  node,       \* the node whose BuildPipelines is running
  required,   \* required_columns: none is the empty set
  pipelines,  \* the pipelines made: source, transforms and sink
  current,    \* ctx.current_pipeline
  frames,     \* outer_pipeline and inner_pipeline of the breakers on the stack
  completed,  \* ctx.completed_pipelines
  schema,     \* ctx.schema: the names in it
  running,    \* the pipeline that runs, as a position in completed
  batch,      \* its batch
  rest,       \* the transforms the batch has before it
  results     \* what each source gives: the scan, the breakers; 0: the result

building == <<plan, node, required, pipelines, current, frames, completed, schema>>
vars == <<building, at, running, batch, rest, results>>

Place == {"down", "up", "rejected",           \* BuildPipelines; an exception
          "source", "transforms", "finalize", \* Execute
          "undefined", "done"}                \* an index beyond a batch; the result

Breakers == {"aggregate", "orderby"}
NoBatch  == [columns |-> <<>>, rows |-> FALSE]
Ascending(S) == CHOOSE s \in SetToSeqs(S) : \A i, j \in DOMAIN s : i < j => s[i] < s[j]

\* Schema::GetColumnIndexByName: the first of that name, 0 for the exception.
IndexByName(fields, name) == SelectInSeq(fields, LAMBDA f : f = name)
Indices(fields, names) == [i \in DOMAIN names |-> IndexByName(fields, names[i])]

ReadsOf(exprs)   == UNION {Range(exprs[i].reads) : i \in DOMAIN exprs}
OutputsOf(exprs) == [i \in DOMAIN exprs |-> exprs[i].output]

NewPipeline == [source |-> 0, transforms |-> <<>>, sink |-> 0, uses |-> <<>>]

\* The plan's root is called with no required columns; node 0 is the result sink.
Init == /\ plan \in Plans
        /\ at = "down"
        /\ node = Len(plan)
        /\ required = {}
        /\ pipelines = <<NewPipeline>>
        /\ current = 1
        /\ frames = <<>>
        /\ completed = <<>>
        /\ schema = <<>>
        /\ running = 0
        /\ batch = NoBatch
        /\ rest = <<>>
        /\ results = [n \in 0..Len(plan) |-> NoBatch]

-----------------------------------------------------------------------------
(* Seeded bugs: each, put in the place of a definition below, is what shows *)
(* that a property of this module can fail.                                 *)

\* A projection asks its child for nothing but what it reads (for Needed).
OnlyOwnReads(n, above) ==
  CASE n.kind = "aggregate" -> Range(n.by) \cup ReadsOf(n.exprs)
    [] n.kind = "filter"    -> above \cup Range(n.reads)
    [] n.kind = "orderby"   -> above \cup Range(n.by)
    [] n.kind = "scalar"    -> ReadsOf(n.exprs)
    [] OTHER                -> above

\* The root is taken to have a parent (for Ascend).
AscendFromAny == at' = "up" /\ node' = node + 1 /\ running' = running

\* An aggregation's result has the keys behind the aggregates (for Finalized).
KeysLast(n) ==
  CASE n.kind = "aggregate" -> {[columns |-> OutputsOf(n.exprs) \o n.by,
                                 rows |-> n.by = <<>> \/ batch.rows]}
    [] n.kind = "orderby"   -> {[columns |-> batch.columns, rows |-> rows] :
                                  rows \in {batch.rows, FALSE}}

\* A Drop keeps what it is to drop (for Kept).
AllKept(fields, dropped) == [i \in DOMAIN fields |-> i]

\* Pipelines are completed in front of those they read from (for Complete).
CompleteFirst(list, pipe) == <<pipe>> \o list

\* The outer pipeline's source is made but not set (for SourceSet).
SourceForgotten(outer, n) == pipelines[outer]

-----------------------------------------------------------------------------
(* Down: the part of BuildPipelines in front of child->BuildPipelines.      *)

\* needed_columns of a node n of which the columns above are required.
Needed(n, above) ==
  CASE n.kind = "aggregate" -> Range(n.by) \cup ReadsOf(n.exprs)
    [] n.kind = "filter"    -> above \cup Range(n.reads)
    [] n.kind = "orderby"   -> above \cup Range(n.by)
    [] n.kind = "scalar"    -> (above \ Range(OutputsOf(n.exprs))) \cup ReadsOf(n.exprs)
    [] OTHER                -> above

\* The nodes that stay in the pipeline.
Descend == /\ at = "down"
           /\ plan[node].kind \notin Breakers \cup {"scan"}
           /\ required' = Needed(plan[node], required)
           /\ node' = node - 1
           /\ UNCHANGED <<plan, at, pipelines, current, frames, completed, schema,
                          running, batch, rest, results>>

\* The breakers, which make an inner pipeline.
DescendIntoNewPipeline ==
  LET inner == Len(pipelines) + 1
  IN /\ at = "down"
     /\ plan[node].kind \in Breakers
     /\ frames' = Append(frames, [outer |-> current, inner |-> inner])
     /\ pipelines' = Append(pipelines, NewPipeline)
     /\ current' = inner
     /\ required' = Needed(plan[node], required)
     /\ node' = node - 1
     /\ UNCHANGED <<plan, at, completed, schema, running, batch, rest, results>>

\* user_cols of a scan, and behind them what else is required.
ScanColumns(n) ==
  LET userCols == IF n.columns = Star THEN Table ELSE n.columns
  IN userCols \o Ascending(required \ Range(userCols))

\* Back in the parent: of the root's BuildPipelines it is Collect, which completes
\* the outer pipeline.
Ascend == IF node = Len(plan)
            THEN at' = "source" /\ node' = node /\ running' = 1
            ELSE at' = "up" /\ node' = node + 1 /\ running' = running

\* completed_pipelines.push_back; Collect's when the root has returned.
Complete(list, pipe)       == Append(list, pipe)
CompleteIfRoot(list, pipe) == IF node = Len(plan) THEN Complete(list, pipe) ELSE list

BuildScan == LET columns == ScanColumns(plan[node])
             IN /\ at = "down"
                /\ plan[node].kind = "scan"
                /\ Range(columns) \subseteq Range(Table)
                /\ pipelines' = [pipelines EXCEPT ![current].source = node]
                /\ schema' = columns
                /\ results' = [results EXCEPT ![node].columns = columns]
                /\ completed' = CompleteIfRoot(completed, current)
                /\ Ascend
                /\ UNCHANGED <<plan, required, current, frames, batch, rest>>

-----------------------------------------------------------------------------
(* Up: the part behind child->BuildPipelines.                               *)

\* CreateScalarFunction of one expression after the other: each finds its columns
\* in a schema that has the outputs of those before it.
ScalarUses(exprs) ==
  [i \in DOMAIN exprs |->
     Indices(schema \o SubSeq(OutputsOf(exprs), 1, i - 1), exprs[i].reads)]

\* cols_to_keep_indices.
Kept(fields, dropped) ==
  FlattenSeq([i \in DOMAIN fields |-> IF fields[i] \in Range(dropped) THEN <<>> ELSE <<i>>])

\* What a node looks up in its child's schema, expression by expression.
LookedUp(n) ==
  CASE n.kind = "aggregate" -> <<Indices(schema, n.by)>>
                                 \o [i \in DOMAIN n.exprs |-> Indices(schema, n.exprs[i].reads)]
    [] n.kind = "filter"    -> <<Indices(schema, n.reads)>>
    [] n.kind = "orderby"   -> <<Indices(schema, n.by)>>
    [] n.kind = "scalar"    -> ScalarUses(n.exprs)
    [] n.kind = "drop"      -> <<Indices(schema, n.columns)>>
    [] n.kind = "reorder"   -> <<Indices(schema, n.order)>>
    [] OTHER                -> <<>>

AllFound == 0 \notin Range(FlattenSeq(LookedUp(plan[node])))

\* A node that adds a transform with the columns it uses and leaves a schema.
BuildTransform(kind, uses, output) ==
  /\ at = "up" /\ plan[node].kind = kind
  /\ AllFound
  /\ pipelines' = [pipelines EXCEPT ![current].transforms =
                     Append(@, [node |-> node, uses |-> uses])]
  /\ schema' = output
  /\ completed' = CompleteIfRoot(completed, current)
  /\ Ascend
  /\ UNCHANGED <<plan, required, current, frames, batch, rest, results>>

BuildFilter  == BuildTransform("filter", LookedUp(plan[node]), schema)
BuildLimit   == BuildTransform("limit", <<>>, schema)
BuildScalar  == BuildTransform("scalar", ScalarUses(plan[node].exprs),
                               schema \o OutputsOf(plan[node].exprs))
BuildDrop    == LET kept == Kept(schema, plan[node].columns)
                IN BuildTransform("drop", <<kept>>, [i \in DOMAIN kept |-> schema[kept[i]]])
BuildReorder == BuildTransform("reorder", LookedUp(plan[node]), plan[node].order)

\* outer_pipeline with the breaker of node n as its source.
SourceSet(outer, n) == [pipelines[outer] EXCEPT !.source = n]

\* A breaker: the inner pipeline ends in it, the outer one starts from it.
BuildBreaker(kind, output) ==
  LET frame == Last(frames)
  IN /\ at = "up" /\ plan[node].kind = kind
     /\ AllFound
     /\ pipelines' = [pipelines EXCEPT ![frame.inner].sink = node,
                                       ![frame.inner].uses = LookedUp(plan[node]),
                                       ![frame.outer] = SourceSet(frame.outer, node)]
     /\ completed' = CompleteIfRoot(Complete(completed, frame.inner), frame.outer)
     /\ current' = frame.outer
     /\ frames' = Front(frames)
     /\ schema' = output
     /\ Ascend
     /\ UNCHANGED <<plan, required, batch, rest, results>>

BuildAggregate == BuildBreaker("aggregate", plan[node].by \o OutputsOf(plan[node].exprs))
BuildOrderBy   == BuildBreaker("orderby", schema)

\* THROW_RUNTIME_ERROR: some column is not there.
Reject == /\ \/ /\ at = "down" /\ plan[node].kind = "scan"
                /\ ~(Range(ScanColumns(plan[node])) \subseteq Range(Table))
             \/ at = "up" /\ ~AllFound
          /\ at' = "rejected"
          /\ UNCHANGED <<building, running, batch, rest, results>>

-----------------------------------------------------------------------------
(* The pipelines run.                                                       *)

Pipe == pipelines[completed[running]]

\* The columns of fields behind uses, expression by expression; a projection's
\* expressions also see the columns made before theirs.
Behind(fields, made, uses) ==
  [i \in DOMAIN uses |->
     LET columns == fields \o SubSeq(made, 1, IF made = <<>> THEN 0 ELSE i - 1)
     IN [j \in DOMAIN uses[i] |->
           IF uses[i][j] \in DOMAIN columns THEN columns[uses[i][j]] ELSE NoColumn]]

InBatch(columns) == NoColumn \notin Range(FlattenSeq(columns))

\* The loop gets a batch.  A scan of columns gives none of an empty table, a scan
\* without columns one without rows, and a breaker always its one batch.
GetData == /\ at = "source"
           /\ \E rows \in BOOLEAN :
                LET got == results[Pipe.source]
                IN /\ rows = got.rows \/ Pipe.source = 1
                   /\ IF Pipe.source = 1 /\ ~rows /\ got.columns # <<>>
                        THEN at' = "finalize" /\ batch' = NoBatch /\ rest' = <<>>
                        ELSE /\ at' = "transforms"
                             /\ batch' = [got EXCEPT !.rows = rows]
                             /\ rest' = Pipe.transforms
           /\ UNCHANGED <<building, running, results>>

Made(n) == IF n.kind = "scalar" THEN OutputsOf(n.exprs) ELSE <<>>

\* Execute of the next transform and the tests behind it: a filter or a limit may
\* leave no row, and behind a limit that is reached the others are left out.
Transform ==
  LET n == plan[Head(rest).node]
      found == Behind(batch.columns, Made(n), Head(rest).uses)
      columns == IF n.kind \in {"drop", "reorder"} THEN found[1]
                 ELSE batch.columns \o Made(n)
  IN /\ at = "transforms" /\ rest # <<>>
     /\ InBatch(found)
     /\ \E rows \in (IF n.kind \in {"filter", "limit"} /\ batch.rows
                       THEN BOOLEAN ELSE {batch.rows}) :
          IF rows
            THEN /\ batch' = [columns |-> columns, rows |-> TRUE]
                 /\ rest' \in {Tail(rest)} \cup (IF n.kind = "limit" THEN {<<>>} ELSE {})
                 /\ UNCHANGED at
            ELSE batch' = NoBatch /\ rest' = <<>> /\ at' = "finalize"
     /\ UNCHANGED <<building, running, results>>

\* sink->Sink if there are rows.
Sink == /\ at = "transforms" /\ rest = <<>>
        /\ batch.rows => InBatch(Behind(batch.columns, <<>>, Pipe.uses))
        /\ at' = "finalize"
        /\ batch' = IF batch.rows THEN batch ELSE NoBatch
        /\ UNCHANGED <<building, running, rest, results>>

\* batch.columns[ind] beyond the columns of the batch.
ReadsBeyond == /\ at = "transforms"
               /\ IF rest = <<>>
                    THEN batch.rows /\ ~InBatch(Behind(batch.columns, <<>>, Pipe.uses))
                    ELSE ~InBatch(Behind(batch.columns, Made(plan[Head(rest).node]),
                                         Head(rest).uses))
               /\ at' = "undefined"
               /\ UNCHANGED <<building, running, batch, rest, results>>

\* What Finalize of the breaker n makes of the batches: groups have columns even if
\* there are none, sorted rows do not, and an offset may skip them all.
Finalized(n) ==
  CASE n.kind = "aggregate" -> {[columns |-> n.by \o OutputsOf(n.exprs),
                                 rows |-> n.by = <<>> \/ batch.rows]}
    [] n.kind = "orderby"   -> {[columns |-> batch.columns, rows |-> rows] :
                                  rows \in {batch.rows, FALSE}}

\* Finalize, and the next pipeline.
Finalize == /\ at = "finalize"
            /\ \E made \in IF Pipe.sink = 0 THEN {batch} ELSE Finalized(plan[Pipe.sink]) :
                 results' = [results EXCEPT ![Pipe.sink] = made]
            /\ IF running = Len(completed)
                 THEN at' = "done" /\ running' = running
                 ELSE at' = "source" /\ running' = running + 1
            /\ batch' = NoBatch
            /\ UNCHANGED <<building, rest>>

Over == at \in {"rejected", "undefined", "done"} /\ UNCHANGED vars

Next == \/ Descend \/ DescendIntoNewPipeline \/ BuildScan
        \/ BuildFilter \/ BuildLimit \/ BuildScalar \/ BuildDrop \/ BuildReorder
        \/ BuildAggregate \/ BuildOrderBy \/ Reject
        \/ GetData \/ Transform \/ Sink \/ ReadsBeyond \/ Finalize
        \/ Over

Spec == Init /\ [][Next]_vars

-----------------------------------------------------------------------------
(* Safety. *)

Nodes == DOMAIN plan
Built == at \notin {"down", "up", "rejected"}

\* Every variable has the type the code gives it.
TypeOK == /\ at \in Place
          /\ node \in Nodes
          /\ required \subseteq Nat
          /\ current \in DOMAIN pipelines
          /\ Range(completed) \subseteq DOMAIN pipelines
          /\ \A p \in Range(pipelines) : {p.source, p.sink} \subseteq Nodes \cup {0}
          /\ schema \in Seq(Nat)
          /\ running \in 0..Len(completed)
          /\ batch.columns \in Seq(Nat)

\* The pipelines, one behind the other, are the plan: each starts from the breaker
\* the one before it ends in, the last ends in the result, and the transforms
\* between them are the plan's other nodes in the plan's order.
PipelinesFollowPlan ==
  Built =>
    LET pipe(k) == pipelines[completed[k]]
    IN /\ FlattenSeq([k \in DOMAIN completed |->
                        <<pipe(k).source>> \o [i \in DOMAIN pipe(k).transforms |->
                                                 pipe(k).transforms[i].node]])
            = [i \in Nodes |-> i]
       /\ \A k \in DOMAIN completed :
            pipe(k).sink = IF k = Len(completed) THEN 0 ELSE pipe(k + 1).source

\* A limit is the last of its pipeline: one behind it would be left out of the loop
\* when the limit is reached, and its columns with it.
LimitsLast(p) ==
  \A i \in DOMAIN p : p[i].kind = "limit" =>
    i = Len(p) \/ p[i + 1].kind \in Breakers

\* The names the transform or sink of node n is to find in a batch of these columns,
\* expression by expression.
Wanted(n, columns) ==
  CASE n.kind = "aggregate" -> <<n.by>> \o [i \in DOMAIN n.exprs |-> n.exprs[i].reads]
    [] n.kind = "filter"    -> <<n.reads>>
    [] n.kind = "orderby"   -> <<n.by>>
    [] n.kind = "scalar"    -> [i \in DOMAIN n.exprs |-> n.exprs[i].reads]
    [] n.kind = "drop"      -> <<FlattenSeq([i \in DOMAIN columns |->
                                    IF columns[i] \in Range(n.columns) THEN <<>>
                                    ELSE <<columns[i]>>])>>
    [] n.kind = "reorder"   -> <<n.order>>
    [] OTHER                -> <<>>

\* When a batch reaches an operator, the positions the planner worked out from the
\* schema are those of the columns the plan names, whatever the operators before
\* added, dropped or moved and whichever pipeline they were in.
ColumnsInPlace ==
  at = "transforms" /\ (batch.rows \/ batch.columns # <<>>) =>
    IF rest # <<>>
      THEN LET n == plan[Head(rest).node]
           IN Behind(batch.columns, Made(n), Head(rest).uses) = Wanted(n, batch.columns)
      ELSE Pipe.sink # 0 =>
             Behind(batch.columns, <<>>, Pipe.uses) = Wanted(plan[Pipe.sink], batch.columns)

\* The batches Collect returns have the columns of the schema it returns with them.
ResultMatchesSchema ==
  at = "done" /\ results[0].rows => results[0].columns = schema

\* The names behind a node that has those in below in front of it; a scan reads
\* those in from.
Offers(n, below, from) ==
  CASE n.kind = "scan"      -> from
    [] n.kind = "aggregate" -> Range(n.by) \cup Range(OutputsOf(n.exprs))
    [] n.kind = "scalar"    -> below \cup Range(OutputsOf(n.exprs))
    [] n.kind = "drop"      -> below \ Range(n.columns)
    [] n.kind = "reorder"   -> Range(n.order)
    [] OTHER                -> below

\* The names behind each node.
Offered(from) == LET f[i \in Nodes] == Offers(plan[i], f[i - 1], from)
                 IN f

\* Names an expression reads are columns of the child if the whole table is read;
\* names that are dropped or ordered are so if only what is selected is read.
MakesSense ==
  LET selected == IF plan[1].columns = Star THEN Table ELSE plan[1].columns
      ofTable  == Offered(Range(Table))
      ofSelect == Offered(Range(selected))
  IN /\ Range(selected) \subseteq Range(Table)
     /\ \A i \in Nodes \ {1} :
          LET n == plan[i]
          IN CASE n.kind = "drop"    -> Range(n.columns) \subseteq ofSelect[i - 1]
               [] n.kind = "reorder" -> Range(n.order) \subseteq ofSelect[i - 1]
               [] OTHER              -> Needed(n, {}) \subseteq ofTable[i - 1]

\* Reading only the columns that are needed fails no plan: one that is rejected
\* names a column that would not be there if the scan read the whole table.
PruningSuffices == at = "rejected" => ~MakesSense

\* What main.cpp says of its queries: a query over a table without rows has an
\* answer, so no operator reads a column its batch has not got.
EmptyTableAnswered == at # "undefined"
=============================================================================
