# A TLA+ model of ColumnarEngine

ColumnarEngine converts CSV files into a columnar file format and runs
analytical queries over them.  A query is a chain of pipelines; each pipeline
is executed by a pool of threads that pull batches from a shared source, push
them through transforms and sink them.  This directory holds TLA+ modules of the
engine (`src/src/`), the configurations with which TLC checks them on small
instances, and theorems about them that TLAPS has proved for every value of
the constants.

## The system

| Part | State | Operations | Talks to |
|---|---|---|---|
| Thread pool (`utils/ThreadPool.h`) | `tasks_`, `stop_`, the workers | constructor, `Enqueue`, worker loop, destructor | condition variable; owned by `Collect` |
| Query execution (`ExecutionApi.h`, `Pipeline.h`) | the list of pipelines; per `Execute` a latch on the stack | `Collect`, `Execute`, the task each thread runs | pool, sources, transforms, sinks |
| Scan (`OperatorsBase.cpp`) | `current_chunk_`, `finished_empty_scan_` | `GetData` from every thread | columnar reader (may throw) |
| Filter, scalar, drop, reorder | none | `Execute` per batch | expressions |
| Limit | `cur_rows_`, `done_` (relaxed atomics) | `Execute`, `IsPipelineDone` | the loop of the task |
| Grouped aggregation | per thread: hash table, key builders, one state per group in each function | `Sink`, `Finalize`, `GetData` | next pipeline, as its source |
| Global aggregation | per thread: one state per function | `Sink`, `Finalize`, `GetData` | next pipeline |
| Order by | per thread: accumulated rows | `Sink` with `TrimLocalBatch`, `Finalize`, `GetData` | next pipeline |
| Result sink (`PipelineExecutor.h`) | `batches_` under a mutex | `Sink`, `TakeBatches` | `Collect` |
| CSV conversion (`io/CsvToColumnar.cpp`, `CsvReader.cpp`) | cache, builders, rows in the current chunk | `Convert`, `ConvertWithSchema` | tokenizer, writer |
| Tokenizer (`io/CsvTokenizer.cpp`) | buffer, position, end flags | `GetNextRow`, `RefillBuffer` | `VectorOfStrings2D` |
| Columnar file (`io/ColumnarWriter.cpp`, `ColumnarReader.cpp`) | offsets and sizes, the file | `WriteHeader`, `WriteBatch`, `Finalize`; `ParseMetadata`, `GetColumnData` | disk |
| Planner (`ExecutionLogic.cpp`) | schema and current pipeline while building | `BuildPipelines` of each plan node | query execution |
| Expressions (`execution/expressions/`) | none of their own; a batch has columns, a number of rows and perhaps a selection vector | build functions from names and types, evaluate batches | columns, every transform and sink |
| Dates and timestamps (`types/`) | none | parse, format, truncate | expressions |
| Command line (`main.cpp`) | none | 43 fixed queries, `convert` | all of the above |

What is hard here, and what makes each part correct:

* **Threads and condition variables.**  The pool notifies outside its mutex; the
  latch of a pipeline lives on a stack frame that dies when the waiting thread
  goes on; condition variables may wake spuriously.  Correct means: every task
  runs once, nobody sleeps for ever, the frame is left last by its owner.
* **Shared operators.**  All threads draw chunks from one counter, rows from one
  limit, and the only batch of a pipeline breaker from one flag.  Correct means
  that the answer is one a plan executed in single steps may give.
* **Thread-local states merged later.**  Ids that mean different groups in
  different threads; rows dropped by a thread that does not know the others'.
  Correct means the result is that of one thread over the whole input.
* **Bounds that interact.**  A cache ends by bytes or by rows, a chunk by rows; a
  limit falls inside a batch; an offset goes past the end.
* **Rows selected by position.**  A filter leaves a batch's columns as they are and
  hands on the positions of the rows that are left; every function behind it, and
  every sink, must go by them, and casts columns to classes that were worked out
  while the plan was built.  Correct means the answer is that of a query over rows.
* **Failure.**  A read may throw inside a task; a row may have the wrong width; a
  writer may stop half-way.

The full list, line by line, is `hazards` in `PROJECT.json`.

## The modules

| Module | Models | Checked by | Proved in |
|---|---|---|---|
| `TaskPool` | what a caller of the pool may rely on | through `ThreadPool` | |
| `ThreadPool` | `utils/ThreadPool.h`, multithreaded build | `ThreadPool.cfg` | `ThreadPoolProofs` |
| `QueryPlan` | what `Collect` promises of a plan | through `QueryExecution` | `QueryExecutionProofs` |
| `QueryExecution` | `Collect`, `Pipeline::Execute`, scan, transforms, limit, result sink; uses `ThreadPool` | `Query.cfg`, `QueryFailure.cfg` | `QueryExecutionProofs` |
| `GroupBy` | `GroupBySinkSourceOperator` and the grouped functions | through `Breakers` | `BreakersProofs` |
| `GlobalAggregate` | `AggregationSinkSourceOperator` and the global functions | through `Breakers` | `BreakersProofs` |
| `Aggregation` | `AggregateNode`: one of the two | through `Breakers` | `BreakersProofs` |
| `OrderBy` | `OrderBySinkSourceOperator` | through `Breakers` | `OrderByProofs` |
| `Breakers` | an aggregation, an ORDER BY, and one of the groups of the other; composes `Aggregation` and `OrderBy` | `Breakers.cfg`, `Average.cfg` | `BreakersProofs` |
| `CsvTokenizer` | `CsvTokenizer` and what `CsvReader::ReadRow` does with a row | `CsvTokenizer.cfg` | `CsvTokenizerProofs` |
| `CsvConvert` | `WriteToColumnar`, `CsvReader::ReadRow`, `VectorOfStrings2D` | through `Conversion` | `ConversionProofs` |
| `ColumnarFormat` | the layout of a file: encoding and decoding | through `Conversion` | |
| `ColumnarFile` | `ColumnarWriter`, and the file as it is at any time | through `Conversion` | `ConversionProofs` |
| `Conversion` | `WriteToColumnar` with its writer, and a reader of the file; composes `CsvConvert` and `ColumnarFile` | `Conversion.cfg`, `RowLoss.cfg` | `ConversionProofs` |
| `Planner` | `BuildPipelines` of all plan nodes, and the pipelines it builds run on batches whose columns are symbols | `Planner.cfg`, `EmptyTable.cfg` | `PlannerProofs` |
| `Calendar` | `types/Date.h`, `types/Timestamp.h` | through `Transforms` | |
| `RowQuery` | what the transforms of a pipeline promise: a query over rows and names | through `Transforms` | |
| `Transforms` | the building of filter and scalar functions, and a batch on its way through the transforms to a sink | `Expressions.cfg`, `YearTruncation.cfg` | |

`MC*.tla` give the constants their values for TLC.  The definitions under
"Seeded bugs" in each module take no part in its specification: each is a
definition changed the way a bug would change it, and put in that definition's
place makes the property named in `PROJECT.json` fail.

### ThreadPool

State: `tasks` and `stop` are the fields; `at` and `job` say where each worker is
and what it has popped; `owner` is where the one thread that owns the pool is
inside its methods; `enqueued` and `finished` are history.  A critical section
of `queue_mutex_` is one action, and everything the code does after releasing it
is another: `Enqueue` pushes and `NotifyOne` notifies, `Destroy` raises the flag
and `NotifyAll` notifies.  `Take`, `Sleep` and `Exit` are the three ways out of
evaluating the predicate.  `wait` releases the mutex and sleeps in one step, and
`SpuriousWake` may end the sleep at any time.

The refinement `ImplementsTaskPool` maps `started` to the tasks some worker holds
or has finished, and `closed` to the destructor's return.

### QueryExecution

`main`, `pipe` and `nextId` follow the thread in `Collect` through `Execute`;
`count` and `holder` are the latch (`num_tasks_finished`, `wait_mutex`); `pc`,
`batch`, `applied` and `stopping` are each task's program counter and locals;
the rest are the operators' fields.  The pool is not abstracted: the module
instantiates `ThreadPool` with the pairs of pipeline and thread id as tasks, and
a task's step requires that a worker runs it.  So a task may sit in the queue
while another of the same pipeline finishes, one worker may run two tasks of a
pipeline, and workers may still be returning from one pipeline while the next is
enqueued.

A batch is the sequence of its visible rows and a row its identity: a filter
keeps a given set of rows, a projection keeps all, and what columns hold is left
to `GroupBy` and `OrderBy`.  A step between two accesses to shared state is one
action.  `LimitExecute` ends with the `fetch_add`; the store to `done_` and the
poll are steps of their own, and the poll may miss another thread's store, since
both are relaxed.

A pipeline breaker is any sink that merges the thread states into one batch.
`QueryExecution` shows (`BarrierHolds`) that `Finalize` sees no concurrent `Sink`
and that a thread id is used by one task at a time, which is why `GroupBy` and
`OrderBy` may take `Sink` and the parts of `Finalize` as atomic actions.

`ImplementsPlan` maps the execution to `QueryPlan`, in which each pipeline turns
the rows of its source into rows its transforms may produce, in one step.

### Breakers (GroupBy, GlobalAggregate, OrderBy)

`GroupBy` keeps the four structures that have to agree (hash table, id counter,
key builders, states) apart, as the code does, and merges one hash table entry
at a time, in any order.  One record stands for the states of all functions:
`has`/`max` for MIN and MAX, `sum` and `count` for SUM, COUNT and AVG, `seen`
for COUNT DISTINCT.

`GlobalAggregate` has one state per thread and function.  MIN, MAX and SUM are one
template in the code and share `has_data`, so they are one record.  A sum is kept
in a type twice as wide as its column: `Wrap` takes it back into `-SumLimit ..
SumLimit - 1`.  Signed overflow is undefined in C++; the build adds without a check,
and wrapping is the outcome modelled, in `GroupBy` as well.  `Aggregation` chooses between the two, as
`AggregateNode` does.

`OrderBy` keeps a thread's rows as a set, because no sort the code uses is
stable: `nth_element`, `partial_sort` and `sort` may leave rows that compare equal
in any order, and the model takes every one of them.  Numbers have their widths:
`limit + offset` and its product with ten are sizes and wrap around at `SizeLimit`
(2^64); `lim`, which `TrimLocalBatch` and `Finalize` hand to the sorts, is the total
narrowed to `IndexLimit` (2^32), although it was compared with the number of rows before
that; and `cmp` takes 32-bit indices, so that with more rows it reads another row than
the one compared (`Readings`).  `DroppedAreCovered` and `ResultIsWindow` say what the
code promises while `limit + offset` fits a size and there are no more rows than indices
(`InRange`).  A limit of 2^32 or more is within that: as long as the rows are fewer,
`lim` is not used.  Beyond it the code is wrong and the model is as well: over more than
2^32 rows, `LIMIT 4294967296` returns none.

`Breakers` puts the two behind each other, as a plan does: `OrderGroups` is the
next pipeline's `GetData`, which hands the groups to the ORDER BY as one batch (one
row per group, sorted by what `SortKey` makes of its state).  `ResultIsWindow` then
goes from the rows that were aggregated to the rows that come out.

### Conversion (CsvConvert, ColumnarFormat, ColumnarFile)

One action per turn of the inner loop, and one for what follows it.  A cell is
the pair of its row and its column in the CSV file, and the batch is the flat
sequence of cells that `GetString2D` addresses by the width of the first row, so
a misplaced cell shows.

In `ColumnarFormat` a file is a sequence of bytes, each a pair of a value and its place
in it, so that a shifted read shows.  `Char` says which character a byte is; nothing is
assumed of it but that the magic's own four bytes spell TUFF.  The writer puts values
into the file as they are in memory, so any other bytes may spell it too: four CHAR
rows, an INT32 of 0x46465554, a text, a name, the length of a text, an extent, or the
end of one of these with the beginning of the next.  `ParseMetadata` and `GetColumnData`
are the reader, as operators on the file, with every check the code makes and none that
it does not; where the code copies bytes that are no table, the result is `Misread`.  In
`ColumnarFile`, `WriteHeader`, `WriteBatch` and `Finalize` append the bytes the code
writes and record extents; `LoseTail` makes any prefix of what was written the file: a
crash, a writer that was thrown away, or writes that failed, which `ofstream` reports
only to those who ask.

So the reader cannot tell every unfinished file.  `UnfinishedRefused` says that what it
takes is complete, or was cut just behind four bytes of its content that spell the magic
(`CutAtMagic`); the writer's own magic in front, or a part of the one behind, is never
what misleads it.  `ConvertedIsRead` has the same exception and no other.

`Conversion` joins them: the constructor and `WriteHeader` in front of the loop, a
`WriteBatch` in the step in which the loop flushes the builders, `Finalize` behind it.
An exception leaves the file as far as it is written.  The columns of the CSV file may
have any types: `TextIn` is the text of a field, `NumberIn` what `FromString` makes of
one, and both are open.  Texts of rows that differ in their bytes differ in length, so
that an extent that is off shows in what the reader returns (`ConvertedIsRead`).  The
writer is also checked on its own, with every batch a caller may give it, other types,
and chunks without rows (which the conversion never writes).

### CsvTokenizer

One action per branch of the loop in `GetNextRow`.  `RefillBuffer` is the action it
can wait for in two places, at the top of the loop and behind a quote inside
quotes, where the code looks one character ahead (`at = "quote"`).  The end of the
file is only noticed by a read that gives nothing.  `BeginRow`, `FinishRow` and
`EndOfFile` are what `ReadRow` does before and after.  What a file says is defined
beside it without a buffer or an automaton (`Lines`): a separator counts if an even
number of quotes is before it, a quote is text if it follows the one that would
have closed the field.  `Lines` also says what the code makes of the odd cases:
carriage returns are dropped and white space at the end of a field is trimmed even
inside quotes, and an empty last field without a newline behind it is none, so
that a file that ends in `1,` has one field in its last row.

### Planner

A plan is a sequence of nodes above a scan.  `Descend` and `DescendIntoNewPipeline`
are the recursive calls on the way down with the columns that are needed; the
`Build` actions are what each node does after its child: look up positions in the
schema, append a transform, complete a pipeline, replace the schema.  Then the
pipelines run: one batch goes through each, as a sequence of column symbols, and
every transform picks columns by the positions that were worked out while
building.  `ReadsBeyond` is a position that the batch does not have.  Types are
in `Transforms`, and names are all different.

### Transforms (RowQuery, Calendar)

`RowQuery` is the abstract specification: rows of values, columns by name, one node
after the other; a condition holds of a row, an expression has a value on a row, LIKE
is matched by definition, a time is its six fields and truncation sets the lower ones
to their beginning; and it says which queries have no answer (`NodeFits`).

`Transforms` is the code.  The `Build` actions are `BuildPipelines` of each node behind
its child's: names become positions, the types of the schema become classes the
functions will cast to, literals become values of those classes (a date its day),
and each node's output goes into the schema.  Then the batch goes through the loop of
`Pipeline::Execute`.  `Visited` is `IterateColumnData`; a function makes a column of the
size of the batch's columns and sets only the rows it visits; AND and OR merge
selection vectors as `std::set_intersection` and `std::set_union` do, and CASE goes
along the vector of its condition.  A cast to a class the column is not of is
undefined behaviour: the state `undefined`, from which nothing follows.

The refinement `ImplementsRowQuery` maps the batch to what `Display` would print of it
after each transform (the rows at the selected positions, values turned back into
texts) and both a rejected plan and an undefined cast to a refused query.  Hence it
also says that no query with an answer is rejected or undefined.  `KeysSeparate` is
about the other reader, GROUP BY, and the bytes `HashKeys` appends.

`Calendar` has the arithmetic of the two headers, with the division of C++, and beside
it what a date is by definition: months have lengths, leap years have a rule, days
are counted.  `DaysAreCounted` relates them.

## The runs

| Run | Bounds | Shows |
|---|---|---|
| `thread_pool` | 3 workers, 3 tasks | `ExactlyOnce`, `WorkConserving`, `NoSleeperAfterStop`; the pool implements `TaskPool` with its liveness; the destructor returns |
| `query` | 2 threads, 3 chunks of 2, 2 and 1 rows, two pipelines with a filter and two limits, chunk 2 readable or not | `BarrierHolds`, `NoLostLatchWakeup`, `StopsOnlyWhenFull`; the execution implements `QueryPlan`, and every query ends |
| `query_failure` | as `query` | violated: a failing read ends the process |
| `breakers` | 3 threads; 4 rows in 3 batches over 3 keys (symmetric) and 2 values, all inputs, and no batch; sums in -4..3; ORDER BY of the groups with limit 1; ORDER BY of 5 rows in 3 batches, two sort columns with ties, six limits and offsets (none, 0, 1, 2, 7; 0, 1), trim factor 2; sizes below 16, indices below 8 | `Aligned`, `MergeConserves`, `ResultIsGrouping`; `StatesMergeToTotals` without GROUP BY; `DroppedAreCovered`, `ResultIsWindow` for both kinds of ORDER BY |
| `average` | the same | violated: the sum that AVG divides has wrapped around |
| `conversion` | all CSV files of up to 5 rows with a string and an INT32 column, chunks of 3 rows, caches that 2 long or mixed rows fill; rows of wrong width and bad fields up to 4 rows; the writer alone with 2 schemas (a string and an INT16; an INT64 named as the magic) and up to 2 batches with up to 3 rows in all; every prefix of every file; values of every kind that spell the magic | `RowsInOrder`, `SmallTailKept`, `ExtentsTile`, `RoundTrip`, `UnfinishedRefused`, `ConvertedIsRead` |
| `row_loss` | the same, good rows only, no width check | violated: rows are lost |
| `csv_tokenizer` | all files of up to 4 of 6 characters, 4 longer ones, 105 small tables written with quotes; buffers of 1, 2, 3 and 40; expected widths 0 (unchecked), 1, 2 | `RowsAreLines`, `QuotedTablesSurvive`, `ReadingEnds` |
| `planner` | all plans of up to 3 nodes over 4 scans, and one of the longest form in `main.cpp` | `PipelinesFollowPlan`, `ColumnsInPlace`, `ResultMatchesSchema`, `PruningSuffices` |
| `empty_table` | the plan of Query35 over a table without rows | violated: a projection reads columns the batch does not have |
| `expressions` | all plans of up to 2 of 36 nodes (and a limit at the end), longer ones behind two filters, over 4 rows with a column of each kind of type, and over none; rows without columns; 576 first and last days of months from year 0 to 9999 as dates; 240 times from 1902 to 2037, truncated to each unit but the year | `SelectionAscending`, `TypesFollow`, `DaysAreCounted`, `KeysSeparate`; the transforms implement `RowQuery` |
| `year_truncation` | five times, every unit | violated: a time is cut to the year behind its own |

Why the bounds are enough.  Three workers and three tasks have two workers race for a
task, a sleeper left over and a task pushed while a worker runs.  Two threads and two
pipelines have a task of the second pipeline enqueued while a worker is still leaving
the first; three chunks leave a limit inside a chunk, between chunks and reached by two
threads at once.  Three threads in `GroupBy` have a group merged twice into the first
thread, and groups that only the later threads have.  The trim factor is a constant of
`OrderBy`, so that a thread trims twice within five rows; 10 is the code's value.  The
window of 7 rows behind 1 has a total of 8, which is no index (`lim` is 0) and whose
double is no size (every batch is trimmed): a trim that used `lim`, or dropped anything,
would show.  In `Conversion` four bytes per row of difference decide whether bytes or
rows end a cache.  With the values -1 and 2, sums of single threads leave -4..3 when the
total does not, and the total leaves it too.  Four characters put every construct of a
CSV file across every buffer end; an escaped quote inside quotes takes more, hence the
longer files and the tables.  Two batches have an extent that does not begin where the
header ends.  The magic is spelled by a string, by a column's name, by a field of the
CSV file and by the number in the same row, by the first half of an INT64, by two INT16
side by side, and by the number five, as the length of a string and in an extent, so
that a cut file can be mistaken wherever one can be; `Conversion.cfg` has all of them.
Three nodes put any node above and below any other; positions depend on no more than
what the child delivers and what the parent needs.  Four rows put a gap into a selection
vector at its beginning, in the middle and at its end, and let a limit fall on, before
and behind its last row; two nodes put every function behind every filter, and three a
limit or a choice of columns behind both.  The nodes include ones that name columns that
are not there and types that do not fit.  Leap days, centuries and eras differ in the
years taken, at whose months' first and last days any error of a day shows.

Deadlock is checked in every run: each module says where the system may stop.

### Fairness

`ThreadPool` assumes that the operating system schedules every worker, that a
task returns, and that the owner leaves the method it is in; it does not assume
that anybody calls `Enqueue` or the destructor, nor that a spurious wakeup ever
happens.  `QueryExecution` assumes that the thread in `Collect` and each worker are
scheduled.  One assumption there is about a lock: the thread in `Collect` gets
`wait_mutex` eventually.  Each task takes it once, so at most as many threads as
the pool has can be before it.  `CsvTokenizer` assumes that the one thread that
reads goes on.

## Proofs

Each theorem below holds for every value of the constants that meets the named
assumption; TLC checks the same property on the instance of the run.  TLC
evaluates the assumptions in every run.

| Module | Theorems | Invariants they state |
|---|---|---|
| `ThreadPoolProofs` | `TypeCorrect`, `NoSleepers`, `EachTaskOnce`, `Drains`, `NoTaskWaitsForASleeper`, `Implements` | `TypeOK`, `NoSleeperAfterStop`, `ExactlyOnce`, `DrainedWhenGone`, `WorkConserving`, the safety of `ImplementsTaskPool` |
| `QueryExecutionProofs` | `TypeCorrect`, `LatchIsBarrier`, `LatchWakes`, `StopsWhenFull`, `ImplementsPlanSafely` | `TypeOK`, `BarrierHolds`, `NoLostLatchWakeup`, `StopsOnlyWhenFull`, the safety of `ImplementsPlan` |
| `OrderByProofs` | `TrimIsSound`, `SortsWindow` | `DroppedAreCovered`; `ResultIsWindow` |
| `BreakersProofs` | of the aggregations on their own: `GroupsAreRight`, `TotalsAreRight`; of the composed system: `BreakersAggregate`, `BreakersAligned`, `BreakersTrim`, `BreakersSort`, `BreakersTyped` | `Aligned`, `MergeConserves`, `ResultIsGrouping`, `StatesMergeToTotals`, `DroppedAreCovered`, `ResultIsWindow`, `BreakersTypeOK` |
| `ConversionProofs` | `RowsKeepOrder`, `SmallTailsAreKept`, `ExtentsTileTheFile`, `UnfinishedAreRefused`, `WrittenIsRead`, `ConversionIsRead`, `ConversionIsTyped` | `RowsInOrder`, `SmallTailKept`, `ExtentsTile`, `UnfinishedRefused`, `RoundTrip`, `ConvertedIsRead`, `ConversionTypeOK` |
| `CsvTokenizerProofs` | `RowsAreTheLines`, `QuotedTablesAreRead`, `TokenizerTypeCorrect` | `RowsAreLines`, `QuotedTablesSurvive`, `TypeOK` |
| `PlannerProofs` | `PlannerTypeCorrect`, `PlannerFollowsPlan`, `PlannerKeepsPlaces`, `PlannerMatchesSchema`, `PlannerPruningSuffices` | `TypeOK`, `PipelinesFollowPlan`, `ColumnsInPlace`, `ResultMatchesSchema`, `PruningSuffices` |

`DataFacts` has the lemmas they share: what the folds `FlattenSeq` and
`SumFunction` return for data of any size.  Induction is done there on sets: a
nonempty set of numbers has a least element (`LeastNumber`), so the set of the
numbers that have a property, if it has 0 and is closed under successor, is `Nat`
(`SetInduction`); and a fold, which is a recursive function, exists and satisfies
its equation (`RecursionExists`).

### ThreadPool

For any finite, non-empty set of workers and any set of tasks among which the mark
for "no task" is not (`PoolAssumption`).  The argument goes in layers, each an
inductive invariant relative to the ones
before it.  `Typed` is `TypeOK` with "a worker holds a task exactly while it runs
it", without which `Return` could put a non-task into `finished`.  `Control` adds
the flags: `stop_` is raised exactly from the destructor on, the destructor has
returned only when all workers exited, a worker exits only with the queue empty
and `stop_` raised, and nobody sleeps behind the destructor's notification; the
last needs the first, since `Sleep` is ruled out by `stop_`.  `ExactlyOnce` is
inductive with `Typed`: it needs that tasks in the queue are distinct, so that
popping one leaves none equal to it, and that no two workers hold the same.
`WorkConserving` counts: a push adds one task and puts a notification on its way;
a notification turns it into one more awake worker; `Take` removes a task and an
awake worker; a worker only falls asleep when the queue is empty.  The lemmas on
cardinalities and on the last element of a sequence rest on the library's
theorems.  `Implements` uses `ExactlyOnce` (a task that starts was not started
before) and `Control` (the destructor returns when all tasks have finished).

### QueryExecution

For any number of threads, any table and any plan (`QueryAssumption`).  The pool's
invariants are those of `ThreadPoolProofs`, instantiated as the module instantiates
the pool; each step of a query is one of the pool's or leaves it alone.

`Control` is about the latch and does not mention rows.  `BarrierHolds` is not
inductive: that the waiting thread sees `count` at the number of threads says
nothing of the tasks by itself.  `LatchCounts` says that the counter is the
number of the current pipeline's tasks that are behind their increment
(`Counted`), and `OneHolder` that the mutex is held by the task between its lock
and its unlock; so the waiting thread, which needs the mutex to go on, only does
with all tasks at their end.  That a task is counted once rests on the pool:
`PlacesFollowPool` has a task that has not been enqueued at its first place and one
that has returned at its last, and `ExactlyOnce` keeps it from running again.
`MainKnows` carries what was known at one place in `Execute` on to the next.

`Data` is about rows.  A task that stops has seen `done_`; `DoneMeansFull` says that a
limit that is marked done has let its rows through, and `BatchesInPlace` that the
task between `fetch_add` and the store to `done_` has seen the limit reached, and
is at a limit at all.

### QueryPlan

`ImplementsPlanSafely`: every query execution is one of `QueryPlan!SafeSpec`, for any
number of threads, any file and any plan whose limits are the last transforms of their
pipelines (`PlanChains`, as in the queries of `main.cpp`; where a limit is followed by
another transform, the loop in `Pipeline.h:65` may skip it, which the hazards list).
`Finalize` is the step `RunPipeline`, a read that throws is `GiveUp`, and all other steps
leave `Delivered` as it is.

What has to be shown is that the rows sunk when `Execute` finalizes are an outcome of
the plan.  `Account` says where every row is that was drawn from the current source.  In
`Accounted`, `RowsApart` says that a row is in the hands of one thread or in the sink, and once;
`RowsPass` that it has passed the filters behind it; and `Balanced` that of the drawn
rows that pass all filters, those no longer ahead of the last transform are behind it,
unless that is a limit.  Then `cur_rows_` is their number, and the rows behind the limit are
as many as it may let through of them.  The lemmas `AccountDraws`, `AccountAdvances`,
`AccountLimits`, `AccountResets` and `AccountSinks` say so of sets of rows for each kind of
step; the lemmas above them reduce the actions to these.  `LeavesWhenDone` is why
nothing is left: a task leaves its loop when the source is dry or the limit is full, and at
the latch the tasks have no rows in hand (`EmptyHands`).  `Untouched` starts the account of the
next pipeline: its operators have not been used.  The barrier is used throughout: a
task that holds rows belongs to the current pipeline (`RunningTask`).

### Aggregation (GroupBy, GlobalAggregate)

For any number of threads, any sequence of batches whose values fit the type of a
sum, and any width of that type (`GroupConstants`).

The reference of `ResultIsGrouping` is the aggregate of all rows with a key, and
what a thread has is a part of it that no variable records.  `GroupInv` therefore
has a witness: a function `own` that gives every row sunk so far to a thread.  A
state is what the aggregates of its thread's rows with its key are by definition
(`Accounts`); `Sink` extends `own` by the rows of a batch, and merging a group gives its
rows to the first thread.  `Waiting` says which groups of which threads still count
while `Finalize` goes through the tables.  `TablesAgree` is `Aligned` with two more
facts: the table's keys are those of rows that were sunk, and a table that is not
yet cleared has all groups.  `TotalsInv` is the same for the states without a key.
`MergeConserves` follows since the shares are disjoint and together all rows.

The lemmas below are about the aggregates: the maximum, the sum, the count and the
set of values of a disjoint union from those of the parts.  Sums wrap around, and
`WrapSum` of a sum of wrapped sums is that of the sum (`WrapAdd`), so the order in which
threads were merged does not matter even when a sum has overflowed.

### OrderBy

For any number of threads, any finite batches, any sort columns with values that compare
as numbers, any limit and offset, any trim factor and any widths of sizes and indices
(`OrderConstants`, `GoodTables`).  What the widths cost is in the properties
(`InRange`), not in an assumption: `limit + offset` fits a size, and the rows are no
more than `cmp` can index; `lim` and the bound of the trim are as the code computes
them.  Within that, a set of rows larger than the total is one the total indexes, so
`lim` is the total, and `cmp` reads the rows it is given (`TotalIsSum`, `ReadsRows`).
The comparison is shown to be a strict weak order; hence a finite set of rows has a
least one, and a subset of a given size that is sorted in front of the rest exists and
covers what is left.  `DroppedAreCovered` is inductive with `Accounted`: the rows sunk
are those the threads hold and those they dropped, and nothing is dropped without a
limit.  A row that is dropped has as many rows before it in the thread as the window
needs; `TrimCovers` says that these may be dropped later for rows that cover them, and
transitivity makes them cover the first one.  `ResultIsWindow` follows: a sorted window
of what is held is one of all rows, because a dropped row never belongs into it unless
as an equal.

### Breakers

With `Comparable` (sort columns are numbers, of tables and of groups).
`BreakersInv` joins the two invariants and says what couples them: the ORDER BY is
idle before it is its turn, and the rows it gets are the groups of an aggregation
that is over (`GroupsGiven`).  Steps of one operator leave the other's variables
alone.

### Conversion (CsvConvert, ColumnarFile)

For every CSV file, schema, size of a chunk and of a cache that is larger than an
offset of an empty one (`ConvertAssumption`, `ConversionAssumption`, `FormatAssumption`).

`RowsInOrder` speaks of the end; on the way, rows are in the cache, in the builders and
in the chunks.  `RowsInv` says that the cache has the last rows that were read
and the builders those before it, never more than a chunk's; `Holding` says
which cells that puts where.  The cells of a batch are flat and found by
position, so that `Holding` after a step needs the division of a position by the
width (`CellsAre`, `CellsJoin`).  `WaitInv` is what `SmallTailKept` needs: rows wait in
the builders only because the cache was full by its bytes when they came.

`ExtentsTile` compares recorded extents with the file.  `WriterInv` says that the file,
while it is open and no write has failed, is the magic and the bytes of the batches one after the
other, and `Recorded` that batch k starts where batch k - 1 ends and its columns
where the sums of the sizes before them put them, which is in `metadata` as well.
Then extents meet (`Start`), and the data of a column is where its extent says.

`UnfinishedRefused` is about every place a file can end at, so it needs what the disk
has at any time and where the four bytes the reader looks for can be in it.  `DiskInv`
says the first: the disk has how the file as it is meant (`Meant`) begins, and all of it
until something fails.  A place where that can end with TUFF lies in the content between
the magics, or it is the end: no proper beginning of TUFF is an end of it, so the four
bytes cannot be the last of the content and the first of the magic behind it, or the
last of the magic in front and the first of the content (`EndsAtMagic`).  Of the
content's own bytes nothing is assumed.

`RoundTrip` is about what the reader makes of a finalized file.  `CompleteIs` says what
that is: the bytes of the batches, the table, and the magic.  The parser is followed from
there: a number is read where it is (`ValueIs`), a column's entry as its name, type and
extents (`ColumnIsParsed`), and the loop over the columns reaches the end of the table
(`ColumnsAreParsed`, where the recursive function of the loop is compared, place by place,
with one that gives what is parsed behind each column); so the reader has the writer's table
(`MetadataIs`).  An extent of it delimits the chunk's bytes, as `ExtentsTile` has it, and
those decode to the values: numbers at multiples of their size (`ValuesComeBack`), texts
each behind its length (`TextsComeBack`).  `ReaderInv` adds to `WriterInv` and `DiskInv`
that `num_rows` counts the rows of the batches.

`ConvertedIsRead` puts the two halves together, from the rows of the CSV file to those
of the reader.  `ReaderInv` says for it that the batches have the values of the chunks
and that the file is finalized only by a conversion that is done, and `EndInv` that the
end of the CSV file is only found behind its last row.  A file the reader takes is then
complete, and has `RoundTrip`'s columns, each the chunks' values side by side
(`ValuesAre`, `BuiltIs`); or `UnfinishedRefused` has it cut where content spells the
magic.

### Planner

For any set of plans that begin with a scan, any table and any names, also if two are
the same (`PlannerAssumption`).  There are three invariants, each on top of the ones before.

`Control` follows the recursion.  On the way down, the frames on the stack are nested
and there is one for each breaker passed (`Stacked`).  On the way up, the pipelines from
the current one to the innermost are a chain that covers the nodes built so far
(`ChainOf`), and those behind the current one are completed, innermost first
(`CompletedLast`).  `PipelinesFollowPlan` is about the sequence of all nodes of all pipelines,
and follows from where each pipeline starts and ends.

`ColumnsInPlace` says nothing of the batches to come.  `InPlace` does: there are schemas `S`,
one for each node, each made from the one below as that node makes its columns
(`Follows`); every position that was looked up for a node fits the columns below
it (`FitsIn`); and the batch that runs has the schema of the node it has just left
(`Gone`).  `S` exists as soon as the scan has been built, since what it reads decides
the rest, and never changes.  Two theorems assume `LimitsLast` of the plans: where a limit
is not the last of its pipeline, `Execute` leaves its loop at the limit (`Pipeline.h:65`), so
a projection behind it is skipped and the next pipeline gets columns it does not expect.
This is the case the hazards list without a property; the queries of `main.cpp` have none.

`Pruned` ties the way down to the way up.  `Sense` gives the names behind each
node if the whole table is read and if only what is selected is read, and what is
required of each node.  What is required of a node is offered by it
(`RequiredOffered`), and what is needed of the scan is read; so every name that a node
looks for has been offered by its child (`NoneMissing`), unless the plan would not make
sense with the whole table either.

### CsvTokenizer

For any set of files, any sizes of the buffer from one character on, and any five
different characters that mean something (`TokenizerAssumption`).
The reference is about the whole file: `Inside` counts the quotes before a position,
and `Lines`, `Fields` and `FieldText` cut the file at the separators that are outside
quotes.  `InOrder` lists a set of places, so what the proof needs of it is what one
more place, behind all others, adds: one more element (`LastInOrder`), and one more piece
between two cuts (`PiecesGrow`).  `Tokenized` says in these terms what the first c
characters are: the lines up to the last newline, the fields up to the last
delimiter, and the text of the field that has begun.  `NextPlain`, `NextDelim` and
`NextLine` say how it goes on with the next character, `AtEnd` what it is at the end
of the file, and none of the four is about the automaton.

`Follows`, the part of the invariant that carries the proof, says that the automaton is
at `Tokenized` of the characters consumed, wherever the buffer ends: `Consumed` is
what was read less what waits in the buffer, and a refill leaves it as it is.
`inQuotes` is then the parity of the quotes (`Inside`), except behind a quote found inside
quotes, which is already counted there while the flag is still set until the next
character is known.  What must not come after such a quote has been taken for a closing one
is another quote (`Single`): a quote is text exactly if it is the second of two, so
without it the automaton and `InText` would differ.  For a throw the invariant says that
the rows returned are the first lines and the next line is of another width
(`Stopped`); at a newline this needs that the lines up to there are the first of
the whole file's (`LinesBegin`).

`QuotedTablesAreRead` is then about `Lines` alone: the lines of `Written(t)` are the rows
of t.  The proof goes through the file with `Tokenized`, by induction over the
characters of a text (`TextIsRead`: a quote in it has been written twice, and the
second one is text), over the fields of a row (`RowIsRead`) and over the rows
(`TableIsRead`); `Ends` in `DataFacts` says at which position of the flattened
sequence each part begins.  The tables are those of `TablesAssumption`: every row has
as many fields as the first one and at least one, since a row without fields is
written as a newline only, which is read as one empty field; and no text has a carriage
return or white space at its end, which the code drops even inside quotes.

### Model-checked only

* Liveness and fairness (`DestructorReturns`, the fairness parts of
  `ImplementsTaskPool` and `ImplementsPlan`: that a query ends, that reading ends) and `ENABLED` are out
  of the prover's reach.
* `Transforms` with `Calendar`, whose values are texts as well as numbers
  (`TypeOK`, `ImplementsRowQuery`, `TypesFollow`, `KeysSeparate`, `DaysAreCounted`): these
  are checked by enumeration.  So is `SelectionAscending`, whose proof would be one about
  `SelectSeq`, which takes an operator as its argument, and about the two recursive merges.

## What the models found

* **A failing read ends the process** (`ThreadPool.h:33`), although `main` catches
  exceptions and prints `Query fail:`.
* **Conversion may lose the last rows** (`CsvToColumnar.cpp:38`).  When a cache is
  full by its bytes exactly at the end of the file, the rows that wait in the
  builders are never written.  Without the `break` there, the flush behind it
  would write them.  `SmallTailKept` says how far the loss goes: it takes at least
  one full cache since the last chunk.
* **AVG over a large table is wrong** (`AggregationFunctions.h:321`).  The sum of a
  16-bit column is kept in 32 bits, also for AVG.  `AVG(ResolutionWidth)` in Query02
  leaves them after about 1.4 million rows.
* **ORDER BY without rows makes a batch without columns** (`OperatorsBase.cpp:418`).
  `Execute` looks at the number of rows only behind the first transform, so a
  projection behind an ORDER BY, as in Query35, reads columns that are not there.

* **Truncation to a year is a year late** (`Date.h:79`).  The calendar year goes into
  the formula of the years that begin in March.  No query of `main.cpp` truncates to
  a year.

Also in the instances, as an exception that two properties state: a file that was cut
just behind data or metadata that spell TUFF is taken for a complete one
(`ColumnarReader.cpp:25`), and what are no metadata is read as such.

Seen while modelling, and in the models as it is in the code, but outside the
instances that are run, since no query of `main.cpp` has the case:

* `Execute` leaves the loop over the transforms when a limit is reached and sinks the
  batch without the rest (`Pipeline.h:65`), which would show in a plan with a transform
  behind a limit in its pipeline.
* Truncation of a time before 1970 to its month divides towards zero
  (`Timestamp.h:90`): a time on the last day of a month, but not at midnight, is given
  to the day behind it, and with it to the next month.
* Over more than 2^32 rows, ORDER BY cuts `limit + offset` down to 32 bits
  (`OperatorsBase.cpp:549`, `:462`) and compares other rows than it sorts (`:538`, `:451`).
  `OrderBy` has both; its properties are about no more rows than that.
* Drop of all columns behind a filter leaves a batch without columns whose selection
  vector is kept; a literal projected then makes a column as long as the selection
  (`ScalarFunctions.h:96`), and the positions point beyond it.

And outside the models: `GetResult` (`ExecutionApi.h:52`) returns a column without
looking at the selection vector, or at whether there is a batch; the comment on
Query42 (`main.cpp:566`) names two days of July and its code takes the whole month;
`HashKeys` takes the bytes of floating-point values, among them the padding of a
`long double` and the sign of zero.

## Not modelled, and why

* The single-threaded build: a task runs inside `Enqueue`, one of the behaviours of
  the multithreaded one.
* The storage of `column/` and the parsing of its numbers: a value is a value here.
  `Codec.h` has no user.
* The types' dispatch macros: they choose a class per column type.
* Sums of floating-point columns, whose rounding depends on the order of the
  batches.
* RE2, a third-party library: a constant of `Transforms`.  Overflow of INT32 and INT64
  in `column + constant`, which is undefined; that of INT16 is modelled.  Texts that
  are no dates (`Parse` looks at the places of the separators, not at the digits).
  Patterns of LIKE without a wildcard at both ends, whose first and last characters
  are cut off all the same.
* In `Conversion`: the schema file, and a file replaced between the reading of its
  footer and that of its data.  In the instance of
  `Planner`: two columns of one name.  In `CsvTokenizer`: the parsing of the header's `type:name`.
* `main.cpp`: fixed plans and argument parsing.
* `src/contrib`: Catch, GoogleTest and GoogleMock, the frameworks of the tests, which
  are most of the repository's lines and no part of the program.
* Texts of 4 GiB and more: the writer narrows their lengths, and those of names, to 32
  bits (`ColumnarWriter.cpp:65`, `:121`).  `LengthAssumption` says that none is so long.
* What `CaseWhen` says of its operands (`ScalarExpressions.h:219`, `:231-237`): a branch that is
  neither a column nor a constant, and a constant of a type that the result's is not made
  from.  The plans of `Transforms` have columns and constants of the result's type, as
  `main.cpp`'s only CASE has.  A column of another type, which the code does not check, is
  in the instance.
* Comparisons with NaN in ORDER BY, which give the sorts no order.
* Overflow of group ids (needs 2^32 groups) and undefined behaviour on rows wider
  or narrower than the schema in `ConvertWithSchema`.

## Plan

Done: thread pool, query execution, the breakers and their composition, CSV
tokenizer, conversion with its file, planner, expressions with the calendar; the
proofs above.  In this order, the most important first:

1. `SelectionAscending` in `Transforms`.
2. Two columns of one name in the instance of `Planner`.
