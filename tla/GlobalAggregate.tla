--------------------------- MODULE GlobalAggregate ---------------------------
(***************************************************************************)
(* AggregationSinkSourceOperator and the global aggregation functions: an  *)
(* aggregation without GROUP BY.  Each thread keeps one state per function *)
(* for the batches it sinks; Finalize merges the states into the one row   *)
(* of the result.                                                          *)
(*                                                                         *)
(* The state of SUM has a width of its own, twice that of the column, and  *)
(* AVG divides a sum of that width.  The build adds without a check, so a  *)
(* sum beyond the width wraps around (in C++ it is undefined).             *)
(***************************************************************************)
EXTENDS Integers, Sequences, FiniteSets, SequencesExt, FiniteSetsExt

CONSTANTS NumThreads,   \* num_threads
          Inputs,       \* the inputs considered: each a sequence of batches
          SumLimit      \* sums are kept in -SumLimit .. SumLimit - 1

ThreadIds == 1..NumThreads

VARIABLES
  input,    \* the batches the pipeline delivers
  todo,     \* those not sunk yet
  states,   \* per thread, the thread_states_ of the functions
  result    \* the rows of result_batch_, or <<>>

vars == <<input, todo, states, result>>

\* MIN, MAX and SUM are one template (typed, with has_data); COUNT; AVG; COUNT
\* DISTINCT.
Fresh == [typed    |-> [has |-> FALSE, min |-> 0, max |-> 0, sum |-> 0],
          count    |-> 0,
          avg      |-> [sum |-> 0, count |-> 0],
          distinct |-> {}]

Init == /\ input \in Inputs
        /\ todo = DOMAIN input
        /\ states = [t \in ThreadIds |-> Fresh]
        /\ result = <<>>

-----------------------------------------------------------------------------
(* Seeded bugs, see the README.                                            *)

\* A thread without rows contributes its default value (for ApplyIfAny).
ApplyAlways(s, x) ==
  [has |-> TRUE, min |-> Min({s.min, x.min}), max |-> Max({s.max, x.max}),
   sum |-> s.sum + x.sum]

-----------------------------------------------------------------------------
\* A sum in the type of the state.
Wrap(x) == ((x + SumLimit) % (2 * SumLimit)) - SumLimit

\* Apply of the three operations to two states that both have data.
Apply(s, x) == [has |-> TRUE,
                min |-> IF x.min < s.min THEN x.min ELSE s.min,
                max |-> IF x.max > s.max THEN x.max ELSE s.max,
                sum |-> Wrap(s.sum + x.sum)]

\* What both Update and WriteResult do with has_data.
ApplyIfAny(s, x) ==
  IF s.has /\ x.has THEN Apply(s, x) ELSE IF s.has THEN s ELSE x

TypedUpdate(s, v) == ApplyIfAny(s, [has |-> TRUE, min |-> v, max |-> v, sum |-> v])

AvgUpdate(s, v) == [sum |-> Wrap(s.sum + v), count |-> s.count + 1]

\* One row in every function.
UpdateRow(s, v) == [typed    |-> TypedUpdate(s.typed, v),
                    count    |-> s.count + 1,
                    avg      |-> AvgUpdate(s.avg, v),
                    distinct |-> s.distinct \cup {v}]

\* Update of every function with the batch b.
Update(s, b) ==
  LET after[i \in 0..Len(b)] == IF i = 0 THEN s ELSE UpdateRow(after[i - 1], b[i].value)
  IN after[Len(b)]

Sink(t) == \E b \in todo :
  /\ result = <<>>
  /\ todo' = todo \ {b}
  /\ states' = [states EXCEPT ![t] = Update(@, input[b])]
  /\ UNCHANGED <<input, result>>

\* What WriteResult of each function makes of the states x of the threads before
\* and the state s of the next one: of the sets, the others are moved into the
\* first one's.
TypedResult(x, s)    == ApplyIfAny(x, s)
CountResult(x, s)    == x + s
AvgResult(x, s)      == [sum |-> Wrap(x.sum + s.sum), count |-> x.count + s.count]
DistinctResult(x, s) == x \cup s

MergeStates(x, s) == [typed    |-> TypedResult(x.typed, s.typed),
                      count    |-> CountResult(x.count, s.count),
                      avg      |-> AvgResult(x.avg, s.avg),
                      distinct |-> DistinctResult(x.distinct, s.distinct)]

\* The states of all threads; of AVG, the sum and the count that ComputeAvg divides.
WriteResults ==
  LET after[t \in 0..NumThreads] ==
        IF t = 0 THEN Fresh ELSE MergeStates(after[t - 1], states[t])
  IN after[NumThreads]

Finalize == /\ todo = {} /\ result = <<>>
            /\ result' = <<WriteResults>>
            /\ UNCHANGED <<input, todo, states>>

Finished == result # <<>>

Next == \/ \E t \in ThreadIds : Sink(t)
        \/ Finalize
        \/ Finished /\ UNCHANGED vars

Spec == Init /\ [][Next]_vars

-----------------------------------------------------------------------------
(* Safety.                                                                 *)

\* The rows of some batches, each by its place, and their sum.
RowsOf(batches) == UNION {{b} \X DOMAIN input[b] : b \in batches}
ValueAt(p)      == input[p[1]][p[2]].value
Total(rows)     == SumFunction([p \in rows |-> ValueAt(p)])

SumRange == (-SumLimit)..(SumLimit - 1)

\* A state has data exactly if its thread has sunk a row, and no sum leaves the
\* type.
TypeOK ==
  /\ todo \subseteq DOMAIN input
  /\ Len(result) \in {0, 1}
  /\ \A t \in ThreadIds :
       /\ states[t].typed.has = (states[t].count > 0)
       /\ {states[t].typed.sum, states[t].avg.sum} \subseteq SumRange
       /\ states[t].avg.count = states[t].count

\* At every moment the threads' states merge to the aggregates of the rows sunk
\* so far: MIN and MAX ignore threads without rows and their default values
\* (which the result has if there is no row at all),
\* and a sum that fits its type is right even if the sums of some threads did
\* not fit and wrapped around.
StatesMergeToTotals ==
  LET rows == RowsOf(DOMAIN input \ todo)
      set  == {ValueAt(p) : p \in rows}
      all  == WriteResults
  IN /\ all.count = Cardinality(rows) /\ all.avg.count = Cardinality(rows)
     /\ all.distinct = set
     /\ rows # {} => all.typed.min = Min(set) /\ all.typed.max = Max(set)
     /\ rows = {} => all.typed.min = 0 /\ all.typed.max = 0 /\ all.typed.sum = 0
     /\ Total(rows) \in SumRange =>
          all.typed.sum = Total(rows) /\ all.avg.sum = Total(rows)

\* The sum that AVG divides is the sum of the rows.
AverageIsExact ==
  Finished => result[1].avg.sum = Total(RowsOf(DOMAIN input))
=============================================================================
