----------------------------- MODULE Aggregation -----------------------------
(***************************************************************************)
(* AggregateNode: a pipeline that ends in an aggregation sinks into one of *)
(* two operators, the one of GroupBy if there are columns to group by and  *)
(* the one of GlobalAggregate if there are none.                           *)
(***************************************************************************)
EXTENDS GroupBy

VARIABLES
  grouped,   \* !group_by_columns.empty()
  pending,   \* the batches the global operator has yet to sink
  totals,    \* the states of the global functions
  row        \* the one row of their result

Global == INSTANCE GlobalAggregate WITH
            todo <- pending, states <- totals, result <- row

aggregateVars == <<vars, grouped, pending, totals, row>>

AggregateInit == Init /\ Global!Init /\ grouped \in BOOLEAN

AggregateNext ==
  \/ grouped /\ Next /\ UNCHANGED <<grouped, pending, totals, row>>
  \/ ~grouped /\ Global!Next
       /\ UNCHANGED <<grouped, todo, table, numGroups, keys, states, from, left, result>>

AggregateSpec == AggregateInit /\ [][AggregateNext]_aggregateVars

-----------------------------------------------------------------------------
(* The properties of GlobalAggregate, stated there.                        *)

\* The states of the threads merge to the totals of the rows sunk so far.
StatesMergeToTotals == Global!StatesMergeToTotals

\* AVG divides the sum of the rows.  (The code does not keep this.)
AverageIsExact == Global!AverageIsExact
=============================================================================
