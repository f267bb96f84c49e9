------------------------------ MODULE Breakers ------------------------------
(***************************************************************************)
(* The operators a pipeline may end in, as the queries of main.cpp use     *)
(* them: an aggregation; an ORDER BY of a table; and an ORDER BY of the    *)
(* groups an aggregation has made, which GetData hands to the next         *)
(* pipeline as one batch.                                                  *)
(***************************************************************************)
EXTENDS Aggregation

CONSTANTS Tables, SortColumns, NoLimit, TrimFactor, SizeLimit, IndexLimit,  \* see OrderBy
          SortKey(_),  \* the sort columns of a group, from its state
          Windows      \* the limits and offsets of an ORDER BY of groups

\* Every table has finitely many rows, each in one batch; limits and offsets are
\* sizes.
ASSUME OrderAssumption ==
  /\ \A t \in Tables :
       /\ IsFiniteSet(UNION Range(t.batches))
       /\ \A b, c \in DOMAIN t.batches : b # c => t.batches[b] \cap t.batches[c] = {}
  /\ Windows \cup {t.window : t \in Tables} \subseteq
       [limit : Nat \cup {NoLimit}, offset : Nat]
  /\ NoLimit \notin Nat
  /\ {TrimFactor, SizeLimit, IndexLimit} \subseteq Nat \ {0}

VARIABLES
  ordering,   \* is the ORDER BY the operator under way?
  batches, key, limit, offset, unsorted, acc, dropped, done, sorted  \* see OrderBy

Order == INSTANCE OrderBy WITH todo <- unsorted, result <- sorted

orderVars   == <<batches, key, limit, offset, unsorted, acc, dropped, done, sorted>>
breakerVars == <<aggregateVars, ordering, orderVars>>

\* The ORDER BY of a pipeline that has not begun.
OrderIdle == /\ batches = <<>> /\ key = <<>> /\ limit = NoLimit /\ offset = 0 /\ unsorted = {}
             /\ acc = [t \in ThreadIds |-> {}]
             /\ dropped = [t \in ThreadIds |-> {}]
             /\ done = FALSE /\ sorted = <<>>

BreakersInit ==
  /\ ordering \in BOOLEAN
  /\ AggregateInit
  /\ IF ordering THEN Order!Init /\ input = <<>> /\ ~grouped ELSE OrderIdle

Aggregate == ~ordering /\ AggregateNext /\ UNCHANGED <<ordering, orderVars>>

\* GroupBySinkSourceOperator::GetData: the groups are the one batch of the next
\* pipeline; no batch without a row reaches a sink.
OrderGroups ==
  /\ ~ordering /\ grouped /\ Finished
  /\ ordering' = TRUE
  /\ \E window \in Windows :
       Order!Open(IF result = <<>> THEN <<>> ELSE <<DOMAIN result>>,
                  [g \in DOMAIN result |-> SortKey(result[g].state)], window)
  /\ UNCHANGED aggregateVars

Sort == ordering /\ Order!Next /\ UNCHANGED <<aggregateVars, ordering>>

BreakersNext == Aggregate \/ OrderGroups \/ Sort

BreakersSpec == BreakersInit /\ [][BreakersNext]_breakerVars

-----------------------------------------------------------------------------
(* Safety. *)

\* The types of the three operators; for the global aggregation also that has_data
\* tells which threads sunk rows, and that sums stay in their type.
BreakersTypeOK == TypeOK /\ Global!TypeOK /\ Order!TypeOK

\* A trim drops no row that could be in the result, as OrderBy states it, of the
\* rows of a table or of the groups.
DroppedAreCovered == Order!DroppedAreCovered

\* ORDER BY ... LIMIT ... OFFSET: the result is the window the limit and the offset
\* name (while numbers are in range), of the rows of the table or of the groups:
\* and these are one for each key of the aggregation's input, sorted by what the
\* aggregates of that key's rows are by definition.
ResultIsWindow ==
  /\ Order!ResultIsWindow
  /\ ordering /\ grouped =>
       /\ Order!Rows = DOMAIN result
       /\ {result[g].key : g \in Order!Rows} = KeysOf(DOMAIN input)
       /\ \A g \in Order!Rows :
            key[g] = SortKey(Reference(result[g].key, RowsOf(DOMAIN input)))
=============================================================================
