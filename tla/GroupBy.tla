------------------------------- MODULE GroupBy -------------------------------
(***************************************************************************)
(* GroupBySinkSourceOperator and the grouped aggregation functions.  Each  *)
(* thread keeps a hash table from group keys to group ids, one column      *)
(* builder with the key of each id, and one aggregation state per id in    *)
(* each function.  Finalize merges the other threads into the first, one   *)
(* hash table entry after the other, in the order the table yields them.   *)
(*                                                                         *)
(* Threads touch only their own state in Sink, and QueryExecution shows    *)
(* that Finalize runs after the last Sink, so a Sink is one action here.   *)
(* Thread ids and group ids start at 1 instead of 0.                       *)
(*                                                                         *)
(* A row is [key |-> k, value |-> v].  The composite byte string that      *)
(* HashKeys builds determines the key, so the key stands for it.           *)
(***************************************************************************)
EXTENDS Integers, Sequences, FiniteSets, SequencesExt

CONSTANTS NumThreads,   \* thread_states_.size()
          Inputs,       \* the inputs considered: each a sequence of batches
          SumLimit      \* sums are kept in -SumLimit .. SumLimit - 1

ThreadIds == 1..NumThreads

\* There is a thread; a batch is a sequence of rows, whose values fit the type of
\* their sum.
GroupConstants ==
  /\ {NumThreads, SumLimit} \subseteq Nat \ {0}
  /\ \A batches \in Inputs : \A b \in DOMAIN batches :
       /\ batches[b] \in Seq(Range(batches[b]))
       /\ \A row \in Range(batches[b]) : row.value \in (-SumLimit)..(SumLimit - 1)

ASSUME GroupAssumption == GroupConstants

VARIABLES
  input,       \* the batches the pipeline delivers
  todo,        \* those not sunk yet
  table,       \* per thread, hash_table
  numGroups,   \* per thread, num_groups
  keys,        \* per thread, key_builders
  states,      \* per thread, the states in the aggregation functions
  from,        \* Finalize: the thread being merged (0 before Finalize)
  left,        \* Finalize: the entries of its hash table not visited yet
  result       \* the rows of result_batch_, or <<>>

vars == <<input, todo, table, numGroups, keys, states, from, left, result>>

\* What the functions keep for one group: MAX has has_data and a value, SUM and
\* AVG a sum and a count (COUNT the count alone), COUNT DISTINCT a set.
Fresh == [has |-> FALSE, max |-> 0, sum |-> 0, count |-> 0, seen |-> {}]

\* A sum in the type of the state, twice as wide as its column.
WrapSum(x) == ((x + SumLimit) % (2 * SumLimit)) - SumLimit

\* Update with one value.
Add(s, v) == [has   |-> TRUE,
              max   |-> IF s.has /\ s.max > v THEN s.max ELSE v,
              sum   |-> WrapSum(s.sum + v),
              count |-> s.count + 1,
              seen  |-> s.seen \cup {v}]

-----------------------------------------------------------------------------
(* Seeded bugs: each, put in the place of a definition below, is what shows  *)
(* that a property of this module can fail.                                  *)

\* Row i of the batch updates group i (for AddRows).
AddRowsInPlace(ss, b, tab) ==
  [g \in DOMAIN ss |-> IF g \in DOMAIN b THEN Add(ss[g], b[g].value) ELSE ss[g]]

\* The id the group had in its own thread (for GlobalId).
LocalId(k) == table[from][k]

\* The key of the thread's newest group (for SourceKey).
KeyAtTarget(k) == keys[from][Len(keys[from])]

\* The id is incremented before it is used (for GlobalId).
PreIncremented(k) == IF k \in DOMAIN table[1] THEN table[1][k] ELSE numGroups[1] + 2

-----------------------------------------------------------------------------
\* CombineState of the source s into the global state g.
Combine(g, s) == [has   |-> g.has \/ s.has,
                  max   |-> IF ~s.has \/ (g.has /\ g.max > s.max)
                              THEN g.max ELSE s.max,
                  sum   |-> WrapSum(g.sum + s.sum),
                  count |-> g.count + s.count,
                  seen  |-> g.seen \cup s.seen]

\* Resize to n groups.
Resize(ss, n) == [g \in 1..n |-> IF g \in DOMAIN ss THEN ss[g] ELSE Fresh]

None == [k \in {} |-> 0]

Init == /\ input \in Inputs
        /\ todo = DOMAIN input
        /\ table = [t \in ThreadIds |-> None]
        /\ numGroups = [t \in ThreadIds |-> 0]
        /\ keys = [t \in ThreadIds |-> <<>>]
        /\ states = [t \in ThreadIds |-> <<>>]
        /\ from = 0
        /\ left = {}
        /\ result = <<>>

-----------------------------------------------------------------------------
\* The keys of batch b that the table tab lacks, in order of first appearance (the
\* one sequence in the set).
NewKeys(b, tab) ==
  LET first(k) == Min({i \in DOMAIN b : b[i].key = k})
  IN {new \in SetToSeqs({b[i].key : i \in DOMAIN b} \ DOMAIN tab) :
        \A i, j \in DOMAIN new : i < j => first(new[i]) < first(new[j])}

\* Update of every function with a batch whose row i belongs to group tab[key].
AddRows(ss, b, tab) ==
  LET after[i \in 0..Len(b)] ==
        IF i = 0 THEN ss
        ELSE [after[i - 1] EXCEPT ![tab[b[i].key]] = Add(@, b[i].value)]
  IN after[Len(b)]

Sink(t) == \E b \in todo : \E new \in NewKeys(input[b], table[t]) :
  LET n == numGroups[t] + Len(new)
      tab == [k \in DOMAIN table[t] \cup ToSet(new) |->
                IF k \in DOMAIN table[t] THEN table[t][k]
                ELSE numGroups[t] + CHOOSE i \in DOMAIN new : new[i] = k]
  IN /\ from = 0
     /\ todo' = todo \ {b}
     /\ table' = [table EXCEPT ![t] = tab]
     /\ numGroups' = [numGroups EXCEPT ![t] = n]
     /\ keys' = [keys EXCEPT ![t] = @ \o new]
     /\ states' = [states EXCEPT ![t] = AddRows(Resize(@, n), input[b], tab)]
     /\ UNCHANGED <<input, from, left, result>>

\* Finalize visits thread f next, or builds the result after the last one.
Visit(f) == /\ from' = f
            /\ left' = IF f \in ThreadIds /\ numGroups[f] > 0 THEN DOMAIN table[f] ELSE {}
            /\ result' = IF f \in ThreadIds THEN <<>>
                         ELSE [g \in 1..numGroups[1] |->
                                 [key |-> keys[1][g], state |-> states[1][g]]]

\* Finalize begins; the first thread is the target of the merge.
StartFinalize == /\ from = 0
                 /\ todo = {}
                 /\ Visit(2)
                 /\ UNCHANGED <<input, todo, table, numGroups, keys, states>>

\* The id of key k in the first thread, old or new.
GlobalId(k) == IF k \in DOMAIN table[1] THEN table[1][k] ELSE numGroups[1] + 1

\* The key CopySelection copies for the entry of key k.
SourceKey(k) == keys[from][table[from][k]]

\* One turn of Finalize's inner loop.
MergeEntry(k) ==
  LET gid == GlobalId(k)
      isNew == k \notin DOMAIN table[1]
      n == IF isNew THEN numGroups[1] + 1 ELSE numGroups[1]
  IN /\ k \in left
     /\ left' = left \ {k}
     /\ table' = IF isNew
                   THEN [table EXCEPT ![1] = [q \in DOMAIN @ \cup {k} |->
                                                IF q = k THEN gid ELSE @[q]]]
                   ELSE table
     /\ numGroups' = [numGroups EXCEPT ![1] = n]
     /\ keys' = IF isNew THEN [keys EXCEPT ![1] = Append(@, SourceKey(k))] ELSE keys
     /\ states' = [states EXCEPT ![1] =
                     [Resize(states[1], n) EXCEPT
                        ![gid] = Combine(@, states[from][table[from][k]])]]
     /\ UNCHANGED <<input, todo, from, result>>

\* hash_table.clear(), and on to the next thread.
NextThread == /\ from \in ThreadIds
              /\ left = {}
              /\ table' = [table EXCEPT ![from] = None]
              /\ Visit(from + 1)
              /\ UNCHANGED <<input, todo, numGroups, keys, states>>

Finished == from > NumThreads

Next == \/ \E t \in ThreadIds : Sink(t)
        \/ StartFinalize
        \/ \E k \in left : MergeEntry(k)
        \/ NextThread
        \/ Finished /\ UNCHANGED vars

Spec == Init /\ [][Next]_vars

-----------------------------------------------------------------------------
(* Safety. *)

\* The rows of some batches, each by its place, and their keys.
RowsOf(batches) == UNION {{b} \X DOMAIN input[b] : b \in batches}
RowAt(p)        == input[p[1]][p[2]]
KeysOf(batches) == {RowAt(p).key : p \in RowsOf(batches)}

\* What the functions should hold for key k after some rows, by definition: of a
\* sum that does not fit its type, what it is modulo the width.
Reference(k, rows) ==
  LET mine == {p \in rows : RowAt(p).key = k}
      vals == {RowAt(p).value : p \in mine}
  IN [has   |-> mine # {},
      max   |-> IF mine = {} THEN 0 ELSE Max(vals),
      sum   |-> WrapSum(SumFunction([p \in mine |-> RowAt(p).value])),
      count |-> Cardinality(mine),
      seen  |-> vals]

\* Every variable has the type the code gives it.
TypeOK == /\ todo \subseteq DOMAIN input
          /\ \A t \in ThreadIds :
               /\ numGroups[t] \in Nat
               /\ DOMAIN table[t] \subseteq KeysOf(DOMAIN input)
               /\ \A k \in DOMAIN table[t] : table[t][k] \in 1..numGroups[t]
               /\ keys[t] \in Seq(KeysOf(DOMAIN input))
          /\ from \in 0..(NumThreads + 1)
          /\ left \subseteq KeysOf(DOMAIN input)

\* The hash table, the key builders and the functions' vectors, which are grown
\* at different places, agree on the groups: the id of a key is the position
\* of that key, and every id has a state.
Aligned ==
  \A t \in ThreadIds :
    /\ Len(keys[t]) = numGroups[t]
    /\ Len(states[t]) = numGroups[t]
    /\ \A k \in DOMAIN table[t] : keys[t][table[t][k]] = k
    /\ IsInjective(keys[t])

\* The threads whose tables Finalize has yet to merge, and the entries of the
\* one it is merging: together with the first thread they always account for
\* exactly the rows sunk so far, group by group.  So Finalize neither loses a
\* group's share nor counts it twice, in whatever order the tables yield it.
MergeConserves ==
  \A k \in KeysOf(DOMAIN input \ todo) :
    LET waits(t) == /\ k \in DOMAIN table[t]
                    /\ \/ t = 1 \/ from = 0 \/ t > from \/ (t = from /\ k \in left)
        upTo[t \in 0..NumThreads] ==
          IF t = 0 THEN Fresh
          ELSE IF waits(t) THEN Combine(upTo[t - 1], states[t][table[t][k]])
          ELSE upTo[t - 1]
    IN upTo[NumThreads] = Reference(k, RowsOf(DOMAIN input \ todo))

\* GROUP BY: the result has one row for each key of the input, with the value
\* of each aggregate over the rows of that key.
ResultIsGrouping ==
  Finished =>
    /\ {result[i].key : i \in DOMAIN result} = KeysOf(DOMAIN input)
    /\ Len(result) = Cardinality(KeysOf(DOMAIN input))
    /\ \A i \in DOMAIN result :
         result[i].state = Reference(result[i].key, RowsOf(DOMAIN input))
=============================================================================
