----------------------------- MODULE MCBreakers -----------------------------
(***************************************************************************)
(* Breakers for TLC, with three threads.  Aggregation: all inputs of four  *)
(* rows, over three keys and two values, in three batches, or none; sums   *)
(* that fit in -4..3, so that three rows of value 2 do not fit.  ORDER BY: *)
(* tables of five rows in three batches, with every assignment of sort     *)
(* columns that matters, and a trim factor of 2, so that trims happen,     *)
(* also twice in one thread; the groups, by maximum and descending count,  *)
(* with the limit 1, so that three groups are trimmed.  Sizes are below 16 *)
(* and indices below 8: a total of 8 rows is no uint32_t and its double no *)
(* size_t, so that every batch reaches the trim, which has to leave it.    *)
(***************************************************************************)
EXTENDS Breakers, TLC

CONSTANTS k1, k2, k3

Key == {k1, k2, k3}

\* A maximum of negative values differs from the default value 0.
Row == [key : Key, value : {-1, 2}]

MCInputs == {<< <<a, b>>, <<c>>, <<d>> >> : a, b, c, d \in Row} \cup {<<>>}

\* No definition prefers a key, and the set of inputs is closed under renaming.
Symmetry == Permutations(Key)

\* Rows of a batch are interchangeable, so their first columns may be taken in
\* ascending order.
MCTables ==
  {[batches |-> << {1, 2}, {3, 4}, {5} >>, key |-> k, window |-> w] :
     w \in {[limit |-> NoLimit, offset |-> 1], [limit |-> 0, offset |-> 1],
             [limit |-> 1, offset |-> 0], [limit |-> 1, offset |-> 1],
             [limit |-> 2, offset |-> 0], [limit |-> 7, offset |-> 1]},
     k \in {f \in [1..5 -> {<<1, 1>>, <<1, 2>>, <<2, 1>>}] :
              f[1][1] <= f[2][1] /\ f[3][1] <= f[4][1]}}

MCSortColumns == << [col |-> 1, desc |-> FALSE], [col |-> 2, desc |-> TRUE] >>

MCWindows == {[limit |-> 1, offset |-> 0]}

MCSortKey(state) == <<state.max, state.count>>
=============================================================================
