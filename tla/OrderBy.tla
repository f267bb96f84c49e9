------------------------------- MODULE OrderBy -------------------------------
(***************************************************************************)
(* OrderBySinkSourceOperator: ORDER BY with an optional limit and offset.  *)
(* With a limit, a thread that has accumulated more than ten times the     *)
(* rows that can matter keeps only the smallest of them.  Finalize puts    *)
(* the threads' rows together, sorts as many as the limit asks for, and    *)
(* skips the offset.                                                       *)
(*                                                                         *)
(* Threads touch only their own state in Sink, and QueryExecution shows    *)
(* that Finalize runs after the last Sink.  No sort the code uses is       *)
(* stable, so what a thread has accumulated is a set of rows: the order    *)
(* of rows that compare equal is any.  Rows are counted in size_t, but     *)
(* compared and cut by uint32_t.                                           *)
(***************************************************************************)
EXTENDS Naturals, Sequences, FiniteSets, SequencesExt, FiniteSetsExt

CONSTANTS NumThreads,    \* thread_states_.size()
          Tables,        \* the inputs considered: [batches, key, window]
          SortColumns,   \* sort_columns_: a sequence of [col, desc]
          NoLimit,       \* limit of a window [limit, offset] without one
          TrimFactor,    \* the constant 10 in Sink
          SizeLimit,     \* 2^64: sizes and sums of them are below
          IndexLimit     \* 2^32: the indices cmp takes, and lim, are below

ThreadIds == 1..NumThreads

VARIABLES
  batches,  \* the batches the pipeline delivers: a sequence of sets of rows
  key,      \* the sort columns of every row
  limit,    \* limit_
  offset,   \* offset_
  todo,     \* the batches not sunk yet
  acc,      \* per thread, the rows in column_builders
  dropped,  \* history: per thread, the rows TrimLocalBatch has cut off
  done,     \* has Finalize run?
  result    \* the rows of result_batch_

vars == <<batches, key, limit, offset, todo, acc, dropped, done, result>>

Rows == UNION Range(batches)

\* total_limit_, a size_t, and lim, which it is narrowed to.
HasTotal == limit # NoLimit
Total    == (limit + offset) % SizeLimit
Lim      == Total % IndexLimit

\* cmp: compare the first sort column in which the rows differ.
Less(r, q) ==
  LET differ == {i \in DOMAIN SortColumns :
                   key[r][SortColumns[i].col] # key[q][SortColumns[i].col]}
      first  == SortColumns[Min(differ)]
  IN /\ differ # {}
     /\ IF first.desc THEN key[r][first.col] > key[q][first.col]
                      ELSE key[r][first.col] < key[q][first.col]

\* The row that cmp reads for each row of S: another one for the rows whose
\* indices do not fit, one at an index that does.
Readings(S) ==
  IF Cardinality(S) <= IndexLimit THEN {[r \in S |-> r]}
  ELSE {read \in [S -> S] : \E fit \in kSubset(IndexLimit, S) :
          \A r \in S : read[r] \in fit /\ (r \in fit => read[r] = r)}

\* The sets of n rows nth_element or partial_sort may move to the front.
Smallest(n, S, read) ==
  {T \in kSubset(n, S) : \A r \in T, q \in S \ T : ~Less(read[q], read[r])}

\* The orders in which a sort may put S.
Sorts(S, read) ==
  {s \in SetToSeqs(S) : \A i, j \in DOMAIN s : i < j => ~Less(read[s[j]], read[s[i]])}

Init == /\ \E t \in Tables : /\ batches = t.batches
                           /\ key = t.key
                           /\ limit = t.window.limit
                           /\ offset = t.window.offset
        /\ todo = DOMAIN batches
        /\ acc = [t \in ThreadIds |-> {}]
        /\ dropped = [t \in ThreadIds |-> {}]
        /\ done = FALSE
        /\ result = <<>>

\* The operator that the next pipeline sinks the batches bs into.
Open(bs, k, window) ==
  /\ batches' = bs
  /\ key' = k
  /\ limit' = window.limit
  /\ offset' = window.offset
  /\ todo' = DOMAIN bs
  /\ UNCHANGED <<acc, dropped, done, result>>

-----------------------------------------------------------------------------
(* Seeded bugs: each, put in the place of a definition below, is what shows *)
(* that a property of this module can fail.                                 *)

\* The trim forgets that the offset is skipped later (for Keep).
KeepLimitOnly(S) ==
  IF Cardinality(S) > Total THEN UNION {Smallest(limit, S, read) : read \in Readings(S)} ELSE {S}

\* An offset beyond the last row is ignored (for SkipOffset).
SkipIfThere(s) == IF offset >= Len(s) THEN s ELSE SubSeq(s, offset + 1, Len(s))

-----------------------------------------------------------------------------
\* What TrimLocalBatch may leave of a thread's rows S.
Keep(S) ==
  IF Cardinality(S) > Total THEN UNION {Smallest(Lim, S, read) : read \in Readings(S)} ELSE {S}

\* The number of rows above which Sink calls it, a size_t too.
TrimAbove == (Total * TrimFactor) % SizeLimit

\* The rows thread t holds after the appends of Sink.
Gathered(t, b) == acc[t] \cup batches[b]

\* Sink, with TrimLocalBatch when the thread holds too much.
Sink(t) == \E b \in todo :
  LET all == Gathered(t, b)
  IN /\ ~done
     /\ todo' = todo \ {b}
     /\ IF HasTotal /\ Cardinality(all) > TrimAbove
          THEN \E kept \in Keep(all) : /\ acc' = [acc EXCEPT ![t] = kept]
                                       /\ dropped' = [dropped EXCEPT ![t] = @ \cup (all \ kept)]
          ELSE /\ acc' = [acc EXCEPT ![t] = all]
               /\ UNCHANGED dropped
     /\ UNCHANGED <<batches, key, limit, offset, done, result>>

\* The offset is cut off the sorted rows.
SkipOffset(s) == IF offset >= Len(s) THEN <<>> ELSE SubSeq(s, offset + 1, Len(s))

Finalize ==
  LET all == UNION {acc[t] : t \in ThreadIds}
  IN /\ ~done
     /\ todo = {}
     /\ done' = TRUE
     /\ \E read \in Readings(all) :
          \E kept \in IF HasTotal /\ Cardinality(all) > Total
                        THEN Smallest(Lim, all, read) ELSE {all} :
            \E s \in Sorts(kept, read) : result' = SkipOffset(s)
     /\ UNCHANGED <<batches, key, limit, offset, todo, acc, dropped>>

Next == \/ \E t \in ThreadIds : Sink(t)
        \/ Finalize
        \/ done /\ UNCHANGED vars

Spec == Init /\ [][Next]_vars

-----------------------------------------------------------------------------
(* Safety. *)

\* Every variable has the type the code gives it.
TypeOK == /\ todo \subseteq DOMAIN batches
          /\ acc \in [ThreadIds -> SUBSET Rows]
          /\ dropped \in [ThreadIds -> SUBSET Rows]
          /\ done \in BOOLEAN
          /\ result \in Seq(Rows)

\* No number wraps around where rows are counted: the sum of limit and offset is
\* a size_t, and uint32_t indexes the rows.
InRange == /\ HasTotal => limit + offset < SizeLimit
           /\ Cardinality(Rows) <= IndexLimit

\* The trim is sound, while the numbers are in range, with totals that lim cannot
\* hold or that wrap around when Sink multiplies them: for every row a thread has
\* dropped, however long ago, it still holds limit + offset rows none of which
\* belongs after it.  So no dropped row can be missing from the result.
DroppedAreCovered ==
  InRange => \A t \in ThreadIds : \A r \in dropped[t] :
               Cardinality({q \in acc[t] : ~Less(r, q)}) >= limit + offset

\* The rows at positions offset + 1 to offset + limit of the input in some
\* order the sort columns allow.
IsWindow(s, S) ==
  /\ ToSet(s) \subseteq S
  /\ IsInjective(s)
  /\ LET rest == IF Cardinality(S) > offset THEN Cardinality(S) - offset ELSE 0
     IN Len(s) = IF HasTotal /\ limit < rest THEN limit ELSE rest
  /\ \A i \in DOMAIN s :
       /\ Cardinality({r \in S : Less(r, s[i])}) < offset + i
       /\ Cardinality({r \in S : ~Less(s[i], r)}) >= offset + i
       /\ \A j \in 1..(i - 1) : ~Less(s[i], s[j])

\* ORDER BY ... LIMIT ... OFFSET: while the numbers are in range, the result is the
\* window of all rows that the limit and the offset name.
ResultIsWindow == done /\ InRange => IsWindow(result, Rows)
=============================================================================
