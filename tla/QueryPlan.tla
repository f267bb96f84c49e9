------------------------------ MODULE QueryPlan ------------------------------
(***************************************************************************)
(* What DataFrame::Collect promises of a plan without joins: the plan is a *)
(* chain of pipelines, and each one, as if in a single step, turns the     *)
(* rows of its source into rows its transforms may produce from them.      *)
(* QueryExecution implements it.                                           *)
(*                                                                         *)
(* A row stands for its identity: a projection keeps it, a filter keeps    *)
(* some rows and a limit keeps any n of them.                              *)
(***************************************************************************)
EXTENDS Naturals, Sequences, SequencesExt, FiniteSetsExt

CONSTANTS Transforms,   \* for each pipeline, the sequence of its transforms
          Table,        \* the rows of the scanned file, one sequence per chunk
          Unreadable    \* chunks whose read may fail

\* A transform is [kind |-> "map"], [kind |-> "filter", keep |-> set of rows]
\* or [kind |-> "limit", n |-> number].
Pipelines == DOMAIN Transforms

VARIABLES stage,   \* the pipeline to run next
          data,    \* the rows its source holds
          failed   \* has the query been given up?

vars == <<stage, data, failed>>

\* The sets of rows one transform may leave of the set S.
After(S, tr) ==
  CASE tr.kind = "filter" -> {S \cap tr.keep}
    [] tr.kind = "limit"  ->
         kSubset(IF tr.n < Cardinality(S) THEN tr.n ELSE Cardinality(S), S)
    [] OTHER              -> {S}

\* The sets of rows pipeline p may deliver when its source holds the set S.
Outcomes(p, S) ==
  LET sets[n \in 0..Len(Transforms[p])] ==
        IF n = 0 THEN {S} ELSE UNION {After(R, Transforms[p][n]) : R \in sets[n - 1]}
  IN sets[Len(Transforms[p])]

Init == /\ stage = 1
        /\ data = FlattenSeq(Table)
        /\ failed = FALSE

RunPipeline == /\ stage \in Pipelines
               /\ ~failed
               /\ \E S \in Outcomes(stage, ToSet(data)) : data' \in SetToSeqs(S)
               /\ stage' = stage + 1
               /\ UNCHANGED failed

GiveUp == /\ stage = 1
          /\ Unreadable # {}
          /\ failed' = TRUE
          /\ UNCHANGED <<stage, data>>

Next == RunPipeline \/ GiveUp

SafeSpec == Init /\ [][Next]_vars
Spec == SafeSpec /\ WF_vars(Next)
=============================================================================
