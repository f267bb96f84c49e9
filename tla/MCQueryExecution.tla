-------------------------- MODULE MCQueryExecution --------------------------
(***************************************************************************)
(* QueryExecution for TLC: two threads, a file of three chunks, and plans  *)
(* of two pipelines.                                                       *)
(***************************************************************************)
EXTENDS QueryExecution

\* Chunks of different sizes, so that a limit falls inside one and between two.
MCTable == << <<1, 2>>, <<3, 4>>, <<5>> >>

Filter(rows) == [kind |-> "filter", keep |-> rows]
Limit(n)     == [kind |-> "limit", n |-> n]
Map          == [kind |-> "map"]

\* Filter(...).Limit(3), a breaker, then a projection and Limit(2).  The limit
\* is last in each pipeline, as in the queries of main.cpp.
LimitLast == << <<Filter({1, 3, 4, 5}), Limit(3)>>, <<Map, Limit(2)>> >>
=============================================================================
