------------------------------ MODULE MCPlanner ------------------------------
(***************************************************************************)
(* Planner for TLC: a table with the columns 2 and 4, and plans of up to   *)
(* three nodes over any scan of it, with a projection or an aggregation    *)
(* that makes the columns 1 and 3, which sort in front of and between the  *)
(* table's; and longer plans of the forms main.cpp has.                    *)
(***************************************************************************)
EXTENDS Planner

MCTable == <<4, 2>>

Expr(reads, output) == [reads |-> reads, output |-> output]

Scans == [kind : {"scan"}, columns : {Star, <<>>, <<2>>, <<2, 4>>}]

Unary == [kind : {"filter"}, reads : {<<2>>, <<3>>, <<4, 1>>}]
           \cup [kind : {"orderby"}, by : {<<2>>, <<3, 4>>}]
           \cup [kind : {"limit"}]
           \cup [kind : {"scalar"}, exprs : {<<Expr(<<>>, 1)>>, <<Expr(<<2>>, 3)>>,
                                             <<Expr(<<2>>, 1), Expr(<<1>>, 3)>>,
                                             <<Expr(<<4>>, 2)>>}]
           \cup [kind : {"drop"}, columns : {<<2>>, <<1, 4>>}]
           \cup [kind : {"reorder"}, order : {<<3, 2>>, <<2>>}]
           \cup [kind : {"aggregate"}, by : {<<>>, <<2>>}, exprs : {<<Expr(<<4>>, 3)>>}]
           \cup [kind : {"aggregate"}, by : {<<4, 1>>}, exprs : {<<Expr(<<>>, 3)>>}]

PlansOf(n) == {p \in [1..(n + 1) -> Scans \cup Unary] :
                 (\A i \in DOMAIN p : p[i].kind = "scan" <=> i = 1) /\ LimitsLast(p)}

\* Select, Filter, Project, Aggregate, OrderBy, Project, Reorder.
Long == <<[kind |-> "scan", columns |-> <<>>],
          [kind |-> "filter", reads |-> <<4>>],
          [kind |-> "scalar", exprs |-> <<Expr(<<2>>, 1)>>],
          [kind |-> "aggregate", by |-> <<1, 2>>, exprs |-> <<Expr(<<4>>, 3)>>],
          [kind |-> "orderby", by |-> <<3>>],
          [kind |-> "scalar", exprs |-> <<Expr(<<1>>, 5)>>],
          [kind |-> "reorder", order |-> <<5, 3, 1>>]>>

MCPlans == UNION {PlansOf(n) : n \in 0..3} \cup {Long}

\* Query35 of main.cpp.
MCQuery35 == {<<[kind |-> "scan", columns |-> <<2>>],
                [kind |-> "aggregate", by |-> <<2>>, exprs |-> <<Expr(<<>>, 3)>>],
                [kind |-> "orderby", by |-> <<3>>],
                [kind |-> "scalar", exprs |-> <<Expr(<<2>>, 5), Expr(<<2>>, 6)>>],
                [kind |-> "reorder", order |-> <<2, 5, 6, 3>>]>>}
=============================================================================
