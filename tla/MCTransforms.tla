---------------------------- MODULE MCTransforms ----------------------------
(***************************************************************************)
(* Transforms for TLC: every plan of up to two nodes, and longer ones of a *)
(* part of the nodes, over a table with a column of each kind of type; and *)
(* the calendar as tables, read and shown, and truncated.                  *)
(***************************************************************************)
EXTENDS Transforms

MCPercent == 37
MCLimit == 64

MCHeader == <<[name |-> "t", type |-> "TIMESTAMP"], [name |-> "d", type |-> "DATE"],
              [name |-> "n", type |-> "INT16"],     [name |-> "s", type |-> "STRING"]>>

\* Texts of two letters: g and go have the o and the goo they are replaced by
\* behind them, and goo has nothing: side by side all three are the same.
g == 7
o == 15
Texts == {<<>>, <<g>>, <<g, o>>, <<g, o, o>>}
MCReplace == [v \in Texts |-> CASE v = <<g>> -> <<o, o>> [] v = <<g, o>> -> <<o>> [] OTHER -> <<>>]

MCRows == <<<<<<2013, 7, 15, 10, 59, 59>>, <<2013, 7, 1>>,    63, <<g, o>>>>,
            <<<<1969, 12, 30, 23, 30, 1>>, <<1999, 12, 31>>, -64, <<g, o, o>>>>,
            <<<<2012, 2, 29, 0, 0, 0>>,    <<2000, 2, 29>>,    3, <<g>>>>,
            <<<<2013, 7, 15, 10, 30, 0>>,  <<2013, 7, 1>>,     3, <<>>>>>>

Is(test, col, type, value) == [test |-> test, col |-> col, type |-> type, value |-> value]
Both(test, left, right)    == [test |-> test, left |-> left, right |-> right]

Positive   == Is(">", "n", "INT16", 3)
Small      == Is("<=", "n", "INT16", 3)
HasO       == Is("like", "s", "STRING", <<MCPercent, o, MCPercent>>)
HasGo      == Is("like", "s", "STRING", <<MCPercent, g, o, MCPercent>>)
HasNothing == Is("notlike", "s", "STRING", <<MCPercent, MCPercent>>)
July       == Is("=", "d", "INT32", <<2013, 7, 1>>)
LeapDay    == Is(">=", "d", "INT32", <<2000, 2, 29>>)
Seventies  == Is(">", "t", "INT64", <<1970, 1, 1, 0, 0, 0>>)
NotEmpty   == Is("<>", "s", "STRING", <<>>)
AboveG     == Is(">", "s", "STRING", <<g>>)

Conditions == {
  <<Positive>>, <<Small>>, <<HasO>>, <<HasNothing>>, <<LeapDay>>, <<AboveG>>,
  <<HasO, Small, Both("and", 1, 2)>>, <<Small, Positive, Both("or", 1, 2)>>,
  <<July, HasGo, Both("or", 1, 2)>>,
  <<Seventies, NotEmpty, Both("and", 1, 2), Is("notlike", "s", "STRING", <<MCPercent, o, MCPercent>>),
    Both("or", 3, 4)>>,
  <<Is("=", "n", "INT64", 3)>>, <<HasO, Is("<>", "d", "STRING", <<g>>), Both("or", 1, 2)>>,
  <<Is("=", "m", "INT32", 30)>>, <<Is(">=", "len", "INT64", 2)>>}

Fn(fn, col, name) == [fn |-> fn, col |-> col, name |-> name]
Trunc(unit, col, name) == [fn |-> "trunc", unit |-> unit, col |-> col, name |-> name]
Plus(col, value, name) == [fn |-> "plus", value |-> value, col |-> col, name |-> name]
Literal(type, value, name) ==
  [fn |-> "literal", type |-> type, value |-> value, col |-> "", name |-> name]
Case(type, cond, then, else, name) ==
  [fn |-> "case", type |-> type, cond |-> cond, then |-> then, else |-> else,
   col |-> "", name |-> name]
Column(col) == [kind |-> "column", col |-> col]
Value(v)    == [kind |-> "value", value |-> v]

Projections == {
  <<Fn("minute", "t", "m")>>, <<Trunc("MINUTE", "t", "u")>>, <<Trunc("MONTH", "t", "t")>>,
  <<Fn("length", "s", "len"), Plus("len", 1, "k")>>, <<Fn("replace", "s", "k")>>,
  <<Plus("n", 1, "k"), Plus("n", -1, "n")>>, <<Literal("INT16", 7, "k")>>,
  <<Case("STRING", <<Positive, HasO, Both("or", 1, 2)>>, Column("s"), Value(<<>>), "k")>>,
  <<Case("INT16", <<Small>>, Value(9), Column("n"), "k"), Fn("replace", "s", "r")>>,
  <<Case("STRING", <<Small>>, Value(<<>>), Column("n"), "k")>>,
  <<Trunc("DAY", "d", "k")>>, <<Trunc("WEEK", "t", "k")>>, <<Fn("length", "x", "k")>>,
  <<Fn("minute", "d", "m")>>, <<Plus("s", 1, "k")>>,
  <<Case("STRING", <<Is("=", "x", "INT16", 1)>>, Column("s"), Column("s"), "k")>>}

Filters  == [op : {"filter"}, cond : Conditions]
Projects == [op : {"project"}, exprs : Projections]
Picks    == [op : {"drop"}, columns : {{"t"}, {"n", "k"}, {"t", "d", "n", "s"}}]
              \cup [op : {"reorder"}, order : {<<"s", "n">>, <<"k", "d", "k">>, <<>>}]
Limits   == [op : {"limit"}, n : {0, 1, 2, 4, 5}]

Nodes == Filters \cup Projects \cup Picks

\* Filters that leave the first, second and fourth row, and the last three.
ThreeRows == {[op |-> "filter", cond |-> <<c>>] :
                c \in {Is("<>", "s", "STRING", <<g>>), Is("<=", "n", "INT16", 3)}}

\* The nodes behind a limit in its pipeline would be left out.
MCPlans ==
  {<<>>} \cup {<<a>> : a \in Nodes \cup Limits}
         \cup {<<a, b>> : a \in Nodes, b \in Nodes \cup Limits}
         \cup {<<a, b, c>> : a \in ThreeRows, b \in Projects, c \in Limits \cup Picks}

\* Rows without a column: what a scan for COUNT(*) gives.
NoColumns == {[header |-> <<>>, rows |-> <<<<>>, <<>>>>, plan |-> p] :
                p \in {<<>>, <<[op |-> "project", exprs |-> <<Literal("INT16", 1, "k")>>],
                               [op |-> "filter", cond |-> <<Is("=", "k", "INT16", 1)>>]>>}}

\* The first and the last day of every month of some years: those with which
\* centuries and eras begin and end, and those a time of 32 bits reaches.
Edges(years) ==
  [i \in 1..(24 * Len(years)) |->
     LET y == years[(i - 1) \div 24 + 1]
         m == (((i - 1) \div 2) % 12) + 1
     IN <<y, m, IF i % 2 = 1 THEN 1 ELSE MonthLength(y, m)>>]

EraYears  == <<0, 1, 4, 99, 100, 399, 400, 401, 1600, 1899, 1900, 2100, 2400, 9999>>
TimeYears == <<1902, 1904, 1968, 1969, 1970, 1971, 1999, 2000, 2001, 2037>>
Clocks    == <<<<0, 0, 0>>, <<10, 30, 59>>, <<23, 59, 59>>>>

AsRows(values) == [i \in DOMAIN values |-> <<values[i]>>]

DateTable == [header |-> <<[name |-> "d", type |-> "DATE"]>>,
              rows |-> AsRows(Edges(EraYears \o TimeYears)), plan |-> <<>>]

\* The times at which DATE_TRUNC is right: to MONTH, before 1970 only at midnight
\* or in front of the last day of a month, where it takes the day behind.
Right(unit, time) ==
  unit = "MONTH" /\ time[1] < 1970 =>
    SubSeq(time, 4, 6) = <<0, 0, 0>> \/ time[3] < 28

TimeTable(unit) ==
  LET times == [i \in DOMAIN Edges(TimeYears) |-> Edges(TimeYears)[i] \o Clocks[(i % 3) + 1]]
  IN [header |-> <<[name |-> "t", type |-> "TIMESTAMP"]>>,
      rows   |-> AsRows(SelectSeq(times, LAMBDA time : Right(unit, time))),
      plan   |-> <<[op |-> "project",
                    exprs |-> <<Trunc(unit, "t", "u"), Fn("minute", "t", "m")>>]>>]

MCQueries == {[header |-> MCHeader, rows |-> MCRows, plan |-> p] : p \in MCPlans}
               \cup {[header |-> MCHeader, rows |-> <<>>, plan |-> <<a>>] : a \in Nodes}
               \cup NoColumns
               \cup {DateTable} \cup {TimeTable(unit) : unit \in Units \ {"YEAR"}}

\* A time truncated to a unit, alone.
MCTruncations ==
  {[header |-> <<[name |-> "t", type |-> "TIMESTAMP"]>>, rows |-> <<<<time>>>>,
    plan   |-> <<[op |-> "project", exprs |-> <<Trunc(unit, "t", "u")>>]>>] :
     unit \in Units,
     time \in {<<2013, 7, 15, 10, 59, 59>>, <<2013, 1, 1, 0, 0, 0>>, <<2000, 2, 29, 23, 59, 59>>,
               <<1970, 1, 1, 0, 0, 1>>, <<2037, 12, 31, 0, 30, 0>>}}
=============================================================================
