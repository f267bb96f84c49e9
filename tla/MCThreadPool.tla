---------------------------- MODULE MCThreadPool ----------------------------
(***************************************************************************)
(* ThreadPool for TLC.  Three workers and three tasks: more tasks than one *)
(* wakeup serves, sleepers left over, and two workers racing for one task. *)
(***************************************************************************)
EXTENDS ThreadPool

CONSTANTS w1, w2, w3, t1, t2, t3

MCWorkers == {w1, w2, w3}
MCTask    == {t1, t2, t3}
=============================================================================
