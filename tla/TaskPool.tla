------------------------------ MODULE TaskPool ------------------------------
(***************************************************************************)
(* What a caller of the thread pool may rely on, with no queue, no lock    *)
(* and no threads: a task that is handed over runs once and finishes, and  *)
(* the pool is only gone once every task handed over has finished.         *)
(* ThreadPool implements it.                                               *)
(***************************************************************************)
CONSTANT Task

VARIABLES
  enqueued,   \* tasks handed to the pool
  started,    \* tasks a thread has begun to run
  finished,   \* tasks that have returned
  closed      \* has the pool's destructor returned?

vars == <<enqueued, started, finished, closed>>

Init == /\ enqueued = {}
        /\ started = {}
        /\ finished = {}
        /\ closed = FALSE

Submit(t) == /\ ~closed
             /\ t \notin enqueued
             /\ enqueued' = enqueued \cup {t}
             /\ UNCHANGED <<started, finished, closed>>

Start(t) == /\ t \in enqueued \ started
            /\ started' = started \cup {t}
            /\ UNCHANGED <<enqueued, finished, closed>>

Finish(t) == /\ t \in started \ finished
             /\ finished' = finished \cup {t}
             /\ UNCHANGED <<enqueued, started, closed>>

Close == /\ ~closed
         /\ finished = enqueued
         /\ closed' = TRUE
         /\ UNCHANGED <<enqueued, started, finished>>

Next == Close \/ \E t \in Task : Submit(t) \/ Start(t) \/ Finish(t)

\* The safety part alone: what a step may do.
SafeSpec == Init /\ [][Next]_vars

\* Nothing obliges the caller to submit or to close.
Fairness == \A t \in Task : WF_vars(Start(t)) /\ WF_vars(Finish(t))

Spec == SafeSpec /\ Fairness
=============================================================================
