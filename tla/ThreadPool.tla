----------------------------- MODULE ThreadPool -----------------------------
(***************************************************************************)
(* utils/ThreadPool.h in the multithreaded build: workers that wait on a   *)
(* condition variable and pop the newest task, Enqueue that pushes under   *)
(* queue_mutex_ and notifies after releasing it, and a destructor that     *)
(* raises stop_, notifies everybody and joins.                             *)
(*                                                                         *)
(* A critical section of queue_mutex_ is one action.  What happens outside *)
(* the mutex (the two notifications, the joins, the task itself) is        *)
(* separate from it, so everything may happen in between.  One thread owns *)
(* the pool and calls its methods, as DataFrame::Collect does.             *)
(***************************************************************************)
EXTENDS Naturals, Sequences, FiniteSets

CONSTANTS Workers,   \* the threads the constructor starts
          Task,      \* the closures the owner may enqueue
          NoTask     \* a worker that holds no closure

\* The constructor starts some threads; NoTask is no closure.
PoolConstants == /\ IsFiniteSet(Workers)
                 /\ Workers # {}
                 /\ NoTask \notin Task

ASSUME PoolAssumption == PoolConstants

VARIABLES
  tasks,      \* tasks_, the newest at the end
  stop,       \* stop_
  owner,      \* where the owning thread is inside the pool's methods
  at,         \* where each worker is
  job,        \* the closure each worker has popped
  enqueued,   \* history: the tasks pushed so far
  finished    \* history: the tasks that have returned

vars == <<tasks, stop, owner, at, job, enqueued, finished>>

OwnerPlace == {"idle",        \* outside the pool
               "notifyOne",   \* pushed a task, has not notified yet
               "notifyAll",   \* raised stop_, has not notified yet
               "joining",     \* in the loop of joins
               "gone"}        \* the destructor has returned

WorkerPlace == {"check",      \* about to evaluate the predicate under the lock
                "asleep",     \* waiting on condition_
                "running",    \* in task()
                "exited"}

WorkersAt(place) == {w \in Workers : at[w] = place}
Queued           == {tasks[i] : i \in DOMAIN tasks}
Held             == {job[w] : w \in WorkersAt("running")}

\* Every variable keeps the type of the field or the place it models.
TypeOK == /\ tasks \in Seq(Task)
          /\ stop \in BOOLEAN
          /\ owner \in OwnerPlace
          /\ at \in [Workers -> WorkerPlace]
          /\ job \in [Workers -> Task \cup {NoTask}]
          /\ enqueued \subseteq Task
          /\ finished \subseteq Task

Init == /\ tasks = <<>>
        /\ stop = FALSE
        /\ owner = "idle"
        /\ at = [w \in Workers |-> "check"]
        /\ job = [w \in Workers |-> NoTask]
        /\ enqueued = {}
        /\ finished = {}

\* What condition_.notify_one() does: wake one sleeper, if there is any.
WakeOne ==
  IF WorkersAt("asleep") = {}
    THEN at' = at
    ELSE \E w \in WorkersAt("asleep") : at' = [at EXCEPT ![w] = "check"]

-----------------------------------------------------------------------------
(* Seeded bugs: each, put in the place of a definition below, is what shows *)
(* that a property of this module can fail.                                 *)

\* Enqueue notifies only when the queue was empty (for NotifyOne).
NotifyOneIfFirst == /\ owner = "notifyOne"
                    /\ owner' = "idle"
                    /\ IF Len(tasks) = 1 THEN WakeOne ELSE at' = at
                    /\ UNCHANGED <<tasks, stop, job, enqueued, finished>>

\* The destructor notifies one worker (for NotifyAll).
NotifyJustOne == /\ owner = "notifyAll"
                 /\ owner' = "joining"
                 /\ WakeOne
                 /\ UNCHANGED <<tasks, stop, job, enqueued, finished>>

\* The wait ignores stop_ (for WakeUp).
WakeUpForTask == tasks # <<>>

\* A worker leaves as soon as it sees stop_ (for Drained).
StopSeen == stop

\* The newest task is run, the oldest removed (for PopBack).
PopFront == Tail(tasks)

\* The newest task is moved out and not removed (for PopBack).
MovedNotPopped == [tasks EXCEPT ![Len(tasks)] = NoTask]

-----------------------------------------------------------------------------
(* The owning thread. *)

\* The push of Enqueue, under the lock.  A closure is moved in, so each value
\* of Task is pushed at most once.
Enqueue(t) == /\ owner = "idle"
              /\ t \in Task \ enqueued
              /\ tasks' = Append(tasks, t)
              /\ enqueued' = enqueued \cup {t}
              /\ owner' = "notifyOne"
              /\ UNCHANGED <<stop, at, job, finished>>

\* The notification of Enqueue, after the unlock.
NotifyOne == /\ owner = "notifyOne"
             /\ owner' = "idle"
             /\ WakeOne
             /\ UNCHANGED <<tasks, stop, job, enqueued, finished>>

\* ~ThreadPool raises stop_ under the lock.
Destroy == /\ owner = "idle"
           /\ stop' = TRUE
           /\ owner' = "notifyAll"
           /\ UNCHANGED <<tasks, at, job, enqueued, finished>>

\* condition_.notify_all(), after the unlock.
NotifyAll == /\ owner = "notifyAll"
             /\ at' = [w \in Workers |->
                         IF at[w] = "asleep" THEN "check" ELSE at[w]]
             /\ owner' = "joining"
             /\ UNCHANGED <<tasks, stop, job, enqueued, finished>>

\* The joins return one by one; the destructor returns after the last.
Join == /\ owner = "joining"
        /\ \A w \in Workers : at[w] = "exited"
        /\ owner' = "gone"
        /\ UNCHANGED <<tasks, stop, at, job, enqueued, finished>>

-----------------------------------------------------------------------------
(* A worker. *)

\* The predicate of condition_.wait().
WakeUp == stop \/ tasks # <<>>

\* The condition for leaving the worker's loop.
Drained == stop /\ tasks = <<>>

\* tasks_.pop_back()
PopBack == SubSeq(tasks, 1, Len(tasks) - 1)

\* There is a task: leave wait() and pop the newest.
Take(w) == /\ at[w] = "check"
           /\ tasks # <<>>
           /\ job' = [job EXCEPT ![w] = tasks[Len(tasks)]]
           /\ tasks' = PopBack
           /\ at' = [at EXCEPT ![w] = "running"]
           /\ UNCHANGED <<stop, owner, enqueued, finished>>

\* The predicate does not hold: release the lock and sleep, in one step.
Sleep(w) == /\ at[w] = "check"
            /\ ~WakeUp
            /\ at' = [at EXCEPT ![w] = "asleep"]
            /\ UNCHANGED <<tasks, stop, owner, job, enqueued, finished>>

\* Stopped and drained: leave the worker's loop.
Exit(w) == /\ at[w] = "check"
           /\ Drained
           /\ at' = [at EXCEPT ![w] = "exited"]
           /\ UNCHANGED <<tasks, stop, owner, job, enqueued, finished>>

\* A condition variable may wake a thread that nobody notified.
SpuriousWake(w) == /\ at[w] = "asleep"
                   /\ at' = [at EXCEPT ![w] = "check"]
                   /\ UNCHANGED <<tasks, stop, owner, job, enqueued, finished>>

\* task() returns; the worker goes back to the top of its loop.
Return(w) == /\ at[w] = "running"
             /\ finished' = finished \cup {job[w]}
             /\ job' = [job EXCEPT ![w] = NoTask]
             /\ at' = [at EXCEPT ![w] = "check"]
             /\ UNCHANGED <<tasks, stop, owner, enqueued>>

-----------------------------------------------------------------------------
\* The steps of Next that need no decision of the owner and no task to return.
Loop(w) == Take(w) \/ Sleep(w) \/ Exit(w)
OwnerMove == NotifyOne \/ NotifyAll \/ Join

\* The pool is gone: nothing is left to happen.
Gone == owner = "gone" /\ UNCHANGED vars

Next == \/ \E t \in Task : Enqueue(t)
        \/ Destroy
        \/ OwnerMove
        \/ \E w \in Workers : Loop(w) \/ SpuriousWake(w) \/ Return(w)
        \/ Gone

\* The scheduler runs every thread, a task returns, and the owner leaves the
\* method it is in.  Nobody has to call Enqueue or the destructor, and nobody
\* may count on a spurious wakeup.
Fairness == /\ WF_vars(OwnerMove)
            /\ \A w \in Workers : WF_vars(Loop(w)) /\ WF_vars(Return(w))

Spec == Init /\ [][Next]_vars /\ Fairness

-----------------------------------------------------------------------------
(* Safety. *)

\* Every task pushed is in one place: in the queue, in the hands of one
\* worker, or finished.  None is lost by the pop and none runs twice.
ExactlyOnce ==
  /\ enqueued = Queued \cup Held \cup finished
  /\ Queued \cap Held = {}
  /\ (Queued \cup Held) \cap finished = {}
  /\ \A i, j \in DOMAIN tasks : tasks[i] = tasks[j] => i = j
  /\ \A v, w \in WorkersAt("running") : job[v] = job[w] => v = w

\* A worker sleeps only while every queued task has an awake worker about to
\* look at the queue, or a notification on its way: although Enqueue notifies
\* after the unlock, no task ever waits behind a sleeper, not even when tasks
\* are pushed faster than workers wake up.
WorkConserving ==
  WorkersAt("asleep") # {} =>
    Len(tasks) <= Cardinality(WorkersAt("check"))
                    + (IF owner = "notifyOne" THEN 1 ELSE 0)

\* Once the destructor has notified, no worker can sleep again: this is what
\* lets the joins return.
NoSleeperAfterStop ==
  owner \in {"joining", "gone"} => WorkersAt("asleep") = {}

\* A worker leaves its loop only when nothing is queued and nothing can be,
\* so the destructor drains the queue.
ExitMeansDrained ==
  WorkersAt("exited") # {} => stop /\ tasks = <<>>

\* A worker holds a task exactly while it runs it.
HoldsWhileRunning == \A w \in Workers : at[w] = "running" <=> job[w] # NoTask

\* stop_ is raised by the destructor and by nobody else, and the destructor
\* returns after the last worker has exited.
DestructorOrder ==
  /\ stop <=> owner \in {"notifyAll", "joining", "gone"}
  /\ owner = "gone" => \A w \in Workers : at[w] = "exited"

\* When the destructor has returned, every task ever enqueued has finished.
DrainedWhenGone == owner = "gone" => finished = enqueued

-----------------------------------------------------------------------------
(* The abstract pool this one implements, and liveness. *)

Abstract == INSTANCE TaskPool
              WITH started <- Held \cup finished,
                   closed  <- owner = "gone"

\* The pool implements TaskPool, its fairness included: every task handed over
\* is started once and finishes, whatever the order of pushes, notifications
\* and wakeups.
ImplementsTaskPool == Abstract!Spec

\* A destructor that is called returns.
DestructorReturns == stop ~> owner = "gone"
=============================================================================
