--------------------------- MODULE QueryExecution ---------------------------
(***************************************************************************)
(* DataFrame::Collect and Pipeline::Execute in the multithreaded build.    *)
(* The thread that calls Collect runs a plan's pipelines one after the     *)
(* other on one thread pool.  For each it enqueues NumThreads tasks, which *)
(* pull batches from the source, push them through the transforms into the *)
(* sink, and count themselves in a latch that lives, with its mutex and    *)
(* its condition variable, on the stack frame of Execute.                  *)
(*                                                                         *)
(* The pool is the one of ThreadPool: every step of its threads is a step  *)
(* of that module, taken together with what the thread does outside the    *)
(* pool's methods.  A task runs on whatever worker holds it.               *)
(*                                                                         *)
(* A batch is the sequence of its visible rows (columns seen through the   *)
(* selection vector); a row is its identity.                               *)
(***************************************************************************)
EXTENDS Naturals, Sequences, FiniteSets, SequencesExt

CONSTANTS NumThreads,   \* Collect's thread count
          Transforms,   \* for each pipeline, its transforms; see QueryPlan
          Table,        \* the scanned file: the rows of each chunk
          ScanColumns,  \* FALSE: no column is scanned, only counted
          Unreadable,   \* chunks whose read may fail
          NoTask

Pipelines == DOMAIN Transforms
ThreadIds == 1..NumThreads
TaskId    == Pipelines \X ThreadIds

Rows == UNION {ToSet(Table[c]) : c \in DOMAIN Table}

\* What a transform may be.
TransformOperator == [kind : {"map"}]
                       \cup [kind : {"filter"}, keep : SUBSET Rows]
                       \cup [kind : {"limit"}, n : Nat]

ASSUME QueryAssumption ==
  /\ NumThreads \in Nat \ {0}
  /\ Table \in Seq(Seq(Rows))
  /\ Transforms \in Seq(Seq(TransformOperator)) /\ Transforms # <<>>
  /\ ScanColumns \in BOOLEAN
  /\ Unreadable \subseteq DOMAIN Table
  /\ NoTask \notin TaskId
  /\ \A c, d \in DOMAIN Table : \A i \in DOMAIN Table[c], j \in DOMAIN Table[d] :
       Table[c][i] = Table[d][j] => c = d /\ i = j

\* The limits of the plan: pipeline and position of each LimitTransformOperator.
Limits == {l \in Pipelines \X UNION {DOMAIN Transforms[p] : p \in Pipelines} :
             l[2] \in DOMAIN Transforms[l[1]] /\ Transforms[l[1]][l[2]].kind = "limit"}

VARIABLES
  (* the thread pool, see ThreadPool *)
  tasks, stop, owner, at, job, enqueued, finished,
  (* the thread in Collect *)
  main,       \* where it is
  pipe,       \* the pipeline it executes
  nextId,     \* thread_id of the next task to enqueue
  answer,     \* the batches TakeBatches returned
  (* the frame of Execute *)
  holder,     \* who holds wait_mutex: a task or NoTask
  count,      \* num_tasks_finished
  (* the tasks *)
  pc,         \* where each task is
  batch,      \* its current batch
  applied,    \* how many transforms the batch has gone through
  stopping,   \* its local variable stop
  (* the operators *)
  cursor,     \* ScanOperator::current_chunk_
  emitted,    \* emitted_ (finished_empty_scan_ for a scan of no column)
  ready,      \* the result batch of each pipeline breaker
  curRows,    \* cur_rows_ of each limit
  done,       \* done_ of each limit
  gathered,   \* thread_states: what each thread sank in each breaker
  result,     \* ResultSinkOperator::batches_
  broken      \* the chunks that cannot be read

poolVars  == <<tasks, stop, owner, at, job, enqueued, finished>>
mainVars  == <<main, pipe, nextId, answer>>
frameVars == <<holder, count>>
taskVars  == <<pc, batch, applied, stopping>>
srcVars   == <<cursor, emitted, ready>>
limVars   == <<curRows, done>>
sinkVars  == <<gathered, result>>
vars == <<poolVars, mainVars, frameVars, taskVars, srcVars, limVars, sinkVars, broken>>

Pool == INSTANCE ThreadPool WITH Workers <- ThreadIds, Task <- TaskId

MainPlace == {"enqueue", "await", "asleep", "finalize", "destroy", "done", "terminated"}
TaskPlace == {"get", "transform", "markDone", "pollDone", "sink", "latch", "notify",
              "unlock", "end"}

\* Every variable has the type the code gives it.
TypeOK ==
  /\ Pool!TypeOK
  /\ main \in MainPlace
  /\ pipe \in Pipelines
  /\ nextId \in 1..(NumThreads + 1)
  /\ answer \in Seq(Seq(Rows))
  /\ holder \in TaskId \cup {NoTask}
  /\ count \in 0..NumThreads
  /\ pc \in [TaskId -> TaskPlace]
  /\ batch \in [TaskId -> Seq(Rows)]
  /\ applied \in [TaskId -> Nat]
  /\ \A t \in TaskId : applied[t] <= Len(Transforms[t[1]])
  /\ stopping \in [TaskId -> BOOLEAN]
  /\ cursor \in Nat
  /\ emitted \in [Pipelines -> BOOLEAN]
  /\ ready \in [Pipelines -> Seq(Rows)]
  /\ curRows \in [Limits -> Nat]
  /\ done \in [Limits -> BOOLEAN]
  /\ gathered \in [TaskId -> Seq(Rows)]
  /\ result \in Seq(Seq(Rows))
  /\ broken \subseteq Unreadable

Init ==
  /\ Pool!Init
  /\ main = "enqueue" /\ pipe = 1 /\ nextId = 1 /\ answer = <<>>
  /\ holder = NoTask /\ count = 0
  /\ pc = [t \in TaskId |-> "get"]
  /\ batch = [t \in TaskId |-> <<>>]
  /\ applied = [t \in TaskId |-> 0]
  /\ stopping = [t \in TaskId |-> FALSE]
  /\ cursor = 1
  /\ emitted = [p \in Pipelines |-> FALSE]
  /\ ready = [p \in Pipelines |-> <<>>]
  /\ curRows = [l \in Limits |-> 0]
  /\ done = [l \in Limits |-> FALSE]
  /\ gathered = [t \in TaskId |-> <<>>]
  /\ result = <<>>
  /\ broken \in SUBSET Unreadable

-----------------------------------------------------------------------------
(* Seeded bugs: each, put in the place of a definition below, is what shows  *)
(* that a property of this module can fail.                                  *)

\* One latch for all pipelines of a query (for NewFrame).
OldFrame == count' = count

\* num_tasks_finished is an atomic, and wait_mutex is not held around the
\* notification (for LockLatch).
LockFreeLatch(t) == holder' = NoTask

\* The task with the highest thread_id notifies (for IsLast).
HighestId(t) == t[2] = NumThreads

\* One row too early (for LimitReached).
LimitAlmostReached(old, size, limit) == old + size + 1 >= limit

\* The merge starts at thread 1 and forgets thread 0 (for Merged).
MergedWithoutFirst(p) == FlattenSeq([i \in 1..(NumThreads - 1) |-> gathered[<<p, i + 1>>]])

-----------------------------------------------------------------------------
(* The thread in Collect. *)

\* One turn of Execute's loop, up to the unlock inside ThreadPool::Enqueue.
EnqueueTask == /\ main = "enqueue"
               /\ nextId \in ThreadIds
               /\ Pool!Enqueue(<<pipe, nextId>>)
               /\ nextId' = nextId + 1
               /\ UNCHANGED <<main, pipe, answer, frameVars, taskVars, srcVars,
                              limVars, sinkVars, broken>>

\* The rest of ThreadPool::Enqueue, and of ~ThreadPool, which ends Collect.
LeavePool == /\ Pool!OwnerMove
             /\ main' = IF owner' = "gone" THEN "done" ELSE main
             /\ UNCHANGED <<pipe, nextId, answer, frameVars, taskVars, srcVars,
                            limVars, sinkVars, broken>>

\* wait_cond.wait: evaluate the predicate with wait_mutex held.
Await == /\ \/ main = "enqueue" /\ nextId \notin ThreadIds /\ owner = "idle"
            \/ main = "await"
         /\ holder = NoTask
         /\ main' = IF count = NumThreads THEN "finalize" ELSE "asleep"
         /\ UNCHANGED <<poolVars, pipe, nextId, answer, frameVars, taskVars,
                        srcVars, limVars, sinkVars, broken>>

\* wait_cond may wake its waiter without a notification.
SpuriousWake == /\ main = "asleep"
                /\ main' = "await"
                /\ UNCHANGED <<poolVars, pipe, nextId, answer, frameVars, taskVars,
                               srcVars, limVars, sinkVars, broken>>

\* Execute's locals start afresh in each call.
NewFrame == count' = 0

\* What the thread states of breaker p amount to, in the order of their ids.
Merged(p) == FlattenSeq([i \in ThreadIds |-> gathered[<<p, i>>]])

\* A breaker's Finalize merges the thread states into the batch that its GetData
\* hands out; ResultSinkOperator's does nothing.
\* Execute returns, and its frame dies with it.
Finalize ==
  /\ main = "finalize"
  /\ IF pipe + 1 \in Pipelines
       THEN /\ ready' = [ready EXCEPT ![pipe] = Merged(pipe)]
            /\ gathered' = [t \in TaskId |-> IF t[1] = pipe THEN <<>> ELSE gathered[t]]
            /\ pipe' = pipe + 1
            /\ nextId' = 1
            /\ main' = "enqueue"
       ELSE /\ main' = "destroy"
            /\ UNCHANGED <<ready, gathered, pipe, nextId>>
  /\ NewFrame
  /\ UNCHANGED <<poolVars, answer, holder, taskVars, cursor, emitted, limVars,
                 result, broken>>

\* Collect builds its DataResult, then destroys the pool.
TakeBatches == /\ main = "destroy"
               /\ Pool!Destroy
               /\ answer' = result
               /\ result' = <<>>
               /\ UNCHANGED <<main, pipe, nextId, frameVars, taskVars, srcVars,
                              limVars, gathered, broken>>

-----------------------------------------------------------------------------
(* A worker inside a task: worker w runs task t, which is at the place k. *)

Runs(w, t, k) == /\ at[w] = "running"
                 /\ job[w] = t
                 /\ pc[t] = k

\* What a task does with the batch b that GetData returned: even a batch without
\* rows enters the first transform, if there is one.
Begin(t, b) ==
  /\ pc' = [pc EXCEPT ![t] = IF Transforms[t[1]] # <<>> THEN "transform"
                             ELSE IF b # <<>> THEN "sink" ELSE "get"]
  /\ batch' = [batch EXCEPT ![t] = b]
  /\ UNCHANGED applied

\* What a task does next with a batch that has gone through n transforms.
Forward(t, b, n) ==
  /\ pc' = [pc EXCEPT ![t] = IF b = <<>> THEN "get"
                             ELSE IF n = Len(Transforms[t[1]]) THEN "sink"
                             ELSE "transform"]
  /\ batch' = [batch EXCEPT ![t] = b]
  /\ applied' = [applied EXCEPT ![t] = IF b = <<>> THEN 0 ELSE n]

\* GetData returned no batch: the task leaves its loop.
LeaveLoop(t) == /\ pc' = [pc EXCEPT ![t] = "latch"]
                /\ UNCHANGED <<batch, applied>>

\* ScanOperator::GetData with columns: take the next chunk, whose read may throw.
ScanChunk(t) ==
  /\ t[1] = 1 /\ ScanColumns
  /\ cursor \notin broken
  /\ cursor' = cursor + 1
  /\ IF cursor \in DOMAIN Table THEN Begin(t, Table[cursor]) ELSE LeaveLoop(t)
  /\ UNCHANGED <<emitted, ready, main>>

\* Nothing between the read and the thread's entry function catches what a
\* failing read throws, so it ends the process.
ReadThrows(t) == /\ t[1] = 1 /\ ScanColumns
                 /\ cursor \in broken
                 /\ main' = "terminated"
                 /\ UNCHANGED <<cursor, emitted, ready, pc, batch, applied>>

\* GetData of a pipeline breaker, and of a scan without columns: one thread
\* wins the compare-and-swap and takes the only batch.
TakeOnly(t) ==
  LET p == t[1]
      all == IF p = 1 THEN FlattenSeq(Table) ELSE ready[p - 1]
  IN /\ p > 1 \/ ~ScanColumns
     /\ emitted' = [emitted EXCEPT ![p] = TRUE]
     /\ IF emitted[p]
          THEN LeaveLoop(t)
          ELSE Begin(t, all)
     /\ UNCHANGED <<cursor, ready, main>>

GetData(w) == \E t \in TaskId :
  /\ Runs(w, t, "get")
  /\ ScanChunk(t) \/ ReadThrows(t) \/ TakeOnly(t)
  /\ UNCHANGED <<poolVars, pipe, nextId, answer, frameVars, stopping, limVars,
                 sinkVars, broken>>

\* The rows of the batch b that a filter keeps, in their order.
Kept(b, keep) == FlattenSeq([i \in DOMAIN b |-> IF b[i] \in keep THEN <<b[i]>> ELSE <<>>])

\* A transform with no state shared between threads.
Transform(w) == \E t \in TaskId :
  LET n == applied[t] + 1
      tr == Transforms[t[1]][n]
  IN /\ Runs(w, t, "transform")
     /\ tr.kind # "limit"
     /\ Forward(t, IF tr.kind = "filter"
                     THEN Kept(batch[t], tr.keep)
                     ELSE batch[t], n)
     /\ UNCHANGED <<poolVars, mainVars, frameVars, stopping, srcVars, limVars,
                    sinkVars, broken>>

LimitReached(old, size, limit) == old + size >= limit

\* LimitTransformOperator::Execute up to its fetch_add and what follows from
\* the value it returned: pass the batch, cut it, or drop it.  done_ is stored
\* in the next step if the limit is reached.
LimitExecute(w) == \E t \in TaskId :
  LET n == applied[t] + 1
      l == <<t[1], n>>
      old == curRows[l]
      limit == Transforms[t[1]][n].n
      size == Len(batch[t])
  IN /\ Runs(w, t, "transform")
     /\ l \in Limits
     /\ curRows' = [curRows EXCEPT ![l] = old + size]
     /\ batch' = [batch EXCEPT ![t] =
                    IF old >= limit THEN <<>>
                    ELSE IF size <= limit - old THEN batch[t]
                    ELSE SubSeq(batch[t], 1, limit - old)]
     /\ applied' = [applied EXCEPT ![t] = n]
     /\ pc' = [pc EXCEPT ![t] = IF LimitReached(old, size, limit)
                                  THEN "markDone" ELSE "pollDone"]
     /\ UNCHANGED <<poolVars, mainVars, frameVars, stopping, srcVars, done,
                    sinkVars, broken>>

\* Execute's loop over the transforms goes on, or is left with the batch as it
\* is.  A batch without rows is dropped before IsPipelineDone is asked.
StopOrForward(t, isDone) ==
  IF isDone
    THEN /\ pc' = [pc EXCEPT ![t] = "sink"]
         /\ stopping' = [stopping EXCEPT ![t] = TRUE]
         /\ UNCHANGED <<batch, applied>>
    ELSE /\ Forward(t, batch[t], applied[t])
         /\ UNCHANGED stopping

\* done_.store, and the poll that follows in the same thread and must see it.
MarkDone(w) == \E t \in TaskId :
  /\ Runs(w, t, "markDone")
  /\ done' = [done EXCEPT ![<<t[1], applied[t]>>] = TRUE]
  /\ StopOrForward(t, batch[t] # <<>>)
  /\ UNCHANGED <<poolVars, mainVars, frameVars, srcVars, curRows, sinkVars, broken>>

\* IsPipelineDone after a batch that did not reach the limit.  The load is
\* relaxed: another thread's store may not be visible yet.
PollDone(w) == \E t \in TaskId :
  /\ Runs(w, t, "pollDone")
  /\ \E seen \in {FALSE, done[<<t[1], applied[t]>>]} : StopOrForward(t, seen /\ batch[t] # <<>>)
  /\ UNCHANGED <<poolVars, mainVars, frameVars, srcVars, limVars, sinkVars, broken>>

\* ResultSinkOperator locks a mutex and appends the batch; a breaker adds the
\* rows to the state of this thread_id.
Sink(w) == \E t \in TaskId :
  /\ Runs(w, t, "sink")
  /\ IF t[1] + 1 \in Pipelines
       THEN /\ gathered' = [gathered EXCEPT ![t] = @ \o batch[t]]
            /\ UNCHANGED result
       ELSE /\ result' = Append(result, batch[t])
            /\ UNCHANGED gathered
  /\ pc' = [pc EXCEPT ![t] = IF stopping[t] THEN "latch" ELSE "get"]
  /\ batch' = [batch EXCEPT ![t] = <<>>]
  /\ applied' = [applied EXCEPT ![t] = 0]
  /\ stopping' = [stopping EXCEPT ![t] = FALSE]
  /\ UNCHANGED <<poolVars, mainVars, frameVars, srcVars, limVars, broken>>

LockLatch(t) == holder' = t

\* Is t, which is counting itself, the last of its pipeline's tasks?
IsLast(t) == count + 1 = NumThreads

\* Lock wait_mutex and count the task.
Latch(w) == \E t \in TaskId :
  /\ Runs(w, t, "latch")
  /\ holder = NoTask
  /\ LockLatch(t)
  /\ count' = count + 1
  /\ pc' = [pc EXCEPT ![t] = IF IsLast(t) THEN "notify" ELSE "unlock"]
  /\ UNCHANGED <<poolVars, mainVars, batch, applied, stopping, srcVars, limVars,
                 sinkVars, broken>>

\* wait_cond.notify_one(), still holding wait_mutex.
NotifyMain(w) == \E t \in TaskId :
  /\ Runs(w, t, "notify")
  /\ main' = IF main = "asleep" THEN "await" ELSE main
  /\ pc' = [pc EXCEPT ![t] = "unlock"]
  /\ UNCHANGED <<poolVars, pipe, nextId, answer, frameVars, batch, applied,
                 stopping, srcVars, limVars, sinkVars, broken>>

\* The UniqueLock releases wait_mutex: the last the task does with the frame.
Unlock(w) == \E t \in TaskId :
  /\ Runs(w, t, "unlock")
  /\ holder' = NoTask
  /\ pc' = [pc EXCEPT ![t] = "end"]
  /\ UNCHANGED <<poolVars, mainVars, count, batch, applied, stopping, srcVars,
                 limVars, sinkVars, broken>>

\* What a worker does in the pool's own code; a task returns at its end.
PoolStep(w) ==
  /\ \/ Pool!Loop(w)
     \/ (\E t \in TaskId : Runs(w, t, "end")) /\ Pool!Return(w)
  /\ UNCHANGED <<mainVars, frameVars, taskVars, srcVars, limVars, sinkVars, broken>>

PoolSpuriousWake(w) ==
  /\ Pool!SpuriousWake(w)
  /\ UNCHANGED <<mainVars, frameVars, taskVars, srcVars, limVars, sinkVars, broken>>

-----------------------------------------------------------------------------
MainStep == EnqueueTask \/ LeavePool \/ Await \/ Finalize \/ TakeBatches

WorkerStep(w) == \/ PoolStep(w)
                 \/ GetData(w) \/ Transform(w)
                 \/ LimitExecute(w) \/ MarkDone(w) \/ PollDone(w)
                 \/ Sink(w)
                 \/ Latch(w) \/ NotifyMain(w) \/ Unlock(w)

\* The query is over, or the process is.
Over == main \in {"done", "terminated"} /\ UNCHANGED vars

Next == \/ /\ main # "terminated"
           /\ \/ MainStep
              \/ SpuriousWake
              \/ \E w \in ThreadIds : WorkerStep(w) \/ PoolSpuriousWake(w)
        \/ Over

\* Every thread that can run is scheduled.  wait_mutex is fair to the thread in
\* Collect: each task locks it once, so nobody can keep it from the lock.
Fairness == /\ WF_vars(main # "terminated" /\ MainStep)
            /\ \A w \in ThreadIds : WF_vars(main # "terminated" /\ WorkerStep(w))

Spec == Init /\ [][Next]_vars /\ Fairness

-----------------------------------------------------------------------------
(* Safety. *)

\* The tasks that still have a use for the frame of the Execute they belong to.
Unfinished == {t \in enqueued \ finished : pc[t] # "end"}

\* The latch is a barrier: a task that has not let go of wait_mutex for good
\* belongs to the pipeline being executed, whose frame Execute has not left and
\* whose sink it has not begun to finalize.  So no task touches a dead latch,
\* and Finalize and TakeBatches see no concurrent Sink.
BarrierHolds ==
  \A t \in Unfinished : t[1] = pipe /\ main \in {"enqueue", "await", "asleep", "terminated"}

\* The thread in Collect sleeps on wait_cond only while some task has yet to
\* count itself, or the one that counted last is about to notify.
NoLostLatchWakeup ==
  main = "asleep" =>
    \E i \in ThreadIds : pc[<<pipe, i>>] \notin {"unlock", "end"}

\* A task gives up its source before the source is dry only when a limit has
\* taken all the rows it may let through.
StopsOnlyWhenFull ==
  \A t \in TaskId : stopping[t] =>
    \E l \in Limits : l[1] = t[1] /\ curRows[l] >= Transforms[l[1]][l[2]].n

\* A query that cannot read its file fails and says so: main() catches the
\* exception.  The process is not ended under it.
FailureReachesCaller == main # "terminated"

-----------------------------------------------------------------------------
(* The abstract query this implements. *)

Executed == main \in {"destroy", "done"}

\* The rows the source of the next pipeline holds; after the last, the answer.
Delivered == IF Executed THEN FlattenSeq(result \o answer)
             ELSE IF pipe = 1 THEN FlattenSeq(Table)
             ELSE ready[pipe - 1]

Plan == INSTANCE QueryPlan
          WITH stage  <- IF Executed THEN pipe + 1 ELSE pipe,
               data   <- Delivered,
               failed <- main = "terminated"

\* Collect returns rows the plan may produce, each row of the answer once: no
\* chunk is skipped or read twice, no thread's rows are left out of a merge or
\* merged twice, a limit lets through what it must and no more, and pipelines
\* do not overlap.  And it returns: every stage is eventually completed unless
\* a read fails.
ImplementsPlan == Plan!Spec
=============================================================================
