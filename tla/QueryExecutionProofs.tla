------------------------ MODULE QueryExecutionProofs ------------------------
(***************************************************************************)
(* Proofs about QueryExecution, for any number of threads, any file and    *)
(* any plan.                                                               *)
(***************************************************************************)
EXTENDS QueryExecution, DataFacts, FiniteSetTheorems

\* What ThreadPoolProofs shows of the pool.
PoolFacts == INSTANCE ThreadPoolProofs WITH Workers <- ThreadIds, Task <- TaskId

PoolInv == PoolFacts!Typed /\ PoolFacts!ExactlyOnce

-----------------------------------------------------------------------------
(* The inductive invariant. *)

\* The tasks of the pipelines before the current one, and those of the current
\* one up to nextId, have been enqueued.
EnqueuedInOrder ==
  enqueued = {t \in TaskId : t[1] < pipe \/ (t[1] = pipe /\ t[2] < nextId)}

\* A task that is not in the pool yet has not begun; one that has returned, and
\* one of an earlier pipeline, is at its end.
PlacesFollowPool ==
  \A t \in TaskId : /\ t \notin enqueued => pc[t] = "get"
                    /\ t \in finished \/ t[1] < pipe => pc[t] = "end"

\* wait_mutex is held by the task that is between its lock and its unlock.
OneHolder == \A t \in TaskId : pc[t] \in {"notify", "unlock"} <=> holder = t

\* The tasks of the current pipeline that have counted themselves.
Counted == {i \in ThreadIds : pc[<<pipe, i>>] \in {"notify", "unlock", "end"}}

\* The latch counts the tasks of the current pipeline, until Execute has
\* returned for the last time.
LatchCounts == main \notin {"destroy", "done"} => count = Cardinality(Counted)

\* What Collect's thread knows at each place.
MainKnows ==
  /\ main \in {"await", "asleep", "finalize", "destroy", "done"} => nextId = NumThreads + 1
  /\ main \in {"finalize", "destroy", "done"} => \A i \in ThreadIds : pc[<<pipe, i>>] = "end"
  /\ main \in {"destroy", "done"} => pipe + 1 \notin Pipelines
  /\ owner \in {"notifyAll", "joining", "gone"} => main \in {"destroy", "done"}

\* The types of what the control consists of.
ControlTypeOK ==
  /\ main \in MainPlace
  /\ pipe \in Pipelines
  /\ nextId \in 1..(NumThreads + 1)
  /\ holder \in TaskId \cup {NoTask}
  /\ count \in 0..NumThreads
  /\ pc \in [TaskId -> TaskPlace]

Control == /\ PoolInv /\ ControlTypeOK
           /\ EnqueuedInOrder /\ PlacesFollowPool /\ OneHolder /\ LatchCounts
           /\ MainKnows /\ NoLostLatchWakeup

\* How far the batch of a task has come: the transform it is about to enter, or
\* the limit it has just gone through.
BatchesInPlace ==
  \A t \in TaskId :
    /\ pc[t] = "get" => applied[t] = 0
    /\ pc[t] = "transform" => applied[t] < Len(Transforms[t[1]])
    /\ pc[t] \in {"markDone", "pollDone"} => <<t[1], applied[t]>> \in Limits
    /\ pc[t] = "markDone" =>
         curRows[<<t[1], applied[t]>>] >= Transforms[t[1]][applied[t]].n

\* A limit that is marked done has taken all the rows it may let through.
DoneMeansFull == \A l \in Limits : done[l] => curRows[l] >= Transforms[l[1]][l[2]].n

\* The types of what the operators keep and the tasks carry.
DataTypeOK ==
  /\ answer \in Seq(Seq(Rows))
  /\ batch \in [TaskId -> Seq(Rows)]
  /\ applied \in [TaskId -> Nat]
  /\ \A t \in TaskId : applied[t] <= Len(Transforms[t[1]])
  /\ stopping \in [TaskId -> BOOLEAN]
  /\ cursor \in Nat
  /\ emitted \in [Pipelines -> BOOLEAN]
  /\ ready \in [Pipelines -> Seq(Rows)]
  /\ curRows \in [Limits -> Nat]
  /\ done \in [Limits -> BOOLEAN]
  /\ gathered \in [TaskId -> Seq(Rows)]
  /\ result \in Seq(Seq(Rows))
  /\ broken \subseteq Unreadable

Data == DataTypeOK /\ BatchesInPlace /\ DoneMeansFull /\ StopsOnlyWhenFull

-----------------------------------------------------------------------------
(* The pool. *)

\* The pool of a query meets the assumption of ThreadPool.
LEMMA PoolAssumed == PoolFacts!PoolConstants
<1>1. NumThreads \in Nat /\ NumThreads # 0 /\ NoTask \notin TaskId
  BY QueryAssumption, Zenon DEF QueryAssumption
<1>2. IsFiniteSet(ThreadIds)
  BY <1>1, FS_Interval DEF ThreadIds
<1>3. ThreadIds # {}
  BY <1>1 DEF ThreadIds
<1> QED
  BY <1>1, <1>2, <1>3 DEF PoolFacts!PoolConstants, PoolFacts!IsFiniteSet, IsFiniteSet

\* Its invariants hold at first.
LEMMA PoolInitial == Pool!Init => PoolInv
<1> SUFFICES ASSUME Pool!Init
             PROVE  PoolInv
  OBVIOUS
<1>1. PoolFacts!Init
  BY DEF Pool!Init, PoolFacts!Init
<1> QED
  BY <1>1, PoolAssumed, PoolFacts!TypedInit, PoolFacts!ExactlyOnceInit DEF PoolInv

\* And they are kept by each of its steps.
LEMMA PoolStepKeeps == PoolInv /\ [PoolFacts!Next]_PoolFacts!vars => PoolInv'
BY PoolAssumed, PoolFacts!TypedStep, PoolFacts!ExactlyOnceStep DEF PoolInv

-----------------------------------------------------------------------------
(* The control. *)

\* The numbers of threads and pipelines, and the tasks.
LEMMA Numbers ==
  /\ NumThreads \in Nat \ {0}
  /\ Len(Transforms) \in Nat \ {0}
  /\ Pipelines = 1..Len(Transforms)
  /\ NoTask \notin TaskId
  /\ \A t \in TaskId : t = <<t[1], t[2]>> /\ t[1] \in Pipelines /\ t[2] \in ThreadIds
  /\ \A p \in Pipelines, i \in ThreadIds : <<p, i>> \in TaskId
<1>1. /\ NumThreads \in Nat \ {0} /\ NoTask \notin TaskId
      /\ Transforms \in Seq(Seq(TransformOperator)) /\ Transforms # <<>>
  BY QueryAssumption, Zenon DEF QueryAssumption
<1>2. Len(Transforms) \in Nat \ {0} /\ DOMAIN Transforms = 1..Len(Transforms)
  BY <1>1, EmptySeq, LenProperties
<1> QED
  BY <1>1, <1>2 DEF Pipelines, TaskId

\* The threads are as many as their number.
LEMMA ThreadsFinite == IsFiniteSet(ThreadIds) /\ Cardinality(ThreadIds) = NumThreads
BY Numbers, FS_Interval DEF ThreadIds

\* The tasks that have counted themselves are finitely many.
LEMMA CountedFinite ==
  /\ IsFiniteSet(Counted) /\ Counted \subseteq ThreadIds
  /\ Cardinality(Counted) \in 0..NumThreads
  /\ Cardinality(Counted) = NumThreads => Counted = ThreadIds
<1>1. IsFiniteSet(ThreadIds) /\ Cardinality(ThreadIds) = NumThreads
  BY ThreadsFinite
<1>2. Counted \subseteq ThreadIds
  BY DEF Counted
<1>3. IsFiniteSet(Counted) /\ Cardinality(Counted) <= NumThreads
  BY <1>1, <1>2, FS_Subset
<1>4. Cardinality(Counted) \in Nat
  BY <1>3, FS_CardinalityType
<1>5. Cardinality(Counted) = NumThreads => Counted = ThreadIds
  BY <1>1, <1>2, FS_Subset
<1> QED
  BY <1>2, <1>3, <1>4, <1>5, Numbers

\* A task that a worker runs and that is not at its end belongs to the pipeline
\* being executed, which Collect's thread has not left.
LEMMA RunningTask ==
  ASSUME Control, NEW w \in ThreadIds, NEW t \in TaskId, NEW k, Runs(w, t, k), k # "end"
  PROVE  /\ t \in enqueued \ finished
         /\ t[1] = pipe /\ t = <<pipe, t[2]>> /\ t[2] \in ThreadIds
         /\ main \in {"enqueue", "await", "asleep", "terminated"}
<1>1. t \in PoolFacts!Held
  BY DEF Runs, PoolFacts!Held, PoolFacts!WorkersAt
<1>2. t \in enqueued
  BY <1>1 DEF Control, PoolInv, PoolFacts!ExactlyOnce
<1>3. pc[t] # "end"
  BY DEF Runs
<1>4. t[1] <= pipe /\ ~(t[1] < pipe) /\ t \notin finished
  BY <1>2, <1>3, Numbers DEF Control, EnqueuedInOrder, PlacesFollowPool, ControlTypeOK
<1>5. t[1] = pipe /\ t = <<pipe, t[2]>> /\ t[2] \in ThreadIds
  BY <1>4, Numbers DEF Control, ControlTypeOK
<1>6. main \in {"enqueue", "await", "asleep", "terminated"}
  BY <1>3, <1>5 DEF Control, ControlTypeOK, MainPlace, MainKnows
<1> QED
  BY <1>2, <1>4, <1>5, <1>6

\* At first.
LEMMA ControlInit == Init => Control
<1> SUFFICES ASSUME Init
             PROVE  Control
  OBVIOUS
<1> USE DEF Init
<1>1. PoolInv /\ ControlTypeOK
  BY PoolInitial, Numbers DEF ControlTypeOK, MainPlace, TaskPlace
<1>2. EnqueuedInOrder /\ PlacesFollowPool
  <2>1. enqueued = {} /\ finished = {}
    BY DEF Pool!Init
  <2>2. \A t \in TaskId : ~(t[1] < 1) /\ ~(t[1] = 1 /\ t[2] < 1)
    BY Numbers DEF ThreadIds
  <2>3. pipe = 1 /\ nextId = 1 /\ \A t \in TaskId : pc[t] = "get"
    OBVIOUS
  <2> QED
    BY ONLY <2>1, <2>2, <2>3 DEF EnqueuedInOrder, PlacesFollowPool
<1>3. OneHolder
  BY Numbers DEF OneHolder
<1>4. LatchCounts
  <2>1. \A i \in ThreadIds : pc[<<1, i>>] = "get"
    <3>1. 1 \in Pipelines /\ \A t \in TaskId : pc[t] = "get"
      BY Numbers
    <3> QED
      BY ONLY <3>1, Numbers, Zenon
  <2>2. Counted = {}
    BY <2>1 DEF Counted
  <2> QED
    BY <2>2, FS_EmptySet DEF LatchCounts
<1>5. MainKnows /\ NoLostLatchWakeup
  BY DEF MainKnows, NoLostLatchWakeup, Pool!Init
<1> QED
  BY <1>1, <1>2, <1>3, <1>4, <1>5 DEF Control

\* A step of a task between its start and the latch.
LEMMA TaskMoves ==
  ASSUME Control, NEW w \in ThreadIds, NEW t \in TaskId, NEW k, Runs(w, t, k),
         k \notin {"latch", "notify", "unlock", "end"},
         NEW l \in TaskPlace \ {"notify", "unlock", "end"},
         pc' = [pc EXCEPT ![t] = l],
         UNCHANGED <<poolVars, mainVars, frameVars>>
  PROVE  Control'
<1>a. t \in enqueued \ finished /\ t[1] = pipe /\ t = <<pipe, t[2]>> /\ t[2] \in ThreadIds
  BY RunningTask
<1>b. pc[t] = k
  BY DEF Runs
<1> USE DEF Control, poolVars, mainVars, frameVars
<1>1. PoolInv'
  BY PoolStepKeeps DEF PoolFacts!vars
<1>2. ControlTypeOK'
  BY DEF ControlTypeOK
<1>3. EnqueuedInOrder'
  BY DEF EnqueuedInOrder
<1>4. PlacesFollowPool'
  BY <1>a, Numbers DEF PlacesFollowPool, ControlTypeOK
<1>5. OneHolder'
  BY <1>b DEF OneHolder, ControlTypeOK
<1>6. Counted' = Counted
  BY <1>a, <1>b DEF Counted, ControlTypeOK
<1>7. LatchCounts'
  BY <1>6 DEF LatchCounts
<1>8. MainKnows'
  BY <1>a, <1>b DEF MainKnows, ControlTypeOK
<1>9. NoLostLatchWakeup'
  BY <1>a, <1>b, Numbers DEF NoLostLatchWakeup, ControlTypeOK
<1> QED
  BY <1>1, <1>2, <1>3, <1>4, <1>5, <1>7, <1>8, <1>9

\* The step in which a task counts itself.
LEMMA LatchMoves ==
  ASSUME Control, NEW w \in ThreadIds, Latch(w)
  PROVE  Control'
<1>1. PICK t \in TaskId :
        /\ Runs(w, t, "latch")
        /\ holder = NoTask
        /\ LockLatch(t)
        /\ count' = count + 1
        /\ pc' = [pc EXCEPT ![t] = IF IsLast(t) THEN "notify" ELSE "unlock"]
        /\ UNCHANGED <<poolVars, mainVars>>
  BY DEF Latch
<1>a. t \in enqueued \ finished /\ t[1] = pipe /\ t = <<pipe, t[2]>> /\ t[2] \in ThreadIds
  BY <1>1, RunningTask
<1>m. main \in {"enqueue", "await", "asleep", "terminated"}
  BY <1>1, RunningTask
<1>b. pc[t] = "latch"
  BY <1>1 DEF Runs
<1> USE <1>1 DEF Control, poolVars, mainVars
<1>1a. PoolInv'
  BY PoolStepKeeps DEF PoolFacts!vars
<1>2. t[2] \notin Counted /\ Counted' = Counted \cup {t[2]}
  BY <1>a, <1>b DEF Counted, ControlTypeOK
<1>3. Cardinality(Counted') = Cardinality(Counted) + 1
  BY <1>2, CountedFinite, FS_AddElement
<1>4. count = Cardinality(Counted)
  BY <1>m DEF LatchCounts
<1>5. Cardinality(Counted') \in 0..NumThreads
  <2>1. IsFiniteSet(ThreadIds) /\ Cardinality(ThreadIds) = NumThreads
    BY ThreadsFinite
  <2>2. Counted' \subseteq ThreadIds
    BY DEF Counted
  <2>3. Cardinality(Counted') <= NumThreads
    BY <2>1, <2>2, FS_Subset
  <2> QED
    BY <1>3, <2>3, CountedFinite
<1>6. ControlTypeOK'
  BY <1>3, <1>4, <1>5 DEF ControlTypeOK, TaskPlace, LockLatch
<1>7. EnqueuedInOrder' /\ MainKnows'
  BY <1>m DEF EnqueuedInOrder, MainKnows
<1>8. PlacesFollowPool'
  BY <1>a, Numbers DEF PlacesFollowPool, ControlTypeOK
<1>9. OneHolder'
  BY <1>a, Numbers DEF OneHolder, ControlTypeOK, LockLatch
<1>10. LatchCounts'
  BY <1>3, <1>4 DEF LatchCounts
<1>11. NoLostLatchWakeup'
  <2> SUFFICES ASSUME main' = "asleep"
               PROVE  \E i \in ThreadIds : pc'[<<pipe, i>>] \notin {"unlock", "end"}
    BY DEF NoLostLatchWakeup
  <2>1. CASE IsLast(t)
    BY <2>1, <1>a DEF ControlTypeOK
  <2>2. CASE ~IsLast(t)
    <3>1. Cardinality(Counted') # NumThreads
      BY <2>2, <1>3, <1>4, CountedFinite DEF IsLast
    <3>2. Cardinality(ThreadIds) = NumThreads
      BY ThreadsFinite
    <3>3. Counted' # ThreadIds
      BY <3>1, <3>2
    <3>4. PICK i \in ThreadIds : i \notin Counted'
      BY <3>3 DEF Counted
    <3> QED
      BY <3>4 DEF Counted
  <2> QED
    BY <2>1, <2>2
<1> QED
  BY <1>1a, <1>6, <1>7, <1>8, <1>9, <1>10, <1>11

\* The notification, and the unlock.
LEMMA NotifyMoves ==
  ASSUME Control, NEW w \in ThreadIds, NotifyMain(w)
  PROVE  Control'
<1>1. PICK t \in TaskId :
        /\ Runs(w, t, "notify")
        /\ main' = IF main = "asleep" THEN "await" ELSE main
        /\ pc' = [pc EXCEPT ![t] = "unlock"]
        /\ UNCHANGED <<poolVars, pipe, nextId, answer, frameVars>>
  BY DEF NotifyMain
<1>a. t \in enqueued \ finished /\ t[1] = pipe /\ t = <<pipe, t[2]>> /\ t[2] \in ThreadIds
  BY <1>1, RunningTask
<1>m. main \in {"enqueue", "await", "asleep", "terminated"}
  BY <1>1, RunningTask
<1>b. pc[t] = "notify"
  BY <1>1 DEF Runs
<1> USE <1>1 DEF Control, poolVars, frameVars
<1>2. PoolInv'
  BY PoolStepKeeps DEF PoolFacts!vars
<1>3. ControlTypeOK'
  BY <1>m DEF ControlTypeOK, TaskPlace, MainPlace
<1>4. EnqueuedInOrder'
  BY DEF EnqueuedInOrder
<1>5. PlacesFollowPool'
  BY <1>a, Numbers DEF PlacesFollowPool, ControlTypeOK
<1>6. OneHolder'
  BY <1>a, <1>b DEF OneHolder, ControlTypeOK
<1>7. Counted' = Counted
  BY <1>a, <1>b DEF Counted, ControlTypeOK
<1>8. LatchCounts'
  BY <1>7, <1>m DEF LatchCounts
<1>9. MainKnows'
  BY <1>m DEF MainKnows
<1>10. NoLostLatchWakeup'
  BY <1>m DEF NoLostLatchWakeup
<1> QED
  BY <1>2, <1>3, <1>4, <1>5, <1>6, <1>8, <1>9, <1>10

\* A task releases wait_mutex and is at its end.
LEMMA UnlockMoves ==
  ASSUME Control, NEW w \in ThreadIds, Unlock(w)
  PROVE  Control'
<1>1. PICK t \in TaskId :
        /\ Runs(w, t, "unlock")
        /\ holder' = NoTask
        /\ pc' = [pc EXCEPT ![t] = "end"]
        /\ UNCHANGED <<poolVars, mainVars, count>>
  BY DEF Unlock
<1>a. t \in enqueued \ finished /\ t[1] = pipe /\ t = <<pipe, t[2]>> /\ t[2] \in ThreadIds
  BY <1>1, RunningTask
<1>m. main \in {"enqueue", "await", "asleep", "terminated"}
  BY <1>1, RunningTask
<1>b. pc[t] = "unlock"
  BY <1>1 DEF Runs
<1> USE <1>1 DEF Control, poolVars, mainVars
<1>2. PoolInv'
  BY PoolStepKeeps DEF PoolFacts!vars
<1>3. ControlTypeOK'
  BY DEF ControlTypeOK, TaskPlace
<1>4. EnqueuedInOrder' /\ MainKnows'
  BY <1>m DEF EnqueuedInOrder, MainKnows
<1>5. PlacesFollowPool'
  BY <1>a, Numbers DEF PlacesFollowPool, ControlTypeOK
<1>6. OneHolder'
  <2>1. holder = t
    BY <1>b DEF OneHolder
  <2> QED
    BY <2>1, Numbers DEF OneHolder, ControlTypeOK
<1>7. Counted' = Counted
  BY <1>a, <1>b DEF Counted, ControlTypeOK
<1>8. LatchCounts'
  BY <1>7 DEF LatchCounts
<1>9. NoLostLatchWakeup'
  BY <1>a, <1>b DEF NoLostLatchWakeup, ControlTypeOK
<1> QED
  BY <1>2, <1>3, <1>4, <1>5, <1>6, <1>8, <1>9

\* A step of a worker inside the pool; a task that returns is at its end.
LEMMA PoolMoves ==
  ASSUME Control, NEW w \in ThreadIds, PoolStep(w) \/ PoolSpuriousWake(w)
  PROVE  Control'
<1>0. UNCHANGED <<main, pipe, nextId, holder, count, pc>>
  BY DEF PoolStep, PoolSpuriousWake, mainVars, frameVars, taskVars
<1>1. Pool!Loop(w) \/ Pool!SpuriousWake(w) \/ Pool!Return(w)
  BY DEF PoolStep, PoolSpuriousWake
<1>2. PoolFacts!Loop(w) \/ PoolFacts!SpuriousWake(w) \/ PoolFacts!Return(w)
  <2>1. CASE Pool!Loop(w)
    BY <2>1 DEF Pool!Loop, Pool!Take, Pool!Sleep, Pool!Exit, Pool!WakeUp, Pool!Drained,
                Pool!PopBack, PoolFacts!Loop, PoolFacts!Take, PoolFacts!Sleep,
                PoolFacts!Exit, PoolFacts!WakeUp, PoolFacts!Drained, PoolFacts!PopBack
  <2>2. CASE Pool!SpuriousWake(w)
    BY <2>2 DEF Pool!SpuriousWake, PoolFacts!SpuriousWake
  <2>3. CASE Pool!Return(w)
    BY <2>3 DEF Pool!Return, PoolFacts!Return
  <2> QED
    BY <1>1, <2>1, <2>2, <2>3
<1>3. PoolFacts!Next
  BY <1>2 DEF PoolFacts!Next
<1>4. PoolInv'
  BY <1>3, PoolStepKeeps DEF Control
<1>5. enqueued' = enqueued /\ owner' = owner
  BY <1>1 DEF Pool!Loop, Pool!Take, Pool!Sleep, Pool!Exit, Pool!SpuriousWake, Pool!Return
<1>6. \A t \in finished' : t \in finished \/ pc[t] = "end"
  <2>1. CASE Pool!Loop(w) \/ Pool!SpuriousWake(w)
    BY <2>1 DEF Pool!Loop, Pool!Take, Pool!Sleep, Pool!Exit, Pool!SpuriousWake
  <2>2. CASE PoolStep(w) /\ Pool!Return(w) /\ ~Pool!Loop(w)
    BY <2>2 DEF PoolStep, Pool!Return, Runs
  <2> QED
    BY <2>1, <2>2 DEF PoolStep, PoolSpuriousWake
<1> USE <1>0 DEF Control
<1>7. ControlTypeOK' /\ OneHolder' /\ NoLostLatchWakeup'
  BY DEF ControlTypeOK, OneHolder, NoLostLatchWakeup
<1>8. EnqueuedInOrder' /\ MainKnows'
  BY <1>5 DEF EnqueuedInOrder, MainKnows
<1>9. PlacesFollowPool'
  BY <1>5, <1>6 DEF PlacesFollowPool
<1>10. LatchCounts'
  BY DEF LatchCounts, Counted
<1> QED
  BY <1>4, <1>7, <1>8, <1>9, <1>10

\* Execute enqueues the next task.
LEMMA EnqueueMoves ==
  ASSUME Control, EnqueueTask
  PROVE  Control'
<1> DEFINE t == <<pipe, nextId>>
<1>0. UNCHANGED <<main, pipe, holder, count, pc>>
  BY DEF EnqueueTask, frameVars, taskVars
<1>1. /\ main = "enqueue" /\ nextId \in ThreadIds /\ nextId' = nextId + 1
      /\ Pool!Enqueue(t)
  BY DEF EnqueueTask
<1>2. t \in TaskId
  BY <1>1, Numbers DEF Control, ControlTypeOK
<1>3. PoolFacts!Enqueue(t)
  BY <1>1 DEF Pool!Enqueue, PoolFacts!Enqueue
<1>4. PoolInv'
  BY <1>2, <1>3, PoolStepKeeps DEF Control, PoolFacts!Next
<1>5. enqueued' = enqueued \cup {t} /\ finished' = finished /\ owner' = "notifyOne"
  BY <1>1 DEF Pool!Enqueue
<1> USE <1>0, <1>1, <1>5 DEF Control
<1>6. ControlTypeOK'
  BY Numbers DEF ControlTypeOK, ThreadIds
<1>7. EnqueuedInOrder'
  <2>1. \A u \in TaskId : u[1] = pipe /\ u[2] < nextId + 1 <=>
                            (u[1] = pipe /\ u[2] < nextId) \/ u = t
    BY Numbers DEF ThreadIds
  <2>2. enqueued \cup {t} = {u \in TaskId : u[1] < pipe \/ (u[1] = pipe /\ u[2] < nextId + 1)}
    BY <1>2, <2>1 DEF EnqueuedInOrder
  <2> QED
    BY <2>2 DEF EnqueuedInOrder
<1>8. PlacesFollowPool'
  BY DEF PlacesFollowPool
<1>9. OneHolder' /\ NoLostLatchWakeup' /\ MainKnows'
  BY DEF OneHolder, NoLostLatchWakeup, MainKnows
<1>10. LatchCounts'
  BY DEF LatchCounts, Counted
<1> QED
  BY <1>4, <1>6, <1>7, <1>8, <1>9, <1>10

\* Collect's thread leaves a method of the pool.
LEMMA LeaveMoves ==
  ASSUME Control, LeavePool
  PROVE  Control'
<1>0. UNCHANGED <<pipe, nextId, holder, count, pc>>
  BY DEF LeavePool, frameVars, taskVars
<1>1. Pool!NotifyOne \/ Pool!NotifyAll \/ Pool!Join
  BY DEF LeavePool, Pool!OwnerMove
<1>2. PoolFacts!Next
  BY <1>1 DEF Pool!NotifyOne, Pool!NotifyAll, Pool!Join, Pool!WakeOne, Pool!WorkersAt,
              PoolFacts!NotifyOne, PoolFacts!NotifyAll, PoolFacts!Join,
              PoolFacts!WakeOne, PoolFacts!WorkersAt, PoolFacts!OwnerMove, PoolFacts!Next
<1>3. PoolInv'
  BY <1>2, PoolStepKeeps DEF Control
<1>4. enqueued' = enqueued /\ finished' = finished
  BY <1>1 DEF Pool!NotifyOne, Pool!NotifyAll, Pool!Join
<1>5. \/ main' = main /\ (owner' = "idle" \/ (owner = "notifyAll" /\ owner' = "joining"))
      \/ main' = "done" /\ owner = "joining"
  BY <1>1 DEF LeavePool, Pool!NotifyOne, Pool!NotifyAll, Pool!Join
<1>6. main' = main \/ (main' = "done" /\ main \in {"destroy", "done"})
  BY <1>5 DEF Control, MainKnows
<1> USE <1>0, <1>4, <1>6 DEF Control
<1>7. ControlTypeOK' /\ OneHolder' /\ NoLostLatchWakeup'
  BY DEF ControlTypeOK, OneHolder, NoLostLatchWakeup, MainPlace
<1>8. EnqueuedInOrder' /\ PlacesFollowPool'
  BY DEF EnqueuedInOrder, PlacesFollowPool
<1>9. MainKnows'
  BY <1>5 DEF MainKnows
<1>10. LatchCounts'
  BY DEF LatchCounts, Counted
<1> QED
  BY <1>3, <1>7, <1>8, <1>9, <1>10

\* Collect's thread evaluates the predicate of its wait, or wakes up by itself.
LEMMA WaitMoves ==
  ASSUME Control, Await \/ SpuriousWake
  PROVE  Control'
<1>0. UNCHANGED <<poolVars, pipe, nextId, holder, count, pc>>
  BY DEF Await, SpuriousWake, frameVars, taskVars
<1>1. \/ main' = "await" /\ main = "asleep"
      \/ /\ main \in {"enqueue", "await"} /\ holder = NoTask /\ nextId = NumThreads + 1
         /\ main' = IF count = NumThreads THEN "finalize" ELSE "asleep"
  <2>1. CASE Await
    <3>1. nextId = NumThreads + 1
      BY <2>1, Numbers DEF Await, Control, ControlTypeOK, MainKnows, ThreadIds
    <3> QED
      BY <2>1, <3>1 DEF Await
  <2> QED
    BY <2>1 DEF SpuriousWake
<1> USE <1>0 DEF Control, poolVars
<1>2. PoolInv'
  BY PoolStepKeeps DEF PoolFacts!vars
<1>3. ControlTypeOK' /\ OneHolder' /\ EnqueuedInOrder' /\ PlacesFollowPool'
  BY <1>1 DEF ControlTypeOK, OneHolder, MainPlace, EnqueuedInOrder, PlacesFollowPool
<1>4. LatchCounts'
  BY <1>1 DEF LatchCounts, Counted
<1>5. main' \in {"finalize", "asleep"} => count = Cardinality(Counted)
  BY <1>1 DEF LatchCounts
<1>6. main' = "finalize" => \A i \in ThreadIds : pc[<<pipe, i>>] = "end"
  <2> SUFFICES ASSUME main' = "finalize", NEW i \in ThreadIds
               PROVE  pc[<<pipe, i>>] = "end"
    OBVIOUS
  <2>1. Counted = ThreadIds
    BY <1>1, <1>5, CountedFinite
  <2>2. pc[<<pipe, i>>] \in {"notify", "unlock", "end"}
    BY <2>1 DEF Counted
  <2>3. holder # <<pipe, i>> /\ <<pipe, i>> \in TaskId
    BY <1>1, Numbers DEF ControlTypeOK
  <2> QED
    BY <2>2, <2>3 DEF OneHolder
<1>7. main' = "asleep" => \E i \in ThreadIds : pc[<<pipe, i>>] \notin {"unlock", "end"}
  <2> SUFFICES ASSUME main' = "asleep"
               PROVE  \E i \in ThreadIds : pc[<<pipe, i>>] \notin {"unlock", "end"}
    OBVIOUS
  <2>1. Counted # ThreadIds
    BY <1>1, <1>5, ThreadsFinite
  <2>2. PICK i \in ThreadIds : i \notin Counted
    BY <2>1 DEF Counted
  <2> QED
    BY <2>2 DEF Counted
<1>8. NoLostLatchWakeup'
  BY <1>7 DEF NoLostLatchWakeup
<1>9. MainKnows'
  BY <1>1, <1>6 DEF MainKnows
<1> QED
  BY <1>2, <1>3, <1>4, <1>8, <1>9

\* Execute finalizes and returns.
LEMMA FinalizeMoves ==
  ASSUME Control, Finalize
  PROVE  Control'
<1>0. UNCHANGED <<poolVars, holder, pc>> /\ main = "finalize" /\ count' = 0
  BY DEF Finalize, NewFrame, taskVars
<1>1. \/ /\ pipe + 1 \in Pipelines
         /\ pipe' = pipe + 1 /\ nextId' = 1 /\ main' = "enqueue"
      \/ /\ pipe + 1 \notin Pipelines
         /\ main' = "destroy" /\ pipe' = pipe /\ nextId' = nextId
  BY DEF Finalize
<1>2. nextId = NumThreads + 1 /\ \A i \in ThreadIds : pc[<<pipe, i>>] = "end"
  BY <1>0 DEF Control, MainKnows
<1>3. pipe \in Nat
  BY Numbers DEF Control, ControlTypeOK
<1> USE <1>0 DEF Control, poolVars
<1>4. PoolInv'
  BY PoolStepKeeps DEF PoolFacts!vars
<1>5. ControlTypeOK'
  BY <1>1, Numbers DEF ControlTypeOK, MainPlace
<1>6. OneHolder'
  BY DEF OneHolder
<1>7. EnqueuedInOrder'
  <2>1. \A t \in TaskId : t[2] < NumThreads + 1 /\ ~(t[2] < 1) /\ t[1] \in Nat
    BY Numbers DEF ThreadIds
  <2>2. \A t \in TaskId : t[1] < pipe + 1 <=> t[1] < pipe \/ t[1] = pipe
    BY <1>3, <2>1
  <2> QED
    BY <1>1, <1>2, <2>1, <2>2 DEF EnqueuedInOrder
<1>8. PlacesFollowPool'
  <2>1. \A t \in TaskId : t[1] < pipe + 1 <=> t[1] < pipe \/ t[1] = pipe
    BY <1>3, Numbers
  <2>2. \A t \in TaskId : t[1] = pipe => pc[t] = "end"
    <3> SUFFICES ASSUME NEW t \in TaskId, t[1] = pipe
                 PROVE  pc[t] = "end"
      OBVIOUS
    <3>1. t = <<pipe, t[2]>> /\ t[2] \in ThreadIds
      BY Numbers
    <3> QED
      BY <1>2, <3>1
  <2> QED
    BY <1>1, <2>1, <2>2 DEF PlacesFollowPool
<1>9. LatchCounts'
  <2> SUFFICES ASSUME pipe + 1 \in Pipelines, pipe' = pipe + 1
               PROVE  Cardinality(Counted') = 0
    BY <1>1 DEF LatchCounts
  <2>1. ASSUME NEW i \in ThreadIds
        PROVE  pc[<<pipe + 1, i>>] = "get"
    <3>1. <<pipe + 1, i>> \in TaskId
      BY Numbers
    <3>2. ~(pipe + 1 < pipe) /\ pipe + 1 # pipe
      BY <1>3
    <3>3. <<pipe + 1, i>> \notin enqueued
      BY <3>2 DEF EnqueuedInOrder
    <3> QED
      BY <3>1, <3>3 DEF PlacesFollowPool
  <2>2. Counted' = {}
    BY <2>1 DEF Counted
  <2> QED
    BY <2>2, FS_EmptySet
<1>10. MainKnows' /\ NoLostLatchWakeup'
  BY <1>1, <1>2 DEF MainKnows, NoLostLatchWakeup
<1> QED
  BY <1>4, <1>5, <1>6, <1>7, <1>8, <1>9, <1>10

\* Collect takes the batches and begins to destroy the pool.
LEMMA TakeMoves ==
  ASSUME Control, TakeBatches
  PROVE  Control'
<1>0. UNCHANGED <<main, pipe, nextId, holder, count, pc>>
  BY DEF TakeBatches, frameVars, taskVars
<1>1. main = "destroy" /\ Pool!Destroy
  BY DEF TakeBatches
<1>2. PoolFacts!Next
  BY <1>1 DEF Pool!Destroy, PoolFacts!Destroy, PoolFacts!Next
<1>3. PoolInv'
  BY <1>2, PoolStepKeeps DEF Control
<1>4. enqueued' = enqueued /\ finished' = finished
  BY <1>1 DEF Pool!Destroy
<1> USE <1>0, <1>1, <1>4 DEF Control
<1>5. ControlTypeOK' /\ OneHolder' /\ NoLostLatchWakeup' /\ MainKnows'
  BY DEF ControlTypeOK, OneHolder, NoLostLatchWakeup, MainKnows
<1>6. EnqueuedInOrder' /\ PlacesFollowPool' /\ LatchCounts'
  BY DEF EnqueuedInOrder, PlacesFollowPool, LatchCounts, Counted
<1> QED
  BY <1>3, <1>5, <1>6

\* A failing read ends the process.
LEMMA ThrowMoves ==
  ASSUME Control, NEW w \in ThreadIds, NEW t \in TaskId, Runs(w, t, "get"),
         main' = "terminated",
         UNCHANGED <<poolVars, pipe, nextId, frameVars, pc>>
  PROVE  Control'
<1>0. main \in {"enqueue", "await", "asleep", "terminated"}
  BY RunningTask
<1> USE DEF Control, poolVars, frameVars
<1>1. PoolInv'
  BY PoolStepKeeps DEF PoolFacts!vars
<1>2. ControlTypeOK' /\ OneHolder' /\ NoLostLatchWakeup'
  BY DEF ControlTypeOK, OneHolder, NoLostLatchWakeup, MainPlace
<1>3. EnqueuedInOrder' /\ PlacesFollowPool' /\ MainKnows'
  BY <1>0 DEF EnqueuedInOrder, PlacesFollowPool, MainKnows
<1>4. LatchCounts'
  BY <1>0 DEF LatchCounts, Counted
<1> QED
  BY <1>1, <1>2, <1>3, <1>4

\* The source hands a batch, or none, to a task.
LEMMA GetMoves ==
  ASSUME Control, NEW w \in ThreadIds, GetData(w)
  PROVE  Control'
<1>1. PICK t \in TaskId :
        /\ Runs(w, t, "get")
        /\ ScanChunk(t) \/ ReadThrows(t) \/ TakeOnly(t)
        /\ UNCHANGED <<poolVars, pipe, nextId, answer, frameVars>>
  BY DEF GetData
<1>2. CASE ReadThrows(t)
  BY <1>1, <1>2, ThrowMoves DEF ReadThrows
<1>3. CASE ScanChunk(t) \/ TakeOnly(t)
  <2>1. main' = main /\ ((\E b : Begin(t, b)) \/ LeaveLoop(t))
    BY <1>3 DEF ScanChunk, TakeOnly
  <2>2. PICK l \in {"get", "transform", "sink", "latch"} : pc' = [pc EXCEPT ![t] = l]
    BY <2>1 DEF Begin, LeaveLoop
  <2>3. l \in TaskPlace \ {"notify", "unlock", "end"}
    BY DEF TaskPlace
  <2>4. UNCHANGED <<poolVars, mainVars, frameVars>>
    BY <1>1, <2>1 DEF mainVars
  <2> QED
    BY <1>1, <2>2, <2>3, <2>4, TaskMoves
<1> QED
  BY <1>1, <1>2, <1>3

\* The batch goes through a transform, into the sink, or is asked about.
LEMMA BatchMoves ==
  ASSUME Control, NEW w \in ThreadIds,
         \/ Transform(w) \/ LimitExecute(w) \/ MarkDone(w) \/ PollDone(w) \/ Sink(w)
  PROVE  Control'
<1>1. PICK t \in TaskId, k \in {"transform", "markDone", "pollDone", "sink"},
           l \in {"get", "transform", "markDone", "pollDone", "sink", "latch"} :
        /\ Runs(w, t, k)
        /\ pc' = [pc EXCEPT ![t] = l]
        /\ UNCHANGED <<poolVars, mainVars, frameVars>>
  <2>1. CASE Transform(w)
    <3>1. PICK t, b, n :
            /\ t \in TaskId
            /\ Runs(w, t, "transform") /\ Forward(t, b, n)
            /\ UNCHANGED <<poolVars, mainVars, frameVars>>
      BY <2>1, Zenon DEF Transform
    <3>2. \E l \in {"get", "transform", "sink"} : pc' = [pc EXCEPT ![t] = l]
      BY <3>1 DEF Forward
    <3> QED
      BY <3>1, <3>2
  <2>2. CASE LimitExecute(w)
    BY <2>2, Zenon DEF LimitExecute
  <2>3. CASE MarkDone(w)
    BY <2>3 DEF MarkDone, StopOrForward, Forward
  <2>4. CASE PollDone(w)
    BY <2>4 DEF PollDone, StopOrForward, Forward
  <2>5. CASE Sink(w)
    BY <2>5 DEF Sink
  <2> QED
    BY <2>1, <2>2, <2>3, <2>4, <2>5, Zenon
<1>2. l \in TaskPlace \ {"notify", "unlock", "end"}
  BY DEF TaskPlace
<1> QED
  BY <1>1, <1>2, TaskMoves

\* Every step keeps the control.
LEMMA ControlStep == Control /\ [Next]_vars => Control'
<1> SUFFICES ASSUME Control, [Next]_vars
             PROVE  Control'
  OBVIOUS
<1>1. CASE UNCHANGED vars
  <2> USE <1>1 DEF vars, poolVars, mainVars, frameVars, taskVars, Control
  <2>1. PoolInv'
    BY PoolStepKeeps DEF PoolFacts!vars
  <2>2. ControlTypeOK' /\ OneHolder' /\ NoLostLatchWakeup' /\ MainKnows'
    BY DEF ControlTypeOK, OneHolder, NoLostLatchWakeup, MainKnows
  <2>3. EnqueuedInOrder' /\ PlacesFollowPool' /\ LatchCounts'
    BY DEF EnqueuedInOrder, PlacesFollowPool, LatchCounts, Counted
  <2> QED
    BY <2>1, <2>2, <2>3
<1>2. CASE MainStep
  BY <1>2, EnqueueMoves, LeaveMoves, WaitMoves, FinalizeMoves, TakeMoves DEF MainStep
<1>3. CASE SpuriousWake
  BY <1>3, WaitMoves
<1>4. ASSUME NEW w \in ThreadIds, WorkerStep(w) \/ PoolSpuriousWake(w)
      PROVE  Control'
  BY <1>4, PoolMoves, GetMoves, BatchMoves, LatchMoves, NotifyMoves, UnlockMoves
  DEF WorkerStep
<1> QED
  BY <1>1, <1>2, <1>3, <1>4 DEF Next, Over

\* The latch is a barrier.
LEMMA ControlBarrier == Control => BarrierHolds
<1> SUFFICES ASSUME Control, NEW t \in Unfinished
             PROVE  t[1] = pipe /\ main \in {"enqueue", "await", "asleep", "terminated"}
  BY DEF BarrierHolds
<1>1. t \in TaskId /\ t[1] <= pipe /\ pc[t] # "end"
  BY Numbers DEF Unfinished, Control, EnqueuedInOrder, ControlTypeOK
<1>2. t[1] = pipe /\ t = <<pipe, t[2]>> /\ t[2] \in ThreadIds
  BY <1>1, Numbers DEF Control, PlacesFollowPool, ControlTypeOK
<1>3. main \notin {"finalize", "destroy", "done"}
  BY <1>1, <1>2 DEF Control, MainKnows
<1> QED
  BY <1>2, <1>3 DEF Control, ControlTypeOK, MainPlace

\* No task outlives the frame of the Execute it belongs to: whatever the number
\* of threads and the order in which they run, the latch holds Execute back
\* until the last task has released wait_mutex.
THEOREM LatchIsBarrier == Spec => []BarrierHolds
BY ControlInit, ControlStep, ControlBarrier, PTL DEF Spec

\* The thread in Collect never sleeps on a notification that has been given.
THEOREM LatchWakes == Spec => []NoLostLatchWakeup
<1>1. Control => NoLostLatchWakeup
  BY DEF Control
<1> QED
  BY <1>1, ControlInit, ControlStep, PTL DEF Spec

-----------------------------------------------------------------------------
(* The data. *)

\* The table and the limits of the plan.
LEMMA PlanTypes ==
  /\ Table \in Seq(Seq(Rows))
  /\ \A c \in DOMAIN Table : Table[c] \in Seq(Rows)
  /\ FlattenSeq(Table) \in Seq(Rows)
  /\ \A p \in Pipelines : Transforms[p] \in Seq(TransformOperator)
  /\ \A p \in Pipelines : Len(Transforms[p]) \in Nat
  /\ \A l \in Limits : /\ l[1] \in Pipelines /\ l = <<l[1], l[2]>>
                       /\ l[2] \in 1..Len(Transforms[l[1]])
                       /\ Transforms[l[1]][l[2]].n \in Nat
<1>1. /\ Table \in Seq(Seq(Rows))
      /\ Transforms \in Seq(Seq(TransformOperator))
  BY QueryAssumption, Zenon DEF QueryAssumption
<1>2. \A c \in DOMAIN Table : Table[c] \in Seq(Rows)
  BY <1>1, ElementOfSeq, LenProperties
<1>3. FlattenSeq(Table) \in Seq(Rows)
  BY <1>1, FlattenType
<1>4. \A p \in Pipelines : Transforms[p] \in Seq(TransformOperator)
  BY <1>1, ElementOfSeq, LenProperties DEF Pipelines
<1>5. \A p \in Pipelines : /\ Len(Transforms[p]) \in Nat
                           /\ DOMAIN Transforms[p] = 1..Len(Transforms[p])
  BY <1>4, LenProperties
<1>6. ASSUME NEW l \in Limits
      PROVE  /\ l[1] \in Pipelines /\ l = <<l[1], l[2]>>
             /\ l[2] \in 1..Len(Transforms[l[1]])
             /\ Transforms[l[1]][l[2]].n \in Nat
  <2>1. /\ l[1] \in Pipelines /\ l = <<l[1], l[2]>>
        /\ l[2] \in 1..Len(Transforms[l[1]])
        /\ Transforms[l[1]][l[2]].kind = "limit"
    BY <1>5 DEF Limits
  <2>2. Transforms[l[1]][l[2]] \in TransformOperator
    BY <1>4, <2>1, ElementOfSeq
  <2> QED
    BY <2>1, <2>2 DEF TransformOperator
<1> QED
  BY <1>1, <1>2, <1>3, <1>4, <1>5, <1>6

\* What a filter keeps of a batch, and what the threads' states merge into, are
\* sequences of rows.
LEMMA KeptType ==
  ASSUME NEW b \in Seq(Rows), NEW keep
  PROVE  Kept(b, keep) \in Seq(Rows)
<1> DEFINE pieces == [i \in DOMAIN b |-> IF b[i] \in keep THEN <<b[i]>> ELSE <<>>]
<1>1. DOMAIN b = 1..Len(b) /\ Len(b) \in Nat /\ \A i \in DOMAIN b : b[i] \in Rows
  BY ElementOfSeq, LenProperties
<1>2. \A i \in DOMAIN b : pieces[i] \in Seq(Rows)
  BY <1>1
<1>3. pieces \in [1..Len(b) -> Seq(Rows)]
  BY <1>1, <1>2
<1>4. pieces \in Seq(Seq(Rows))
  BY <1>1, <1>3, SeqDef
<1> QED
  BY <1>4, FlattenType DEF Kept

\* What the states of the threads merge into is a sequence of rows.
LEMMA MergedType ==
  ASSUME DataTypeOK, NEW p \in Pipelines
  PROVE  Merged(p) \in Seq(Rows)
<1> DEFINE states == [i \in ThreadIds |-> gathered[<<p, i>>]]
<1>1. \A i \in ThreadIds : states[i] \in Seq(Rows)
  BY Numbers DEF DataTypeOK
<1>2. states \in [1..NumThreads -> Seq(Rows)]
  BY <1>1 DEF ThreadIds
<1>3. states \in Seq(Seq(Rows))
  <2> HIDE DEF states
  <2> QED
    BY <1>2, Numbers, IsSequence
<1> QED
  BY <1>3, FlattenType DEF Merged

\* At first.
LEMMA DataInit == Init => Data
<1> SUFFICES ASSUME Init
             PROVE  Data
  OBVIOUS
<1> USE DEF Init
<1>1. \A t \in TaskId : Len(Transforms[t[1]]) \in Nat /\ Len(Transforms[t[1]]) >= 0
  BY Numbers, PlanTypes
<1>2. DataTypeOK
  BY <1>1, EmptySeq DEF DataTypeOK
<1>3. BatchesInPlace
  BY <1>1 DEF BatchesInPlace
<1>4. DoneMeansFull /\ StopsOnlyWhenFull
  BY DEF DoneMeansFull, StopsOnlyWhenFull
<1> QED
  BY <1>2, <1>3, <1>4 DEF Data

\* Where a task goes that does not leave a limit, or only asks about it.
LEMMA BatchPlace ==
  ASSUME Data, ControlTypeOK, NEW t \in TaskId,
         NEW k \in TaskPlace \ {"markDone", "pollDone"}, NEW n \in Nat,
         pc' = [pc EXCEPT ![t] = k], applied' = [applied EXCEPT ![t] = n],
         curRows' = curRows,
         n <= Len(Transforms[t[1]]),
         k = "transform" => n < Len(Transforms[t[1]]),
         k = "get" => n = 0
  PROVE  /\ applied' \in [TaskId -> Nat]
         /\ \A u \in TaskId : applied'[u] <= Len(Transforms[u[1]])
         /\ BatchesInPlace'
<1>1. /\ applied' \in [TaskId -> Nat]
      /\ \A u \in TaskId : applied'[u] <= Len(Transforms[u[1]])
  BY DEF Data, DataTypeOK
<1>2. ASSUME NEW u \in TaskId, u # t
      PROVE  pc'[u] = pc[u] /\ applied'[u] = applied[u]
  BY <1>2 DEF Data, DataTypeOK, ControlTypeOK
<1>3. pc'[t] = k /\ applied'[t] = n
  BY DEF Data, DataTypeOK, ControlTypeOK
<1>4. BatchesInPlace'
  BY <1>2, <1>3 DEF Data, BatchesInPlace
<1> QED
  BY <1>1, <1>4

\* What a step that leaves the limits alone cannot disturb.
LEMMA LimitsAlone ==
  ASSUME Data, UNCHANGED <<curRows, done, stopping>>
  PROVE  DoneMeansFull' /\ StopsOnlyWhenFull'
BY DEF Data, DoneMeansFull, StopsOnlyWhenFull

\* The source hands a batch, or none, to a task.
LEMMA GetKeeps ==
  ASSUME Data, ControlTypeOK, NEW w \in ThreadIds, GetData(w)
  PROVE  Data'
<1>1. PICK t \in TaskId :
        /\ Runs(w, t, "get")
        /\ ScanChunk(t) \/ ReadThrows(t) \/ TakeOnly(t)
        /\ UNCHANGED <<poolVars, pipe, nextId, answer, frameVars, stopping, limVars,
                       sinkVars, broken>>
  BY DEF GetData
<1>a. /\ UNCHANGED <<answer, stopping, curRows, done, gathered, result, broken>>
      /\ pc[t] = "get" /\ applied[t] = 0 /\ applied \in [TaskId -> Nat]
      /\ t[1] \in Pipelines /\ Len(Transforms[t[1]]) \in Nat
  BY <1>1, Numbers, PlanTypes
  DEF Runs, limVars, sinkVars, Data, DataTypeOK, BatchesInPlace
<1>2. DoneMeansFull' /\ StopsOnlyWhenFull'
  BY <1>a, LimitsAlone
<1>3. CASE ReadThrows(t)
  <2>1. UNCHANGED <<cursor, emitted, ready, pc, batch, applied>>
    BY <1>3 DEF ReadThrows
  <2>2. DataTypeOK' /\ BatchesInPlace'
    BY <1>a, <2>1 DEF Data, DataTypeOK, BatchesInPlace
  <2> QED
    BY <1>2, <2>2 DEF Data
<1>4. CASE ScanChunk(t) \/ TakeOnly(t)
  <2>1. /\ cursor' \in Nat
        /\ emitted' \in [Pipelines -> BOOLEAN]
        /\ ready' = ready
    <3>1. cursor \in Nat /\ emitted \in [Pipelines -> BOOLEAN]
      BY DEF Data, DataTypeOK
    <3>2. CASE ScanChunk(t)
      BY <3>1, <3>2 DEF ScanChunk
    <3>3. CASE TakeOnly(t)
      BY <3>1, <3>3 DEF TakeOnly
    <3> QED
      BY <1>4, <3>2, <3>3
  <2>2. (\E b \in Seq(Rows) : Begin(t, b)) \/ LeaveLoop(t)
    <3>1. CASE ScanChunk(t)
      BY <3>1, PlanTypes DEF ScanChunk
    <3>2. CASE TakeOnly(t) /\ ~LeaveLoop(t)
      <4> DEFINE all == IF t[1] = 1 THEN FlattenSeq(Table) ELSE ready[t[1] - 1]
      <4>1. t[1] # 1 => t[1] - 1 \in Pipelines
        BY <1>a, Numbers
      <4>2. all \in Seq(Rows)
        BY <4>1, PlanTypes DEF Data, DataTypeOK
      <4>3. Begin(t, all)
        BY <3>2 DEF TakeOnly
      <4> QED
        BY <4>2, <4>3
    <3> QED
      BY <1>4, <3>1, <3>2
  <2>3. PICK k \in {"get", "transform", "sink", "latch"} :
          /\ pc' = [pc EXCEPT ![t] = k]
          /\ k = "transform" => Transforms[t[1]] # <<>>
          /\ applied' = applied
          /\ batch' \in [TaskId -> Seq(Rows)]
    BY <2>2 DEF Begin, LeaveLoop, Data, DataTypeOK
  <2>4. k = "transform" => 0 < Len(Transforms[t[1]])
    BY <1>a, <2>3, PlanTypes, EmptySeq
  <2>5. applied' = [applied EXCEPT ![t] = 0]
    BY <1>a, <2>3
  <2>6. /\ k \in TaskPlace \ {"markDone", "pollDone"}
        /\ 0 \in Nat /\ 0 <= Len(Transforms[t[1]]) /\ curRows' = curRows
    BY <1>a DEF TaskPlace
  <2>7. /\ applied' \in [TaskId -> Nat]
        /\ \A u \in TaskId : applied'[u] <= Len(Transforms[u[1]])
        /\ BatchesInPlace'
    BY <1>a, <2>3, <2>4, <2>5, <2>6, BatchPlace
  <2>8. DataTypeOK'
    BY <1>a, <2>1, <2>3, <2>7 DEF Data, DataTypeOK
  <2> QED
    BY <1>2, <2>7, <2>8 DEF Data
<1> QED
  BY <1>1, <1>3, <1>4

\* Execute's loop over the transforms goes on.
LEMMA ForwardKeeps ==
  ASSUME Data, ControlTypeOK, NEW t \in TaskId, NEW b \in Seq(Rows), NEW n \in Nat,
         n <= Len(Transforms[t[1]]), Forward(t, b, n), curRows' = curRows
  PROVE  /\ batch' \in [TaskId -> Seq(Rows)]
         /\ applied' \in [TaskId -> Nat]
         /\ \A u \in TaskId : applied'[u] <= Len(Transforms[u[1]])
         /\ BatchesInPlace'
<1>1. PICK k \in {"get", "sink", "transform"}, m \in {0, n} :
        /\ pc' = [pc EXCEPT ![t] = k]
        /\ applied' = [applied EXCEPT ![t] = m]
        /\ k = "transform" => m = n /\ n # Len(Transforms[t[1]])
        /\ k = "get" => m = 0
  BY DEF Forward
<1>2. Len(Transforms[t[1]]) \in Nat
  BY Numbers, PlanTypes
<1>3. m \in Nat /\ m <= Len(Transforms[t[1]]) /\ k \in TaskPlace \ {"markDone", "pollDone"}
  BY <1>2 DEF TaskPlace
<1>4. k = "transform" => m < Len(Transforms[t[1]])
  BY <1>1, <1>2
<1>5. batch' \in [TaskId -> Seq(Rows)]
  BY DEF Forward, Data, DataTypeOK
<1> QED
  BY <1>1, <1>3, <1>4, <1>5, BatchPlace

\* The batch of a task that is about to enter a transform.
LEMMA EnteringBatch ==
  ASSUME Data, NEW t \in TaskId, pc[t] = "transform"
  PROVE  /\ batch[t] \in Seq(Rows) /\ applied[t] + 1 \in Nat
         /\ applied[t] + 1 <= Len(Transforms[t[1]])
<1>1. batch[t] \in Seq(Rows) /\ applied[t] \in Nat
  BY DEF Data, DataTypeOK
<1>2. applied[t] < Len(Transforms[t[1]])
  BY DEF Data, BatchesInPlace
<1>3. Len(Transforms[t[1]]) \in Nat
  BY Numbers, PlanTypes
<1> QED
  BY <1>1, <1>2, <1>3

\* A transform without state.
LEMMA TransformKeeps ==
  ASSUME Data, ControlTypeOK, NEW w \in ThreadIds, Transform(w)
  PROVE  Data'
<1>1. PICK t \in TaskId :
        /\ Runs(w, t, "transform")
        /\ Forward(t, IF Transforms[t[1]][applied[t] + 1].kind = "filter"
                        THEN Kept(batch[t], Transforms[t[1]][applied[t] + 1].keep)
                        ELSE batch[t], applied[t] + 1)
        /\ UNCHANGED <<mainVars, stopping, srcVars, limVars, sinkVars, broken>>
  BY DEF Transform
<1>2. /\ batch[t] \in Seq(Rows) /\ applied[t] + 1 \in Nat
      /\ applied[t] + 1 <= Len(Transforms[t[1]])
  BY <1>1, EnteringBatch DEF Runs
<1>3. PICK b \in Seq(Rows) : Forward(t, b, applied[t] + 1)
  BY <1>1, <1>2, KeptType
<1>4. UNCHANGED <<answer, stopping, cursor, emitted, ready, curRows, done, gathered,
                  result, broken>>
  BY <1>1 DEF mainVars, srcVars, limVars, sinkVars
<1>5. /\ batch' \in [TaskId -> Seq(Rows)]
      /\ applied' \in [TaskId -> Nat]
      /\ \A u \in TaskId : applied'[u] <= Len(Transforms[u[1]])
      /\ BatchesInPlace'
  BY <1>2, <1>3, <1>4, ForwardKeeps
<1>6. DataTypeOK'
  BY <1>4, <1>5, SMTT(30) DEF Data, DataTypeOK
<1> QED
  BY <1>4, <1>5, <1>6, LimitsAlone DEF Data

\* A limit counts the rows of a batch.
LEMMA LimitKeeps ==
  ASSUME Data, ControlTypeOK, NEW w \in ThreadIds, LimitExecute(w)
  PROVE  Data'
<1> DEFINE n(t) == applied[t] + 1
           l(t) == <<t[1], n(t)>>
           old(t) == curRows[l(t)]
           limit(t) == Transforms[t[1]][n(t)].n
           size(t) == Len(batch[t])
<1>1. PICK t \in TaskId :
        /\ Runs(w, t, "transform")
        /\ l(t) \in Limits
        /\ curRows' = [curRows EXCEPT ![l(t)] = old(t) + size(t)]
        /\ batch' = [batch EXCEPT ![t] =
                       IF old(t) >= limit(t) THEN <<>>
                       ELSE IF size(t) <= limit(t) - old(t) THEN batch[t]
                       ELSE SubSeq(batch[t], 1, limit(t) - old(t))]
        /\ applied' = [applied EXCEPT ![t] = n(t)]
        /\ pc' = [pc EXCEPT ![t] = IF LimitReached(old(t), size(t), limit(t))
                                     THEN "markDone" ELSE "pollDone"]
        /\ UNCHANGED <<mainVars, stopping, srcVars, done, sinkVars, broken>>
  BY DEF LimitExecute
<1>2. /\ batch[t] \in Seq(Rows) /\ n(t) \in Nat /\ n(t) <= Len(Transforms[t[1]])
      /\ limit(t) \in Nat /\ old(t) \in Nat /\ size(t) \in Nat
  <2>1. batch[t] \in Seq(Rows) /\ n(t) \in Nat /\ n(t) <= Len(Transforms[t[1]])
    BY <1>1, EnteringBatch DEF Runs
  <2>2. size(t) \in Nat
    BY <2>1, LenProperties
  <2>3. old(t) \in Nat
    BY <1>1 DEF Data, DataTypeOK
  <2>4. Transforms[l(t)[1]][l(t)[2]].n \in Nat
    BY <1>1, PlanTypes
  <2> QED
    BY <2>1, <2>2, <2>3, <2>4
<1>3. UNCHANGED <<answer, stopping, cursor, emitted, ready, done, gathered, result,
                  broken>>
  BY <1>1 DEF mainVars, srcVars, sinkVars
<1> HIDE DEF n, old, limit, size
<1>4. /\ curRows' \in [Limits -> Nat]
      /\ \A m \in Limits : curRows'[m] >= curRows[m]
      /\ curRows'[l(t)] = old(t) + size(t)
  <2>1. old(t) = curRows[l(t)]
    BY DEF old
  <2> HIDE DEF l
  <2> QED
    BY <1>1, <1>2, <2>1 DEF Data, DataTypeOK
<1>5. batch' \in [TaskId -> Seq(Rows)]
  <2>1. ASSUME ~(old(t) >= limit(t)), ~(size(t) <= limit(t) - old(t))
        PROVE  SubSeq(batch[t], 1, limit(t) - old(t)) \in Seq(Rows)
    <3>1. PICK m : m = limit(t) - old(t)
      OBVIOUS
    <3>2. m \in Nat /\ 1 \in Nat /\ m <= Len(batch[t]) /\ 1 <= m
      BY <1>2, <2>1, <3>1 DEF size
    <3>3. \A i \in 1..m : batch[t][i] \in Rows
      BY <1>2, <3>2, ElementOfSeq, LenProperties
    <3>4. SubSeq(batch[t], 1, m) \in Seq(Rows)
      BY <1>2, <3>2, <3>3, SubSeqProperties
    <3> QED
      BY <3>1, <3>4
  <2>2. <<>> \in Seq(Rows)
    BY EmptySeq
  <2> QED
    BY <1>1, <1>2, <2>1, <2>2 DEF Data, DataTypeOK
<1>6. /\ applied' \in [TaskId -> Nat]
      /\ \A u \in TaskId : applied'[u] <= Len(Transforms[u[1]])
  BY <1>1, <1>2 DEF Data, DataTypeOK
<1>7. DataTypeOK'
  BY <1>3, <1>4, <1>5, <1>6 DEF Data, DataTypeOK
<1>8. BatchesInPlace'
  <2>1. ASSUME NEW u \in TaskId, u # t
        PROVE  /\ pc'[u] = "get" => applied'[u] = 0
               /\ pc'[u] = "transform" => applied'[u] < Len(Transforms[u[1]])
               /\ pc'[u] \in {"markDone", "pollDone"} => <<u[1], applied'[u]>> \in Limits
               /\ pc'[u] = "markDone" =>
                    curRows'[<<u[1], applied'[u]>>] >= Transforms[u[1]][applied'[u]].n
    <3>1. pc'[u] = pc[u] /\ applied'[u] = applied[u]
      BY <1>1, <2>1 DEF Data, DataTypeOK, ControlTypeOK
    <3>2. ASSUME pc[u] = "markDone"
          PROVE  curRows'[<<u[1], applied[u]>>] >= Transforms[u[1]][applied[u]].n
      <4>1. PICK m \in Limits : m = <<u[1], applied[u]>>
        BY <3>2 DEF Data, BatchesInPlace
      <4>2. curRows[m] >= Transforms[m[1]][m[2]].n
        BY <3>2, <4>1 DEF Data, BatchesInPlace
      <4>3. curRows'[m] >= curRows[m] /\ curRows'[m] \in Nat /\ curRows[m] \in Nat
            /\ Transforms[m[1]][m[2]].n \in Nat
        BY <1>4, PlanTypes DEF Data, DataTypeOK
      <4>4. curRows'[m] >= Transforms[m[1]][m[2]].n
        BY <4>2, <4>3
      <4> QED
        BY <4>1, <4>4
    <3> QED
      BY <3>1, <3>2 DEF Data, BatchesInPlace
  <2>2. /\ applied'[t] = n(t)
        /\ pc'[t] = IF LimitReached(old(t), size(t), limit(t)) THEN "markDone" ELSE "pollDone"
    BY <1>1 DEF Data, DataTypeOK, ControlTypeOK
  <2>3. pc'[t] = "markDone" => curRows'[l(t)] >= limit(t)
    BY <1>2, <1>4, <2>2 DEF LimitReached
  <2>4. /\ pc'[t] \in {"markDone", "pollDone"}
        /\ <<t[1], applied'[t]>> = l(t)
        /\ Transforms[t[1]][applied'[t]].n = limit(t)
    BY <2>2 DEF limit
  <2>5. /\ pc'[t] \notin {"get", "transform"}
        /\ <<t[1], applied'[t]>> \in Limits
        /\ pc'[t] = "markDone" =>
             curRows'[<<t[1], applied'[t]>>] >= Transforms[t[1]][applied'[t]].n
    BY <1>1, <2>3, <2>4
  <2> QED
    BY <2>1, <2>5 DEF BatchesInPlace
<1>9. ASSUME NEW m \in Limits, curRows[m] >= Transforms[m[1]][m[2]].n
      PROVE  curRows'[m] >= Transforms[m[1]][m[2]].n
  <2>1. /\ curRows'[m] \in Nat /\ curRows[m] \in Nat /\ curRows'[m] >= curRows[m]
        /\ Transforms[m[1]][m[2]].n \in Nat
    BY <1>4, PlanTypes DEF Data, DataTypeOK
  <2> QED
    BY <1>9, <2>1
<1>10. DoneMeansFull' /\ StopsOnlyWhenFull'
  BY <1>3, <1>9 DEF Data, DoneMeansFull, StopsOnlyWhenFull
<1> QED
  BY <1>7, <1>8, <1>10 DEF Data

\* After a limit: the loop is left, and then a limit of this pipeline is full,
\* or it goes on.
LEMMA StopKeeps ==
  ASSUME Data, ControlTypeOK, NEW t \in TaskId, NEW isDone \in BOOLEAN,
         pc[t] \in {"markDone", "pollDone"},
         StopOrForward(t, isDone),
         isDone => curRows[<<t[1], applied[t]>>] >= Transforms[t[1]][applied[t]].n,
         UNCHANGED <<mainVars, srcVars, curRows, sinkVars, broken>>,
         done' \in [Limits -> BOOLEAN], DoneMeansFull'
  PROVE  Data'
<1> DEFINE l == <<t[1], applied[t]>>
<1>1. l \in Limits
  BY DEF Data, BatchesInPlace
<1>2. /\ batch[t] \in Seq(Rows) /\ applied[t] \in Nat
      /\ applied[t] <= Len(Transforms[t[1]])
  BY DEF Data, DataTypeOK
<1>3. UNCHANGED <<answer, cursor, emitted, ready, curRows, gathered, result, broken>>
  BY DEF mainVars, srcVars, sinkVars
<1>4. /\ batch' \in [TaskId -> Seq(Rows)]
      /\ applied' \in [TaskId -> Nat]
      /\ \A u \in TaskId : applied'[u] <= Len(Transforms[u[1]])
      /\ BatchesInPlace'
  <2>1. CASE isDone
    <3>1. pc' = [pc EXCEPT ![t] = "sink"] /\ UNCHANGED <<batch, applied>>
      BY <2>1 DEF StopOrForward
    <3>2. applied' = [applied EXCEPT ![t] = applied[t]]
      BY <3>1 DEF Data, DataTypeOK
    <3>3. "sink" \in TaskPlace \ {"markDone", "pollDone"} /\ curRows' = curRows
      BY <1>3 DEF TaskPlace
    <3>4. batch' \in [TaskId -> Seq(Rows)]
      BY <3>1 DEF Data, DataTypeOK
    <3> QED
      BY <1>2, <3>1, <3>2, <3>3, <3>4, BatchPlace
  <2>2. CASE ~isDone
    BY <1>2, <1>3, <2>2, ForwardKeeps DEF StopOrForward
  <2> QED
    BY <2>1, <2>2
<1>5. stopping' \in [TaskId -> BOOLEAN] /\ \A u \in TaskId : stopping'[u] =>
        stopping[u] \/ (u = t /\ isDone)
  BY DEF StopOrForward, Data, DataTypeOK
<1>6. DataTypeOK'
  BY <1>3, <1>4, <1>5 DEF Data, DataTypeOK
<1>7. StopsOnlyWhenFull'
  <2> SUFFICES ASSUME NEW u \in TaskId, stopping'[u]
               PROVE  \E m \in Limits : m[1] = u[1] /\ curRows[m] >= Transforms[m[1]][m[2]].n
    BY <1>3 DEF StopsOnlyWhenFull
  <2>1. CASE stopping[u]
    BY <2>1 DEF Data, StopsOnlyWhenFull
  <2>2. CASE u = t /\ isDone
    <3>1. l[1] = u[1] /\ curRows[l] >= Transforms[l[1]][l[2]].n
      BY <2>2
    <3> QED
      BY <1>1, <3>1
  <2> QED
    BY <1>5, <2>1, <2>2
<1> QED
  BY <1>4, <1>6, <1>7 DEF Data

\* The limit is marked done.
LEMMA MarkKeeps ==
  ASSUME Data, ControlTypeOK, NEW w \in ThreadIds, MarkDone(w)
  PROVE  Data'
<1>1. PICK t \in TaskId :
        /\ Runs(w, t, "markDone")
        /\ done' = [done EXCEPT ![<<t[1], applied[t]>>] = TRUE]
        /\ StopOrForward(t, batch[t] # <<>>)
        /\ UNCHANGED <<mainVars, srcVars, curRows, sinkVars, broken>>
  BY DEF MarkDone
<1>2. pc[t] = "markDone"
  BY <1>1 DEF Runs
<1>3. PICK l \in Limits : l = <<t[1], applied[t]>>
  BY <1>2 DEF Data, BatchesInPlace
<1>4. curRows[l] >= Transforms[l[1]][l[2]].n
  BY <1>2, <1>3 DEF Data, BatchesInPlace
<1>5. done' \in [Limits -> BOOLEAN]
  BY <1>1, <1>3 DEF Data, DataTypeOK
<1>6. DoneMeansFull'
  <2>1. \A m \in Limits : done'[m] => done[m] \/ m = l
    BY <1>1, <1>3 DEF Data, DataTypeOK
  <2> QED
    BY <1>1, <1>4, <2>1 DEF Data, DoneMeansFull
<1>7. PICK d \in BOOLEAN : d = (batch[t] # <<>>)
  OBVIOUS
<1>8. StopOrForward(t, d)
  BY <1>1, <1>7
<1>9. curRows[<<t[1], applied[t]>>] >= Transforms[t[1]][applied[t]].n
  BY <1>3, <1>4
<1> QED
  BY <1>1, <1>2, <1>5, <1>6, <1>8, <1>9, StopKeeps

\* The limit is asked whether it is done.
LEMMA PollKeeps ==
  ASSUME Data, ControlTypeOK, NEW w \in ThreadIds, PollDone(w)
  PROVE  Data'
<1>1. PICK t \in TaskId :
        /\ Runs(w, t, "pollDone")
        /\ \E seen \in {FALSE, done[<<t[1], applied[t]>>]} :
             StopOrForward(t, seen /\ batch[t] # <<>>)
        /\ UNCHANGED <<mainVars, srcVars, limVars, sinkVars, broken>>
  BY DEF PollDone
<1>2. pc[t] = "pollDone" /\ UNCHANGED <<curRows, done>>
  BY <1>1 DEF Runs, limVars
<1>3. PICK l \in Limits : l = <<t[1], applied[t]>>
  BY <1>2 DEF Data, BatchesInPlace
<1>4. PICK seen \in {FALSE, done[l]} : StopOrForward(t, seen /\ batch[t] # <<>>)
  BY <1>1, <1>3
<1>5. PICK d \in BOOLEAN : d = (seen /\ batch[t] # <<>>)
  OBVIOUS
<1>6. StopOrForward(t, d)
  BY <1>4, <1>5
<1>7. d => curRows[l] >= Transforms[l[1]][l[2]].n
  BY <1>4, <1>5 DEF Data, DoneMeansFull
<1>8. done' \in [Limits -> BOOLEAN] /\ DoneMeansFull'
  BY <1>2 DEF Data, DataTypeOK, DoneMeansFull
<1>9. d => curRows[<<t[1], applied[t]>>] >= Transforms[t[1]][applied[t]].n
  BY <1>3, <1>7
<1> QED
  BY <1>1, <1>2, <1>6, <1>8, <1>9, StopKeeps

\* The sink takes the batch.
LEMMA SinkKeeps ==
  ASSUME Data, ControlTypeOK, NEW w \in ThreadIds, Sink(w)
  PROVE  Data'
<1>1. PICK t \in TaskId :
        /\ Runs(w, t, "sink")
        /\ IF t[1] + 1 \in Pipelines
             THEN /\ gathered' = [gathered EXCEPT ![t] = @ \o batch[t]]
                  /\ UNCHANGED result
             ELSE /\ result' = Append(result, batch[t])
                  /\ UNCHANGED gathered
        /\ pc' = [pc EXCEPT ![t] = IF stopping[t] THEN "latch" ELSE "get"]
        /\ batch' = [batch EXCEPT ![t] = <<>>]
        /\ applied' = [applied EXCEPT ![t] = 0]
        /\ stopping' = [stopping EXCEPT ![t] = FALSE]
        /\ UNCHANGED <<mainVars, srcVars, limVars, broken>>
  BY DEF Sink
<1>2. UNCHANGED <<answer, cursor, emitted, ready, curRows, done, broken>>
  BY <1>1 DEF mainVars, srcVars, limVars
<1>3. PICK b \in Seq(Rows) : b = batch[t]
  BY DEF Data, DataTypeOK
<1>4. PICK g \in Seq(Rows) : g = gathered[t]
  BY DEF Data, DataTypeOK
<1>5. gathered' \in [TaskId -> Seq(Rows)] /\ result' \in Seq(Seq(Rows))
  <2>1. g \o b \in Seq(Rows) /\ Append(result, b) \in Seq(Seq(Rows))
    BY ConcatProperties, AppendProperties DEF Data, DataTypeOK
  <2>2. CASE t[1] + 1 \in Pipelines
    <3>1. gathered' = [gathered EXCEPT ![t] = g \o b] /\ result' = result
      BY <1>1, <1>3, <1>4, <2>2
    <3>2. PICK h \in Seq(Rows) : h = g \o b
      BY <2>1
    <3> QED
      BY <3>1, <3>2 DEF Data, DataTypeOK
  <2>3. CASE t[1] + 1 \notin Pipelines
    BY <1>1, <1>3, <2>1, <2>3 DEF Data, DataTypeOK
  <2> QED
    BY <2>2, <2>3
<1>6. batch' \in [TaskId -> Seq(Rows)] /\ stopping' \in [TaskId -> BOOLEAN]
  <2>1. <<>> \in Seq(Rows)
    BY EmptySeq
  <2> QED
    BY <1>1, <2>1 DEF Data, DataTypeOK
<1>7. PICK k \in {"latch", "get"} : pc' = [pc EXCEPT ![t] = k]
  BY <1>1
<1>8. /\ k \in TaskPlace \ {"markDone", "pollDone"}
      /\ 0 \in Nat /\ 0 <= Len(Transforms[t[1]]) /\ k # "transform"
  BY Numbers, PlanTypes DEF TaskPlace
<1>9. /\ applied' \in [TaskId -> Nat]
      /\ \A u \in TaskId : applied'[u] <= Len(Transforms[u[1]])
      /\ BatchesInPlace'
  BY <1>1, <1>2, <1>7, <1>8, BatchPlace
<1>10. DataTypeOK'
  BY <1>2, <1>5, <1>6, <1>9 DEF Data, DataTypeOK
<1>11. DoneMeansFull' /\ StopsOnlyWhenFull'
  <2>1. \A u \in TaskId : stopping'[u] => stopping[u]
    BY <1>1 DEF Data, DataTypeOK
  <2> QED
    BY <1>2, <2>1 DEF Data, DoneMeansFull, StopsOnlyWhenFull
<1> QED
  BY <1>9, <1>10, <1>11 DEF Data

\* At the latch a task touches no data.
LEMMA LatchKeeps ==
  ASSUME Data, ControlTypeOK, NEW w \in ThreadIds,
         Latch(w) \/ NotifyMain(w) \/ Unlock(w)
  PROVE  Data'
<1>1. PICK t \in TaskId, k \in {"notify", "unlock", "end"} :
        /\ pc' = [pc EXCEPT ![t] = k]
        /\ UNCHANGED <<answer, batch, applied, stopping, srcVars, limVars, sinkVars,
                       broken>>
  BY DEF Latch, NotifyMain, Unlock, mainVars
<1>2. UNCHANGED <<answer, batch, applied, stopping, cursor, emitted, ready, curRows,
                  done, gathered, result, broken>>
  BY <1>1 DEF srcVars, limVars, sinkVars
<1>3. DataTypeOK'
  BY <1>2 DEF Data, DataTypeOK
<1>4. BatchesInPlace'
  BY <1>1, <1>2 DEF Data, BatchesInPlace, ControlTypeOK
<1> QED
  BY <1>2, <1>3, <1>4, LimitsAlone DEF Data

\* Steps of Collect's thread, and of the pool.
LEMMA MainKeeps ==
  ASSUME Data, ControlTypeOK, Finalize \/ TakeBatches
  PROVE  Data'
<1>1. UNCHANGED <<pc, batch, applied, stopping, cursor, emitted, curRows, done, broken>>
  BY DEF Finalize, TakeBatches, taskVars, srcVars, limVars
<1>2. answer' \in Seq(Seq(Rows)) /\ result' \in Seq(Seq(Rows))
  BY EmptySeq DEF Finalize, TakeBatches, Data, DataTypeOK
<1>3. ready' \in [Pipelines -> Seq(Rows)] /\ gathered' \in [TaskId -> Seq(Rows)]
  <2>1. CASE Finalize /\ pipe + 1 \in Pipelines
    <3>1. PICK m \in Seq(Rows) : m = Merged(pipe)
      BY MergedType DEF Data, ControlTypeOK
    <3>2. ready' = [ready EXCEPT ![pipe] = m]
      BY <2>1, <3>1 DEF Finalize
    <3>3. gathered' = [t \in TaskId |-> IF t[1] = pipe THEN <<>> ELSE gathered[t]]
      BY <2>1 DEF Finalize
    <3>4. <<>> \in Seq(Rows)
      BY EmptySeq
    <3> QED
      BY <3>2, <3>3, <3>4 DEF Data, DataTypeOK
  <2>2. CASE ~(Finalize /\ pipe + 1 \in Pipelines)
    BY <2>2 DEF Finalize, TakeBatches, srcVars, Data, DataTypeOK
  <2> QED
    BY <2>1, <2>2
<1>4. DataTypeOK'
  BY <1>1, <1>2, <1>3 DEF Data, DataTypeOK
<1>5. BatchesInPlace'
  BY <1>1 DEF Data, BatchesInPlace
<1> QED
  BY <1>1, <1>4, <1>5, LimitsAlone DEF Data

\* A step that touches none of the data.
LEMMA UnchangedKeeps ==
  ASSUME Data,
         UNCHANGED <<answer, taskVars, srcVars, limVars, sinkVars, broken>>
  PROVE  Data'
<1>1. UNCHANGED <<answer, pc, batch, applied, stopping, cursor, emitted, ready, curRows,
                  done, gathered, result, broken>>
  BY DEF taskVars, srcVars, limVars, sinkVars
<1>2. DataTypeOK' /\ BatchesInPlace'
  BY <1>1 DEF Data, DataTypeOK, BatchesInPlace
<1> QED
  BY <1>1, <1>2, LimitsAlone DEF Data

\* Every step keeps the data.
LEMMA DataStep == Control /\ Data /\ [Next]_vars => Data'
<1> SUFFICES ASSUME Control, Data, [Next]_vars
             PROVE  Data'
  OBVIOUS
<1>0. ControlTypeOK
  BY DEF Control
<1>1. CASE UNCHANGED vars
  BY <1>1, UnchangedKeeps DEF vars, mainVars
<1>2. CASE MainStep \/ SpuriousWake
  <2>1. CASE EnqueueTask \/ LeavePool \/ Await \/ SpuriousWake
    BY <2>1, UnchangedKeeps DEF EnqueueTask, LeavePool, Await, SpuriousWake
  <2> QED
    BY <1>0, <1>2, <2>1, MainKeeps DEF MainStep
<1>3. ASSUME NEW w \in ThreadIds, WorkerStep(w) \/ PoolSpuriousWake(w)
      PROVE  Data'
  <2>1. CASE PoolStep(w) \/ PoolSpuriousWake(w)
    BY <2>1, UnchangedKeeps DEF PoolStep, PoolSpuriousWake, mainVars
  <2> QED
    BY <1>0, <1>3, <2>1, GetKeeps, TransformKeeps, LimitKeeps, MarkKeeps, PollKeeps,
       SinkKeeps, LatchKeeps DEF WorkerStep
<1> QED
  BY <1>1, <1>2, <1>3 DEF Next, Over

\* Every variable keeps the type of what it models.
THEOREM TypeCorrect == Spec => []TypeOK
<1>1. Control /\ Data => TypeOK
  <2>1. PoolFacts!TypeOK => Pool!TypeOK
    BY DEF Pool!TypeOK, PoolFacts!TypeOK, Pool!OwnerPlace, PoolFacts!OwnerPlace,
           Pool!WorkerPlace, PoolFacts!WorkerPlace
  <2>2. Control => Pool!TypeOK
    BY <2>1 DEF Control, PoolInv, PoolFacts!Typed
  <2> QED
    BY <2>2 DEF Control, ControlTypeOK, Data, DataTypeOK, TypeOK
<1> QED
  BY <1>1, ControlInit, ControlStep, DataInit, DataStep, PTL DEF Spec

\* A task gives up its source early only when a limit has let through all the
\* rows it may, although threads may see done_ late.
THEOREM StopsWhenFull == Spec => []StopsOnlyWhenFull
<1>1. Data => StopsOnlyWhenFull
  BY DEF Data
<1> QED
  BY <1>1, ControlInit, ControlStep, DataInit, DataStep, PTL DEF Spec

-----------------------------------------------------------------------------
(***************************************************************************)
(* Every step of QueryExecution is a step of QueryPlan, or none: whatever  *)
(* the number of threads and the order in which they run, a pipeline       *)
(* delivers rows that its transforms may leave of its source, each once.   *)
(*                                                                         *)
(* The invariant accounts for every row drawn from the source of the       *)
(* current pipeline.  It is in the hands of one thread, or sunk, or was    *)
(* dropped by a filter or cut off by the limit; a row that passes the      *)
(* filters is dropped by nothing else; and cur_rows_ counts the rows that  *)
(* reached the limit, so what the limit has let through is as much as it   *)
(* had to.  When Execute finalizes no row is in hand, and either the       *)
(* source is dry or the limit is full: what is sunk is then an outcome of  *)
(* the plan.                                                               *)
(***************************************************************************)

-----------------------------------------------------------------------------
(* What the transforms of a pipeline leave of a set of rows. *)

\* The row r goes through the filters among the first n transforms of ch.
Passes(ch, r, n) == \A i \in 1..n : ch[i].kind = "filter" => r \in ch[i].keep

\* The rows of S that do.
Survivors(ch, S, n) == {r \in S : Passes(ch, r, n)}

\* Does the chain end in a limit, and which?
EndsInLimit(ch) == ch # <<>> /\ ch[Len(ch)].kind = "limit"
Bound(ch)       == ch[Len(ch)].n
Least(m, n)     == IF m < n THEN m ELSE n

\* Only the last transform is a limit.
LimitIsLast(ch) == \A i \in 1..Len(ch) : ch[i].kind = "limit" => i = Len(ch)

\* The chains of transforms that Execute goes through to their end.
Chains == {ch \in Seq(TransformOperator) : LimitIsLast(ch)}

\* The kinds of transforms.
LEMMA ChainIs ==
  ASSUME NEW ch \in Chains
  PROVE  /\ Len(ch) \in Nat /\ (ch = <<>> <=> Len(ch) = 0)
         /\ \A i \in 1..Len(ch) : ch[i] \in TransformOperator
         /\ \A i \in 1..Len(ch) : ch[i].kind \in {"map", "filter", "limit"}
         /\ \A i \in 1..Len(ch) : ch[i].kind = "limit" => i = Len(ch) /\ EndsInLimit(ch)
         /\ EndsInLimit(ch) => Len(ch) > 0 /\ Bound(ch) \in Nat /\ ch[Len(ch)].kind = "limit"
<1>1. ch \in Seq(TransformOperator) /\ LimitIsLast(ch)
  BY DEF Chains
<1>2. Len(ch) \in Nat /\ (ch = <<>> <=> Len(ch) = 0) /\ \A i \in 1..Len(ch) : ch[i] \in TransformOperator
  BY <1>1, LenProperties, ElementOfSeq, EmptySeq
<1>3. ASSUME NEW tr \in TransformOperator
      PROVE  tr.kind \in {"map", "filter", "limit"} /\ (tr.kind = "limit" => tr.n \in Nat)
  BY DEF TransformOperator
<1>4. EndsInLimit(ch) => Len(ch) > 0 /\ Len(ch) \in 1..Len(ch)
  BY <1>2 DEF EndsInLimit
<1>5. EndsInLimit(ch) => Bound(ch) \in Nat
  BY <1>2, <1>3, <1>4 DEF EndsInLimit, Bound
<1>6. \A i \in 1..Len(ch) : ch[i].kind = "limit" => i = Len(ch)
  BY <1>1 DEF LimitIsLast
<1>7. \A i \in 1..Len(ch) : ch # <<>>
  BY <1>2
<1> QED
  BY <1>2, <1>3, <1>4, <1>5, <1>6, <1>7 DEF EndsInLimit

\* A row that goes through n + 1 transforms goes through n, and through the next.
LEMMA PassesNext ==
  ASSUME NEW ch \in Chains, NEW n \in Nat, n < Len(ch), NEW r
  PROVE  /\ Passes(ch, r, 0)
         /\ Passes(ch, r, n + 1) <=> /\ Passes(ch, r, n)
                                     /\ ch[n + 1].kind = "filter" => r \in ch[n + 1].keep
<1>1. \A i \in 1..(n + 1) : i \in 1..n \/ i = n + 1
  OBVIOUS
<1>2. n + 1 \in 1..(n + 1) /\ \A i \in 1..n : i \in 1..(n + 1)
  OBVIOUS
<1>3. 1..0 = {}
  OBVIOUS
<1> QED
  BY <1>1, <1>2, <1>3, Zenon DEF Passes

\* One that goes through all goes through the first ones.
LEMMA PassesFewer ==
  ASSUME NEW ch, NEW m \in Nat, NEW n \in 0..m, NEW r, Passes(ch, r, m)
  PROVE  Passes(ch, r, n)
<1>1. \A i \in 1..n : i \in 1..m
  OBVIOUS
<1> QED
  BY <1>1, Zenon DEF Passes

-----------------------------------------------------------------------------
(* What QueryPlan makes of it. *)

\* The library's operators, under the name of the instance.
LEMMA SameSets ==
  /\ \A S : Plan!Cardinality(S) = Cardinality(S)
  /\ \A n, S : Plan!kSubset(n, S) = {T \in SUBSET S : Cardinality(T) = n}
<1>1. \A S : Plan!Cardinality(S) = Cardinality(S)
  BY Zenon DEF Plan!Cardinality, Cardinality
<1> QED
  BY <1>1, Zenon DEF Plan!kSubset

\* What one transform leaves.
LEMMA AfterIs ==
  ASSUME NEW tr \in TransformOperator, NEW S
  PROVE  /\ tr.kind = "filter" => Plan!After(S, tr) = {S \cap tr.keep}
         /\ tr.kind = "map" => Plan!After(S, tr) = {S}
         /\ tr.kind = "limit" =>
              Plan!After(S, tr) =
                {T \in SUBSET S : Cardinality(T) = IF tr.n < Cardinality(S) THEN tr.n ELSE Cardinality(S)}
         /\ Plan!After(S, tr) \subseteq SUBSET S
<1>1. tr.kind \in {"map", "filter", "limit"}
  BY DEF TransformOperator
<1>2. CASE tr.kind = "filter"
  BY <1>2 DEF Plan!After
<1>3. CASE tr.kind = "map"
  BY <1>3 DEF Plan!After
<1>4. CASE tr.kind = "limit"
  BY <1>4, SameSets DEF Plan!After
<1> QED
  BY <1>1, <1>2, <1>3, <1>4

\* The sets behind each transform.
Behinds(F, ch, S) == /\ F[0] = {S}
                     /\ \A n \in 1..Len(ch) : F[n] = UNION {Plan!After(R, ch[n]) : R \in F[n - 1]}

\* Plan!Outcomes is the last of them.
LEMMA OutcomesAre ==
  ASSUME NEW p \in Pipelines, NEW S
  PROVE  \E F : Behinds(F, Transforms[p], S) /\ Plan!Outcomes(p, S) = F[Len(Transforms[p])]
<1> DEFINE ch == Transforms[p]
           m == Len(ch)
           Is(F) == F = [n \in 0..m |-> IF n = 0 THEN {S}
                                        ELSE UNION {Plan!After(R, ch[n]) : R \in F[n - 1]}]
           H == CHOOSE F : Is(F)
<1>1. Plan!Outcomes(p, S) = H[m]
  BY Zenon DEF Plan!Outcomes
<1>2. m \in Nat /\ \A n \in 1..m : ch[n] \in TransformOperator
  BY PlanTypes, LenProperties, ElementOfSeq
<1> HIDE DEF ch, m
<1>3. \E F : Is(F)
  <2> DEFINE X == SUBSET (SUBSET S)
             g == [n \in 1..m |-> [sets \in X |-> UNION {Plan!After(R, ch[n]) : R \in sets}]]
  <2>1. ASSUME NEW n \in 1..m, NEW sets \in X
        PROVE  UNION {Plan!After(R, ch[n]) : R \in sets} \in X
    <3>1. \A R \in sets : Plan!After(R, ch[n]) \subseteq SUBSET R
      BY <1>2, AfterIs
    <3> QED
      BY <3>1
  <2>2. g \in [1..m -> [X -> X]] /\ {S} \in X
    BY <2>1
  <2>3. \A n \in 1..m : \A sets \in X : g[n][sets] = UNION {Plan!After(R, ch[n]) : R \in sets}
    OBVIOUS
  <2> HIDE DEF X, g
  <2>4. PICK F \in [0..m -> X] : Recurs(F, m, {S}, g)
    BY <1>2, <2>2, RecursionExists
  <2>5. ASSUME NEW n \in 0..m
        PROVE  F[n] = IF n = 0 THEN {S} ELSE UNION {Plan!After(R, ch[n]) : R \in F[n - 1]}
    <3>1. CASE n = 0
      BY <2>4, <3>1 DEF Recurs
    <3>2. CASE n # 0
      <4>1. n \in 1..m /\ n - 1 \in 0..m
        BY <1>2, <3>2
      <4>2. F[n] = g[n][F[n - 1]] /\ F[n - 1] \in X
        BY <2>4, <4>1 DEF Recurs
      <4> QED
        BY <2>3, <3>2, <4>1, <4>2
    <3> QED
      BY <3>1, <3>2
  <2>6. F = [n \in 0..m |-> F[n]]
    BY <2>4
  <2>7. Is(F)
    BY <2>5, <2>6, Zenon
  <2> QED
    BY <2>7
<1>4. Is(H)
  BY <1>3, Zenon
<1> HIDE DEF H
<1>5. Behinds(H, ch, S)
  <2>1. H[0] = {S}
    <3>1. 0 \in 0..m
      BY <1>2
    <3> QED
      BY <1>4, <3>1
  <2>2. ASSUME NEW n \in 1..m
        PROVE  H[n] = UNION {Plan!After(R, ch[n]) : R \in H[n - 1]}
    <3>1. n \in 0..m /\ n # 0
      BY <1>2
    <3> QED
      BY <1>4, <3>1
  <2> QED
    BY <2>1, <2>2, Zenon DEF Behinds, m
<1> QED
  BY <1>1, <1>5, Zenon DEF ch, m

\* What an ordinary pipeline may leave of the rows S.
LEMMA MayLeave ==
  ASSUME NEW p \in Pipelines, Transforms[p] \in Chains, NEW S, NEW P,
         LET ch == Transforms[p]
             all == Survivors(ch, S, Len(ch))
         IN IF EndsInLimit(ch)
              THEN P \subseteq all /\ Cardinality(P) = Least(Bound(ch), Cardinality(all))
              ELSE P = all
  PROVE  P \in Plan!Outcomes(p, S)
<1>1. PICK ch, m : ch = Transforms[p] /\ m = Len(ch)
  OBVIOUS
<1>2. PICK F : Behinds(F, ch, S) /\ Plan!Outcomes(p, S) = F[m]
  BY <1>1, OutcomesAre
<1>3. /\ ch \in Chains /\ m \in Nat /\ \A i \in 1..m : ch[i] \in TransformOperator
      /\ \A i \in 1..m : ch[i].kind \in {"map", "filter", "limit"}
      /\ \A i \in 1..m : ch[i].kind = "limit" => i = m /\ EndsInLimit(ch)
      /\ EndsInLimit(ch) => m > 0 /\ ch[m].kind = "limit"
  BY <1>1, ChainIs
<1> DEFINE T == {n \in Nat : n < m \/ (n = m /\ ~EndsInLimit(ch)) => F[n] = {Survivors(ch, S, n)}}
<1>4. 0 \in T
  <2>1. Survivors(ch, S, 0) = S
    <3>1. 1..0 = {}
      OBVIOUS
    <3> QED
      BY <3>1 DEF Survivors, Passes
  <2> QED
    BY <1>2, <2>1 DEF Behinds
<1>5. ASSUME NEW n \in Nat, n \in T
      PROVE  n + 1 \in T
  <2> SUFFICES ASSUME n + 1 < m \/ (n + 1 = m /\ ~EndsInLimit(ch))
               PROVE  F[n + 1] = {Survivors(ch, S, n + 1)}
    OBVIOUS
  <2>1. /\ n < m /\ n + 1 \in 1..m /\ (n + 1) - 1 = n
        /\ ch[n + 1].kind \in {"map", "filter"}
    BY <1>3
  <2>2. F[n] = {Survivors(ch, S, n)}
    BY <1>5, <2>1
  <2>3. F[n + 1] = UNION {Plan!After(R, ch[n + 1]) : R \in F[(n + 1) - 1]}
    BY <1>1, <1>2, <2>1, Zenon DEF Behinds
  <2>4. F[n + 1] = Plan!After(Survivors(ch, S, n), ch[n + 1])
    BY <2>1, <2>2, <2>3
  <2>5. \A r : Passes(ch, r, n + 1) <=> /\ Passes(ch, r, n)
                                        /\ ch[n + 1].kind = "filter" => r \in ch[n + 1].keep
    BY <1>1, <1>3, <2>1, PassesNext
  <2>6. CASE ch[n + 1].kind = "map"
    <3>1. Survivors(ch, S, n + 1) = Survivors(ch, S, n)
      BY <2>5, <2>6 DEF Survivors
    <3> QED
      BY <1>3, <2>1, <2>4, <2>6, <3>1, AfterIs
  <2>7. CASE ch[n + 1].kind = "filter"
    <3>1. Survivors(ch, S, n + 1) = Survivors(ch, S, n) \cap ch[n + 1].keep
      BY <2>5, <2>7 DEF Survivors
    <3>2. ch[n + 1] \in TransformOperator
      BY <1>3, <2>1
    <3>3. Plan!After(Survivors(ch, S, n), ch[n + 1]) = {Survivors(ch, S, n) \cap ch[n + 1].keep}
      BY <2>7, <3>2, AfterIs
    <3> QED
      BY ONLY <2>4, <3>1, <3>3
  <2> QED
    BY <2>1, <2>6, <2>7
<1> HIDE DEF T
<1>6. \A n \in Nat : n \in T
  BY <1>4, <1>5, SetInduction
<1> USE DEF T
<1>7. CASE EndsInLimit(ch)
  <2>1. PICK k : k \in Nat /\ m = k + 1
    <3>1. m - 1 \in Nat /\ m = (m - 1) + 1
      BY <1>3, <1>7
    <3> QED
      BY <3>1
  <2>2. k \in Nat /\ k < m /\ k + 1 \in 1..m /\ m \in 1..m /\ m - 1 = k
    BY <1>3, <1>7, <2>1
  <2>3. F[k] = {Survivors(ch, S, k)}
    BY <1>6, <2>2
  <2>4. F[m] = Plan!After(Survivors(ch, S, k), ch[m])
    <3>1. F[m] = UNION {Plan!After(R, ch[m]) : R \in F[k]}
      BY <1>1, <1>2, <2>2 DEF Behinds
    <3> QED
      BY ONLY <2>3, <3>1
  <2>5. Survivors(ch, S, m) = Survivors(ch, S, k)
    <3>0. ch \in Chains /\ k \in Nat /\ k < Len(ch) /\ ch[k + 1].kind # "filter"
      BY <1>1, <1>3, <1>7, <2>1, <2>2
    <3>1. ASSUME NEW r
          PROVE  Passes(ch, r, k + 1) <=> Passes(ch, r, k)
      BY ONLY <3>0, PassesNext, Zenon
    <3>2. Survivors(ch, S, k + 1) = Survivors(ch, S, k)
      BY ONLY <3>1, Zenon DEF Survivors
    <3> QED
      BY ONLY <2>1, <3>2
  <2>6. P \subseteq Survivors(ch, S, m) /\ Cardinality(P) = Least(ch[m].n, Cardinality(Survivors(ch, S, m)))
    BY <1>1, <1>7 DEF Bound
  <2>7. ch[m] \in TransformOperator /\ ch[m].kind = "limit"
    BY <1>3, <1>7, <2>2
  <2> QED
    BY <1>2, <2>4, <2>5, <2>6, <2>7, AfterIs DEF Least
<1>8. CASE ~EndsInLimit(ch)
  BY <1>1, <1>2, <1>3, <1>6, <1>8
<1> QED
  BY <1>7, <1>8

-----------------------------------------------------------------------------
(* The account of the rows.  H[i] is the set of the rows that thread i has   *)
(* in hand, A[i] the number of transforms they have gone through, P the set  *)
(* of the rows in the sink, D of those drawn from the source, and c what the *)
(* limit at the end of the chain ch, if there is one, has counted.           *)

\* The rows before the last transform, and those behind it.
Ahead(ch, H, A)   == UNION {H[i] : i \in {j \in ThreadIds : A[j] < Len(ch)}}
Past(ch, H, A, P) == P \cup UNION {H[i] : i \in {j \in ThreadIds : ~(A[j] < Len(ch))}}

\* Each drawn row is in at most one place.
RowsApart(H, P, D) ==
  /\ P \subseteq D
  /\ \A i \in ThreadIds : H[i] \subseteq D /\ H[i] \cap P = {}
  /\ \A i, j \in ThreadIds : i # j => H[i] \cap H[j] = {}

\* No row is behind a filter that does not keep it.
RowsPass(ch, H, A, P) ==
  /\ \A i \in ThreadIds : \A r \in H[i] : Passes(ch, r, A[i])
  /\ \A r \in P : Passes(ch, r, Len(ch))

\* Of the drawn rows that survive the filters, those that are not ahead of the
\* last transform are behind it; a limit has counted them and let through what
\* it must.
Balanced(ch, ahead, past, D, c) ==
  LET reached == Survivors(ch, D, Len(ch)) \ ahead
  IN IF EndsInLimit(ch)
       THEN Cardinality(reached) = c /\ Cardinality(past) = Least(Bound(ch), c)
       ELSE past = reached

\* Thread i alone has moved.
OnlyMoves(i, H, G) == \A j \in ThreadIds \ {i} : G[j] = H[j]

\* What a step of thread i leaves apart: it lets go of rows, moves some into the
\* sink, and draws new ones.
LEMMA StaysApart ==
  ASSUME NEW H, NEW P, NEW D, RowsApart(H, P, D), NEW i \in ThreadIds,
         NEW G, NEW X, NEW Z, NEW E,
         G[i] = X, OnlyMoves(i, H, G),
         Z \subseteq H[i], X \cap Z = {}, D \subseteq E, X \subseteq E, X \cap D \subseteq H[i]
  PROVE  RowsApart(G, P \cup Z, E)
<1>1. \A j \in ThreadIds : j = i \/ j \in ThreadIds \ {i}
  OBVIOUS
<1>2. P \cup Z \subseteq E /\ P \cap X = {}
  BY DEF RowsApart
<1>3. ASSUME NEW j \in ThreadIds \ {i}
      PROVE  G[j] \subseteq E /\ G[j] \cap (P \cup Z) = {} /\ G[j] \cap X = {}
  <2>1. G[j] = H[j] /\ H[j] \subseteq D /\ H[j] \cap P = {} /\ H[j] \cap H[i] = {}
    BY DEF RowsApart, OnlyMoves
  <2> QED
    BY <2>1
<1>4. \A j, k \in ThreadIds \ {i} : j # k => G[j] \cap G[k] = {}
  BY DEF RowsApart, OnlyMoves
<1> QED
  BY <1>1, <1>2, <1>3, <1>4 DEF RowsApart

\* The rows of the other threads.
RestAhead(ch, H, A, i)   == UNION {H[k] : k \in {j \in ThreadIds \ {i} : A[j] < Len(ch)}}
RestPast(ch, H, A, P, i) == P \cup UNION {H[k] : k \in {j \in ThreadIds \ {i} : ~(A[j] < Len(ch))}}

\* The rows of thread i are ahead or past, those of the others where they were.
LEMMA RowsSplit ==
  ASSUME NEW ch, NEW H, NEW A, NEW P, NEW i \in ThreadIds
  PROVE  /\ A[i] < Len(ch) => /\ Ahead(ch, H, A) = RestAhead(ch, H, A, i) \cup H[i]
                              /\ Past(ch, H, A, P) = RestPast(ch, H, A, P, i)
         /\ ~(A[i] < Len(ch)) => /\ Ahead(ch, H, A) = RestAhead(ch, H, A, i)
                                 /\ Past(ch, H, A, P) = RestPast(ch, H, A, P, i) \cup H[i]
<1>1. CASE A[i] < Len(ch)
  BY <1>1 DEF Ahead, Past, RestAhead, RestPast
<1>2. CASE ~(A[i] < Len(ch))
  BY <1>2 DEF Ahead, Past, RestAhead, RestPast
<1> QED
  BY <1>1, <1>2

\* Without any, it does not matter how far it is.
LEMMA NoRows ==
  ASSUME NEW ch, NEW H, NEW A, NEW P, NEW i \in ThreadIds, H[i] = {}
  PROVE  /\ Ahead(ch, H, A) = RestAhead(ch, H, A, i)
         /\ Past(ch, H, A, P) = RestPast(ch, H, A, P, i)
<1>1. \A j \in ThreadIds : \A r : r \in H[j] => j \in ThreadIds \ {i}
  OBVIOUS
<1>2. Ahead(ch, H, A) = RestAhead(ch, H, A, i)
  BY <1>1 DEF Ahead, RestAhead
<1>3. Past(ch, H, A, P) = RestPast(ch, H, A, P, i)
  BY <1>1 DEF Past, RestPast
<1> QED
  BY <1>2, <1>3

\* A step of thread i leaves the others where they are.
LEMMA RestStays ==
  ASSUME NEW ch, NEW H, NEW A, NEW P, NEW i \in ThreadIds, NEW G, NEW B,
         OnlyMoves(i, H, G), OnlyMoves(i, A, B)
  PROVE  /\ RestAhead(ch, G, B, i) = RestAhead(ch, H, A, i)
         /\ RestPast(ch, G, B, P, i) = RestPast(ch, H, A, P, i)
<1>1. {j \in ThreadIds \ {i} : B[j] < Len(ch)} = {j \in ThreadIds \ {i} : A[j] < Len(ch)}
  BY DEF OnlyMoves
<1>2. {j \in ThreadIds \ {i} : ~(B[j] < Len(ch))} = {j \in ThreadIds \ {i} : ~(A[j] < Len(ch))}
  BY DEF OnlyMoves
<1> QED
  BY <1>1, <1>2 DEF RestAhead, RestPast, OnlyMoves

\* They are apart from those of thread i.
LEMMA RestApart ==
  ASSUME NEW ch, NEW H, NEW A, NEW P, NEW D, RowsApart(H, P, D), NEW i \in ThreadIds
  PROVE  /\ RestAhead(ch, H, A, i) \cap H[i] = {}
         /\ RestPast(ch, H, A, P, i) \cap H[i] = {}
BY DEF RowsApart, RestAhead, RestPast

-----------------------------------------------------------------------------
(* The balance. *)

\* New rows are ahead.
LEMMA BalanceDraws ==
  ASSUME NEW ch, NEW a, NEW p, NEW D, NEW c, Balanced(ch, a, p, D, c),
         NEW X, X \cap D = {}
  PROVE  Balanced(ch, a \cup X, p, D \cup X, c)
<1>1. Survivors(ch, D \cup X, Len(ch)) \ (a \cup X) = Survivors(ch, D, Len(ch)) \ a
  BY DEF Survivors
<1> QED
  BY <1>1, Zenon DEF Balanced

\* Rows that do not survive are dropped.
LEMMA BalanceDrops ==
  ASSUME NEW ch, NEW a, NEW p, NEW D, NEW c, NEW X, NEW Y, Balanced(ch, a \cup Y, p, D, c),
         X \subseteq Y, \A r \in Y \ X : ~Passes(ch, r, Len(ch))
  PROVE  Balanced(ch, a \cup X, p, D, c)
<1>1. Survivors(ch, D, Len(ch)) \ (a \cup X) = Survivors(ch, D, Len(ch)) \ (a \cup Y)
  BY DEF Survivors
<1> QED
  BY <1>1, Zenon DEF Balanced

\* Rows go through the last transform, which is not a limit.
LEMMA BalancePasses ==
  ASSUME NEW ch, NEW a, NEW p, NEW D, NEW c, NEW X, NEW Y, Balanced(ch, a \cup Y, p, D, c),
         ~EndsInLimit(ch), Y \subseteq D, a \cap Y = {},
         X \subseteq Y, \A r \in Y : r \in X <=> Passes(ch, r, Len(ch))
  PROVE  Balanced(ch, a, p \cup X, D, c)
<1>1. Survivors(ch, D, Len(ch)) \ a = (Survivors(ch, D, Len(ch)) \ (a \cup Y)) \cup X
  BY DEF Survivors
<1> QED
  BY <1>1, Zenon DEF Balanced

\* Two sets without a common element.
LEMMA DisjointSize ==
  ASSUME NEW S, NEW T, IsFiniteSet(S), IsFiniteSet(T), S \cap T = {}
  PROVE  /\ Cardinality(S \cup T) = Cardinality(S) + Cardinality(T)
         /\ Cardinality(S) \in Nat /\ Cardinality(T) \in Nat
<1>1. Cardinality(S \cup T) = Cardinality(S) + Cardinality(T) - Cardinality(S \cap T)
  BY FS_Union
<1>2. Cardinality(S \cap T) = 0
  BY FS_EmptySet
<1>3. Cardinality(S) \in Nat /\ Cardinality(T) \in Nat
  BY FS_CardinalityType
<1> QED
  BY <1>1, <1>2, <1>3

\* Rows go through the limit.
LEMMA BalanceLimits ==
  ASSUME NEW ch \in Chains, NEW a, NEW p, NEW D, NEW c, NEW X, NEW Y, Balanced(ch, a \cup Y, p, D, c),
         EndsInLimit(ch), Y \subseteq D, a \cap Y = {},
         \A r \in Y : Passes(ch, r, Len(ch)),
         IsFiniteSet(D), p \subseteq D, p \cap Y = {}, X \subseteq Y,
         Cardinality(X) = IF c >= Bound(ch) THEN 0 ELSE Least(Cardinality(Y), Bound(ch) - c)
  PROVE  /\ c \in Nat
         /\ Balanced(ch, a, p \cup X, D, c + Cardinality(Y))
<1> DEFINE old == Survivors(ch, D, Len(ch)) \ (a \cup Y)
           new == Survivors(ch, D, Len(ch)) \ a
<1>1. new = old \cup Y /\ old \cap Y = {} /\ old \subseteq D
  BY DEF Survivors
<1>2. IsFiniteSet(old) /\ IsFiniteSet(Y) /\ IsFiniteSet(X) /\ IsFiniteSet(p)
  BY <1>1, FS_Subset
<1>3. Cardinality(old) = c /\ Cardinality(p) = Least(Bound(ch), c)
  BY Zenon DEF Balanced
<1> HIDE DEF old
<1>4. c \in Nat /\ Cardinality(Y) \in Nat /\ Bound(ch) \in Nat
  BY <1>2, <1>3, FS_CardinalityType, ChainIs
<1>5. Cardinality(new) = c + Cardinality(Y)
  <2>1. Cardinality(old \cup Y) = Cardinality(old) + Cardinality(Y)
    BY <1>1, <1>2, DisjointSize
  <2> QED
    BY <1>1, <1>3, <2>1
<1>6. Cardinality(p \cup X) = Least(Bound(ch), c + Cardinality(Y))
  <2>1. p \cap X = {}
    OBVIOUS
  <2>2. Cardinality(p \cup X) = Cardinality(p) + Cardinality(X)
    BY <1>2, <2>1, DisjointSize
  <2>3. PICK b, y, x, q, z : b = Bound(ch) /\ y = Cardinality(Y) /\ x = Cardinality(X) /\ q = Cardinality(p)
                             /\ z = Cardinality(p \cup X)
    OBVIOUS
  <2>4. /\ b \in Nat /\ y \in Nat /\ c \in Nat /\ z = q + x
        /\ q = IF b < c THEN b ELSE c
        /\ x = IF c >= b THEN 0 ELSE IF y < b - c THEN y ELSE b - c
    BY <1>3, <1>4, <2>2, <2>3 DEF Least
  <2>5. z = IF b < c + y THEN b ELSE c + y
    BY ONLY <2>4
  <2> QED
    BY ONLY <2>3, <2>5 DEF Least
<1> QED
  BY <1>4, <1>5, <1>6, Zenon DEF Balanced, new

\* At the end no row is ahead: the source is dry, or the limit full.
LEMMA BalanceEnds ==
  ASSUME NEW ch \in Chains, NEW p, NEW D, NEW c, Balanced(ch, {}, p, D, c),
         p \subseteq Survivors(ch, D, Len(ch)), NEW S, D \subseteq S, IsFiniteSet(S),
         D = S \/ (EndsInLimit(ch) /\ c >= Bound(ch))
  PROVE  LET all == Survivors(ch, S, Len(ch))
         IN IF EndsInLimit(ch)
              THEN p \subseteq all /\ Cardinality(p) = Least(Bound(ch), Cardinality(all))
              ELSE p = all
<1> DEFINE all == Survivors(ch, S, Len(ch))
           reached == Survivors(ch, D, Len(ch))
<1>1. reached \subseteq all /\ all \subseteq S /\ p \subseteq all /\ reached \ {} = reached
  BY DEF Survivors
<1>2. D = S => reached = all
  OBVIOUS
<1>3. CASE EndsInLimit(ch)
  <2>1. Cardinality(reached) = c /\ Cardinality(p) = Least(Bound(ch), c)
    BY <1>1, <1>3 DEF Balanced
  <2>2. /\ IsFiniteSet(all) /\ IsFiniteSet(reached)
        /\ Cardinality(reached) <= Cardinality(all)
    <3> HIDE DEF all, reached
    <3> QED
      BY <1>1, FS_Subset
  <2>3. Cardinality(reached) \in Nat /\ Cardinality(all) \in Nat /\ Bound(ch) \in Nat
    BY <1>3, <2>2, FS_CardinalityType, ChainIs
  <2>4. Cardinality(reached) = Cardinality(all) \/ c >= Bound(ch)
    BY <1>2
  <2> HIDE DEF all, reached
  <2>5. Least(Bound(ch), c) = Least(Bound(ch), Cardinality(all))
    BY <2>1, <2>2, <2>3, <2>4 DEF Least
  <2>6. p \subseteq all /\ Cardinality(p) = Least(Bound(ch), Cardinality(all))
    BY <1>1, <2>1, <2>5
  <2> QED
    BY <1>3, <2>6, Zenon DEF all
<1>4. CASE ~EndsInLimit(ch)
  <2>1. p = reached
    BY <1>1, <1>4 DEF Balanced
  <2> QED
    BY <1>1, <1>2, <1>4, <2>1
<1> QED
  BY <1>3, <1>4

-----------------------------------------------------------------------------
(* Batches, as sequences without repetition. *)

\* Their length.
LEMMA BatchSize ==
  ASSUME NEW S, NEW b \in Seq(S), IsInjective(b)
  PROVE  IsFiniteSet(ToSet(b)) /\ Cardinality(ToSet(b)) = Len(b)
<1>1. PICK m \in Nat : m = Len(b) /\ DOMAIN b = 1..m
  BY LenProperties
<1>2. ToSet(b) = {b[j] : j \in 1..m}
  BY <1>1, Zenon DEF ToSet
<1>3. \A i, j \in 1..m : b[i] = b[j] => i = j
  BY <1>1, Zenon DEF IsInjective
<1>4. IsFiniteSet({b[j] : j \in 1..m}) /\ Cardinality({b[j] : j \in 1..m}) = m
  BY ONLY <1>3, FirstElements
<1> QED
  BY <1>1, <1>2, <1>4, Zenon

\* The rows of a batch, and of none.
LEMMA BatchRows ==
  ASSUME NEW S, NEW b \in Seq(S)
  PROVE  /\ ToSet(b) \subseteq S
         /\ b = <<>> <=> ToSet(b) = {}
         /\ IsInjective(<<>>) /\ ToSet(<<>>) = {}
<1>1. Len(b) \in Nat /\ DOMAIN b = 1..Len(b) /\ \A i \in 1..Len(b) : b[i] \in S
  BY LenProperties, ElementOfSeq
<1>2. DOMAIN <<>> = {}
  OBVIOUS
<1>3. ToSet(<<>>) = {} /\ IsInjective(<<>>)
  BY <1>2 DEF ToSet, IsInjective
<1>4. ToSet(b) \subseteq S
  BY <1>1 DEF ToSet
<1>5. ASSUME b # <<>>
      PROVE  ToSet(b) # {}
  <2>1. 1 \in DOMAIN b
    BY <1>1, <1>5, EmptySeq
  <2> QED
    BY <2>1, Zenon DEF ToSet
<1> QED
  BY <1>3, <1>4, <1>5

\* What a filter keeps.
LEMMA KeptRows ==
  ASSUME NEW S, NEW b \in Seq(S), NEW keep
  PROVE  /\ ToSet(Kept(b, keep)) = ToSet(b) \cap keep
         /\ IsInjective(b) => IsInjective(Kept(b, keep))
<1> DEFINE piece(i) == IF b[i] \in keep THEN <<b[i]>> ELSE <<>>
           pieces == [i \in DOMAIN b |-> piece(i)]
<1>1. Len(b) \in Nat /\ DOMAIN b = 1..Len(b) /\ \A i \in 1..Len(b) : b[i] \in S
  BY LenProperties, ElementOfSeq
<1>2. \A i \in DOMAIN b : piece(i) \in Seq(S)
  BY <1>1
<1>3. pieces \in Seq(Seq(S)) /\ DOMAIN pieces = DOMAIN b
  <2>1. pieces \in [1..Len(b) -> Seq(S)]
    BY <1>1, <1>2
  <2> QED
    BY <1>1, <2>1, IsSequence
<1>4. Kept(b, keep) = FlattenSeq(pieces)
  BY DEF Kept
<1>5. ASSUME NEW x
      PROVE  /\ ToSet(<<x>>) = {x} /\ IsInjective(<<x>>)
             /\ ToSet(<<>>) = {} /\ IsInjective(<<>>)
  BY DEF ToSet, IsInjective
<1>6. \A i \in DOMAIN b : /\ IsInjective(pieces[i])
                          /\ ToSet(pieces[i]) = IF b[i] \in keep THEN {b[i]} ELSE {}
  BY <1>5
<1> HIDE DEF pieces
<1>7. Members(pieces) = ToSet(b) \cap keep
  <2>1. \A x : x \in Members(pieces) <=> \E i \in DOMAIN b : x \in ToSet(pieces[i])
    BY <1>3, Zenon DEF Members
  <2>2. \A x : x \in ToSet(b) <=> \E i \in DOMAIN b : x = b[i]
    BY Zenon DEF ToSet
  <2>3. \A i \in DOMAIN b : \A x : x \in ToSet(pieces[i]) <=> b[i] \in keep /\ x = b[i]
    BY <1>6
  <2>4. \A x : x \in Members(pieces) <=> x \in ToSet(b) /\ x \in keep
    <3> SUFFICES ASSUME NEW x
                 PROVE  x \in Members(pieces) <=> x \in ToSet(b) /\ x \in keep
      OBVIOUS
    <3>1. CASE x \in Members(pieces)
      <4>1. PICK i \in DOMAIN b : x \in ToSet(pieces[i])
        BY <2>1, <3>1, Zenon
      <4>2. b[i] \in keep /\ x = b[i]
        BY <2>3, <4>1, Zenon
      <4>3. x \in ToSet(b)
        BY <2>2, <4>2, Zenon
      <4> QED
        BY <3>1, <4>2, <4>3
    <3>2. CASE x \in ToSet(b) /\ x \in keep
      <4>1. PICK i \in DOMAIN b : x = b[i]
        BY <2>2, <3>2, Zenon
      <4>2. x \in ToSet(pieces[i])
        BY <2>3, <3>2, <4>1, Zenon
      <4> QED
        BY <2>1, <3>2, <4>2, Zenon
    <3> QED
      BY <3>1, <3>2, Zenon
  <2> QED
    BY ONLY <2>4
<1>8. ASSUME IsInjective(b)
      PROVE  Apart(pieces)
  <2>1. \A i, j \in DOMAIN b : i # j => b[i] # b[j]
    BY <1>8, Zenon DEF IsInjective
  <2>2. \A i, j \in DOMAIN pieces : i # j => ToSet(pieces[i]) \cap ToSet(pieces[j]) = {}
    <3> SUFFICES ASSUME NEW i \in DOMAIN b, NEW j \in DOMAIN b, i # j
                 PROVE  ToSet(pieces[i]) \cap ToSet(pieces[j]) = {}
      BY <1>3, Zenon
    <3>1. ToSet(pieces[i]) \subseteq {b[i]} /\ ToSet(pieces[j]) \subseteq {b[j]}
      BY <1>6
    <3>2. b[i] # b[j]
      BY <2>1
    <3> QED
      BY ONLY <3>1, <3>2
  <2> QED
    BY <1>3, <1>6, <2>2, ApartIs
<1> QED
  BY <1>3, <1>4, <1>7, <1>8, FlattenMembers

\* What is cut off behind the first m rows.
LEMMA CutRows ==
  ASSUME NEW S, NEW b \in Seq(S), IsInjective(b), NEW m \in 0..Len(b)
  PROVE  /\ SubSeq(b, 1, m) \in Seq(S)
         /\ IsInjective(SubSeq(b, 1, m))
         /\ ToSet(SubSeq(b, 1, m)) \subseteq ToSet(b)
         /\ Cardinality(ToSet(SubSeq(b, 1, m))) = m
<1>1. Len(b) \in Nat /\ DOMAIN b = 1..Len(b) /\ m \in Nat
  BY LenProperties
<1>2. PICK s : s = SubSeq(b, 1, m)
  OBVIOUS
<1>3. s \in Seq(S) /\ Len(s) = m /\ DOMAIN s = 1..m /\ \A i \in 1..m : s[i] = b[i] /\ i \in DOMAIN b
  BY <1>1, <1>2, SubSeqProperties, LenProperties
<1>4. IsInjective(s)
  BY <1>3, Zenon DEF IsInjective
<1>5. ToSet(s) \subseteq ToSet(b)
  BY <1>3, Zenon DEF ToSet
<1>6. Cardinality(ToSet(s)) = m
  BY <1>3, <1>4, BatchSize
<1> QED
  BY <1>2, <1>3, <1>4, <1>5, <1>6

\* A sequence without repetition is one of those that QueryPlan may choose.
LEMMA IsSetToSeqs ==
  ASSUME NEW S, NEW b \in Seq(S), IsInjective(b)
  PROVE  b \in Plan!SetToSeqs(ToSet(b))
<1>1. Len(b) \in Nat /\ DOMAIN b = 1..Len(b)
  BY LenProperties
<1>2. Plan!Cardinality(ToSet(b)) = Len(b)
  BY BatchSize, SameSets
<1>3. b \in [1..Len(b) -> ToSet(b)]
  <2>1. b = [i \in DOMAIN b |-> b[i]]
    OBVIOUS
  <2>2. \A i \in DOMAIN b : b[i] \in ToSet(b)
    BY Zenon DEF ToSet
  <2> QED
    BY <1>1, <2>1, <2>2
<1>4. \A i, j \in 1..Len(b) : i # j => b[i] # b[j]
  BY <1>1, Zenon DEF IsInjective
<1> QED
  BY <1>2, <1>3, <1>4 DEF Plan!SetToSeqs

-----------------------------------------------------------------------------
(* The account, step by step. *)

\* The whole account.
Accounted(ch, H, A, P, D, c) ==
  /\ RowsApart(H, P, D)
  /\ RowsPass(ch, H, A, P)
  /\ Balanced(ch, Ahead(ch, H, A), Past(ch, H, A, P), D, c)

\* The rows in hand still pass.
LEMMA StaysPassing ==
  ASSUME NEW ch, NEW H, NEW A, NEW P, RowsPass(ch, H, A, P),
         NEW i \in ThreadIds, NEW G, NEW B, OnlyMoves(i, H, G), OnlyMoves(i, A, B),
         NEW Z, \A r \in G[i] : Passes(ch, r, B[i]), \A r \in Z : Passes(ch, r, Len(ch))
  PROVE  RowsPass(ch, G, B, P \cup Z)
<1>1. \A j \in ThreadIds : j = i \/ j \in ThreadIds \ {i}
  OBVIOUS
<1>2. ASSUME NEW j \in ThreadIds, NEW r \in G[j]
      PROVE  Passes(ch, r, B[j])
  <2>1. CASE j = i
    BY <1>2, <2>1
  <2>2. CASE j \in ThreadIds \ {i}
    BY <1>2, <2>2, Zenon DEF RowsPass, OnlyMoves
  <2> QED
    BY <1>1, <2>1, <2>2
<1>3. \A r \in P \cup Z : Passes(ch, r, Len(ch))
  BY DEF RowsPass
<1> QED
  BY <1>2, <1>3, Zenon DEF RowsPass

\* Thread i draws the rows X.
LEMMA AccountDraws ==
  ASSUME NEW ch \in Chains, NEW H, NEW A, NEW P, NEW D, NEW c, Accounted(ch, H, A, P, D, c),
         NEW i \in ThreadIds, NEW G, NEW B, OnlyMoves(i, H, G), OnlyMoves(i, A, B),
         NEW X, H[i] = {}, G[i] = X, A[i] = 0, B[i] = 0, X \cap D = {}
  PROVE  Accounted(ch, G, B, P, D \cup X, c)
<1> USE DEF Accounted
<1>0. /\ Len(ch) \in Nat /\ (Len(ch) = 0 => ~EndsInLimit(ch))
      /\ \A r : Passes(ch, r, 0)
  <2>1. 1..0 = {}
    OBVIOUS
  <2> QED
    BY <2>1, ChainIs DEF Passes
<1>1. RowsApart(G, P, D \cup X)
  <2>1. /\ P \cup {} = P /\ {} \subseteq H[i] /\ X \cap {} = {}
        /\ D \subseteq D \cup X /\ X \subseteq D \cup X /\ X \cap D \subseteq H[i]
    OBVIOUS
  <2>2. RowsApart(G, P \cup {}, D \cup X)
    BY ONLY RowsApart(H, P, D), OnlyMoves(i, H, G), i \in ThreadIds, G[i] = X, <2>1, StaysApart
  <2> QED
    BY <2>1, <2>2
<1>2. RowsPass(ch, G, B, P)
  <2>1. P \cup {} = P
    OBVIOUS
  <2>2. RowsPass(ch, G, B, P \cup {})
    BY <1>0, StaysPassing
  <2> QED
    BY <2>1, <2>2
<1>3. PICK a, p : a = RestAhead(ch, H, A, i) /\ p = RestPast(ch, H, A, P, i)
  OBVIOUS
<1>4. a = RestAhead(ch, G, B, i) /\ p = RestPast(ch, G, B, P, i)
  BY <1>3, RestStays
<1>5. Ahead(ch, H, A) = a /\ Past(ch, H, A, P) = p
  BY <1>3, NoRows
<1>6. Balanced(ch, a \cup X, p, D \cup X, c)
  BY <1>5, BalanceDraws
<1>7. CASE 0 < Len(ch)
  <2>1. Ahead(ch, G, B) = a \cup X /\ Past(ch, G, B, P) = p
    BY <1>4, <1>7, RowsSplit
  <2> QED
    BY <1>1, <1>2, <1>6, <2>1
<1>8. CASE ~(0 < Len(ch))
  <2>1. Ahead(ch, G, B) = a /\ Past(ch, G, B, P) = p \cup X
    BY <1>4, <1>8, RowsSplit
  <2>2. Len(ch) = 0
    BY <1>0, <1>8
  <2>3. a \subseteq D
    BY <1>3 DEF RowsApart, RestAhead
  <2>4. Balanced(ch, a, p \cup X, D \cup X, c)
    <3>1. /\ ~EndsInLimit(ch) /\ X \subseteq D \cup X /\ a \cap X = {} /\ X \subseteq X
          /\ \A r \in X : r \in X <=> Passes(ch, r, Len(ch))
      BY <1>0, <2>2, <2>3
    <3> QED
      BY ONLY <1>6, <3>1, BalancePasses
  <2> QED
    BY <1>1, <1>2, <2>1, <2>4
<1> QED
  BY <1>7, <1>8

\* The rows of thread i go through a transform that is no limit.
LEMMA AccountAdvances ==
  ASSUME NEW ch \in Chains, NEW H, NEW A, NEW P, NEW D, NEW c, Accounted(ch, H, A, P, D, c),
         NEW i \in ThreadIds, NEW G, NEW B, OnlyMoves(i, H, G), OnlyMoves(i, A, B),
         NEW n, n \in Nat, A[i] = n, n < Len(ch), ch[n + 1].kind # "limit",
         NEW X, G[i] = X,
         \A r : r \in X <=> r \in H[i] /\ (ch[n + 1].kind = "filter" => r \in ch[n + 1].keep),
         B[i] = n + 1 \/ (X = {} /\ B[i] = 0)
  PROVE  Accounted(ch, G, B, P, D, c)
<1> USE DEF Accounted
<1>1. PICK Y : Y = H[i]
  OBVIOUS
<1>0. /\ Len(ch) \in Nat /\ n + 1 \in 1..Len(ch) /\ X \subseteq Y /\ Y \subseteq D
      /\ EndsInLimit(ch) => n + 1 # Len(ch)
  BY <1>1, ChainIs DEF RowsApart
<1>2. \A r \in Y : Passes(ch, r, n)
  BY <1>1 DEF RowsPass
<1>3. \A r \in Y : r \in X <=> Passes(ch, r, n + 1)
  <2> SUFFICES ASSUME NEW r \in Y
               PROVE  r \in X <=> Passes(ch, r, n + 1)
    OBVIOUS
  <2>1. Passes(ch, r, n + 1) <=> /\ Passes(ch, r, n)
                                 /\ ch[n + 1].kind = "filter" => r \in ch[n + 1].keep
    BY ONLY ch \in Chains, n \in Nat, n < Len(ch), PassesNext, Zenon
  <2> QED
    BY <1>1, <1>2, <2>1
<1>4. RowsApart(G, P, D)
  <2>1. P \cup {} = P
    OBVIOUS
  <2>2. RowsApart(G, P \cup {}, D)
    BY <1>0, <1>1, StaysApart
  <2> QED
    BY <2>1, <2>2
<1>5. RowsPass(ch, G, B, P)
  <2>1. P \cup {} = P
    OBVIOUS
  <2>2. \A r \in G[i] : Passes(ch, r, B[i])
    BY <1>0, <1>3
  <2>3. RowsPass(ch, G, B, P \cup {})
    BY <2>2, StaysPassing
  <2> QED
    BY <2>1, <2>3
<1>6. PICK a, p : a = RestAhead(ch, H, A, i) /\ p = RestPast(ch, H, A, P, i)
  OBVIOUS
<1>7. a = RestAhead(ch, G, B, i) /\ p = RestPast(ch, G, B, P, i)
  BY <1>6, RestStays
<1>8. Ahead(ch, H, A) = a \cup Y /\ Past(ch, H, A, P) = p
  BY <1>1, <1>6, RowsSplit
<1>9. Balanced(ch, a \cup Y, p, D, c)
  BY <1>8
<1>10. CASE B[i] < Len(ch)
  <2>1. Ahead(ch, G, B) = a \cup X /\ Past(ch, G, B, P) = p
    BY <1>7, <1>10, RowsSplit
  <2>2. \A r \in Y \ X : ~Passes(ch, r, Len(ch))
    <3> SUFFICES ASSUME NEW r \in Y, Passes(ch, r, Len(ch))
                 PROVE  r \in X
      OBVIOUS
    <3>1. Passes(ch, r, n + 1)
      <4>1. n + 1 \in 0..Len(ch)
        BY <1>0
      <4> QED
        BY ONLY Passes(ch, r, Len(ch)), <1>0, <4>1, PassesFewer, Zenon
    <3> QED
      BY <1>3, <3>1
  <2>3. Balanced(ch, a \cup X, p, D, c)
    BY <1>0, <1>9, <2>2, BalanceDrops
  <2> QED
    BY <1>4, <1>5, <2>1, <2>3
<1>11. CASE ~(B[i] < Len(ch))
  <2>1. Ahead(ch, G, B) = a /\ Past(ch, G, B, P) = p \cup X
    BY <1>7, <1>11, RowsSplit
  <2>2. n + 1 = Len(ch) /\ ~EndsInLimit(ch)
    BY <1>0, <1>11
  <2>3. a \cap Y = {}
    BY <1>1, <1>6, RestApart
  <2>4. \A r \in Y : r \in X <=> Passes(ch, r, Len(ch))
    BY <1>3, <2>2
  <2>5. Balanced(ch, a, p \cup X, D, c)
    BY ONLY <1>0, <1>9, <2>2, <2>3, <2>4, BalancePasses
  <2> QED
    BY <1>4, <1>5, <2>1, <2>5
<1> QED
  BY <1>10, <1>11

\* The rows of thread i go through the limit, which counts them all and lets
\* through X.
LEMMA AccountLimits ==
  ASSUME NEW ch \in Chains, NEW H, NEW A, NEW P, NEW D, NEW c, Accounted(ch, H, A, P, D, c),
         NEW i \in ThreadIds, NEW G, NEW B, OnlyMoves(i, H, G), OnlyMoves(i, A, B),
         NEW n, n \in Nat, A[i] = n, n + 1 = Len(ch), EndsInLimit(ch), IsFiniteSet(D),
         NEW X, G[i] = X, X \subseteq H[i], B[i] = n + 1,
         Cardinality(X) = IF c >= Bound(ch) THEN 0 ELSE Least(Cardinality(H[i]), Bound(ch) - c)
  PROVE  /\ c \in Nat
         /\ Accounted(ch, G, B, P, D, c + Cardinality(H[i]))
<1> USE DEF Accounted
<1>1. PICK Y : Y = H[i]
  OBVIOUS
<1>0. /\ Len(ch) \in Nat /\ n < Len(ch) /\ ~(n + 1 < Len(ch)) /\ X \subseteq Y /\ Y \subseteq D
      /\ ch[n + 1].kind = "limit"
  BY <1>1, ChainIs DEF RowsApart
<1>2. \A r \in Y : Passes(ch, r, n)
  BY <1>1 DEF RowsPass
<1>3. \A r \in Y : Passes(ch, r, n + 1)
  <2> SUFFICES ASSUME NEW r \in Y
               PROVE  Passes(ch, r, n + 1)
    OBVIOUS
  <2>1. Passes(ch, r, n + 1) <=> /\ Passes(ch, r, n)
                                 /\ ch[n + 1].kind = "filter" => r \in ch[n + 1].keep
    BY ONLY ch \in Chains, n \in Nat, <1>0, PassesNext, Zenon
  <2> QED
    BY <1>0, <1>2, <2>1
<1>4. RowsApart(G, P, D)
  <2>1. P \cup {} = P
    OBVIOUS
  <2>2. RowsApart(G, P \cup {}, D)
    BY <1>0, <1>1, StaysApart
  <2> QED
    BY <2>1, <2>2
<1>5. RowsPass(ch, G, B, P)
  <2>1. P \cup {} = P
    OBVIOUS
  <2>2. \A r \in G[i] : Passes(ch, r, B[i])
    BY <1>0, <1>3
  <2>3. RowsPass(ch, G, B, P \cup {})
    BY <2>2, StaysPassing
  <2> QED
    BY <2>1, <2>3
<1>6. PICK a, p : a = RestAhead(ch, H, A, i) /\ p = RestPast(ch, H, A, P, i)
  OBVIOUS
<1>7. a = RestAhead(ch, G, B, i) /\ p = RestPast(ch, G, B, P, i)
  BY <1>6, RestStays
<1>8. Ahead(ch, H, A) = a \cup Y /\ Past(ch, H, A, P) = p
  BY <1>0, <1>1, <1>6, RowsSplit
<1>9. Balanced(ch, a \cup Y, p, D, c)
  BY <1>8
<1>10. Ahead(ch, G, B) = a /\ Past(ch, G, B, P) = p \cup X
  BY <1>0, <1>7, RowsSplit
<1>11. a \cap Y = {} /\ p \cap Y = {}
  BY <1>1, <1>6, RestApart
<1>12. p \subseteq D
  BY <1>6 DEF RowsApart, RestPast
<1>13. \A r \in Y : Passes(ch, r, Len(ch))
  BY <1>3
<1>14. Cardinality(X) = IF c >= Bound(ch) THEN 0 ELSE Least(Cardinality(Y), Bound(ch) - c)
  BY <1>1
<1>15. c \in Nat /\ Balanced(ch, a, p \cup X, D, c + Cardinality(Y))
  BY ONLY ch \in Chains, EndsInLimit(ch), IsFiniteSet(D), <1>0, <1>9, <1>11, <1>12, <1>13, <1>14, BalanceLimits
<1> QED
  BY <1>1, <1>4, <1>5, <1>10, <1>15

\* Thread i starts anew with no rows.
LEMMA AccountResets ==
  ASSUME NEW ch, NEW H, NEW A, NEW P, NEW D, NEW c, Accounted(ch, H, A, P, D, c),
         NEW i \in ThreadIds, NEW G, NEW B, OnlyMoves(i, H, G), OnlyMoves(i, A, B),
         H[i] = {}, G[i] = {}
  PROVE  Accounted(ch, G, B, P, D, c)
<1> USE DEF Accounted
<1>1. P \cup {} = P
  OBVIOUS
<1>2. RowsApart(G, P \cup {}, D)
  BY StaysApart
<1>3. RowsPass(ch, G, B, P \cup {})
  BY StaysPassing
<1>4. PICK a, p : a = RestAhead(ch, H, A, i) /\ p = RestPast(ch, H, A, P, i)
  OBVIOUS
<1>5. a = RestAhead(ch, G, B, i) /\ p = RestPast(ch, G, B, P, i)
  BY <1>4, RestStays
<1>6. Ahead(ch, H, A) = a /\ Past(ch, H, A, P) = p
  BY <1>4, NoRows
<1>7. Ahead(ch, G, B) = a /\ Past(ch, G, B, P) = p
  BY <1>5, NoRows
<1> QED
  BY <1>1, <1>2, <1>3, <1>6, <1>7

\* The sink takes the rows of thread i.
LEMMA AccountSinks ==
  ASSUME NEW ch \in Chains, NEW H, NEW A, NEW P, NEW D, NEW c, Accounted(ch, H, A, P, D, c),
         NEW i \in ThreadIds, NEW G, NEW B, OnlyMoves(i, H, G), OnlyMoves(i, A, B),
         A[i] = Len(ch), G[i] = {}, NEW Q, Q = P \cup H[i]
  PROVE  Accounted(ch, G, B, Q, D, c)
<1> USE DEF Accounted
<1>0. ~(A[i] < Len(ch))
  BY ChainIs
<1>1. RowsApart(G, Q, D)
  <2>1. {} \cap H[i] = {} /\ {} \subseteq D /\ {} \cap D \subseteq H[i] /\ D \subseteq D
    OBVIOUS
  <2> QED
    BY <2>1, StaysApart
<1>2. RowsPass(ch, G, B, Q)
  <2>1. \A r \in H[i] : Passes(ch, r, Len(ch))
    BY DEF RowsPass
  <2> QED
    BY <2>1, StaysPassing
<1>3. PICK a, p, q : a = RestAhead(ch, H, A, i) /\ p = RestPast(ch, H, A, P, i) /\ q = RestPast(ch, H, A, Q, i)
  OBVIOUS
<1>4. a = RestAhead(ch, G, B, i) /\ q = RestPast(ch, G, B, Q, i)
  BY <1>3, RestStays
<1>5. q = p \cup H[i]
  BY <1>3 DEF RestPast
<1>6. Ahead(ch, H, A) = a /\ Past(ch, H, A, P) = q
  <2>1. /\ Ahead(ch, H, A) = RestAhead(ch, H, A, i)
        /\ Past(ch, H, A, P) = RestPast(ch, H, A, P, i) \cup H[i]
    BY <1>0, RowsSplit
  <2> QED
    BY <1>3, <1>5, <2>1
<1>7. Ahead(ch, G, B) = a /\ Past(ch, G, B, Q) = q
  BY <1>4, NoRows
<1> QED
  BY <1>1, <1>2, <1>6, <1>7

-----------------------------------------------------------------------------
(* The rows of the query. *)

\* What Execute assumes of a plan: it leaves the loop over the transforms at a
\* limit that is done, and skips what follows.
PlanChains == \A p \in Pipelines : LimitIsLast(Transforms[p])

Chain == Transforms[pipe]

\* The rows the source of the current pipeline holds, those drawn from it, and
\* whether it is dry.
Source == IF pipe = 1 THEN FlattenSeq(Table) ELSE ready[pipe - 1]
Scans  == pipe = 1 /\ ScanColumns
Drawn  == IF Scans THEN UNION {ToSet(Table[c]) : c \in {d \in DOMAIN Table : d < cursor}}
          ELSE IF emitted[pipe] THEN ToSet(Source) ELSE {}
Dry    == IF Scans THEN \A d \in DOMAIN Table : d < cursor ELSE emitted[pipe]

\* What the limit at the end of the pipeline has counted, and whether it is full.
Taken == curRows[<<pipe, Len(Chain)>>]
Full  == EndsInLimit(Chain) /\ Taken >= Bound(Chain)

\* The rows each thread has in hand, how far they are, and what was sunk.
Hands == [i \in ThreadIds |-> ToSet(batch[<<pipe, i>>])]
Gone  == [i \in ThreadIds |-> applied[<<pipe, i>>]]
Sunk  == IF pipe + 1 \in Pipelines THEN [i \in ThreadIds |-> gathered[<<pipe, i>>]] ELSE result

HandsOnce == \A i \in ThreadIds : IsInjective(batch[<<pipe, i>>])

Account == Accounted(Chain, Hands, Gone, Members(Sunk), Drawn, Taken)

\* A task between two batches has no rows, and one at the sink has gone through
\* all transforms.
EmptyHands ==
  \A t \in TaskId :
    /\ pc[t] \notin {"transform", "markDone", "pollDone", "sink"} => batch[t] = <<>>
    /\ pc[t] = "sink" => applied[t] = Len(Transforms[t[1]])

\* A task has left its loop only because there is no more to do.
LeavesWhenDone ==
  \A i \in ThreadIds : pc[<<pipe, i>>] \in {"latch", "notify", "unlock", "end"} => Dry \/ Full

\* The pipelines to come.
Untouched ==
  /\ \A p \in Pipelines : p > pipe => ~emitted[p] /\ \A i \in ThreadIds : gathered[<<p, i>>] = <<>>
  /\ \A l \in Limits : l[1] > pipe => curRows[l] = 0
  /\ pipe + 1 \in Pipelines => result = <<>>

RowsInv == /\ IsInjective(Source) /\ HandsOnce /\ Apart(Sunk)
           /\ Account
           /\ EmptyHands /\ LeavesWhenDone /\ Untouched
           /\ cursor > 0

\* Collect's answer is made at the end.
NoAnswer == owner \in {"idle", "notifyOne"} => answer = <<>>

\* The invariant of the refinement.
RefinementInv == Control /\ Data /\ NoAnswer /\ (~Executed => RowsInv)

-----------------------------------------------------------------------------
(* Facts about the plan. *)

\* The rows of the table.
LEMMA TableRows ==
  /\ Apart(Table) /\ Members(Table) = Rows
  /\ IsInjective(FlattenSeq(Table)) /\ ToSet(FlattenSeq(Table)) = Rows
  /\ IsFiniteSet(Rows)
<1>1. Apart(Table) /\ Table \in Seq(Seq(Rows))
  BY QueryAssumption, Zenon DEF QueryAssumption, Apart
<1>2. Members(Table) = Rows
  BY Zenon DEF Members, Rows
<1>3. IsInjective(FlattenSeq(Table)) /\ ToSet(FlattenSeq(Table)) = Rows
  BY <1>1, <1>2, FlattenMembers
<1>4. FlattenSeq(Table) \in Seq(Rows)
  BY PlanTypes
<1>5. IsFiniteSet(Rows)
  BY <1>3, <1>4, BatchSize
<1> QED
  BY <1>1, <1>2, <1>3, <1>5

\* The limits of the plan are the last transforms of their pipelines.
LEMMA LimitsAreLast ==
  ASSUME PlanChains
  PROVE  /\ \A p \in Pipelines : Transforms[p] \in Chains
         /\ \A l \in Limits : EndsInLimit(Transforms[l[1]]) /\ l[2] = Len(Transforms[l[1]])
                              /\ l[1] \in Pipelines /\ l = <<l[1], Len(Transforms[l[1]])>>
         /\ \A p \in Pipelines : EndsInLimit(Transforms[p]) => <<p, Len(Transforms[p])>> \in Limits
<1>1. \A p \in Pipelines : Transforms[p] \in Chains
  BY PlanTypes DEF PlanChains, Chains
<1>2. ASSUME NEW l \in Limits
      PROVE  EndsInLimit(Transforms[l[1]]) /\ l[2] = Len(Transforms[l[1]])
             /\ l[1] \in Pipelines /\ l = <<l[1], Len(Transforms[l[1]])>>
  <2>1. l[1] \in Pipelines /\ l[2] \in 1..Len(Transforms[l[1]]) /\ l = <<l[1], l[2]>>
    BY PlanTypes
  <2>2. Transforms[l[1]][l[2]].kind = "limit"
    BY DEF Limits
  <2>3. Transforms[l[1]] \in Chains
    BY <1>1, <2>1
  <2>4. l[2] = Len(Transforms[l[1]]) /\ EndsInLimit(Transforms[l[1]])
    BY <2>1, <2>2, <2>3, ChainIs
  <2> QED
    BY <2>1, <2>4
<1>3. ASSUME NEW p \in Pipelines, EndsInLimit(Transforms[p])
      PROVE  <<p, Len(Transforms[p])>> \in Limits
  <2>1. PICK m : m = Len(Transforms[p])
    OBVIOUS
  <2>2. m \in DOMAIN Transforms[p] /\ Transforms[p][m].kind = "limit"
    <3>1. m \in 1..m /\ Transforms[p][m].kind = "limit"
      BY <1>1, <1>3, <2>1, ChainIs
    <3>2. DOMAIN Transforms[p] = 1..m
      BY <2>1, PlanTypes, LenProperties
    <3> QED
      BY <3>1, <3>2
  <2> QED
    BY <2>1, <2>2 DEF Limits
<1> QED
  BY <1>1, <1>2, <1>3

\* The rows of the source.
LEMMA SourceRows ==
  ASSUME Data, ControlTypeOK
  PROVE  /\ Source \in Seq(Rows) /\ IsFiniteSet(ToSet(Source)) /\ ToSet(Source) \subseteq Rows
         /\ Drawn \subseteq ToSet(Source)
         /\ Dry => Drawn = ToSet(Source)
<1>1. Source \in Seq(Rows)
  <2>1. pipe # 1 => pipe - 1 \in Pipelines
    BY Numbers DEF ControlTypeOK
  <2> QED
    BY <2>1, PlanTypes DEF Source, Data, DataTypeOK
<1>2. ToSet(Source) \subseteq Rows
  BY <1>1, BatchRows
<1>3. IsFiniteSet(ToSet(Source))
  BY <1>2, TableRows, FS_Subset
<1>4. CASE Scans
  <2>1. ToSet(Source) = Members(Table)
    BY <1>4, TableRows DEF Scans, Source
  <2>2. Drawn \subseteq Members(Table)
    BY <1>4 DEF Drawn, Members
  <2>3. Dry => Drawn = Members(Table)
    BY <1>4 DEF Dry, Drawn, Members
  <2> QED
    BY <1>1, <1>2, <1>3, <2>1, <2>2, <2>3
<1>5. CASE ~Scans
  BY <1>1, <1>2, <1>3, <1>5 DEF Drawn, Dry
<1> QED
  BY <1>4, <1>5

\* What is in the sink.
LEMMA SunkType ==
  ASSUME Data, ControlTypeOK
  PROVE  Sunk \in Seq(Seq(Rows))
<1>1. CASE pipe + 1 \in Pipelines
  <2>1. \A i \in ThreadIds : gathered[<<pipe, i>>] \in Seq(Rows)
    BY Numbers DEF Data, DataTypeOK, ControlTypeOK
  <2>2. Sunk \in [1..NumThreads -> Seq(Rows)]
    BY <1>1, <2>1 DEF Sunk, ThreadIds
  <2> QED
    BY <2>2, Numbers, IsSequence
<1>2. CASE pipe + 1 \notin Pipelines
  BY <1>2 DEF Sunk, Data, DataTypeOK
<1> QED
  BY <1>1, <1>2

\* Where nothing has been drawn yet, the account is balanced.
LEMMA AccountStarts ==
  ASSUME NEW ch \in Chains, NEW H, NEW A, NEW c, EndsInLimit(ch) => c = 0,
         \A i \in ThreadIds : H[i] = {}
  PROVE  Accounted(ch, H, A, {}, {}, c)
<1>1. Ahead(ch, H, A) = {} /\ Past(ch, H, A, {}) = {}
  BY DEF Ahead, Past
<1>2. RowsApart(H, {}, {}) /\ RowsPass(ch, H, A, {})
  BY DEF RowsApart, RowsPass
<1>3. Survivors(ch, {}, Len(ch)) \ {} = {}
  BY DEF Survivors
<1>4. EndsInLimit(ch) => Least(Bound(ch), 0) = 0
  BY ChainIs DEF Least
<1>5. Balanced(ch, {}, {}, {}, c)
  BY <1>3, <1>4, FS_EmptySet DEF Balanced
<1> QED
  BY <1>1, <1>2, <1>5 DEF Accounted

\* Nothing is in sequences without elements.
LEMMA NothingSunk ==
  ASSUME NEW s, \A a \in DOMAIN s : s[a] = <<>>
  PROVE  Apart(s) /\ Members(s) = {}
<1>1. DOMAIN <<>> = {}
  OBVIOUS
<1>2. Apart(s)
  BY <1>1 DEF Apart
<1>3. Members(s) = {}
  BY <1>1 DEF Members, ToSet
<1> QED
  BY <1>2, <1>3

\* At first.
LEMMA RowsInit == PlanChains /\ Init => RowsInv /\ NoAnswer
<1> SUFFICES ASSUME PlanChains, Init
             PROVE  RowsInv /\ NoAnswer
  OBVIOUS
<1>0. Data /\ ControlTypeOK
  BY DataInit, ControlInit DEF Control
<1>1. /\ pipe = 1 /\ answer = <<>> /\ result = <<>> /\ cursor = 1
      /\ \A t \in TaskId : pc[t] = "get" /\ batch[t] = <<>> /\ applied[t] = 0 /\ gathered[t] = <<>>
      /\ \A p \in Pipelines : ~emitted[p]
      /\ \A l \in Limits : curRows[l] = 0
  BY DEF Init
<1>2. 1 \in Pipelines /\ \A p \in Pipelines, i \in ThreadIds : <<p, i>> \in TaskId
  BY Numbers
<1>3. DOMAIN <<>> = {} /\ ToSet(<<>>) = {} /\ IsInjective(<<>>)
  BY DEF ToSet, IsInjective
<1>4. IsInjective(Source)
  BY <1>1, TableRows DEF Source
<1>5. HandsOnce
  BY <1>1, <1>2, <1>3 DEF HandsOnce
<1>6. Apart(Sunk) /\ Members(Sunk) = {}
  <2>1. \A a \in DOMAIN Sunk : Sunk[a] = <<>>
    BY <1>1, <1>2, <1>3 DEF Sunk
  <2> QED
    BY <2>1, NothingSunk
<1>7. EmptyHands /\ LeavesWhenDone
  BY <1>1, <1>2 DEF EmptyHands, LeavesWhenDone
<1>8. Untouched
  BY <1>1, <1>2 DEF Untouched
<1>9. Drawn = {}
  <2>1. {d \in DOMAIN Table : d < 1} = {}
    <3>1. \A d \in DOMAIN Table : ~(d < 1)
      BY PlanTypes, LenProperties
    <3> QED
      BY <3>1
  <2> QED
    BY <1>1, <1>2, <2>1 DEF Drawn
<1>10. Account
  <2>1. Chain \in Chains /\ (EndsInLimit(Chain) => Taken = 0)
    BY <1>1, <1>2, LimitsAreLast DEF Chain, Taken
  <2>2. \A i \in ThreadIds : Hands[i] = {}
    BY <1>1, <1>2, <1>3 DEF Hands
  <2> QED
    BY <1>6, <1>9, <2>1, <2>2, AccountStarts DEF Account
<1> QED
  BY <1>1, <1>4, <1>5, <1>6, <1>7, <1>8, <1>10 DEF RowsInv, NoAnswer

\* A task goes to the place k with the batch b, which has gone through n transforms.
TaskGoes(t, k, b, n) ==
  /\ pc' = [pc EXCEPT ![t] = k]
  /\ batch' = [batch EXCEPT ![t] = b]
  /\ applied' = [applied EXCEPT ![t] = n]
  /\ pipe' = pipe
  /\ IsInjective(b)
  /\ k \notin {"transform", "markDone", "pollDone", "sink"} => b = <<>>
  /\ k = "sink" => n = Len(Transforms[t[1]])

\* A step of a task of the current pipeline.
LEMMA TaskMovesRows ==
  ASSUME Data, ControlTypeOK, HandsOnce, EmptyHands,
         NEW t \in TaskId, t[1] = pipe, NEW k, NEW n, NEW b, TaskGoes(t, k, b, n)
  PROVE  /\ t[2] \in ThreadIds /\ t = <<pipe, t[2]>>
         /\ OnlyMoves(t[2], Hands, Hands') /\ OnlyMoves(t[2], Gone, Gone')
         /\ Hands[t[2]] = ToSet(batch[t]) /\ Hands'[t[2]] = ToSet(b)
         /\ Gone[t[2]] = applied[t] /\ Gone'[t[2]] = n
         /\ HandsOnce' /\ EmptyHands'
<1> USE DEF TaskGoes
<1>0. PICK i : i = t[2]
  OBVIOUS
<1>1. i \in ThreadIds /\ t = <<pipe, i>> /\ \A j \in ThreadIds : <<pipe, j>> \in TaskId
  BY <1>0, Numbers DEF ControlTypeOK
<1>2. /\ batch'[t] = b /\ applied'[t] = n /\ pc'[t] = k
      /\ \A u \in TaskId : u # t => batch'[u] = batch[u] /\ applied'[u] = applied[u] /\ pc'[u] = pc[u]
  BY DEF Data, DataTypeOK, ControlTypeOK
<1>3. \A j \in ThreadIds \ {i} : <<pipe, j>> # t
  BY <1>1
<1>4. OnlyMoves(i, Hands, Hands') /\ OnlyMoves(i, Gone, Gone')
  BY <1>1, <1>2, <1>3 DEF OnlyMoves, Hands, Gone
<1>5. /\ Hands[i] = ToSet(batch[t]) /\ Hands'[i] = ToSet(b)
      /\ Gone[i] = applied[t] /\ Gone'[i] = n
  BY <1>1, <1>2 DEF Hands, Gone
<1>6. HandsOnce'
  BY <1>1, <1>2, <1>3 DEF HandsOnce
<1>7. EmptyHands'
  BY <1>2 DEF EmptyHands
<1> QED
  BY <1>0, <1>1, <1>4, <1>5, <1>6, <1>7

\* A task leaves its loop, or stays away from the latch.
LEMMA TaskLeaves ==
  ASSUME ControlTypeOK, LeavesWhenDone,
         NEW t \in TaskId, t[1] = pipe, NEW k,
         pc' = [pc EXCEPT ![t] = k], pipe' = pipe,
         Dry => Dry', Full => Full',
         k \in {"latch", "notify", "unlock", "end"} => Dry' \/ Full'
  PROVE  LeavesWhenDone'
<1>1. \A j \in ThreadIds : <<pipe, j>> \in TaskId
  BY Numbers DEF ControlTypeOK
<1>2. pc'[t] = k /\ \A u \in TaskId : u # t => pc'[u] = pc[u]
  BY DEF ControlTypeOK
<1> QED
  BY <1>1, <1>2 DEF LeavesWhenDone

\* The source hands out its next chunk, which has not been drawn.
LEMMA ScanDraws ==
  ASSUME Data, ControlTypeOK, Scans, cursor > 0, cursor' = cursor + 1, pipe' = pipe
  PROVE  /\ cursor \in DOMAIN Table => /\ Drawn' = Drawn \cup ToSet(Table[cursor])
                                       /\ ToSet(Table[cursor]) \cap Drawn = {}
                                       /\ IsInjective(Table[cursor])
         /\ cursor \notin DOMAIN Table => Drawn' = Drawn /\ Dry'
         /\ Dry => Dry'
<1>1. /\ cursor \in Nat /\ Len(Table) \in Nat /\ DOMAIN Table = 1..Len(Table)
      /\ \A d \in DOMAIN Table : d \in Nat
  BY PlanTypes, LenProperties DEF Data, DataTypeOK
<1>2. Scans'
  BY DEF Scans
<1>3. \A d \in DOMAIN Table : d < cursor + 1 <=> d < cursor \/ d = cursor
  BY <1>1
<1>4. CASE cursor \in DOMAIN Table
  <2>1. {d \in DOMAIN Table : d < cursor + 1} = {d \in DOMAIN Table : d < cursor} \cup {cursor}
    BY <1>3, <1>4
  <2>2. Drawn' = UNION {ToSet(Table[c]) : c \in {d \in DOMAIN Table : d < cursor + 1}}
    BY <1>2 DEF Drawn
  <2>3. Drawn = UNION {ToSet(Table[c]) : c \in {d \in DOMAIN Table : d < cursor}}
    BY DEF Drawn
  <2>4. Drawn' = Drawn \cup ToSet(Table[cursor])
    BY <2>1, <2>2, <2>3
  <2>5. ToSet(Table[cursor]) \cap Drawn = {} /\ IsInjective(Table[cursor])
    <3>1. /\ IsInjective(Table[cursor])
          /\ \A d \in DOMAIN Table : d # cursor => ToSet(Table[cursor]) \cap ToSet(Table[d]) = {}
      BY <1>4, TableRows, ApartGives
    <3>2. ~(cursor < cursor)
      BY <1>1
    <3> QED
      BY <2>3, <3>1, <3>2
  <2>6. Dry => Dry'
    BY <1>2, <1>3 DEF Dry
  <2> QED
    BY <1>4, <2>4, <2>5, <2>6
<1>5. CASE cursor \notin DOMAIN Table
  <2>1. {d \in DOMAIN Table : d < cursor + 1} = {d \in DOMAIN Table : d < cursor}
    BY <1>3, <1>5
  <2>2. Drawn' = Drawn
    BY <1>2, <2>1 DEF Drawn
  <2>3. \A d \in DOMAIN Table : d < cursor + 1
    BY <1>1, <1>5
  <2>4. Dry'
    BY <1>2, <2>3 DEF Dry
  <2> QED
    BY <1>5, <2>2, <2>4
<1> QED
  BY <1>4, <1>5

\* The source hands out all its rows, once.
LEMMA TakeDraws ==
  ASSUME Data, ControlTypeOK, ~Scans, emitted' = [emitted EXCEPT ![pipe] = TRUE], pipe' = pipe,
         ready' = ready
  PROVE  /\ emitted[pipe] => Drawn' = Drawn
         /\ ~emitted[pipe] => Drawn' = Drawn \cup ToSet(Source) /\ ToSet(Source) \cap Drawn = {}
         /\ Dry'
<1>1. emitted'[pipe] = TRUE /\ ~Scans' /\ Source' = Source
  BY DEF Data, DataTypeOK, ControlTypeOK, Scans, Source
<1> QED
  BY <1>1 DEF Drawn, Dry

\* What a step that only draws, or goes through transforms, leaves alone.
LEMMA OthersAlone ==
  ASSUME ControlTypeOK, Data, Untouched, UNCHANGED <<pipe, curRows, gathered, result>>,
         emitted' = emitted \/ emitted' = [emitted EXCEPT ![pipe] = TRUE]
  PROVE  Sunk' = Sunk /\ Chain' = Chain /\ Taken' = Taken /\ (Full => Full') /\ Untouched'
<1>1. Sunk' = Sunk /\ Chain' = Chain
  BY DEF Sunk, Chain
<1>2. Taken' = Taken
  BY <1>1 DEF Taken
<1>3. \A p \in Pipelines : p > pipe => p # pipe
  BY Numbers DEF ControlTypeOK
<1>4. \A p \in Pipelines : p > pipe => emitted'[p] = emitted[p]
  BY <1>3 DEF Data, DataTypeOK
<1>5. Untouched'
  BY <1>4 DEF Untouched
<1> QED
  BY <1>1, <1>2, <1>5 DEF Full

\* A task that asks for a batch.
LEMMA GetRows ==
  ASSUME PlanChains, Control, Data, RowsInv, NEW w \in ThreadIds, GetData(w),
         main # "terminated", main' = main
  PROVE  RowsInv'
<1>1. PICK t \in TaskId :
        /\ Runs(w, t, "get")
        /\ ScanChunk(t) \/ ReadThrows(t) \/ TakeOnly(t)
        /\ UNCHANGED <<pipe, limVars, sinkVars>>
  BY DEF GetData
<1>2. /\ ControlTypeOK /\ IsInjective(Source) /\ HandsOnce /\ Apart(Sunk) /\ Account
      /\ EmptyHands /\ LeavesWhenDone /\ Untouched /\ cursor > 0
  BY DEF RowsInv, Control
<1>3. /\ t[1] = pipe /\ main \in {"enqueue", "await", "asleep", "terminated"}
      /\ pc[t] = "get" /\ applied[t] = 0 /\ batch[t] = <<>>
  BY <1>1, <1>2, RunningTask DEF Runs, Data, BatchesInPlace, EmptyHands
<1>4. PICK i : i = t[2]
  OBVIOUS
<1>5. UNCHANGED <<pipe, curRows, gathered, result, ready>>
  BY <1>1 DEF limVars, sinkVars, ScanChunk, ReadThrows, TakeOnly
<1>6. ASSUME NEW k, NEW b, pc' = [pc EXCEPT ![t] = k], batch' = [batch EXCEPT ![t] = b],
             applied' = applied, IsInjective(b),
             k \notin {"transform", "markDone", "pollDone", "sink"} => b = <<>>,
             k = "sink" => Len(Transforms[t[1]]) = 0,
             emitted' = emitted \/ emitted' = [emitted EXCEPT ![pipe] = TRUE],
             Drawn' = Drawn \cup ToSet(b), ToSet(b) \cap Drawn = {}, Dry => Dry',
             k \in {"latch", "notify", "unlock", "end"} => Dry', cursor' > 0
      PROVE  RowsInv'
  <2>1. applied' = [applied EXCEPT ![t] = 0]
    BY <1>3, <1>6 DEF Data, DataTypeOK
  <2>2. TaskGoes(t, k, b, 0)
    BY <1>5, <1>6, <2>1 DEF TaskGoes
  <2>3. /\ i \in ThreadIds
        /\ OnlyMoves(i, Hands, Hands') /\ OnlyMoves(i, Gone, Gone')
        /\ Hands[i] = ToSet(batch[t]) /\ Hands'[i] = ToSet(b)
        /\ Gone[i] = applied[t] /\ Gone'[i] = 0
        /\ HandsOnce' /\ EmptyHands'
    BY <1>2, <1>3, <1>4, <2>2, TaskMovesRows
  <2>4. Sunk' = Sunk /\ Chain' = Chain /\ Taken' = Taken /\ (Full => Full') /\ Untouched'
    BY <1>2, <1>5, <1>6, OthersAlone
  <2>5. LeavesWhenDone'
    BY <1>2, <1>3, <1>5, <1>6, <2>4, TaskLeaves
  <2>6. Account'
    <3>1. Hands[i] = {} /\ Gone[i] = 0
      BY <1>3, <2>3 DEF ToSet
    <3>2. Chain \in Chains
      BY <1>2, LimitsAreLast DEF Chain, ControlTypeOK
    <3>3. Accounted(Chain, Hands', Gone', Members(Sunk), Drawn \cup ToSet(b), Taken)
      BY ONLY <1>2, <1>6, <2>3, <3>1, <3>2, AccountDraws DEF Account
    <3> QED
      BY <1>6, <2>4, <3>3 DEF Account
  <2>7. Source' = Source
    BY <1>5 DEF Source
  <2> QED
    BY <1>2, <1>6, <2>3, <2>4, <2>5, <2>6, <2>7 DEF RowsInv
<1>7. ASSUME NEW b, Begin(t, b), IsInjective(b),
             emitted' = emitted \/ emitted' = [emitted EXCEPT ![pipe] = TRUE],
             Drawn' = Drawn \cup ToSet(b), ToSet(b) \cap Drawn = {}, Dry => Dry', cursor' > 0
      PROVE  RowsInv'
  <2>1. PICK k : k = IF Transforms[t[1]] # <<>> THEN "transform" ELSE IF b # <<>> THEN "sink" ELSE "get"
    OBVIOUS
  <2>2. /\ pc' = [pc EXCEPT ![t] = k] /\ batch' = [batch EXCEPT ![t] = b] /\ applied' = applied
    BY <1>7, <2>1 DEF Begin
  <2>3. /\ k \notin {"transform", "markDone", "pollDone", "sink"} => b = <<>>
        /\ k = "sink" => Transforms[t[1]] = <<>>
        /\ k \notin {"latch", "notify", "unlock", "end"}
    BY <2>1
  <2>4. k = "sink" => Len(Transforms[t[1]]) = 0
    BY <2>3
  <2> QED
    BY <1>6, <1>7, <2>2, <2>3, <2>4
<1>8. ASSUME LeaveLoop(t), emitted' = emitted \/ emitted' = [emitted EXCEPT ![pipe] = TRUE],
             Drawn' = Drawn, Dry', cursor' > 0
      PROVE  RowsInv'
  <2>1. /\ pc' = [pc EXCEPT ![t] = "latch"] /\ batch' = [batch EXCEPT ![t] = <<>>] /\ applied' = applied
    BY <1>3, <1>8 DEF LeaveLoop, Data, DataTypeOK
  <2>2. IsInjective(<<>>) /\ ToSet(<<>>) = {}
    BY DEF IsInjective, ToSet
  <2>3. Drawn' = Drawn \cup ToSet(<<>>) /\ ToSet(<<>>) \cap Drawn = {}
    BY <1>8, <2>2
  <2> QED
    BY <1>6, <1>8, <2>1, <2>2, <2>3
<1>9. CASE ScanChunk(t)
  <2>1. Scans /\ cursor' = cursor + 1 /\ cursor' > 0 /\ emitted' = emitted
    BY <1>2, <1>3, <1>9 DEF ScanChunk, Scans, Data, DataTypeOK
  <2>2. /\ cursor \in DOMAIN Table => /\ Drawn' = Drawn \cup ToSet(Table[cursor])
                                      /\ ToSet(Table[cursor]) \cap Drawn = {}
                                      /\ IsInjective(Table[cursor])
        /\ cursor \notin DOMAIN Table => Drawn' = Drawn /\ Dry'
        /\ Dry => Dry'
    BY <1>2, <1>5, <2>1, ScanDraws
  <2>3. CASE cursor \in DOMAIN Table
    BY <1>7, <1>9, <2>1, <2>2, <2>3 DEF ScanChunk
  <2>4. CASE cursor \notin DOMAIN Table
    BY <1>8, <1>9, <2>1, <2>2, <2>4 DEF ScanChunk
  <2> QED
    BY <2>3, <2>4
<1>10. CASE TakeOnly(t)
  <2>1. /\ ~Scans /\ emitted' = [emitted EXCEPT ![pipe] = TRUE] /\ cursor' = cursor
        /\ IF emitted[pipe] THEN LeaveLoop(t) ELSE Begin(t, Source)
    BY <1>3, <1>10, Numbers DEF TakeOnly, Scans, Source
  <2>2. /\ emitted[pipe] => Drawn' = Drawn
        /\ ~emitted[pipe] => Drawn' = Drawn \cup ToSet(Source) /\ ToSet(Source) \cap Drawn = {}
        /\ Dry'
    BY <1>2, <1>5, <2>1, TakeDraws
  <2>3. CASE emitted[pipe]
    BY <1>2, <1>8, <2>1, <2>2, <2>3
  <2>4. CASE ~emitted[pipe]
    BY <1>2, <1>7, <2>1, <2>2, <2>4
  <2> QED
    BY <2>3, <2>4
<1> QED
  BY <1>1, <1>9, <1>10 DEF ReadThrows

\* What a step between the source and the sink has to show.
LEMMA MidRows ==
  ASSUME ControlTypeOK, Data, RowsInv,
         NEW t \in TaskId, t[1] = pipe, NEW k, NEW n, NEW b, TaskGoes(t, k, b, n),
         k \notin {"latch", "notify", "unlock", "end"},
         UNCHANGED <<cursor, emitted, ready, gathered, result>>,
         Full => Full', \A l \in Limits : l[1] > pipe => curRows'[l] = curRows[l],
         Account'
  PROVE  RowsInv'
<1>1. pipe' = pipe /\ pc' = [pc EXCEPT ![t] = k]
  BY DEF TaskGoes
<1>2. HandsOnce' /\ EmptyHands'
  BY TaskMovesRows DEF RowsInv
<1>3. Source' = Source /\ Sunk' = Sunk /\ Dry' = Dry
  BY <1>1 DEF Source, Sunk, Dry, Scans
<1>4. LeavesWhenDone'
  BY <1>1, <1>3, TaskLeaves DEF RowsInv
<1>5. Untouched'
  BY <1>1 DEF RowsInv, Untouched
<1> QED
  BY <1>2, <1>3, <1>4, <1>5 DEF RowsInv

\* A batch goes through a transform that is no limit.
LEMMA TransformRows ==
  ASSUME PlanChains, Control, Data, RowsInv, NEW w \in ThreadIds, Transform(w)
  PROVE  RowsInv'
<1> DEFINE place(t) == applied[t] + 1
           transform(t) == Transforms[t[1]][place(t)]
           left(t) == IF transform(t).kind = "filter" THEN Kept(batch[t], transform(t).keep) ELSE batch[t]
<1>0. PICK t \in TaskId :
        /\ Runs(w, t, "transform")
        /\ transform(t).kind # "limit"
        /\ Forward(t, left(t), place(t))
        /\ UNCHANGED <<mainVars, srcVars, limVars, sinkVars>>
  BY Zenon DEF Transform
<1>1. PICK m, tr, b :
        /\ m = applied[t] + 1 /\ tr = Transforms[t[1]][m]
        /\ b = IF tr.kind = "filter" THEN Kept(batch[t], tr.keep) ELSE batch[t]
        /\ Runs(w, t, "transform")
        /\ tr.kind # "limit"
        /\ Forward(t, b, m)
        /\ UNCHANGED <<mainVars, srcVars, limVars, sinkVars>>
  BY <1>0
<1> HIDE DEF place, transform, left
<1>2. ControlTypeOK /\ HandsOnce /\ EmptyHands /\ Account
  BY DEF RowsInv, Control
<1>3. UNCHANGED <<pipe, cursor, emitted, ready, gathered, result, curRows>>
  BY <1>1 DEF mainVars, srcVars, limVars, sinkVars
<1>4. /\ t[1] = pipe /\ t = <<pipe, t[2]>> /\ t[2] \in ThreadIds
      /\ applied[t] \in Nat /\ applied[t] < Len(Chain) /\ Chain \in Chains /\ tr = Chain[m]
      /\ Len(Chain) \in Nat
  <2>1. t[1] = pipe /\ t = <<pipe, t[2]>> /\ t[2] \in ThreadIds
    BY <1>1, RunningTask
  <2>2. applied[t] \in Nat /\ applied[t] < Len(Transforms[t[1]])
    BY <1>1 DEF Runs, Data, DataTypeOK, BatchesInPlace
  <2>3. Chain \in Chains /\ Len(Chain) \in Nat
    BY <1>2, LimitsAreLast, PlanTypes DEF Chain, ControlTypeOK
  <2>4. Chain = Transforms[t[1]]
    BY <2>1, Zenon DEF Chain
  <2> QED
    BY <1>1, <2>1, <2>2, <2>3, <2>4, Zenon
<1>5. /\ IsInjective(b)
      /\ \A r : r \in ToSet(b) <=> r \in ToSet(batch[t]) /\ (tr.kind = "filter" => r \in tr.keep)
      /\ ToSet(b) = {} <=> b = <<>>
  <2>1. batch[t] \in Seq(Rows) /\ IsInjective(batch[t])
    BY <1>2, <1>4 DEF Data, DataTypeOK, HandsOnce
  <2>2. CASE tr.kind = "filter"
    <3>1. b = Kept(batch[t], tr.keep)
      BY <1>1, <2>2
    <3>2. b \in Seq(Rows)
      BY <2>1, <3>1, KeptType
    <3>3. ToSet(b) = ToSet(batch[t]) \cap tr.keep /\ IsInjective(b)
      BY <2>1, <3>1, KeptRows
    <3> QED
      BY <2>2, <3>2, <3>3, BatchRows
  <2>3. CASE tr.kind # "filter"
    <3>1. b = batch[t]
      BY <1>1, <2>3
    <3> QED
      BY <2>1, <2>3, <3>1, BatchRows
  <2> QED
    BY <2>2, <2>3
<1>6. PICK k, n :
        /\ k = IF b = <<>> THEN "get" ELSE IF m = Len(Transforms[t[1]]) THEN "sink" ELSE "transform"
        /\ n = IF b = <<>> THEN 0 ELSE m
  BY Zenon
<1>7. TaskGoes(t, k, b, n) /\ k \notin {"latch", "notify", "unlock", "end"}
  BY <1>1, <1>3, <1>5, <1>6, Zenon DEF TaskGoes, Forward
<1>8. /\ OnlyMoves(t[2], Hands, Hands') /\ OnlyMoves(t[2], Gone, Gone')
      /\ Hands[t[2]] = ToSet(batch[t]) /\ Hands'[t[2]] = ToSet(b)
      /\ Gone[t[2]] = applied[t] /\ Gone'[t[2]] = n
  BY <1>2, <1>4, <1>7, TaskMovesRows
<1>9. Sunk' = Sunk /\ Chain' = Chain /\ Taken' = Taken /\ Drawn' = Drawn /\ Full' = Full
  BY <1>3 DEF Sunk, Chain, Taken, Drawn, Scans, Source, Full
<1>10. Account'
  <2>1. PICK d \in Nat : d = applied[t]
    <3>1. applied[t] \in Nat
      BY <1>4, SMTT(30)
    <3> QED
      BY ONLY <3>1
  <2>2. /\ d < Len(Chain) /\ Gone[t[2]] = d /\ Chain[d + 1].kind # "limit"
        /\ Gone'[t[2]] = d + 1 \/ (Hands'[t[2]] = {} /\ Gone'[t[2]] = 0)
        /\ \A r : r \in Hands'[t[2]] <=>
             r \in Hands[t[2]] /\ (Chain[d + 1].kind = "filter" => r \in Chain[d + 1].keep)
    <3>1. m = d + 1 /\ tr = Chain[d + 1] /\ tr.kind # "limit"
      BY <1>1, <1>4, <2>1, Zenon
    <3>2. d < Len(Chain) /\ Gone[t[2]] = d
      BY <1>4, <1>8, <2>1, Zenon
    <3>3. Gone'[t[2]] = d + 1 \/ (Hands'[t[2]] = {} /\ Gone'[t[2]] = 0)
      BY ONLY <1>5, <1>6, <1>8, <3>1
    <3>4. \A r : r \in Hands'[t[2]] <=>
             r \in Hands[t[2]] /\ (Chain[d + 1].kind = "filter" => r \in Chain[d + 1].keep)
      BY <1>5, <1>8, <3>1, Zenon
    <3> QED
      BY <3>1, <3>2, <3>3, <3>4, Zenon
  <2>3. d \in Nat /\ t[2] \in ThreadIds /\ Chain \in Chains
    BY <1>4, Zenon
  <2>4. Accounted(Chain, Hands', Gone', Members(Sunk), Drawn, Taken)
    BY ONLY <1>2, <1>8, <2>2, <2>3, AccountAdvances DEF Account
  <2> QED
    BY <1>9, <2>4 DEF Account
<1> QED
  BY <1>2, <1>3, <1>4, <1>7, <1>9, <1>10, MidRows

\* What a limit lets through of a batch when it has counted old rows.
Cut(b, old, limit) == IF old >= limit THEN <<>>
                      ELSE IF Len(b) <= limit - old THEN b
                      ELSE SubSeq(b, 1, limit - old)

\* Its rows.
LEMMA LimitCuts ==
  ASSUME NEW S, NEW b \in Seq(S), IsInjective(b), NEW old, old \in Nat, NEW limit, limit \in Nat,
         NEW x, x = Cut(b, old, limit)
  PROVE  /\ IsInjective(x) /\ ToSet(x) \subseteq ToSet(b)
         /\ Cardinality(ToSet(x)) = IF old >= limit THEN 0
                                    ELSE Least(Cardinality(ToSet(b)), limit - old)
<1> USE DEF Cut
<1>1. Len(b) \in Nat /\ Cardinality(ToSet(b)) = Len(b)
  BY LenProperties, BatchSize
<1>2. CASE old >= limit
  <2>1. x = <<>> /\ ToSet(<<>>) = {} /\ IsInjective(<<>>)
    BY <1>2 DEF ToSet, IsInjective
  <2> QED
    BY <1>2, <2>1, FS_EmptySet
<1>3. CASE ~(old >= limit) /\ Len(b) <= limit - old
  <2>1. x = b /\ Least(Len(b), limit - old) = Len(b)
    BY <1>1, <1>3 DEF Least
  <2> QED
    BY <1>1, <1>3, <2>1
<1>4. CASE ~(old >= limit) /\ ~(Len(b) <= limit - old)
  <2>1. PICK m : m = limit - old
    OBVIOUS
  <2>2. m \in 0..Len(b) /\ x = SubSeq(b, 1, m) /\ Least(Len(b), m) = m
    BY <1>1, <1>4, <2>1 DEF Least
  <2>3. IsInjective(x) /\ ToSet(x) \subseteq ToSet(b) /\ Cardinality(ToSet(x)) = m
    BY <2>2, CutRows
  <2> QED
    BY <1>1, <1>4, <2>1, <2>2, <2>3
<1> QED
  BY <1>2, <1>3, <1>4

\* A batch goes through the limit.
LEMMA LimitRows ==
  ASSUME PlanChains, Control, Data, RowsInv, NEW w \in ThreadIds, LimitExecute(w)
  PROVE  RowsInv'
<1> DEFINE place(t) == applied[t] + 1
           counted(t) == curRows[<<t[1], place(t)>>]
           bound(t) == Transforms[t[1]][place(t)].n
<1>0. PICK t \in TaskId :
        /\ Runs(w, t, "transform")
        /\ <<t[1], place(t)>> \in Limits
        /\ curRows' = [curRows EXCEPT ![<<t[1], place(t)>>] = counted(t) + Len(batch[t])]
        /\ batch' = [batch EXCEPT ![t] = Cut(batch[t], counted(t), bound(t))]
        /\ applied' = [applied EXCEPT ![t] = place(t)]
        /\ pc' = [pc EXCEPT ![t] = IF LimitReached(counted(t), Len(batch[t]), bound(t))
                                     THEN "markDone" ELSE "pollDone"]
        /\ UNCHANGED <<mainVars, srcVars, sinkVars>>
  BY DEF LimitExecute, Cut
<1>1. PICK m, l, old, limit, size, b, k :
        /\ m = applied[t] + 1 /\ l = <<t[1], m>> /\ old = curRows[l]
        /\ limit = Transforms[t[1]][m].n /\ size = Len(batch[t])
        /\ b = Cut(batch[t], old, limit)
        /\ k = IF LimitReached(old, size, limit) THEN "markDone" ELSE "pollDone"
        /\ Runs(w, t, "transform")
        /\ l \in Limits
        /\ curRows' = [curRows EXCEPT ![l] = old + size]
        /\ batch' = [batch EXCEPT ![t] = b]
        /\ applied' = [applied EXCEPT ![t] = m]
        /\ pc' = [pc EXCEPT ![t] = k]
        /\ UNCHANGED <<mainVars, srcVars, sinkVars>>
  BY <1>0
<1> HIDE DEF place, counted, bound
<1>2. ControlTypeOK /\ HandsOnce /\ EmptyHands /\ Account
  BY DEF RowsInv, Control
<1>3. UNCHANGED <<pipe, cursor, emitted, ready, gathered, result>>
  BY <1>1 DEF mainVars, srcVars, sinkVars
<1>4. /\ t[1] = pipe /\ t = <<pipe, t[2]>> /\ t[2] \in ThreadIds
      /\ applied[t] \in Nat /\ batch[t] \in Seq(Rows) /\ IsInjective(batch[t])
      /\ Chain \in Chains /\ EndsInLimit(Chain) /\ m = Len(Chain) /\ limit = Bound(Chain)
      /\ limit \in Nat /\ old = Taken /\ old \in Nat /\ size \in Nat
  <2>1. t[1] = pipe /\ t = <<pipe, t[2]>> /\ t[2] \in ThreadIds
    BY <1>1, RunningTask
  <2>2. applied[t] \in Nat /\ batch[t] \in Seq(Rows) /\ old \in Nat
    BY <1>1 DEF Data, DataTypeOK
  <2>3. IsInjective(batch[t])
    BY <1>2, <2>1 DEF HandsOnce
  <2>4. Chain \in Chains
    BY <1>2, LimitsAreLast DEF Chain, ControlTypeOK
  <2>5. EndsInLimit(Transforms[l[1]]) /\ l[2] = Len(Transforms[l[1]]) /\ l = <<l[1], Len(Transforms[l[1]])>>
    BY <1>1, LimitsAreLast
  <2>6. l[1] = pipe /\ l[2] = m
    BY <1>1, <2>1
  <2>7. EndsInLimit(Chain) /\ m = Len(Chain) /\ l = <<pipe, Len(Chain)>>
    BY <2>5, <2>6 DEF Chain
  <2>8. limit = Bound(Chain) /\ old = Taken
    BY <1>1, <2>1, <2>7 DEF Bound, Chain, Taken
  <2>9. limit \in Nat /\ size \in Nat
    BY <1>1, <2>2, <2>4, <2>7, <2>8, ChainIs, LenProperties
  <2> QED
    BY <2>1, <2>2, <2>3, <2>4, <2>7, <2>8, <2>9
<1>5. /\ IsInjective(b) /\ ToSet(b) \subseteq ToSet(batch[t])
      /\ Cardinality(ToSet(b)) = IF old >= limit THEN 0
                                 ELSE Least(Cardinality(ToSet(batch[t])), limit - old)
  <2>1. /\ batch[t] \in Seq(Rows) /\ IsInjective(batch[t]) /\ old \in Nat /\ limit \in Nat
        /\ b = Cut(batch[t], old, limit)
    BY <1>1, <1>4
  <2> QED
    BY ONLY <2>1, LimitCuts
<1>6. size = Cardinality(ToSet(batch[t]))
  <2>1. size = Len(batch[t]) /\ batch[t] \in Seq(Rows) /\ IsInjective(batch[t])
    BY <1>1, <1>4, ZenonT(60)
  <2> QED
    BY ONLY <2>1, BatchSize
<1>7. TaskGoes(t, k, b, m) /\ k \notin {"latch", "notify", "unlock", "end"}
  BY <1>1, <1>3, <1>5 DEF TaskGoes
<1>8. /\ OnlyMoves(t[2], Hands, Hands') /\ OnlyMoves(t[2], Gone, Gone')
      /\ Hands[t[2]] = ToSet(batch[t]) /\ Hands'[t[2]] = ToSet(b)
      /\ Gone[t[2]] = applied[t] /\ Gone'[t[2]] = m
  BY <1>2, <1>4, <1>7, TaskMovesRows
<1>9. /\ Sunk' = Sunk /\ Chain' = Chain /\ Drawn' = Drawn
      /\ Taken' = old + size /\ (Full => Full')
  <2>1. Sunk' = Sunk /\ Chain' = Chain /\ Drawn' = Drawn
    BY <1>3 DEF Sunk, Chain, Drawn, Scans, Source
  <2>2. l = <<pipe, Len(Chain)>>
    BY <1>1, <1>4
  <2>3. Taken' = curRows'[l]
    BY <1>3, <2>1, <2>2 DEF Taken
  <2>4. curRows'[l] = old + size
    BY <1>1 DEF Data, DataTypeOK
  <2>5. Full => Full'
    BY <1>4, <2>1, <2>3, <2>4 DEF Full
  <2> QED
    BY <2>1, <2>3, <2>4, <2>5
<1>10. Account'
  <2>1. PICK d \in Nat : d = applied[t]
    BY <1>4, SMTT(30)
  <2>2. /\ Gone[t[2]] = d /\ d + 1 = Len(Chain) /\ Gone'[t[2]] = d + 1
        /\ Hands'[t[2]] \subseteq Hands[t[2]]
        /\ Cardinality(Hands'[t[2]]) = IF Taken >= Bound(Chain) THEN 0
                                       ELSE Least(Cardinality(Hands[t[2]]), Bound(Chain) - Taken)
    BY <1>1, <1>4, <1>5, <1>8, <2>1
  <2>3. d \in Nat /\ t[2] \in ThreadIds /\ Chain \in Chains /\ EndsInLimit(Chain)
    BY <1>4
  <2>4. IsFiniteSet(Drawn)
    BY <1>2, SourceRows, FS_Subset
  <2>5. Accounted(Chain, Hands', Gone', Members(Sunk), Drawn, Taken + Cardinality(Hands[t[2]]))
    BY ONLY <1>2, <1>8, <2>2, <2>3, <2>4, AccountLimits DEF Account
  <2>6. Taken + Cardinality(Hands[t[2]]) = Taken'
    BY <1>4, <1>6, <1>8, <1>9
  <2> QED
    BY <1>9, <2>5, <2>6 DEF Account
<1>11. \A n \in Limits : n[1] > pipe => curRows'[n] = curRows[n]
  <2>1. \A n \in Limits : n[1] > pipe => n # l
    BY <1>1, <1>2, <1>4, Numbers DEF ControlTypeOK
  <2> QED
    BY <1>1, <2>1 DEF Data, DataTypeOK
<1> QED
  BY <1>2, <1>3, <1>4, <1>7, <1>9, <1>10, <1>11, MidRows

\* Behind a limit the task goes on, or leaves with the batch it has.
LEMMA StopRows ==
  ASSUME PlanChains, Control, Data, RowsInv, NEW w \in ThreadIds, MarkDone(w) \/ PollDone(w)
  PROVE  RowsInv'
<1>1. PICK t \in TaskId, isDone \in BOOLEAN :
        /\ Runs(w, t, "markDone") \/ Runs(w, t, "pollDone")
        /\ StopOrForward(t, isDone)
        /\ UNCHANGED <<mainVars, srcVars, curRows, sinkVars>>
  BY DEF MarkDone, PollDone, limVars
<1>2. ControlTypeOK /\ HandsOnce /\ EmptyHands /\ Account
  BY DEF RowsInv, Control
<1>3. UNCHANGED <<pipe, cursor, emitted, ready, gathered, result, curRows>>
  BY <1>1 DEF mainVars, srcVars, sinkVars
<1>4. /\ t[1] = pipe /\ t = <<pipe, t[2]>> /\ t[2] \in ThreadIds
      /\ IsInjective(batch[t]) /\ Chain \in Chains
      /\ applied[t] = Len(Chain) /\ Len(Chain) = Len(Transforms[t[1]])
      /\ batch[t] = <<>> <=> ToSet(batch[t]) = {}
  <2>1. t[1] = pipe /\ t = <<pipe, t[2]>> /\ t[2] \in ThreadIds
    BY <1>1, RunningTask
  <2>2. <<t[1], applied[t]>> \in Limits
    BY <1>1 DEF Runs, Data, BatchesInPlace
  <2>3. applied[t] = Len(Transforms[t[1]])
    BY <2>2, LimitsAreLast
  <2>4. Chain \in Chains /\ IsInjective(batch[t])
    BY <1>2, <2>1, LimitsAreLast DEF Chain, ControlTypeOK, HandsOnce
  <2>5. batch[t] = <<>> <=> ToSet(batch[t]) = {}
    BY BatchRows DEF Data, DataTypeOK
  <2> QED
    BY <2>1, <2>3, <2>4, <2>5 DEF Chain
<1>5. PICK k, n :
        /\ TaskGoes(t, k, batch[t], n) /\ k \notin {"latch", "notify", "unlock", "end"}
        /\ n = applied[t] \/ (n = 0 /\ batch[t] = <<>>)
  <2>1. batch' = [batch EXCEPT ![t] = batch[t]]
    BY <1>1 DEF StopOrForward, Forward, Data, DataTypeOK
  <2>2. CASE isDone
    <3>1. pc' = [pc EXCEPT ![t] = "sink"] /\ applied' = [applied EXCEPT ![t] = applied[t]]
      BY <1>1, <2>2 DEF StopOrForward, Data, DataTypeOK
    <3>2. TaskGoes(t, "sink", batch[t], applied[t])
      BY <1>3, <1>4, <2>1, <3>1 DEF TaskGoes
    <3> QED
      BY <3>2
  <2>3. CASE ~isDone
    <3>1. PICK k, n :
            /\ k = IF batch[t] = <<>> THEN "get" ELSE "sink"
            /\ n = IF batch[t] = <<>> THEN 0 ELSE applied[t]
      OBVIOUS
    <3>2. pc' = [pc EXCEPT ![t] = k] /\ applied' = [applied EXCEPT ![t] = n]
      BY <1>1, <1>4, <2>3, <3>1 DEF StopOrForward, Forward
    <3>3. TaskGoes(t, k, batch[t], n)
      BY <1>3, <1>4, <2>1, <3>1, <3>2 DEF TaskGoes
    <3> QED
      BY <3>1, <3>3
  <2> QED
    BY <2>2, <2>3
<1>6. /\ OnlyMoves(t[2], Hands, Hands') /\ OnlyMoves(t[2], Gone, Gone')
      /\ Hands[t[2]] = ToSet(batch[t]) /\ Hands'[t[2]] = ToSet(batch[t])
      /\ Gone[t[2]] = applied[t] /\ Gone'[t[2]] = n
  BY <1>2, <1>4, <1>5, TaskMovesRows
<1>7. Sunk' = Sunk /\ Chain' = Chain /\ Taken' = Taken /\ Drawn' = Drawn /\ Full' = Full
  BY <1>3 DEF Sunk, Chain, Taken, Drawn, Scans, Source, Full
<1>8. Account'
  <2>1. CASE n = applied[t]
    <3>1. Hands' = Hands /\ Gone' = Gone
      BY <1>6, <2>1 DEF OnlyMoves, Hands, Gone
    <3> QED
      BY <1>2, <1>7, <3>1 DEF Account
  <2>2. CASE batch[t] = <<>>
    <3>1. Hands[t[2]] = {} /\ Hands'[t[2]] = {} /\ t[2] \in ThreadIds
      BY <1>4, <1>6, <2>2
    <3>2. Accounted(Chain, Hands', Gone', Members(Sunk), Drawn, Taken)
      BY ONLY <1>2, <1>6, <3>1, AccountResets DEF Account
    <3> QED
      BY <1>7, <3>2 DEF Account
  <2> QED
    BY <1>5, <2>1, <2>2
<1> QED
  BY <1>2, <1>3, <1>4, <1>5, <1>7, <1>8, MidRows

\* One sequence more, of elements that were in none.
LEMMA AppendApart ==
  ASSUME NEW S, NEW s \in Seq(Seq(S)), Apart(s), NEW b \in Seq(S), IsInjective(b),
         ToSet(b) \cap Members(s) = {}
  PROVE  Apart(Append(s, b)) /\ Members(Append(s, b)) = Members(s) \cup ToSet(b)
<1>1. PICK u, n : u = Append(s, b) /\ n = Len(s)
  OBVIOUS
<1>2. /\ n \in Nat /\ DOMAIN s = 1..n /\ DOMAIN u = 1..(n + 1)
      /\ \A i \in 1..n : u[i] = s[i]
      /\ u[n + 1] = b
  BY <1>1, AppendProperties, LenProperties
<1>3. /\ n + 1 \in 1..(n + 1) /\ \A i \in 1..n : i \in 1..(n + 1) /\ i # n + 1
      /\ \A i \in 1..(n + 1) : i \in 1..n \/ i = n + 1
  BY <1>2
<1>4. /\ \A i \in 1..n : IsInjective(s[i]) /\ ToSet(s[i]) \subseteq Members(s)
      /\ \A i, j \in 1..n : i # j => ToSet(s[i]) \cap ToSet(s[j]) = {}
  BY <1>2, ApartGives DEF Members
<1>5. \A i \in 1..(n + 1) : IsInjective(u[i])
  BY <1>2, <1>3, <1>4
<1>6. ASSUME NEW i \in 1..(n + 1), NEW j \in 1..(n + 1), i # j
      PROVE  ToSet(u[i]) \cap ToSet(u[j]) = {}
  BY <1>2, <1>3, <1>4, <1>6
<1>7. Apart(u)
  BY <1>2, <1>5, <1>6, ApartIs
<1>8. \A x : x \in Members(u) <=> x \in Members(s) \cup ToSet(b)
  <2>1. \A x : x \in Members(u) <=> \E i \in 1..(n + 1) : x \in ToSet(u[i])
    BY <1>2, Zenon DEF Members
  <2>2. \A x : x \in Members(s) <=> \E i \in 1..n : x \in ToSet(s[i])
    BY <1>2, Zenon DEF Members
  <2>3. \A x : x \in Members(u) <=> x \in Members(s) \/ x \in ToSet(b)
    BY ONLY <1>2, <1>3, <2>1, <2>2, Zenon
  <2> QED
    BY ONLY <2>3
<1> QED
  BY <1>1, <1>7, <1>8

\* In u, sequence k of s goes on with b.
Extended(u, s, k, b) ==
  /\ k \in DOMAIN s /\ DOMAIN u = DOMAIN s
  /\ \A i \in DOMAIN s : u[i] = IF i = k THEN s[k] \o b ELSE s[i]

\* One of the sequences gets longer.
LEMMA ExtendApart ==
  ASSUME NEW S, NEW s \in Seq(Seq(S)), Apart(s), NEW b \in Seq(S), IsInjective(b),
         ToSet(b) \cap Members(s) = {}, NEW k, NEW u, Extended(u, s, k, b)
  PROVE  Apart(u) /\ Members(u) = Members(s) \cup ToSet(b)
<1> USE DEF Extended
<1>1. /\ \A i \in DOMAIN s : IsInjective(s[i]) /\ ToSet(s[i]) \subseteq Members(s)
      /\ \A i, j \in DOMAIN s : i # j => ToSet(s[i]) \cap ToSet(s[j]) = {}
  BY ApartGives DEF Members
<1>2. s[k] \in Seq(S)
  BY ElementOfSeq, LenProperties
<1>3. PICK x : x = s[k]
  OBVIOUS
<1>4. PICK y : y = s[k] \o b
  OBVIOUS
<1>5. ToSet(y) = ToSet(x) \cup ToSet(b) /\ IsInjective(y)
  <2>1. IsInjective(x) /\ ToSet(x) \cap ToSet(b) = {} /\ x \in Seq(S)
    BY <1>1, <1>2, <1>3
  <2> QED
    BY <1>3, <1>4, <2>1, ConcatMembers
<1>6. \A i \in DOMAIN s : u[i] = IF i = k THEN y ELSE s[i]
  BY <1>4
<1>7. \A i \in DOMAIN u : IsInjective(u[i])
  BY <1>1, <1>5, <1>6
<1>8. ASSUME NEW i \in DOMAIN u, NEW j \in DOMAIN u, i # j
      PROVE  ToSet(u[i]) \cap ToSet(u[j]) = {}
  BY <1>1, <1>3, <1>5, <1>6, <1>8
<1>9. Apart(u)
  BY <1>7, <1>8, ApartIs
<1>10. ASSUME NEW e
       PROVE  e \in Members(u) <=> e \in Members(s) \/ e \in ToSet(b)
  <2>1. e \in Members(u) <=> \E i \in DOMAIN s : e \in ToSet(u[i])
    BY ZenonT(60) DEF Members
  <2>2. e \in Members(s) <=> \E i \in DOMAIN s : e \in ToSet(s[i])
    BY Zenon DEF Members
  <2> QED
    BY ONLY <1>3, <1>5, <1>6, <2>1, <2>2, Extended(u, s, k, b)
<1> QED
  BY <1>9, <1>10

\* The sink takes a batch.
LEMMA SinkRows ==
  ASSUME PlanChains, Control, Data, RowsInv, NEW w \in ThreadIds, Sink(w)
  PROVE  RowsInv'
<1>1. PICK t \in TaskId :
        /\ Runs(w, t, "sink")
        /\ IF t[1] + 1 \in Pipelines
             THEN /\ gathered' = [gathered EXCEPT ![t] = gathered[t] \o batch[t]]
                  /\ result' = result
             ELSE /\ result' = Append(result, batch[t])
                  /\ gathered' = gathered
        /\ pc' = [pc EXCEPT ![t] = IF stopping[t] THEN "latch" ELSE "get"]
        /\ batch' = [batch EXCEPT ![t] = <<>>]
        /\ applied' = [applied EXCEPT ![t] = 0]
        /\ UNCHANGED <<mainVars, srcVars, limVars>>
  BY DEF Sink
<1>2. /\ ControlTypeOK /\ HandsOnce /\ EmptyHands /\ Account /\ Apart(Sunk) /\ LeavesWhenDone
      /\ Untouched /\ IsInjective(Source) /\ cursor > 0
  BY DEF RowsInv, Control
<1>3. UNCHANGED <<pipe, cursor, emitted, ready, curRows>>
  BY <1>1 DEF mainVars, srcVars, limVars
<1>4. /\ t[1] = pipe /\ t = <<pipe, t[2]>> /\ t[2] \in ThreadIds
      /\ applied[t] = Len(Chain) /\ Chain \in Chains
      /\ batch[t] \in Seq(Rows) /\ IsInjective(batch[t])
  <2>1. t[1] = pipe /\ t = <<pipe, t[2]>> /\ t[2] \in ThreadIds
    BY <1>1, RunningTask
  <2>2. applied[t] = Len(Transforms[t[1]])
    BY <1>1, <1>2 DEF Runs, EmptyHands
  <2>3. Chain \in Chains /\ IsInjective(batch[t])
    BY <1>2, <2>1, LimitsAreLast DEF Chain, ControlTypeOK, HandsOnce
  <2> QED
    BY <2>1, <2>2, <2>3 DEF Chain, Data, DataTypeOK
<1>5. PICK k : k = IF stopping[t] THEN "latch" ELSE "get"
  OBVIOUS
<1>6. TaskGoes(t, k, <<>>, 0)
  <2>1. IsInjective(<<>>)
    BY DEF IsInjective
  <2> QED
    BY <1>1, <1>3, <1>5, <2>1 DEF TaskGoes
<1>7. /\ OnlyMoves(t[2], Hands, Hands') /\ OnlyMoves(t[2], Gone, Gone')
      /\ Hands[t[2]] = ToSet(batch[t]) /\ Hands'[t[2]] = ToSet(<<>>)
      /\ Gone[t[2]] = applied[t]
      /\ HandsOnce' /\ EmptyHands'
  BY <1>2, <1>4, <1>6, TaskMovesRows
<1>8. /\ Source' = Source /\ Chain' = Chain /\ Taken' = Taken /\ Drawn' = Drawn
      /\ Full' = Full /\ Dry' = Dry
  BY <1>3 DEF Source, Chain, Taken, Drawn, Scans, Full, Dry
<1>9. ToSet(batch[t]) \cap Members(Sunk) = {}
  BY <1>2, <1>4, <1>7 DEF Account, Accounted, RowsApart
<1>10. Apart(Sunk') /\ Members(Sunk') = Members(Sunk) \cup ToSet(batch[t])
  <2>0. Sunk \in Seq(Seq(Rows))
    BY <1>2, SunkType
  <2>1. CASE pipe + 1 \in Pipelines
    <3>1. Sunk = [i \in ThreadIds |-> gathered[<<pipe, i>>]]
      BY <2>1 DEF Sunk
    <3>2. Sunk' = [i \in ThreadIds |-> gathered'[<<pipe, i>>]]
      BY <1>3, <2>1 DEF Sunk
    <3>3. /\ gathered'[t] = gathered[t] \o batch[t]
          /\ \A j \in ThreadIds : j # t[2] => gathered'[<<pipe, j>>] = gathered[<<pipe, j>>]
      <4>1. gathered' = [gathered EXCEPT ![t] = gathered[t] \o batch[t]]
        BY <1>1, <1>4, <2>1
      <4>2. DOMAIN gathered = TaskId
        BY DEF Data, DataTypeOK
      <4>3. \A j \in ThreadIds : <<pipe, j>> \in TaskId /\ (j # t[2] => <<pipe, j>> # t)
        BY <1>2, <1>4, Numbers DEF ControlTypeOK
      <4> QED
        BY ONLY <4>1, <4>2, <4>3, t \in TaskId
    <3>4. \A i \in ThreadIds : Sunk'[i] = IF i = t[2] THEN Sunk[t[2]] \o batch[t] ELSE Sunk[i]
      BY <1>4, <3>1, <3>2, <3>3
    <3>5. DOMAIN Sunk = ThreadIds /\ DOMAIN Sunk' = ThreadIds
      BY <3>1, <3>2
    <3> QED
      <4>1. Extended(Sunk', Sunk, t[2], batch[t])
        BY <1>4, <3>4, <3>5 DEF Extended
      <4> QED
        BY ONLY <1>2, <1>4, <1>9, <2>0, <4>1, ExtendApart
  <2>2. CASE pipe + 1 \notin Pipelines
    <3>1. Sunk' = Append(Sunk, batch[t])
      BY <1>1, <1>3, <1>4, <2>2 DEF Sunk
    <3> QED
      BY <1>2, <1>4, <1>9, <2>0, <3>1, AppendApart
  <2> QED
    BY <2>1, <2>2
<1>11. Account'
  <2>1. PICK Q : Q = Members(Sunk') /\ Q = Members(Sunk) \cup Hands[t[2]]
    BY <1>7, <1>10
  <2>2. Hands'[t[2]] = {} /\ Gone[t[2]] = Len(Chain)
    BY <1>4, <1>7 DEF ToSet
  <2>3. Accounted(Chain, Hands', Gone', Q, Drawn, Taken)
    BY ONLY <1>2, <1>4, <1>7, <2>1, <2>2, AccountSinks DEF Account
  <2> QED
    BY <1>8, <2>1, <2>3 DEF Account
<1>12. LeavesWhenDone'
  <2>1. stopping[t] => Full
    <3> SUFFICES ASSUME stopping[t]
                 PROVE  Full
      OBVIOUS
    <3>1. PICK l \in Limits : l[1] = t[1] /\ curRows[l] >= Transforms[l[1]][l[2]].n
      BY DEF Data, StopsOnlyWhenFull
    <3>2. EndsInLimit(Transforms[l[1]]) /\ l[2] = Len(Transforms[l[1]]) /\ l = <<l[1], Len(Transforms[l[1]])>>
      BY LimitsAreLast
    <3> QED
      BY <1>4, <3>1, <3>2 DEF Full, Chain, Taken, Bound
  <2> QED
    BY <1>1, <1>2, <1>3, <1>4, <1>5, <1>8, <2>1, TaskLeaves
<1>13. Untouched'
  <2>1. \A p \in Pipelines : p > pipe => \A i \in ThreadIds : gathered'[<<p, i>>] = gathered[<<p, i>>]
    <3> SUFFICES ASSUME NEW p \in Pipelines, p > pipe, NEW i \in ThreadIds
                 PROVE  gathered'[<<p, i>>] = gathered[<<p, i>>]
      OBVIOUS
    <3>1. <<p, i>> \in TaskId /\ <<p, i>> # t
      BY <1>2, <1>4, Numbers DEF ControlTypeOK
    <3> QED
      BY <1>1, <3>1 DEF Data, DataTypeOK
  <2>2. pipe + 1 \in Pipelines => result' = result
    BY <1>1, <1>4
  <2> QED
    BY <1>2, <1>3, <2>1, <2>2 DEF Untouched
<1> QED
  BY <1>2, <1>3, <1>7, <1>8, <1>10, <1>11, <1>12, <1>13 DEF RowsInv

\* At the latch a task has no rows.
LEMMA LatchRows ==
  ASSUME Control, Data, RowsInv, NEW w \in ThreadIds, Latch(w) \/ NotifyMain(w) \/ Unlock(w)
  PROVE  RowsInv'
<1>1. PICK t \in TaskId, k \in {"notify", "unlock", "end"} :
        /\ Runs(w, t, "latch") \/ Runs(w, t, "notify") \/ Runs(w, t, "unlock")
        /\ pc' = [pc EXCEPT ![t] = k]
        /\ UNCHANGED <<pipe, batch, applied, srcVars, limVars, sinkVars>>
  BY DEF Latch, NotifyMain, Unlock, mainVars
<1>2. UNCHANGED <<pipe, batch, applied, cursor, emitted, ready, curRows, gathered, result>>
  BY <1>1 DEF srcVars, limVars, sinkVars
<1>3. /\ ControlTypeOK /\ HandsOnce /\ EmptyHands /\ Account /\ Apart(Sunk) /\ LeavesWhenDone
      /\ Untouched /\ IsInjective(Source) /\ cursor > 0
  BY DEF RowsInv, Control
<1>4. t[1] = pipe /\ t = <<pipe, t[2]>> /\ t[2] \in ThreadIds /\ pc[t] \in {"latch", "notify", "unlock"}
  BY <1>1, RunningTask DEF Runs
<1>5. /\ Source' = Source /\ Chain' = Chain /\ Taken' = Taken /\ Drawn' = Drawn
      /\ Full' = Full /\ Dry' = Dry /\ Sunk' = Sunk /\ Hands' = Hands /\ Gone' = Gone
  BY <1>2 DEF Source, Chain, Taken, Drawn, Scans, Full, Dry, Sunk, Hands, Gone
<1>6. Account' /\ HandsOnce' /\ Untouched'
  BY <1>2, <1>3, <1>5 DEF Account, HandsOnce, Untouched
<1>7. EmptyHands'
  BY <1>1, <1>2, <1>3, <1>4 DEF EmptyHands, ControlTypeOK
<1>8. LeavesWhenDone'
  <2>1. Dry \/ Full
    BY <1>3, <1>4 DEF LeavesWhenDone
  <2> QED
    BY <1>5, <2>1 DEF LeavesWhenDone
<1> QED
  BY <1>2, <1>3, <1>5, <1>6, <1>7, <1>8 DEF RowsInv

\* A step that touches no rows.
LEMMA RowsAlone ==
  ASSUME RowsInv,
         UNCHANGED <<pipe, pc, batch, applied, cursor, emitted, ready, curRows, gathered, result>>
  PROVE  RowsInv'
<1>1. /\ Source' = Source /\ Chain' = Chain /\ Taken' = Taken /\ Drawn' = Drawn
      /\ Full' = Full /\ Dry' = Dry /\ Sunk' = Sunk /\ Hands' = Hands /\ Gone' = Gone
  BY DEF Source, Chain, Taken, Drawn, Scans, Full, Dry, Sunk, Hands, Gone
<1> QED
  BY <1>1 DEF RowsInv, Account, HandsOnce, Untouched, EmptyHands, LeavesWhenDone

-----------------------------------------------------------------------------
(* The end of a pipeline. *)

\* What the sink holds then is what the plan may make of the source.
LEMMA PipelineEnds ==
  ASSUME PlanChains, Control, Data, RowsInv, main = "finalize"
  PROVE  /\ FlattenSeq(Sunk) \in Plan!SetToSeqs(Members(Sunk))
         /\ Members(Sunk) \in Plan!Outcomes(pipe, ToSet(Source))
         /\ IsInjective(FlattenSeq(Sunk))
<1>1. /\ ControlTypeOK /\ EmptyHands /\ Account /\ Apart(Sunk) /\ LeavesWhenDone
      /\ \A i \in ThreadIds : pc[<<pipe, i>>] = "end"
  BY DEF RowsInv, Control, MainKnows
<1>2. \A i \in ThreadIds : Hands[i] = {}
  <2>1. \A i \in ThreadIds : batch[<<pipe, i>>] = <<>>
    BY <1>1, Numbers DEF EmptyHands, ControlTypeOK
  <2> QED
    BY <2>1 DEF Hands, ToSet
<1>3. Dry \/ Full
  <2>1. 1 \in ThreadIds
    BY Numbers DEF ThreadIds
  <2> QED
    BY <1>1, <2>1 DEF LeavesWhenDone
<1>4. Ahead(Chain, Hands, Gone) = {} /\ Past(Chain, Hands, Gone, Members(Sunk)) = Members(Sunk)
  BY <1>2 DEF Ahead, Past
<1>5. PICK p, D, c, S, ch : p = Members(Sunk) /\ D = Drawn /\ c = Taken /\ S = ToSet(Source) /\ ch = Chain
  OBVIOUS
<1>6. Balanced(ch, {}, p, D, c)
  BY <1>1, <1>4, <1>5 DEF Account, Accounted
<1>7. p \subseteq Survivors(ch, D, Len(ch))
  BY <1>1, <1>5 DEF Account, Accounted, RowsApart, RowsPass, Survivors
<1>8. D \subseteq S /\ IsFiniteSet(S) /\ (D = S \/ (EndsInLimit(ch) /\ c >= Bound(ch)))
  BY <1>1, <1>3, <1>5, SourceRows DEF Full
<1>9. ch \in Chains /\ pipe \in Pipelines /\ ch = Transforms[pipe]
  BY <1>1, <1>5, LimitsAreLast DEF Chain, ControlTypeOK
<1>10. LET all == Survivors(ch, S, Len(ch))
       IN IF EndsInLimit(ch)
            THEN p \subseteq all /\ Cardinality(p) = Least(Bound(ch), Cardinality(all))
            ELSE p = all
  BY ONLY <1>6, <1>7, <1>8, <1>9, BalanceEnds
<1>11. p \in Plan!Outcomes(pipe, S)
  BY ONLY <1>9, <1>10, MayLeave
<1>12. /\ FlattenSeq(Sunk) \in Seq(Rows) /\ IsInjective(FlattenSeq(Sunk))
       /\ ToSet(FlattenSeq(Sunk)) = Members(Sunk)
  BY <1>1, SunkType, FlattenMembers, FlattenType
<1>13. FlattenSeq(Sunk) \in Plan!SetToSeqs(Members(Sunk))
  BY <1>12, IsSetToSeqs
<1> QED
  BY <1>5, <1>11, <1>12, <1>13

\* The next pipeline starts.
LEMMA NextPipelineRows ==
  ASSUME PlanChains, Control, Data, RowsInv, Finalize, pipe + 1 \in Pipelines
  PROVE  RowsInv' /\ Source' = FlattenSeq(Sunk)
<1>1. /\ main = "finalize" /\ pipe' = pipe + 1
      /\ ready' = [ready EXCEPT ![pipe] = Merged(pipe)]
      /\ gathered' = [t \in TaskId |-> IF t[1] = pipe THEN <<>> ELSE gathered[t]]
      /\ UNCHANGED <<pc, batch, applied, cursor, emitted, curRows, result>>
  BY DEF Finalize, taskVars, limVars
<1>2. ControlTypeOK /\ EmptyHands /\ Untouched /\ cursor > 0
  BY DEF RowsInv, Control
<1>3. pipe \in Nat /\ pipe \in Pipelines /\ pipe + 1 > pipe /\ pipe + 1 # pipe /\ pipe + 1 # 1
      /\ (pipe + 1) - 1 = pipe
  BY <1>2, Numbers DEF ControlTypeOK
<1>4. Source' = FlattenSeq(Sunk)
  <2>1. Source' = ready'[pipe]
    BY <1>1, <1>3 DEF Source
  <2>2. ready'[pipe] = Merged(pipe)
    BY <1>1, <1>3 DEF Data, DataTypeOK
  <2>3. Merged(pipe) = FlattenSeq(Sunk)
    BY DEF Merged, Sunk
  <2> QED
    BY <2>1, <2>2, <2>3
<1>5. IsInjective(Source')
  BY <1>1, <1>4, PipelineEnds
<1>6. ASSUME NEW i \in ThreadIds
      PROVE  pc[<<pipe + 1, i>>] = "get" /\ batch[<<pipe + 1, i>>] = <<>>
  <2>1. <<pipe + 1, i>> \in TaskId
    BY Numbers
  <2>2. ~(pipe + 1 < pipe)
    BY <1>3
  <2>3. <<pipe + 1, i>> \notin enqueued
    BY <1>3, <2>2 DEF Control, EnqueuedInOrder
  <2>4. pc[<<pipe + 1, i>>] = "get"
    BY <2>1, <2>3 DEF Control, PlacesFollowPool
  <2> QED
    BY <1>2, <2>1, <2>4 DEF EmptyHands
<1>7. DOMAIN <<>> = {} /\ ToSet(<<>>) = {} /\ IsInjective(<<>>)
  BY DEF ToSet, IsInjective
<1>8. HandsOnce' /\ EmptyHands' /\ LeavesWhenDone'
  BY <1>1, <1>2, <1>6, <1>7 DEF HandsOnce, EmptyHands, LeavesWhenDone
<1>9. \A p \in Pipelines : p > pipe + 1 => p > pipe /\ p # pipe
  BY <1>3, Numbers
<1>10. Untouched'
  <2>1. \A p \in Pipelines, i \in ThreadIds : p > pipe => gathered'[<<p, i>>] = <<>>
    <3> SUFFICES ASSUME NEW p \in Pipelines, NEW i \in ThreadIds, p > pipe
                 PROVE  gathered'[<<p, i>>] = <<>>
      OBVIOUS
    <3>1. <<p, i>> \in TaskId /\ gathered[<<p, i>>] = <<>>
      BY <1>2, Numbers DEF Untouched
    <3> QED
      BY <1>1, <3>1
  <2>2. \A l \in Limits : l[1] > pipe + 1 => l[1] > pipe
    BY <1>9, PlanTypes
  <2> QED
    BY <1>1, <1>2, <1>9, <2>1, <2>2 DEF Untouched
<1>11. Apart(Sunk') /\ Members(Sunk') = {}
  <2>1. CASE (pipe + 1) + 1 \in Pipelines
    <3>1. Sunk' = [i \in ThreadIds |-> gathered'[<<pipe + 1, i>>]]
      BY <1>1, <2>1 DEF Sunk
    <3>2. \A i \in ThreadIds : gathered'[<<pipe + 1, i>>] = <<>>
      <4> SUFFICES ASSUME NEW i \in ThreadIds
                   PROVE  gathered'[<<pipe + 1, i>>] = <<>>
        OBVIOUS
      <4>1. <<pipe + 1, i>> \in TaskId /\ gathered[<<pipe + 1, i>>] = <<>>
        BY <1>2, <1>3, Numbers DEF Untouched
      <4> QED
        BY <1>1, <4>1
    <3>3. \A a \in DOMAIN Sunk' : Sunk'[a] = <<>>
      BY <3>1, <3>2
    <3> QED
      BY <3>3, NothingSunk
  <2>2. CASE (pipe + 1) + 1 \notin Pipelines
    <3>1. Sunk' = <<>>
      BY <1>1, <1>2, <2>2 DEF Sunk, Untouched
    <3> QED
      BY <1>7, <3>1, NothingSunk
  <2> QED
    BY <2>1, <2>2
<1>12. Drawn' = {}
  BY <1>1, <1>2, <1>3 DEF Drawn, Scans, Untouched
<1>13. Account'
  <2>1. Chain' \in Chains /\ (EndsInLimit(Chain') => Taken' = 0)
    <3>1. Chain' = Transforms[pipe + 1]
      BY <1>1 DEF Chain
    <3>2. EndsInLimit(Transforms[pipe + 1]) => <<pipe + 1, Len(Transforms[pipe + 1])>> \in Limits
      BY LimitsAreLast
    <3>3. Taken' = curRows[<<pipe + 1, Len(Transforms[pipe + 1])>>]
      BY <1>1, <3>1 DEF Taken
    <3>4. \A l \in Limits : l[1] = pipe + 1 => curRows[l] = 0
      BY <1>2, <1>3 DEF Untouched
    <3> QED
      BY <3>1, <3>2, <3>3, <3>4, LimitsAreLast
  <2>2. \A i \in ThreadIds : Hands'[i] = {}
    BY <1>1, <1>6, <1>7 DEF Hands
  <2> QED
    BY <1>11, <1>12, <2>1, <2>2, AccountStarts DEF Account
<1> QED
  BY <1>1, <1>2, <1>4, <1>5, <1>8, <1>10, <1>11, <1>13 DEF RowsInv

\* What the threads do in the pool's own code.
LEMMA PoolTouches ==
  /\ \A t \in TaskId : Pool!Enqueue(t) => owner = "idle" /\ owner' = "notifyOne"
  /\ Pool!OwnerMove =>
       \/ owner = "notifyOne" /\ owner' = "idle"
       \/ owner = "notifyAll" /\ owner' = "joining"
       \/ owner = "joining" /\ owner' = "gone"
  /\ Pool!Destroy => owner' = "notifyAll"
  /\ \A w \in ThreadIds :
       Pool!Loop(w) \/ Pool!Return(w) \/ Pool!SpuriousWake(w) => owner' = owner
BY DEF Pool!Enqueue, Pool!OwnerMove, Pool!NotifyOne, Pool!NotifyAll, Pool!Join, Pool!Destroy,
       Pool!Loop, Pool!Take, Pool!Sleep, Pool!Exit, Pool!Return, Pool!SpuriousWake

\* A worker leaves the answer and the owner of the pool alone.
LEMMA WorkerLeavesAnswer ==
  ASSUME NEW w \in ThreadIds, WorkerStep(w) \/ PoolSpuriousWake(w)
  PROVE  answer' = answer /\ owner' = owner
<1>1. CASE PoolStep(w) \/ PoolSpuriousWake(w)
  BY <1>1, PoolTouches DEF PoolStep, PoolSpuriousWake, mainVars
<1>2. CASE GetData(w)
  BY <1>2, Zenon DEF GetData, poolVars
<1>3. CASE Transform(w)
  BY <1>3, Zenon DEF Transform, poolVars, mainVars
<1>4. CASE LimitExecute(w)
  BY <1>4, Zenon DEF LimitExecute, poolVars, mainVars
<1>5. CASE MarkDone(w)
  BY <1>5, Zenon DEF MarkDone, poolVars, mainVars
<1>6. CASE PollDone(w)
  BY <1>6, Zenon DEF PollDone, poolVars, mainVars
<1>7. CASE Sink(w)
  BY <1>7, Zenon DEF Sink, poolVars, mainVars
<1>8. CASE Latch(w) \/ NotifyMain(w) \/ Unlock(w)
  BY <1>8 DEF Latch, NotifyMain, Unlock, poolVars, mainVars
<1> QED
  BY <1>1, <1>2, <1>3, <1>4, <1>5, <1>6, <1>7, <1>8 DEF WorkerStep

\* The answer is made when the pool is destroyed, and not before.
LEMMA AnswerStep == NoAnswer /\ [Next]_vars => NoAnswer'
<1> SUFFICES ASSUME NoAnswer, [Next]_vars
             PROVE  NoAnswer'
  OBVIOUS
<1> USE DEF NoAnswer
<1>1. CASE UNCHANGED vars
  BY <1>1 DEF vars, poolVars, mainVars
<1>2. CASE EnqueueTask \/ LeavePool
  <2>1. answer' = answer /\ (owner' \in {"idle", "notifyOne"} => owner \in {"idle", "notifyOne"})
    BY <1>2, PoolTouches, Numbers DEF EnqueueTask, LeavePool, Pool!Enqueue
  <2> QED
    BY <2>1
<1>3. CASE Await \/ Finalize \/ SpuriousWake
  BY <1>3 DEF Await, Finalize, SpuriousWake, poolVars
<1>4. CASE TakeBatches
  BY <1>4, PoolTouches DEF TakeBatches
<1>5. ASSUME NEW w \in ThreadIds, WorkerStep(w) \/ PoolSpuriousWake(w)
      PROVE  NoAnswer'
  BY <1>5, WorkerLeavesAnswer
<1> QED
  BY <1>1, <1>2, <1>3, <1>4, <1>5 DEF Next, MainStep, Over

\* What happens to the rows until the last pipeline has been executed.
LEMMA RowsStep ==
  ASSUME PlanChains, Control, Data, RowsInv, ~Executed, ~Executed', [Next]_vars
  PROVE  RowsInv'
<1>1. CASE UNCHANGED vars
  BY <1>1, RowsAlone DEF vars, mainVars, taskVars, srcVars, limVars, sinkVars
<1>2. CASE EnqueueTask \/ LeavePool \/ Await \/ SpuriousWake
  <2>1. UNCHANGED <<pipe, taskVars, srcVars, limVars, sinkVars>>
    BY <1>2 DEF EnqueueTask, LeavePool, Await, SpuriousWake
  <2> QED
    BY <2>1, RowsAlone DEF taskVars, srcVars, limVars, sinkVars
<1>3. CASE Finalize
  <2>1. pipe + 1 \in Pipelines
    BY <1>3 DEF Finalize, Executed
  <2> QED
    BY <1>3, <2>1, NextPipelineRows
<1>4. CASE TakeBatches
  BY <1>4 DEF TakeBatches, Executed
<1>5. ASSUME NEW w \in ThreadIds, WorkerStep(w) \/ PoolSpuriousWake(w), main # "terminated"
      PROVE  RowsInv'
  <2>1. CASE PoolStep(w) \/ PoolSpuriousWake(w)
    BY <2>1, RowsAlone DEF PoolStep, PoolSpuriousWake, mainVars, taskVars, srcVars, limVars,
                           sinkVars
  <2>2. CASE GetData(w) /\ main' = main
    BY <1>5, <2>2, GetRows
  <2>3. CASE GetData(w) /\ main' # main
    <3>1. UNCHANGED <<pipe, pc, batch, applied, cursor, emitted, ready, limVars, sinkVars>>
      BY <2>3, Zenon DEF GetData, ScanChunk, TakeOnly, ReadThrows
    <3> QED
      BY <3>1, RowsAlone DEF limVars, sinkVars
  <2> QED
    BY <1>5, <2>1, <2>2, <2>3, TransformRows, LimitRows, StopRows, SinkRows, LatchRows
    DEF WorkerStep
<1> QED
  BY <1>1, <1>2, <1>3, <1>4, <1>5 DEF Next, MainStep, Over

\* While a worker runs a task that is not at its end, no query is executed; what
\* a worker does otherwise is in the pool's code.
LEMMA WorkerTouches ==
  ASSUME Control, Data, NEW w \in ThreadIds, WorkerStep(w) \/ PoolSpuriousWake(w)
  PROVE  /\ Executed => UNCHANGED <<mainVars, frameVars, taskVars, srcVars, limVars, sinkVars, broken>>
         /\ UNCHANGED <<pipe, ready>>
         /\ UNCHANGED broken
         /\ \/ main' = main
            \/ main = "asleep" /\ main' = "await"
            \/ ~Executed /\ main' = "terminated" /\ pipe = 1 /\ Unreadable # {}
<1>1. CASE PoolStep(w) \/ PoolSpuriousWake(w)
  BY <1>1 DEF PoolStep, PoolSpuriousWake, mainVars, srcVars
<1>2. CASE ~(PoolStep(w) \/ PoolSpuriousWake(w))
  <2>1. \E t \in TaskId, k \in TaskPlace \ {"end"} : Runs(w, t, k)
    BY <1>2, Zenon DEF WorkerStep, GetData, Transform, LimitExecute, MarkDone, PollDone, Sink,
                       Latch, NotifyMain, Unlock, TaskPlace
  <2>2. ~Executed
    BY <2>1, RunningTask DEF Executed
  <2>3. CASE GetData(w)
    <3>1. /\ UNCHANGED <<pipe, broken>>
          /\ \E t \in TaskId : ScanChunk(t) \/ ReadThrows(t) \/ TakeOnly(t)
      BY <2>3, Zenon DEF GetData
    <3>2. ready' = ready
      BY <3>1 DEF ScanChunk, ReadThrows, TakeOnly
    <3>3. main' = main \/ (main' = "terminated" /\ pipe = 1 /\ Unreadable # {})
      <4>1. PICK t \in TaskId : Runs(w, t, "get") /\ (ScanChunk(t) \/ ReadThrows(t) \/ TakeOnly(t))
        BY <2>3, Zenon DEF GetData
      <4>2. CASE ReadThrows(t)
        <5>1. t[1] = pipe
          BY <4>1, RunningTask
        <5>2. broken \subseteq Unreadable
          BY DEF Data, DataTypeOK
        <5> QED
          BY <4>2, <5>1, <5>2 DEF ReadThrows
      <4> QED
        BY <4>1, <4>2 DEF ScanChunk, TakeOnly
    <3> QED
      BY <2>2, <3>1, <3>2, <3>3
  <2>4. CASE Transform(w) \/ LimitExecute(w) \/ MarkDone(w) \/ PollDone(w) \/ Sink(w)
    <3>1. UNCHANGED <<mainVars, srcVars, broken>>
      BY <2>4, Zenon DEF Transform, LimitExecute, MarkDone, PollDone, Sink
    <3> QED
      BY <2>2, <3>1 DEF mainVars, srcVars
  <2>5. CASE Latch(w) \/ NotifyMain(w) \/ Unlock(w)
    BY <2>2, <2>5 DEF Latch, NotifyMain, Unlock, mainVars, srcVars
  <2> QED
    BY <1>2, <2>3, <2>4, <2>5 DEF WorkerStep
<1> QED
  BY <1>1, <1>2

\* Once executed, a query stays so.
LEMMA StaysExecuted == Control /\ Data /\ [Next]_vars /\ Executed => Executed'
<1> SUFFICES ASSUME Control, Data, [Next]_vars, Executed
             PROVE  Executed'
  OBVIOUS
<1> USE DEF Executed
<1>1. CASE UNCHANGED vars
  BY <1>1 DEF vars, mainVars
<1>2. CASE MainStep \/ SpuriousWake
  BY <1>2 DEF MainStep, EnqueueTask, LeavePool, Await, Finalize, TakeBatches, SpuriousWake
<1>3. ASSUME NEW w \in ThreadIds, WorkerStep(w) \/ PoolSpuriousWake(w)
      PROVE  Executed'
  BY <1>3, WorkerTouches DEF mainVars
<1> QED
  BY <1>1, <1>2, <1>3 DEF Next, Over

\* It holds at first.
LEMMA RefinementInit == PlanChains /\ Init => RefinementInv
BY ControlInit, DataInit, RowsInit DEF RefinementInv

\* And every step keeps it.
LEMMA RefinementStep == PlanChains /\ RefinementInv /\ [Next]_vars => RefinementInv'
<1> SUFFICES ASSUME PlanChains, RefinementInv, [Next]_vars
             PROVE  RefinementInv'
  OBVIOUS
<1>1. Control' /\ Data' /\ NoAnswer'
  BY ControlStep, DataStep, AnswerStep DEF RefinementInv
<1>2. ~Executed' => RowsInv'
  BY StaysExecuted, RowsStep DEF RefinementInv
<1> QED
  BY <1>1, <1>2 DEF RefinementInv

-----------------------------------------------------------------------------
(* A query implements its plan. *)

\* The operators of QueryPlan are those of QueryExecution.
LEMMA PlanOperators ==
  /\ Plan!Pipelines = Pipelines
  /\ \A s : Plan!ToSet(s) = ToSet(s)
  /\ \A s : Plan!FlattenSeq(s) = FlattenSeq(s)
BY Zenon DEF Plan!Pipelines, Pipelines, Plan!ToSet, ToSet, Plan!FlattenSeq, FlattenSeq

\* At first.
LEMMA PlanInit == Init => Plan!Init
<1> SUFFICES ASSUME Init
             PROVE  Plan!Init
  OBVIOUS
<1>1. main = "enqueue" /\ pipe = 1 /\ ~Executed
  BY DEF Init, Executed
<1>2. Delivered = FlattenSeq(Table)
  BY <1>1 DEF Delivered
<1> QED
  BY <1>1, <1>2, PlanOperators DEF Plan!Init

\* A step that stutters.
LEMMA PlanStutters ==
  ASSUME pipe' = pipe, Executed' <=> Executed, Delivered' = Delivered,
         (main' = "terminated") <=> (main = "terminated")
  PROVE  UNCHANGED Plan!vars
<1>1. (IF Executed THEN pipe + 1 ELSE pipe)' = IF Executed THEN pipe + 1 ELSE pipe
  BY DEF Executed
<1>2. (main = "terminated")' = (main = "terminated")
  OBVIOUS
<1> QED
  BY <1>1, <1>2 DEF Plan!vars

\* The end of Execute is a step of the plan.
LEMMA FinalizeRuns ==
  ASSUME PlanChains, RefinementInv, Finalize
  PROVE  Plan!RunPipeline
<1>1. /\ main = "finalize" /\ ~Executed /\ Control /\ Data /\ RowsInv /\ NoAnswer
      /\ pipe \in Pipelines
  BY DEF Finalize, Executed, RefinementInv, Control, ControlTypeOK
<1>2. Delivered = Source
  BY <1>1 DEF Delivered, Source
<1>3. Delivered' = FlattenSeq(Sunk) /\ (IF Executed THEN pipe + 1 ELSE pipe)' = pipe + 1
  <2>1. CASE pipe + 1 \in Pipelines
    <3>1. pipe' = pipe + 1 /\ main' = "enqueue" /\ ~Executed'
      BY <2>1 DEF Finalize, Executed
    <3>2. Source' = FlattenSeq(Sunk)
      BY <1>1, <2>1, NextPipelineRows
    <3> QED
      BY <3>1, <3>2 DEF Delivered, Source
  <2>2. CASE pipe + 1 \notin Pipelines
    <3>1. /\ pipe' = pipe /\ main' = "destroy" /\ Executed'
          /\ result' = result /\ answer' = answer
      BY <2>2 DEF Finalize, Executed
    <3>2. answer = <<>>
      <4>1. owner \in {"idle", "notifyOne", "notifyAll", "joining", "gone"}
        BY <1>1 DEF Control, PoolInv, PoolFacts!Typed, PoolFacts!TypeOK, PoolFacts!OwnerPlace
      <4> QED
        BY <1>1, <4>1 DEF Control, MainKnows, NoAnswer
    <3>3. result \o answer = result
      BY <1>1, <3>2, ConcatEmptySeq DEF Data, DataTypeOK
    <3>4. Sunk = result
      BY <2>2 DEF Sunk
    <3> QED
      BY <3>1, <3>3, <3>4 DEF Delivered
  <2> QED
    BY <2>1, <2>2
<1>4. (main = "terminated")' = (main = "terminated") /\ main # "terminated"
  BY <1>1 DEF Finalize
<1>5. /\ FlattenSeq(Sunk) \in Plan!SetToSeqs(Members(Sunk))
      /\ Members(Sunk) \in Plan!Outcomes(pipe, ToSet(Source))
  BY <1>1, PipelineEnds
<1>6. \E S \in Plan!Outcomes(IF Executed THEN pipe + 1 ELSE pipe, Plan!ToSet(Delivered)) :
        Delivered' \in Plan!SetToSeqs(S)
  BY <1>1, <1>2, <1>3, <1>5, PlanOperators
<1> QED
  BY <1>1, <1>3, <1>4, <1>6, PlanOperators DEF Plan!RunPipeline

\* A read that fails gives the query up.
LEMMA ThrowGivesUp ==
  ASSUME ~Executed, main # "terminated", main' = "terminated", pipe = 1, Unreadable # {},
         UNCHANGED <<pipe, ready>>
  PROVE  Plan!GiveUp
<1>1. ~Executed'
  BY DEF Executed
<1>2. Delivered' = Delivered
  BY <1>1 DEF Delivered
<1> QED
  BY <1>1, <1>2 DEF Plan!GiveUp

\* Every step is a step of the plan, or none.
LEMMA PlanStep ==
  PlanChains /\ RefinementInv /\ [Next]_vars => [Plan!Next]_Plan!vars
<1> SUFFICES ASSUME PlanChains, RefinementInv, [Next]_vars
             PROVE  Plan!Next \/ UNCHANGED Plan!vars
  BY Zenon
<1>0. Control /\ Data
  BY DEF RefinementInv
<1>1. CASE UNCHANGED vars
  <2>1. UNCHANGED <<main, pipe, answer, ready, result>>
    BY <1>1 DEF vars, mainVars, srcVars, sinkVars
  <2> QED
    BY <2>1, PlanStutters DEF Executed, Delivered
<1>2. CASE EnqueueTask \/ LeavePool \/ Await \/ SpuriousWake
  <2>1. UNCHANGED <<pipe, answer, ready, result>>
    BY <1>2, Zenon DEF EnqueueTask, LeavePool, Await, SpuriousWake, srcVars, sinkVars
  <2>2. \/ main' = main
        \/ main \in {"enqueue", "await", "asleep"} /\ main' \in {"await", "asleep", "finalize"}
        \/ main \in {"destroy", "done"} /\ main' = "done"
    <3>1. CASE LeavePool
      <4>1. owner' = "gone" => main \in {"destroy", "done"}
        BY <1>0, <3>1, PoolTouches DEF LeavePool, Control, MainKnows
      <4> QED
        BY <3>1, <4>1 DEF LeavePool
    <3> QED
      BY <1>2, <3>1 DEF EnqueueTask, Await, SpuriousWake
  <2> QED
    BY <2>1, <2>2, PlanStutters DEF Executed, Delivered
<1>3. CASE Finalize
  BY <1>3, FinalizeRuns DEF Plan!Next
<1>4. CASE TakeBatches
  <2>1. Executed /\ Executed' /\ UNCHANGED <<main, pipe>> /\ answer' = result /\ result' = <<>>
    BY <1>4 DEF TakeBatches, Executed
  <2>2. answer = <<>>
    BY <1>4 DEF TakeBatches, Pool!Destroy, RefinementInv, NoAnswer
  <2>3. result \o answer = result /\ result' \o answer' = result
    BY <1>0, <2>1, <2>2, ConcatEmptySeq DEF Data, DataTypeOK
  <2>4. Delivered' = Delivered
    BY <2>1, <2>3 DEF Delivered
  <2> QED
    BY <2>1, <2>4, PlanStutters
<1>5. ASSUME NEW w \in ThreadIds, WorkerStep(w) \/ PoolSpuriousWake(w), main # "terminated"
      PROVE  Plan!Next \/ UNCHANGED Plan!vars
  <2>1. /\ Executed => UNCHANGED <<mainVars, sinkVars>>
        /\ UNCHANGED <<pipe, ready>>
    BY <1>0, <1>5, WorkerTouches
  <2>2. CASE Executed
    BY <2>1, <2>2, PlanStutters DEF mainVars, sinkVars, Executed, Delivered
  <2>3. CASE ~Executed /\ main' = "terminated"
    <3>1. pipe = 1 /\ Unreadable # {}
      BY <1>0, <1>5, <2>3, WorkerTouches
    <3> QED
      BY <1>5, <2>1, <2>3, <3>1, ThrowGivesUp DEF Plan!Next
  <2>4. CASE ~Executed /\ main' # "terminated"
    <3>1. ~Executed'
      BY <1>0, <1>5, <2>4, WorkerTouches DEF Executed
    <3> QED
      BY <1>5, <2>1, <2>4, <3>1, PlanStutters DEF Delivered
  <2> QED
    BY <2>2, <2>3, <2>4
<1> QED
  BY <1>1, <1>2, <1>3, <1>4, <1>5 DEF Next, MainStep, Over

\* A query implements the safety part of QueryPlan, whatever the number of
\* threads, the file, and the plan, if a limit is the last transform of its
\* pipeline: no chunk is skipped or read twice, no thread's rows are left out of
\* a merge or merged twice, and a limit lets through what it must and no more.
\* Where a limit is not the last, Execute may skip what follows it.
THEOREM ImplementsPlanSafely == PlanChains => (Spec => Plan!SafeSpec)
<1> SUFFICES ASSUME PlanChains
             PROVE  Spec => Plan!SafeSpec
  OBVIOUS
<1>1. Init => RefinementInv
  BY RefinementInit
<1>2. RefinementInv /\ [Next]_vars => RefinementInv'
  BY RefinementStep
<1>3. RefinementInv /\ [Next]_vars => [Plan!Next]_Plan!vars
  BY PlanStep
<1> QED
  BY <1>1, <1>2, <1>3, PlanInit, PTL DEF Spec, Plan!SafeSpec
=============================================================================
