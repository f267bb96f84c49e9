-------------------------- MODULE ThreadPoolProofs --------------------------
(***************************************************************************)
(* Proofs about ThreadPool, for any finite set of workers and any tasks.   *)
(***************************************************************************)
EXTENDS ThreadPool, FiniteSetTheorems, SequenceTheorems, TLAPS

\* Dropping the last element of a sequence leaves the others where they were.
LEMMA DropLast ==
  ASSUME NEW S, NEW s \in Seq(S), s # <<>>,
         NEW r, r = SubSeq(s, 1, Len(s) - 1)
  PROVE  /\ r \in Seq(S)
         /\ Len(r) = Len(s) - 1
         /\ Len(s) \in DOMAIN s
         /\ DOMAIN r = DOMAIN s \ {Len(s)}
         /\ \A i \in DOMAIN r : r[i] = s[i]
<1>1. Len(s) \in Nat \ {0} /\ DOMAIN s = 1..Len(s)
  BY EmptySeq, LenProperties
<1>2. \A i \in 1..(Len(s) - 1) : s[i] \in S
  BY <1>1, ElementOfSeq
<1>3. /\ r \in Seq(S)
      /\ Len(r) = Len(s) - 1
      /\ \A i \in 1..(Len(s) - 1) : r[i] = s[i]
  BY <1>1, <1>2, SubSeqProperties
<1>4. DOMAIN r = 1..(Len(s) - 1)
  BY <1>3, LenProperties
<1> QED
  BY <1>1, <1>3, <1>4

\* Appending to a sequence leaves its elements where they were.
LEMMA AppendOne ==
  ASSUME NEW S, NEW s \in Seq(S), NEW x \in S,
         NEW r, r = Append(s, x)
  PROVE  /\ r \in Seq(S)
         /\ Len(r) = Len(s) + 1
         /\ DOMAIN r = DOMAIN s \cup {Len(s) + 1}
         /\ Len(s) + 1 \notin DOMAIN s
         /\ r[Len(s) + 1] = x
         /\ \A i \in DOMAIN s : r[i] = s[i]
OBVIOUS

-----------------------------------------------------------------------------
(* Types.  That a worker returns from a task, not from NoTask, is part of the *)
(* induction.                                                                 *)

Typed == TypeOK /\ HoldsWhileRunning

\* The pool begins with the types.
LEMMA TypedInit == Init => Typed
BY EmptySeq DEF Init, Typed, HoldsWhileRunning, TypeOK, OwnerPlace, WorkerPlace

\* Every step keeps the types.
LEMMA TypedStep == PoolAssumption /\ Typed /\ [Next]_vars => Typed'
<1> SUFFICES ASSUME PoolAssumption, Typed, [Next]_vars
             PROVE  Typed'
  OBVIOUS
<1> USE DEF Typed, HoldsWhileRunning, TypeOK, OwnerPlace, WorkerPlace
<1>1. ASSUME NEW t \in Task, Enqueue(t)
      PROVE  Typed'
  BY <1>1, AppendOne DEF Enqueue
<1>2. CASE NotifyOne
  BY <1>2 DEF NotifyOne, WakeOne, WorkersAt
<1>3. CASE Destroy
  BY <1>3 DEF Destroy
<1>4. CASE NotifyAll
  BY <1>4 DEF NotifyAll
<1>5. CASE Join
  BY <1>5 DEF Join
<1>6. ASSUME NEW w \in Workers, Take(w)
      PROVE  Typed'
  <2>1. /\ tasks' \in Seq(Task)
        /\ tasks[Len(tasks)] \in Task
    BY <1>6, DropLast, LenProperties, ElementOfSeq DEF Take, PopBack
  <2> QED
    BY <1>6, <2>1 DEF Take, PoolConstants
<1>7. ASSUME NEW w \in Workers, Sleep(w) \/ Exit(w) \/ SpuriousWake(w)
      PROVE  Typed'
  BY <1>7 DEF Sleep, Exit, SpuriousWake
<1>8. ASSUME NEW w \in Workers, Return(w)
      PROVE  Typed'
  BY <1>8 DEF Return
<1>9. CASE UNCHANGED vars
  BY <1>9 DEF vars
<1> QED
  BY <1>1, <1>2, <1>3, <1>4, <1>5, <1>6, <1>7, <1>8, <1>9
  DEF Next, OwnerMove, Loop, Gone

\* The pool's variables keep the types of the fields they model.
THEOREM TypeCorrect == Spec => []TypeOK
<1>1. Typed => TypeOK
  BY DEF Typed
<1> QED
  BY <1>1, TypedInit, TypedStep, PoolAssumption, PTL DEF Spec

-----------------------------------------------------------------------------
(* Who is awake, who is asleep, and what the destructor knows. *)

Control == DestructorOrder /\ ExitMeansDrained /\ NoSleeperAfterStop

\* The pool begins with nobody asleep or gone.
LEMMA ControlInit == Init => Control
BY DEF Init, Control, DestructorOrder, ExitMeansDrained, NoSleeperAfterStop,
       WorkersAt

\* Every step keeps what the destructor knows of the workers.
LEMMA ControlStep == Typed /\ Control /\ [Next]_vars => Control'
<1> SUFFICES ASSUME Typed, Control, [Next]_vars
             PROVE  Control'
  OBVIOUS
<1> USE DEF Typed, TypeOK, OwnerPlace, WorkerPlace, Control, DestructorOrder,
            ExitMeansDrained, NoSleeperAfterStop, WorkersAt
<1>1. ASSUME NEW t \in Task, Enqueue(t)
      PROVE  Control'
  BY <1>1 DEF Enqueue
<1>2. CASE NotifyOne
  BY <1>2 DEF NotifyOne, WakeOne
<1>3. CASE Destroy
  BY <1>3 DEF Destroy
<1>4. CASE NotifyAll
  BY <1>4 DEF NotifyAll
<1>5. CASE Join
  BY <1>5 DEF Join
<1>6. ASSUME NEW w \in Workers, Take(w)
      PROVE  Control'
  BY <1>6 DEF Take
<1>7. ASSUME NEW w \in Workers, Sleep(w)
      PROVE  Control'
  BY <1>7 DEF Sleep, WakeUp
<1>8. ASSUME NEW w \in Workers, Exit(w)
      PROVE  Control'
  BY <1>8 DEF Exit, Drained
<1>9. ASSUME NEW w \in Workers, SpuriousWake(w)
      PROVE  Control'
  BY <1>9 DEF SpuriousWake
<1>10. ASSUME NEW w \in Workers, Return(w)
       PROVE  Control'
  BY <1>10 DEF Return
<1>11. CASE UNCHANGED vars
  BY <1>11 DEF vars
<1> QED
  BY <1>1, <1>2, <1>3, <1>4, <1>5, <1>6, <1>7, <1>8, <1>9, <1>10, <1>11
  DEF Next, OwnerMove, Loop, Gone

\* Once the destructor has notified, no worker sleeps through its own join.
THEOREM NoSleepers == Spec => []NoSleeperAfterStop
<1>1. Control => NoSleeperAfterStop
  BY DEF Control
<1> QED
  BY <1>1, TypedInit, TypedStep, ControlInit, ControlStep, PoolAssumption, PTL
  DEF Spec

-----------------------------------------------------------------------------
(* Every task is in one place. *)

\* How a step that keeps the queue and what workers hold keeps the accounts.
LEMMA Unmoved ==
  ASSUME Typed, ExactlyOnce,
         UNCHANGED <<tasks, job, enqueued, finished>>,
         \A w \in Workers : at'[w] = "running" <=> at[w] = "running"
  PROVE  ExactlyOnce' /\ Held' = Held /\ Queued' = Queued
<1>1. WorkersAt("running")' = WorkersAt("running")
  BY DEF WorkersAt
<1>2. Held' = Held /\ Queued' = Queued
  BY <1>1 DEF Held, Queued
<1> QED
  BY <1>1, <1>2 DEF ExactlyOnce

\* Enqueue puts a new task into the queue.
LEMMA EnqueueMoves ==
  ASSUME Typed, ExactlyOnce, NEW t \in Task, Enqueue(t)
  PROVE  /\ Queued' = Queued \cup {t}
         /\ Held' = Held
         /\ ExactlyOnce'
<1> USE DEF Enqueue
<1>1. WorkersAt("running")' = WorkersAt("running") /\ Held' = Held
  BY DEF WorkersAt, Held
<1>2. /\ DOMAIN tasks' = DOMAIN tasks \cup {Len(tasks) + 1}
      /\ Len(tasks) + 1 \notin DOMAIN tasks
      /\ tasks'[Len(tasks) + 1] = t
      /\ \A i \in DOMAIN tasks : tasks'[i] = tasks[i]
  BY AppendOne DEF Typed, TypeOK
<1>3. Queued' = Queued \cup {t}
  BY <1>2 DEF Queued
<1>4. t \notin Queued /\ t \notin Held /\ t \notin finished
  BY DEF ExactlyOnce
<1>5. \A i, j \in DOMAIN tasks' : tasks'[i] = tasks'[j] => i = j
  BY <1>2, <1>4 DEF ExactlyOnce, Queued
<1>6. \A v, w \in WorkersAt("running")' : job'[v] = job'[w] => v = w
  BY <1>1 DEF ExactlyOnce
<1> QED
  BY <1>1, <1>3, <1>4, <1>5, <1>6 DEF ExactlyOnce

\* Take moves the newest task from the queue into a worker's hands.
LEMMA TakeMoves ==
  ASSUME Typed, ExactlyOnce, NEW w \in Workers, Take(w)
  PROVE  \E t \in Queued :
           /\ Queued' = Queued \ {t}
           /\ Held' = Held \cup {t}
           /\ ExactlyOnce'
<1> DEFINE n == Len(tasks)
           t == tasks[n]
<1>1. /\ n \in DOMAIN tasks
      /\ DOMAIN tasks' = DOMAIN tasks \ {n}
      /\ \A i \in DOMAIN tasks' : tasks'[i] = tasks[i]
  BY DropLast DEF Typed, TypeOK, Take, PopBack
<1>2. t \in Queued
  BY <1>1 DEF Queued
<1>3. Queued' = Queued \ {t}
  <2>1. \A i \in DOMAIN tasks : tasks[i] = t <=> i = n
    BY <1>1 DEF ExactlyOnce
  <2> QED
    BY <1>1, <2>1 DEF Queued
<1>4. /\ w \notin WorkersAt("running")
      /\ WorkersAt("running")' = WorkersAt("running") \cup {w}
      /\ job'[w] = t
      /\ \A v \in WorkersAt("running") : job'[v] = job[v]
  BY DEF Take, WorkersAt, Typed, TypeOK
<1>5. Held' = Held \cup {t}
  BY <1>4 DEF Held
<1>6. t \notin Held
  BY <1>2 DEF ExactlyOnce
<1>7. \A i, j \in DOMAIN tasks' : tasks'[i] = tasks'[j] => i = j
  BY <1>1 DEF ExactlyOnce
<1>8. \A u, v \in WorkersAt("running")' : job'[u] = job'[v] => u = v
  BY <1>4, <1>6 DEF ExactlyOnce, Held
<1>9. UNCHANGED <<enqueued, finished>>
  BY DEF Take
<1>10. ExactlyOnce'
  BY <1>2, <1>3, <1>5, <1>6, <1>7, <1>8, <1>9 DEF ExactlyOnce
<1> QED
  BY <1>2, <1>3, <1>5, <1>10

\* Return moves a task from a worker's hands to the finished ones.
LEMMA ReturnMoves ==
  ASSUME Typed, ExactlyOnce, NEW w \in Workers, Return(w)
  PROVE  /\ job[w] \in Held
         /\ Queued' = Queued
         /\ Held' = Held \ {job[w]}
         /\ finished' = finished \cup {job[w]}
         /\ enqueued' = enqueued
         /\ ExactlyOnce'
<1>1. /\ w \in WorkersAt("running")
      /\ WorkersAt("running")' = WorkersAt("running") \ {w}
      /\ \A v \in WorkersAt("running")' : job'[v] = job[v]
      /\ tasks' = tasks
      /\ enqueued' = enqueued
      /\ finished' = finished \cup {job[w]}
  BY DEF Return, WorkersAt, Typed, TypeOK
<1>2. job[w] \in Held
  BY <1>1 DEF Held
<1>3. Held' = Held \ {job[w]}
  <2>1. \A v \in WorkersAt("running") : job[v] = job[w] <=> v = w
    BY <1>1 DEF ExactlyOnce
  <2> QED
    BY <1>1, <2>1 DEF Held
<1>4. Queued' = Queued
  BY <1>1 DEF Queued
<1>5. \A u, v \in WorkersAt("running")' : job'[u] = job'[v] => u = v
  BY <1>1 DEF ExactlyOnce
<1>6. \A i, j \in DOMAIN tasks' : tasks'[i] = tasks'[j] => i = j
  BY <1>1 DEF ExactlyOnce
<1> QED
  BY <1>1, <1>2, <1>3, <1>4, <1>5, <1>6 DEF ExactlyOnce

\* The pool begins without tasks.
LEMMA ExactlyOnceInit == Init => ExactlyOnce
BY EmptySeq DEF Init, ExactlyOnce, Queued, Held, WorkersAt

\* Every step keeps each task in one place.
LEMMA ExactlyOnceStep == Typed /\ ExactlyOnce /\ [Next]_vars => ExactlyOnce'
<1> SUFFICES ASSUME Typed, ExactlyOnce, [Next]_vars
             PROVE  ExactlyOnce'
  OBVIOUS
<1>1. ASSUME NEW t \in Task, Enqueue(t)
      PROVE  ExactlyOnce'
  BY <1>1, EnqueueMoves
<1>2. ASSUME NEW w \in Workers, Take(w)
      PROVE  ExactlyOnce'
  BY <1>2, TakeMoves
<1>3. ASSUME NEW w \in Workers, Return(w)
      PROVE  ExactlyOnce'
  BY <1>3, ReturnMoves
<1>4. ASSUME UNCHANGED <<tasks, job, enqueued, finished>>,
             \A w \in Workers : at'[w] = "running" <=> at[w] = "running"
      PROVE  ExactlyOnce'
  BY <1>4, Unmoved
<1>5. CASE NotifyOne
  BY <1>4, <1>5 DEF NotifyOne, WakeOne, WorkersAt, Typed, TypeOK
<1>6. CASE Destroy \/ Join \/ UNCHANGED vars
  BY <1>4, <1>6 DEF Destroy, Join, vars
<1>7. CASE NotifyAll
  BY <1>4, <1>7 DEF NotifyAll
<1>8. ASSUME NEW w \in Workers, Sleep(w) \/ Exit(w) \/ SpuriousWake(w)
      PROVE  ExactlyOnce'
  BY <1>4, <1>8 DEF Sleep, Exit, SpuriousWake, Typed, TypeOK
<1> QED
  BY <1>1, <1>2, <1>3, <1>5, <1>6, <1>7, <1>8 DEF Next, OwnerMove, Loop, Gone

\* No task is lost between the queue and a worker, and none is run twice.
THEOREM EachTaskOnce == Spec => []ExactlyOnce
<1> QED
  BY TypedInit, TypedStep, ExactlyOnceInit, ExactlyOnceStep, PoolAssumption, PTL
  DEF Spec

\* When the destructor has returned, every task ever enqueued has finished.
THEOREM Drains == Spec => []DrainedWhenGone
<1>1. Typed /\ Control /\ ExactlyOnce => DrainedWhenGone
  <2> SUFFICES ASSUME Typed, Control, ExactlyOnce, owner = "gone"
               PROVE  finished = enqueued
    BY DEF DrainedWhenGone
  <2>1. \A w \in Workers : at[w] = "exited"
    BY DEF Control, DestructorOrder
  <2>2. PICK w \in Workers : at[w] = "exited"
    BY <2>1, PoolAssumption DEF PoolConstants
  <2>3. tasks = <<>>
    BY <2>2 DEF Control, ExitMeansDrained, WorkersAt
  <2>4. Queued = {}
    BY <2>3, EmptySeq DEF Queued
  <2>5. Held = {}
    BY <2>1 DEF Held, WorkersAt
  <2> QED
    BY <2>4, <2>5 DEF ExactlyOnce
<1> QED
  BY <1>1, TypedInit, TypedStep, ControlInit, ControlStep, ExactlyOnceInit,
     ExactlyOnceStep, PoolAssumption, PTL DEF Spec

-----------------------------------------------------------------------------
(* No task waits behind a sleeper. *)

\* A worker that starts looking at the queue is one more that does.
LEMMA CheckerJoins ==
  ASSUME Typed, PoolAssumption, NEW w \in Workers, NEW place \in WorkerPlace \ {"check"},
         at[w] = place, at' = [at EXCEPT ![w] = "check"]
  PROVE  /\ Cardinality(WorkersAt("check")) \in Nat
         /\ Cardinality(WorkersAt("check"))' = Cardinality(WorkersAt("check")) + 1
<1>1. /\ w \notin WorkersAt("check")
      /\ WorkersAt("check")' = WorkersAt("check") \cup {w}
  BY DEF WorkersAt, Typed, TypeOK
<1>2. IsFiniteSet(WorkersAt("check"))
  BY FS_Subset DEF WorkersAt, PoolConstants
<1> QED
  BY <1>1, <1>2, FS_AddElement, FS_CardinalityType

\* A worker that stops looking at the queue.
LEMMA CheckerLeaves ==
  ASSUME Typed, PoolAssumption, NEW w \in Workers, NEW place \in WorkerPlace \ {"check"},
         at[w] = "check", at' = [at EXCEPT ![w] = place]
  PROVE  /\ Cardinality(WorkersAt("check")) \in Nat
         /\ Cardinality(WorkersAt("check"))' = Cardinality(WorkersAt("check")) - 1
         /\ Cardinality(WorkersAt("check"))' \in Nat
<1>1. /\ w \in WorkersAt("check")
      /\ WorkersAt("check")' = WorkersAt("check") \ {w}
  BY DEF WorkersAt, Typed, TypeOK
<1>2. IsFiniteSet(WorkersAt("check"))
  BY FS_Subset DEF WorkersAt, PoolConstants
<1>3. IsFiniteSet(WorkersAt("check")')
  BY <1>1, <1>2, FS_RemoveElement
<1> QED
  BY <1>1, <1>2, <1>3, FS_RemoveElement, FS_CardinalityType

\* The pool begins with no task in the queue.
LEMMA WorkConservingInit == Init => WorkConserving
BY DEF Init, WorkConserving, WorkersAt

\* Every step leaves each task in the queue a worker, or a notification to come.
LEMMA WorkConservingStep ==
  PoolAssumption /\ Typed /\ WorkConserving /\ [Next]_vars => WorkConserving'
<1> SUFFICES ASSUME PoolAssumption, Typed, WorkConserving, [Next]_vars,
                    WorkersAt("asleep")' # {}
             PROVE  Len(tasks)' <= Cardinality(WorkersAt("check"))'
                                     + (IF owner' = "notifyOne" THEN 1 ELSE 0)
  BY DEF WorkConserving
<1> DEFINE Goal == Len(tasks)' <= Cardinality(WorkersAt("check"))'
                                     + (IF owner' = "notifyOne" THEN 1 ELSE 0)
<1>a. /\ Len(tasks) \in Nat
      /\ Cardinality(WorkersAt("check")) \in Nat
  <2>1. IsFiniteSet(WorkersAt("check"))
    BY FS_Subset DEF WorkersAt, PoolConstants
  <2> QED
    BY <2>1, FS_CardinalityType, LenProperties DEF Typed, TypeOK
<1>1. ASSUME NEW t \in Task, Enqueue(t)
      PROVE  Goal
  <2>1. Len(tasks') = Len(tasks) + 1
    BY <1>1, AppendOne DEF Enqueue, Typed, TypeOK
  <2>2. WorkersAt("asleep") # {} /\ WorkersAt("check")' = WorkersAt("check")
    BY <1>1 DEF Enqueue, WorkersAt
  <2> QED
    BY <1>1, <1>a, <2>1, <2>2 DEF Enqueue, WorkConserving
<1>2. CASE NotifyOne
  <2>1. WorkersAt("asleep") # {}
    BY <1>2 DEF NotifyOne, WakeOne, WorkersAt, Typed, TypeOK
  <2>2. PICK w \in WorkersAt("asleep") : at' = [at EXCEPT ![w] = "check"]
    BY <1>2, <2>1 DEF NotifyOne, WakeOne
  <2>3. Cardinality(WorkersAt("check"))' = Cardinality(WorkersAt("check")) + 1
    BY <2>2, CheckerJoins DEF WorkersAt, WorkerPlace
  <2> QED
    BY <1>2, <1>a, <2>1, <2>3 DEF NotifyOne, WorkConserving
<1>3. CASE Destroy
  <2>1. WorkersAt("asleep") # {} /\ WorkersAt("check")' = WorkersAt("check")
    BY <1>3 DEF Destroy, WorkersAt
  <2> QED
    BY <1>3, <1>a, <2>1 DEF Destroy, WorkConserving
<1>4. CASE NotifyAll
  BY <1>4 DEF NotifyAll, WorkersAt
<1>5. CASE Join
  BY <1>5 DEF Join, WorkersAt
<1>6. ASSUME NEW w \in Workers, Take(w)
      PROVE  Goal
  <2>1. Len(tasks') = Len(tasks) - 1
    BY <1>6, DropLast DEF Take, PopBack, Typed, TypeOK
  <2>2. WorkersAt("asleep") # {}
    BY <1>6 DEF Take, WorkersAt, Typed, TypeOK
  <2>3. Cardinality(WorkersAt("check"))' = Cardinality(WorkersAt("check")) - 1
    BY <1>6, CheckerLeaves DEF Take, WorkerPlace
  <2> QED
    BY <1>6, <1>a, <2>1, <2>2, <2>3 DEF Take, WorkConserving
<1>7. ASSUME NEW w \in Workers, Sleep(w) \/ Exit(w)
      PROVE  Goal
  <2>1. Len(tasks') = 0
    BY <1>7, EmptySeq DEF Sleep, WakeUp, Exit, Drained
  <2>2. Cardinality(WorkersAt("check"))' \in Nat
    BY <1>7, CheckerLeaves DEF Sleep, Exit, WorkerPlace
  <2> QED
    BY <2>1, <2>2
<1>8. ASSUME NEW w \in Workers, SpuriousWake(w) \/ Return(w)
      PROVE  Goal
  <2>1. WorkersAt("asleep") # {}
    BY <1>8 DEF SpuriousWake, Return, WorkersAt, Typed, TypeOK
  <2>2. Cardinality(WorkersAt("check"))' = Cardinality(WorkersAt("check")) + 1
    BY <1>8, CheckerJoins DEF SpuriousWake, Return, WorkerPlace
  <2> QED
    BY <1>8, <1>a, <2>1, <2>2 DEF SpuriousWake, Return, WorkConserving
<1>9. CASE UNCHANGED vars
  <2>1. WorkersAt("asleep") # {} /\ WorkersAt("check")' = WorkersAt("check")
    BY <1>9 DEF vars, WorkersAt
  <2> QED
    BY <1>9, <2>1 DEF vars, WorkConserving
<1> QED
  BY <1>1, <1>2, <1>3, <1>4, <1>5, <1>6, <1>7, <1>8, <1>9
  DEF Next, OwnerMove, Loop, Gone

\* Although Enqueue notifies after it has released the mutex, no task is ever
\* left in the queue for want of a wakeup.
THEOREM NoTaskWaitsForASleeper == Spec => []WorkConserving
<1> QED
  BY TypedInit, TypedStep, WorkConservingInit, WorkConservingStep, PoolAssumption,
     PTL DEF Spec

-----------------------------------------------------------------------------
(* The pool implements the abstract one (its safety part). *)

\* The pool begins as the abstract one does.
LEMMA AbstractInit == Init => Abstract!Init
BY DEF Init, Abstract!Init, Held, WorkersAt

\* Every step of the pool is one of the abstract pool, or a stutter of it.
LEMMA AbstractStep ==
  PoolAssumption /\ Typed /\ Control /\ ExactlyOnce /\ [Next]_vars
    => [Abstract!Next]_Abstract!vars
<1> SUFFICES ASSUME PoolAssumption, Typed, Control, ExactlyOnce, [Next]_vars
             PROVE  [Abstract!Next]_Abstract!vars
  OBVIOUS
<1>1. ASSUME NEW t \in Task, Enqueue(t)
      PROVE  Abstract!Submit(t)
  <2>1. Held' = Held
    BY <1>1, EnqueueMoves
  <2> QED
    BY <1>1, <2>1 DEF Enqueue, Abstract!Submit
<1>2. ASSUME NEW w \in Workers, Take(w)
      PROVE  \E t \in Task : Abstract!Start(t)
  <2>1. PICK t \in Queued : Held' = Held \cup {t}
    BY <1>2, TakeMoves
  <2>2. t \in Task /\ t \in enqueued \ (Held \cup finished)
    BY <2>1 DEF ExactlyOnce, Typed, TypeOK
  <2> QED
    BY <1>2, <2>1, <2>2 DEF Take, Abstract!Start
<1>3. ASSUME NEW w \in Workers, Return(w)
      PROVE  \E t \in Task : Abstract!Finish(t)
  <2>1. /\ job[w] \in Held /\ Held' = Held \ {job[w]}
        /\ finished' = finished \cup {job[w]} /\ enqueued' = enqueued
    BY <1>3, ReturnMoves
  <2>2. job[w] \in Task /\ job[w] \in (Held \cup finished) \ finished
    BY <2>1 DEF ExactlyOnce, Typed, TypeOK
  <2> QED
    BY <1>3, <2>1, <2>2 DEF Return, Abstract!Finish
<1>4. ASSUME UNCHANGED <<tasks, job, enqueued, finished>>,
             \A w \in Workers : at'[w] = "running" <=> at[w] = "running",
             owner' = "gone" <=> owner = "gone"
      PROVE  UNCHANGED Abstract!vars
  <2>1. Held' = Held
    BY <1>4, Unmoved
  <2> QED
    BY <1>4, <2>1 DEF Abstract!vars
<1>5. CASE NotifyOne
  BY <1>4, <1>5 DEF NotifyOne, WakeOne, WorkersAt, Typed, TypeOK
<1>6. CASE Destroy \/ UNCHANGED vars
  BY <1>4, <1>6 DEF Destroy, vars
<1>7. CASE NotifyAll
  BY <1>4, <1>7 DEF NotifyAll
<1>8. CASE Join
  <2>1. PICK w \in Workers : at[w] = "exited"
    BY <1>8, PoolAssumption DEF Join, PoolConstants
  <2>2. tasks = <<>>
    BY <2>1 DEF Control, ExitMeansDrained, WorkersAt
  <2>3. Queued = {} /\ Held = {} /\ Held' = {}
    BY <1>8, <2>2, EmptySeq DEF Queued, Held, WorkersAt, Join
  <2>4. finished = enqueued
    BY <2>3 DEF ExactlyOnce
  <2> QED
    BY <1>8, <2>3, <2>4 DEF Join, Abstract!Close, Abstract!Next
<1>9. ASSUME NEW w \in Workers, Sleep(w) \/ Exit(w) \/ SpuriousWake(w)
      PROVE  UNCHANGED Abstract!vars
  BY <1>4, <1>9 DEF Sleep, Exit, SpuriousWake, Typed, TypeOK
<1> QED
  BY <1>1, <1>2, <1>3, <1>5, <1>6, <1>7, <1>8, <1>9
  DEF Next, OwnerMove, Loop, Gone, Abstract!Next

\* Every step of the pool is a step of TaskPool or invisible to its caller.
THEOREM Implements == Spec => Abstract!SafeSpec
<1> QED
  BY TypedInit, TypedStep, ControlInit, ControlStep, ExactlyOnceInit,
     ExactlyOnceStep, AbstractInit, AbstractStep, PoolAssumption, PTL
  DEF Spec, Abstract!SafeSpec
=============================================================================
