-------------------------- MODULE ThreadPoolProofs --------------------------
(***************************************************************************)
(* Proofs about module ThreadPool, for any number of workers, producers    *)
(* and tasks.                                                              *)
(***************************************************************************)
EXTENDS ThreadPool, FiniteSetTheorems, TLAPS

\* A thread inside a critical section holds the mutex, and only it.
MutexOwned ==
    /\ \A w \in Workers : worker[w] = "locked" <=> queue_mutex = w
    /\ \A p \in Producers : producer[p] = "locked" <=> queue_mutex = p
    /\ owner = "locked" <=> queue_mutex = Owner

\* A thread holds a task exactly while its control state says so.
HoldsTask ==
    /\ \A p \in Producers : packaged[p] # None <=> producer[p] \in {"created", "locked"}
    /\ \A w \in Workers : running[w] # None <=> worker[w] = "running"

WithProducer(t) == \E p \in Producers : packaged[p] = t
InQueue(t)      == \E i \in DOMAIN tasks : tasks[i] = t
WithWorker(t)   == \E w \in Workers : running[w] = t

\* No two places hold the same task ...
NoneTwice ==
    /\ \A p, q \in Producers : packaged[p] = packaged[q] /\ packaged[p] # None => p = q
    /\ \A i, j \in DOMAIN tasks : tasks[i] = tasks[j] => i = j
    /\ \A v, w \in Workers : running[v] = running[w] /\ running[v] # None => v = w
    /\ \A t \in Tasks : /\ ~(WithProducer(t) /\ InQueue(t))
                        /\ ~(WithProducer(t) /\ WithWorker(t))
                        /\ ~(InQueue(t) /\ WithWorker(t))

\* ... and the tasks that are somewhere are the pending ones.
PendingSomewhere ==
    \A t \in Tasks :
        future[t] = "pending" <=> WithProducer(t) \/ InQueue(t) \/ WithWorker(t)

\* stop is set by the destructor, which ends when all the threads have left.
Shutdown ==
    /\ stop <=> owner \in {"notify", "joining", "destroyed"}
    /\ owner = "destroyed" => /\ \A p \in Producers : producer[p] = "outside"
                              /\ \A w \in Workers : worker[w] = "exited"

Inv ==
    /\ TypeOK
    /\ MutexOwned
    /\ HoldsTask
    /\ NoneTwice
    /\ PendingSomewhere
    /\ DrainedBeforeExit
    /\ Shutdown

-----------------------------------------------------------------------------
LEMMA InitInv == Init => Inv
<1> SUFFICES ASSUME Init PROVE Inv
  OBVIOUS
<1> USE ThreadPoolAssumption DEF Init
<1>1. TypeOK
  <2>1. worker \in [Workers -> WorkerStates] /\ producer \in [Producers -> ProducerStates]
    BY DEF WorkerStates, ProducerStates
  <2>2. future \in [Tasks -> FutureStates] /\ owner \in OwnerStates
    BY DEF FutureStates, OwnerStates
  <2>3. tasks \in Seq(Tasks)
    OBVIOUS
  <2>4. stop \in BOOLEAN
    OBVIOUS
  <2>5. /\ running \in [Workers -> Tasks \cup {None}]
        /\ packaged \in [Producers -> Tasks \cup {None}]
        /\ queue_mutex \in Workers \cup Producers \cup {Owner, None}
    OBVIOUS
  <2> HIDE DEF Init
  <2> QED
    BY <2>1, <2>2, <2>3, <2>4, <2>5 DEF TypeOK
<1>2. MutexOwned /\ HoldsTask
  BY DEF MutexOwned, HoldsTask
<1>3. \A t \in Tasks : ~WithProducer(t) /\ ~InQueue(t) /\ ~WithWorker(t)
  BY DEF WithProducer, InQueue, WithWorker
<1>4. NoneTwice /\ PendingSomewhere
  BY <1>3 DEF NoneTwice, PendingSomewhere
<1>5. DrainedBeforeExit /\ Shutdown
  BY DEF DrainedBeforeExit, Shutdown
<1> QED
  BY <1>1, <1>2, <1>4, <1>5 DEF Inv

\* A step that moves no task keeps the tasks' places.
LEMMA KeepTasks ==
    ASSUME Inv, UNCHANGED <<tasks, running, packaged, future>>
    PROVE  NoneTwice' /\ PendingSomewhere'
BY DEF Inv, NoneTwice, PendingSomewhere, WithProducer, InQueue, WithWorker

\* The steps of a worker that move no task.
LEMMA WorkerIdleInv ==
    ASSUME Inv, NEW w \in Workers,
           WorkerLock(w) \/ WorkerWait(w) \/ SpuriousWakeup(w) \/ WorkerExit(w)
    PROVE  Inv'
<1> USE ThreadPoolAssumption DEF WorkerLock, WorkerWait, SpuriousWakeup, WorkerExit,
        Lock, Unlock, Ready, MayExit
<1>1. TypeOK'
  BY DEF Inv, TypeOK, WorkerStates
<1>2. MutexOwned'
  BY DEF Inv, TypeOK, MutexOwned
<1>3. HoldsTask'
  BY DEF Inv, TypeOK, HoldsTask
<1>4. NoneTwice' /\ PendingSomewhere'
  BY KeepTasks
<1>5. DrainedBeforeExit'
  BY DEF Inv, TypeOK, DrainedBeforeExit
<1>6. Shutdown'
  BY DEF Inv, TypeOK, Shutdown
<1> QED
  BY <1>1, <1>2, <1>3, <1>4, <1>5, <1>6 DEF Inv

LEMMA WorkerTakeInv ==
    ASSUME Inv, NEW w \in Workers, WorkerTake(w)
    PROVE  Inv'
<1> USE ThreadPoolAssumption
<1> DEFINE t == Head(tasks)
<1>1. /\ worker[w] = "locked" /\ tasks # <<>> /\ queue_mutex = w
      /\ queue_mutex' = None /\ tasks' = Tail(tasks)
      /\ running' = [running EXCEPT ![w] = t]
      /\ worker' = [worker EXCEPT ![w] = "running"]
      /\ UNCHANGED <<stop, producer, packaged, future, owner>>
  BY DEF WorkerTake, Ready, MayExit, Unlock
<1>2. /\ t \in Tasks /\ tasks[1] = t /\ 1 \in DOMAIN tasks
      /\ tasks' \in Seq(Tasks)
      /\ DOMAIN tasks = 1 .. Len(tasks) /\ Len(tasks) \in Nat \ {0}
      /\ DOMAIN tasks' = 1 .. (Len(tasks) - 1)
      /\ \A i \in DOMAIN tasks' : tasks'[i] = tasks[i + 1]
  BY <1>1 DEF Inv, TypeOK
<1> HIDE DEF t
<1>3. TypeOK'
  BY <1>1, <1>2 DEF Inv, TypeOK, WorkerStates
<1>4. MutexOwned'
  BY <1>1 DEF Inv, TypeOK, MutexOwned
<1>5. HoldsTask'
  BY <1>1, <1>2 DEF Inv, TypeOK, HoldsTask
<1>6. running[w] = None
  BY <1>1 DEF Inv, TypeOK, HoldsTask
<1>7. InQueue(t) /\ ~WithProducer(t) /\ ~WithWorker(t)
  BY <1>2 DEF Inv, NoneTwice, InQueue
<1>8. \A u \in Tasks : /\ WithProducer(u)' <=> WithProducer(u)
                       /\ WithWorker(u)' <=> WithWorker(u) \/ u = t
  BY <1>1, <1>2, <1>6 DEF Inv, TypeOK, WithProducer, WithWorker
<1>9. \A u \in Tasks : InQueue(u)' <=> InQueue(u) /\ u # t
  <2> SUFFICES ASSUME NEW u \in Tasks
               PROVE  InQueue(u)' <=> InQueue(u) /\ u # t
    OBVIOUS
  <2>1. ASSUME InQueue(u)' PROVE InQueue(u) /\ u # t
    BY <2>1, <1>2 DEF Inv, NoneTwice, InQueue
  <2>2. ASSUME InQueue(u), u # t PROVE InQueue(u)'
    <3>1. PICK i \in DOMAIN tasks : tasks[i] = u
      BY <2>2 DEF InQueue
    <3>2. i - 1 \in DOMAIN tasks' /\ tasks'[i - 1] = u
      BY <3>1, <2>2, <1>2
    <3> QED
      BY <3>2 DEF InQueue
  <2> QED
    BY <2>1, <2>2
<1>10. NoneTwice'
  <2>1. \A i, j \in DOMAIN tasks' : tasks'[i] = tasks'[j] => i = j
    BY <1>2 DEF Inv, NoneTwice
  <2>2. \A u, v \in Workers : running'[u] = running'[v] /\ running'[u] # None => u = v
    BY <1>1, <1>7 DEF Inv, TypeOK, NoneTwice, WithWorker
  <2>3. \A p, q \in Producers :
           packaged'[p] = packaged'[q] /\ packaged'[p] # None => p = q
    BY <1>1 DEF Inv, NoneTwice
  <2>4. \A u \in Tasks : /\ ~(WithProducer(u)' /\ InQueue(u)')
                         /\ ~(WithProducer(u)' /\ WithWorker(u)')
                         /\ ~(InQueue(u)' /\ WithWorker(u)')
    BY <1>7, <1>8, <1>9 DEF Inv, NoneTwice
  <2> QED
    BY <2>1, <2>2, <2>3, <2>4 DEF NoneTwice
<1>11. PendingSomewhere'
  BY <1>1, <1>2, <1>7, <1>8, <1>9 DEF Inv, PendingSomewhere
<1>12. DrainedBeforeExit'
  BY <1>1 DEF Inv, TypeOK, DrainedBeforeExit
<1>13. Shutdown'
  BY <1>1 DEF Inv, TypeOK, Shutdown
<1> QED
  BY <1>3, <1>4, <1>5, <1>10, <1>11, <1>12, <1>13 DEF Inv

LEMMA WorkerRunInv ==
    ASSUME Inv, NEW w \in Workers, WorkerRun(w)
    PROVE  Inv'
<1> USE ThreadPoolAssumption DEF WorkerRun
<1> DEFINE t == running[w]
<1>1. t \in Tasks
  BY DEF Inv, TypeOK, HoldsTask
<1>2. TypeOK'
  BY <1>1 DEF Inv, TypeOK, WorkerStates, FutureStates
<1>3. MutexOwned' /\ HoldsTask'
  BY DEF Inv, TypeOK, MutexOwned, HoldsTask
<1>4. WithWorker(t) /\ ~WithProducer(t) /\ ~InQueue(t)
  BY <1>1 DEF Inv, NoneTwice, WithWorker
<1>5. \A u \in Tasks : /\ WithProducer(u)' <=> WithProducer(u)
                       /\ InQueue(u)' <=> InQueue(u)
                       /\ WithWorker(u)' <=> WithWorker(u) /\ u # t
  BY <1>1 DEF Inv, TypeOK, NoneTwice, WithProducer, InQueue, WithWorker
<1>6. NoneTwice'
  BY <1>5 DEF Inv, TypeOK, NoneTwice
<1>7. PendingSomewhere'
  BY <1>1, <1>4, <1>5 DEF Inv, TypeOK, PendingSomewhere
<1>8. DrainedBeforeExit' /\ Shutdown'
  BY DEF Inv, TypeOK, DrainedBeforeExit, Shutdown
<1> QED
  BY <1>2, <1>3, <1>6, <1>7, <1>8 DEF Inv

LEMMA EnqueueBeginInv ==
    ASSUME Inv, NEW p \in Producers, NEW t \in Tasks, EnqueueBegin(p, t)
    PROVE  Inv'
<1> USE ThreadPoolAssumption DEF EnqueueBegin
<1>1. TypeOK'
  BY DEF Inv, TypeOK, ProducerStates, FutureStates
<1>2. MutexOwned' /\ HoldsTask'
  BY DEF Inv, TypeOK, MutexOwned, HoldsTask
<1>3. ~WithProducer(t) /\ ~InQueue(t) /\ ~WithWorker(t)
  BY DEF Inv, PendingSomewhere
<1>4. packaged[p] = None
  BY DEF Inv, HoldsTask
<1>5. \A u \in Tasks : /\ WithProducer(u)' <=> WithProducer(u) \/ u = t
                       /\ InQueue(u)' <=> InQueue(u)
                       /\ WithWorker(u)' <=> WithWorker(u)
  BY <1>4 DEF Inv, TypeOK, WithProducer, InQueue, WithWorker
<1>6. NoneTwice'
  <2>1. \A q, r \in Producers :
           packaged'[q] = packaged'[r] /\ packaged'[q] # None => q = r
    BY <1>3 DEF Inv, TypeOK, NoneTwice, WithProducer
  <2> QED
    BY <2>1, <1>3, <1>5 DEF Inv, NoneTwice
<1>7. PendingSomewhere'
  BY <1>5 DEF Inv, TypeOK, PendingSomewhere
<1>8. DrainedBeforeExit' /\ Shutdown'
  BY DEF Inv, TypeOK, DrainedBeforeExit, Shutdown
<1> QED
  BY <1>1, <1>2, <1>6, <1>7, <1>8 DEF Inv

LEMMA EnqueueLockInv ==
    ASSUME Inv, NEW p \in Producers, EnqueueLock(p) \/ NotifyOne(p)
    PROVE  Inv'
<1> USE ThreadPoolAssumption DEF EnqueueLock, NotifyOne, Lock, Waiting
<1>1. TypeOK'
  BY DEF Inv, TypeOK, ProducerStates, WorkerStates
<1>2. MutexOwned'
  BY DEF Inv, TypeOK, MutexOwned
<1>3. HoldsTask'
  BY DEF Inv, TypeOK, HoldsTask
<1>4. NoneTwice' /\ PendingSomewhere'
  BY KeepTasks
<1>5. DrainedBeforeExit'
  BY DEF Inv, TypeOK, DrainedBeforeExit
<1>6. Shutdown'
  BY DEF Inv, TypeOK, Shutdown
<1> QED
  BY <1>1, <1>2, <1>3, <1>4, <1>5, <1>6 DEF Inv

LEMMA EnqueueRefuseInv ==
    ASSUME Inv, NEW p \in Producers, EnqueueRefuse(p)
    PROVE  Inv'
<1> USE ThreadPoolAssumption DEF EnqueueRefuse, Unlock
<1> DEFINE t == packaged[p]
<1>1. t \in Tasks
  BY DEF Inv, TypeOK, HoldsTask
<1>2. TypeOK'
  BY <1>1 DEF Inv, TypeOK, ProducerStates, FutureStates
<1>3. MutexOwned' /\ HoldsTask'
  BY DEF Inv, TypeOK, MutexOwned, HoldsTask
<1>4. WithProducer(t) /\ ~InQueue(t) /\ ~WithWorker(t)
  BY <1>1 DEF Inv, NoneTwice, WithProducer
<1>5. \A u \in Tasks : /\ WithProducer(u)' <=> WithProducer(u) /\ u # t
                       /\ InQueue(u)' <=> InQueue(u)
                       /\ WithWorker(u)' <=> WithWorker(u)
  BY <1>1 DEF Inv, TypeOK, NoneTwice, WithProducer, InQueue, WithWorker
<1>6. NoneTwice'
  BY <1>5 DEF Inv, TypeOK, NoneTwice
<1>7. PendingSomewhere'
  BY <1>1, <1>4, <1>5 DEF Inv, TypeOK, PendingSomewhere
<1>8. DrainedBeforeExit' /\ Shutdown'
  BY DEF Inv, TypeOK, DrainedBeforeExit, Shutdown
<1> QED
  BY <1>2, <1>3, <1>6, <1>7, <1>8 DEF Inv

LEMMA EnqueuePushInv ==
    ASSUME Inv, NEW p \in Producers, EnqueuePush(p)
    PROVE  Inv'
<1> USE ThreadPoolAssumption DEF EnqueuePush, Unlock
<1> DEFINE t == packaged[p]
<1>1. t \in Tasks
  BY DEF Inv, TypeOK, HoldsTask
<1>2. TypeOK'
  BY <1>1 DEF Inv, TypeOK, ProducerStates
<1>3. MutexOwned' /\ HoldsTask'
  BY DEF Inv, TypeOK, MutexOwned, HoldsTask
<1>4. WithProducer(t) /\ ~InQueue(t) /\ ~WithWorker(t)
  BY <1>1 DEF Inv, NoneTwice, WithProducer
<1>5. /\ DOMAIN tasks' = DOMAIN tasks \cup {Len(tasks) + 1}
      /\ \A i \in DOMAIN tasks : tasks'[i] = tasks[i]
      /\ tasks'[Len(tasks) + 1] = t
  BY <1>1 DEF Inv, TypeOK
<1>6. \A u \in Tasks : /\ WithProducer(u)' <=> WithProducer(u) /\ u # t
                       /\ WithWorker(u)' <=> WithWorker(u)
  BY <1>1 DEF Inv, TypeOK, NoneTwice, WithProducer, WithWorker
<1>7. \A u \in Tasks : InQueue(u)' <=> InQueue(u) \/ u = t
  BY <1>5 DEF InQueue
<1>8. NoneTwice'
  <2>1. \A i, j \in DOMAIN tasks' : tasks'[i] = tasks'[j] => i = j
    BY <1>4, <1>5 DEF Inv, NoneTwice, InQueue
  <2>2. \A q, r \in Producers :
           packaged'[q] = packaged'[r] /\ packaged'[q] # None => q = r
    BY DEF Inv, TypeOK, NoneTwice
  <2>3. \A u, v \in Workers : running'[u] = running'[v] /\ running'[u] # None => u = v
    BY DEF Inv, NoneTwice
  <2>4. \A u \in Tasks : /\ ~(WithProducer(u)' /\ InQueue(u)')
                         /\ ~(WithProducer(u)' /\ WithWorker(u)')
                         /\ ~(InQueue(u)' /\ WithWorker(u)')
    BY <1>4, <1>6, <1>7 DEF Inv, NoneTwice
  <2> QED
    BY <2>1, <2>2, <2>3, <2>4 DEF NoneTwice
<1>9. PendingSomewhere'
  BY <1>4, <1>6, <1>7 DEF Inv, PendingSomewhere
<1>10. DrainedBeforeExit' /\ Shutdown'
  BY DEF Inv, TypeOK, DrainedBeforeExit, Shutdown
<1> QED
  BY <1>2, <1>3, <1>8, <1>9, <1>10 DEF Inv

LEMMA DestroyInv ==
    ASSUME Inv, DestroyLock \/ DestroyStep
    PROVE  Inv'
<1> USE ThreadPoolAssumption DEF DestroyLock, DestroyStep, DestroyStop,
        DestroyNotifyAll, DestroyJoin, Lock, Unlock, Waiting
<1>1. TypeOK'
  <2>1. worker' \in [Workers -> WorkerStates]
    BY DEF Inv, TypeOK, WorkerStates
  <2>2. stop' \in BOOLEAN
    BY DEF Inv, TypeOK
  <2> QED
    BY <2>1, <2>2 DEF Inv, TypeOK, OwnerStates
<1>2. MutexOwned'
  BY DEF Inv, TypeOK, MutexOwned
<1>3. HoldsTask'
  BY DEF Inv, TypeOK, HoldsTask
<1>4. NoneTwice' /\ PendingSomewhere'
  BY KeepTasks
<1>5. DrainedBeforeExit'
  BY DEF Inv, TypeOK, DrainedBeforeExit
<1>6. Shutdown'
  BY DEF Inv, TypeOK, OwnerStates, Shutdown
<1> QED
  BY <1>1, <1>2, <1>3, <1>4, <1>5, <1>6 DEF Inv

LEMMA NextInv == Inv /\ [Next]_vars => Inv'
<1> SUFFICES ASSUME Inv, [Next]_vars PROVE Inv'
  OBVIOUS
<1>1. ASSUME NEW w \in Workers, WorkerStep(w) \/ SpuriousWakeup(w) PROVE Inv'
  BY <1>1, WorkerIdleInv, WorkerTakeInv, WorkerRunInv DEF WorkerStep
<1>2. ASSUME NEW p \in Producers, EnqueueStep(p) PROVE Inv'
  BY <1>2, EnqueueLockInv, EnqueueRefuseInv, EnqueuePushInv DEF EnqueueStep
<1>3. ASSUME NEW p \in Producers, NEW t \in Tasks, EnqueueBegin(p, t) PROVE Inv'
  BY <1>3, EnqueueBeginInv
<1>4. CASE DestroyLock \/ DestroyStep
  BY <1>4, DestroyInv
<1>5. CASE Gone \/ UNCHANGED vars
  <2>1. UNCHANGED vars
    BY <1>5 DEF Gone
  <2>2. NoneTwice' /\ PendingSomewhere'
    BY <2>1, KeepTasks DEF vars
  <2>3. MutexOwned' /\ HoldsTask' /\ DrainedBeforeExit' /\ Shutdown'
    BY <2>1 DEF vars, Inv, MutexOwned, HoldsTask, DrainedBeforeExit, Shutdown
  <2>4. TypeOK'
    BY <2>1 DEF vars, Inv, TypeOK
  <2> QED
    BY <2>2, <2>3, <2>4 DEF Inv
<1> QED
  BY <1>1, <1>2, <1>3, <1>4, <1>5 DEF Next

\* The inductive invariant Inv holds in every reachable state of the pool: mutex,
\* control states, tasks and futures agree whatever the interleaving.
THEOREM InvHolds == Spec => []Inv
BY InitInv, NextInv, PTL DEF Spec

\* Type correctness of the pool (see TypeOK).
THEOREM TypeCorrect == Spec => []TypeOK
<1>1. Inv => TypeOK
  BY DEF Inv
<1> QED
  BY <1>1, InvHolds, PTL

\* No task is lost or run twice on its way through enqueue(), the queue and a
\* worker, for any number of threads and tasks.
THEOREM NoTaskLostOrRepeated == Spec => []ExactlyOnePlace
<1>1. Inv => ExactlyOnePlace
  <2> SUFFICES ASSUME Inv, NEW t \in Tasks
               PROVE  /\ future[t] = "pending" <=> Places(t) # {}
                      /\ \A x, y \in Places(t) : x = y
    BY DEF ExactlyOnePlace
  <2>1. \A x : x \in Places(t) <=>
           \/ \E p \in Producers : packaged[p] = t /\ x = <<"producer", p>>
           \/ \E i \in DOMAIN tasks : tasks[i] = t /\ x = <<"queue", i>>
           \/ \E w \in Workers : running[w] = t /\ x = <<"worker", w>>
    BY DEF Places
  <2>2. t # None
    BY ThreadPoolAssumption
  <2>3. Places(t) # {} <=> WithProducer(t) \/ InQueue(t) \/ WithWorker(t)
    BY <2>1 DEF WithProducer, InQueue, WithWorker
  <2>4. ASSUME NEW x \in Places(t), NEW y \in Places(t) PROVE x = y
    <3>1. CASE WithProducer(t)
      BY <3>1, <2>1, <2>2 DEF Inv, NoneTwice, WithProducer, InQueue, WithWorker
    <3>2. CASE InQueue(t)
      BY <3>2, <2>1, <2>2 DEF Inv, NoneTwice, WithProducer, InQueue, WithWorker
    <3>3. CASE WithWorker(t)
      BY <3>3, <2>1, <2>2 DEF Inv, NoneTwice, WithProducer, InQueue, WithWorker
    <3> QED
      BY <3>1, <3>2, <3>3, <2>3
  <2> QED
    BY <2>3, <2>4 DEF Inv, PendingSomewhere
<1> QED
  BY <1>1, InvHolds, PTL

\* No worker leaves while a task is queued or may still be queued.
THEOREM QueueDrained == Spec => []DrainedBeforeExit
<1>1. Inv => DrainedBeforeExit
  BY DEF Inv
<1> QED
  BY <1>1, InvHolds, PTL

\* A destroyed pool has run every task it accepted.
THEOREM NothingPendingAfterJoin == Spec => []DestroyedMeansDone
<1>1. Inv => DestroyedMeansDone
  <2> SUFFICES ASSUME Inv, owner = "destroyed", NEW t \in Tasks
               PROVE  future[t] # "pending"
    BY DEF DestroyedMeansDone
  <2> USE ThreadPoolAssumption
  <2>1. tasks = <<>>
    BY DEF Inv, Shutdown, DrainedBeforeExit
  <2>2. ~WithProducer(t) /\ ~WithWorker(t)
    BY DEF Inv, Shutdown, HoldsTask, WithProducer, WithWorker
  <2>3. ~InQueue(t)
    BY <2>1 DEF InQueue
  <2> QED
    BY <2>2, <2>3 DEF Inv, PendingSomewhere
<1> QED
  BY <1>1, InvHolds, PTL

-----------------------------------------------------------------------------
(* Work conservation: a count of threads, so finite cardinalities.         *)

LEMMA Counts ==
    /\ IsFiniteSet(Awake) /\ Cardinality(Awake) \in Nat
    /\ IsFiniteSet(Notifier) /\ Cardinality(Notifier) \in Nat
<1>1. IsFiniteSet(Awake) /\ IsFiniteSet(Notifier)
  BY ThreadPoolAssumption, FS_Subset DEF Awake, Notifier
<1> QED
  BY <1>1, FS_CardinalityType

\* A step that leaves the queue alone and neither puts a worker to sleep nor
\* loses a thread that is on its way to the queue.
LEMMA KeepCounts ==
    ASSUME WorkConserving, UNCHANGED tasks, TypeOK,
           Waiting' \subseteq Waiting,
           Awake \subseteq Awake', Notifier \subseteq Notifier'
    PROVE  WorkConserving'
<1>1. /\ IsFiniteSet(Awake') /\ Cardinality(Awake') \in Nat
      /\ IsFiniteSet(Notifier') /\ Cardinality(Notifier') \in Nat
  <2>1. IsFiniteSet(Awake') /\ IsFiniteSet(Notifier')
    BY ThreadPoolAssumption, FS_Subset DEF Awake, Notifier
  <2> QED
    BY <2>1, FS_CardinalityType
<1>2. /\ Cardinality(Awake) <= Cardinality(Awake')
      /\ Cardinality(Notifier) <= Cardinality(Notifier')
  BY <1>1, FS_Subset
<1> QED
  BY <1>1, <1>2, Counts DEF WorkConserving, TypeOK

LEMMA NextWorkConserving ==
    Inv /\ WorkConserving /\ [Next]_vars => WorkConserving'
<1> SUFFICES ASSUME Inv, WorkConserving, [Next]_vars PROVE WorkConserving'
  OBVIOUS
<1>0. TypeOK
  BY DEF Inv
<1> DEFINE n == Len(tasks)
<1>1. n \in Nat /\ (Waiting # {} => n <= Cardinality(Awake) + Cardinality(Notifier))
  BY <1>0 DEF TypeOK, WorkConserving
<1>2. ASSUME NEW w \in Workers, WorkerLock(w) \/ SpuriousWakeup(w) \/ WorkerRun(w)
      PROVE  WorkConserving'
  BY <1>2, <1>0, KeepCounts DEF WorkerLock, SpuriousWakeup, WorkerRun, Waiting, Awake, Notifier, TypeOK
<1>3. ASSUME NEW w \in Workers, WorkerWait(w) \/ WorkerExit(w) PROVE WorkConserving'
  <2>1. tasks' = <<>>
    BY <1>3 DEF WorkerWait, WorkerExit, Ready, MayExit
  <2>2. Cardinality(Awake') \in Nat /\ Cardinality(Notifier') \in Nat
    <3>1. IsFiniteSet(Awake') /\ IsFiniteSet(Notifier')
      BY ThreadPoolAssumption, FS_Subset DEF Awake, Notifier
    <3> QED
      BY <3>1, FS_CardinalityType
  <2> QED
    BY <2>1, <2>2 DEF WorkConserving
<1>4. ASSUME NEW w \in Workers, WorkerTake(w) PROVE WorkConserving'
  <2>1. Waiting' = Waiting /\ Notifier' = Notifier
    BY <1>4, <1>0 DEF WorkerTake, Waiting, Notifier, TypeOK
  <2>2. w \in Awake /\ Awake' = Awake \ {w}
    BY <1>4, <1>0 DEF WorkerTake, Awake, TypeOK
  <2>3. Cardinality(Awake') = Cardinality(Awake) - 1
    BY <2>2, Counts, FS_RemoveElement
  <2>4. Len(tasks') = n - 1
    BY <1>4, <1>0 DEF WorkerTake, Ready, MayExit, TypeOK
  <2> QED
    BY <1>1, <2>1, <2>3, <2>4, Counts DEF WorkConserving
<1>5. ASSUME NEW p \in Producers, EnqueuePush(p) PROVE WorkConserving'
  <2>1. Waiting' = Waiting /\ Awake' = Awake
    BY <1>5 DEF EnqueuePush, Waiting, Awake
  <2>2. p \notin Notifier /\ Notifier' = Notifier \cup {p}
    BY <1>5, <1>0 DEF EnqueuePush, Notifier, TypeOK
  <2>3. Cardinality(Notifier') = Cardinality(Notifier) + 1
    BY <2>2, Counts, FS_AddElement
  <2>4. Len(tasks') = n + 1
    BY <1>5, <1>0 DEF EnqueuePush, TypeOK
  <2> QED
    BY <1>1, <2>1, <2>3, <2>4, Counts DEF WorkConserving
<1>6. ASSUME NEW p \in Producers, NotifyOne(p) PROVE WorkConserving'
  <2>1. p \in Notifier /\ Notifier' = Notifier \ {p}
    BY <1>6, <1>0 DEF NotifyOne, Notifier, TypeOK
  <2>2. Cardinality(Notifier') = Cardinality(Notifier) - 1
    BY <2>1, Counts, FS_RemoveElement
  <2>3. CASE Waiting = {} /\ UNCHANGED worker
    BY <2>3 DEF WorkConserving, Waiting
  <2>4. ASSUME NEW w \in Waiting, worker' = [worker EXCEPT ![w] = "woken"]
        PROVE  WorkConserving'
    <3>1. w \notin Awake /\ Awake' = Awake \cup {w}
      BY <2>4, <1>0 DEF Awake, Waiting, TypeOK
    <3>2. Cardinality(Awake') = Cardinality(Awake) + 1
      BY <3>1, Counts, FS_AddElement
    <3>3. UNCHANGED tasks
      BY <1>6 DEF NotifyOne
    <3> QED
      BY <1>1, <2>2, <2>4, <3>2, <3>3, Counts DEF WorkConserving
  <2> QED
    BY <1>6, <2>3, <2>4 DEF NotifyOne
<1>7. ASSUME NEW p \in Producers,
             EnqueueLock(p) \/ EnqueueRefuse(p) \/ \E t \in Tasks : EnqueueBegin(p, t)
      PROVE  WorkConserving'
  <2>1. UNCHANGED <<tasks, worker>>
    BY <1>7 DEF EnqueueLock, EnqueueRefuse, EnqueueBegin
  <2>2. Notifier \subseteq Notifier'
    BY <1>7, <1>0 DEF EnqueueLock, EnqueueRefuse, EnqueueBegin, Notifier, TypeOK
  <2> QED
    BY <1>0, <2>1, <2>2, KeepCounts DEF Waiting, Awake
<1>8. CASE DestroyLock \/ DestroyStep \/ Gone \/ UNCHANGED vars
  <2>1. UNCHANGED <<tasks, producer>>
    BY <1>8 DEF DestroyLock, DestroyStep, DestroyStop, DestroyNotifyAll, DestroyJoin, Gone, vars
  <2>2. Waiting' \subseteq Waiting /\ Awake \subseteq Awake'
    BY <1>8, <1>0 DEF DestroyLock, DestroyStep, DestroyStop, DestroyNotifyAll, DestroyJoin,
       Gone, vars, Waiting, Awake, TypeOK
  <2> QED
    BY <1>0, <2>1, <2>2, KeepCounts DEF Notifier
<1> QED
  BY <1>2, <1>3, <1>4, <1>5, <1>6, <1>7, <1>8 DEF Next, WorkerStep, EnqueueStep

\* notify_one() after the unlock loses no wake-up: while a worker sleeps, every
\* queued task has a worker or a notification on its way.
THEOREM NoLostWakeup == Spec => []WorkConserving
<1>1. Init => WorkConserving
  BY DEF Init, WorkConserving, Waiting
<1> QED
  BY <1>1, NextWorkConserving, InvHolds, PTL DEF Spec

=============================================================================
