----------------------------- MODULE ThreadPool -----------------------------
(***************************************************************************)
(* The worker pool of container/thread_pool.h (class TheadPool): a queue   *)
(* of packaged tasks behind one mutex and one condition variable, workers  *)
(* that loop over it, enqueue() called from any thread, and a destructor   *)
(* that lets the workers drain the queue and joins them.                   *)
(*                                                                         *)
(* Every lock acquisition is a step of its own, so that threads interleave *)
(* exactly where the mutex lets them; the notifications happen after the   *)
(* unlock, as in the code.                                                 *)
(***************************************************************************)
EXTENDS Naturals, Sequences, FiniteSets

CONSTANTS Workers,    \* the threads started by the constructor
          Producers,  \* threads that call enqueue()
          Owner,      \* the thread that destroys the pool
          Tasks,      \* the calls to enqueue() a behaviour makes, one task each
          None        \* no thread, no task

ASSUME ThreadPoolAssumption ==
    /\ IsFiniteSet(Workers) /\ Workers # {}
    /\ IsFiniteSet(Producers)
    /\ Workers \cap Producers = {}
    /\ Owner \notin Workers \cup Producers
    /\ None \notin Workers \cup Producers \cup Tasks \cup {Owner}

VARIABLES tasks,        \* std::queue<TaskFunction> tasks
          stop,         \* bool stop
          queue_mutex,  \* the thread that holds queue_mutex, or None
          worker,       \* control state of each worker
          running,      \* the task a worker has moved out of the queue
          producer,     \* control state of each thread in enqueue()
          packaged,     \* the packaged_task a producer is enqueueing
          future,       \* shared state of each task's future
          owner         \* control state of the destructor

vars == <<tasks, stop, queue_mutex, worker, running, producer, packaged,
          future, owner>>

WorkerStates   == {"start", "locked", "waiting", "woken", "running", "exited"}
ProducerStates == {"outside", "created", "locked", "notify"}
OwnerStates    == {"using", "locked", "notify", "joining", "destroyed"}
FutureStates   == {"none", "pending", "ready", "refused"}

Init ==
    /\ tasks = <<>>
    /\ stop = FALSE
    /\ queue_mutex = None
    /\ worker = [w \in Workers |-> "start"]
    /\ running = [w \in Workers |-> None]
    /\ producer = [p \in Producers |-> "outside"]
    /\ packaged = [p \in Producers |-> None]
    /\ future = [t \in Tasks |-> "none"]
    /\ owner = "using"

Lock(t) == queue_mutex = None /\ queue_mutex' = t
Unlock(t) == queue_mutex = t /\ queue_mutex' = None

Waiting == {w \in Workers : worker[w] = "waiting"}

-----------------------------------------------------------------------------
(* The worker loop.                                                        *)

\* std::unique_lock at the top of the loop, or the re-acquisition of the
\* mutex when wait() returns
WorkerLock(w) ==
    /\ worker[w] \in {"start", "woken"}
    /\ Lock(w)
    /\ worker' = [worker EXCEPT ![w] = "locked"]
    /\ UNCHANGED <<tasks, stop, running, producer, packaged, future, owner>>

\* the predicate given to queue_condition.wait()
Ready == stop \/ tasks # <<>>

WorkerWait(w) ==
    /\ worker[w] = "locked"
    /\ ~Ready
    /\ Unlock(w)
    /\ worker' = [worker EXCEPT ![w] = "waiting"]
    /\ UNCHANGED <<tasks, stop, running, producer, packaged, future, owner>>

\* std::condition_variable may wake a thread for no reason
SpuriousWakeup(w) ==
    /\ worker[w] = "waiting"
    /\ worker' = [worker EXCEPT ![w] = "woken"]
    /\ UNCHANGED <<tasks, stop, queue_mutex, running, producer, packaged,
                   future, owner>>

\* (mutation) a worker that leaves as soon as stop is set
MayExitEarly == stop

\* the condition under which a worker returns
MayExit == stop /\ tasks = <<>>

WorkerExit(w) ==
    /\ worker[w] = "locked"
    /\ Ready /\ MayExit
    /\ Unlock(w)
    /\ worker' = [worker EXCEPT ![w] = "exited"]
    /\ UNCHANGED <<tasks, stop, running, producer, packaged, future, owner>>

\* (mutation) the front task is copied and stays in the queue
WorkerTakeCopy(w) ==
    /\ worker[w] = "locked"
    /\ Ready /\ ~MayExit
    /\ Unlock(w)
    /\ running' = [running EXCEPT ![w] = Head(tasks)]
    /\ worker' = [worker EXCEPT ![w] = "running"]
    /\ UNCHANGED <<tasks, stop, producer, packaged, future, owner>>

\* task = std::move(tasks.front()); tasks.pop(); and the end of the guard
WorkerTake(w) ==
    /\ worker[w] = "locked"
    /\ Ready /\ ~MayExit
    /\ Unlock(w)
    /\ running' = [running EXCEPT ![w] = Head(tasks)]
    /\ tasks' = Tail(tasks)
    /\ worker' = [worker EXCEPT ![w] = "running"]
    /\ UNCHANGED <<stop, producer, packaged, future, owner>>

\* task(): the packaged_task stores its result (or its exception) in the
\* future, outside the lock
WorkerRun(w) ==
    /\ worker[w] = "running"
    /\ future' = [future EXCEPT ![running[w]] = "ready"]
    /\ running' = [running EXCEPT ![w] = None]
    /\ worker' = [worker EXCEPT ![w] = "start"]
    /\ UNCHANGED <<tasks, stop, queue_mutex, producer, packaged, owner>>

-----------------------------------------------------------------------------
(* enqueue().                                                              *)

\* make_shared<packaged_task> and get_future(); no call starts on a pool
\* whose destructor has finished
EnqueueBegin(p, t) ==
    /\ producer[p] = "outside"
    /\ owner # "destroyed"
    /\ future[t] = "none"
    /\ future' = [future EXCEPT ![t] = "pending"]
    /\ packaged' = [packaged EXCEPT ![p] = t]
    /\ producer' = [producer EXCEPT ![p] = "created"]
    /\ UNCHANGED <<tasks, stop, queue_mutex, worker, running, owner>>

EnqueueLock(p) ==
    /\ producer[p] = "created"
    /\ Lock(p)
    /\ producer' = [producer EXCEPT ![p] = "locked"]
    /\ UNCHANGED <<tasks, stop, worker, running, packaged, future, owner>>

\* throw runtime_error("enqueue on stopped ThreadPool")
EnqueueRefuse(p) ==
    /\ producer[p] = "locked"
    /\ stop
    /\ Unlock(p)
    /\ future' = [future EXCEPT ![packaged[p]] = "refused"]
    /\ packaged' = [packaged EXCEPT ![p] = None]
    /\ producer' = [producer EXCEPT ![p] = "outside"]
    /\ UNCHANGED <<tasks, stop, worker, running, owner>>

EnqueuePush(p) ==
    /\ producer[p] = "locked"
    /\ ~stop
    /\ Unlock(p)
    /\ tasks' = Append(tasks, packaged[p])
    /\ packaged' = [packaged EXCEPT ![p] = None]
    /\ producer' = [producer EXCEPT ![p] = "notify"]
    /\ UNCHANGED <<stop, worker, running, future, owner>>

\* (mutation) the notification that never reaches a sleeping worker
NotifyNobody(p) ==
    /\ producer[p] = "notify"
    /\ producer' = [producer EXCEPT ![p] = "outside"]
    /\ UNCHANGED <<tasks, stop, queue_mutex, worker, running, packaged, future,
                   owner>>

\* queue_condition.notify_one(), after the unlock, and the return of the future
NotifyOne(p) ==
    /\ producer[p] = "notify"
    /\ \/ \E w \in Waiting : worker' = [worker EXCEPT ![w] = "woken"]
       \/ Waiting = {} /\ UNCHANGED worker
    /\ producer' = [producer EXCEPT ![p] = "outside"]
    /\ UNCHANGED <<tasks, stop, queue_mutex, running, packaged, future, owner>>

-----------------------------------------------------------------------------
(* ~TheadPool().                                                           *)

DestroyLock ==
    /\ owner = "using"
    /\ Lock(Owner)
    /\ owner' = "locked"
    /\ UNCHANGED <<tasks, stop, worker, running, producer, packaged, future>>

DestroyStop ==
    /\ owner = "locked"
    /\ stop' = TRUE
    /\ Unlock(Owner)
    /\ owner' = "notify"
    /\ UNCHANGED <<tasks, worker, running, producer, packaged, future>>

\* (mutation) only one worker learns of the shutdown
DestroyNotifyOne ==
    /\ owner = "notify"
    /\ \/ \E w \in Waiting : worker' = [worker EXCEPT ![w] = "woken"]
       \/ Waiting = {} /\ UNCHANGED worker
    /\ owner' = "joining"
    /\ UNCHANGED <<tasks, stop, queue_mutex, running, producer, packaged,
                   future>>

DestroyNotifyAll ==
    /\ owner = "notify"
    /\ worker' = [w \in Workers |-> IF w \in Waiting THEN "woken"
                                                     ELSE worker[w]]
    /\ owner' = "joining"
    /\ UNCHANGED <<tasks, stop, queue_mutex, running, producer, packaged,
                   future>>

\* worker.join() for every worker; as for any C++ object, the owner sees to it
\* that no thread is still inside enqueue() when the destructor ends
DestroyJoin ==
    /\ owner = "joining"
    /\ \A p \in Producers : producer[p] = "outside"
    /\ \A w \in Workers : worker[w] = "exited"
    /\ owner' = "destroyed"
    /\ UNCHANGED <<tasks, stop, queue_mutex, worker, running, producer,
                   packaged, future>>

-----------------------------------------------------------------------------
WorkerStep(w) ==
    WorkerLock(w) \/ WorkerWait(w) \/ WorkerExit(w) \/ WorkerTake(w)
                  \/ WorkerRun(w)

EnqueueStep(p) ==
    EnqueueLock(p) \/ EnqueueRefuse(p) \/ EnqueuePush(p) \/ NotifyOne(p)

DestroyStep == DestroyStop \/ DestroyNotifyAll \/ DestroyJoin

\* the only way to stop: the pool is gone
Gone ==
    /\ owner = "destroyed"
    /\ UNCHANGED vars

Next ==
    \/ \E w \in Workers : WorkerStep(w) \/ SpuriousWakeup(w)
    \/ \E p \in Producers : EnqueueStep(p) \/ \E t \in Tasks : EnqueueBegin(p, t)
    \/ DestroyLock \/ DestroyStep
    \/ Gone

Spec == Init /\ [][Next]_vars

(***************************************************************************)
(* A thread that can run eventually runs (the OS scheduler); a task body   *)
(* returns (WorkerRun); nothing forces a caller to enqueue or to destroy.  *)
(***************************************************************************)
FairSpec ==
    /\ Spec
    /\ \A w \in Workers : WF_vars(WorkerStep(w))
    /\ \A p \in Producers : WF_vars(EnqueueStep(p))
    /\ WF_vars(DestroyStep)

-----------------------------------------------------------------------------
(* Properties.                                                             *)

\* Every variable stays within the values its C++ counterpart can take.
TypeOK ==
    /\ tasks \in Seq(Tasks)
    /\ stop \in BOOLEAN
    /\ queue_mutex \in Workers \cup Producers \cup {Owner, None}
    /\ worker \in [Workers -> WorkerStates]
    /\ running \in [Workers -> Tasks \cup {None}]
    /\ producer \in [Producers -> ProducerStates]
    /\ packaged \in [Producers -> Tasks \cup {None}]
    /\ future \in [Tasks -> FutureStates]
    /\ owner \in OwnerStates

\* The places where a task can be: with its producer, at an index of the
\* queue, with a worker.
Places(t) ==
    UNION {{<<"producer", p>> : p \in {q \in Producers : packaged[q] = t}},
           {<<"queue", i>> : i \in {j \in DOMAIN tasks : tasks[j] = t}},
           {<<"worker", w>> : w \in {v \in Workers : running[v] = t}}}

\* A task whose future is pending is in exactly one place, and a task whose
\* future is settled (or not yet created) is in none: no task is dropped by
\* the moves between enqueue(), the queue and the workers, and none is run a
\* second time (a packaged_task run twice throws).
ExactlyOnePlace ==
    \A t \in Tasks :
        /\ future[t] = "pending" <=> Places(t) # {}
        /\ \A x, y \in Places(t) : x = y

\* "All tasks are completed before the exit" (thread_pool.h:41): once a worker
\* has returned, the queue is empty and stays so, whoever still calls enqueue().
DrainedBeforeExit ==
    (\E w \in Workers : worker[w] = "exited") => stop /\ tasks = <<>>

\* When the destructor has joined the workers every task that was accepted by
\* enqueue() has run.
DestroyedMeansDone ==
    owner = "destroyed" =>
        \A t \in Tasks : future[t] # "pending"

Awake    == {w \in Workers : worker[w] \in {"start", "woken", "locked"}}
Notifier == {p \in Producers : producer[p] = "notify"}

\* The pool is work-conserving: while a worker sleeps in wait(), every queued
\* task is matched by a worker on its way to the queue or by a notify_one()
\* that is still to come, although notify_one() is called after the unlock and
\* may find nobody asleep.
WorkConserving ==
    Waiting # {} => Len(tasks) <= Cardinality(Awake) + Cardinality(Notifier)

\* Every accepted task runs: a task that is in the queue gets its result.
EveryTaskRuns ==
    \A t \in Tasks : (\E i \in DOMAIN tasks : tasks[i] = t) ~> (future[t] = "ready")

\* Once ~TheadPool() has set stop, the join completes: no worker sleeps
\* through the shutdown.
DestructorReturns == (owner = "notify") ~> (owner = "destroyed")

=============================================================================
