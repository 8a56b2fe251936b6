----------------------------- MODULE ThreadPool -----------------------------
(***************************************************************************)
(* The thread pool of common/apsi/util/thread_pool.h: a queue of tasks     *)
(* under queue_mutex, worker threads that sleep on condition_consumers,    *)
(* callers that sleep on condition_producers or in_flight_condition, a     *)
(* pool size and a queue limit that change while the pool runs, and a      *)
(* destructor that drains the queue.                                       *)
(*                                                                         *)
(* One action is one critical section: what a thread does between taking a *)
(* mutex and releasing it or going to sleep.  A thread in a state named    *)
(* "...Sleep" is in the wait set of a condition variable; a notification   *)
(* (or a spurious wakeup) moves it to the state in which it takes the      *)
(* mutex again and tests its predicate.  Each call of enqueue is identified*)
(* by its task, so enqueues of different tasks interleave freely.          *)
(***************************************************************************)
EXTENDS Naturals, Sequences, FiniteSets, SequencesExt

CONSTANTS
  Thread,       \* identities for worker threads
  Waiter,       \* threads that call the two wait_until_... functions
  Task,         \* the tasks, each given to one call of enqueue
  PoolSizes,    \* arguments of the constructor and of set_pool_size
  QueueLimits,  \* arguments of set_queue_size_limit
  FirstLimit,   \* initial max_queue_size
  MaxChanges,   \* bound: calls of set_pool_size and set_queue_size_limit
  None          \* no task

ASSUME ConstantsAssumption ==
  /\ IsFiniteSet(Thread)
  /\ PoolSizes \subseteq Nat \ {0}
  /\ QueueLimits \subseteq Nat
  /\ FirstLimit \in Nat \ {0}
  /\ MaxChanges \in Nat
  /\ None \notin Task

VARIABLES
  workers,    \* the vector of live threads, in order of creation
  number,     \* the worker_number each thread captured
  poolSize,   \* pool_size
  pc,         \* where each worker thread is
  task,       \* the task each worker thread holds
  tasks,      \* the queue
  maxQueue,   \* max_queue_size
  inFlight,   \* the atomic in_flight
  status,     \* how far the call of enqueue, then the task itself, has come
  waiter,     \* where each waiter is
  stop,       \* the stop signal
  dtor,       \* where the destructor is
  changes     \* number of reconfigurations so far

crewVars == <<workers, number, poolSize>>
queueVars == <<tasks, maxQueue, inFlight>>
vars == <<crewVars, pc, task, queueVars, status, waiter, stop, dtor, changes>>

Busy == {t \in Thread : pc[t] \in {"notify", "run"}}
StatusIs(s) == {k \in Task : status[k] = s}
----------------------------------------------------------------------------
(***************************************************************************)
(* Notifications.                                                          *)
(***************************************************************************)

WorkersAwake == [t \in Thread |-> IF pc[t] = "sleep" THEN "lock" ELSE pc[t]]

\* Mutant: the leaving thread does not notify condition_consumers.
DestructorNotTold == dtor

\* the destructor waits on condition_consumers, like the workers
DestructorAwake == IF dtor = "sleep" THEN "lock" ELSE dtor

\* notify_all of condition_producers: calls of enqueue and wait_until_empty
ProducersAwake ==
  /\ status' = [k \in Task |->
        IF status[k] = "enqueueSleep" THEN "enqueue" ELSE status[k]]
  /\ waiter' = [c \in Waiter |->
        IF waiter[c] = "emptySleep" THEN "empty" ELSE waiter[c]]

\* Mutant: enqueue forgets notify_one.
NotifyNobody == pc' = pc

\* notify_one of condition_consumers
NotifyOneWorker ==
  \/ WorkersAwake = pc /\ pc' = pc
  \/ \E t \in Thread : pc[t] = "sleep" /\ pc' = [pc EXCEPT ![t] = "lock"]

\* condition variables may wake a thread for no reason (left out for the
\* waiters, whose test has no effect on anybody else)
SpuriousWakeup ==
  /\ \/ /\ \E t \in Thread : pc[t] = "sleep" /\ pc' = [pc EXCEPT ![t] = "lock"]
        /\ UNCHANGED <<status, waiter, dtor>>
     \/ /\ \E k \in StatusIs("enqueueSleep") : status' = [status EXCEPT ![k] = "enqueue"]
        /\ UNCHANGED <<pc, waiter, dtor>>
     \/ /\ dtor' = DestructorAwake /\ dtor' # dtor
        /\ UNCHANGED <<pc, status, waiter>>
  /\ UNCHANGED <<crewVars, task, queueVars, stop, changes>>
----------------------------------------------------------------------------
(***************************************************************************)
(* Construction.                                                           *)
(***************************************************************************)

\* emplace_back_worker for the indices from .. from + Len(fresh) - 1: every
\* new thread captures its index
Numbered(old, from, fresh) ==
  [t \in Thread |-> IF \E i \in DOMAIN fresh : fresh[i] = t
                    THEN from + (CHOOSE i \in DOMAIN fresh : fresh[i] = t) - 1
                    ELSE old[t]]
Launched(old, fresh) ==
  [t \in Thread |-> IF \E i \in DOMAIN fresh : fresh[i] = t THEN "lock" ELSE old[t]]

\* the constructor
Init ==
  /\ poolSize \in PoolSizes
  /\ \E fresh \in [1..poolSize -> Thread] :
       /\ IsInjective(fresh)
       /\ workers = fresh
       /\ number = Numbered([t \in Thread |-> 0], 0, fresh)
       /\ pc = Launched([t \in Thread |-> "none"], fresh)
  /\ task = [t \in Thread |-> None]
  /\ tasks = <<>> /\ maxQueue = FirstLimit /\ inFlight = 0
  /\ status = [k \in Task |-> "new"]
  /\ waiter = [c \in Waiter |-> "idle"]
  /\ stop = FALSE /\ dtor = "none"
  /\ changes = 0
----------------------------------------------------------------------------
(***************************************************************************)
(* Callers.  No call starts once the destructor has returned.              *)
(***************************************************************************)

\* Mutant: the task is counted before the stop signal is tested.
ThrowCounted(k) == inFlight' = inFlight + 1 /\ UNCHANGED <<tasks, pc>>

\* enqueue on a stopped pool
Throw(k) == UNCHANGED <<tasks, inFlight, pc>>

\* Mutant: the new task overtakes the queue.
PutFirst(k) == tasks' = <<k>> \o tasks /\ inFlight' = inFlight + 1 /\ NotifyOneWorker

\* queue the task, count it and notify one worker
Put(k) == tasks' = Append(tasks, k) /\ inFlight' = inFlight + 1 /\ NotifyOneWorker

\* the end of enqueue, after any wait
ThrowOrPut(k) == IF stop THEN Throw(k) ELSE Put(k)
Ended == IF stop THEN "rejected" ELSE "queued"

\* enqueue that finds room, or a stopped pool (whose limit is not changed)
Enqueue(k) ==
  /\ status[k] = "new" /\ dtor # "done"
  /\ Len(tasks) < maxQueue \/ stop
  /\ ThrowOrPut(k)
  /\ status' = [status EXCEPT ![k] = Ended]
  /\ UNCHANGED <<crewVars, task, maxQueue, waiter, stop, dtor, changes>>

\* enqueue that finds the queue at its limit: it doubles the limit, which
\* wakes the producers, and sleeps only if the queue is at that limit too
EnqueueFull(k) ==
  /\ status[k] = "new" /\ dtor # "done"
  /\ Len(tasks) >= maxQueue /\ ~stop
  /\ maxQueue' = 2 * maxQueue
  /\ waiter' = [c \in Waiter |->
        IF waiter[c] = "emptySleep" THEN "empty" ELSE waiter[c]]
  /\ status' = [j \in Task |->
        CASE j = k -> IF Len(tasks) < 2 * maxQueue THEN "queued" ELSE "enqueueSleep"
          [] j # k /\ status[j] = "enqueueSleep" -> "enqueue"
          [] OTHER -> status[j]]
  /\ IF Len(tasks) < 2 * maxQueue THEN Put(k) ELSE UNCHANGED <<tasks, inFlight, pc>>
  /\ UNCHANGED <<crewVars, task, stop, dtor, changes>>

\* enqueue, woken, tests its predicate again
ResumeEnqueue(k) ==
  /\ status[k] = "enqueue"
  /\ IF Len(tasks) < maxQueue \/ stop
     THEN ThrowOrPut(k) /\ status' = [status EXCEPT ![k] = Ended]
     ELSE /\ status' = [status EXCEPT ![k] = "enqueueSleep"]
          /\ UNCHANGED <<tasks, inFlight, pc>>
  /\ UNCHANGED <<crewVars, task, maxQueue, waiter, stop, dtor, changes>>

\* the two waiting calls, at their start ("idle") or woken
WaitUntilEmpty(c) ==
  /\ waiter[c] = "empty" \/ (waiter[c] = "idle" /\ dtor # "done")
  /\ waiter' = [waiter EXCEPT ![c] = IF tasks = <<>> THEN "idle" ELSE "emptySleep"]
  /\ UNCHANGED <<crewVars, pc, task, queueVars, status, stop, dtor, changes>>

WaitUntilNothingInFlight(c) ==
  /\ waiter[c] = "flight" \/ (waiter[c] = "idle" /\ dtor # "done")
  /\ waiter' = [waiter EXCEPT ![c] = IF inFlight = 0 THEN "idle" ELSE "flightSleep"]
  /\ UNCHANGED <<crewVars, pc, task, queueVars, status, stop, dtor, changes>>

Change == dtor # "done" /\ changes < MaxChanges /\ changes' = changes + 1

\* max(limit, 1)
Clamped(limit) == IF limit < 1 THEN 1 ELSE limit

SetQueueSizeLimit(limit) ==
  /\ Change
  /\ IF stop THEN UNCHANGED maxQueue ELSE maxQueue' = Clamped(limit)
  /\ IF ~stop /\ maxQueue < Clamped(limit)
     THEN ProducersAwake
     ELSE UNCHANGED <<status, waiter>>
  /\ UNCHANGED <<crewVars, pc, task, tasks, inFlight, stop, dtor>>

\* Mutant: shrinking does not wake the sleeping workers.
ShrinkSilently(limit) == pc

\* notify all worker threads to start downsizing
Resized(limit) == IF limit < Len(workers) THEN WorkersAwake ELSE pc

\* set_pool_size (its clamp of 0 to 1 is the assumption on PoolSizes)
SetPoolSize(limit) ==
  /\ Change
  /\ IF stop
     THEN UNCHANGED <<crewVars, pc>>
     ELSE /\ poolSize' = limit
          /\ IF limit <= Len(workers)
             THEN pc' = Resized(limit) /\ UNCHANGED <<workers, number>>
             ELSE \E fresh \in [1..limit - Len(workers) -> {t \in Thread : pc[t] = "none"}] :
                    /\ IsInjective(fresh)
                    /\ workers' = workers \o fresh
                    /\ number' = Numbered(number, Len(workers), fresh)
                    /\ pc' = Launched(pc, fresh)
  /\ UNCHANGED <<task, queueVars, status, waiter, stop, dtor>>
----------------------------------------------------------------------------
(***************************************************************************)
(* The destructor: stop, wake everybody, wait for the vector to be empty.  *)
(***************************************************************************)

Destroy ==
  /\ dtor = "none"
  /\ stop' = TRUE /\ poolSize' = 0
  /\ pc' = WorkersAwake
  /\ ProducersAwake
  /\ dtor' = IF workers = <<>> THEN "done" ELSE "sleep"
  /\ UNCHANGED <<workers, number, task, queueVars, changes>>

ResumeDestroy ==
  /\ dtor = "lock"
  /\ dtor' = IF workers = <<>> THEN "done" ELSE "sleep"
  /\ UNCHANGED <<crewVars, pc, task, queueVars, status, waiter, stop, changes>>
----------------------------------------------------------------------------
(***************************************************************************)
(* A worker thread, from the top of its loop.                              *)
(***************************************************************************)

Excess(t) == poolSize < number[t] + 1

\* the wait predicate is false
WorkerSleep(t) ==
  /\ pc[t] = "lock" /\ ~stop /\ tasks = <<>> /\ ~Excess(t)
  /\ pc' = [pc EXCEPT ![t] = "sleep"]
  /\ UNCHANGED <<crewVars, task, queueVars, status, waiter, stop, dtor, changes>>

\* Mutant: any thread may leave.
AnyThread(t) == TRUE

\* this_id == last_thread.get_id()
AtBack(t) == t = Last(workers)

\* Mutant: a stopped pool abandons its queue.
LeavingAtOnce(t) == stop \/ Excess(t)

\* downsizing or shutdown
Leaving(t) == (stop /\ tasks = <<>>) \/ (~stop /\ Excess(t))

\* Only the thread at the back of the vector leaves; any other that should
\* goes back to the top of its loop, a step without effect.
WorkerExit(t) ==
  /\ pc[t] = "lock" /\ Leaving(t) /\ AtBack(t)
  /\ workers' = Front(workers)
  /\ pc' = [WorkersAwake EXCEPT ![t] = "none"]
  /\ dtor' = DestructorAwake
  /\ UNCHANGED <<number, poolSize, task, queueVars, status, waiter, stop, changes>>

\* Mutant: only a queue that drops below its limit is announced.
AnnounceAtLimit == Len(tasks) = maxQueue

\* the "notify" flag, before the task is popped
Announce == Len(tasks) = maxQueue \/ Len(tasks) = 1

\* take the oldest task; notifying the producers needs the mutex once more
WorkerTake(t) ==
  /\ pc[t] = "lock" /\ ~Leaving(t) /\ tasks # <<>>
  /\ tasks' = Tail(tasks)
  /\ task' = [task EXCEPT ![t] = Head(tasks)]
  /\ status' = [status EXCEPT ![Head(tasks)] = "running"]
  /\ pc' = [pc EXCEPT ![t] = IF Announce THEN "notify" ELSE "run"]
  /\ UNCHANGED <<crewVars, maxQueue, inFlight, waiter, stop, dtor, changes>>

WorkerNotify(t) ==
  /\ pc[t] = "notify"
  /\ pc' = [pc EXCEPT ![t] = "run"]
  /\ ProducersAwake
  /\ UNCHANGED <<crewVars, task, queueVars, stop, dtor, changes>>

\* the task returns (a throw is kept in its future) and the destructor of
\* handle_in_flight_decrement runs, up to its mutex
WorkerFinish(t) ==
  /\ pc[t] = "run"
  /\ status' = [status EXCEPT ![task[t]] = "finished"]
  /\ task' = [task EXCEPT ![t] = None]
  /\ inFlight' = inFlight - 1
  /\ pc' = [pc EXCEPT ![t] = IF inFlight = 1 THEN "tell" ELSE "lock"]
  /\ UNCHANGED <<crewVars, tasks, maxQueue, waiter, stop, dtor, changes>>

\* nothing is in flight: notify_all under in_flight_mutex
WorkerTell(t) ==
  /\ pc[t] = "tell"
  /\ pc' = [pc EXCEPT ![t] = "lock"]
  /\ waiter' = [c \in Waiter |->
        IF waiter[c] = "flightSleep" THEN "flight" ELSE waiter[c]]
  /\ UNCHANGED <<crewVars, task, queueVars, status, stop, dtor, changes>>
----------------------------------------------------------------------------
Worker(t) ==
  \/ WorkerSleep(t) \/ WorkerExit(t) \/ WorkerTake(t)
  \/ WorkerNotify(t) \/ WorkerFinish(t) \/ WorkerTell(t)

\* the pool is gone and nobody is inside it
Terminated ==
  /\ dtor = "done"
  /\ \A t \in Thread : pc[t] = "none"
  /\ \A c \in Waiter : waiter[c] = "idle"
  /\ StatusIs("enqueue") \cup StatusIs("enqueueSleep") = {}
  /\ UNCHANGED vars

Next ==
  \/ \E k \in Task : Enqueue(k) \/ EnqueueFull(k) \/ ResumeEnqueue(k)
  \/ \E c \in Waiter : WaitUntilEmpty(c) \/ WaitUntilNothingInFlight(c)
  \/ \E n \in QueueLimits : SetQueueSizeLimit(n)
  \/ \E n \in PoolSizes : SetPoolSize(n)
  \/ Destroy
  \/ ResumeDestroy
  \/ \E t \in Thread : Worker(t)
  \/ SpuriousWakeup
  \/ Terminated

Spec == Init /\ [][Next]_vars

\* A thread that can take a step inside the pool takes one (so a task is
\* assumed to return); no call is ever forced to start.
Fairness ==
  /\ \A t \in Thread : WF_vars(Worker(t))
  /\ \A k \in Task : WF_vars(ResumeEnqueue(k))
  /\ \A c \in Waiter : /\ WF_vars(waiter[c] = "empty" /\ WaitUntilEmpty(c))
                       /\ WF_vars(waiter[c] = "flight" /\ WaitUntilNothingInFlight(c))
  /\ WF_vars(ResumeDestroy)

FairSpec == Spec /\ Fairness
----------------------------------------------------------------------------
(***************************************************************************)
(* Properties.                                                             *)
(***************************************************************************)

\* The variables have their types.
TypeOK ==
  /\ workers \in Seq(Thread) /\ number \in [Thread -> Nat] /\ poolSize \in Nat
  /\ pc \in [Thread -> {"none", "lock", "sleep", "notify", "run", "tell"}]
  /\ task \in [Thread -> Task \cup {None}]
  /\ tasks \in Seq(Task) /\ maxQueue \in Nat \ {0} /\ inFlight \in Nat
  /\ status \in [Task -> {"new", "enqueueSleep", "enqueue", "rejected",
                          "queued", "running", "finished"}]
  /\ waiter \in [Waiter -> {"idle", "emptySleep", "empty", "flightSleep", "flight"}]
  /\ stop \in BOOLEAN /\ dtor \in {"none", "sleep", "lock", "done"}
  /\ changes \in 0..MaxChanges

\* The vector holds exactly the live threads, and a thread's number is its
\* index in it: what "highest number thread exits" relies on, and why a
\* thread created after a shrink never shares a number with a live one.
NumbersAreIndices ==
  /\ \A i \in 1..Len(workers) : number[workers[i]] + 1 = i
  /\ \A t \in Thread : pc[t] # "none" <=> \E i \in 1..Len(workers) : workers[i] = t

\* in_flight counts the tasks that are queued or held by a worker.
InFlightExact == inFlight = Len(tasks) + Cardinality(Busy)

\* The tasks held by busy workers are the running ones, one each, and the
\* queued ones are in the queue, once each.
RunningAreHeld ==
  /\ \A t \in Busy : task[t] \in StatusIs("running")
  /\ \A t, u \in Busy : task[t] = task[u] => t = u
  /\ \A k \in StatusIs("running") : \E t \in Busy : task[t] = k
QueuedAreInQueue ==
  /\ \A i \in 1..Len(tasks) : tasks[i] \in StatusIs("queued")
  /\ \A i, j \in 1..Len(tasks) : tasks[i] = tasks[j] => i = j
  /\ \A k \in StatusIs("queued") : \E i \in 1..Len(tasks) : tasks[i] = k

\* The shutdown protocol: a pool that is not stopped keeps a worker, and the
\* last worker of a stopped one leaves an empty queue.
ShutdownOrder ==
  /\ stop <=> dtor # "none"
  /\ ~stop => poolSize > 0 /\ workers # <<>>
  /\ stop /\ workers = <<>> => tasks = <<>>
  /\ dtor = "done" => workers = <<>>

\* The inductive invariant of the proofs.
PoolInv ==
  /\ TypeOK /\ NumbersAreIndices /\ InFlightExact
  /\ RunningAreHeld /\ QueuedAreInQueue /\ ShutdownOrder

\* The assertion at the end of ~ThreadPool, and what it stands for: when the
\* destructor returns, nothing is in flight, no accepted task has been left
\* behind, and no thread is left to touch the destroyed pool.
DrainedWhenDestroyed ==
  dtor = "done" => /\ inFlight = 0
                   /\ StatusIs("queued") \cup StatusIs("running") = {}
                   /\ \A t \in Thread : pc[t] = "none"

\* The pool implements the abstract task pool.
Abstract ==
  INSTANCE TaskPool WITH waiting <- tasks, running <- StatusIs("running"),
                         finished <- StatusIs("finished"),
                         closed <- stop, destroyed <- (dtor = "done")
ImplementsTaskPool == Abstract!Spec

\* Every task that was queued is eventually run, whatever is reconfigured.
QueuedTasksRun == \A k \in Task : status[k] = "queued" ~> status[k] = "finished"

\* The destructor returns.
DestructorReturns == dtor # "none" ~> dtor = "done"

\* A caller that sleeps in enqueue, wait_until_empty or
\* wait_until_nothing_in_flight returns.
CallersReturn ==
  /\ \A k \in Task : status[k] = "enqueueSleep" ~> status[k] \in {"finished", "rejected"}
  /\ \A c \in Waiter : waiter[c] # "idle" ~> waiter[c] = "idle"

\* A pool with too many workers gets rid of them.
PoolShrinks == Len(workers) > poolSize ~> Len(workers) <= poolSize
============================================================================
