-------------------------- MODULE ThreadPoolProofs --------------------------
(***************************************************************************)
(* Proofs about ThreadPool, for any number of threads and tasks and any    *)
(* interleaving of enqueues, waits, resizes and the destructor.            *)
(***************************************************************************)
EXTENDS ThreadPool, SequenceTheorems, FiniteSetTheorems, TLAPS

----------------------------------------------------------------------------
(***************************************************************************)
(* Type correctness.                                                       *)
(***************************************************************************)

\* The sequence of freshly launched threads that a resize appends.
LEMMA FreshType ==
  ASSUME NEW n \in Nat, NEW S, S \subseteq Thread, NEW fresh \in [1..n -> S]
  PROVE  fresh \in Seq(Thread) /\ Len(fresh) = n /\ DOMAIN fresh = 1..n
<1>1. fresh \in Seq(S)
  BY IsASeq
<1>2. Len(fresh) = n /\ DOMAIN fresh = 1..n
  BY <1>1, LenProperties
<1>3. fresh \in [1..Len(fresh) -> Thread]
  BY <1>2
<1> QED
  BY <1>2, <1>3, IsASeq

\* A new thread captures its index in the vector, any other keeps its number.
LEMMA NumberedProperties ==
  ASSUME NEW old \in [Thread -> Nat], NEW from \in Nat, NEW n \in Nat,
         NEW fresh \in [1..n -> Thread], IsInjective(fresh)
  PROVE  /\ Numbered(old, from, fresh) \in [Thread -> Nat]
         /\ \A i \in 1..n : Numbered(old, from, fresh)[fresh[i]] = from + i - 1
         /\ \A t \in Thread : (\A i \in 1..n : fresh[i] # t)
                                => Numbered(old, from, fresh)[t] = old[t]
<1> DEFINE At(t) == CHOOSE i \in DOMAIN fresh : fresh[i] = t
<1>1. \A t \in Thread : (\E i \in DOMAIN fresh : fresh[i] = t) => At(t) \in 1..n /\ fresh[At(t)] = t
  OBVIOUS
<1>2. \A i \in 1..n : At(fresh[i]) = i
  BY <1>1 DEF IsInjective
<1> HIDE DEF At
<1>3. Numbered(old, from, fresh) = [t \in Thread |->
         IF \E i \in DOMAIN fresh : fresh[i] = t THEN from + At(t) - 1 ELSE old[t]]
  BY DEF Numbered, At
<1> QED
  BY <1>1, <1>2, <1>3

\* What putting a task in the queue does to the variables it changes.
LEMMA PutType ==
  ASSUME TypeOK, NEW k \in Task, Put(k)
  PROVE  /\ tasks' = Append(tasks, k) /\ tasks' \in Seq(Task)
         /\ inFlight' = inFlight + 1 /\ inFlight' \in Nat
         /\ pc' \in [Thread -> {"none", "lock", "sleep", "notify", "run", "tell"}]
         /\ \A t \in Thread : pc'[t] = pc[t] \/ (pc[t] = "sleep" /\ pc'[t] = "lock")
BY DEF TypeOK, Put, NotifyOneWorker

\* Popping the vector of workers.
LEMMA FrontType ==
  ASSUME NEW w \in Seq(Thread)
  PROVE  /\ Front(w) \in Seq(Thread)
         /\ w # <<>> => /\ Len(Front(w)) = Len(w) - 1
                        /\ \A i \in 1..Len(w) - 1 : Front(w)[i] = w[i]
<1>1. \A i \in 1..Len(w) - 1 : w[i] \in Thread
  OBVIOUS
<1>2. Len(w) \in Nat /\ (w # <<>> => Len(w) >= 1)
  BY EmptySeq
<1>3. /\ SubSeq(w, 1, Len(w) - 1) \in Seq(Thread)
      /\ Len(SubSeq(w, 1, Len(w) - 1)) = IF 1 <= Len(w) - 1 THEN Len(w) - 1 - 1 + 1 ELSE 0
      /\ \A i \in 1..Len(w) - 1 - 1 + 1 : SubSeq(w, 1, Len(w) - 1)[i] = w[1 + i - 1]
  BY <1>1, <1>2, SubSeqProperties
<1>4. ASSUME w # <<>>
      PROVE  /\ Len(SubSeq(w, 1, Len(w) - 1)) = Len(w) - 1
             /\ \A i \in 1..Len(w) - 1 : SubSeq(w, 1, Len(w) - 1)[i] = w[i]
  <2>1. PICK n \in Nat : Len(w) = n + 1
    <3>1. Len(w) - 1 \in Nat /\ Len(w) = (Len(w) - 1) + 1
      BY <1>2, <1>4
    <3> QED
      BY <3>1
  <2>2. Len(SubSeq(w, 1, Len(w) - 1)) = Len(w) - 1
    BY <1>3, <2>1
  <2>3. \A i \in 1..Len(w) - 1 : i \in 1..Len(w) - 1 - 1 + 1 /\ 1 + i - 1 = i
    BY <2>1
  <2> QED
    BY <1>3, <2>2, <2>3
<1> QED
  BY <1>3, <1>4 DEF Front

\* The busy workers are finitely many; there are none iff their number is 0.
LEMMA BusyCount ==
  /\ IsFiniteSet(Busy) /\ Cardinality(Busy) \in Nat
  /\ Cardinality(Busy) = 0 <=> Busy = {}
<1>1. IsFiniteSet(Busy)
  BY ConstantsAssumption, FS_Subset DEF Busy
<1> QED
  BY <1>1, FS_CardinalityType, FS_EmptySet

\* Type correctness of the initial states and of every action.
LEMMA TypeInit == Init => TypeOK
<1> USE ConstantsAssumption
<1> SUFFICES ASSUME Init PROVE TypeOK
  OBVIOUS
<1>1. PICK fresh \in [1..poolSize -> Thread] :
        /\ IsInjective(fresh)
        /\ workers = fresh
        /\ number = Numbered([t \in Thread |-> 0], 0, fresh)
        /\ pc = Launched([t \in Thread |-> "none"], fresh)
  BY DEF Init
<1>2. poolSize \in Nat
  BY DEF Init
<1>3. workers \in Seq(Thread)
  BY <1>1, <1>2, FreshType
<1>4. number \in [Thread -> Nat]
  BY <1>1, <1>2, NumberedProperties
<1>5. pc \in [Thread -> {"none", "lock", "sleep", "notify", "run", "tell"}]
  BY <1>1 DEF Launched
<1>6. /\ task \in [Thread -> Task \cup {None}]
      /\ tasks \in Seq(Task) /\ maxQueue \in Nat \ {0} /\ inFlight \in Nat
      /\ status \in [Task -> {"new", "enqueueSleep", "enqueue", "rejected",
                              "queued", "running", "finished"}]
  BY DEF Init
<1>7. /\ waiter \in [Waiter -> {"idle", "emptySleep", "empty", "flightSleep", "flight"}]
      /\ stop \in BOOLEAN /\ dtor \in {"none", "sleep", "lock", "done"}
  BY DEF Init
<1>8. changes \in 0..MaxChanges
  <2>1. changes = 0
    BY DEF Init
  <2> QED
    BY <2>1
<1> QED
  BY <1>2, <1>3, <1>4, <1>5, <1>6, <1>7, <1>8 DEF TypeOK

LEMMA TypeStep == PoolInv /\ [Next]_vars => TypeOK'
<1> USE ConstantsAssumption
<1> SUFFICES ASSUME TypeOK, InFlightExact, [Next]_vars PROVE TypeOK'
  BY DEF PoolInv
<1> USE DEF TypeOK
<1>1. ASSUME NEW k \in Task, Enqueue(k) PROVE TypeOK'
  BY <1>1, PutType DEF Enqueue, ThrowOrPut, Throw, Ended, crewVars
<1>2. ASSUME NEW k \in Task, EnqueueFull(k) PROVE TypeOK'
  <2>1. status' \in [Task -> {"new", "enqueueSleep", "enqueue", "rejected",
                              "queued", "running", "finished"}]
    BY <1>2 DEF EnqueueFull
  <2>2. tasks' \in Seq(Task) /\ inFlight' \in Nat
        /\ pc' \in [Thread -> {"none", "lock", "sleep", "notify", "run", "tell"}]
    <3>1. CASE Put(k)
      BY <3>1, PutType
    <3>2. CASE UNCHANGED <<tasks, inFlight, pc>>
      BY <3>2
    <3> QED
      BY <1>2, <3>1, <3>2 DEF EnqueueFull
  <2>3. waiter' \in [Waiter -> {"idle", "emptySleep", "empty", "flightSleep", "flight"}]
        /\ maxQueue' \in Nat \ {0}
    BY <1>2 DEF EnqueueFull
  <2>4. UNCHANGED <<crewVars, task, stop, dtor, changes>>
    BY <1>2 DEF EnqueueFull
  <2> QED
    BY <2>1, <2>2, <2>3, <2>4 DEF crewVars
<1>3. ASSUME NEW k \in Task, ResumeEnqueue(k) PROVE TypeOK'
  BY <1>3, PutType DEF ResumeEnqueue, ThrowOrPut, Throw, Ended, crewVars
<1>4. ASSUME NEW c \in Waiter, WaitUntilEmpty(c) PROVE TypeOK'
  BY <1>4 DEF WaitUntilEmpty, crewVars, queueVars
<1>5. ASSUME NEW c \in Waiter, WaitUntilNothingInFlight(c) PROVE TypeOK'
  BY <1>5 DEF WaitUntilNothingInFlight, crewVars, queueVars
<1>6. ASSUME NEW n \in QueueLimits, SetQueueSizeLimit(n) PROVE TypeOK'
  BY <1>6 DEF SetQueueSizeLimit, Change, Clamped, ProducersAwake, crewVars
<1>7. ASSUME NEW n \in PoolSizes, SetPoolSize(n) PROVE TypeOK'
  <2>1. UNCHANGED <<task, queueVars, status, waiter, stop, dtor>> /\ changes' \in 0..MaxChanges
    BY <1>7 DEF SetPoolSize, Change
  <2>2. CASE stop
    BY <2>1, <2>2, <1>7 DEF SetPoolSize, crewVars, queueVars
  <2>3. CASE ~stop /\ n <= Len(workers)
    BY <2>1, <2>3, <1>7 DEF SetPoolSize, Resized, WorkersAwake, queueVars
  <2>4. CASE ~stop /\ ~(n <= Len(workers))
    <3>1. PICK fresh \in [1..n - Len(workers) -> {t \in Thread : pc[t] = "none"}] :
            /\ IsInjective(fresh)
            /\ workers' = workers \o fresh
            /\ number' = Numbered(number, Len(workers), fresh)
            /\ pc' = Launched(pc, fresh)
      BY <2>4, <1>7 DEF SetPoolSize
    <3>2. n - Len(workers) \in Nat /\ Len(workers) \in Nat
      BY <2>4
    <3>3. fresh \in [1..n - Len(workers) -> Thread] /\ fresh \in Seq(Thread)
      BY <3>2, FreshType
    <3>4. workers' \in Seq(Thread)
      BY <3>1, <3>3
    <3>5. number' \in [Thread -> Nat]
      BY <3>1, <3>2, <3>3, NumberedProperties
    <3>6. pc' \in [Thread -> {"none", "lock", "sleep", "notify", "run", "tell"}]
      BY <3>1 DEF Launched
    <3>7. poolSize' \in Nat
      BY <2>4, <1>7 DEF SetPoolSize
    <3> QED
      BY <2>1, <3>4, <3>5, <3>6, <3>7 DEF queueVars
  <2> QED
    BY <2>2, <2>3, <2>4
<1>8. CASE Destroy
  BY <1>8 DEF Destroy, WorkersAwake, ProducersAwake, queueVars
<1>9. CASE ResumeDestroy
  BY <1>9 DEF ResumeDestroy, crewVars, queueVars
<1>10. ASSUME NEW t \in Thread, WorkerSleep(t) PROVE TypeOK'
  BY <1>10 DEF WorkerSleep, crewVars, queueVars
<1>11. ASSUME NEW t \in Thread, WorkerExit(t) PROVE TypeOK'
  <2>1. workers' \in Seq(Thread)
    BY <1>11, FrontType DEF WorkerExit
  <2> QED
    BY <2>1, <1>11 DEF WorkerExit, WorkersAwake, DestructorAwake, queueVars
<1>12. ASSUME NEW t \in Thread, WorkerTake(t) PROVE TypeOK'
  BY <1>12 DEF WorkerTake, crewVars
<1>13. ASSUME NEW t \in Thread, WorkerNotify(t) PROVE TypeOK'
  BY <1>13 DEF WorkerNotify, ProducersAwake, crewVars, queueVars
<1>14. ASSUME NEW t \in Thread, WorkerFinish(t) PROVE TypeOK'
  <2>1. t \in Busy
    BY <1>14 DEF WorkerFinish, Busy
  <2>2. inFlight - 1 \in Nat
    BY <2>1, BusyCount DEF InFlightExact
  <2> QED
    BY <1>14, <2>2 DEF WorkerFinish, crewVars
<1>15. ASSUME NEW t \in Thread, WorkerTell(t) PROVE TypeOK'
  BY <1>15 DEF WorkerTell, crewVars, queueVars
<1>16. CASE SpuriousWakeup
  BY <1>16 DEF SpuriousWakeup, StatusIs, DestructorAwake, crewVars, queueVars
<1>17. CASE UNCHANGED vars \/ Terminated
  BY <1>17 DEF Terminated, vars, crewVars, queueVars
<1> QED
  BY <1>1, <1>2, <1>3, <1>4, <1>5, <1>6, <1>7, <1>8, <1>9, <1>10, <1>11, <1>12,
     <1>13, <1>14, <1>15, <1>16, <1>17 DEF Next, Worker
----------------------------------------------------------------------------
(***************************************************************************)
(* What a step changes.  Each lemma below singles out the actions that     *)
(* touch one part of the state and says that all others leave it alone.    *)
(***************************************************************************)

\* A step of the pool, action by action, apart from stuttering.
LEMMA CrewFrame ==
  ASSUME TypeOK, [Next]_vars
  PROVE  \/ /\ workers' = workers /\ number' = number
            /\ \A t \in Thread : pc'[t] = "none" <=> pc[t] = "none"
         \/ \E n \in PoolSizes : SetPoolSize(n) /\ ~stop /\ n > Len(workers)
         \/ \E t \in Thread : WorkerExit(t)
<1> USE DEF TypeOK
<1> DEFINE Same == /\ workers' = workers /\ number' = number
                   /\ \A t \in Thread : pc'[t] = "none" <=> pc[t] = "none"
<1>1. ASSUME NEW k \in Task, Enqueue(k) \/ EnqueueFull(k) \/ ResumeEnqueue(k) PROVE Same
  BY <1>1, PutType DEF Enqueue, EnqueueFull, ResumeEnqueue, ThrowOrPut, Throw, crewVars
<1>2. ASSUME NEW c \in Waiter, WaitUntilEmpty(c) \/ WaitUntilNothingInFlight(c) PROVE Same
  BY <1>2 DEF WaitUntilEmpty, WaitUntilNothingInFlight, crewVars
<1>3. ASSUME NEW n \in QueueLimits, SetQueueSizeLimit(n) PROVE Same
  BY <1>3 DEF SetQueueSizeLimit, crewVars
<1>4. ASSUME NEW n \in PoolSizes, SetPoolSize(n), stop \/ n <= Len(workers) PROVE Same
  BY <1>4 DEF SetPoolSize, Resized, WorkersAwake, crewVars
<1>5. CASE Destroy \/ ResumeDestroy
  BY <1>5 DEF Destroy, ResumeDestroy, WorkersAwake, crewVars
<1>6. ASSUME NEW t \in Thread, Worker(t), ~WorkerExit(t) PROVE Same
  BY <1>6 DEF Worker, WorkerSleep, WorkerTake, WorkerNotify, WorkerFinish, WorkerTell, crewVars
<1>7. CASE SpuriousWakeup
  BY <1>7 DEF SpuriousWakeup, crewVars
<1>8. CASE UNCHANGED vars \/ Terminated
  BY <1>8 DEF Terminated, vars, crewVars
<1>9. ASSUME NEW n \in PoolSizes, SetPoolSize(n)
      PROVE  (stop \/ n <= Len(workers)) \/ (~stop /\ n > Len(workers))
  BY ConstantsAssumption
<1> QED
  BY <1>1, <1>2, <1>3, <1>4, <1>5, <1>6, <1>7, <1>8, <1>9 DEF Next

\* The tasks held by workers, running and finished are as they were.
HeldSame ==
  /\ Busy' = Busy /\ \A t \in Busy : task'[t] = task[t]
  /\ StatusIs("running")' = StatusIs("running")
  /\ StatusIs("finished")' = StatusIs("finished")

\* A step in which no task moves.
Quiet ==
  /\ HeldSame
  /\ tasks' = tasks /\ inFlight' = inFlight
  /\ StatusIs("queued")' = StatusIs("queued")

\* A step in which enqueue accepts task k.
Accepts(k) ==
  /\ HeldSame
  /\ ~stop
  /\ tasks' = Append(tasks, k) /\ inFlight' = inFlight + 1
  /\ status[k] \in {"new", "enqueue"}
  /\ StatusIs("queued")' = StatusIs("queued") \cup {k}

\* Every step but a worker's taking and finishing a task is one of the two.
LEMMA TaskFrame ==
  ASSUME TypeOK, [Next]_vars
  PROVE  \/ Quiet
         \/ \E k \in Task : Accepts(k)
         \/ \E t \in Thread : WorkerTake(t) \/ WorkerFinish(t)
<1> USE DEF TypeOK, Busy, StatusIs, HeldSame
<1>1. ASSUME NEW k \in Task, Enqueue(k) \/ ResumeEnqueue(k) PROVE Quiet \/ Accepts(k)
  <2>1. CASE Throw(k) /\ status' = [status EXCEPT ![k] = "rejected"]
    BY <1>1, <2>1 DEF Enqueue, ResumeEnqueue, Throw, Quiet
  <2>2. CASE ~stop /\ Put(k) /\ status' = [status EXCEPT ![k] = "queued"]
    BY <1>1, <2>2, PutType DEF Enqueue, ResumeEnqueue, Accepts
  <2>3. CASE status' = [status EXCEPT ![k] = "enqueueSleep"] /\ UNCHANGED <<tasks, inFlight, pc>>
    BY <1>1, <2>3 DEF Enqueue, ResumeEnqueue, Quiet
  <2> QED
    BY <1>1, <2>1, <2>2, <2>3 DEF Enqueue, ResumeEnqueue, ThrowOrPut, Ended
<1>2. ASSUME NEW k \in Task, EnqueueFull(k) PROVE Quiet \/ Accepts(k)
  <2>1. CASE Len(tasks) < 2 * maxQueue
    BY <1>2, <2>1, PutType DEF EnqueueFull, Accepts
  <2>2. CASE ~(Len(tasks) < 2 * maxQueue)
    BY <1>2, <2>2 DEF EnqueueFull, Quiet
  <2> QED
    BY <2>1, <2>2
<1> USE DEF Quiet
<1>3. ASSUME NEW c \in Waiter, WaitUntilEmpty(c) \/ WaitUntilNothingInFlight(c) PROVE Quiet
  BY <1>3 DEF WaitUntilEmpty, WaitUntilNothingInFlight, queueVars
<1>4. ASSUME NEW n \in QueueLimits, SetQueueSizeLimit(n) PROVE Quiet
  BY <1>4 DEF SetQueueSizeLimit, ProducersAwake
<1>5. ASSUME NEW n \in PoolSizes, SetPoolSize(n) PROVE Quiet
  <2>1. \A t \in Thread : pc'[t] = pc[t] \/ (pc[t] \in {"sleep", "none"} /\ pc'[t] = "lock")
    <3>1. CASE stop \/ n <= Len(workers)
      BY <1>5, <3>1 DEF SetPoolSize, Resized, WorkersAwake
    <3>2. CASE ~stop /\ ~(n <= Len(workers))
      <4>1. PICK fresh \in [1..n - Len(workers) -> {t \in Thread : pc[t] = "none"}] :
              pc' = Launched(pc, fresh)
        BY <1>5, <3>2 DEF SetPoolSize
      <4> QED
        BY <4>1 DEF Launched
    <3> QED
      BY <3>1, <3>2
  <2>2. UNCHANGED <<task, queueVars, status>>
    BY <1>5 DEF SetPoolSize
  <2> QED
    BY <2>1, <2>2 DEF queueVars
<1>6. CASE Destroy \/ ResumeDestroy
  BY <1>6 DEF Destroy, ResumeDestroy, WorkersAwake, ProducersAwake, queueVars
<1>7. ASSUME NEW t \in Thread, WorkerSleep(t) \/ WorkerNotify(t) \/ WorkerTell(t) PROVE Quiet
  BY <1>7 DEF WorkerSleep, WorkerNotify, WorkerTell, ProducersAwake, queueVars
<1>8. ASSUME NEW t \in Thread, WorkerExit(t) PROVE Quiet
  BY <1>8 DEF WorkerExit, WorkersAwake, queueVars
<1>9. CASE SpuriousWakeup
  BY <1>9 DEF SpuriousWakeup, queueVars
<1>10. CASE UNCHANGED vars \/ Terminated
  BY <1>10 DEF Terminated, vars, queueVars
<1> QED
  BY <1>1, <1>2, <1>3, <1>4, <1>5, <1>6, <1>7, <1>8, <1>9, <1>10 DEF Next, Worker
----------------------------------------------------------------------------
(***************************************************************************)
(* The parts of the inductive invariant.                                   *)
(***************************************************************************)

\* Initially the vector holds the launched threads, numbered in order.
LEMMA CrewInit == Init => NumbersAreIndices
<1> SUFFICES ASSUME Init PROVE NumbersAreIndices
  OBVIOUS
<1>1. PICK fresh \in [1..poolSize -> Thread] :
        /\ IsInjective(fresh)
        /\ workers = fresh
        /\ number = Numbered([t \in Thread |-> 0], 0, fresh)
        /\ pc = Launched([t \in Thread |-> "none"], fresh)
  BY DEF Init
<1>2. poolSize \in Nat
  BY ConstantsAssumption DEF Init
<1>3. Len(workers) = poolSize /\ DOMAIN fresh = 1..poolSize
  BY <1>1, <1>2, FreshType
<1>4. \A i \in 1..Len(workers) : number[workers[i]] + 1 = i
  <2>1. [t \in Thread |-> 0] \in [Thread -> Nat]
    OBVIOUS
  <2>2. \A i \in 1..poolSize : number[fresh[i]] = 0 + i - 1
    BY <1>1, <1>2, <2>1, NumberedProperties
  <2> QED
    BY <1>1, <1>2, <1>3, <2>2
<1>5. \A t \in Thread : pc[t] # "none" <=> \E i \in 1..Len(workers) : workers[i] = t
  BY <1>1, <1>3 DEF Launched
<1> QED
  BY <1>4, <1>5 DEF NumbersAreIndices

\* Growing appends threads numbered from the old size on, and only the thread
\* at the back leaves.
LEMMA CrewStep == PoolInv /\ [Next]_vars => NumbersAreIndices'
<1> SUFFICES ASSUME PoolInv, [Next]_vars PROVE NumbersAreIndices'
  OBVIOUS
<1>0. /\ TypeOK /\ NumbersAreIndices
      /\ workers \in Seq(Thread) /\ Len(workers) \in Nat
      /\ \A i \in 1..Len(workers) : workers[i] \in Thread
      /\ number \in [Thread -> Nat]
      /\ pc \in [Thread -> {"none", "lock", "sleep", "notify", "run", "tell"}]
  BY DEF PoolInv, TypeOK
<1>1. CASE /\ workers' = workers /\ number' = number
           /\ \A t \in Thread : pc'[t] = "none" <=> pc[t] = "none"
  BY <1>0, <1>1 DEF NumbersAreIndices
<1>2. ASSUME NEW n \in PoolSizes, SetPoolSize(n), ~stop, n > Len(workers)
      PROVE  NumbersAreIndices'
  <2> DEFINE old == Len(workers)
  <2>0. ~(n <= old) /\ n \in Nat /\ n - old \in Nat
    BY <1>0, <1>2, ConstantsAssumption
  <2>1. PICK fresh \in [1..n - old -> {t \in Thread : pc[t] = "none"}] :
          /\ IsInjective(fresh)
          /\ workers' = workers \o fresh
          /\ number' = Numbered(number, old, fresh)
          /\ pc' = Launched(pc, fresh)
    BY <1>2, <2>0 DEF SetPoolSize
  <2>2. PICK m \in Nat : m = n - old
    BY <2>0
  <2>3. /\ fresh \in [1..m -> Thread] /\ fresh \in Seq(Thread)
        /\ Len(fresh) = m /\ DOMAIN fresh = 1..m
    BY <2>1, <2>2, FreshType
  <2>4. /\ Len(workers') = n
        /\ \A i \in 1..n : workers'[i] = IF i <= old THEN workers[i] ELSE fresh[i - old]
    BY <1>0, <2>0, <2>1, <2>2, <2>3, ConcatProperties
  <2>5. /\ \A i \in 1..m : number'[fresh[i]] = old + i - 1
        /\ \A t \in Thread : (\A i \in 1..m : fresh[i] # t) => number'[t] = number[t]
    <3>1. old \in Nat /\ number \in [Thread -> Nat] /\ IsInjective(fresh)
          /\ fresh \in [1..m -> Thread]
      BY <1>0, <2>1, <2>3
    <3> HIDE DEF old
    <3>2. /\ \A i \in 1..m : Numbered(number, old, fresh)[fresh[i]] = old + i - 1
          /\ \A t \in Thread : (\A i \in 1..m : fresh[i] # t)
                                 => Numbered(number, old, fresh)[t] = number[t]
      BY <3>1, NumberedProperties
    <3> QED
      BY <2>1, <3>2
  <2>6. \A i \in 1..old, j \in 1..m : workers[i] # fresh[j]
    BY <1>0, <2>1, <2>2, <2>3 DEF NumbersAreIndices
  <2>7. \A i \in 1..n : number'[workers'[i]] + 1 = i
    <3> TAKE i \in 1..n
    <3>1. CASE i <= old
      BY <1>0, <2>0, <2>2, <2>4, <2>5, <2>6, <3>1 DEF NumbersAreIndices
    <3>2. CASE ~(i <= old)
      BY <2>0, <2>2, <2>4, <2>5, <3>2
    <3> QED
      BY <3>1, <3>2
  <2>8. \A t \in Thread : pc'[t] # "none" <=> \E i \in 1..n : workers'[i] = t
    <3> TAKE t \in Thread
    <3>1. pc'[t] # "none" <=> pc[t] # "none" \/ \E j \in 1..m : fresh[j] = t
      BY <1>0, <2>1, <2>3 DEF Launched
    <3>2. (\E i \in 1..n : workers'[i] = t)
            <=> (\E i \in 1..old : workers[i] = t) \/ (\E j \in 1..m : fresh[j] = t)
      <4>1. \A j \in 1..m : j + old \in 1..n /\ ~(j + old <= old) /\ (j + old) - old = j
        BY <2>0, <2>2
      <4>2. \A i \in 1..n : ~(i <= old) => i - old \in 1..m
        BY <2>0, <2>2
      <4>3. \A i \in 1..old : i \in 1..n /\ i <= old
        BY <2>0, <2>2
      <4>4. ASSUME NEW i \in 1..n, workers'[i] = t
            PROVE  (\E j \in 1..old : workers[j] = t) \/ (\E j \in 1..m : fresh[j] = t)
        BY <2>0, <2>4, <4>2, <4>4
      <4>5. ASSUME NEW i \in 1..old, workers[i] = t PROVE \E j \in 1..n : workers'[j] = t
        BY <2>4, <4>3, <4>5
      <4>6. ASSUME NEW j \in 1..m, fresh[j] = t PROVE \E i \in 1..n : workers'[i] = t
        BY <2>4, <4>1, <4>6
      <4> QED
        BY <4>4, <4>5, <4>6
    <3> QED
      BY <1>0, <3>1, <3>2 DEF NumbersAreIndices
  <2> QED
    BY <2>4, <2>7, <2>8 DEF NumbersAreIndices
<1>3. ASSUME NEW t \in Thread, WorkerExit(t) PROVE NumbersAreIndices'
  <2>1. Len(workers) \in Nat /\ Len(workers) >= 1 /\ workers[Len(workers)] = t
    BY <1>0, <1>3 DEF WorkerExit, AtBack, Last, NumbersAreIndices
  <2>2. workers # <<>>
    BY <1>0, <2>1
  <2>3. /\ Len(workers') = Len(workers) - 1
        /\ \A i \in 1..Len(workers) - 1 : workers'[i] = workers[i]
    BY <1>0, <1>3, <2>2, FrontType DEF WorkerExit
  <2>4. \A i \in 1..Len(workers) - 1 : workers[i] # t
    BY <1>0, <2>1 DEF NumbersAreIndices
  <2>5. number' = number /\ \A u \in Thread : pc'[u] = "none" <=> u = t \/ pc[u] = "none"
    BY <1>0, <1>3 DEF WorkerExit, WorkersAwake
  <2>6. \A i \in 1..Len(workers') : number'[workers'[i]] + 1 = i
    BY <1>0, <2>1, <2>3, <2>5 DEF NumbersAreIndices
  <2>7. \A u \in Thread : pc'[u] # "none" <=> \E i \in 1..Len(workers') : workers'[i] = u
    <3> TAKE u \in Thread
    <3>1. (\E i \in 1..Len(workers') : workers'[i] = u)
            <=> u # t /\ \E i \in 1..Len(workers) : workers[i] = u
      <4>1. \A i \in 1..Len(workers) - 1 : i \in 1..Len(workers)
        BY <2>1
      <4>2. \A i \in 1..Len(workers) : i = Len(workers) \/ i \in 1..Len(workers) - 1
        BY <2>1
      <4> QED
        BY <2>1, <2>3, <2>4, <4>1, <4>2
    <3> QED
      BY <1>0, <2>5, <3>1 DEF NumbersAreIndices
  <2> QED
    BY <2>6, <2>7 DEF NumbersAreIndices
<1> QED
  BY <1>0, <1>1, <1>2, <1>3, CrewFrame

\* Initially no task exists for the pool.
LEMMA TasksInit == Init => InFlightExact /\ RunningAreHeld /\ QueuedAreInQueue /\ ShutdownOrder
<1> SUFFICES ASSUME Init
             PROVE  InFlightExact /\ RunningAreHeld /\ QueuedAreInQueue /\ ShutdownOrder
  OBVIOUS
<1>1. PICK fresh \in [1..poolSize -> Thread] :
        workers = fresh /\ pc = Launched([t \in Thread |-> "none"], fresh)
  BY DEF Init
<1>2. poolSize \in Nat /\ poolSize > 0
  BY ConstantsAssumption DEF Init
<1>3. Busy = {}
  BY <1>1 DEF Launched, Busy
<1>4. tasks = <<>> /\ inFlight = 0 /\ StatusIs("queued") = {} /\ StatusIs("running") = {}
  BY DEF Init, StatusIs
<1>5. InFlightExact
  BY <1>3, <1>4, BusyCount DEF InFlightExact
<1>6. RunningAreHeld /\ QueuedAreInQueue
  BY <1>3, <1>4 DEF RunningAreHeld, QueuedAreInQueue
<1>7. workers # <<>>
  BY <1>1, <1>2, FreshType
<1>8. ~stop /\ dtor = "none"
  BY DEF Init
<1> QED
  BY <1>2, <1>5, <1>6, <1>7, <1>8 DEF ShutdownOrder

\* What taking and finishing a task does to the busy workers and the statuses.
LEMMA TakeEffect ==
  ASSUME TypeOK, QueuedAreInQueue, NEW t \in Thread, WorkerTake(t)
  PROVE  /\ tasks # <<>> /\ Head(tasks) \in StatusIs("queued")
         /\ tasks' = Tail(tasks) /\ inFlight' = inFlight
         /\ t \notin Busy /\ Busy' = Busy \cup {t}
         /\ task'[t] = Head(tasks) /\ \A u \in Busy : task'[u] = task[u]
         /\ StatusIs("running")' = StatusIs("running") \cup {Head(tasks)}
         /\ StatusIs("queued")' = StatusIs("queued") \ {Head(tasks)}
         /\ StatusIs("finished")' = StatusIs("finished")
<1> USE DEF TypeOK
<1>1. tasks # <<>> /\ Head(tasks) = tasks[1] /\ 1 \in 1..Len(tasks)
  BY DEF WorkerTake
<1>2. Head(tasks) \in Task /\ status[Head(tasks)] = "queued"
  BY <1>1 DEF QueuedAreInQueue, StatusIs
<1>3. status' = [status EXCEPT ![Head(tasks)] = "running"]
  BY DEF WorkerTake
<1>4. /\ StatusIs("running")' = StatusIs("running") \cup {Head(tasks)}
      /\ StatusIs("queued")' = StatusIs("queued") \ {Head(tasks)}
      /\ StatusIs("finished")' = StatusIs("finished")
  BY <1>2, <1>3 DEF StatusIs
<1>5. /\ tasks' = Tail(tasks) /\ inFlight' = inFlight
      /\ t \notin Busy /\ Busy' = Busy \cup {t}
      /\ task'[t] = Head(tasks) /\ \A u \in Busy : task'[u] = task[u]
  BY DEF WorkerTake, Busy
<1> QED
  BY <1>1, <1>2, <1>4, <1>5 DEF StatusIs

LEMMA FinishEffect ==
  ASSUME TypeOK, RunningAreHeld, NEW t \in Thread, WorkerFinish(t)
  PROVE  /\ tasks' = tasks /\ inFlight' = inFlight - 1
         /\ t \in Busy /\ Busy' = Busy \ {t}
         /\ task[t] \in StatusIs("running") /\ \A u \in Busy \ {t} : task'[u] = task[u]
         /\ StatusIs("running")' = StatusIs("running") \ {task[t]}
         /\ StatusIs("queued")' = StatusIs("queued")
         /\ StatusIs("finished")' = StatusIs("finished") \cup {task[t]}
<1> USE DEF TypeOK
<1>1. t \in Busy /\ Busy' = Busy \ {t}
  BY DEF WorkerFinish, Busy
<1>2. task[t] \in Task /\ status[task[t]] = "running"
  BY <1>1 DEF RunningAreHeld, StatusIs
<1>3. status' = [status EXCEPT ![task[t]] = "finished"]
  BY DEF WorkerFinish
<1>4. /\ StatusIs("running")' = StatusIs("running") \ {task[t]}
      /\ StatusIs("queued")' = StatusIs("queued")
      /\ StatusIs("finished")' = StatusIs("finished") \cup {task[t]}
  BY <1>2, <1>3 DEF StatusIs
<1>5. /\ tasks' = tasks /\ inFlight' = inFlight - 1
      /\ \A u \in Busy \ {t} : task'[u] = task[u]
  BY DEF WorkerFinish, Busy
<1> QED
  BY <1>1, <1>2, <1>4, <1>5 DEF StatusIs

\* in_flight moves with the queue and the busy workers.
LEMMA CountStep == PoolInv /\ [Next]_vars => InFlightExact'
<1> SUFFICES ASSUME PoolInv, [Next]_vars PROVE InFlightExact'
  OBVIOUS
<1>0. /\ TypeOK /\ QueuedAreInQueue /\ RunningAreHeld
      /\ inFlight = Len(tasks) + Cardinality(Busy)
      /\ tasks \in Seq(Task) /\ Len(tasks) \in Nat
      /\ IsFiniteSet(Busy) /\ Cardinality(Busy) \in Nat
  BY BusyCount DEF PoolInv, TypeOK, InFlightExact
<1>1. CASE Quiet
  BY <1>0, <1>1 DEF Quiet, HeldSame, InFlightExact
<1>2. ASSUME NEW k \in Task, Accepts(k) PROVE InFlightExact'
  <2>1. Len(tasks') = Len(tasks) + 1
    BY <1>0, <1>2 DEF Accepts
  <2> QED
    BY <1>0, <1>2, <2>1 DEF Accepts, HeldSame, InFlightExact
<1>3. ASSUME NEW t \in Thread, WorkerTake(t) PROVE InFlightExact'
  <2>1. tasks # <<>> /\ tasks' = Tail(tasks) /\ inFlight' = inFlight
        /\ t \notin Busy /\ Busy' = Busy \cup {t}
    BY <1>0, <1>3, TakeEffect
  <2>2. Len(tasks') = Len(tasks) - 1
    BY <1>0, <2>1
  <2>3. Cardinality(Busy') = Cardinality(Busy) + 1
    BY <1>0, <2>1, FS_AddElement
  <2> QED
    BY <1>0, <2>1, <2>2, <2>3 DEF InFlightExact
<1>4. ASSUME NEW t \in Thread, WorkerFinish(t) PROVE InFlightExact'
  <2>1. tasks' = tasks /\ inFlight' = inFlight - 1 /\ t \in Busy /\ Busy' = Busy \ {t}
    BY <1>0, <1>4, FinishEffect
  <2>2. Cardinality(Busy') = Cardinality(Busy) - 1
    BY <1>0, <2>1, FS_RemoveElement
  <2> QED
    BY <1>0, <2>1, <2>2 DEF InFlightExact
<1> QED
  BY <1>0, <1>1, <1>2, <1>3, <1>4, TaskFrame

\* Running tasks stay with the worker that took them.
LEMMA HeldStep == PoolInv /\ [Next]_vars => RunningAreHeld'
<1> SUFFICES ASSUME PoolInv, [Next]_vars PROVE RunningAreHeld'
  OBVIOUS
<1>0. TypeOK /\ QueuedAreInQueue /\ RunningAreHeld
  BY DEF PoolInv
<1>1. CASE HeldSame
  BY <1>0, <1>1 DEF HeldSame, RunningAreHeld
<1>2. ASSUME NEW t \in Thread, WorkerTake(t) PROVE RunningAreHeld'
  <2>1. Head(tasks) \notin StatusIs("running")
    BY <1>0, <1>2, TakeEffect DEF StatusIs
  <2>2. /\ t \notin Busy /\ Busy' = Busy \cup {t}
        /\ task'[t] = Head(tasks) /\ \A u \in Busy : task'[u] = task[u]
        /\ StatusIs("running")' = StatusIs("running") \cup {Head(tasks)}
    BY <1>0, <1>2, TakeEffect
  <2> QED
    BY <1>0, <2>1, <2>2 DEF RunningAreHeld
<1>3. ASSUME NEW t \in Thread, WorkerFinish(t) PROVE RunningAreHeld'
  <2>1. /\ t \in Busy /\ Busy' = Busy \ {t}
        /\ \A u \in Busy \ {t} : task'[u] = task[u]
        /\ StatusIs("running")' = StatusIs("running") \ {task[t]}
    BY <1>0, <1>3, FinishEffect
  <2> QED
    BY <1>0, <2>1 DEF RunningAreHeld
<1> QED
  BY <1>0, <1>1, <1>2, <1>3, TaskFrame DEF Quiet, Accepts

\* The queue holds the queued tasks, once each, in every step.
LEMMA QueueStep == PoolInv /\ [Next]_vars => QueuedAreInQueue'
<1> SUFFICES ASSUME PoolInv, [Next]_vars PROVE QueuedAreInQueue'
  OBVIOUS
<1>0. /\ TypeOK /\ QueuedAreInQueue /\ RunningAreHeld
      /\ tasks \in Seq(Task) /\ Len(tasks) \in Nat
  BY DEF PoolInv, TypeOK
<1>1. CASE tasks' = tasks /\ StatusIs("queued")' = StatusIs("queued")
  BY <1>1, <1>0 DEF QueuedAreInQueue
<1>2. ASSUME NEW k \in Task, Accepts(k) PROVE QueuedAreInQueue'
  <2>1. k \notin StatusIs("queued")
    BY <1>2 DEF Accepts, StatusIs
  <2>2. /\ Len(tasks') = Len(tasks) + 1
        /\ \A i \in 1..Len(tasks) : tasks'[i] = tasks[i]
        /\ tasks'[Len(tasks) + 1] = k
        /\ StatusIs("queued")' = StatusIs("queued") \cup {k}
    BY <1>0, <1>2 DEF Accepts
  <2>3. \A i \in 1..Len(tasks) + 1 : i \in 1..Len(tasks) \/ i = Len(tasks) + 1
    BY <1>0
  <2>4. \A i \in 1..Len(tasks') : tasks'[i] \in StatusIs("queued")'
    BY <1>0, <2>2, <2>3 DEF QueuedAreInQueue
  <2>5. \A i, j \in 1..Len(tasks') : tasks'[i] = tasks'[j] => i = j
    BY <1>0, <2>1, <2>2, <2>3 DEF QueuedAreInQueue
  <2>6. \A j \in StatusIs("queued")' : \E i \in 1..Len(tasks') : tasks'[i] = j
    <3> TAKE j \in StatusIs("queued")'
    <3>1. CASE j = k
      BY <1>0, <2>2, <3>1
    <3>2. CASE j \in StatusIs("queued")
      <4>1. PICK i \in 1..Len(tasks) : tasks[i] = j
        BY <1>0, <3>2 DEF QueuedAreInQueue
      <4> QED
        BY <1>0, <2>2, <4>1
    <3> QED
      BY <2>2, <3>1, <3>2
  <2> QED
    BY <2>4, <2>5, <2>6 DEF QueuedAreInQueue
<1>3. ASSUME NEW t \in Thread, WorkerTake(t) PROVE QueuedAreInQueue'
  <2>1. /\ tasks # <<>> /\ tasks' = Tail(tasks)
        /\ StatusIs("queued")' = StatusIs("queued") \ {Head(tasks)}
    BY <1>0, <1>3, TakeEffect
  <2>2. /\ Len(tasks) >= 1 /\ Head(tasks) = tasks[1]
        /\ Len(tasks') = Len(tasks) - 1
        /\ \A i \in 1..Len(tasks) - 1 : tasks'[i] = tasks[i + 1]
    BY <1>0, <2>1
  <2>3. \A i \in 1..Len(tasks) - 1 : i + 1 \in 1..Len(tasks) /\ i + 1 # 1
    BY <1>0
  <2>4. \A i \in 1..Len(tasks') : tasks'[i] \in StatusIs("queued")'
    BY <1>0, <2>1, <2>2, <2>3 DEF QueuedAreInQueue
  <2>5. \A i, j \in 1..Len(tasks') : tasks'[i] = tasks'[j] => i = j
    <3> SUFFICES ASSUME NEW i \in 1..Len(tasks'), NEW j \in 1..Len(tasks'), tasks'[i] = tasks'[j]
                 PROVE  i = j
      OBVIOUS
    <3>1. tasks[i + 1] = tasks[j + 1] /\ i + 1 \in 1..Len(tasks) /\ j + 1 \in 1..Len(tasks)
      BY <2>2, <2>3
    <3>2. i + 1 = j + 1
      BY <1>0, <3>1 DEF QueuedAreInQueue
    <3> QED
      BY <1>0, <2>2, <3>2
  <2>6. \A j \in StatusIs("queued")' : \E i \in 1..Len(tasks') : tasks'[i] = j
    <3> TAKE j \in StatusIs("queued")'
    <3>1. PICK i \in 1..Len(tasks) : tasks[i] = j
      BY <1>0, <2>1 DEF QueuedAreInQueue
    <3>2. i # 1
      BY <2>1, <2>2, <3>1
    <3>3. i - 1 \in 1..Len(tasks') /\ (i - 1) + 1 = i
      BY <1>0, <2>2, <3>2
    <3> QED
      BY <2>2, <3>1, <3>3
  <2> QED
    BY <2>4, <2>5, <2>6 DEF QueuedAreInQueue
<1>4. ASSUME NEW t \in Thread, WorkerFinish(t) PROVE QueuedAreInQueue'
  BY <1>0, <1>1, <1>4, FinishEffect
<1> QED
  BY <1>0, <1>1, <1>2, <1>3, <1>4, TaskFrame DEF Quiet

\* What a step does to the stop signal and the destructor.
LEMMA StopFrame ==
  ASSUME TypeOK, [Next]_vars
  PROVE  \/ /\ stop' = stop /\ (dtor' = dtor \/ (dtor = "sleep" /\ dtor' = "lock"))
            /\ (~stop => poolSize' \in PoolSizes \cup {poolSize})
            /\ (stop => workers' = workers \/ \E t \in Thread : WorkerExit(t))
            /\ (stop => tasks' = tasks \/ tasks # <<>>)
         \/ Destroy
         \/ ResumeDestroy
<1> USE DEF TypeOK
<1> DEFINE Same == /\ stop' = stop /\ (dtor' = dtor \/ (dtor = "sleep" /\ dtor' = "lock"))
                   /\ (~stop => poolSize' \in PoolSizes \cup {poolSize})
                   /\ (stop => workers' = workers \/ \E t \in Thread : WorkerExit(t))
                   /\ (stop => tasks' = tasks \/ tasks # <<>>)
<1>1. ASSUME NEW k \in Task, Enqueue(k) \/ EnqueueFull(k) \/ ResumeEnqueue(k) PROVE Same
  BY <1>1 DEF Enqueue, EnqueueFull, ResumeEnqueue, ThrowOrPut, Throw, crewVars
<1>2. ASSUME NEW c \in Waiter, WaitUntilEmpty(c) \/ WaitUntilNothingInFlight(c) PROVE Same
  BY <1>2 DEF WaitUntilEmpty, WaitUntilNothingInFlight, crewVars, queueVars
<1>3. ASSUME NEW n \in QueueLimits, SetQueueSizeLimit(n) PROVE Same
  BY <1>3 DEF SetQueueSizeLimit, crewVars
<1>4. ASSUME NEW n \in PoolSizes, SetPoolSize(n) PROVE Same
  BY <1>4 DEF SetPoolSize, crewVars, queueVars
<1>5. ASSUME NEW t \in Thread, Worker(t) PROVE Same
  BY <1>5 DEF Worker, WorkerSleep, WorkerExit, WorkerTake, WorkerNotify, WorkerFinish,
              WorkerTell, DestructorAwake, crewVars, queueVars
<1>6. CASE SpuriousWakeup
  BY <1>6 DEF SpuriousWakeup, DestructorAwake, crewVars, queueVars
<1>7. CASE UNCHANGED vars \/ Terminated
  BY <1>7 DEF Terminated, vars, crewVars, queueVars
<1> QED
  BY <1>1, <1>2, <1>3, <1>4, <1>5, <1>6, <1>7 DEF Next

\* A pool that is not stopped keeps a worker: the last one is in excess only
\* if it is not alone.  A stopped pool loses its last worker only when the
\* queue is empty, and accepts nothing afterwards.
LEMMA ShutdownStep == PoolInv /\ [Next]_vars => ShutdownOrder'
<1> SUFFICES ASSUME PoolInv, [Next]_vars PROVE ShutdownOrder'
  OBVIOUS
<1>0. /\ TypeOK /\ NumbersAreIndices /\ ShutdownOrder
      /\ workers \in Seq(Thread) /\ Len(workers) \in Nat
      /\ number \in [Thread -> Nat] /\ poolSize \in Nat
      /\ stop \in BOOLEAN /\ dtor \in {"none", "sleep", "lock", "done"}
  BY DEF PoolInv, TypeOK
<1>1. CASE Destroy
  <2>1. ~stop /\ workers # <<>>
    BY <1>0, <1>1 DEF Destroy, ShutdownOrder
  <2>2. stop' = TRUE /\ workers' = workers /\ dtor' = "sleep"
    BY <1>1, <2>1 DEF Destroy
  <2> QED
    BY <2>1, <2>2 DEF ShutdownOrder
<1>2. CASE ResumeDestroy
  BY <1>0, <1>2 DEF ResumeDestroy, ShutdownOrder, crewVars, queueVars
<1>3. CASE /\ stop' = stop /\ (dtor' = dtor \/ (dtor = "sleep" /\ dtor' = "lock"))
           /\ (~stop => poolSize' \in PoolSizes \cup {poolSize})
           /\ (stop => workers' = workers \/ \E t \in Thread : WorkerExit(t))
           /\ (stop => tasks' = tasks \/ tasks # <<>>)
  <2>1. stop' <=> dtor' # "none"
    BY <1>0, <1>3 DEF ShutdownOrder
  <2>2. ~stop' => poolSize' > 0
    <3>1. \A n \in PoolSizes : n > 0
      BY ConstantsAssumption
    <3>2. ~stop => poolSize > 0
      BY <1>0 DEF ShutdownOrder
    <3> QED
      BY <1>3, <3>1, <3>2
  <2>3. ~stop' => workers' # <<>>
    <3> SUFFICES ASSUME ~stop PROVE workers' # <<>>
      BY <1>3
    <3>1. CASE workers' = workers
      BY <1>0, <3>1 DEF ShutdownOrder
    <3>2. ASSUME NEW n \in PoolSizes, SetPoolSize(n), n > Len(workers) PROVE workers' # <<>>
      <4>1. n - Len(workers) \in Nat /\ n - Len(workers) > 0 /\ ~(n <= Len(workers))
        BY <1>0, <3>2, ConstantsAssumption
      <4>2. PICK fresh \in [1..n - Len(workers) -> {t \in Thread : pc[t] = "none"}] :
              workers' = workers \o fresh
        BY <3>2, <4>1 DEF SetPoolSize
      <4>3. fresh \in Seq(Thread) /\ Len(fresh) = n - Len(workers)
        BY <4>1, FreshType
      <4>4. Len(workers') = Len(workers) + Len(fresh)
        BY <1>0, <4>2, <4>3, ConcatProperties
      <4> QED
        BY <1>0, <4>1, <4>3, <4>4, EmptySeq
    <3>3. ASSUME NEW t \in Thread, WorkerExit(t) PROVE workers' # <<>>
      <4>1. workers # <<>> /\ poolSize > 0
        BY <1>0 DEF ShutdownOrder
      <4>2. t = workers[Len(workers)] /\ poolSize < number[t] + 1
        BY <3>3 DEF WorkerExit, Leaving, Excess, AtBack, Last
      <4>3. Len(workers) >= 1
        BY <1>0, <4>1
      <4>4. number[t] + 1 = Len(workers)
        BY <1>0, <4>2, <4>3 DEF NumbersAreIndices
      <4>5. Len(workers) > 1
        BY <1>0, <4>1, <4>2, <4>4
      <4>6. Len(workers') = Len(workers) - 1
        BY <1>0, <3>3, <4>1, FrontType DEF WorkerExit
      <4> QED
        BY <1>0, <4>5, <4>6, EmptySeq
    <3> QED
      BY <1>0, <3>1, <3>2, <3>3, CrewFrame
  <2>4. stop' /\ workers' = <<>> => tasks' = <<>>
    <3> SUFFICES ASSUME stop, workers' = <<>> PROVE tasks' = <<>>
      BY <1>3
    <3>1. CASE workers' = workers
      BY <1>0, <1>3, <3>1 DEF ShutdownOrder
    <3>2. ASSUME NEW t \in Thread, WorkerExit(t) PROVE tasks' = <<>>
      BY <3>2 DEF WorkerExit, Leaving, queueVars
    <3> QED
      BY <1>3, <3>1, <3>2
  <2>5. dtor' = "done" => workers' = <<>>
    <3> SUFFICES ASSUME dtor' = "done" PROVE workers' = <<>>
      OBVIOUS
    <3>1. dtor = "done" /\ workers = <<>> /\ stop
      BY <1>0, <1>3 DEF ShutdownOrder
    <3>2. ~\E t \in Thread : WorkerExit(t)
      <4>1. Len(workers) = 0
        BY <3>1, EmptySeq
      <4>2. \A t \in Thread : pc[t] = "none"
        BY <1>0, <4>1 DEF NumbersAreIndices
      <4> QED
        BY <4>2 DEF WorkerExit
    <3> QED
      BY <1>3, <3>1, <3>2
  <2> QED
    BY <2>1, <2>2, <2>3, <2>4, <2>5 DEF ShutdownOrder
<1> QED
  BY <1>0, <1>1, <1>2, <1>3, StopFrame
----------------------------------------------------------------------------
(***************************************************************************)
(* Theorems.                                                               *)
(***************************************************************************)

\* The inductive invariant: the crew of workers, the accounting of in_flight,
\* the whereabouts of every task and the order of the shutdown.
THEOREM PoolInvariant == Spec => []PoolInv
<1>1. Init => PoolInv
  BY TypeInit, CrewInit, TasksInit DEF PoolInv
<1>2. PoolInv /\ [Next]_vars => PoolInv'
  BY TypeStep, CrewStep, CountStep, HeldStep, QueueStep, ShutdownStep DEF PoolInv
<1> QED
  BY <1>1, <1>2, PTL DEF Spec

\* Type correctness; in particular in_flight, a size_t, never goes below zero.
THEOREM TypeCorrect == Spec => []TypeOK
<1>1. PoolInv => TypeOK
  BY DEF PoolInv
<1> QED
  BY <1>1, PoolInvariant, PTL

\* A live thread's worker_number is its index in the vector of workers.
THEOREM Numbering == Spec => []NumbersAreIndices
<1>1. PoolInv => NumbersAreIndices
  BY DEF PoolInv
<1> QED
  BY <1>1, PoolInvariant, PTL

\* in_flight is exact.
THEOREM Accounting == Spec => []InFlightExact
<1>1. PoolInv => InFlightExact
  BY DEF PoolInv
<1> QED
  BY <1>1, PoolInvariant, PTL

\* The assertion of ~ThreadPool holds: nothing is in flight, no accepted task
\* is left and no thread is left when the destructor returns.
THEOREM DestructorDrains == Spec => []DrainedWhenDestroyed
<1>1. PoolInv => DrainedWhenDestroyed
  <2> SUFFICES ASSUME PoolInv, dtor = "done"
               PROVE  /\ inFlight = 0
                      /\ StatusIs("queued") \cup StatusIs("running") = {}
                      /\ \A t \in Thread : pc[t] = "none"
    BY DEF DrainedWhenDestroyed
  <2>1. workers = <<>> /\ tasks = <<>>
    BY DEF PoolInv, ShutdownOrder
  <2>2. \A t \in Thread : pc[t] = "none"
    BY <2>1 DEF PoolInv, NumbersAreIndices
  <2>3. Busy = {}
    BY <2>2 DEF Busy
  <2>4. inFlight = 0
    BY <2>1, <2>3, BusyCount DEF PoolInv, InFlightExact
  <2>5. StatusIs("queued") = {} /\ StatusIs("running") = {}
    BY <2>1, <2>3 DEF PoolInv, QueuedAreInQueue, RunningAreHeld
  <2> QED
    BY <2>2, <2>4, <2>5
<1> QED
  BY <1>1, PoolInvariant, PTL

\* The pool implements the abstract task pool: accepted tasks start in the
\* order of acceptance and run once, and the pool is destroyed only when all
\* of them have finished.
THEOREM PoolRefinesTaskPool == Spec => ImplementsTaskPool
<1>1. Init => Abstract!Init
  BY DEF Init, Abstract!Init, StatusIs
<1>2. PoolInv /\ [Next]_vars => [Abstract!Next]_(Abstract!vars)
  <2> SUFFICES ASSUME PoolInv, [Next]_vars PROVE [Abstract!Next]_(Abstract!vars)
    OBVIOUS
  <2>0. /\ TypeOK /\ QueuedAreInQueue /\ RunningAreHeld /\ ShutdownOrder
        /\ tasks \in Seq(Task) /\ DOMAIN tasks = 1..Len(tasks)
        /\ stop \in BOOLEAN
    BY DEF PoolInv, TypeOK
  <2>1. CASE Destroy
    <3>1. ~stop /\ workers # <<>>
      BY <2>0, <2>1 DEF Destroy, ShutdownOrder
    <3>2. stop' = TRUE /\ dtor = "none" /\ dtor' = "sleep" /\ tasks' = tasks
      BY <2>1, <3>1 DEF Destroy, queueVars
    <3>3. StatusIs("running")' = StatusIs("running") /\ StatusIs("finished")' = StatusIs("finished")
      BY <2>0, <2>1 DEF Destroy, ProducersAwake, StatusIs, TypeOK
    <3> QED
      BY <3>1, <3>2, <3>3 DEF Abstract!Next, Abstract!Close
  <2>2. CASE ResumeDestroy
    <3>1. /\ stop /\ stop' = stop /\ dtor = "lock" /\ tasks' = tasks /\ status' = status
          /\ dtor' = IF workers = <<>> THEN "done" ELSE "sleep"
      BY <2>0, <2>2 DEF ResumeDestroy, ShutdownOrder, queueVars
    <3>2. CASE workers = <<>>
      <4>1. tasks = <<>> /\ \A t \in Thread : pc[t] = "none"
        BY <2>0, <3>1, <3>2 DEF PoolInv, ShutdownOrder, NumbersAreIndices
      <4>2. StatusIs("running") = {}
        BY <2>0, <4>1 DEF RunningAreHeld, Busy
      <4> QED
        BY <3>1, <3>2, <4>1, <4>2 DEF Abstract!Next, Abstract!Destroy, StatusIs
    <3>3. CASE workers # <<>>
      BY <3>1, <3>3 DEF Abstract!vars, StatusIs
    <3> QED
      BY <3>2, <3>3
  <2>3. ASSUME stop' = stop, (dtor' = "done") <=> (dtor = "done") PROVE [Abstract!Next]_(Abstract!vars)
    <3>1. CASE Quiet
      BY <2>3, <3>1 DEF Quiet, HeldSame, Abstract!vars
    <3>2. ASSUME NEW k \in Task, Accepts(k) PROVE Abstract!Accept(k)
      <4>1. status[k] \in {"new", "enqueue"} /\ ~stop
        BY <3>2 DEF Accepts
      <4>2. \A i \in DOMAIN tasks : tasks[i] # k
        BY <2>0, <4>1 DEF QueuedAreInQueue, StatusIs
      <4>3. k \notin StatusIs("running") \cup StatusIs("finished")
        BY <4>1 DEF StatusIs
      <4> QED
        BY <2>3, <3>2, <4>1, <4>2, <4>3
           DEF Accepts, HeldSame, Abstract!Accept, Abstract!InQueue
    <3>3. ASSUME NEW t \in Thread, WorkerTake(t)
          PROVE  Head(tasks) \in Task /\ Abstract!Start(Head(tasks))
      <4>1. /\ tasks # <<>> /\ Head(tasks) \in StatusIs("queued")
            /\ tasks' = Tail(tasks)
            /\ StatusIs("running")' = StatusIs("running") \cup {Head(tasks)}
            /\ StatusIs("finished")' = StatusIs("finished")
        BY <2>0, <3>3, TakeEffect
      <4>2. Head(tasks) \in Task /\ Head(tasks) \notin StatusIs("running") \cup StatusIs("finished")
        BY <4>1 DEF StatusIs
      <4> QED
        BY <2>3, <4>1, <4>2 DEF Abstract!Start
    <3>4. ASSUME NEW t \in Thread, WorkerFinish(t)
          PROVE  task[t] \in Task /\ Abstract!Finish(task[t])
      <4>1. /\ tasks' = tasks /\ task[t] \in StatusIs("running")
            /\ StatusIs("running")' = StatusIs("running") \ {task[t]}
            /\ StatusIs("finished")' = StatusIs("finished") \cup {task[t]}
        BY <2>0, <3>4, FinishEffect
      <4> QED
        BY <2>3, <4>1 DEF Abstract!Finish, StatusIs
    <3> QED
      BY <2>0, <3>1, <3>2, <3>3, <3>4, TaskFrame DEF Abstract!Next
  <2> QED
    BY <2>0, <2>1, <2>2, <2>3, StopFrame
<1> QED
  BY <1>1, <1>2, PoolInvariant, PTL DEF Spec, ImplementsTaskPool, Abstract!Spec
=============================================================================
