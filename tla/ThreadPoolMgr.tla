--------------------------- MODULE ThreadPoolMgr ---------------------------
(***************************************************************************)
(* common/apsi/thread_pool_mgr.cpp: the static thread pool that lives      *)
(* while at least one ThreadPoolMgr does, and its size.                    *)
(*                                                                         *)
(* A user is a function with a local ThreadPoolMgr (RunQuery,              *)
(* request_query, dispatch_insert_or_assign): it constructs the manager,   *)
(* enqueues its jobs, waits for them or leaves on an exception, and        *)
(* destroys the manager.  The pool is used as TaskPool.tla promises.       *)
(* tp_mutex is free between the critical sections; only the destructor of  *)
(* the last manager keeps it, while the pool's destructor drains the pool. *)
(***************************************************************************)
EXTENDS Naturals, Sequences, FiniteSets

CONSTANTS
  User,                 \* functions that use the pool
  Job,                  \* the jobs of a user
  HardwareConcurrency,  \* thread::hardware_concurrency()
  Counts,               \* arguments of SetThreadCount, SetPhysThreadCount
  MaxPools,             \* bound: pools created
  MaxSets,              \* bound: calls that set a thread count
  NoUser

ASSUME ManagerAssumption ==
  /\ IsFiniteSet(User)
  /\ HardwareConcurrency \in Nat /\ Counts \subseteq Nat
  /\ MaxPools \in Nat /\ MaxSets \in Nat /\ NoUser \notin User

VARIABLES
  waiting, running, finished, closed, destroyed,   \* the pool: see TaskPool
  pools,               \* number of pools created so far
  pool_size,           \* the size given to the pool
  ref_count,           \* ref_count_
  mutex,               \* who keeps tp_mutex
  where,                  \* where each user is
  mine,                \* the pool each user constructed its manager for
  thread_count, phys_thread_count,
  sets                 \* number of calls that set a thread count so far

poolVars == <<waiting, running, finished, closed, destroyed>>
countVars == <<thread_count, phys_thread_count, pool_size, sets>>
mgr_vars == <<poolVars, countVars, pools, ref_count, mutex, where, mine>>

Pool == INSTANCE TaskPool WITH Task <- User \X Job

Unfinished(u) == {k \in Pool!InQueue \cup running : k[1] = u}

MgrInit ==
  /\ waiting = <<>> /\ running = {} /\ finished = {} /\ closed = TRUE /\ destroyed = TRUE
  /\ pools = 0 /\ ref_count = 0 /\ mutex = NoUser
  /\ where = [u \in User |-> "idle"] /\ mine = [u \in User |-> 0]
  /\ thread_count = HardwareConcurrency /\ phys_thread_count = HardwareConcurrency
  /\ pool_size = 0 /\ sets = 0

MakePool ==
  /\ waiting' = <<>> /\ running' = {} /\ finished' = {} /\ closed' = FALSE /\ destroyed' = FALSE
  /\ pools' = pools + 1
  /\ pool_size' = phys_thread_count

\* ref_count_++
Counted == ref_count' = ref_count + 1

Construct(u) ==
  /\ mutex = NoUser /\ where[u] = "idle"
  /\ IF ref_count = 0 THEN pools < MaxPools /\ MakePool
     ELSE UNCHANGED <<poolVars, pools, pool_size>>
  /\ Counted
  /\ where' = [where EXCEPT ![u] = "using"]
  /\ mine' = [mine EXCEPT ![u] = pools']
  /\ UNCHANGED <<mutex, thread_count, phys_thread_count, sets>>

\* thread_pool().enqueue(...)
Enqueue(u, j) ==
  /\ where[u] = "using" /\ ~destroyed
  /\ Pool!Accept(<<u, j>>)
  /\ UNCHANGED <<countVars, pools, ref_count, mutex, where, mine>>

\* the jobs are done, or an exception ends the wait for them
Leave(u) ==
  /\ where[u] = "using"
  /\ where' = [where EXCEPT ![u] = "leave"]
  /\ UNCHANGED <<poolVars, countVars, pools, ref_count, mutex, mine>>

\* Mutant: the test precedes the decrement.
LastTestedFirst == ref_count = 0

\* Mutant: every manager destroys the pool.
AlwaysLast == TRUE

\* ref_count_ is 0 after the decrement
Last == ref_count = 1

\* Mutant: the pool is not told to stop.
PoolLeftOpen == UNCHANGED poolVars

\* thread_pool_ = nullptr begins
ReleasePool == Pool!Close

Destruct(u) ==
  /\ mutex = NoUser /\ where[u] = "leave"
  /\ ref_count' = ref_count - 1
  /\ IF Last THEN mutex' = u /\ ReleasePool /\ where' = [where EXCEPT ![u] = "drain"]
     ELSE UNCHANGED <<poolVars, mutex>> /\ where' = [where EXCEPT ![u] = "idle"]
  /\ UNCHANGED <<countVars, pools, mine>>

\* thread_pool_ = nullptr has returned
Drained(u) ==
  /\ where[u] = "drain"
  /\ Pool!Destroy
  /\ mutex' = NoUser
  /\ where' = [where EXCEPT ![u] = "idle"]
  /\ UNCHANGED <<countVars, pools, ref_count, mine>>

\* Mutant: only a pool created later gets the new size.
ResizeLater == UNCHANGED pool_size

\* thread_pool_->set_pool_size(phys_thread_count)
Resize == pool_size' = IF destroyed THEN pool_size ELSE phys_thread_count'

Threads(n) == IF n # 0 THEN n ELSE HardwareConcurrency

SetPhysThreadCount(n) ==
  /\ mutex = NoUser /\ sets < MaxSets
  /\ sets' = sets + 1
  /\ phys_thread_count' = Threads(n)
  /\ Resize
  /\ UNCHANGED <<poolVars, thread_count, pools, ref_count, mutex, where, mine>>

SetThreadCount(n) ==
  /\ mutex = NoUser /\ sets < MaxSets
  /\ sets' = sets + 1
  /\ thread_count' = Threads(n) /\ phys_thread_count' = Threads(n)
  /\ Resize
  /\ UNCHANGED <<poolVars, pools, ref_count, mutex, where, mine>>

RunJob(k) ==
  /\ Pool!Start(k) \/ Pool!Finish(k)
  /\ UNCHANGED <<countVars, pools, ref_count, mutex, where, mine>>

MgrNext ==
  \/ \E u \in User : Construct(u) \/ Leave(u) \/ Destruct(u) \/ Drained(u) \/ \E j \in Job : Enqueue(u, j)
  \/ \E n \in Counts : SetThreadCount(n) \/ SetPhysThreadCount(n)
  \/ \E k \in User \X Job : RunJob(k)

\* users leave, the pool's threads run their jobs, tp_mutex is handed on
Fairness ==
  /\ \A u \in User : WF_mgr_vars(Leave(u)) /\ SF_mgr_vars(Destruct(u)) /\ WF_mgr_vars(Drained(u))
  /\ \A k \in User \X Job : WF_mgr_vars(RunJob(k))

MgrSpec == MgrInit /\ [][MgrNext]_mgr_vars
MgrFairSpec == MgrSpec /\ Fairness
----------------------------------------------------------------------------
(***************************************************************************)
(* Properties.                                                             *)
(***************************************************************************)
Managers == {u \in User : where[u] \in {"using", "leave"}}

(***************************************************************************)
(* Types; ref_count_ is the number of managers that exist.                 *)
(***************************************************************************)
MgrTypeOK ==
  /\ closed \in BOOLEAN /\ destroyed \in BOOLEAN
  /\ pools \in 0 .. MaxPools /\ pool_size \in Nat
  /\ mutex \in User \cup {NoUser}
  /\ where \in [User -> {"idle", "using", "leave", "drain"}]
  /\ mine \in [User -> 0 .. MaxPools]
  /\ thread_count \in Nat /\ phys_thread_count \in Nat /\ sets \in 0 .. MaxSets
  /\ ref_count \in Nat
  /\ ref_count = Cardinality(Managers)

(***************************************************************************)
(* thread_pool_mgr.h: "While an instance of this class exists, a static    *)
(* thread pool will be shared among all instances": the pool that was      *)
(* there when a manager was constructed is there, and accepts jobs, until  *)
(* the manager is destroyed.                                               *)
(***************************************************************************)
PoolShared ==
  \A u \in Managers : ~destroyed /\ ~closed /\ mine[u] = pools

(***************************************************************************)
(* Jobs whose user has gone: only while another user keeps the pool alive. *)
(* The last manager to go, by an exception or not, leaves no job behind.   *)
(***************************************************************************)
LastWaitsForAll ==
  ref_count = 0 /\ mutex = NoUser => Pool!InQueue = {} /\ running = {}

(***************************************************************************)
(* The pool has the number of threads that was set last, whichever call    *)
(* set it and whether or not the pool existed then.                        *)
(***************************************************************************)
SizeAsSet == ~destroyed => pool_size = phys_thread_count

(***************************************************************************)
(* Every user gets rid of its manager, although the last one drains the    *)
(* pool with tp_mutex held.                                                *)
(***************************************************************************)
UsersReturn == \A u \in User : where[u] = "using" ~> where[u] = "idle"
=============================================================================
