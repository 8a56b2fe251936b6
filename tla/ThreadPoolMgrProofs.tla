------------------------ MODULE ThreadPoolMgrProofs ------------------------
(***************************************************************************)
(* Proofs about ThreadPoolMgr, for any finite set of users, any jobs, any  *)
(* sizes and any number of pools, and about Stopwatch, for any threads,    *)
(* names and durations.                                                    *)
(***************************************************************************)
EXTENDS Statics, SequenceTheorems, FiniteSetTheorems, WellFoundedInduction, TLAPS

(***************************************************************************)
(* The pool as the managers see it: it accepts jobs exactly while there is *)
(* a manager, it exists exactly while there is a manager or one user       *)
(* drains it with tp_mutex held, and a destroyed pool is empty.            *)
(***************************************************************************)
Lifetime ==
  /\ closed <=> Managers = {}
  /\ destroyed <=> Managers = {} /\ mutex = NoUser
  /\ mutex # NoUser => Managers = {} /\ where[mutex] = "drain"
  /\ \A u \in User : where[u] = "drain" => mutex = u
  /\ \A u \in Managers : mine[u] = pools
  /\ destroyed => waiting = <<>> /\ running = {}

\* The inductive invariant.
ManagerInv == MgrTypeOK /\ Lifetime /\ SizeAsSet

----------------------------------------------------------------------------
(***************************************************************************)
(* Counting managers.                                                      *)
(***************************************************************************)

LEMMA ManagersFinite == IsFiniteSet(Managers) /\ IsFiniteSet(Managers)'
<1>1. Managers \subseteq User /\ Managers' \subseteq User
  BY DEF Managers
<1> QED
  BY <1>1, ManagerAssumption, FS_Subset

\* A user that enters or leaves the set of managers changes its size by one.
LEMMA ManagerComes ==
  ASSUME NEW u \in User, u \notin Managers, Managers' = Managers \cup {u}
  PROVE  Cardinality(Managers)' = Cardinality(Managers) + 1
BY ManagersFinite, FS_AddElement

LEMMA ManagerGoes ==
  ASSUME NEW u \in Managers, Managers' = Managers \ {u}
  PROVE  Cardinality(Managers)' = Cardinality(Managers) - 1
BY ManagersFinite, FS_RemoveElement

\* The test for zero after the decrement tells whether a manager is left.
LEMMA LastIsLast ==
  ASSUME MgrTypeOK, NEW u \in Managers
  PROVE  Last <=> Managers \ {u} = {}
<1>1. Cardinality(Managers \ {u}) = Cardinality(Managers) - 1 /\ IsFiniteSet(Managers \ {u})
  BY ManagersFinite, FS_RemoveElement, FS_Subset
<1>2. Cardinality(Managers \ {u}) = 0 <=> Managers \ {u} = {}
  BY <1>1, FS_EmptySet
<1> QED
  BY <1>1, <1>2 DEF MgrTypeOK, Last

\* ref_count_ is zero exactly when there is no manager.
LEMMA NoManager == MgrTypeOK => (ref_count = 0 <=> Managers = {})
BY ManagersFinite, FS_EmptySet DEF MgrTypeOK

----------------------------------------------------------------------------
(***************************************************************************)
(* The steps.                                                              *)
(***************************************************************************)

LEMMA InitManager == MgrInit => ManagerInv
<1> SUFFICES ASSUME MgrInit PROVE ManagerInv
  OBVIOUS
<1>1. Managers = {}
  BY DEF MgrInit, Managers
<1>2. Cardinality(Managers) = 0
  BY <1>1, FS_EmptySet
<1>3. MgrTypeOK
  BY <1>2, ManagerAssumption DEF MgrInit, MgrTypeOK
<1>4. Lifetime
  BY <1>1 DEF MgrInit, Lifetime, Managers
<1> QED
  BY <1>3, <1>4 DEF MgrInit, ManagerInv, SizeAsSet

LEMMA ConstructKeeps ==
  ASSUME ManagerInv, NEW u \in User, Construct(u)
  PROVE  ManagerInv'
<1>0. /\ mutex = NoUser /\ where[u] = "idle" /\ mutex' = mutex
      /\ ref_count' = ref_count + 1
      /\ where \in [User -> {"idle", "using", "leave", "drain"}]
      /\ where' = [where EXCEPT ![u] = "using"] /\ mine' = [mine EXCEPT ![u] = pools']
  BY DEF Construct, Counted, ManagerInv, MgrTypeOK
<1>1. u \notin Managers /\ Managers' = Managers \cup {u}
  BY <1>0 DEF Managers
<1>2. Cardinality(Managers)' = Cardinality(Managers) + 1
  BY <1>1, ManagerComes
<1>3. CASE ref_count = 0
  <2>1. /\ waiting' = <<>> /\ running' = {} /\ closed' = FALSE /\ destroyed' = FALSE
        /\ pools < MaxPools /\ pools' = pools + 1 /\ pool_size' = phys_thread_count
        /\ UNCHANGED <<thread_count, phys_thread_count, sets>>
    BY <1>3 DEF Construct, MakePool
  <2>2. Managers = {}
    BY <1>3, NoManager DEF ManagerInv
  <2>3. /\ pools \in 0 .. MaxPools /\ mine \in [User -> 0 .. MaxPools]
        /\ ref_count \in Nat /\ phys_thread_count \in Nat
    BY DEF ManagerInv, MgrTypeOK
  <2>4. pools' \in 0 .. MaxPools
    BY <2>1, <2>3, ManagerAssumption
  <2>5. mine' \in [User -> 0 .. MaxPools]
    BY <1>0, <2>3, <2>4
  <2>6. MgrTypeOK'
    <3>1. ref_count' \in Nat /\ ref_count' = Cardinality(Managers)'
      BY <1>0, <1>2, <2>3 DEF ManagerInv, MgrTypeOK
    <3>2. /\ closed' \in BOOLEAN /\ destroyed' \in BOOLEAN /\ mutex' \in User \cup {NoUser}
          /\ where' \in [User -> {"idle", "using", "leave", "drain"}]
      BY <1>0, <2>1
    <3>3. pool_size' \in Nat /\ thread_count' \in Nat /\ phys_thread_count' \in Nat /\ sets' \in 0 .. MaxSets
      BY <2>1 DEF ManagerInv, MgrTypeOK
    <3> QED
      BY <2>4, <2>5, <3>1, <3>2, <3>3 DEF MgrTypeOK
  <2>7. Lifetime'
    BY <1>0, <1>1, <2>1, <2>2 DEF ManagerInv, MgrTypeOK, Lifetime
  <2> QED
    BY <2>1, <2>6, <2>7 DEF ManagerInv, SizeAsSet
<1>4. CASE ref_count # 0
  <2>1. UNCHANGED <<waiting, running, closed, destroyed, pools, pool_size, thread_count, phys_thread_count, sets>>
    BY <1>4 DEF Construct, poolVars
  <2>2. Managers # {}
    BY <1>4, NoManager DEF ManagerInv
  <2>3. MgrTypeOK'
    BY <1>0, <1>2, <2>1, ManagerAssumption DEF ManagerInv, MgrTypeOK
  <2>4. Lifetime'
    BY <1>0, <1>1, <2>1, <2>2 DEF ManagerInv, MgrTypeOK, Lifetime
  <2> QED
    BY <2>1, <2>3, <2>4 DEF ManagerInv, SizeAsSet
<1> QED
  BY <1>3, <1>4

LEMMA LeaveKeeps ==
  ASSUME ManagerInv, NEW u \in User, Leave(u)
  PROVE  ManagerInv'
<1>0. /\ where[u] = "using" /\ where \in [User -> {"idle", "using", "leave", "drain"}]
      /\ where' = [where EXCEPT ![u] = "leave"]
      /\ UNCHANGED <<waiting, running, closed, destroyed, pools, pool_size, thread_count,
                     phys_thread_count, sets, ref_count, mutex, mine>>
  BY DEF Leave, poolVars, countVars, ManagerInv, MgrTypeOK
<1>1. Managers' = Managers
  BY <1>0 DEF Managers
<1>2. MgrTypeOK'
  BY <1>0, <1>1 DEF ManagerInv, MgrTypeOK
<1>3. Lifetime'
  BY <1>0, <1>1 DEF ManagerInv, Lifetime
<1> QED
  BY <1>0, <1>2, <1>3 DEF ManagerInv, SizeAsSet

LEMMA DestructKeeps ==
  ASSUME ManagerInv, NEW u \in User, Destruct(u)
  PROVE  ManagerInv'
<1>0. /\ mutex = NoUser /\ where[u] = "leave" /\ ref_count' = ref_count - 1
      /\ where \in [User -> {"idle", "using", "leave", "drain"}]
      /\ UNCHANGED <<pools, pool_size, thread_count, phys_thread_count, sets, mine>>
  BY DEF Destruct, countVars, ManagerInv, MgrTypeOK
<1>1. u \in Managers
  BY <1>0 DEF Managers
<1>2. ref_count \in Nat /\ ref_count # 0 /\ ref_count' \in Nat
  BY <1>0, <1>1, NoManager DEF ManagerInv, MgrTypeOK
<1>3. CASE Last
  <2>1. /\ mutex' = u /\ closed' = TRUE /\ UNCHANGED <<waiting, running, destroyed>>
        /\ where' = [where EXCEPT ![u] = "drain"]
    BY <1>3 DEF Destruct, ReleasePool, Pool!Close
  <2>2. Managers' = Managers \ {u}
    BY <1>0, <2>1 DEF Managers
  <2>3. Managers' = {}
    BY <1>1, <1>3, <2>2, LastIsLast DEF ManagerInv
  <2>4. MgrTypeOK'
    BY <1>0, <1>1, <1>2, <2>1, <2>2, ManagerGoes DEF ManagerInv, MgrTypeOK
  <2>5. Lifetime'
    BY <1>0, <1>1, <2>1, <2>3, ManagerAssumption DEF ManagerInv, Lifetime
  <2> QED
    BY <1>0, <2>1, <2>4, <2>5 DEF ManagerInv, SizeAsSet
<1>4. CASE ~Last
  <2>1. /\ UNCHANGED <<waiting, running, closed, destroyed, mutex>>
        /\ where' = [where EXCEPT ![u] = "idle"]
    BY <1>4 DEF Destruct, poolVars
  <2>2. Managers' = Managers \ {u}
    BY <1>0, <2>1 DEF Managers
  <2>3. Managers' # {}
    BY <1>1, <1>4, <2>2, LastIsLast DEF ManagerInv
  <2>4. MgrTypeOK'
    BY <1>0, <1>1, <1>2, <2>1, <2>2, ManagerGoes DEF ManagerInv, MgrTypeOK
  <2>5. Lifetime'
    BY <1>0, <1>1, <2>1, <2>2, <2>3 DEF ManagerInv, Lifetime
  <2> QED
    BY <1>0, <2>1, <2>4, <2>5 DEF ManagerInv, SizeAsSet
<1> QED
  BY <1>3, <1>4

LEMMA DrainedKeeps ==
  ASSUME ManagerInv, NEW u \in User, Drained(u)
  PROVE  ManagerInv'
<1>0. /\ where[u] = "drain" /\ where \in [User -> {"idle", "using", "leave", "drain"}]
      /\ waiting = <<>> /\ running = {} /\ destroyed' = TRUE /\ mutex' = NoUser
      /\ where' = [where EXCEPT ![u] = "idle"]
      /\ UNCHANGED <<waiting, running, closed, pools, pool_size, thread_count,
                     phys_thread_count, sets, ref_count, mine>>
  BY DEF Drained, Pool!Destroy, countVars, ManagerInv, MgrTypeOK
<1>1. Managers' = Managers
  BY <1>0 DEF Managers
<1>2. mutex = u /\ Managers = {}
  BY <1>0, ManagerAssumption DEF ManagerInv, Lifetime
<1>3. MgrTypeOK'
  BY <1>0, <1>1 DEF ManagerInv, MgrTypeOK
<1>4. Lifetime'
  BY <1>0, <1>1, <1>2 DEF ManagerInv, Lifetime
<1> QED
  BY <1>0, <1>3, <1>4 DEF ManagerInv, SizeAsSet

\* Enqueuing and running jobs concern the pool's contents only.
LEMMA JobsKeep ==
  ASSUME ManagerInv,
         (\E u \in User, j \in Job : Enqueue(u, j)) \/ (\E k \in User \X Job : RunJob(k))
  PROVE  ManagerInv'
<1>0. /\ UNCHANGED <<closed, destroyed, pools, pool_size, thread_count, phys_thread_count,
                     sets, ref_count, mutex, where, mine>>
      /\ ~destroyed \/ UNCHANGED <<waiting, running>>
  <2>1. CASE \E u \in User, j \in Job : Enqueue(u, j)
    BY <2>1 DEF Enqueue, Pool!Accept, countVars
  <2>2. CASE \E k \in User \X Job : RunJob(k)
    BY <2>2 DEF RunJob, Pool!Start, Pool!Finish, countVars, ManagerInv, Lifetime
  <2> QED
    BY <2>1, <2>2
<1>1. Managers' = Managers
  BY <1>0 DEF Managers
<1>2. MgrTypeOK'
  BY <1>0, <1>1 DEF ManagerInv, MgrTypeOK
<1>3. Lifetime'
  BY <1>0, <1>1 DEF ManagerInv, Lifetime
<1> QED
  BY <1>0, <1>2, <1>3 DEF ManagerInv, SizeAsSet

LEMMA SetCountKeeps ==
  ASSUME ManagerInv, NEW n \in Counts, SetThreadCount(n) \/ SetPhysThreadCount(n)
  PROVE  ManagerInv'
<1>0. /\ UNCHANGED <<waiting, running, closed, destroyed, pools, ref_count, mutex, where, mine>>
      /\ pool_size' = IF destroyed THEN pool_size ELSE phys_thread_count'
      /\ sets < MaxSets /\ sets' = sets + 1
      /\ phys_thread_count' = Threads(n)
      /\ thread_count' \in {thread_count, Threads(n)}
  BY DEF SetThreadCount, SetPhysThreadCount, Resize, poolVars
<1>1. Threads(n) \in Nat
  BY ManagerAssumption DEF Threads
<1>2. Managers' = Managers
  BY <1>0 DEF Managers
<1>3. MgrTypeOK'
  BY <1>0, <1>1, <1>2, ManagerAssumption DEF ManagerInv, MgrTypeOK
<1>4. Lifetime'
  BY <1>0, <1>2 DEF ManagerInv, Lifetime
<1> QED
  BY <1>0, <1>3, <1>4 DEF ManagerInv, SizeAsSet

----------------------------------------------------------------------------
(***************************************************************************)
(* The inductive invariant holds of every behaviour of the managers.       *)
(***************************************************************************)
THEOREM ManagerInvariant == MgrSpec => []ManagerInv
<1>1. ManagerInv /\ [MgrNext]_mgr_vars => ManagerInv'
  <2> SUFFICES ASSUME ManagerInv, [MgrNext]_mgr_vars PROVE ManagerInv'
    OBVIOUS
  <2>1. CASE UNCHANGED mgr_vars
    BY <2>1 DEF ManagerInv, mgr_vars, poolVars, countVars, MgrTypeOK, Lifetime, SizeAsSet, Managers
  <2>2. ASSUME NEW u \in User, Construct(u) PROVE ManagerInv'
    BY <2>2, ConstructKeeps
  <2>3. ASSUME NEW u \in User, Leave(u) PROVE ManagerInv'
    BY <2>3, LeaveKeeps
  <2>4. ASSUME NEW u \in User, Destruct(u) PROVE ManagerInv'
    BY <2>4, DestructKeeps
  <2>5. ASSUME NEW u \in User, Drained(u) PROVE ManagerInv'
    BY <2>5, DrainedKeeps
  <2>6. CASE (\E u \in User, j \in Job : Enqueue(u, j)) \/ (\E k \in User \X Job : RunJob(k))
    BY <2>6, JobsKeep
  <2>7. ASSUME NEW n \in Counts, SetThreadCount(n) \/ SetPhysThreadCount(n) PROVE ManagerInv'
    BY <2>7, SetCountKeeps
  <2> QED
    BY <2>1, <2>2, <2>3, <2>4, <2>5, <2>6, <2>7 DEF MgrNext
<1> QED
  BY InitManager, <1>1, PTL DEF MgrSpec

(***************************************************************************)
(* Type correctness; ref_count_ counts the managers.                       *)
(***************************************************************************)
THEOREM ManagerTypes == MgrSpec => []MgrTypeOK
BY ManagerInvariant, PTL DEF ManagerInv

(***************************************************************************)
(* thread_pool() of an existing manager never throws and never refers to a *)
(* pool that is shutting down or was replaced (thread_pool_mgr.cpp).       *)
(***************************************************************************)
THEOREM PoolIsShared == MgrSpec => []PoolShared
<1>1. ManagerInv => PoolShared
  BY DEF ManagerInv, Lifetime, PoolShared
<1> QED
  BY <1>1, ManagerInvariant, PTL

(***************************************************************************)
(* Between the last manager's destructor and the next constructor there is *)
(* no job left, whatever way the users left (thread_pool_mgr.cpp).         *)
(***************************************************************************)
THEOREM LastManagerDrains == MgrSpec => []LastWaitsForAll
<1>1. ManagerInv => LastWaitsForAll
  <2> SUFFICES ASSUME ManagerInv, ref_count = 0, mutex = NoUser
               PROVE  Pool!InQueue = {} /\ running = {}
    BY DEF LastWaitsForAll
  <2>1. waiting = <<>> /\ running = {}
    BY NoManager DEF ManagerInv, Lifetime
  <2> QED
    BY <2>1 DEF Pool!InQueue
<1> QED
  BY <1>1, ManagerInvariant, PTL

(***************************************************************************)
(* An existing pool has the number of threads that was set last.           *)
(***************************************************************************)
THEOREM SizeFollows == MgrSpec => []SizeAsSet
BY ManagerInvariant, PTL DEF ManagerInv

----------------------------------------------------------------------------
(***************************************************************************)
(* The stopwatch: the sum of the durations, which Total defines by         *)
(* recursion, is there and grows by what is appended.                      *)
(***************************************************************************)

\* The least element of a set of natural numbers, from the theorem of the
\* library that a well-founded relation has minimal elements.
LEMMA LeastNumber ==
  ASSUME NEW T, T \subseteq Nat, T # {}
  PROVE  \E x \in T : \A y \in T : x <= y
<1> DEFINE Below == {pair \in Nat \X Nat : pair[1] < pair[2]}
<1>1. IsWellFoundedOn(Below, Nat)
  <2>1. Below = OpToRel(<, Nat)
    BY Zenon DEF OpToRel
  <2> QED
    BY ONLY <2>1, NatLessThanWellFounded, Zenon
<1>2. PICK x \in T : \A y \in T : <<y, x>> \notin Below
  <2> HIDE DEF Below
  <2> QED
    BY <1>1, WFMin
<1>3. ASSUME NEW y \in T, y < x
      PROVE  FALSE
  <2>1. <<y, x>> \in Nat \X Nat /\ <<y, x>>[1] < <<y, x>>[2]
    BY <1>3
  <2> QED
    BY <1>2, <2>1
<1> QED
  BY <1>2, <1>3

LEMMA UpTo ==
  ASSUME NEW N \in Nat, NEW S, 0 \in S, \A n \in 1 .. N : n - 1 \in S => n \in S
  PROVE  0 .. N \subseteq S
<1> SUFFICES ASSUME (0 .. N) \ S # {}
             PROVE  FALSE
  OBVIOUS
<1> DEFINE Rest == (0 .. N) \ S
<1>1. PICK x \in Rest : \A y \in Rest : x <= y
  <2>1. Rest \subseteq Nat /\ Rest # {}
    OBVIOUS
  <2> HIDE DEF Rest
  <2> QED
    BY <2>1, LeastNumber
<1>2. x \in 1 .. N /\ x - 1 \in 0 .. N
  BY <1>1
<1> QED
  BY <1>1, <1>2

\* f has the sums of the first 0, 1, ..., m durations.
Sums(f, d, m) ==
  /\ DOMAIN f = 0 .. m
  /\ f[0] = 0 /\ \A k \in 1 .. m : f[k] = f[k - 1] + d[k]

LEMMA SumsExist ==
  ASSUME NEW d \in Seq(Nat)
  PROVE  \E f \in [0 .. Len(d) -> Nat] : Sums(f, d, Len(d))
<1> DEFINE N == Len(d)
           S == {m \in 0 .. N : \E f \in [0 .. m -> Nat] : Sums(f, d, m)}
<1>1. N \in Nat /\ \A k \in 1 .. N : d[k] \in Nat
  OBVIOUS
<1> HIDE DEF N
<1>2. 0 \in S
  <2> DEFINE f == [k \in 0 .. 0 |-> 0]
  <2>1. f \in [0 .. 0 -> Nat] /\ DOMAIN f = 0 .. 0 /\ f[0] = 0
    OBVIOUS
  <2> HIDE DEF f
  <2>2. Sums(f, d, 0)
    BY <2>1 DEF Sums
  <2> QED
    BY <1>1, <2>1, <2>2
<1>3. ASSUME NEW m \in 1 .. N, m - 1 \in S
      PROVE  m \in S
  <2>1. PICK f \in [0 .. m - 1 -> Nat] : Sums(f, d, m - 1)
    BY <1>3
  <2> DEFINE g == [k \in 0 .. m |-> IF k < m THEN f[k] ELSE f[m - 1] + d[m]]
  <2>2. /\ m \in Nat /\ m # 0 /\ m - 1 \in 0 .. m - 1 /\ d[m] \in Nat
        /\ f[m - 1] \in Nat /\ f[m - 1] + d[m] \in Nat
    BY <1>1
  <2>3. \A k \in 0 .. m : k < m => k \in 0 .. m - 1
    BY <2>2
  <2>4. g \in [0 .. m -> Nat]
    BY <2>2, <2>3
  <2>5. Sums(g, d, m)
    <3>1. g[0] = 0
      BY <2>1, <2>2 DEF Sums
    <3>2. ASSUME NEW k \in 1 .. m
          PROVE  g[k] = g[k - 1] + d[k]
      <4>1. k - 1 \in 0 .. m /\ k \in 0 .. m /\ k - 1 < m /\ g[k - 1] = f[k - 1]
        BY <2>2
      <4>2. CASE k < m
        <5>1. k \in 1 .. m - 1 /\ g[k] = f[k]
          BY <2>2, <4>2
        <5> QED
          BY <2>1, <4>1, <5>1 DEF Sums
      <4>3. CASE k = m
        BY <2>2, <4>1, <4>3
      <4> QED
        BY <2>2, <4>2, <4>3
    <3>3. DOMAIN g = 0 .. m
      OBVIOUS
    <3> HIDE DEF g
    <3> QED
      BY <3>1, <3>2, <3>3 DEF Sums
  <2> HIDE DEF g
  <2>6. m \in 0 .. N
    BY <1>1
  <2> QED
    BY <2>4, <2>5, <2>6
<1>4. 0 .. N \subseteq S
  <2> HIDE DEF S
  <2> QED
    BY <1>1, <1>2, <1>3, UpTo
<1>5. N \in S
  <2>1. N \in 0 .. N
    BY <1>1
  <2> HIDE DEF S
  <2> QED
    BY <1>4, <2>1
<1> QED
  BY <1>5 DEF N

Agree(d, e, m) == \A k \in 1 .. m : d[k] = e[k]

\* The sums of two sequences agree as far as the sequences do.
LEMMA SumsAgree ==
  ASSUME NEW d, NEW e, NEW m \in Nat, NEW n \in Nat, NEW f, NEW g, m <= n,
         Sums(f, d, m), Sums(g, e, n), Agree(d, e, m)
  PROVE  f[m] = g[m]
<1> DEFINE S == {k \in 0 .. m : f[k] = g[k]}
<1>1. 0 \in S
  BY DEF Sums
<1>2. ASSUME NEW k \in 1 .. m, k - 1 \in S
      PROVE  k \in S
  <2>1. k \in 1 .. n /\ k \in 0 .. m
    OBVIOUS
  <2>2. f[k] = f[k - 1] + d[k] /\ g[k] = g[k - 1] + e[k] /\ d[k] = e[k]
    BY <2>1 DEF Sums, Agree
  <2> QED
    BY <1>2, <2>1, <2>2
<1>3. 0 .. m \subseteq S
  <2> HIDE DEF S
  <2> QED
    BY <1>1, <1>2, UpTo
<1>4. m \in 0 .. m
  OBVIOUS
<1> QED
  BY <1>3, <1>4

LEMMA TotalIs ==
  ASSUME NEW d \in Seq(Nat), NEW f, Sums(f, d, Len(d))
  PROVE  Timing!Total(d) = f[Len(d)]
<1> DEFINE N == Len(d)
           Rec(h) == h = [k \in 0 .. N |-> IF k = 0 THEN 0 ELSE h[k - 1] + d[k]]
<1>1. N \in Nat
  OBVIOUS
<1>2. Timing!Total(d) = (CHOOSE h : Rec(h))[N]
  BY Zenon DEF Timing!Total
<1> HIDE DEF N
<1>3. PICK g \in [0 .. N -> Nat] : Sums(g, d, N)
  BY SumsExist DEF N
<1>4. Rec(g)
  <2>1. \A k \in 0 .. N : g[k] = IF k = 0 THEN 0 ELSE g[k - 1] + d[k]
    <3> SUFFICES ASSUME NEW k \in 0 .. N PROVE g[k] = IF k = 0 THEN 0 ELSE g[k - 1] + d[k]
      OBVIOUS
    <3>1. CASE k = 0
      BY <1>3, <3>1 DEF Sums
    <3>2. CASE k # 0
      <4>1. k \in 1 .. N
        BY <1>1, <3>2
      <4> QED
        BY <1>3, <3>2, <4>1 DEF Sums
    <3> QED
      BY <3>1, <3>2
  <2> QED
    BY <2>1
<1>5. ASSUME NEW h, Rec(h)
      PROVE  Sums(h, d, N)
  <2>1. DOMAIN h = 0 .. N /\ \A k \in 0 .. N : h[k] = IF k = 0 THEN 0 ELSE h[k - 1] + d[k]
    BY <1>5, Zenon
  <2>2. \A k \in 1 .. N : k \in 0 .. N /\ k # 0
    BY <1>1
  <2>3. 0 \in 0 .. N
    BY <1>1
  <2> QED
    BY <2>1, <2>2, <2>3, Zenon DEF Sums
<1> DEFINE c == CHOOSE h : Rec(h)
<1>6. Rec(c)
  BY <1>4, Zenon
<1> HIDE DEF Rec, c
<1>7. Sums(c, d, N)
  BY <1>5, <1>6
<1>8. c[N] = f[N]
  <2>1. Sums(f, d, N) /\ N <= N
    BY <1>1 DEF N
  <2> QED
    BY <1>1, <1>7, <2>1, SumsAgree DEF Agree
<1> QED
  BY <1>2, <1>8 DEF c, N

LEMMA TotalOf ==
  ASSUME NEW d \in Seq(Nat), NEW x \in Nat
  PROVE  /\ Timing!Total(d) \in Nat
         /\ Timing!Total(<<>>) = 0
         /\ Timing!Total(Append(d, x)) = Timing!Total(d) + x
<1> DEFINE e == Append(d, x)
           N == Len(d)
<1>1. /\ e \in Seq(Nat) /\ Len(e) = N + 1 /\ N \in Nat
      /\ e[N + 1] = x /\ \A k \in 1 .. N : d[k] = e[k]
  BY AppendProperties
<1> HIDE DEF e
<1>2. PICK f : Sums(f, d, N) /\ f[N] \in Nat
  BY <1>1, SumsExist
<1>3. PICK g : Sums(g, e, N + 1)
  BY <1>1, SumsExist
<1>4. Timing!Total(d) = f[N] /\ f[N] \in Nat
  BY <1>1, <1>2, TotalIs
<1>5. Timing!Total(e) = g[N + 1]
  BY <1>1, <1>3, TotalIs
<1> HIDE DEF N
<1>6. f[N] = g[N]
  <2> DEFINE M == N + 1
  <2>1. N \in Nat /\ N <= M /\ M \in Nat
    BY <1>1
  <2>2. Sums(f, d, N) /\ Sums(g, e, M) /\ Agree(d, e, N)
    BY <1>1, <1>2, <1>3 DEF Agree
  <2> HIDE DEF M
  <2> QED
    BY <2>1, <2>2, SumsAgree
<1>7. g[N + 1] = g[N] + x
  <2>1. N + 1 \in 1 .. N + 1 /\ (N + 1) - 1 = N
    BY <1>1
  <2>2. g[N + 1] = g[(N + 1) - 1] + e[N + 1]
    BY <1>3, <2>1 DEF Sums
  <2> QED
    BY <1>1, <2>1, <2>2
<1>8. Timing!Total(<<>>) = 0
  <2>1. <<>> \in Seq(Nat) /\ Len(<<>>) = 0
    OBVIOUS
  <2>2. PICK h \in [0 .. 0 -> Nat] : Sums(h, <<>>, 0)
    BY <2>1, SumsExist
  <2>3. Timing!Total(<<>>) = h[0]
    BY <2>1, <2>2, TotalIs
  <2> QED
    BY <2>2, <2>3 DEF Sums
<1> QED
  BY <1>4, <1>5, <1>6, <1>7, <1>8 DEF e

----------------------------------------------------------------------------
(***************************************************************************)
(* Summaries.  Exact says of a summary and durations what Summarises says, *)
(* and that the least and the greatest of the durations are among them.    *)
(***************************************************************************)
Summary ==
  [event_count : Nat, avg : Nat \X (Nat \ {0}), min : Nat, max : Nat]

Exact(s, d) ==
  /\ d \in Seq(Nat) /\ d # <<>> /\ s \in Summary
  /\ s.event_count = Len(d)
  /\ s.avg[1] * Len(d) = Timing!Total(d) * s.avg[2]
  /\ \E i \in 1 .. Len(d) : d[i] = s.min
  /\ \E i \in 1 .. Len(d) : d[i] = s.max
  /\ \A i \in 1 .. Len(d) : s.min <= d[i] /\ d[i] <= s.max

LEMMA LeastAndGreatest ==
  ASSUME NEW s, NEW d, Exact(s, d)
  PROVE  Timing!Min(Timing!ToSet(d)) = s.min /\ Timing!Max(Timing!ToSet(d)) = s.max
<1> DEFINE T == Timing!ToSet(d)
<1>1. T = {d[i] : i \in 1 .. Len(d)} /\ \A i \in 1 .. Len(d) : d[i] \in Nat
  BY DEF Exact, Timing!ToSet
<1>2. T \subseteq Nat /\ s.min \in T /\ s.max \in T /\ \A x \in T : s.min <= x /\ x <= s.max
  BY <1>1 DEF Exact
<1> HIDE DEF T
<1>3. ASSUME NEW x \in T, \A y \in T : x <= y
      PROVE  x = s.min
  <2>1. x \in Nat /\ s.min \in Nat /\ x <= s.min /\ s.min <= x
    BY <1>2, <1>3
  <2> QED
    BY <2>1
<1>4. ASSUME NEW x \in T, \A y \in T : y <= x
      PROVE  x = s.max
  <2>1. x \in Nat /\ s.max \in Nat /\ x <= s.max /\ s.max <= x
    BY <1>2, <1>4
  <2> QED
    BY <2>1
<1>5. Timing!Min(T) = s.min
  BY <1>2, <1>3 DEF Timing!Min
<1>6. Timing!Max(T) = s.max
  BY <1>2, <1>4 DEF Timing!Max
<1> QED
  BY <1>5, <1>6 DEF T

LEMMA ExactSummarises ==
  ASSUME NEW s, NEW d, Exact(s, d)
  PROVE  Timing!Summarises(s, d)
BY LeastAndGreatest DEF Exact, Timing!Summarises

\* The first duration.
LEMMA FirstExact ==
  ASSUME NEW x \in Nat
  PROVE  Exact(Timing!First(x), Append(<<>>, x))
<1> DEFINE d == Append(<<>>, x)
           s == Timing!First(x)
<1>1. d \in Seq(Nat) /\ Len(d) = 1 /\ d[1] = x
  BY AppendProperties
<1>2. Timing!Total(d) = x
  <2>1. <<>> \in Seq(Nat)
    OBVIOUS
  <2>2. Timing!Total(<<>>) = 0 /\ Timing!Total(Append(<<>>, x)) = Timing!Total(<<>>) + x
    BY <2>1, TotalOf, Zenon
  <2> QED
    BY <2>2
<1>3. /\ s \in Summary /\ s.event_count = 1 /\ s.avg[1] = x /\ s.avg[2] = 1 /\ s.min = x /\ s.max = x
  BY DEF Timing!First, Summary
<1> HIDE DEF d, s
<1>4. d # <<>>
  BY <1>1
<1>5. 1 .. Len(d) = {1}
  BY <1>1
<1> QED
  BY <1>1, <1>2, <1>3, <1>4, <1>5 DEF Exact, d, s

\* a / b is the average of c numbers with sum m: the new average.
LEMMA NewAverageIs ==
  ASSUME NEW a \in Nat, NEW b \in Nat, NEW c \in Nat, NEW m \in Nat, NEW x \in Nat, a * c = m * b
  PROVE  (a * c + x * b) * (c + 1) = (m + x) * (b * (c + 1))
<1>1. a * c + x * b = (m + x) * b
  OBVIOUS
<1>2. ((m + x) * b) * (c + 1) = (m + x) * (b * (c + 1))
  OBVIOUS
<1> QED
  BY <1>1, <1>2

LEMMA ProductsPositive ==
  ASSUME NEW i \in Nat, NEW j \in Nat
  PROVE  /\ i * j \in Nat
         /\ i # 0 => i * (j + 1) \in Nat \ {0}
<1> DEFINE k == i * j
<1>1. k \in Nat
  OBVIOUS
<1>2. i * (j + 1) = k + i
  OBVIOUS
<1> HIDE DEF k
<1>3. i # 0 => k + i \in Nat \ {0}
  BY <1>1
<1>4. i * j = k
  BY DEF k
<1> QED
  BY <1>1, <1>2, <1>3, <1>4

\* One more.
LEMMA UpdatedExact ==
  ASSUME NEW s, NEW d, Exact(s, d), NEW x \in Nat
  PROVE  Exact(Timing!Updated(s, x), Append(d, x))
<1> DEFINE e == Append(d, x)
           u == Timing!Updated(s, x)
           N == Len(d)
<1>1. /\ d \in Seq(Nat) /\ s \in Summary /\ N \in Nat \ {0} /\ s.event_count = N
      /\ s.avg[1] * N = Timing!Total(d) * s.avg[2]
  BY DEF Exact
<1>2. /\ e \in Seq(Nat) /\ Len(e) = N + 1 /\ e[N + 1] = x /\ \A k \in 1 .. N : e[k] = d[k]
  BY <1>1, AppendProperties
<1>3. Timing!Total(e) = Timing!Total(d) + x /\ Timing!Total(d) \in Nat
  BY <1>1, TotalOf
<1>4. /\ s.avg[1] \in Nat /\ s.avg[2] \in Nat \ {0} /\ s.min \in Nat /\ s.max \in Nat
      /\ s.event_count \in Nat
  BY <1>1 DEF Summary
<1> DEFINE p == s.avg[1] * N + x * s.avg[2]
           q == s.avg[2] * (N + 1)
<1>5. /\ u.event_count = N + 1
      /\ u.avg = <<p, q>>
      /\ u.min = IF s.min > x THEN x ELSE s.min
      /\ u.max = IF s.max < x THEN x ELSE s.max
      /\ u = [event_count |-> u.event_count, avg |-> u.avg, min |-> u.min, max |-> u.max]
  <2>1. (N + 1) - 1 = N
    BY <1>1
  <2> QED
    BY <1>1, <2>1 DEF Timing!Updated, Timing!NewAverage
<1>6. p \in Nat /\ q \in Nat \ {0}
  <2> DEFINE y == s.avg[1] * N
             z == x * s.avg[2]
  <2>1. y \in Nat /\ z \in Nat
    BY <1>1, <1>4, ProductsPositive
  <2>2. q \in Nat \ {0}
    BY <1>1, <1>4, ProductsPositive
  <2> HIDE DEF y, z
  <2>3. y + z \in Nat
    BY <2>1
  <2> QED
    BY <2>2, <2>3, Zenon DEF y, z
<1>7. p * (N + 1) = Timing!Total(e) * q
  <2> DEFINE a == s.avg[1]
             b == s.avg[2]
             m == Timing!Total(d)
  <2>1. a \in Nat /\ b \in Nat /\ N \in Nat /\ m \in Nat /\ a * N = m * b
    BY <1>1, <1>3, <1>4
  <2> HIDE DEF a, b, m, N
  <2>2. (a * N + x * b) * (N + 1) = (m + x) * (b * (N + 1))
    BY <2>1, NewAverageIs
  <2> QED
    BY <1>3, <2>2, Zenon DEF a, b, m
<1> HIDE DEF e, u, p, q
<1>8. u \in Summary /\ u.avg[1] = p /\ u.avg[2] = q
  BY <1>1, <1>4, <1>5, <1>6 DEF Summary
<1>9. e # <<>>
  BY <1>1, <1>2
<1>10. /\ \E i \in 1 .. N : d[i] = s.min
       /\ \E i \in 1 .. N : d[i] = s.max
       /\ \A i \in 1 .. N : s.min <= d[i] /\ d[i] <= s.max /\ d[i] \in Nat
  BY DEF Exact
<1> HIDE DEF N
<1>11. N + 1 \in 1 .. N + 1 /\ \A i \in 1 .. N : i \in 1 .. N + 1
  BY <1>1
<1>12. \E i \in 1 .. N + 1 : e[i] = u.min
  <2>1. CASE s.min > x
    BY <1>2, <1>5, <1>11, <2>1
  <2>2. CASE ~(s.min > x)
    BY <1>2, <1>5, <1>10, <1>11, <2>2
  <2> QED
    BY <2>1, <2>2
<1>13. \E i \in 1 .. N + 1 : e[i] = u.max
  <2>1. CASE s.max < x
    BY <1>2, <1>5, <1>11, <2>1
  <2>2. CASE ~(s.max < x)
    BY <1>2, <1>5, <1>10, <1>11, <2>2
  <2> QED
    BY <2>1, <2>2
<1>14. ASSUME NEW i \in 1 .. N + 1
       PROVE  u.min <= e[i] /\ e[i] <= u.max
  <2>1. CASE i = N + 1
    BY <1>2, <1>4, <1>5, <2>1
  <2>2. CASE i # N + 1
    <3>1. i \in 1 .. N
      BY <1>1, <2>2
    <3>2. e[i] = d[i] /\ d[i] \in Nat /\ s.min <= d[i] /\ d[i] <= s.max
      BY <1>2, <1>10, <3>1
    <3> QED
      BY <1>4, <1>5, <3>2
  <2> QED
    BY <2>1, <2>2
<1> QED
  BY <1>2, <1>5, <1>7, <1>8, <1>9, <1>12, <1>13, <1>14 DEF Exact, e, u

\* What is printed of an exact summary.
LEMMA RowIs ==
  ASSUME NEW s, NEW d, Exact(s, d)
  PROVE  Timing!RowOf(Timing!Row(s), d)
<1>1. Timing!Min(Timing!ToSet(d)) = s.min /\ Timing!Max(Timing!ToSet(d)) = s.max
  BY LeastAndGreatest
<1>2. s.event_count = Len(d) /\ Len(d) \in Nat /\ s.avg[1] * Len(d) = Timing!Total(d) * s.avg[2]
  BY DEF Exact
<1>3. CASE s.event_count = 1
  <2>1. Timing!Row(s) = [count |-> 1, durations |-> <<s.avg>>]
    BY <1>3 DEF Timing!Row
  <2>2. Len(<<s.avg>>) = 1 /\ <<s.avg>>[1] = s.avg
    OBVIOUS
  <2> QED
    BY <1>2, <1>3, <2>1, <2>2 DEF Timing!RowOf
<1>4. CASE s.event_count # 1
  <2> DEFINE row == <<s.avg, <<s.min, 1>>, <<s.max, 1>> >>
  <2>1. Timing!Row(s) = [count |-> s.event_count, durations |-> row]
    BY <1>4 DEF Timing!Row
  <2>2. row[1] = s.avg /\ Tail(row) = << <<s.min, 1>>, <<s.max, 1>> >>
    OBVIOUS
  <2> HIDE DEF row
  <2> QED
    BY <1>1, <1>2, <1>4, <2>1, <2>2 DEF Timing!RowOf
<1> QED
  BY <1>3, <1>4

----------------------------------------------------------------------------
(***************************************************************************)
(* The inductive invariant of the stopwatch: who is in add_timespan_event  *)
(* holds the mutex; every summary is exact; every name that is summarised  *)
(* is no longer than max_length, unless the thread that inserted it has    *)
(* still to widen the column; and the report is of durations that were     *)
(* recorded before.                                                        *)
(***************************************************************************)
Places ==
  {"outside", "inside", "calling", "enqueueing", "called", "waiting", "locked", "inserted",
   "summarised", "releasing", "ended"}

LocksTimespans(t) == at[t] \in {"locked", "inserted", "summarised"}

ScopesTyped ==
  /\ at \in [Thread -> Places]
  /\ scope \in [Thread -> [name : Name \cup {NoOne}, duration : Nat]]
  /\ recorded \in [Name -> Seq(Nat)]
  /\ max_length \in Nat
  /\ \A t \in Thread : Timing!InScope(t) => scope[t].name \in Name

MutexOwned == \A t \in Thread : LocksTimespans(t) <=> timing_mutex = t

SummariesKept ==
  /\ DOMAIN timespans = {n \in Name : recorded[n] # <<>>}
  /\ \A n \in DOMAIN timespans : Exact(timespans[n], recorded[n])

NamesFit ==
  \A n \in DOMAIN timespans :
    \/ NameLength[n] <= max_length
    \/ \E t \in Thread : at[t] = "inserted" /\ scope[t].name = n

CopyKept ==
  \A n \in DOMAIN report :
    /\ n \in Name /\ NameLength[n] <= max_length
    /\ \E k \in 1 .. Len(recorded[n]) : Exact(report[n], SubSeq(recorded[n], 1, k))

RowsKept ==
  \A n \in DOMAIN report :
    /\ n \in Name /\ NameLength[n] <= width
    /\ \E k \in 1 .. Len(recorded[n]) : Timing!RowOf(report[n], SubSeq(recorded[n], 1, k))

Printed == {"printing", "exiting", "destroying", "exited"}

ReportKept ==
  /\ handler = "copied" => CopyKept
  /\ handler \in Printed => RowsKept

TimingInv == ScopesTyped /\ MutexOwned /\ SummariesKept /\ NamesFit /\ ReportKept

\* The steps that record a duration.
Records(t) == Timing!Insert(t) \/ Timing!Update(t)

\* The steps in which a thread neither times nor reports anything.
CallSteps(t) ==
  \/ Timing!Call(t) \/ Timing!Enqueue(t) \/ Timing!Called(t) \/ Timing!MakePool(t)
  \/ Timing!ReleasePool(t) \/ Timing!EndWorker(t) \/ Timing!Released(t)

\* The steps of the handler that change nothing but where it is.
EndSteps ==
  \/ \E t \in Thread : Timing!Interrupt(t)
  \/ Timing!sigint_handler \/ Timing!print_timing_report \/ Timing!Exit \/ Timing!DestroyPool

LEMMA CallStepsDo ==
  ASSUME ScopesTyped, NEW t \in Thread, CallSteps(t)
  PROVE  /\ at' \in [Thread -> Places]
         /\ \A u \in Thread : Timing!InScope(u)' => Timing!InScope(u)
         /\ \A u \in Thread : LocksTimespans(u)' <=> LocksTimespans(u)
         /\ \A u \in Thread : at[u] = "inserted" => at'[u] = "inserted"
         /\ UNCHANGED <<scope, timing_mutex, timespans, max_length, recorded, handler, report, width>>
<1> USE DEF ScopesTyped, Places, LocksTimespans, Timing!InScope, Timing!summary_vars, Timing!handler_vars
<1>1. CASE Timing!MakePool(t)
  BY <1>1 DEF Timing!MakePool, Timing!Ended
<1>2. CASE Timing!Call(t) \/ Timing!Enqueue(t) \/ Timing!Called(t)
  BY <1>2 DEF Timing!Call, Timing!Enqueue, Timing!Called
<1>3. CASE Timing!ReleasePool(t) \/ Timing!EndWorker(t) \/ Timing!Released(t)
  BY <1>3 DEF Timing!ReleasePool, Timing!EndWorker, Timing!Released
<1> QED
  BY <1>1, <1>2, <1>3 DEF CallSteps

LEMMA EndStepsDo ==
  ASSUME EndSteps
  PROVE  /\ UNCHANGED <<at, scope, timing_mutex, timespans, max_length, recorded, report, width>>
         /\ handler' # "copied" /\ (handler' \in Printed => handler \in Printed)
BY DEF EndSteps, Timing!Interrupt, Timing!sigint_handler, Timing!print_timing_report, Timing!Exit,
       Timing!DestroyPool, Timing!summary_vars, Printed

LEMMA WiderOf ==
  ASSUME NEW a \in Nat, NEW b \in Nat
  PROVE  /\ Timing!Max({a, b}) \in Nat
         /\ a <= Timing!Max({a, b}) /\ b <= Timing!Max({a, b})
<1>1. CASE a <= b
  <2>1. Timing!Max({a, b}) = b
    BY <1>1 DEF Timing!Max
  <2> QED
    BY <1>1, <2>1
<1>2. CASE b < a
  <2>1. Timing!Max({a, b}) = a
    BY <1>2 DEF Timing!Max
  <2> QED
    BY <1>2, <2>1
<1> QED
  BY <1>1, <1>2

\* The steps, one by one, preserve the types and the ownership of the mutex.
LEMMA ScopesTypedKept ==
  ASSUME ScopesTyped, MutexOwned, [Timing!Next]_(Timing!vars)
  PROVE  ScopesTyped' /\ MutexOwned'
<1> USE StopwatchAssumption DEF Places, Timing!InScope, Timing!summary_vars, Timing!handler_vars
<1>1. ASSUME NEW t \in Thread, NEW name \in Name, Timing!Open(t, name)
      PROVE  ScopesTyped' /\ MutexOwned'
  BY <1>1 DEF ScopesTyped, MutexOwned, LocksTimespans, Timing!Open
<1>2. ASSUME NEW t \in Thread, NEW duration \in Duration, Timing!Close(t, duration)
      PROVE  ScopesTyped' /\ MutexOwned'
  BY <1>2 DEF ScopesTyped, MutexOwned, LocksTimespans, Timing!Close
<1>3. ASSUME NEW t \in Thread, Timing!Lock(t)
      PROVE  ScopesTyped' /\ MutexOwned'
  BY <1>3 DEF ScopesTyped, MutexOwned, LocksTimespans, Timing!Lock
<1>4. ASSUME NEW t \in Thread, Records(t)
      PROVE  ScopesTyped' /\ MutexOwned'
  <2>1. /\ scope[t].name \in Name /\ scope[t].duration \in Nat
        /\ recorded' = [recorded EXCEPT ![scope[t].name] = Append(@, scope[t].duration)]
        /\ at[t] = "locked"
        /\ \/ at' = [at EXCEPT ![t] = "inserted"]
           \/ at' = [at EXCEPT ![t] = "summarised"]
        /\ UNCHANGED <<scope, timing_mutex, max_length>>
    BY <1>4 DEF Records, ScopesTyped, Timing!Insert, Timing!Update, Timing!Summarise
  <2>2. recorded' \in [Name -> Seq(Nat)]
    BY <2>1, AppendProperties DEF ScopesTyped
  <2> QED
    BY <2>1, <2>2 DEF ScopesTyped, MutexOwned, LocksTimespans
<1>5. ASSUME NEW t \in Thread, Timing!Widen(t)
      PROVE  ScopesTyped' /\ MutexOwned'
  <2>1. max_length' \in Nat
    BY <1>5, WiderOf DEF ScopesTyped, Timing!Widen
  <2> QED
    BY <1>5, <2>1 DEF ScopesTyped, MutexOwned, LocksTimespans, Timing!Widen
<1>6. ASSUME NEW t \in Thread, Timing!Unlock(t)
      PROVE  ScopesTyped' /\ MutexOwned'
  BY <1>6 DEF ScopesTyped, MutexOwned, LocksTimespans, Timing!Unlock
<1>7. ASSUME NEW t \in Thread, CallSteps(t)
      PROVE  ScopesTyped' /\ MutexOwned'
  <2> HIDE DEF Timing!InScope
  <2> QED
    BY <1>7, CallStepsDo DEF ScopesTyped, MutexOwned
<1>8. CASE EndSteps
  BY <1>8, EndStepsDo DEF ScopesTyped, MutexOwned, LocksTimespans
<1>9. CASE Timing!get_timespans \/ Timing!generate_timespan_report \/ UNCHANGED Timing!vars
  BY <1>9 DEF ScopesTyped, MutexOwned, LocksTimespans, Timing!get_timespans,
              Timing!generate_timespan_report, Timing!vars
<1> QED
  BY <1>1, <1>2, <1>3, <1>4, <1>5, <1>6, <1>7, <1>8, <1>9
  DEF Records, CallSteps, EndSteps, Timing!Next, Timing!ThreadSteps, Timing!HandlerSteps

\* What a recording step does to the summaries.
LEMMA RecordsDoes ==
  ASSUME ScopesTyped, SummariesKept, NEW t \in Thread, Records(t)
  PROVE  \E n \in Name, x \in Nat :
           /\ n = scope[t].name
           /\ recorded' = [recorded EXCEPT ![n] = Append(@, x)]
           /\ DOMAIN timespans' = DOMAIN timespans \cup {n}
           /\ \A m \in DOMAIN timespans \ {n} : timespans'[m] = timespans[m]
           /\ Exact(timespans'[n], Append(recorded[n], x))
           /\ UNCHANGED <<scope, max_length, handler, report, width>>
<1> DEFINE n == scope[t].name
           x == scope[t].duration
<1>1. /\ n \in Name /\ x \in Nat /\ recorded[n] \in Seq(Nat)
      /\ UNCHANGED <<scope, max_length, handler, report, width>>
  <2>1. Timing!InScope(t)
    BY DEF Records, Timing!Insert, Timing!Update, Timing!InScope
  <2> QED
    BY <2>1 DEF ScopesTyped, Records, Timing!Insert, Timing!Update, Timing!handler_vars
<1>2. PICK s : Timing!Summarise(t, s) /\ Exact(s, Append(recorded[n], x))
  <2>1. CASE Timing!Insert(t)
    <3>1. recorded[n] = <<>>
      BY <1>1, <2>1 DEF Timing!Insert, SummariesKept
    <3>2. Timing!Summarise(t, Timing!First(x))
      BY <2>1 DEF Timing!Insert
    <3>3. Exact(Timing!First(x), Append(recorded[n], x))
      BY <1>1, <3>1, FirstExact
    <3> QED
      BY <3>2, <3>3
  <2>2. CASE Timing!Update(t)
    <3>1. Exact(timespans[n], recorded[n])
      BY <2>2 DEF Timing!Update, SummariesKept
    <3>2. Timing!Summarise(t, Timing!Updated(timespans[n], x))
      BY <2>2 DEF Timing!Update
    <3>3. Exact(Timing!Updated(timespans[n], x), Append(recorded[n], x))
      BY <1>1, <3>1, UpdatedExact
    <3> QED
      BY <3>2, <3>3
  <2> QED
    BY <2>1, <2>2 DEF Records
<1>3. /\ timespans' = [m \in DOMAIN timespans \cup {n} |-> IF m = n THEN s ELSE timespans[m]]
      /\ recorded' = [recorded EXCEPT ![n] = Append(@, x)]
  BY <1>2, Zenon DEF Timing!Summarise
<1> HIDE DEF n, x
<1>4. /\ DOMAIN timespans' = DOMAIN timespans \cup {n}
      /\ \A m \in DOMAIN timespans \ {n} : timespans'[m] = timespans[m]
      /\ timespans'[n] = s
  BY <1>3
<1> QED
  BY <1>1, <1>2, <1>3, <1>4, Zenon DEF n

\* Every step but the recording ones leaves summaries and durations alone.
LEMMA OthersRecordNothing ==
  ASSUME ScopesTyped, [Timing!Next]_(Timing!vars)
  PROVE  \/ \E t \in Thread : Records(t)
         \/ UNCHANGED <<timespans, recorded>>
<1>1. ASSUME NEW t \in Thread, CallSteps(t)
      PROVE  UNCHANGED <<timespans, recorded>>
  BY <1>1, CallStepsDo
<1>2. CASE EndSteps
  BY <1>2, EndStepsDo
<1> QED
  BY <1>1, <1>2
  DEF Records, CallSteps, EndSteps, Timing!Next, Timing!ThreadSteps, Timing!Open, Timing!Close,
      Timing!Lock, Timing!Widen, Timing!Unlock, Timing!HandlerSteps, Timing!get_timespans,
      Timing!generate_timespan_report, Timing!vars, Timing!summary_vars

LEMMA SummariesStayExact ==
  ASSUME ScopesTyped, SummariesKept, [Timing!Next]_(Timing!vars)
  PROVE  SummariesKept'
<1>1. ASSUME NEW t \in Thread, Records(t)
      PROVE  SummariesKept'
  <2>1. PICK n \in Name, x \in Nat :
          /\ recorded' = [recorded EXCEPT ![n] = Append(@, x)]
          /\ DOMAIN timespans' = DOMAIN timespans \cup {n}
          /\ \A m \in DOMAIN timespans \ {n} : timespans'[m] = timespans[m]
          /\ Exact(timespans'[n], Append(recorded[n], x))
    BY <1>1, RecordsDoes
  <2>2. /\ recorded'[n] = Append(recorded[n], x) /\ recorded'[n] # <<>>
        /\ \A m \in Name \ {n} : recorded'[m] = recorded[m]
    <3>1. recorded'[n] = Append(recorded[n], x) /\ \A m \in Name \ {n} : recorded'[m] = recorded[m]
      BY <2>1 DEF ScopesTyped
    <3> QED
      BY <2>1, <3>1 DEF Exact
  <2> QED
    BY <2>1, <2>2 DEF SummariesKept
<1>2. CASE UNCHANGED <<timespans, recorded>>
  BY <1>2 DEF SummariesKept
<1> QED
  BY <1>1, <1>2, OthersRecordNothing

LEMMA NamesStillFit ==
  ASSUME ScopesTyped, SummariesKept, NamesFit, [Timing!Next]_(Timing!vars)
  PROVE  NamesFit'
<1> USE StopwatchAssumption DEF Timing!summary_vars, Timing!InScope
<1>1. ASSUME NEW t \in Thread, Timing!Insert(t)
      PROVE  NamesFit'
  <2>1. /\ DOMAIN timespans' = DOMAIN timespans \cup {scope[t].name}
        /\ at' = [at EXCEPT ![t] = "inserted"] /\ UNCHANGED <<scope, max_length>> /\ at[t] = "locked"
    BY <1>1, Zenon DEF Timing!Insert, Timing!Summarise
  <2> QED
    BY <2>1 DEF NamesFit, ScopesTyped
<1>2. ASSUME NEW t \in Thread, Timing!Update(t)
      PROVE  NamesFit'
  <2>1. /\ DOMAIN timespans' = DOMAIN timespans
        /\ at' = [at EXCEPT ![t] = "summarised"] /\ UNCHANGED <<scope, max_length>> /\ at[t] = "locked"
    BY <1>2 DEF Timing!Update, Timing!Summarise
  <2> QED
    BY <2>1 DEF NamesFit, ScopesTyped
<1>3. ASSUME NEW t \in Thread, Timing!Widen(t)
      PROVE  NamesFit'
  <2> DEFINE len == NameLength[scope[t].name]
  <2>1. /\ max_length' = Timing!Max({max_length, len})
        /\ at' = [at EXCEPT ![t] = "summarised"] /\ UNCHANGED <<scope, timespans>>
        /\ at[t] = "inserted" /\ scope[t].name \in Name
    BY <1>3 DEF Timing!Widen, ScopesTyped
  <2>2. max_length' \in Nat /\ max_length <= max_length' /\ len <= max_length' /\ max_length \in Nat
    BY <2>1, WiderOf DEF ScopesTyped
  <2>3. ASSUME NEW n \in DOMAIN timespans
        PROVE  \/ NameLength[n] <= max_length'
               \/ \E u \in Thread : at'[u] = "inserted" /\ scope'[u].name = n
    <3>1. n \in Name /\ NameLength[n] \in Nat
      BY DEF SummariesKept
    <3>2. CASE NameLength[n] <= max_length
      BY <2>2, <3>1, <3>2
    <3>3. ASSUME NEW u \in Thread, at[u] = "inserted", scope[u].name = n
          PROVE  \/ NameLength[n] <= max_length'
                 \/ \E w \in Thread : at'[w] = "inserted" /\ scope'[w].name = n
      <4>1. CASE u = t
        BY <2>2, <3>3, <4>1
      <4>2. CASE u # t
        BY <2>1, <3>3, <4>2 DEF ScopesTyped
      <4> QED
        BY <4>1, <4>2
    <3> QED
      BY <3>2, <3>3 DEF NamesFit
  <2> QED
    BY <2>1, <2>3 DEF NamesFit
<1>4. CASE \/ \E t \in Thread :
                \/ \E name \in Name : Timing!Open(t, name)
                \/ \E duration \in Duration : Timing!Close(t, duration)
                \/ Timing!Lock(t) \/ Timing!Unlock(t) \/ CallSteps(t)
           \/ EndSteps \/ Timing!get_timespans \/ Timing!generate_timespan_report
           \/ UNCHANGED Timing!vars
  <2> DEFINE InsertedStay ==
        /\ UNCHANGED <<timespans, max_length>>
        /\ \A u \in Thread : at[u] = "inserted" =>
             at'[u] = "inserted" /\ scope'[u].name = scope[u].name
  <2>1. InsertedStay
    <3>1. ASSUME NEW t \in Thread, NEW name \in Name, Timing!Open(t, name)
          PROVE  InsertedStay
      BY <3>1 DEF ScopesTyped, Timing!Open
    <3>2. ASSUME NEW t \in Thread, NEW duration \in Duration, Timing!Close(t, duration)
          PROVE  InsertedStay
      BY <3>2 DEF ScopesTyped, Timing!Close
    <3>3. ASSUME NEW t \in Thread, Timing!Lock(t) \/ Timing!Unlock(t)
          PROVE  InsertedStay
      BY <3>3 DEF ScopesTyped, Timing!Lock, Timing!Unlock
    <3>4. ASSUME NEW t \in Thread, CallSteps(t)
          PROVE  InsertedStay
      BY <3>4, CallStepsDo
    <3>5. CASE EndSteps
      BY <3>5, EndStepsDo
    <3>6. CASE Timing!get_timespans \/ Timing!generate_timespan_report \/ UNCHANGED Timing!vars
      BY <3>6 DEF Timing!get_timespans, Timing!generate_timespan_report, Timing!vars
    <3> QED
      BY <1>4, <3>1, <3>2, <3>3, <3>4, <3>5, <3>6
  <2> QED
    BY <2>1 DEF NamesFit
<1> QED
  BY <1>1, <1>2, <1>3, <1>4
  DEF CallSteps, EndSteps, Timing!Next, Timing!ThreadSteps, Timing!HandlerSteps

\* What was a prefix of the durations of a name stays one.
LEMMA PrefixStays ==
  ASSUME NEW r \in Seq(Nat), NEW x \in Nat, NEW k \in 1 .. Len(r)
  PROVE  /\ k \in 1 .. Len(Append(r, x))
         /\ SubSeq(Append(r, x), 1, k) = SubSeq(r, 1, k)
<1> DEFINE e == Append(r, x)
<1>1. /\ e \in Seq(Nat) /\ Len(e) = Len(r) + 1 /\ \A i \in 1 .. Len(r) : e[i] = r[i]
  BY AppendProperties
<1> HIDE DEF e
<1>2. k \in Nat /\ k <= Len(r) /\ k <= Len(e) /\ k \in 1 .. Len(e) /\ Len(r) \in Nat /\ Len(e) \in Nat
  BY <1>1
<1>3. /\ SubSeq(e, 1, k) = [i \in 1 .. k |-> e[i]]
      /\ SubSeq(r, 1, k) = [i \in 1 .. k |-> r[i]]
  <2>1. \A s \in Seq(Nat) : k <= Len(s) => SubSeq(s, 1, k) = [i \in 1 .. k |-> s[i]]
    BY <1>2
  <2> QED
    BY <1>1, <1>2, <2>1
<1>4. [i \in 1 .. k |-> e[i]] = [i \in 1 .. k |-> r[i]]
  BY <1>1, <1>2
<1> QED
  BY <1>2, <1>3, <1>4 DEF e

LEMMA PrefixesStay ==
  ASSUME ScopesTyped, SummariesKept, NEW t \in Thread, Records(t), NEW m \in Name
  PROVE  \A k \in 1 .. Len(recorded[m]) :
           /\ k \in 1 .. Len(recorded'[m])
           /\ SubSeq(recorded'[m], 1, k) = SubSeq(recorded[m], 1, k)
<1>1. PICK n \in Name, x \in Nat : recorded' = [recorded EXCEPT ![n] = Append(@, x)]
  BY RecordsDoes
<1>2. recorded[m] \in Seq(Nat) /\ recorded'[m] = IF m = n THEN Append(recorded[m], x) ELSE recorded[m]
  BY <1>1 DEF ScopesTyped
<1>3. CASE m = n
  BY <1>2, <1>3, PrefixStays
<1>4. CASE m # n
  BY <1>2, <1>4
<1> QED
  BY <1>3, <1>4

LEMMA WholeIsPrefix ==
  ASSUME NEW r \in Seq(Nat), r # <<>>
  PROVE  Len(r) \in 1 .. Len(r) /\ SubSeq(r, 1, Len(r)) = r
OBVIOUS

LEMMA ReportStaysKept ==
  ASSUME ScopesTyped, MutexOwned, SummariesKept, NamesFit, ReportKept, [Timing!Next]_(Timing!vars)
  PROVE  ReportKept'
<1> USE StopwatchAssumption DEF Printed, Timing!summary_vars, Timing!handler_vars
<1>1. ASSUME NEW t \in Thread, Records(t)
      PROVE  ReportKept'
  <2>1. UNCHANGED <<max_length, handler, report, width>>
    BY <1>1, RecordsDoes
  <2>2. CASE handler = "copied"
    <3>1. ASSUME NEW n \in DOMAIN report
          PROVE  /\ n \in Name /\ NameLength[n] <= max_length
                 /\ \E k \in 1 .. Len(recorded'[n]) : Exact(report[n], SubSeq(recorded'[n], 1, k))
      BY <1>1, <2>2, PrefixesStay DEF ReportKept, CopyKept
    <3> QED
      BY <2>1, <2>2, <3>1 DEF ReportKept, CopyKept
  <2>3. CASE handler \in Printed
    <3>1. ASSUME NEW n \in DOMAIN report
          PROVE  /\ n \in Name /\ NameLength[n] <= width
                 /\ \E k \in 1 .. Len(recorded'[n]) :
                      Timing!RowOf(report[n], SubSeq(recorded'[n], 1, k))
      BY <1>1, <2>3, PrefixesStay DEF ReportKept, RowsKept
    <3> QED
      BY <2>1, <2>3, <3>1 DEF ReportKept, RowsKept
  <2> QED
    BY <2>1, <2>2, <2>3 DEF ReportKept
<1>2. ASSUME NEW t \in Thread, Timing!Widen(t)
      PROVE  ReportKept'
  <2>1. /\ scope[t].name \in Name /\ max_length \in Nat
        /\ max_length' = Timing!Max({max_length, NameLength[scope[t].name]})
        /\ UNCHANGED <<recorded, handler, report, width>>
    BY <1>2 DEF Timing!Widen, Timing!InScope, ScopesTyped
  <2>2. max_length' \in Nat /\ max_length <= max_length'
    BY <2>1, WiderOf
  <2>3. CopyKept => CopyKept'
    BY <2>1, <2>2 DEF CopyKept
  <2> QED
    BY <2>1, <2>3 DEF ReportKept, RowsKept
<1>3. CASE Timing!get_timespans
  <2>1. \A t \in Thread : at[t] # "inserted"
    BY <1>3 DEF Timing!get_timespans, MutexOwned, LocksTimespans
  <2>2. /\ report' = timespans /\ UNCHANGED <<max_length, recorded>>
        /\ handler' = IF DOMAIN timespans # {} THEN "copied" ELSE "printing"
    BY <1>3 DEF Timing!get_timespans
  <2>3. ASSUME NEW n \in DOMAIN timespans
        PROVE  /\ n \in Name /\ NameLength[n] <= max_length
               /\ \E k \in 1 .. Len(recorded[n]) : Exact(timespans[n], SubSeq(recorded[n], 1, k))
    <3>1. n \in Name /\ NameLength[n] <= max_length
      BY <2>1 DEF NamesFit, SummariesKept
    <3>2. recorded[n] \in Seq(Nat) /\ recorded[n] # <<>> /\ Exact(timespans[n], recorded[n])
      BY <3>1 DEF SummariesKept, ScopesTyped
    <3>3. /\ Len(recorded[n]) \in 1 .. Len(recorded[n])
          /\ SubSeq(recorded[n], 1, Len(recorded[n])) = recorded[n]
      BY <3>2, WholeIsPrefix
    <3>4. Exact(timespans[n], SubSeq(recorded[n], 1, Len(recorded[n])))
      BY <3>2, <3>3
    <3> QED
      BY <3>1, <3>3, <3>4
  <2>4. CopyKept'
    BY <2>2, <2>3 DEF CopyKept
  <2>5. CASE DOMAIN timespans = {}
    BY <2>2, <2>5 DEF ReportKept, RowsKept
  <2>6. CASE DOMAIN timespans # {}
    BY <2>2, <2>4, <2>6 DEF ReportKept
  <2> QED
    BY <2>5, <2>6
<1>4. CASE Timing!generate_timespan_report
  <2>1. /\ CopyKept /\ width' = max_length /\ handler' = "printing" /\ UNCHANGED recorded
        /\ report' = [n \in DOMAIN report |-> Timing!Row(report[n])]
    BY <1>4 DEF Timing!generate_timespan_report, ReportKept
  <2>2. ASSUME NEW n \in DOMAIN report
        PROVE  /\ n \in Name /\ NameLength[n] <= max_length
               /\ \E k \in 1 .. Len(recorded[n]) :
                    Timing!RowOf(Timing!Row(report[n]), SubSeq(recorded[n], 1, k))
    BY <2>1, RowIs DEF CopyKept
  <2>3. DOMAIN report' = DOMAIN report /\ \A n \in DOMAIN report : report'[n] = Timing!Row(report[n])
    BY <2>1
  <2>4. RowsKept'
    BY <2>1, <2>2, <2>3 DEF RowsKept
  <2> QED
    BY <2>1, <2>4 DEF ReportKept
<1>5. CASE EndSteps
  BY <1>5, EndStepsDo DEF ReportKept, CopyKept, RowsKept
<1>6. ASSUME NEW t \in Thread, CallSteps(t)
      PROVE  ReportKept'
  BY <1>6, CallStepsDo DEF ReportKept, CopyKept, RowsKept
<1>7. CASE \/ \E t \in Thread :
                \/ \E name \in Name : Timing!Open(t, name)
                \/ \E duration \in Duration : Timing!Close(t, duration)
                \/ Timing!Lock(t) \/ Timing!Unlock(t)
           \/ UNCHANGED Timing!vars
  <2>1. UNCHANGED <<max_length, recorded, handler, report, width>>
    BY <1>7 DEF Timing!Open, Timing!Close, Timing!Lock, Timing!Unlock, Timing!vars
  <2> QED
    BY <2>1 DEF ReportKept, CopyKept, RowsKept
<1> QED
  BY <1>1, <1>2, <1>3, <1>4, <1>5, <1>6, <1>7
  DEF Records, CallSteps, EndSteps, Timing!Next, Timing!ThreadSteps, Timing!HandlerSteps

LEMMA TimingInvHolds == Timing!Spec => []TimingInv
<1>1. Timing!Init => TimingInv
  <2> SUFFICES ASSUME Timing!Init
               PROVE  TimingInv
    OBVIOUS
  <2> USE StopwatchAssumption DEF Timing!Init
  <2>1. ScopesTyped /\ MutexOwned
    BY DEF ScopesTyped, MutexOwned, LocksTimespans, Places, Timing!InScope
  <2>2. DOMAIN timespans = {} /\ DOMAIN report = {}
    OBVIOUS
  <2>3. SummariesKept /\ NamesFit /\ ReportKept
    BY <2>2 DEF SummariesKept, NamesFit, ReportKept, Printed
  <2> QED
    BY <2>1, <2>3 DEF TimingInv
<1>2. TimingInv /\ [Timing!Next]_(Timing!vars) => TimingInv'
  BY ScopesTypedKept, SummariesStayExact, NamesStillFit, ReportStaysKept DEF TimingInv
<1> QED
  BY <1>1, <1>2, PTL DEF Timing!Spec

\* The summaries of the stopwatch are those of the durations that the threads
\* measured, and so are the rows that the handler of SIGINT prints, for any
\* threads, names and durations: every summary is updated under the mutex,
\* which the handler takes before it copies them (common/apsi/util/stopwatch.cpp).
THEOREM SummariesExact == Timing!Spec => []SummaryExact
<1>1. TimingInv => SummaryExact
  <2> SUFFICES ASSUME TimingInv
               PROVE  SummaryExact
    OBVIOUS
  <2>1. \A n \in DOMAIN timespans : Timing!Summarises(timespans[n], recorded[n])
    BY ExactSummarises DEF TimingInv, SummariesKept
  <2>2. ASSUME handler \in Printed
        PROVE  \A n \in DOMAIN report :
                 /\ NameLength[n] <= width
                 /\ \E k \in 1 .. Len(recorded[n]) :
                      Timing!RowOf(report[n], SubSeq(recorded[n], 1, k))
    BY <2>2 DEF TimingInv, ReportKept, RowsKept, Printed
  <2>3. DOMAIN timespans = {n \in Name : recorded[n] # <<>>}
    BY DEF TimingInv, SummariesKept
  <2> QED
    BY <2>1, <2>2, <2>3 DEF SummaryExact, Timing!SummaryExact, Printed
<1> QED
  BY <1>1, TimingInvHolds, PTL

=============================================================================
