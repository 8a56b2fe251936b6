------------------------------ MODULE TaskPool ------------------------------
(***************************************************************************)
(* What a thread pool promises its users, without threads, locks or        *)
(* condition variables: tasks that are accepted start in the order in      *)
(* which they were accepted, each of them runs exactly once, and the pool  *)
(* is gone only when all of them have finished.  ThreadPool.tla, the model *)
(* of common/apsi/util/thread_pool.h, implements this specification.       *)
(***************************************************************************)
EXTENDS Naturals, Sequences

CONSTANT Task

VARIABLES
  waiting,    \* sequence of accepted tasks that have not started
  running,    \* set of tasks that have started and not finished
  finished,   \* set of finished tasks
  closed,     \* no further task is accepted
  destroyed   \* the pool is gone

vars == <<waiting, running, finished, closed, destroyed>>

InQueue == {waiting[i] : i \in DOMAIN waiting}

Init ==
  /\ waiting = <<>>
  /\ running = {}
  /\ finished = {}
  /\ closed = FALSE
  /\ destroyed = FALSE

Accept(k) ==
  /\ ~closed
  /\ k \notin InQueue \cup running \cup finished
  /\ waiting' = Append(waiting, k)
  /\ UNCHANGED <<running, finished, closed, destroyed>>

Start(k) ==
  /\ waiting # <<>>
  /\ k = Head(waiting)
  /\ k \notin running \cup finished
  /\ waiting' = Tail(waiting)
  /\ running' = running \cup {k}
  /\ UNCHANGED <<finished, closed, destroyed>>

Finish(k) ==
  /\ k \in running
  /\ running' = running \ {k}
  /\ finished' = finished \cup {k}
  /\ UNCHANGED <<waiting, closed, destroyed>>

Close ==
  /\ ~closed
  /\ closed' = TRUE
  /\ UNCHANGED <<waiting, running, finished, destroyed>>

Destroy ==
  /\ closed
  /\ ~destroyed
  /\ waiting = <<>>
  /\ running = {}
  /\ destroyed' = TRUE
  /\ UNCHANGED <<waiting, running, finished, closed>>

Next ==
  \/ \E k \in Task : Accept(k) \/ Start(k) \/ Finish(k)
  \/ Close
  \/ Destroy

Spec == Init /\ [][Next]_vars
=============================================================================
