------------------------------ MODULE Statics -------------------------------
(***************************************************************************)
(* The two structures with a static mutex that the threads of a program    *)
(* contend for: the thread pool manager and the stopwatch.  They share no  *)
(* state; theorems about both are in ThreadPoolMgrProofs.                  *)
(***************************************************************************)
EXTENDS ThreadPoolMgr

CONSTANTS Thread, PoolThread, Name, NameLength, Duration, MaxScopes, NoOne    \* Stopwatch

VARIABLES
  at, scope, timing_mutex, timespans, max_length, recorded, thread_pool,
  handler, interrupted, report, width

timing_vars ==
  <<at, scope, timing_mutex, timespans, max_length, recorded, thread_pool,
    handler, interrupted, report, width>>

ASSUME StopwatchAssumption ==
  /\ NoOne \notin Thread /\ PoolThread \subseteq Thread
  /\ NameLength \in [Name -> Nat] /\ Duration \subseteq Nat

Timing == INSTANCE Stopwatch WITH mutex <- timing_mutex

\* The summaries are those of the measured durations (Stopwatch).
SummaryExact == Timing!SummaryExact

\* The program ends after SIGINT, unless the handler waits for the thread it
\* runs on (Stopwatch).
InterruptEnds == Timing!InterruptEnds
=============================================================================
