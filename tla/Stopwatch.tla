----------------------------- MODULE Stopwatch ------------------------------
(***************************************************************************)
(* The stopwatch of a program (common/apsi/util/stopwatch.cpp): threads    *)
(* time scopes, the durations are summarised by name, and the handler that *)
(* the sender installs for SIGINT (cli/sender/sender.cpp) prints the       *)
(* summaries (cli/common/common_utils.cpp) and exits.                      *)
(*                                                                         *)
(* The handler runs on a thread that it interrupts, which goes no further, *)
(* and waits for every lock it takes: that of the library that writes the  *)
(* log and of the allocator (external, one lock here), that of the         *)
(* stopwatch, and the one of the shared thread pool, which exit destroys   *)
(* with the other static objects (common/apsi/thread_pool_mgr.cpp); the    *)
(* pool's destructor waits until its workers have ended.  Single events    *)
(* are not modelled: add_event has no caller.                              *)
(***************************************************************************)
EXTENDS Integers, SequencesExt, FiniteSetsExt

CONSTANTS
  Thread,
  PoolThread,    \* those of them that are workers of the shared pool
  Name,          \* the names of scopes
  NameLength,    \* [Name -> Nat]
  Duration,      \* in milliseconds
  MaxScopes,     \* a bound on the scopes of a run
  NoOne

VARIABLES
  at,            \* where each thread is
  scope,         \* the scope it has closed, and its duration
  mutex,         \* timespan_events_mtx_: its owner, or NoOne
  timespans,     \* timespan_events_: a function from some names
  max_length,    \* max_timespan_event_name_length_
  recorded,      \* every duration that was summarised, by name
  thread_pool,   \* thread_pool_ points to a pool
  handler,       \* where the handler is
  interrupted,   \* the thread that the handler runs on, or NoOne
  report,        \* what the handler prints
  width

summary_vars == <<mutex, timespans, max_length, recorded>>
handler_vars == <<handler, interrupted, report, width>>
vars == <<at, scope, summary_vars, thread_pool, handler_vars>>

Runs(t) == handler # "exited" /\ interrupted # t

Init ==
  /\ at = [t \in Thread |-> IF t \in PoolThread THEN "ended" ELSE "outside"]
  /\ scope = [t \in Thread |-> [name |-> NoOne, duration |-> 0]]
  /\ mutex = NoOne
  /\ timespans = <<>>
  /\ max_length = 0
  /\ recorded = [n \in Name |-> <<>>]
  /\ thread_pool = FALSE
  /\ handler = "off" /\ interrupted = NoOne
  /\ report = <<>> /\ width = 0

(***************************************************************************)
(* A StopwatchScope, and the add_timespan_event of its destructor.  avg is *)
(* a fraction: avg[1] / avg[2].                                            *)
(***************************************************************************)
InScope(t) == at[t] \notin {"outside", "releasing", "ended"}

Open(t, name) ==
  /\ Runs(t) /\ at[t] = "outside"
  /\ SumSet({Len(recorded[n]) : n \in Name}) + Cardinality({u \in Thread : InScope(u)}) < MaxScopes
  /\ at' = [at EXCEPT ![t] = "inside"]
  /\ scope' = [scope EXCEPT ![t].name = name]
  /\ UNCHANGED <<summary_vars, thread_pool, handler_vars>>

Close(t, duration) ==
  /\ Runs(t) /\ at[t] \in {"inside", "called"}
  /\ at' = [at EXCEPT ![t] = "waiting"]
  /\ scope' = [scope EXCEPT ![t].duration = duration]
  /\ UNCHANGED <<summary_vars, thread_pool, handler_vars>>

Lock(t) ==
  /\ Runs(t) /\ at[t] = "waiting"
  /\ mutex = NoOne
  /\ mutex' = t
  /\ at' = [at EXCEPT ![t] = "locked"]
  /\ UNCHANGED <<scope, timespans, max_length, recorded, thread_pool, handler_vars>>

First(duration) ==
  [event_count |-> 1, avg |-> <<duration, 1>>, min |-> duration, max |-> duration]

\* Mutant: the old average is weighted with the new count.
AverageOverNewCount(avg, count, duration) ==
  <<avg[1] * count + duration * avg[2], avg[2] * count>>

NewAverage(avg, count, duration) ==
  <<avg[1] * (count - 1) + duration * avg[2], avg[2] * count>>

Updated(summary, duration) ==
  LET count == summary.event_count + 1
  IN [event_count |-> count,
      avg |-> NewAverage(summary.avg, count, duration),
      min |-> IF summary.min > duration THEN duration ELSE summary.min,
      max |-> IF summary.max < duration THEN duration ELSE summary.max]

Summarise(t, summary) ==
  LET name == scope[t].name
  IN /\ timespans' = [n \in DOMAIN timespans \cup {name} |->
                        IF n = name THEN summary ELSE timespans[n]]
     /\ recorded' = [recorded EXCEPT ![name] = Append(@, scope[t].duration)]

Insert(t) ==
  /\ Runs(t) /\ at[t] = "locked"
  /\ scope[t].name \notin DOMAIN timespans
  /\ Summarise(t, First(scope[t].duration))
  /\ at' = [at EXCEPT ![t] = "inserted"]
  /\ UNCHANGED <<scope, mutex, max_length, thread_pool, handler_vars>>

Widen(t) ==
  /\ Runs(t) /\ at[t] = "inserted"
  /\ max_length' = Max({max_length, NameLength[scope[t].name]})
  /\ at' = [at EXCEPT ![t] = "summarised"]
  /\ UNCHANGED <<scope, mutex, timespans, recorded, thread_pool, handler_vars>>

Update(t) ==
  /\ Runs(t) /\ at[t] = "locked"
  /\ scope[t].name \in DOMAIN timespans
  /\ Summarise(t, Updated(timespans[scope[t].name], scope[t].duration))
  /\ at' = [at EXCEPT ![t] = "summarised"]
  /\ UNCHANGED <<scope, mutex, max_length, thread_pool, handler_vars>>

\* Mutant: the call returns without unlocking.
Leave(t) ==
  /\ Runs(t) /\ at[t] = "summarised"
  /\ at' = [at EXCEPT ![t] = "outside"]
  /\ scope' = [scope EXCEPT ![t] = [name |-> NoOne, duration |-> 0]]
  /\ UNCHANGED <<summary_vars, thread_pool, handler_vars>>

Unlock(t) ==
  /\ Runs(t) /\ at[t] = "summarised"
  /\ mutex' = NoOne
  /\ at' = [at EXCEPT ![t] = "outside"]
  /\ scope' = [scope EXCEPT ![t] = [name |-> NoOne, duration |-> 0]]
  /\ UNCHANGED <<timespans, max_length, recorded, thread_pool, handler_vars>>

(***************************************************************************)
(* What a thread does in a scope that the handler may have to wait for: a  *)
(* call that takes the library's lock, once in a scope, or an enqueue,     *)
(* which a task of the pool never makes.                                   *)
(***************************************************************************)
Call(t) ==
  /\ Runs(t) /\ at[t] = "inside"
  /\ \A u \in Thread : at[u] # "calling"
  /\ at' = [at EXCEPT ![t] = "calling"]
  /\ UNCHANGED <<scope, summary_vars, thread_pool, handler_vars>>

Enqueue(t) ==
  /\ Runs(t) /\ at[t] = "inside"
  /\ t \notin PoolThread /\ thread_pool
  /\ \A u \in Thread : at[u] # "enqueueing"
  /\ at' = [at EXCEPT ![t] = "enqueueing"]
  /\ UNCHANGED <<scope, summary_vars, thread_pool, handler_vars>>

Called(t) ==
  /\ Runs(t) /\ at[t] \in {"calling", "enqueueing"}
  /\ at' = [at EXCEPT ![t] = "called"]
  /\ UNCHANGED <<scope, summary_vars, thread_pool, handler_vars>>

(***************************************************************************)
(* The shared pool, as far as exit meets it: the ThreadPoolMgr of a query  *)
(* or of an insertion makes it, and empties thread_pool_ before it waits   *)
(* for the workers (ThreadPoolMgr.tla has the sharing, ThreadPool.tla the  *)
(* pool).  A worker may still find tasks before it ends.                   *)
(***************************************************************************)
Ended(w) == at[w] = "ended"

MakePool(t) ==
  /\ Runs(t) /\ at[t] = "outside" /\ t \notin PoolThread
  /\ ~thread_pool /\ \A w \in PoolThread : Ended(w)
  /\ thread_pool' = TRUE
  /\ at' = [u \in Thread |-> IF u \in PoolThread THEN "outside" ELSE at[u]]
  /\ UNCHANGED <<scope, summary_vars, handler_vars>>

ReleasePool(t) ==
  /\ Runs(t) /\ at[t] = "outside" /\ t \notin PoolThread
  /\ thread_pool
  /\ thread_pool' = FALSE
  /\ at' = [at EXCEPT ![t] = "releasing"]
  /\ UNCHANGED <<scope, summary_vars, handler_vars>>

EndWorker(w) ==
  /\ Runs(w) /\ at[w] = "outside" /\ w \in PoolThread
  /\ ~thread_pool \/ handler = "destroying"
  /\ at' = [at EXCEPT ![w] = "ended"]
  /\ UNCHANGED <<scope, summary_vars, thread_pool, handler_vars>>

Released(t) ==
  /\ Runs(t) /\ at[t] = "releasing"
  /\ \A w \in PoolThread : Ended(w)
  /\ at' = [at EXCEPT ![t] = "outside"]
  /\ UNCHANGED <<scope, summary_vars, thread_pool, handler_vars>>

(***************************************************************************)
(* sigint_handler, on one of the threads, and print_timing_report.  A name *)
(* that was timed once has one duration in its row, of others the row has  *)
(* an average, a minimum and a maximum.                                    *)
(***************************************************************************)
Interrupt(t) ==
  /\ handler = "off" /\ ~Ended(t)
  /\ handler' = "interrupted"
  /\ interrupted' = t
  /\ UNCHANGED <<at, scope, summary_vars, thread_pool, report, width>>

LibraryFree == \A t \in Thread : at[t] # "calling"

sigint_handler ==
  /\ handler = "interrupted" /\ LibraryFree
  /\ handler' = "waiting"
  /\ UNCHANGED <<at, scope, summary_vars, thread_pool, interrupted, report, width>>

get_timespans ==
  /\ handler = "waiting"
  /\ mutex = NoOne
  /\ report' = timespans
  /\ handler' = IF DOMAIN timespans # {} THEN "copied" ELSE "printing"
  /\ UNCHANGED <<at, scope, summary_vars, thread_pool, interrupted, width>>

Row(summary) ==
  IF summary.event_count = 1 THEN [count |-> 1, durations |-> <<summary.avg>>]
  ELSE [count |-> summary.event_count,
        durations |-> <<summary.avg, <<summary.min, 1>>, <<summary.max, 1>> >>]

\* The length is read without the lock.
generate_timespan_report ==
  /\ handler = "copied"
  /\ width' = max_length
  /\ report' = [n \in DOMAIN report |-> Row(report[n])]
  /\ handler' = "printing"
  /\ UNCHANGED <<at, scope, summary_vars, thread_pool, interrupted>>

print_timing_report ==
  /\ handler = "printing" /\ LibraryFree
  /\ handler' = "exiting"
  /\ UNCHANGED <<at, scope, summary_vars, thread_pool, interrupted, report, width>>

(***************************************************************************)
(* exit(0): the static destructors, of which only the pool's waits.        *)
(***************************************************************************)
Exit ==
  /\ handler = "exiting"
  /\ \/ ~thread_pool /\ handler' = "exited"
     \/ thread_pool /\ (\A t \in Thread : at[t] # "enqueueing") /\ handler' = "destroying"
  /\ UNCHANGED <<at, scope, summary_vars, thread_pool, interrupted, report, width>>

DestroyPool ==
  /\ handler = "destroying"
  /\ \A w \in PoolThread : Ended(w)
  /\ handler' = "exited"
  /\ UNCHANGED <<at, scope, summary_vars, thread_pool, interrupted, report, width>>

ThreadSteps(t) ==
  Lock(t) \/ Insert(t) \/ Widen(t) \/ Update(t) \/ Unlock(t) \/ Called(t) \/ EndWorker(t) \/ Released(t)
HandlerSteps ==
  \/ sigint_handler \/ get_timespans \/ generate_timespan_report
  \/ print_timing_report \/ Exit \/ DestroyPool

Next ==
  \/ \E t \in Thread :
       \/ \E name \in Name : Open(t, name)
       \/ \E duration \in Duration : Close(t, duration)
       \/ ThreadSteps(t)
       \/ Call(t) \/ Enqueue(t) \/ MakePool(t) \/ ReleasePool(t)
       \/ Interrupt(t)
  \/ HandlerSteps

(***************************************************************************)
(* A thread that runs finishes its call, a task of the pool ends, and the  *)
(* handler gets a lock when those that want it are bounded in number.      *)
(***************************************************************************)
Fairness ==
  /\ \A t \in Thread : WF_vars(ThreadSteps(t))
  /\ \A w \in PoolThread : WF_vars(\E duration \in Duration : Close(w, duration))
  /\ WF_vars(HandlerSteps)

Spec == Init /\ [][Next]_vars
FairSpec == Spec /\ Fairness

(***************************************************************************)
(* What is summarised is what was measured: for each name the count, the   *)
(* average, the least and the greatest of its durations, whatever threads  *)
(* timed it; the rows that the handler prints are those of the durations   *)
(* up to some moment, and every name fits the column it is printed in.     *)
(***************************************************************************)
Total(durations) ==
  LET sum[k \in 0 .. Len(durations)] == IF k = 0 THEN 0 ELSE sum[k - 1] + durations[k]
  IN sum[Len(durations)]

Summarises(s, durations) ==
  LET d == ToSet(durations)
  IN /\ s.event_count = Len(durations)
     /\ s.avg[1] * Len(durations) = Total(durations) * s.avg[2]
     /\ s.min = Min(d) /\ s.max = Max(d)

RowOf(row, durations) ==
  LET d == ToSet(durations)
      avg == row.durations[1]
  IN /\ row.count = Len(durations)
     /\ avg[1] * Len(durations) = Total(durations) * avg[2]
     /\ IF Len(durations) = 1 THEN Len(row.durations) = 1
        ELSE Tail(row.durations) = << <<Min(d), 1>>, <<Max(d), 1>> >>

SummaryExact ==
  /\ DOMAIN timespans = {n \in Name : recorded[n] # <<>>}
  /\ \A n \in DOMAIN timespans : Summarises(timespans[n], recorded[n])
  /\ handler \in {"printing", "exiting", "destroying", "exited"} =>
       \A n \in DOMAIN report :
         /\ NameLength[n] <= width
         /\ \E k \in 1 .. Len(recorded[n]) : RowOf(report[n], SubSeq(recorded[n], 1, k))

(***************************************************************************)
(* The program ends after SIGINT, unless the handler has to wait for the   *)
(* thread it runs on: because that thread has the stopwatch's mutex, is in *)
(* a call that keeps the library's lock, or, while there is a pool for     *)
(* exit to destroy, is one of its workers or has the lock of its queue.    *)
(***************************************************************************)
WaitsForItself ==
  \/ mutex = interrupted \/ at[interrupted] = "calling"
  \/ thread_pool /\ (interrupted \in PoolThread \/ at[interrupted] = "enqueueing")

InterruptEnds == (handler = "interrupted" /\ ~WaitsForItself) ~> (handler = "exited")
=============================================================================
