--------------------------- MODULE QueryProtocol ---------------------------
(***************************************************************************)
(* A receiver and a sender over one ZeroMQ connection.                     *)
(*                                                                         *)
(* Receiver: Receiver::RequestParams and Receiver::request_query of        *)
(* receiver/apsi/receiver.cpp, with the result workers that share the      *)
(* atomic package_count and the vector mrs on the thread pool.             *)
(* Sender: ZMQSenderDispatcher::run of sender/apsi/zmq/sender_dispatcher   *)
(* and Sender::RunQuery of sender/apsi/sender.cpp, with one task per       *)
(* bundle index on the thread pool.                                        *)
(* Channel: common/apsi/network/zmq/zmq_channel.cpp.  The wire is all that *)
(* the sender ever sent; the receiver has consumed a prefix of it.         *)
(*                                                                         *)
(* Both sides use the thread pool as TaskPool promises it: tasks start in  *)
(* the order of their enqueue, at most as many at a time as the pool has   *)
(* threads, and ~ThreadPoolMgr returns when all of them have ended (the    *)
(* function's manager is the only one of its process).                     *)
(***************************************************************************)
EXTENDS Integers, Sequences, FiniteSets

CONSTANTS
  BundleCount,     \* bundle_idx_count, the size of bin_bundles_
  Bin,             \* bin indices within a bundle
  ItemCount,       \* number of items in a query
  QueryInput,      \* the queries: see QueryInputType
  Params,          \* the input, and the answer, of a parameter request
  WorkerCount,     \* the receiver's GetThreadCount()
  PoolSize,        \* threads in the receiver's pool (SetPhysThreadCount)
  SenderPoolSize,  \* threads in the sender's pool
  MaxRequests,     \* bound: requests the receiver makes
  MaxFaults,       \* bound: failures of the sender, and setting stop
  Pending, Threw   \* outcomes of a request

Bundle == 0 .. BundleCount - 1
QueryItem == 0 .. ItemCount - 1
ResultWorker == 1 .. (IF WorkerCount < BundleCount THEN WorkerCount ELSE BundleCount)

(***************************************************************************)
(* A query, as far as its answer depends on it: the index translation      *)
(* table that create_query fills, and for each bundle the indices of the   *)
(* query's items for which the bundle's branching program evaluates to one *)
(* (eval computes every bin alike; BranchingProgram.tla has what it says   *)
(* of an item).                                                            *)
(***************************************************************************)
QueryInputType ==
  [table : UNION {[S -> QueryItem] : S \in SUBSET (Bundle \X Bin)},
   holds : [Bundle -> SUBSET QueryItem]]

ASSUME ProtocolAssumption ==
  /\ BundleCount \in Nat \ {0}
  /\ ItemCount \in Nat \ {0}
  /\ WorkerCount \in Nat \ {0}
  /\ PoolSize \in Nat \ {0}
  /\ SenderPoolSize \in Nat \ {0}
  /\ MaxRequests \in Nat /\ MaxFaults \in Nat
  /\ QueryInput \subseteq QueryInputType
  /\ Params \notin QueryInput
  /\ Pending \notin {Params, Threw} /\ Threw # Params
  /\ \A records \in SUBSET QueryItem : records \notin {Pending, Threw}

VARIABLES
  history,    \* the receiver's requests, with their outcomes
  requests,   \* numbers of the requests on their way to the sender
  wire,       \* everything the sender has sent
  taken,      \* how much of the wire the receiver has consumed
  rpc,        \* where the receiver's calling thread is
  rnext,      \* the future it waits for
  count,      \* package_count
  worker,     \* where each result worker is
  seen,       \* curr_package_count of each worker
  todo,       \* items of this_mrs that each worker has still to merge
  mrs,        \* indices of the items found so far
  merged,     \* number of packages merged by the current query
  spc,        \* where the dispatcher is
  current,    \* the request it processes
  task,       \* how far each bundle's task has come
  snext,      \* the future RunQuery waits for
  stop,       \* the flag that ends ZMQSenderDispatcher::run
  faults      \* failures so far

receiverVars == <<history, rpc, rnext, count, worker, seen, todo, mrs, merged>>
senderVars == <<spc, current, task, snext>>
vars == <<receiverVars, senderVars, requests, wire, taken, stop, faults>>

Init ==
  /\ history = <<>> /\ requests = <<>> /\ wire = <<>> /\ taken = 0
  /\ rpc = "idle" /\ rnext = 1 /\ count = 0
  /\ worker = [w \in ResultWorker |-> "off"]
  /\ seen = [w \in ResultWorker |-> 0]
  /\ todo = [w \in ResultWorker |-> {}]
  /\ mrs = {} /\ merged = 0
  /\ spc = "poll" /\ current = 0 /\ snext = 0
  /\ task = [b \in Bundle |-> "none"]
  /\ stop = FALSE /\ faults = 0
----------------------------------------------------------------------------
(***************************************************************************)
(* What a query asks and what a package says.                              *)
(***************************************************************************)

\* the item index of a position in the cuckoo table; 0 if it has none
find_item_idx(input, position) ==
  IF position \in DOMAIN input.table THEN input.table[position] ELSE 0

\* the bins of bundle b in which the decrypted result is one: create_query
\* put items[find_item_idx] in every bin
Ones(input, b) == {n \in Bin : find_item_idx(input, <<b, n>>) \in input.holds[b]}

\* the intersection, as far as the branching programs tell it
Answer(input) ==
  IF input = Params THEN Params
  ELSE {input.table[p] : p \in {q \in DOMAIN input.table :
                                  input.table[q] \in input.holds[q[1]]}}

\* Mutant: the bundle's first position in the table is left out.
PositionIgnoringBundle(b, n) == <<0, n>>

\* add_safe(bin, bundle_start)
Position(b, n) == <<b, n>>

Asked == history[Len(history)].input

\* process_result_part throws: two bins of the package name the same item
RepeatsItem(bins, b) ==
  \E n1, n2 \in bins :
    n1 # n2 /\ find_item_idx(Asked, Position(b, n1)) = find_item_idx(Asked, Position(b, n2))

\* the records process_result_part makes of the ones of a package
RecordsOf(bins, b) == {find_item_idx(Asked, Position(b, n)) : n \in bins}

Message(kind, id, b) == [kind |-> kind, id |-> id, bundle |-> b]
InboxEmpty == taken = Len(wire)
Incoming == wire[taken + 1]
EndRequest(outcome) == history' = [history EXCEPT ![Len(history)].outcome = outcome]
----------------------------------------------------------------------------
(***************************************************************************)
(* The receiver's calling thread.                                          *)
(***************************************************************************)

\* RequestParams or request_query: send the request and wait for a response
Request(input) ==
  /\ rpc = "idle"
  /\ Len(history) < MaxRequests
  /\ history' = Append(history, [input |-> input, outcome |-> Pending])
  /\ requests' = Append(requests, Len(history) + 1)
  /\ rpc' = "response"
  /\ UNCHANGED <<rnext, count, worker, seen, todo, mrs, merged, senderVars, wire, taken, stop, faults>>

\* set up mrs and package_count, enqueue the result workers
LaunchWorkers ==
  /\ count' = BundleCount
  /\ worker' = [w \in ResultWorker |-> "queued"]
  /\ mrs' = {}
  /\ merged' = 0
  /\ rnext' = 1
  /\ rpc' = "futures"

\* receive_response: a message of one part, a package, is an exception; a
\* response of the other type is dropped
ReceiveResponse ==
  /\ rpc = "response"
  /\ ~InboxEmpty
  /\ taken' = taken + 1
  /\ \/ /\ Incoming.kind \in {"part", "bad"}
        /\ EndRequest(Threw)
        /\ rpc' = "idle"
        /\ UNCHANGED <<rnext, count, worker, mrs, merged>>
     \/ /\ Incoming.kind = "params" /\ Asked = Params
        /\ EndRequest(Params)
        /\ rpc' = "idle"
        /\ UNCHANGED <<rnext, count, worker, mrs, merged>>
     \/ /\ Incoming.kind = "query" /\ Asked # Params
        /\ LaunchWorkers
        /\ UNCHANGED history
     \/ /\ Incoming.kind = (IF Asked = Params THEN "query" ELSE "params")
        /\ UNCHANGED <<history, rpc, rnext, count, worker, mrs, merged>>
  /\ UNCHANGED <<seen, todo, senderVars, requests, wire, stop, faults>>

\* f.get(): the next future, or the exception of its worker, which destroys
\* the locals of request_query, the thread pool manager last
GetFuture ==
  /\ rpc = "futures"
  /\ rnext \in ResultWorker
  /\ \/ worker[rnext] = "done" /\ rnext' = rnext + 1 /\ UNCHANGED rpc
     \/ worker[rnext] = "threw" /\ rpc' = "unwind" /\ UNCHANGED rnext
  /\ UNCHANGED <<history, count, worker, seen, todo, mrs, merged, senderVars,
                 requests, wire, taken, stop, faults>>

\* Mutant: no future is waited for.
GotAllAtOnce == TRUE

\* Mutant: request_query does not wait for the last worker.
GotAllButOne == rnext + 1 \notin ResultWorker

\* every future has been waited for
GotAll == rnext \notin ResultWorker

EndQuery(outcome) ==
  /\ EndRequest(outcome)
  /\ rpc' = "idle"
  /\ worker' = [w \in ResultWorker |-> "off"]
  /\ UNCHANGED <<rnext, count, seen, todo, mrs, merged, senderVars, requests, wire, taken, stop, faults>>

\* return mrs
ReturnRecords == rpc = "futures" /\ GotAll /\ EndQuery(mrs)

\* ~ThreadPoolMgr waits for the workers, then the exception leaves
PassOnException ==
  /\ rpc = "unwind"
  /\ \A w \in ResultWorker : worker[w] \in {"done", "threw"}
  /\ EndQuery(Threw)
----------------------------------------------------------------------------
(***************************************************************************)
(* process_result_worker.  Each access to package_count or to an element   *)
(* of mrs is a step.  While rpc is "unwind", mrs and the translation table *)
(* have been destroyed and what a worker finds in them is arbitrary.       *)
(***************************************************************************)
Active == {"claim", "exchange", "receive", "merge", "write"}

WorkerStep(w, from, to) ==
  /\ worker[w] = from
  /\ worker' = [worker EXCEPT ![w] = to]
  /\ UNCHANGED <<history, rpc, rnext, senderVars, requests, wire, stop, faults>>

StartWorker(w) ==
  /\ \A v \in ResultWorker : v < w => worker[v] # "queued"
  /\ Cardinality({v \in ResultWorker : worker[v] \in Active}) < PoolSize
  /\ WorkerStep(w, "queued", "claim")
  /\ UNCHANGED <<count, seen, todo, mrs, merged, taken>>

\* Mutant: a worker leaves the last package to the others.
ReadCountEarly(w) ==
  /\ WorkerStep(w, "claim", IF count <= 1 THEN "done" ELSE "exchange")
  /\ seen' = [seen EXCEPT ![w] = count]
  /\ UNCHANGED <<count, todo, mrs, merged, taken>>

\* all packages claimed: return
ReadCount(w) ==
  /\ WorkerStep(w, "claim", IF count = 0 THEN "done" ELSE "exchange")
  /\ seen' = [seen EXCEPT ![w] = count]
  /\ UNCHANGED <<count, todo, mrs, merged, taken>>

\* Mutant: a worker whose exchange failed goes on as if it had succeeded.
ExchangeWithoutRetry(w) ==
  /\ WorkerStep(w, "exchange", "receive")
  /\ count' = IF count = seen[w] THEN count - 1 ELSE count

\* compare_exchange_strong
Exchange(w) ==
  \/ count = seen[w] /\ WorkerStep(w, "exchange", "receive") /\ count' = count - 1
  \/ count # seen[w] /\ WorkerStep(w, "exchange", "claim") /\ count' = count

CompareExchange(w) == Exchange(w) /\ UNCHANGED <<seen, todo, mrs, merged, taken>>

\* receive_result and process_result_part
ReceiveResult(w) ==
  /\ ~InboxEmpty
  /\ taken' = taken + 1
  /\ LET bins == Ones(history[Incoming.id].input, Incoming.bundle) IN
     \/ /\ Incoming.kind = "bad"     \* not loadable: wait for another one
        /\ WorkerStep(w, "receive", "receive")
        /\ UNCHANGED todo
     \/ /\ Incoming.kind \in {"params", "query"}     \* not of one part
        /\ WorkerStep(w, "receive", "threw")
        /\ UNCHANGED todo
     \/ /\ Incoming.kind = "part" /\ rpc = "futures" /\ ~RepeatsItem(bins, Incoming.bundle)
        /\ WorkerStep(w, "receive", "merge")
        /\ todo' = [todo EXCEPT ![w] = RecordsOf(bins, Incoming.bundle)]
     \/ /\ Incoming.kind = "part" /\ rpc = "futures" /\ RepeatsItem(bins, Incoming.bundle)
        /\ WorkerStep(w, "receive", "threw")
        /\ UNCHANGED todo
     \/ /\ Incoming.kind = "part" /\ rpc = "unwind"
        /\ WorkerStep(w, "receive", "merge") \/ WorkerStep(w, "receive", "threw")
        /\ todo' = [todo EXCEPT ![w] = {}]
  /\ UNCHANGED <<count, seen, mrs, merged>>

FirstToMerge(w, i) == i \in todo[w] /\ \A j \in todo[w] : i <= j

\* a record that mrs does not hold yet is merged, another one is an exception
TestRecord(w) ==
  /\ \E i \in QueryItem :
       /\ FirstToMerge(w, i)
       /\ \E found \in IF rpc = "unwind" THEN BOOLEAN ELSE {i \in mrs} :
            WorkerStep(w, "merge", IF found THEN "threw" ELSE "write")
  /\ UNCHANGED <<count, seen, todo, mrs, merged, taken>>

WriteRecord(w) ==
  /\ WorkerStep(w, "write", "merge")
  /\ \E i \in QueryItem :
       /\ FirstToMerge(w, i)
       /\ mrs' = mrs \cup {i}
       /\ todo' = [todo EXCEPT ![w] = @ \ {i}]
  /\ UNCHANGED <<count, seen, merged, taken>>

\* the package is merged: claim the next one
NextPackage(w) ==
  /\ todo[w] = {}
  /\ WorkerStep(w, "merge", "claim")
  /\ merged' = merged + 1
  /\ UNCHANGED <<count, seen, todo, mrs, taken>>

WorkerNext(w) ==
  \/ StartWorker(w) \/ ReadCount(w) \/ CompareExchange(w) \/ ReceiveResult(w)
  \/ TestRecord(w) \/ WriteRecord(w) \/ NextPackage(w)
----------------------------------------------------------------------------
(***************************************************************************)
(* The sender: the dispatcher's thread and the tasks of RunQuery.          *)
(***************************************************************************)
Send(kind, b) == wire' = Append(wire, Message(kind, current, b))

Fault == faults < MaxFaults /\ faults' = faults + 1

DispatcherStep(from, to) ==
  /\ spc = from
  /\ spc' = to
  /\ UNCHANGED <<receiverVars, taken, stop>>

\* receive_network_operation and the switch of run
PollRequest ==
  /\ ~stop
  /\ requests # <<>>
  /\ requests' = Tail(requests)
  /\ current' = Head(requests)
  /\ DispatcherStep("poll", IF history[Head(requests)].input = Params THEN "params" ELSE "query")
  /\ UNCHANGED <<wire, task, snext, faults>>

StopPolling ==
  /\ stop
  /\ DispatcherStep("poll", "stopped")
  /\ UNCHANGED <<requests, wire, current, task, snext, faults>>

\* RunParams
RunParams ==
  /\ DispatcherStep("params", "poll")
  /\ Send("params", 0)
  /\ UNCHANGED <<requests, current, task, snext, faults>>

\* the start of RunQuery: announce the number of packages
SendResponse ==
  /\ DispatcherStep("query", "enqueue")
  /\ Send("query", 0)
  /\ UNCHANGED <<requests, current, task, snext, faults>>

\* an invalid request, or a response that cannot be sent: the dispatcher
\* logs the exception and tells the receiver nothing
RefuseRequest ==
  /\ Fault
  /\ DispatcherStep("params", "poll") \/ DispatcherStep("query", "poll")
  /\ UNCHANGED <<requests, wire, current, task, snext>>

\* one task per bundle index
EnqueueBundles ==
  /\ DispatcherStep("enqueue", "futures")
  /\ task' = [b \in Bundle |-> "queued"]
  /\ snext' = 0
  /\ UNCHANGED <<requests, wire, current, faults>>

TaskStep(b, from, to) ==
  /\ task[b] = from
  /\ task' = [task EXCEPT ![b] = to]
  /\ UNCHANGED <<receiverVars, spc, current, snext, requests, taken, stop>>

StartTask(b) ==
  /\ \A c \in Bundle : c < b => task[c] # "queued"
  /\ Cardinality({c \in Bundle : task[c] = "running"}) < SenderPoolSize
  /\ TaskStep(b, "queued", "running")
  /\ UNCHANGED <<wire, faults>>

\* Mutant: a package without a match is not sent.
SendMatches(b) ==
  IF Ones(history[current].input, b) # {} THEN Send("part", b) ELSE UNCHANGED wire

\* Mutant: a package is sent again.
SendTwice(b) == wire' = Append(Append(wire, Message("part", current, b)), Message("part", current, b))

\* send_rp_fun: a package for each bundle, with or without matches
SendPart(b) == Send("part", b)

\* ProcessBinBundle
SendPackage(b) == TaskStep(b, "running", "sent") /\ SendPart(b) /\ UNCHANGED faults

\* eval or the send throws, or the package that is sent cannot be loaded;
\* after RunQuery has destroyed all_bits this is no longer a fault
FailTask(b) ==
  /\ \/ TaskStep(b, "running", "failed") /\ UNCHANGED wire
     \/ TaskStep(b, "running", "sent") /\ Send("bad", b)
  /\ IF spc = "unwind" THEN UNCHANGED faults ELSE Fault

\* Mutant: RunQuery waits for a failed task to be sent.
AwaitSuccess ==
  /\ snext \in Bundle /\ task[snext] = "sent" /\ DispatcherStep("futures", "futures")
  /\ snext' = snext + 1
  /\ UNCHANGED <<requests, wire, current, task, faults>>

\* f.get()
AwaitTask ==
  /\ \/ snext \in Bundle /\ task[snext] = "sent" /\ DispatcherStep("futures", "futures")
        /\ snext' = snext + 1
     \/ snext \in Bundle /\ task[snext] = "failed" /\ DispatcherStep("futures", "unwind")
        /\ UNCHANGED snext
  /\ UNCHANGED <<requests, wire, current, task, faults>>

\* ~ThreadPoolMgr: every task has ended
PoolDrained == \A b \in Bundle : task[b] \in {"sent", "failed"}

\* RunQuery returns, or its exception ends in dispatch_query
EndRunQuery ==
  /\ \/ snext \notin Bundle /\ DispatcherStep("futures", "poll")
     \/ DispatcherStep("unwind", "poll")
  /\ PoolDrained
  /\ UNCHANGED <<requests, wire, current, task, snext, faults>>

\* the caller of ZMQSenderDispatcher::run sets stop
SetStop ==
  /\ Fault
  /\ ~stop /\ stop' = TRUE
  /\ UNCHANGED <<receiverVars, senderVars, requests, wire, taken>>
----------------------------------------------------------------------------
CallerNext == ReceiveResponse \/ GetFuture \/ ReturnRecords \/ PassOnException
DispatcherNext ==
  PollRequest \/ StopPolling \/ RunParams \/ SendResponse \/ EnqueueBundles \/ AwaitTask \/ EndRunQuery

Next ==
  \/ \E input \in QueryInput \cup {Params} : Request(input)
  \/ CallerNext
  \/ \E w \in ResultWorker : WorkerNext(w)
  \/ DispatcherNext
  \/ \E b \in Bundle : StartTask(b) \/ SendPackage(b) \/ FailTask(b)
  \/ RefuseRequest \/ SetStop

\* every thread that can take a step takes one
Fairness ==
  /\ WF_vars(CallerNext)
  /\ \A w \in ResultWorker : WF_vars(WorkerNext(w))
  /\ WF_vars(DispatcherNext)
  /\ \A b \in Bundle : WF_vars(StartTask(b) \/ SendPackage(b))

Spec == Init /\ [][Next]_vars
FairSpec == Spec /\ Fairness
----------------------------------------------------------------------------
(***************************************************************************)
(* Properties.                                                             *)
(***************************************************************************)
Outcome(input) == {Pending, Threw, Answer(input)}
MessageType ==
  [kind : {"params", "query", "part", "bad"}, id : 1 .. MaxRequests, bundle : Bundle]

(***************************************************************************)
(* Types; in particular the unsigned package_count never passes below zero *)
(* and no worker claims more packages than were announced.                 *)
(***************************************************************************)
TypeOK ==
  /\ \A i \in DOMAIN history : history[i].input \in QueryInput \cup {Params}
  /\ Len(history) <= MaxRequests
  /\ requests \in Seq(1 .. MaxRequests)
  /\ wire \in Seq(MessageType) /\ taken \in 0 .. Len(wire)
  /\ rpc \in {"idle", "response", "futures", "unwind"}
  /\ rnext \in 1 .. (Cardinality(ResultWorker) + 1)
  /\ count \in 0 .. BundleCount /\ merged \in 0 .. BundleCount
  /\ worker \in [ResultWorker -> {"off", "queued", "done", "threw"} \cup Active]
  /\ seen \in [ResultWorker -> 0 .. BundleCount]
  /\ todo \in [ResultWorker -> SUBSET QueryItem] /\ mrs \in SUBSET QueryItem
  /\ spc \in {"poll", "params", "query", "enqueue", "futures", "unwind", "stopped"}
  /\ current \in 0 .. MaxRequests /\ snext \in 0 .. BundleCount
  /\ task \in [Bundle -> {"none", "queued", "running", "sent", "failed"}]
  /\ stop \in BOOLEAN /\ faults \in 0 .. MaxFaults

Holding == {w \in ResultWorker : worker[w] \in {"receive", "merge", "write", "threw"}}

(***************************************************************************)
(* Every announced package is unclaimed, claimed by one worker or merged,  *)
(* whatever the workers' races on package_count: no package is claimed     *)
(* twice, which would leave a worker waiting for a package that never      *)
(* comes, and none is forgotten (process_result_worker); the unsigned      *)
(* package_count never passes below zero (in TypeOK).                      *)
(***************************************************************************)
ClaimsExact ==
  /\ TypeOK
  /\ rpc \in {"futures", "unwind"} => count + Cardinality(Holding) + merged = BundleCount

(***************************************************************************)
(* request_query returns records only when it has merged as many packages  *)
(* as the response announced: a package that is lost, unreadable or throws *)
(* never turns into a smaller intersection.                                *)
(***************************************************************************)
AnswersAreWhole ==
  [][\A i \in DOMAIN history :
       (history[i].outcome = Pending /\ history'[i].outcome \notin {Pending, Threw}
          /\ history[i].input # Params)
       => merged = BundleCount]_vars

(***************************************************************************)
(* The sender answers requests one after another: nothing about a request  *)
(* is sent before its response or after something about a later request,   *)
(* and no bundle is sent twice, also when tasks fail and RunQuery is left  *)
(* by an exception (sender.cpp, sender_dispatcher.cpp).                    *)
(***************************************************************************)
StreamOrdered ==
  /\ \A i, j \in DOMAIN wire : i < j =>
       /\ wire[i].id <= wire[j].id
       /\ wire[i].id = wire[j].id =>
            wire[i].bundle # wire[j].bundle \/ wire[i].kind = "query"
  /\ \A j \in DOMAIN wire : wire[j].kind \in {"part", "bad"} =>
       \E i \in 1 .. (j - 1) : wire[i] = Message("query", wire[j].id, 0)

\* no item fills an empty bin next to, or besides, a bin of its own in which
\* it matches
MatchesOnce(input) ==
  \A p, q \in {p \in Bundle \X Bin : p[2] \in Ones(input, p[1])} :
    p # q => find_item_idx(input, p) # find_item_idx(input, q)

\* nothing has gone wrong so far
Undisturbed ==
  faults = 0 /\ \A i \in DOMAIN history : history[i].input \in QueryInput => MatchesOnce(history[i].input)

(***************************************************************************)
(* With a sender that does not fail, and queries that do not trip over a   *)
(* repeated match, every request leaves the connection as it found it,     *)
(* with nothing on the wire for the next request to trip over, and no      *)
(* request ends with an exception.                                         *)
(***************************************************************************)
CleanSession ==
  rpc = "idle" /\ Undisturbed =>
    InboxEmpty /\ requests = <<>> /\ \A i \in DOMAIN history : history[i].outcome # Threw

(***************************************************************************)
(* The records of a request are the intersection for the items of this     *)
(* request (receiver.h: "If an item is in the intersection, the            *)
(* corresponding MatchRecord indicates it").                               *)
(***************************************************************************)
AnswersAreOwn ==
  \A i \in DOMAIN history : history[i].outcome \in Outcome(history[i].input)

(***************************************************************************)
(* RunQuery leaves its wait only when no task of it is left that uses its  *)
(* locals (sender.cpp: "Wait until all bin bundle caches have been         *)
(* processed").                                                            *)
(***************************************************************************)
WaitsForAllBundles == spc = "unwind" => PoolDrained

(***************************************************************************)
(* The receiver's requests end one by one, each with its own answer or     *)
(* with an exception, whatever fails at the sender, for as long as no      *)
(* request has ended with an exception.  Once one has, its packages may be *)
(* left on the connection, and a query may end with other records than its *)
(* own (AnswersAreOwn, which does not hold); a parameter request still     *)
(* ends with the parameters or with an exception (request_query,           *)
(* RequestParams).                                                         *)
(***************************************************************************)
Stray(input) == IF input = Params THEN {} ELSE SUBSET QueryItem
PsiService == INSTANCE PsiService WITH Input <- QueryInput \cup {Params}
ImplementsPsiService == PsiService!Spec

(***************************************************************************)
(* With a sender that does not fail, and queries that do not trip over a   *)
(* repeated match, every request ends: no worker is left waiting for a     *)
(* package, no future is left unset.                                       *)
(***************************************************************************)
RequestsEnd == rpc = "response" /\ Undisturbed ~> rpc = "idle" \/ ~Undisturbed

(***************************************************************************)
(* Whatever fails in a query, the dispatcher polls again, unless it has    *)
(* been stopped: a request in progress is run to its end.                  *)
(***************************************************************************)
DispatcherReturns == spc # "poll" ~> spc \in {"poll", "stopped"}
=============================================================================
