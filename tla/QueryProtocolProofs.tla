------------------------ MODULE QueryProtocolProofs ------------------------
(***************************************************************************)
(* Proofs about QueryProtocol, for any number of bundles, workers, threads *)
(* and requests, any queries and any failures.                             *)
(***************************************************************************)
EXTENDS QueryProtocol, SequenceTheorems, FiniteSetTheorems, TLAPS

(***************************************************************************)
(* The invariant, whatever fails.                                          *)
(***************************************************************************)

\* Whether a request in the history is for parameters.
ForParams(i) == history[i].input = Params

RequestType ==
  [input : QueryInput \cup {Params},
   outcome : {Pending, Threw, Params} \cup SUBSET QueryItem]

\* Types, beyond TypeOK: the history is a sequence of requests, and what is
\* on its way or being processed is one of them.
Typed ==
  /\ TypeOK
  /\ history \in Seq(RequestType)
  /\ \A i \in DOMAIN requests : requests[i] <= Len(history)
  /\ current <= Len(history)
  /\ \A i \in DOMAIN wire : wire[i].id <= Len(history)

\* The request the dispatcher processes is of the kind its place says.
Processing ==
  /\ spc = "params" => current # 0 /\ ForParams(current)
  /\ spc \in {"query", "enqueue", "futures", "unwind"} => current # 0 /\ ~ForParams(current)
  /\ \A i \in DOMAIN wire : wire[i].kind = "params" <=> ForParams(wire[i].id)

\* A task runs only while RunQuery has not returned.
TasksEnd ==
  \A b \in Bundle : task[b] \in {"queued", "running"} => spc \in {"futures", "unwind"}

\* The result workers exist while request_query is in or after its launch;
\* count and merged account for every announced package.
Workers ==
  /\ rpc \in {"idle", "response"} => \A w \in ResultWorker : worker[w] = "off"
  /\ rpc # "idle" => history # <<>>
  /\ rpc \in {"futures", "unwind"} => ~ForParams(Len(history))
  /\ \A w \in ResultWorker : worker[w] = "exchange" => seen[w] # 0
  /\ rpc \in {"futures", "unwind"} =>
       /\ \A w \in ResultWorker : worker[w] = "done" => count = 0
       /\ \A w \in ResultWorker : w < rnext => worker[w] = "done"
       /\ count + Cardinality(Holding) + merged = BundleCount

\* Requests reach the sender in the order they were made in.
RequestsInOrder ==
  /\ \A i \in DOMAIN requests : requests[i] > current
  /\ \A i, j \in DOMAIN requests : i < j => requests[i] < requests[j]
  /\ \A i \in DOMAIN wire : wire[i].id <= current

\* What the sender has sent about the request it processes.
SentSoFar ==
  /\ spc \in {"params", "query"} => \A i \in DOMAIN wire : wire[i].id < current
  /\ spc \in {"enqueue", "futures", "unwind"} =>
       \E i \in DOMAIN wire : wire[i] = Message("query", current, 0)
  /\ spc = "enqueue" =>
       \A i \in DOMAIN wire : wire[i].id = current => wire[i].kind = "query"
  /\ spc \in {"futures", "unwind"} =>
       \A i \in DOMAIN wire : wire[i].id = current /\ wire[i].kind # "query" =>
         task[wire[i].bundle] = "sent"

\* The receiver has at most one request that has not ended, the last.
OnePending ==
  \A i \in DOMAIN history : history[i].outcome = Pending <=> i = Len(history) /\ rpc # "idle"

\* The inductive invariant.
ProtocolInv ==
  /\ Typed /\ Processing /\ TasksEnd /\ Workers
  /\ RequestsInOrder /\ SentSoFar /\ StreamOrdered /\ OnePending

----------------------------------------------------------------------------
(***************************************************************************)
(* The invariant of an undisturbed session.                                *)
(***************************************************************************)

\* Without a failure nothing is bad, failed or stopped.
NothingFailed ==
  faults = 0 =>
    /\ ~stop /\ spc \notin {"unwind", "stopped"}
    /\ \A i \in DOMAIN wire : wire[i].kind # "bad"
    /\ \A b \in Bundle : task[b] # "failed"

Sent == {b \in Bundle : task[b] = "sent"}

\* The bundles whose packages RunQuery has sent in the current request.
SentNow == IF spc = "enqueue" THEN {} ELSE Sent

\* The sender has no more to send for the requests it has received.
Finished == spc = "poll" \/ (spc = "futures" /\ Sent = Bundle)

\* The sender is sending, or has sent, packages for the last request.
Streaming ==
  /\ requests = <<>> /\ current = Len(history)
  /\ spc \in {"enqueue", "futures", "poll"}
  /\ spc = "poll" => Sent = Bundle

Untaken == {wire[i].bundle : i \in taken + 1 .. Len(wire)}

\* The messages from index i on are packages of the last request, of bundles
\* that were sent.
PackagesFrom(i) ==
  \A j \in i .. Len(wire) :
    wire[j].kind = "part" /\ wire[j].id = Len(history) /\ wire[j].bundle \in SentNow

Merging == {w \in ResultWorker : worker[w] \in {"merge", "write"}}

\* The records of a bundle's package for the last query.
Records(b) == RecordsOf(Ones(Asked, b), b)

\* The records of the packages the receiver has consumed.
Consumed == UNION {Records(b) : b \in SentNow \ Untaken}

\* Before the response.
Awaiting ==
  \/ requests = <<Len(history)>> /\ InboxEmpty /\ Finished
  \/ requests = <<>> /\ current = Len(history) /\ InboxEmpty /\ spc \in {"params", "query"}
  \/ /\ requests = <<>> /\ current = Len(history) /\ spc = "poll" /\ ForParams(current)
     /\ Len(wire) = taken + 1 /\ Incoming.kind = "params"
  \/ /\ Streaming /\ ~ForParams(current)
     /\ ~InboxEmpty /\ Incoming.kind = "query" /\ PackagesFrom(taken + 2)
     /\ SentNow = {wire[i].bundle : i \in taken + 2 .. Len(wire)}
     /\ Len(wire) = taken + 1 + Cardinality(SentNow)

\* While the workers receive and merge.
Collecting ==
  /\ Streaming
  /\ PackagesFrom(taken + 1)
  /\ Len(wire) - taken + merged + Cardinality(Merging) = Cardinality(SentNow)
  /\ mrs \cup UNION {todo[w] : w \in ResultWorker} = Consumed
  /\ \A w \in ResultWorker : todo[w] \cap mrs = {}
  /\ \A v, w \in ResultWorker : v # w => todo[v] \cap todo[w] = {}

Clean ==
  /\ rpc # "unwind"
  /\ \A i \in DOMAIN history : history[i].outcome # Threw
  /\ \A w \in ResultWorker : worker[w] # "threw" /\ (w \notin Merging => todo[w] = {})
  /\ rpc = "idle" => InboxEmpty /\ requests = <<>> /\ Finished
  /\ rpc = "response" => Awaiting
  /\ rpc = "futures" => Collecting

\* The inductive invariant of sessions in which nothing has gone wrong.
SessionInv == ProtocolInv /\ NothingFailed /\ (Undisturbed => Clean)

----------------------------------------------------------------------------
(***************************************************************************)
(* Facts about the constants and the operators.                            *)
(***************************************************************************)

\* Steps by who takes them.
ReceiverStep == CallerNext \/ \E w \in ResultWorker : WorkerNext(w)
SenderStep ==
  \/ DispatcherNext \/ RefuseRequest \/ SetStop
  \/ \E b \in Bundle : StartTask(b) \/ SendPackage(b) \/ FailTask(b)

\* The requests stay, but for the outcomes.
SameInputs ==
  /\ Len(history') = Len(history)
  /\ \A i \in DOMAIN history : history'[i].input = history[i].input

\* The workers are numbered from one on and there is at least one.
LEMMA WorkersNumbered ==
  \E m \in Nat \ {0} : ResultWorker = 1 .. m /\ IsFiniteSet(ResultWorker) /\ Cardinality(ResultWorker) = m
<1> DEFINE m == IF WorkerCount < BundleCount THEN WorkerCount ELSE BundleCount
<1>1. m \in Nat \ {0} /\ ResultWorker = 1 .. m
  BY ProtocolAssumption DEF ResultWorker
<1>2. IsFiniteSet(1 .. m) /\ Cardinality(1 .. m) = m
  BY <1>1, FS_Interval
<1> QED
  BY <1>1, <1>2

\* There are BundleCount bundles, among them the first.
LEMMA BundlesCounted ==
  /\ 0 \in Bundle /\ Bundle \subseteq Nat /\ 0 \in QueryItem /\ QueryItem \subseteq Nat
  /\ IsFiniteSet(Bundle) /\ Cardinality(Bundle) = BundleCount
<1>1. BundleCount \in Nat \ {0} /\ ItemCount \in Nat \ {0}
  BY ProtocolAssumption
<1>2. IsFiniteSet(0 .. BundleCount - 1)
      /\ Cardinality(0 .. BundleCount - 1) = BundleCount - 1 - 0 + 1
  BY <1>1, FS_Interval
<1> QED
  BY <1>1, <1>2 DEF Bundle, QueryItem

\* Every position of the cuckoo table stands for an item of the query.
LEMMA ItemAtPosition ==
  ASSUME NEW input \in QueryInput, NEW position
  PROVE  find_item_idx(input, position) \in QueryItem
<1>1. input \in QueryInputType
  BY ProtocolAssumption
<1>2. PICK S \in SUBSET (Bundle \X Bin) : input.table \in [S -> QueryItem]
  BY <1>1 DEF QueryInputType
<1> QED
  BY <1>2, BundlesCounted DEF find_item_idx

\* Ending a request changes the outcome of the last one.
LEMMA EndRequestChanges ==
  ASSUME history \in Seq(RequestType), history # <<>>,
         NEW outcome \in {Pending, Threw, Params} \cup SUBSET QueryItem, EndRequest(outcome)
  PROVE  /\ history' \in Seq(RequestType) /\ SameInputs
         /\ DOMAIN history' = DOMAIN history /\ DOMAIN history = 1 .. Len(history)
         /\ Len(history) \in DOMAIN history
         /\ \A i \in DOMAIN history :
              history'[i].outcome = IF i = Len(history) THEN outcome ELSE history[i].outcome
<1>1. Len(history) \in Nat \ {0} /\ DOMAIN history = 1 .. Len(history)
  BY EmptySeq, LenProperties
<1>2. Len(history) \in 1 .. Len(history)
  BY <1>1
<1> DEFINE last == history[Len(history)]
           ended == [last EXCEPT !.outcome = outcome]
<1>3. last \in RequestType
  BY <1>2, ElementOfSeq
<1>4. ended \in RequestType /\ ended.input = last.input /\ ended.outcome = outcome
  BY <1>3 DEF RequestType
<1>5. history' = [history EXCEPT ![Len(history)] = ended]
  BY DEF EndRequest
<1> HIDE DEF ended, last
<1>6. /\ history' \in Seq(RequestType) /\ Len(history') = Len(history)
      /\ \A j \in 1 .. Len(history) : history'[j] = IF j = Len(history) THEN ended ELSE history[j]
  BY <1>2, <1>4, <1>5, ExceptSeq
<1>7. DOMAIN history' = 1 .. Len(history')
  BY <1>6, LenProperties
<1> QED
  BY <1>1, <1>2, <1>4, <1>6, <1>7 DEF SameInputs, last

\* A step of the receiver leaves the sender alone, and the requests but for
\* the outcomes.
LEMMA ReceiverFrame ==
  ASSUME Typed, Workers, ReceiverStep
  PROVE  /\ UNCHANGED <<senderVars, requests, wire, stop, faults>>
         /\ history' \in Seq(RequestType) /\ SameInputs
         /\ DOMAIN history' = DOMAIN history
<1> USE DEF Typed
<1>0. \/ SameInputs /\ DOMAIN history' = DOMAIN history /\ history' \in Seq(RequestType)
      \/ history' # history
  BY DEF SameInputs
<1>1. CASE ReceiveResponse
  <2>1. rpc = "response" /\ history # <<>>
    BY <1>1 DEF ReceiveResponse, Workers
  <2>2. \/ history' = history
        \/ EndRequest(Threw) \/ EndRequest(Params)
    BY <1>1 DEF ReceiveResponse
  <2> QED
    BY <1>0, <1>1, <2>1, <2>2, EndRequestChanges DEF ReceiveResponse
<1>2. CASE ReturnRecords \/ PassOnException
  <2>1. history # <<>> /\ mrs \in SUBSET QueryItem
    BY <1>2 DEF ReturnRecords, PassOnException, Workers, TypeOK
  <2>2. EndRequest(mrs) \/ EndRequest(Threw)
    BY <1>2 DEF ReturnRecords, PassOnException, EndQuery
  <2> QED
    BY <1>2, <2>1, <2>2, EndRequestChanges DEF ReturnRecords, PassOnException, EndQuery
<1>3. CASE GetFuture
  BY <1>0, <1>3 DEF GetFuture
<1>4. ASSUME NEW w \in ResultWorker, WorkerNext(w)
      PROVE  UNCHANGED <<history, senderVars, requests, wire, stop, faults>>
  BY <1>4 DEF WorkerNext, StartWorker, ReadCount, CompareExchange, Exchange, ReceiveResult,
              TestRecord, WriteRecord, NextPackage, WorkerStep
<1> QED
  BY <1>0, <1>1, <1>2, <1>3, <1>4 DEF ReceiverStep, CallerNext

\* A step of the sender leaves the receiver alone.
LEMMA SenderFrame ==
  ASSUME SenderStep
  PROVE  UNCHANGED <<receiverVars, taken>>
BY DEF SenderStep, DispatcherNext, PollRequest, StopPolling, RunParams, SendResponse,
       EnqueueBundles, AwaitTask, EndRunQuery, RefuseRequest, SetStop, StartTask, SendPackage,
       FailTask, DispatcherStep, TaskStep

\* How many elements of S a function maps into K.
Count(S, f, K) == Cardinality({y \in S : f[y] \in K})

\* Their number when the function changes at x.
LEMMA CountChanged ==
  ASSUME NEW S, IsFiniteSet(S), NEW f, NEW K, NEW x \in S,
         NEW g, \A y \in S : y # x => g[y] = f[y]
  PROVE  /\ Count(S, f, K) \in Nat
         /\ f[x] \in K => Count(S, f, K) # 0
         /\ Count(S, g, K)
              = Count(S, f, K) + (IF g[x] \in K THEN 1 ELSE 0) - (IF f[x] \in K THEN 1 ELSE 0)
<1> DEFINE before == {y \in S : f[y] \in K}
           after == {y \in S : g[y] \in K}
           rest == {y \in S : y # x /\ f[y] \in K}
<1>1. IsFiniteSet(before) /\ IsFiniteSet(rest)
  BY FS_Subset
<1>2. Cardinality(rest) \in Nat /\ x \notin rest
  BY <1>1, FS_CardinalityType
<1>3. Cardinality(rest \cup {x}) = Cardinality(rest) + 1
  BY <1>1, <1>2, FS_AddElement
<1>4. before = IF f[x] \in K THEN rest \cup {x} ELSE rest
  <2>1. CASE f[x] \in K
    BY <2>1
  <2>2. CASE f[x] \notin K
    BY <2>2
  <2> QED
    BY <2>1, <2>2
<1>5. after = IF g[x] \in K THEN rest \cup {x} ELSE rest
  <2>1. CASE g[x] \in K
    BY <2>1
  <2>2. CASE g[x] \notin K
    BY <2>2
  <2> QED
    BY <2>1, <2>2
<1> HIDE DEF before, after, rest
<1>6. /\ Cardinality(before) = IF f[x] \in K THEN Cardinality(rest) + 1 ELSE Cardinality(rest)
      /\ Cardinality(after) = IF g[x] \in K THEN Cardinality(rest) + 1 ELSE Cardinality(rest)
  BY <1>3, <1>4, <1>5
<1>7. /\ Cardinality(before) \in Nat /\ (f[x] \in K => Cardinality(before) # 0)
      /\ Cardinality(after) = Cardinality(before) + (IF g[x] \in K THEN 1 ELSE 0)
                                - (IF f[x] \in K THEN 1 ELSE 0)
  BY <1>2, <1>6
<1> QED
  BY <1>7 DEF before, after, Count

\* How a worker's step changes the number of packages that are held.
LEMMA HoldingChanges ==
  ASSUME Typed, NEW w \in ResultWorker, NEW from, NEW to, WorkerStep(w, from, to)
  PROVE  LET held == {"receive", "merge", "write", "threw"}
         IN  /\ Cardinality(Holding) \in Nat
             /\ from \in held => Cardinality(Holding) # 0
             /\ Cardinality(Holding') = Cardinality(Holding) + (IF to \in held THEN 1 ELSE 0)
                                          - (IF from \in held THEN 1 ELSE 0)
<1> DEFINE held == {"receive", "merge", "write", "threw"}
<1>1. IsFiniteSet(ResultWorker)
  BY WorkersNumbered
<1>2. /\ worker[w] = from /\ worker'[w] = to
      /\ \A v \in ResultWorker : v # w => worker'[v] = worker[v]
  BY DEF WorkerStep, Typed, TypeOK
<1> HIDE DEF held
<1>3. /\ Count(ResultWorker, worker, held) \in Nat
      /\ worker[w] \in held => Count(ResultWorker, worker, held) # 0
      /\ Count(ResultWorker, worker', held)
           = Count(ResultWorker, worker, held) + (IF worker'[w] \in held THEN 1 ELSE 0)
               - (IF worker[w] \in held THEN 1 ELSE 0)
  BY <1>1, <1>2, CountChanged
<1>4. /\ Count(ResultWorker, worker, held) = Cardinality(Holding)
      /\ Count(ResultWorker, worker', held) = Cardinality(Holding')
  BY DEF Count, Holding, held
<1> QED
  BY <1>2, <1>3, <1>4 DEF held

----------------------------------------------------------------------------
(***************************************************************************)
(* Types.                                                                  *)
(***************************************************************************)

\* A worker that takes a step belongs to a query in progress.
LEMMA WorkersAtWork ==
  ASSUME Typed, Workers, NEW w \in ResultWorker, worker[w] # "off"
  PROVE  /\ rpc \in {"futures", "unwind"} /\ Asked \in QueryInput
         /\ count + Cardinality(Holding) + merged = BundleCount
<1>1. rpc \in {"futures", "unwind"}
  BY DEF Typed, TypeOK, Workers
<1>2. history # <<>> /\ Asked # Params
  BY <1>1 DEF Workers, ForParams, Asked
<1>3. Len(history) \in 1 .. Len(history)
  BY <1>2, EmptySeq DEF Typed
<1>4. history[Len(history)] \in RequestType
  BY <1>3, ElementOfSeq DEF Typed
<1> QED
  BY <1>1, <1>2, <1>4 DEF Workers, RequestType, Asked

\* What TypeOK says of the receiver's variables.
ReceiverTypes ==
  /\ rpc \in {"idle", "response", "futures", "unwind"}
  /\ rnext \in 1 .. (Cardinality(ResultWorker) + 1)
  /\ count \in 0 .. BundleCount /\ merged \in 0 .. BundleCount
  /\ worker \in [ResultWorker -> {"off", "queued", "done", "threw"} \cup Active]
  /\ seen \in [ResultWorker -> 0 .. BundleCount]
  /\ todo \in [ResultWorker -> SUBSET QueryItem] /\ mrs \in SUBSET QueryItem
  /\ taken \in 0 .. Len(wire)

\* What Typed says of the history and the sender's variables.
SenderTypes ==
  /\ history \in Seq(RequestType) /\ Len(history) <= MaxRequests
  /\ requests \in Seq(1 .. MaxRequests) /\ wire \in Seq(MessageType)
  /\ spc \in {"poll", "params", "query", "enqueue", "futures", "unwind", "stopped"}
  /\ current \in 0 .. MaxRequests /\ snext \in 0 .. BundleCount
  /\ task \in [Bundle -> {"none", "queued", "running", "sent", "failed"}]
  /\ stop \in BOOLEAN /\ faults \in 0 .. MaxFaults
  /\ \A i \in DOMAIN requests : requests[i] <= Len(history)
  /\ current <= Len(history)
  /\ \A i \in DOMAIN wire : wire[i].id <= Len(history)

LEMMA InputsTyped ==
  ASSUME NEW h \in Seq(RequestType), NEW i \in DOMAIN h
  PROVE  h[i].input \in QueryInput \cup {Params}
<1>1. h[i] \in RequestType
  BY ElementOfSeq, LenProperties
<1> QED
  BY <1>1 DEF RequestType

\* Both parts are the whole, before and after a step.
LEMMA TypedParts ==
  /\ Typed <=> ReceiverTypes /\ SenderTypes
  /\ Typed' <=> ReceiverTypes' /\ SenderTypes'
BY InputsTyped DEF Typed, TypeOK, ReceiverTypes, SenderTypes

\* Messages and requests on their way are about requests of the history.
LEMMA NumbersTyped ==
  ASSUME Typed
  PROVE  /\ DOMAIN history = 1 .. Len(history) /\ Len(history) \in Nat
         /\ DOMAIN requests = 1 .. Len(requests) /\ Len(requests) \in Nat
         /\ DOMAIN wire = 1 .. Len(wire) /\ Len(wire) \in Nat
         /\ current \in 0 .. Len(history)
         /\ \A i \in DOMAIN wire : wire[i] \in MessageType /\ wire[i].id \in 1 .. Len(history)
         /\ \A i \in DOMAIN requests : requests[i] \in 1 .. Len(history)
<1>1. SenderTypes
  BY TypedParts
<1>2. /\ history \in Seq(RequestType)
      /\ requests \in Seq(1 .. MaxRequests) /\ wire \in Seq(MessageType)
      /\ current \in 0 .. MaxRequests /\ current <= Len(history)
  BY <1>1 DEF SenderTypes
<1>3. /\ DOMAIN history = 1 .. Len(history) /\ Len(history) \in Nat
      /\ DOMAIN requests = 1 .. Len(requests) /\ Len(requests) \in Nat
      /\ DOMAIN wire = 1 .. Len(wire) /\ Len(wire) \in Nat
  BY <1>2, LenProperties
<1>4. /\ \A i \in DOMAIN requests : requests[i] \in 1 .. MaxRequests
      /\ \A i \in DOMAIN wire : wire[i] \in MessageType
  BY <1>2, <1>3, ElementOfSeq
<1>5. \A i \in DOMAIN wire : wire[i].id \in 1 .. MaxRequests
  BY <1>4 DEF MessageType
<1>6. /\ \A i \in DOMAIN wire : wire[i].id <= Len(history)
      /\ \A i \in DOMAIN requests : requests[i] <= Len(history)
  BY <1>1 DEF SenderTypes
<1>7. /\ \A i \in DOMAIN wire : wire[i].id \in 1 .. Len(history)
      /\ \A i \in DOMAIN requests : requests[i] \in 1 .. Len(history)
  BY <1>3, <1>4, <1>5, <1>6
<1> QED
  BY <1>2, <1>3, <1>4, <1>7

LEMMA ReceiverTyped == Typed /\ Workers /\ ReceiverStep => Typed'
<1> SUFFICES ASSUME Typed, Workers, ReceiverStep
             PROVE  Typed'
  OBVIOUS
<1>0. ReceiverTypes /\ Len(wire) \in Nat /\ BundleCount \in Nat \ {0}
  BY TypedParts, ProtocolAssumption DEF SenderTypes
<1>1. /\ UNCHANGED <<senderVars, requests, wire, stop, faults>> /\ history' \in Seq(RequestType)
      /\ SameInputs
  BY ReceiverFrame
<1>2. SenderTypes'
  BY <1>1, TypedParts DEF SenderTypes, SameInputs, senderVars
<1>3. CASE ReceiveResponse
  <2>1. 1 \in 1 .. (Cardinality(ResultWorker) + 1)
    BY WorkersNumbered
  <2> QED
    BY <1>0, <1>1, <1>2, <1>3, <2>1, TypedParts
    DEF ReceiveResponse, LaunchWorkers, InboxEmpty, ReceiverTypes
<1>4. CASE GetFuture
  <2>1. rnext \in ResultWorker => rnext + 1 \in 1 .. (Cardinality(ResultWorker) + 1)
    BY WorkersNumbered
  <2> QED
    BY <1>0, <1>1, <1>2, <1>4, <2>1, TypedParts DEF GetFuture, ReceiverTypes
<1>5. CASE ReturnRecords \/ PassOnException
  BY <1>0, <1>1, <1>2, <1>5, TypedParts
  DEF ReturnRecords, PassOnException, EndQuery, ReceiverTypes
<1>6. ASSUME NEW w \in ResultWorker, WorkerNext(w)
      PROVE  ReceiverTypes'
  <2> USE <1>0 DEF WorkerStep, ReceiverTypes
  <2>1. CASE StartWorker(w)
    BY <2>1 DEF StartWorker, Active
  <2>2. CASE ReadCount(w)
    BY <2>2 DEF ReadCount, Active
  <2>3. CASE CompareExchange(w)
    BY <2>3 DEF CompareExchange, Exchange, Active, Workers
  <2>4. CASE ReceiveResult(w)
    <3>1. rpc \in {"futures", "unwind"} /\ Asked \in QueryInput
      BY <2>4, WorkersAtWork DEF ReceiveResult
    <3>2. \A bins, b : RecordsOf(bins, b) \in SUBSET QueryItem
      BY <3>1, ItemAtPosition DEF RecordsOf
    <3>3. /\ taken' = taken + 1 /\ taken # Len(wire) /\ wire' = wire
          /\ \E to \in {"receive", "threw", "merge"} : worker' = [worker EXCEPT ![w] = to]
      BY <2>4 DEF ReceiveResult, InboxEmpty
    <3>4. \/ todo' = todo \/ todo' = [todo EXCEPT ![w] = {}]
          \/ \E bins, b : todo' = [todo EXCEPT ![w] = RecordsOf(bins, b)]
      BY <2>4 DEF ReceiveResult
    <3>5. todo' \in [ResultWorker -> SUBSET QueryItem]
      BY <3>2, <3>4
    <3>6. taken' \in 0 .. Len(wire') /\ worker' \in [ResultWorker -> {"off", "queued", "done", "threw"} \cup Active]
      BY <3>3 DEF Active
    <3>7. UNCHANGED <<rpc, rnext, count, seen, mrs, merged>>
      BY <2>4 DEF ReceiveResult
    <3> QED
      BY <3>5, <3>6, <3>7
  <2>5. CASE TestRecord(w)
    BY <2>5 DEF TestRecord, Active
  <2>6. CASE WriteRecord(w)
    BY <2>6 DEF WriteRecord, Active
  <2>7. CASE NextPackage(w)
    <3>1. Cardinality(Holding) \in Nat \ {0}
      BY <2>7, HoldingChanges DEF NextPackage
    <3>2. count + Cardinality(Holding) + merged = BundleCount
      BY <2>7, WorkersAtWork DEF NextPackage
    <3>3. merged + 1 \in 0 .. BundleCount
      BY <3>1, <3>2
    <3> QED
      BY <2>7, <3>3 DEF NextPackage, Active
  <2> QED
    BY <1>6, <2>1, <2>2, <2>3, <2>4, <2>5, <2>6, <2>7 DEF WorkerNext
<1> QED
  BY <1>2, <1>3, <1>4, <1>5, <1>6, TypedParts DEF ReceiverStep, CallerNext

\* What a step of the sender does to the wire: nothing, or it appends a
\* message about the current request.
LEMMA SendAppends ==
  ASSUME Typed, NEW kind \in {"params", "query", "part", "bad"}, NEW b \in Bundle,
         current # 0, Send(kind, b)
  PROVE  /\ wire' \in Seq(MessageType) /\ Len(wire') = Len(wire) + 1
         /\ wire'[Len(wire) + 1] = Message(kind, current, b)
         /\ \A i \in 1 .. Len(wire) : wire'[i] = wire[i]
         /\ DOMAIN wire = 1 .. Len(wire) /\ DOMAIN wire' = 1 .. Len(wire) + 1
         /\ Len(wire) \in Nat
<1>1. Message(kind, current, b) \in MessageType
  BY DEF Typed, TypeOK, Message, MessageType
<1>2. wire \in Seq(MessageType) /\ wire' = Append(wire, Message(kind, current, b))
  BY DEF Typed, TypeOK, Send
<1>3. /\ wire' \in Seq(MessageType) /\ Len(wire') = Len(wire) + 1
      /\ wire'[Len(wire) + 1] = Message(kind, current, b)
      /\ \A i \in 1 .. Len(wire) : wire'[i] = wire[i]
  BY <1>1, <1>2, AppendProperties
<1> QED
  BY <1>2, <1>3, LenProperties

\* The kinds of messages a sender sends, and when.
Sends(kind, b) ==
  /\ current # 0 /\ current' = current /\ Send(kind, b)
  /\ requests' = requests
  /\ \/ kind = "params" /\ spc = "params" /\ spc' = "poll" /\ b = 0 /\ task' = task
     \/ kind = "query" /\ spc = "query" /\ spc' = "enqueue" /\ b = 0 /\ task' = task
     \/ /\ kind \in {"part", "bad"} /\ spc \in {"futures", "unwind"} /\ spc' = spc
        /\ task[b] = "running" /\ task' = [task EXCEPT ![b] = "sent"]

LEMMA SenderSends ==
  ASSUME Typed, Processing, TasksEnd, SenderStep
  PROVE  wire' = wire \/ \E kind \in {"params", "query", "part", "bad"}, b \in Bundle : Sends(kind, b)
<1>1. CASE RunParams
  <2>1. Sends("params", 0)
    BY <1>1 DEF RunParams, DispatcherStep, Sends, Processing
  <2> QED
    BY <2>1, BundlesCounted
<1>2. CASE SendResponse
  <2>1. Sends("query", 0)
    BY <1>2 DEF SendResponse, DispatcherStep, Sends, Processing
  <2> QED
    BY <2>1, BundlesCounted
<1>3. ASSUME NEW b \in Bundle, SendPackage(b)
      PROVE  Sends("part", b)
  BY <1>3 DEF SendPackage, SendPart, TaskStep, Sends, Processing, TasksEnd
<1>4. ASSUME NEW b \in Bundle, FailTask(b)
      PROVE  wire' = wire \/ Sends("bad", b)
  BY <1>4 DEF FailTask, TaskStep, Sends, Processing, TasksEnd
<1>5. CASE PollRequest \/ StopPolling \/ EnqueueBundles \/ AwaitTask \/ EndRunQuery
           \/ RefuseRequest \/ SetStop \/ \E b \in Bundle : StartTask(b)
  BY <1>5 DEF PollRequest, StopPolling, EnqueueBundles, AwaitTask, EndRunQuery, RefuseRequest,
              SetStop, StartTask
<1> QED
  BY <1>1, <1>2, <1>3, <1>4, <1>5 DEF SenderStep, DispatcherNext

LEMMA SenderTyped == Typed /\ Processing /\ TasksEnd /\ SenderStep => Typed'
<1> SUFFICES ASSUME Typed, Processing, TasksEnd, SenderStep
             PROVE  Typed'
  OBVIOUS
<1>0. /\ ReceiverTypes /\ SenderTypes /\ BundleCount \in Nat \ {0}
      /\ MaxRequests \in Nat /\ MaxFaults \in Nat /\ Len(wire) \in Nat
      /\ UNCHANGED <<receiverVars, taken>>
  BY TypedParts, ProtocolAssumption, SenderFrame DEF SenderTypes
<1>1. /\ wire' \in Seq(MessageType) /\ Len(wire') >= Len(wire) /\ Len(wire') \in Nat
      /\ \A i \in DOMAIN wire' : wire'[i].id <= Len(history)
  <2>1. CASE wire' = wire
    BY <1>0, <2>1 DEF SenderTypes
  <2>2. ASSUME NEW kind \in {"params", "query", "part", "bad"}, NEW b \in Bundle, Sends(kind, b)
        PROVE  <1>1!:
    <3>1. /\ wire' \in Seq(MessageType) /\ Len(wire') = Len(wire) + 1
          /\ wire'[Len(wire) + 1] = Message(kind, current, b)
          /\ \A i \in 1 .. Len(wire) : wire'[i] = wire[i]
          /\ DOMAIN wire = 1 .. Len(wire) /\ DOMAIN wire' = 1 .. Len(wire) + 1
      BY <2>2, SendAppends DEF Sends
    <3>2. wire'[Len(wire) + 1].id = current /\ current <= Len(history)
      BY <1>0, <3>1 DEF Message, SenderTypes
    <3>3. \A i \in 1 .. Len(wire) : wire'[i].id <= Len(history)
      BY <1>0, <3>1 DEF SenderTypes
    <3>4. \A i \in 1 .. Len(wire) + 1 : i \in 1 .. Len(wire) \/ i = Len(wire) + 1
      BY <1>0
    <3>5. \A i \in DOMAIN wire' : wire'[i].id <= Len(history)
      BY <3>1, <3>2, <3>3, <3>4
    <3> QED
      BY <1>0, <3>1, <3>5
  <2> QED
    BY <2>1, <2>2, SenderSends
<1>2. ReceiverTypes'
  BY <1>0, <1>1 DEF ReceiverTypes, receiverVars
<1>3. /\ requests' \in Seq(1 .. MaxRequests)
      /\ \A i \in DOMAIN requests' : requests'[i] <= Len(history)
      /\ current' \in 0 .. MaxRequests /\ current' <= Len(history)
  <2>1. CASE PollRequest
    <3>1. /\ Head(requests) \in 1 .. MaxRequests /\ Tail(requests) \in Seq(1 .. MaxRequests)
          /\ Len(Tail(requests)) = Len(requests) - 1
          /\ \A i \in 1 .. Len(Tail(requests)) : Tail(requests)[i] = requests[i + 1]
          /\ Head(requests) = requests[1] /\ Len(requests) \in Nat \ {0}
      BY <1>0, <2>1, HeadTailProperties, EmptySeq DEF SenderTypes, PollRequest
    <3>2. DOMAIN requests = 1 .. Len(requests) /\ DOMAIN Tail(requests) = 1 .. Len(Tail(requests))
      BY <1>0, <3>1, LenProperties DEF SenderTypes
    <3>3. 1 \in DOMAIN requests /\ \A i \in DOMAIN Tail(requests) : i + 1 \in DOMAIN requests
      BY <3>1, <3>2
    <3>4. /\ Head(requests) <= Len(history)
          /\ \A i \in DOMAIN Tail(requests) : Tail(requests)[i] <= Len(history)
      BY <1>0, <3>1, <3>2, <3>3 DEF SenderTypes
    <3>5. requests' = Tail(requests) /\ current' = Head(requests)
      BY <2>1 DEF PollRequest
    <3>6. Head(requests) \in 0 .. MaxRequests
      BY <1>0, <3>1
    <3> QED
      BY <3>1, <3>4, <3>5, <3>6
  <2>2. ASSUME ~PollRequest
        PROVE  UNCHANGED <<requests, current>>
    BY <2>2 DEF SenderStep, DispatcherNext, StopPolling, RunParams, SendResponse,
       EnqueueBundles, AwaitTask, EndRunQuery, RefuseRequest, SetStop, StartTask, SendPackage,
       FailTask, TaskStep, senderVars
  <2> QED
    BY <1>0, <2>1, <2>2 DEF SenderTypes
<1>4. /\ spc' \in {"poll", "params", "query", "enqueue", "futures", "unwind", "stopped"}
      /\ snext' \in 0 .. BundleCount
      /\ task' \in [Bundle -> {"none", "queued", "running", "sent", "failed"}]
      /\ stop' \in BOOLEAN /\ faults' \in 0 .. MaxFaults
  <2> USE <1>0 DEF SenderTypes
  <2>1. CASE DispatcherNext
    <3>1. snext \in Bundle => snext + 1 \in 0 .. BundleCount
      BY DEF Bundle
    <3> QED
      BY <2>1, <3>1
      DEF DispatcherNext, PollRequest, StopPolling, RunParams, SendResponse, EnqueueBundles,
          AwaitTask, EndRunQuery, DispatcherStep
  <2>2. CASE RefuseRequest \/ SetStop
    <3>1. faults' = faults + 1 /\ faults < MaxFaults
      BY <2>2 DEF RefuseRequest, SetStop, Fault
    <3>2. spc' \in {spc, "poll"} /\ snext' = snext /\ task' = task /\ stop' \in {stop, TRUE}
      BY <2>2 DEF RefuseRequest, SetStop, DispatcherStep, senderVars
    <3>3. stop' \in BOOLEAN
      BY <2>2 DEF RefuseRequest, SetStop, DispatcherStep
    <3>4. faults' \in 0 .. MaxFaults
      BY <3>1
    <3> QED
      BY <3>2, <3>3, <3>4
  <2>3. ASSUME NEW b \in Bundle, StartTask(b) \/ SendPackage(b) \/ FailTask(b)
        PROVE  <1>4!:
    BY <2>3 DEF StartTask, SendPackage, FailTask, TaskStep, Fault
  <2> QED
    BY <2>1, <2>2, <2>3 DEF SenderStep
<1> QED
  BY <1>0, <1>1, <1>2, <1>3, <1>4, TypedParts DEF SenderTypes, receiverVars

----------------------------------------------------------------------------
(***************************************************************************)
(* The claims of the result workers.                                       *)
(***************************************************************************)

\* A step of one worker keeps the claims exact, and the workers done.
LEMMA WorkerKeepsClaims ==
  ASSUME Typed, Workers, NEW w \in ResultWorker, WorkerNext(w)
  PROVE  Workers'
<1> DEFINE held == {"receive", "merge", "write", "threw"}
<1>0. /\ rpc \in {"futures", "unwind"} /\ count + Cardinality(Holding) + merged = BundleCount
      /\ worker \in [ResultWorker -> {"off", "queued", "done", "threw"} \cup Active]
      /\ seen \in [ResultWorker -> 0 .. BundleCount] /\ count \in 0 .. BundleCount
      /\ merged \in 0 .. BundleCount /\ BundleCount \in Nat \ {0}
  <2>1. worker[w] # "off"
    BY DEF WorkerNext, StartWorker, ReadCount, CompareExchange, Exchange, ReceiveResult,
           TestRecord, WriteRecord, NextPackage, WorkerStep
  <2> QED
    BY <2>1, WorkersAtWork, ProtocolAssumption DEF Typed, TypeOK
<1>1. ASSUME NEW from, NEW to, WorkerStep(w, from, to),
             from \notin {"done", "off"},
             to = "done" => count' = 0,
             to = "exchange" => seen'[w] # 0,
             count' # count => count # 0 /\ count' = count - 1 /\ \A v \in ResultWorker : worker[v] # "done",
             \A v \in ResultWorker : v # w => seen'[v] = seen[v],
             merged' \in Nat, count' \in Nat,
             count' + (IF to \in held THEN 1 ELSE 0) + merged'
               = count + (IF from \in held THEN 1 ELSE 0) + merged
      PROVE  Workers'
  <2>1. UNCHANGED <<history, rpc, rnext>> /\ worker' = [worker EXCEPT ![w] = to] /\ worker[w] = from
    BY <1>1 DEF WorkerStep
  <2>2. /\ worker'[w] = to /\ \A v \in ResultWorker : v # w => worker'[v] = worker[v]
    BY <1>0, <2>1
  <2>3. count' + Cardinality(Holding') + merged' = BundleCount
    <3> DEFINE one == IF to \in held THEN 1 ELSE 0
               other == IF from \in held THEN 1 ELSE 0
    <3>1. /\ Cardinality(Holding) \in Nat /\ one \in Nat /\ other \in Nat
          /\ Cardinality(Holding') = Cardinality(Holding) + one - other
      BY <1>1, HoldingChanges
    <3>2. PICK c \in Nat, m \in Nat : c = count' /\ m = merged'
      BY <1>1
    <3>3. c + one + m = count + other + merged
      BY <1>1, <3>2
    <3> HIDE DEF one, other
    <3>4. c + Cardinality(Holding') + m = BundleCount
      BY <1>0, <3>1, <3>3
    <3> QED
      BY <3>2, <3>4
  <2>4. /\ \A v \in ResultWorker : worker'[v] = "exchange" => seen'[v] # 0
        /\ \A v \in ResultWorker : worker'[v] = "done" => count' = 0
        /\ \A v \in ResultWorker : v < rnext => worker'[v] = "done"
    BY <1>0, <1>1, <2>1, <2>2 DEF Workers
  <2> QED
    BY <1>0, <2>1, <2>3, <2>4 DEF Workers, ForParams
<1> HIDE DEF held
<1>2. CASE StartWorker(w)
  BY <1>0, <1>1, <1>2 DEF StartWorker, held
<1>3. CASE ReadCount(w)
  <2> DEFINE to == IF count = 0 THEN "done" ELSE "exchange"
  <2>1. /\ WorkerStep(w, "claim", to) /\ UNCHANGED <<count, merged>>
        /\ seen'[w] = count /\ \A v \in ResultWorker : v # w => seen'[v] = seen[v]
    BY <1>0, <1>3 DEF ReadCount
  <2> QED
    BY <1>0, <1>1, <2>1 DEF held
<1>4. CASE CompareExchange(w)
  <2>1. seen' = seen /\ merged' = merged
    BY <1>4 DEF CompareExchange
  <2>2. CASE count = seen[w] /\ WorkerStep(w, "exchange", "receive") /\ count' = count - 1
    <3>1. count # 0 /\ \A v \in ResultWorker : worker[v] # "done"
      BY <1>0, <2>2 DEF WorkerStep, Workers
    <3>2. count' \in Nat
      BY <1>0, <2>2, <3>1
    <3> QED
      BY <1>0, <1>1, <2>1, <2>2, <3>1, <3>2 DEF held
  <2>3. CASE WorkerStep(w, "exchange", "claim") /\ count' = count
    BY <1>0, <1>1, <2>1, <2>3 DEF held
  <2> QED
    BY <1>4, <2>2, <2>3 DEF CompareExchange, Exchange
<1>5. CASE ReceiveResult(w)
  <2>1. /\ UNCHANGED <<count, seen, merged>>
        /\ \E to \in {"receive", "threw", "merge"} : WorkerStep(w, "receive", to)
    BY <1>5 DEF ReceiveResult
  <2> QED
    BY <1>0, <1>1, <2>1 DEF held
<1>6. CASE TestRecord(w)
  <2>1. /\ UNCHANGED <<count, seen, merged>>
        /\ \E to \in {"threw", "write"} : WorkerStep(w, "merge", to)
    BY <1>6 DEF TestRecord
  <2> QED
    BY <1>0, <1>1, <2>1 DEF held
<1>7. CASE WriteRecord(w)
  BY <1>0, <1>1, <1>7 DEF WriteRecord, held
<1>8. CASE NextPackage(w)
  BY <1>0, <1>1, <1>8 DEF NextPackage, held
<1> QED
  BY <1>2, <1>3, <1>4, <1>5, <1>6, <1>7, <1>8 DEF WorkerNext

LEMMA ReceiverWorkers == Typed /\ Workers /\ ReceiverStep => Workers'
<1> SUFFICES ASSUME Typed, Workers, ReceiverStep
             PROVE  Workers'
  OBVIOUS
<1>0. /\ SameInputs /\ history \in Seq(RequestType) /\ history' \in Seq(RequestType)
      /\ rpc \in {"idle", "response", "futures", "unwind"} /\ rnext \in Nat
      /\ worker \in [ResultWorker -> {"off", "queued", "done", "threw"} \cup Active]
      /\ BundleCount \in Nat
  <2>1. SameInputs /\ history' \in Seq(RequestType)
    BY ReceiverFrame
  <2> QED
    BY <2>1, WorkersNumbered, ProtocolAssumption DEF Typed, TypeOK
<1>1. /\ history # <<>> => history' # <<>>
      /\ history # <<>> => ForParams(Len(history))' = ForParams(Len(history))
  <2> SUFFICES ASSUME history # <<>>
               PROVE  history' # <<>> /\ ForParams(Len(history))' = ForParams(Len(history))
    OBVIOUS
  <2>1. Len(history) \in DOMAIN history
    BY <1>0, EmptySeq, LenProperties
  <2> QED
    BY <1>0, <2>1, EmptySeq DEF SameInputs, ForParams
<1>2. CASE ReceiveResponse
  <2>1. rpc = "response" /\ \A w \in ResultWorker : worker[w] = "off"
    BY <1>2 DEF ReceiveResponse, Workers
  <2>2. CASE LaunchWorkers
    <3>1. rpc' = "futures"
      BY <2>2 DEF LaunchWorkers
    <3>2. ~ForParams(Len(history))
      BY <1>2, <2>1, <3>1 DEF ReceiveResponse, ForParams, Asked
    <3>3. \A w \in ResultWorker : worker'[w] = "queued"
      BY <2>2 DEF LaunchWorkers
    <3>4. Holding' = {} /\ Cardinality(Holding') = 0
      BY <3>3, FS_EmptySet DEF Holding
    <3>5. count' + Cardinality(Holding') + merged' = BundleCount
      BY <1>0, <2>2, <3>4 DEF LaunchWorkers
    <3>6. \A w \in ResultWorker : ~(w < rnext')
      BY <2>2, WorkersNumbered DEF LaunchWorkers
    <3> QED
      BY <1>1, <2>1, <2>2, <3>2, <3>3, <3>5, <3>6 DEF LaunchWorkers, Workers
  <2>3. CASE rpc' \in {"idle", "response"} /\ worker' = worker
    BY <1>1, <2>1, <2>3 DEF Workers
  <2> QED
    BY <1>2, <2>1, <2>2, <2>3 DEF ReceiveResponse
<1>3. CASE GetFuture
  <2>1. /\ rpc = "futures" /\ rpc' \in {"futures", "unwind"}
        /\ UNCHANGED <<history, count, worker, seen, merged>>
        /\ rnext' = rnext \/ (rnext' = rnext + 1 /\ worker[rnext] = "done" /\ rnext \in ResultWorker)
    BY <1>3 DEF GetFuture
  <2>2. Holding' = Holding
    BY <2>1 DEF Holding
  <2>3. \A w \in ResultWorker : w < rnext' => worker[w] = "done"
    <3>1. \A w \in ResultWorker : w \in Nat
      BY WorkersNumbered
    <3>2. \A w \in ResultWorker : w < rnext + 1 => w < rnext \/ w = rnext
      BY <1>0, <3>1
    <3> QED
      BY <2>1, <3>2 DEF Workers
  <2> QED
    BY <2>1, <2>2, <2>3 DEF Workers, ForParams
<1>4. CASE ReturnRecords \/ PassOnException
  <2>1. rpc' = "idle" /\ seen' = seen /\ \A w \in ResultWorker : worker'[w] = "off"
    BY <1>4 DEF ReturnRecords, PassOnException, EndQuery
  <2> QED
    BY <2>1 DEF Workers
<1> QED
  BY <1>2, <1>3, <1>4, WorkerKeepsClaims DEF ReceiverStep, CallerNext

----------------------------------------------------------------------------
(***************************************************************************)
(* The invariant holds at first and after a request.                       *)
(***************************************************************************)

\* What holds at first, of an idle receiver and a sender that polls.
LEMMA InitiallyInv == Init => ProtocolInv
<1> SUFFICES ASSUME Init
             PROVE  ProtocolInv
  OBVIOUS
<1> USE DEF Init
<1>1. /\ BundleCount \in Nat /\ MaxRequests \in Nat /\ MaxFaults \in Nat
      /\ 1 \in 1 .. (Cardinality(ResultWorker) + 1)
  BY ProtocolAssumption, WorkersNumbered
<1>2. /\ Len(history) = 0 /\ Len(wire) = 0 /\ DOMAIN history = {} /\ DOMAIN wire = {}
      /\ DOMAIN requests = {}
  OBVIOUS
<1>3. ReceiverTypes
  BY <1>1, <1>2 DEF ReceiverTypes
<1>4. SenderTypes
  <2>1. /\ history \in Seq(RequestType) /\ requests \in Seq(1 .. MaxRequests)
        /\ wire \in Seq(MessageType) /\ Len(history) <= MaxRequests
    BY <1>1, <1>2
  <2>2. current \in 0 .. MaxRequests /\ snext \in 0 .. BundleCount /\ faults \in 0 .. MaxFaults
    BY <1>1
  <2>3. current <= Len(history)
    BY <1>2
  <2>4. stop \in BOOLEAN
    OBVIOUS
  <2>5. /\ \A i \in DOMAIN requests : requests[i] <= Len(history)
        /\ \A i \in DOMAIN wire : wire[i].id <= Len(history)
    BY <1>2
  <2>6. /\ spc \in {"poll", "params", "query", "enqueue", "futures", "unwind", "stopped"}
        /\ task \in [Bundle -> {"none", "queued", "running", "sent", "failed"}]
    OBVIOUS
  <2> QED
    BY <2>1, <2>2, <2>3, <2>4, <2>5, <2>6 DEF SenderTypes
<1>5. Typed
  BY <1>3, <1>4, TypedParts
<1>6. Processing /\ TasksEnd /\ Workers /\ RequestsInOrder /\ SentSoFar /\ StreamOrdered /\ OnePending
  BY <1>2 DEF Processing, TasksEnd, Workers, RequestsInOrder, SentSoFar, StreamOrdered, OnePending
<1> QED
  BY <1>5, <1>6 DEF ProtocolInv

\* A request is one more, pending, and on its way.
LEMMA RequestAppends ==
  ASSUME Typed, NEW input \in QueryInput \cup {Params}, Request(input)
  PROVE  LET n == Len(history) + 1
         IN  /\ Len(history) \in Nat /\ n <= MaxRequests
             /\ history' \in Seq(RequestType) /\ Len(history') = n
             /\ DOMAIN history = 1 .. Len(history) /\ DOMAIN history' = 1 .. n
             /\ history'[n] = [input |-> input, outcome |-> Pending]
             /\ \A i \in 1 .. Len(history) : history'[i] = history[i]
             /\ Len(requests) \in Nat
             /\ requests' \in Seq(1 .. MaxRequests) /\ Len(requests') = Len(requests) + 1
             /\ DOMAIN requests = 1 .. Len(requests) /\ DOMAIN requests' = 1 .. Len(requests) + 1
             /\ requests'[Len(requests) + 1] = n
             /\ \A i \in 1 .. Len(requests) : requests'[i] = requests[i]
<1> DEFINE n == Len(history) + 1
           e == [input |-> input, outcome |-> Pending]
<1>1. /\ history \in Seq(RequestType) /\ Len(history) \in Nat /\ DOMAIN history = 1 .. Len(history)
      /\ requests \in Seq(1 .. MaxRequests) /\ Len(requests) \in Nat
      /\ DOMAIN requests = 1 .. Len(requests)
  BY LenProperties DEF Typed, TypeOK
<1>2. e \in RequestType
  BY DEF RequestType
<1>3. n <= MaxRequests /\ n \in 1 .. MaxRequests
  BY <1>1, ProtocolAssumption DEF Request
<1>4. history' = Append(history, e) /\ requests' = Append(requests, n)
  BY DEF Request
<1> HIDE DEF e
<1>5. /\ history' \in Seq(RequestType) /\ Len(history') = n /\ history'[n] = e
      /\ \A i \in 1 .. Len(history) : history'[i] = history[i]
  BY <1>1, <1>2, <1>4, AppendProperties
<1> HIDE DEF n
<1>6. /\ requests' \in Seq(1 .. MaxRequests) /\ Len(requests') = Len(requests) + 1
      /\ requests'[Len(requests) + 1] = n
      /\ \A i \in 1 .. Len(requests) : requests'[i] = requests[i]
  BY <1>1, <1>3, <1>4, AppendProperties
<1>7. DOMAIN history' = 1 .. n /\ DOMAIN requests' = 1 .. Len(requests) + 1
  BY <1>5, <1>6, LenProperties
<1> QED
  BY <1>1, <1>3, <1>5, <1>6, <1>7 DEF n, e

LEMMA RequestKeeps ==
  ASSUME ProtocolInv, NEW input \in QueryInput \cup {Params}, Request(input)
  PROVE  ProtocolInv'
<1> DEFINE n == Len(history) + 1
<1>0. /\ ReceiverTypes /\ SenderTypes /\ Typed /\ Processing /\ TasksEnd /\ Workers
      /\ RequestsInOrder /\ SentSoFar /\ StreamOrdered /\ OnePending
  BY TypedParts DEF ProtocolInv
<1>1. /\ Len(history) \in Nat /\ n <= MaxRequests
      /\ history' \in Seq(RequestType) /\ Len(history') = n
      /\ DOMAIN history = 1 .. Len(history) /\ DOMAIN history' = 1 .. n
      /\ history'[n] = [input |-> input, outcome |-> Pending]
      /\ \A i \in 1 .. Len(history) : history'[i] = history[i]
      /\ Len(requests) \in Nat
      /\ requests' \in Seq(1 .. MaxRequests) /\ Len(requests') = Len(requests) + 1
      /\ DOMAIN requests = 1 .. Len(requests) /\ DOMAIN requests' = 1 .. Len(requests) + 1
      /\ requests'[Len(requests) + 1] = n
      /\ \A i \in 1 .. Len(requests) : requests'[i] = requests[i]
  BY <1>0, RequestAppends
<1>2. /\ rpc = "idle" /\ rpc' = "response"
      /\ UNCHANGED <<rnext, count, worker, seen, todo, mrs, merged, senderVars, wire, taken, stop, faults>>
  BY DEF Request
<1>3. /\ \A i \in 1 .. n : i \in 1 .. Len(history) \/ i = n
      /\ \A i \in 1 .. Len(requests) + 1 : i \in 1 .. Len(requests) \/ i = Len(requests) + 1
      /\ history' # <<>> /\ n # 0
  BY <1>1, EmptySeq
<1>4. Typed'
  <2>1. /\ \A i \in DOMAIN requests' : requests'[i] <= n
        /\ current <= n /\ \A i \in DOMAIN wire : wire[i].id <= n
    <3>1. /\ \A i \in DOMAIN requests : requests[i] <= Len(history) /\ requests[i] \in Nat
          /\ current <= Len(history) /\ current \in Nat
          /\ \A i \in DOMAIN wire : wire[i].id <= Len(history) /\ wire[i].id \in Nat
      BY <1>0, NumbersTyped
    <3>2. \A i \in 1 .. Len(requests) : requests'[i] <= n
      BY <1>1, <3>1
    <3> QED
      BY <1>1, <1>3, <3>1, <3>2
  <2>2. SenderTypes'
    BY <1>0, <1>1, <1>2, <2>1 DEF SenderTypes, senderVars
  <2>3. ReceiverTypes'
    BY <1>0, <1>2 DEF ReceiverTypes
  <2> QED
    BY <2>2, <2>3, TypedParts
<1>5. Processing'
  <2>1. \A i \in 1 .. Len(history) : ForParams(i)' = ForParams(i)
    BY <1>1 DEF ForParams
  <2>2. /\ \A i \in DOMAIN wire : wire[i].id \in 1 .. Len(history)
        /\ current # 0 => current \in 1 .. Len(history)
    BY <1>0, NumbersTyped
  <2> QED
    BY <1>0, <1>2, <2>1, <2>2 DEF Processing, senderVars
<1>6. TasksEnd' /\ SentSoFar' /\ StreamOrdered'
  BY <1>0, <1>2 DEF TasksEnd, SentSoFar, StreamOrdered, senderVars
<1>7. Workers'
  BY <1>0, <1>2, <1>3 DEF Workers
<1>8. RequestsInOrder'
  <2>1. n > current /\ \A i \in DOMAIN requests : requests[i] < n
    BY <1>0, <1>1, NumbersTyped
  <2>2. \A i \in DOMAIN requests' : requests'[i] > current
    BY <1>0, <1>1, <1>3, <2>1 DEF RequestsInOrder
  <2>3. \A i, j \in DOMAIN requests' : i < j => requests'[i] < requests'[j]
    <3> SUFFICES ASSUME NEW i \in DOMAIN requests', NEW j \in DOMAIN requests', i < j
                 PROVE  requests'[i] < requests'[j]
      OBVIOUS
    <3>1. i \in 1 .. Len(requests)
      BY <1>1
    <3>2. CASE j \in 1 .. Len(requests)
      BY <1>0, <1>1, <3>1, <3>2 DEF RequestsInOrder
    <3>3. CASE j = Len(requests) + 1
      BY <1>1, <2>1, <3>1, <3>3
    <3> QED
      BY <1>1, <1>3, <3>2, <3>3
  <2> QED
    BY <1>0, <1>2, <2>2, <2>3 DEF RequestsInOrder, senderVars
<1>9. OnePending'
  <2>1. \A i \in 1 .. Len(history) : history'[i].outcome # Pending /\ i # n
    BY <1>0, <1>1, <1>2 DEF OnePending
  <2> QED
    BY <1>1, <1>2, <1>3, <2>1 DEF OnePending
<1> QED
  BY <1>4, <1>5, <1>6, <1>7, <1>8, <1>9 DEF ProtocolInv

----------------------------------------------------------------------------
(***************************************************************************)
(* The invariant holds after a step of the receiver.                       *)
(***************************************************************************)

\* A request ends with an outcome that is not Pending.
LEMMA ReceiverPending ==
  ASSUME Typed, Workers, OnePending, ReceiverStep
  PROVE  OnePending'
<1>1. SameInputs /\ DOMAIN history' = DOMAIN history /\ history \in Seq(RequestType)
  BY ReceiverFrame DEF Typed
<1>2. ASSUME rpc' = "idle", history # <<>>,
             NEW outcome \in {Threw, Params} \cup SUBSET QueryItem, EndRequest(outcome)
      PROVE  OnePending'
  <2>1. outcome # Pending
    BY ProtocolAssumption
  <2>2. \A i \in DOMAIN history : history'[i].outcome = IF i = Len(history) THEN outcome ELSE history[i].outcome
    BY <1>1, <1>2, EndRequestChanges
  <2> QED
    BY <1>1, <1>2, <2>1, <2>2 DEF OnePending
<1>3. ASSUME history' = history, rpc # "idle", rpc' # "idle"
      PROVE  OnePending'
  BY <1>3 DEF OnePending
<1>4. CASE ReceiveResponse
  <2>1. rpc = "response" /\ history # <<>>
    BY <1>4 DEF ReceiveResponse, Workers
  <2>2. \/ rpc' = "idle" /\ (EndRequest(Threw) \/ EndRequest(Params))
        \/ history' = history /\ rpc' # "idle"
    BY <1>4, <2>1 DEF ReceiveResponse, LaunchWorkers
  <2> QED
    BY <1>2, <1>3, <2>1, <2>2
<1>5. CASE ReturnRecords \/ PassOnException
  <2>1. history # <<>> /\ mrs \in SUBSET QueryItem
    BY <1>5 DEF ReturnRecords, PassOnException, Workers, Typed, TypeOK
  <2>2. rpc' = "idle" /\ (EndRequest(mrs) \/ EndRequest(Threw))
    BY <1>5 DEF ReturnRecords, PassOnException, EndQuery
  <2> QED
    BY <1>2, <2>1, <2>2
<1>6. CASE GetFuture
  BY <1>3, <1>6 DEF GetFuture
<1>7. ASSUME NEW w \in ResultWorker, WorkerNext(w)
      PROVE  OnePending'
  <2>1. UNCHANGED <<history, rpc>>
    BY <1>7 DEF WorkerNext, StartWorker, ReadCount, CompareExchange, Exchange, ReceiveResult,
                TestRecord, WriteRecord, NextPackage, WorkerStep
  <2> QED
    BY <2>1 DEF OnePending
<1> QED
  BY <1>4, <1>5, <1>6, <1>7 DEF ReceiverStep, CallerNext

LEMMA ReceiverKeeps == ProtocolInv /\ ReceiverStep => ProtocolInv'
<1> SUFFICES ASSUME ProtocolInv, ReceiverStep
             PROVE  ProtocolInv'
  OBVIOUS
<1> USE DEF ProtocolInv
<1>1. /\ UNCHANGED <<spc, current, task, requests, wire>> /\ SameInputs
      /\ DOMAIN history' = DOMAIN history
  BY ReceiverFrame DEF senderVars
<1>2. Typed' /\ Workers' /\ OnePending'
  BY ReceiverTyped, ReceiverWorkers, ReceiverPending
<1>3. Processing'
  <2>1. /\ \A i \in DOMAIN wire : wire[i].id \in DOMAIN history
        /\ current # 0 => current \in DOMAIN history
    BY NumbersTyped
  <2>2. \A i \in DOMAIN history : ForParams(i)' = ForParams(i)
    BY <1>1 DEF SameInputs, ForParams
  <2> QED
    BY <1>1, <2>1, <2>2 DEF Processing
<1>4. TasksEnd' /\ RequestsInOrder' /\ SentSoFar' /\ StreamOrdered'
  BY <1>1 DEF TasksEnd, RequestsInOrder, SentSoFar, StreamOrdered
<1> QED
  BY <1>2, <1>3, <1>4

----------------------------------------------------------------------------
(***************************************************************************)
(* The invariant holds after a step of the sender.                         *)
(***************************************************************************)

\* A step that sends appends to the stream in its order.
LEMMA SendKeepsOrder ==
  ASSUME ProtocolInv, NEW kind \in {"params", "query", "part", "bad"}, NEW b \in Bundle,
         Sends(kind, b), history' = history
  PROVE  Processing' /\ TasksEnd' /\ RequestsInOrder' /\ SentSoFar' /\ StreamOrdered'
<1> DEFINE n == Len(wire) + 1
<1> USE DEF ProtocolInv
<1>1. /\ DOMAIN wire = 1 .. Len(wire) /\ DOMAIN wire' = 1 .. n /\ Len(wire) \in Nat
      /\ wire'[n] = Message(kind, current, b)
      /\ \A i \in 1 .. Len(wire) : wire'[i] = wire[i]
  BY SendAppends DEF Sends
<1>2. /\ wire'[n].kind = kind /\ wire'[n].id = current /\ wire'[n].bundle = b
      /\ \A i \in 1 .. n : i \in 1 .. Len(wire) \/ i = n
      /\ n \notin 1 .. Len(wire) /\ n \in 1 .. n /\ 1 .. Len(wire) \subseteq 1 .. n
  BY <1>1 DEF Message
<1> HIDE DEF n
<1>3. /\ UNCHANGED <<current, requests>> /\ current # 0
      /\ task \in [Bundle -> {"none", "queued", "running", "sent", "failed"}]
      /\ current \in Nat /\ \A i \in DOMAIN wire : wire[i].id \in Nat
  BY NumbersTyped DEF Sends, Typed, TypeOK
<1>4. /\ \A i \in 1 .. Len(wire) : wire[i].id <= current
      /\ kind \in {"params", "query"} => \A i \in 1 .. Len(wire) : wire[i].id # current
      /\ kind \in {"part", "bad"} =>
           \A i \in 1 .. Len(wire) : wire[i].id = current =>
             wire[i].kind = "query" \/ wire[i].bundle # b
  <2>1. /\ kind \in {"params", "query"} => spc \in {"params", "query"}
        /\ kind \in {"part", "bad"} => spc \in {"futures", "unwind"} /\ task[b] = "running"
    BY DEF Sends
  <2>2. kind \in {"params", "query"} => \A i \in 1 .. Len(wire) : wire[i].id < current
    BY <1>1, <2>1 DEF SentSoFar
  <2> QED
    BY <1>1, <1>3, <2>1, <2>2 DEF SentSoFar, RequestsInOrder
<1>5. Processing'
  <2>1. kind = "params" <=> ForParams(current)
    BY <1>3 DEF Processing, Sends
  <2>2. /\ spc' = "params" => spc = "params"
        /\ spc' \in {"query", "enqueue", "futures", "unwind"} => spc \in {"query", "futures", "unwind"}
    BY DEF Sends
  <2>3. \A i \in 1 .. n : wire'[i].kind = "params" <=> ForParams(wire'[i].id)
    BY <1>1, <1>2, <2>1 DEF Processing
  <2> QED
    BY <1>1, <1>3, <2>2, <2>3 DEF Processing, ForParams
<1>6. TasksEnd'
  BY <1>3 DEF TasksEnd, Sends
<1>7. RequestsInOrder'
  BY <1>1, <1>2, <1>3 DEF RequestsInOrder
<1>8. SentSoFar'
  <2>1. spc' \notin {"params", "query"}
    BY DEF Sends
  <2>2. CASE spc' = "enqueue"
    <3>1. kind = "query" /\ b = 0
      BY <2>2 DEF Sends
    <3> QED
      BY <1>1, <1>2, <1>3, <1>4, <2>2, <3>1 DEF SentSoFar
  <2>3. CASE spc' \in {"futures", "unwind"}
    <3>1. /\ spc' = spc /\ kind \in {"part", "bad"} /\ task[b] = "running"
          /\ task' = [task EXCEPT ![b] = "sent"]
      BY <2>3 DEF Sends
    <3>2. task'[b] = "sent" /\ \A c \in Bundle : task[c] = "sent" => task'[c] = "sent"
      BY <1>3, <3>1
    <3>3. \A i \in DOMAIN wire : wire[i].bundle \in Bundle
      BY NumbersTyped DEF MessageType
    <3>4. \A i \in DOMAIN wire' : wire'[i].id = current /\ wire'[i].kind # "query" =>
             task'[wire'[i].bundle] = "sent"
      <4> SUFFICES ASSUME NEW i \in DOMAIN wire', wire'[i].id = current, wire'[i].kind # "query"
                   PROVE  task'[wire'[i].bundle] = "sent"
        OBVIOUS
      <4>1. CASE i = n
        BY <1>2, <3>2, <4>1
      <4>2. CASE i \in 1 .. Len(wire)
        BY <1>1, <2>3, <3>1, <3>2, <3>3, <4>2 DEF SentSoFar
      <4> QED
        BY <1>1, <1>2, <4>1, <4>2
    <3>5. \E i \in DOMAIN wire' : wire'[i] = Message("query", current, 0)
      BY <1>1, <1>2, <2>3, <3>1 DEF SentSoFar
    <3> QED
      BY <1>3, <2>3, <3>4, <3>5 DEF SentSoFar
  <2> QED
    BY <2>1, <2>2, <2>3 DEF SentSoFar
<1>9. StreamOrdered'
  <2>1. \A i, j \in DOMAIN wire' : i < j =>
          /\ wire'[i].id <= wire'[j].id
          /\ wire'[i].id = wire'[j].id =>
               wire'[i].bundle # wire'[j].bundle \/ wire'[i].kind = "query"
    <3> SUFFICES ASSUME NEW i \in 1 .. n, NEW j \in 1 .. n, i < j
                 PROVE  /\ wire'[i].id <= wire'[j].id
                        /\ wire'[i].id = wire'[j].id =>
                             wire'[i].bundle # wire'[j].bundle \/ wire'[i].kind = "query"
      BY <1>1
    <3>1. i \in 1 .. Len(wire)
      BY <1>1 DEF n
    <3>2. CASE j \in 1 .. Len(wire)
      BY <1>1, <3>1, <3>2 DEF StreamOrdered
    <3>3. CASE j = n
      BY <1>1, <1>2, <1>4, <3>1, <3>3
    <3> QED
      BY <1>2, <3>2, <3>3
  <2>2. \A j \in DOMAIN wire' : wire'[j].kind \in {"part", "bad"} =>
          \E i \in 1 .. (j - 1) : wire'[i] = Message("query", wire'[j].id, 0)
    <3> SUFFICES ASSUME NEW j \in 1 .. n, wire'[j].kind \in {"part", "bad"}
                 PROVE  \E i \in 1 .. (j - 1) : wire'[i] = Message("query", wire'[j].id, 0)
      BY <1>1
    <3>1. CASE j \in 1 .. Len(wire)
      <4>1. PICK i \in 1 .. (j - 1) : wire[i] = Message("query", wire[j].id, 0)
        BY <1>1, <3>1 DEF StreamOrdered
      <4>2. i \in 1 .. Len(wire)
        BY <1>1, <3>1
      <4> QED
        BY <1>1, <3>1, <4>1, <4>2
    <3>2. CASE j = n
      <4>1. spc \in {"futures", "unwind"}
        BY <1>2, <3>2 DEF Sends
      <4>2. PICK i \in DOMAIN wire : wire[i] = Message("query", current, 0)
        BY <4>1 DEF SentSoFar
      <4>3. i \in 1 .. (j - 1)
        BY <1>1, <3>2 DEF n
      <4> QED
        BY <1>1, <1>2, <3>2, <4>2, <4>3
    <3> QED
      BY <1>2, <3>1, <3>2
  <2> QED
    BY <2>1, <2>2 DEF StreamOrdered
<1> QED
  BY <1>5, <1>6, <1>7, <1>8, <1>9

\* A step that sends nothing leaves the stream, and every task that was sent.
Quiet ==
  /\ UNCHANGED <<history, wire, current, requests>>
  /\ \/ spc' \in {"poll", "stopped"} /\ task' = task
        /\ (spc \in {"futures", "unwind"} => PoolDrained)
     \/ spc' = spc /\ task' = task
     \/ spc = "futures" /\ spc' = "unwind" /\ task' = task
     \/ spc = "enqueue" /\ spc' = "futures" /\ \A b \in Bundle : task'[b] = "queued"
     \/ /\ spc' = spc
        /\ \E b \in Bundle, to \in {"running", "failed"} :
             task[b] \in {"queued", "running"} /\ task' = [task EXCEPT ![b] = to]

LEMMA SenderQuiet ==
  ASSUME ProtocolInv, SenderStep
  PROVE  \/ PollRequest \/ Quiet
         \/ \E kind \in {"params", "query", "part", "bad"}, b \in Bundle : Sends(kind, b)
<1>0. history' = history
  BY SenderFrame DEF receiverVars
<1>1. CASE RunParams \/ SendResponse \/ \E b \in Bundle : SendPackage(b)
  <2>1. wire' # wire
    <3>1. \E kind, b : wire' = Append(wire, Message(kind, current, b))
      BY <1>1 DEF RunParams, SendResponse, SendPackage, SendPart, Send
    <3>2. wire \in Seq(MessageType)
      BY DEF ProtocolInv, Typed, TypeOK
    <3>3. \A m : Len(Append(wire, m)) = Len(wire) + 1 /\ Len(wire) \in Nat
      BY <3>2
    <3> QED
      BY <3>1, <3>3
  <2> QED
    BY <2>1, SenderSends DEF ProtocolInv
<1>2. CASE StopPolling \/ RefuseRequest \/ EnqueueBundles \/ AwaitTask \/ EndRunQuery \/ SetStop
  BY <1>0, <1>2 DEF StopPolling, RefuseRequest, EnqueueBundles, AwaitTask, EndRunQuery, SetStop,
     DispatcherStep, senderVars, Quiet
<1>3. ASSUME NEW b \in Bundle, StartTask(b)
      PROVE  Quiet
  BY <1>0, <1>3 DEF StartTask, TaskStep, Quiet
<1>4. ASSUME NEW b \in Bundle, FailTask(b)
      PROVE  Quiet \/ Sends("bad", b)
  BY <1>0, <1>4 DEF FailTask, TaskStep, Quiet, Sends, ProtocolInv, Processing, TasksEnd
<1> QED
  BY <1>1, <1>2, <1>3, <1>4 DEF SenderStep, DispatcherNext

\* Neither that order nor the account of what was sent is disturbed by it.
LEMMA QuietKeepsOrder ==
  ASSUME ProtocolInv, Quiet
  PROVE  Processing' /\ TasksEnd' /\ RequestsInOrder' /\ SentSoFar' /\ StreamOrdered'
<1> USE DEF ProtocolInv
<1>1. /\ UNCHANGED <<history, wire, current, requests>>
      /\ spc' \in {spc, "poll", "stopped", "unwind", "futures"}
      /\ spc' = "unwind" => spc \in {"unwind", "futures"}
      /\ spc' = "futures" => spc \in {"enqueue", "futures"}
      /\ task \in [Bundle -> {"none", "queued", "running", "sent", "failed"}]
  BY DEF Quiet, Typed, TypeOK
<1>2. Processing' /\ RequestsInOrder' /\ StreamOrdered'
  BY <1>1 DEF Processing, ForParams, RequestsInOrder, StreamOrdered
<1>3. TasksEnd'
  BY <1>1 DEF TasksEnd, Quiet, PoolDrained
<1>4. SentSoFar'
  <2>1. \A i \in DOMAIN wire : wire[i].bundle \in Bundle
    BY NumbersTyped DEF MessageType
  <2>2. spc' \in {"futures", "unwind"} =>
          \A i \in DOMAIN wire : wire[i].id = current /\ wire[i].kind # "query" =>
            task'[wire[i].bundle] = "sent"
    <3>1. CASE spc = "enqueue" /\ spc' = "futures"
      BY <3>1 DEF SentSoFar
    <3>2. CASE spc \in {"futures", "unwind"}
      <4>1. \A c \in Bundle : task[c] = "sent" => task'[c] = "sent"
        BY <1>1, <3>2 DEF Quiet
      <4> QED
        BY <2>1, <3>2, <4>1 DEF SentSoFar
    <3> QED
      BY <1>1, <3>1, <3>2
  <2> QED
    BY <1>1, <2>2 DEF SentSoFar
<1> QED
  BY <1>2, <1>3, <1>4

\* The next request is younger than everything on the wire.
LEMMA PollKeepsOrder ==
  ASSUME ProtocolInv, PollRequest, history' = history
  PROVE  Processing' /\ TasksEnd' /\ RequestsInOrder' /\ SentSoFar' /\ StreamOrdered'
<1> USE DEF ProtocolInv
<1>1. /\ spc = "poll" /\ spc' = (IF ForParams(current') THEN "params" ELSE "query")
      /\ UNCHANGED <<wire, task>> /\ requests # <<>>
      /\ requests' = Tail(requests) /\ current' = Head(requests)
  BY DEF PollRequest, DispatcherStep, ForParams
<1>2. requests \in Seq(1 .. MaxRequests) /\ Len(requests) \in Nat \ {0}
  BY <1>1, EmptySeq, LenProperties DEF Typed, TypeOK
<1>3. /\ requests' \in Seq(1 .. MaxRequests) /\ Len(requests') = Len(requests) - 1
      /\ \A i \in 1 .. Len(requests') : requests'[i] = requests[i + 1]
      /\ current' = requests[1]
  BY <1>1, <1>2, HeadTailProperties
<1>4. /\ DOMAIN requests = 1 .. Len(requests) /\ DOMAIN requests' = 1 .. Len(requests) - 1
  BY <1>2, <1>3, LenProperties
<1>5. /\ 1 \in DOMAIN requests
      /\ \A i \in DOMAIN requests' : i + 1 \in DOMAIN requests /\ 1 < i + 1
      /\ \A i, j \in DOMAIN requests' : i < j => i + 1 < j + 1
  BY <1>2, <1>4
<1>6. RequestsInOrder'
  <2>1. \A i \in DOMAIN requests' : requests'[i] > current'
    BY <1>3, <1>4, <1>5, NumbersTyped DEF RequestsInOrder
  <2>2. \A i, j \in DOMAIN requests' : i < j => requests'[i] < requests'[j]
    BY <1>3, <1>4, <1>5 DEF RequestsInOrder
  <2>3. \A i \in DOMAIN wire : wire[i].id < current'
    BY <1>3, <1>5, NumbersTyped DEF RequestsInOrder
  <2>4. \A i \in DOMAIN wire : wire[i].id <= current'
    BY <1>3, <1>5, <2>3, NumbersTyped
  <2> QED
    BY <1>1, <2>1, <2>2, <2>4 DEF RequestsInOrder
<1>7. SentSoFar'
  <2>1. \A i \in DOMAIN wire : wire[i].id < current'
    BY <1>3, <1>5, NumbersTyped DEF RequestsInOrder
  <2> QED
    BY <1>1, <2>1 DEF SentSoFar
<1>8. Processing' /\ TasksEnd' /\ StreamOrdered'
  <2>1. current' # 0
    BY <1>3, <1>5, NumbersTyped
  <2> QED
    BY <1>1, <2>1 DEF Processing, TasksEnd, StreamOrdered, ForParams
<1> QED
  BY <1>6, <1>7, <1>8

LEMMA SenderKeeps == ProtocolInv /\ SenderStep => ProtocolInv'
<1> SUFFICES ASSUME ProtocolInv, SenderStep
             PROVE  ProtocolInv'
  OBVIOUS
<1>1. UNCHANGED receiverVars
  BY SenderFrame
<1>2. Typed'
  BY SenderTyped DEF ProtocolInv
<1>3. Workers' /\ OnePending'
  BY <1>1 DEF ProtocolInv, receiverVars, Workers, Holding, ForParams, OnePending
<1>4. Processing' /\ TasksEnd' /\ RequestsInOrder' /\ SentSoFar' /\ StreamOrdered'
  BY <1>1, SenderQuiet, PollKeepsOrder, QuietKeepsOrder, SendKeepsOrder DEF receiverVars
<1> QED
  BY <1>2, <1>3, <1>4 DEF ProtocolInv

----------------------------------------------------------------------------
(***************************************************************************)
(* What holds whatever fails.                                              *)
(***************************************************************************)

LEMMA WhoSteps ==
  Next => ReceiverStep \/ SenderStep \/ \E input \in QueryInput \cup {Params} : Request(input)
BY DEF Next, ReceiverStep, SenderStep

(***************************************************************************)
(* The inductive invariant of receiver, wire and sender holds in every     *)
(* state, whatever tasks fail and whenever stop is set.                    *)
(***************************************************************************)
THEOREM ProtocolInvariant == Spec => []ProtocolInv
<1>1. Init => ProtocolInv
  BY InitiallyInv
<1>2. ProtocolInv /\ [Next]_vars => ProtocolInv'
  <2> SUFFICES ASSUME ProtocolInv, [Next]_vars
               PROVE  ProtocolInv'
    OBVIOUS
  <2>1. CASE Next
    BY <2>1, WhoSteps, RequestKeeps, ReceiverKeeps, SenderKeeps
  <2>2. CASE UNCHANGED vars
    BY <2>2 DEF vars, receiverVars, senderVars, ProtocolInv, Typed, TypeOK, Processing, ForParams,
       TasksEnd, Workers, Holding, RequestsInOrder, SentSoFar, StreamOrdered, OnePending
  <2> QED
    BY <2>1, <2>2
<1> QED
  BY <1>1, <1>2, PTL DEF Spec

(***************************************************************************)
(* However the workers race for package_count, every announced package is  *)
(* unclaimed, claimed by one of them or merged, and the unsigned count     *)
(* never passes below zero (process_result_worker).                        *)
(***************************************************************************)
THEOREM ClaimsAreExact == Spec => []ClaimsExact
<1>1. ProtocolInv => ClaimsExact
  BY DEF ProtocolInv, Typed, Workers, ClaimsExact
<1> QED
  BY <1>1, ProtocolInvariant, PTL

(***************************************************************************)
(* The packages of a request follow its response, come once for each       *)
(* bundle and before anything of a later request, also when tasks fail and *)
(* RunQuery is left by an exception (sender.cpp, sender_dispatcher.cpp).   *)
(***************************************************************************)
THEOREM StreamIsOrdered == Spec => []StreamOrdered
<1>1. ProtocolInv => StreamOrdered
  BY DEF ProtocolInv
<1> QED
  BY <1>1, ProtocolInvariant, PTL

\* When every future has been waited for, every package is merged.
LEMMA AllMerged ==
  ASSUME ProtocolInv, rpc = "futures", GotAll
  PROVE  /\ \A w \in ResultWorker : worker[w] = "done"
         /\ count = 0 /\ merged = BundleCount
<1>1. PICK m \in Nat \ {0} : ResultWorker = 1 .. m /\ Cardinality(ResultWorker) = m
  BY WorkersNumbered
<1>2. /\ rnext \in 1 .. (Cardinality(ResultWorker) + 1)
      /\ merged \in Nat /\ BundleCount \in Nat
      /\ \A w \in ResultWorker : worker[w] = "done" => count = 0
      /\ \A w \in ResultWorker : w < rnext => worker[w] = "done"
      /\ count + Cardinality(Holding) + merged = BundleCount
  BY ProtocolAssumption DEF ProtocolInv, Typed, TypeOK, Workers
<1>3. \A w \in ResultWorker : worker[w] = "done"
  BY <1>1, <1>2 DEF GotAll
<1>4. count = 0
  BY <1>1, <1>2, <1>3
<1>5. Holding = {} /\ Cardinality(Holding) = 0
  BY <1>3, FS_EmptySet DEF Holding
<1> QED
  BY <1>2, <1>3, <1>4, <1>5

(***************************************************************************)
(* A query ends with records only after as many packages were merged as    *)
(* the response announced: a package that is lost, unreadable or throws    *)
(* never turns into a smaller intersection (request_query).                *)
(***************************************************************************)
THEOREM AnswersWhole == Spec => AnswersAreWhole
<1> DEFINE Whole ==
      \A i \in DOMAIN history :
        (history[i].outcome = Pending /\ history'[i].outcome \notin {Pending, Threw}
           /\ history[i].input # Params)
        => merged = BundleCount
<1>1. ProtocolInv /\ Next => Whole
  <2> SUFFICES ASSUME ProtocolInv, Next
               PROVE  Whole
    OBVIOUS
  <2>0. Typed /\ Workers /\ history \in Seq(RequestType)
    BY DEF ProtocolInv, Typed
  <2>1. ASSUME history' = history
        PROVE  Whole
    BY <2>1
  <2>2. ASSUME NEW outcome \in {Pending, Threw, Params} \cup SUBSET QueryItem, EndRequest(outcome),
               history # <<>>,
               outcome = Threw \/ ForParams(Len(history)) \/ merged = BundleCount
        PROVE  Whole
    <3>1. \A i \in DOMAIN history :
            history'[i].outcome = IF i = Len(history) THEN outcome ELSE history[i].outcome
      BY <2>0, <2>2, EndRequestChanges
    <3> QED
      BY <2>2, <3>1 DEF ForParams
  <2>3. ASSUME NEW input \in QueryInput \cup {Params}, Request(input)
        PROVE  Whole
    <3>1. \A i \in DOMAIN history : history'[i] = history[i]
      BY <2>0, <2>3, RequestAppends
    <3> QED
      BY <3>1
  <2>4. CASE ReceiveResponse
    <3>1. rpc = "response" /\ history # <<>>
      BY <2>0, <2>4 DEF ReceiveResponse, Workers
    <3>2. history' = history \/ EndRequest(Threw) \/ (EndRequest(Params) /\ ForParams(Len(history)))
      BY <2>4 DEF ReceiveResponse, ForParams, Asked
    <3> QED
      BY <2>1, <2>2, <3>1, <3>2
  <2>5. CASE ReturnRecords
    <3>1. /\ history # <<>> /\ mrs \in SUBSET QueryItem /\ merged = BundleCount
          /\ EndRequest(mrs)
      BY <2>0, <2>5, AllMerged DEF ReturnRecords, EndQuery, Workers, Typed, TypeOK
    <3> QED
      BY <2>2, <3>1
  <2>6. CASE PassOnException
    <3>1. history # <<>> /\ EndRequest(Threw)
      BY <2>0, <2>6 DEF PassOnException, EndQuery, Workers
    <3> QED
      BY <2>2, <3>1
  <2>7. CASE GetFuture \/ \E w \in ResultWorker : WorkerNext(w)
    <3>1. history' = history
      BY <2>7 DEF GetFuture, WorkerNext, StartWorker, ReadCount, CompareExchange, Exchange,
         ReceiveResult, TestRecord, WriteRecord, NextPackage, WorkerStep
    <3> QED
      BY <2>1, <3>1
  <2>8. CASE SenderStep
    BY <2>1, <2>8, SenderFrame DEF receiverVars
  <2> QED
    BY <2>3, <2>4, <2>5, <2>6, <2>7, <2>8, WhoSteps DEF ReceiverStep, CallerNext
<1>2. ProtocolInv /\ [Next]_vars => [Whole]_vars
  BY <1>1
<1>3. Spec => [][Whole]_vars
  BY <1>2, ProtocolInvariant, PTL DEF Spec
<1> QED
  BY <1>3 DEF AnswersAreWhole

----------------------------------------------------------------------------
(***************************************************************************)
(* Sessions in which nothing goes wrong.                                   *)
(***************************************************************************)

\* A step of the sender that is no failure.
Serves ==
  \/ PollRequest \/ RunParams \/ SendResponse \/ EnqueueBundles \/ EndRunQuery
  \/ /\ UNCHANGED <<spc, requests, wire, current, task, stop, faults>> /\ spc = "futures"
  \/ \E b \in Bundle : StartTask(b) \/ SendPackage(b)

LEMMA FailsOrServes ==
  ASSUME ProtocolInv, NothingFailed, SenderStep, faults' = 0
  PROVE  faults = 0 /\ stop' = stop /\ Serves
<1>0. faults \in Nat
  BY ProtocolAssumption DEF ProtocolInv, Typed, TypeOK
<1>1. faults = 0
  <2>1. faults' = faults \/ faults' = faults + 1
    BY DEF SenderStep, DispatcherNext, PollRequest, StopPolling, RunParams, SendResponse,
       EnqueueBundles, AwaitTask, EndRunQuery, RefuseRequest, SetStop, StartTask, SendPackage,
       FailTask, Fault
  <2> QED
    BY <1>0, <2>1
<1>2. ~Fault /\ ~stop /\ spc # "unwind" /\ \A b \in Bundle : task[b] # "failed"
  BY <1>1 DEF Fault, NothingFailed
<1>3. ~StopPolling /\ ~RefuseRequest /\ ~SetStop /\ \A b \in Bundle : ~FailTask(b)
  BY <1>2 DEF StopPolling, RefuseRequest, SetStop, FailTask
<1>4. CASE DispatcherNext
  <2>1. AwaitTask => Serves
    BY <1>2 DEF AwaitTask, DispatcherStep, Serves
  <2>2. stop' = stop
    BY <1>4 DEF DispatcherNext, PollRequest, StopPolling, RunParams, SendResponse,
       EnqueueBundles, AwaitTask, EndRunQuery, DispatcherStep
  <2> QED
    BY <1>1, <1>3, <1>4, <2>1, <2>2 DEF DispatcherNext, Serves
<1>5. ASSUME NEW b \in Bundle, StartTask(b) \/ SendPackage(b)
      PROVE  stop' = stop /\ Serves
  <2>1. stop' = stop
    BY <1>5 DEF StartTask, SendPackage, TaskStep
  <2> QED
    BY <1>5, <2>1 DEF Serves
<1> QED
  BY <1>1, <1>3, <1>4, <1>5 DEF SenderStep

LEMMA NothingFailedKept == ProtocolInv /\ NothingFailed /\ Next => NothingFailed'
<1> SUFFICES ASSUME ProtocolInv, NothingFailed, Next, faults' = 0
             PROVE  /\ ~stop' /\ spc' \notin {"unwind", "stopped"}
                    /\ \A i \in DOMAIN wire' : wire'[i].kind # "bad"
                    /\ \A b \in Bundle : task'[b] # "failed"
  BY DEF NothingFailed
<1>0. Typed /\ Workers /\ Processing /\ TasksEnd
  BY DEF ProtocolInv
<1>1. CASE UNCHANGED <<senderVars, wire, stop, faults>>
  BY <1>1 DEF NothingFailed, senderVars
<1>2. CASE SenderStep
  <2>1. /\ faults = 0 /\ stop' = stop /\ Serves
        /\ task \in [Bundle -> {"none", "queued", "running", "sent", "failed"}]
    BY <1>0, <1>2, FailsOrServes DEF Typed, TypeOK
  <2>2. /\ ~stop' /\ spc' \notin {"unwind", "stopped"} /\ \A b \in Bundle : task'[b] # "failed"
    BY <2>1 DEF Serves, PollRequest, RunParams, SendResponse, EnqueueBundles, EndRunQuery,
       StartTask, SendPackage, DispatcherStep, TaskStep, NothingFailed
  <2>3. \A i \in DOMAIN wire' : wire'[i].kind # "bad"
    <3>1. \/ wire' = wire
          \/ \E kind \in {"params", "query", "part"}, b \in Bundle : current # 0 /\ Send(kind, b)
      BY <1>0, <2>1, BundlesCounted
      DEF Serves, PollRequest, RunParams, SendResponse, EnqueueBundles, EndRunQuery, StartTask,
          SendPackage, SendPart, DispatcherStep, TaskStep, Processing, TasksEnd
    <3>2. ASSUME NEW kind \in {"params", "query", "part"}, NEW b \in Bundle, current # 0, Send(kind, b)
          PROVE  \A i \in DOMAIN wire' : wire'[i].kind # "bad"
      <4>1. /\ wire'[Len(wire) + 1] = Message(kind, current, b)
            /\ \A i \in 1 .. Len(wire) : wire'[i] = wire[i]
            /\ DOMAIN wire = 1 .. Len(wire) /\ DOMAIN wire' = 1 .. Len(wire) + 1
            /\ Len(wire) \in Nat
        BY <1>0, <3>2, SendAppends
      <4>2. \A i \in 1 .. Len(wire) + 1 : i \in 1 .. Len(wire) \/ i = Len(wire) + 1
        BY <4>1
      <4>3. wire'[Len(wire) + 1].kind = kind
        BY <4>1 DEF Message
      <4> QED
        BY <2>1, <4>1, <4>2, <4>3 DEF NothingFailed
    <3> QED
      BY <2>1, <3>1, <3>2 DEF NothingFailed
  <2> QED
    BY <2>2, <2>3
<1>3. CASE ReceiverStep
  BY <1>0, <1>1, <1>3, ReceiverFrame
<1>4. CASE \E input \in QueryInput \cup {Params} : Request(input)
  BY <1>1, <1>4 DEF Request
<1> QED
  BY <1>2, <1>3, <1>4, WhoSteps

\* What was undisturbed after a step was so before it.
LEMMA UndisturbedBefore == ProtocolInv /\ NothingFailed /\ Next /\ Undisturbed' => Undisturbed
<1> SUFFICES ASSUME ProtocolInv, NothingFailed, Next, Undisturbed'
             PROVE  Undisturbed
  OBVIOUS
<1>0. Typed /\ Workers /\ faults' = 0
  BY DEF ProtocolInv, Undisturbed
<1>1. ASSUME faults = 0, DOMAIN history \subseteq DOMAIN history',
             \A i \in DOMAIN history : history'[i].input = history[i].input
      PROVE  Undisturbed
  BY <1>1 DEF Undisturbed
<1>2. CASE ReceiverStep
  BY <1>0, <1>1, <1>2, ReceiverFrame DEF SameInputs
<1>3. CASE SenderStep
  <2>1. faults = 0 /\ history' = history
    BY <1>0, <1>3, FailsOrServes, SenderFrame DEF receiverVars
  <2> QED
    BY <1>1, <2>1
<1>4. ASSUME NEW input \in QueryInput \cup {Params}, Request(input)
      PROVE  Undisturbed
  <2>1. /\ Len(history) \in Nat
        /\ DOMAIN history = 1 .. Len(history) /\ DOMAIN history' = 1 .. Len(history) + 1
        /\ \A i \in 1 .. Len(history) : history'[i] = history[i]
    BY <1>0, <1>4, RequestAppends
  <2>2. faults = 0
    BY <1>0, <1>4 DEF Request
  <2> QED
    BY <1>1, <2>1, <2>2
<1> QED
  BY <1>2, <1>3, <1>4, WhoSteps

\* How a worker's step changes the number of packages that are being merged.
LEMMA MergingChanges ==
  ASSUME Typed, NEW w \in ResultWorker, NEW from, NEW to, WorkerStep(w, from, to)
  PROVE  LET busy == {"merge", "write"}
         IN  /\ Cardinality(Merging) \in Nat
             /\ Cardinality(Merging') = Cardinality(Merging) + (IF to \in busy THEN 1 ELSE 0)
                                          - (IF from \in busy THEN 1 ELSE 0)
<1> DEFINE busy == {"merge", "write"}
<1>1. IsFiniteSet(ResultWorker)
  BY WorkersNumbered
<1>2. /\ worker[w] = from /\ worker'[w] = to
      /\ \A v \in ResultWorker : v # w => worker'[v] = worker[v]
  BY DEF WorkerStep, Typed, TypeOK
<1> HIDE DEF busy
<1>3. /\ Count(ResultWorker, worker, busy) \in Nat
      /\ Count(ResultWorker, worker', busy)
           = Count(ResultWorker, worker, busy) + (IF worker'[w] \in busy THEN 1 ELSE 0)
               - (IF worker[w] \in busy THEN 1 ELSE 0)
  BY <1>1, <1>2, CountChanged
<1>4. /\ Count(ResultWorker, worker, busy) = Cardinality(Merging)
      /\ Count(ResultWorker, worker', busy) = Cardinality(Merging')
  BY DEF Count, Merging, busy
<1> QED
  BY <1>2, <1>3, <1>4 DEF busy

\* The bundles that were sent.
LEMMA SentCounted ==
  /\ SentNow \subseteq Bundle /\ IsFiniteSet(SentNow)
  /\ Cardinality(SentNow) \in Nat /\ Cardinality(SentNow) <= BundleCount
  /\ Cardinality(SentNow) = BundleCount => SentNow = Bundle
<1>1. SentNow \subseteq Bundle
  BY DEF SentNow, Sent
<1>2. IsFiniteSet(Bundle) /\ Cardinality(Bundle) = BundleCount
  BY BundlesCounted
<1> QED
  BY <1>1, <1>2, FS_Subset, FS_CardinalityType

\* In a query without a repeated match, no item is found twice.
LEMMA RecordsOnce ==
  ASSUME MatchesOnce(Asked), NEW b \in Bundle
  PROVE  /\ ~RepeatsItem(Ones(Asked, b), b)
         /\ \A c \in Bundle : b # c => Records(b) \cap Records(c) = {}
<1>1. ASSUME NEW c \in Bundle, NEW m \in Ones(Asked, b), NEW n \in Ones(Asked, c),
             find_item_idx(Asked, Position(b, m)) = find_item_idx(Asked, Position(c, n))
      PROVE  b = c /\ m = n
  <2>1. /\ m \in Bin /\ n \in Bin
    BY DEF Ones
  <2>2. \A p, q \in {p \in Bundle \X Bin : p[2] \in Ones(Asked, p[1])} :
          find_item_idx(Asked, p) = find_item_idx(Asked, q) => p = q
    BY DEF MatchesOnce
  <2>3. <<b, m>> = <<c, n>>
    BY <1>1, <2>1, <2>2 DEF Position
  <2> QED
    BY <2>3
<1>2. ~RepeatsItem(Ones(Asked, b), b)
  BY <1>1 DEF RepeatsItem
<1>3. \A c \in Bundle : b # c => Records(b) \cap Records(c) = {}
  BY <1>1 DEF Records, RecordsOf
<1> QED
  BY <1>2, <1>3

\* The records of a query do not change while its packages are merged.
LEMMA RecordsSame ==
  ASSUME history' = history
  PROVE  \A b : Records(b)' = Records(b)
BY DEF Records, RecordsOf, Ones, find_item_idx, Asked, Position

LEMMA CleanWorker ==
  ASSUME ProtocolInv, Undisturbed, Clean, NEW w \in ResultWorker, WorkerNext(w)
  PROVE  Clean'
<1>0. Typed /\ Workers /\ StreamOrdered
  BY DEF ProtocolInv
<1>1. worker[w] # "off"
  BY DEF WorkerNext, StartWorker, ReadCount, CompareExchange, Exchange, ReceiveResult,
         TestRecord, WriteRecord, NextPackage, WorkerStep
<1>2. /\ rpc = "futures" /\ Collecting /\ Asked \in QueryInput
  BY <1>0, <1>1, WorkersAtWork DEF Clean
<1>3. /\ UNCHANGED <<history, rpc, senderVars, requests, wire>>
  BY DEF WorkerNext, StartWorker, ReadCount, CompareExchange, Exchange, ReceiveResult,
         TestRecord, WriteRecord, NextPackage, WorkerStep
<1>4. /\ worker \in [ResultWorker -> {"off", "queued", "done", "threw"} \cup Active]
      /\ todo \in [ResultWorker -> SUBSET QueryItem] /\ mrs \in SUBSET QueryItem
      /\ taken \in 0 .. Len(wire) /\ Len(wire) \in Nat /\ merged \in Nat
      /\ Cardinality(SentNow) \in Nat /\ SentNow \subseteq Bundle
  BY <1>0, SentCounted, NumbersTyped, ProtocolAssumption DEF Typed, TypeOK
<1>5. /\ SentNow' = SentNow /\ Streaming' /\ \A b : Records(b)' = Records(b)
  BY <1>2, <1>3, RecordsSame DEF SentNow, Sent, Streaming, Collecting, senderVars
<1>6. ASSUME \A v \in ResultWorker : worker'[v] # "threw" /\ (v \notin Merging' => todo'[v] = {}),
             PackagesFrom(taken + 1)',
             Len(wire) - taken' + merged' + Cardinality(Merging') = Cardinality(SentNow),
             mrs' \cup UNION {todo'[v] : v \in ResultWorker} = Consumed',
             \A v \in ResultWorker : todo'[v] \cap mrs' = {},
             \A u, v \in ResultWorker : u # v => todo'[u] \cap todo'[v] = {}
      PROVE  Clean'
  BY <1>2, <1>3, <1>5, <1>6 DEF Clean, Collecting
<1>7. ASSUME NEW from, NEW to, WorkerStep(w, from, to), to # "threw",
             from \in {"merge", "write"} <=> to \in {"merge", "write"},
             UNCHANGED <<todo, mrs, merged, taken>>
      PROVE  Clean'
  <2>1. /\ worker' = [worker EXCEPT ![w] = to] /\ worker[w] = from
    BY <1>7 DEF WorkerStep
  <2>2. Merging' = Merging /\ \A v \in ResultWorker : worker'[v] # "threw"
    BY <1>4, <1>7, <2>1 DEF Merging, Clean
  <2>3. Consumed' = Consumed
    BY <1>3, <1>5, <1>7 DEF Consumed, Untaken
  <2>4. PackagesFrom(taken + 1)'
    BY <1>2, <1>3, <1>5, <1>7 DEF PackagesFrom, Collecting
  <2> QED
    BY <1>2, <1>6, <1>7, <2>2, <2>3, <2>4 DEF Clean, Collecting
<1>8. CASE StartWorker(w)
  BY <1>7, <1>8 DEF StartWorker
<1>9. CASE ReadCount(w)
  BY <1>7, <1>9 DEF ReadCount
<1>10. CASE CompareExchange(w)
  BY <1>7, <1>10 DEF CompareExchange, Exchange
<1>11. CASE TestRecord(w)
  <2>1. PICK i \in todo[w] : WorkerStep(w, "merge", IF i \in mrs THEN "threw" ELSE "write")
    BY <1>2, <1>11 DEF TestRecord, FirstToMerge
  <2>2. i \notin mrs
    BY <1>2, <2>1 DEF Collecting
  <2>3. WorkerStep(w, "merge", "write")
    BY <2>1, <2>2
  <2> QED
    BY <1>7, <1>11, <2>3 DEF TestRecord
<1>12. CASE WriteRecord(w)
  <2>1. PICK i \in todo[w] :
          /\ mrs' = mrs \cup {i} /\ todo' = [todo EXCEPT ![w] = @ \ {i}]
          /\ WorkerStep(w, "write", "merge") /\ UNCHANGED <<merged, taken>>
    BY <1>12 DEF WriteRecord, FirstToMerge
  <2>2. worker' = [worker EXCEPT ![w] = "merge"] /\ worker[w] = "write"
    BY <2>1 DEF WorkerStep
  <2>3. Merging' = Merging /\ \A v \in ResultWorker : worker'[v] # "threw"
    BY <1>4, <2>2 DEF Merging, Clean
  <2>4. /\ todo'[w] = todo[w] \ {i} /\ \A v \in ResultWorker : v # w => todo'[v] = todo[v]
    BY <1>4, <2>1
  <2>5. \A v \in ResultWorker : v \notin Merging => todo[v] = {} /\ v # w
    BY <2>2 DEF Merging, Clean
  <2>6. mrs' \cup UNION {todo'[v] : v \in ResultWorker} = mrs \cup UNION {todo[v] : v \in ResultWorker}
    <3>1. \A x : x \in mrs' \cup UNION {todo'[v] : v \in ResultWorker} =>
                   x \in mrs \cup UNION {todo[v] : v \in ResultWorker}
      BY <2>1, <2>4
    <3>2. \A x : x \in mrs \cup UNION {todo[v] : v \in ResultWorker} =>
                   x \in mrs' \cup UNION {todo'[v] : v \in ResultWorker}
      BY <2>1, <2>4
    <3> QED
      BY <3>1, <3>2
  <2>7. Consumed' = Consumed
    BY <1>3, <1>5, <2>1 DEF Consumed, Untaken
  <2>8. PackagesFrom(taken + 1)'
    BY <1>2, <1>3, <1>5, <2>1 DEF PackagesFrom, Collecting
  <2>9. /\ \A v \in ResultWorker : todo'[v] \cap mrs' = {}
        /\ \A u, v \in ResultWorker : u # v => todo'[u] \cap todo'[v] = {}
    BY <1>2, <2>1, <2>4 DEF Collecting
  <2>10. \A v \in ResultWorker : worker'[v] # "threw" /\ (v \notin Merging' => todo'[v] = {})
    BY <2>3, <2>4, <2>5
  <2>11. Len(wire) - taken' + merged' + Cardinality(Merging') = Cardinality(SentNow)
    BY <1>2, <2>1, <2>3 DEF Collecting
  <2> QED
    BY <1>2, <1>6, <2>6, <2>7, <2>8, <2>9, <2>10, <2>11 DEF Collecting
<1>13. CASE NextPackage(w)
  <2>1. /\ WorkerStep(w, "merge", "claim") /\ todo[w] = {}
        /\ merged' = merged + 1 /\ UNCHANGED <<todo, mrs, taken>>
    BY <1>13 DEF NextPackage
  <2>2. worker' = [worker EXCEPT ![w] = "claim"] /\ worker[w] = "merge"
    BY <2>1 DEF WorkerStep
  <2>3. \A v \in ResultWorker : worker'[v] # "threw" /\ (v \notin Merging' => todo'[v] = {})
    BY <1>4, <2>1, <2>2 DEF Merging, Clean
  <2>4. /\ Cardinality(Merging) \in Nat
        /\ Cardinality(Merging') = Cardinality(Merging) - 1
    BY <1>0, <2>1, MergingChanges
  <2>5. Len(wire) - taken + (merged + 1) + (Cardinality(Merging) - 1) = Cardinality(SentNow)
    BY <1>2, <1>4, <2>4 DEF Collecting
  <2>6. Consumed' = Consumed
    BY <1>3, <1>5, <2>1 DEF Consumed, Untaken
  <2>7. PackagesFrom(taken + 1)'
    BY <1>2, <1>3, <1>5, <2>1 DEF PackagesFrom, Collecting
  <2> QED
    BY <1>2, <1>6, <2>1, <2>3, <2>4, <2>5, <2>6, <2>7 DEF Collecting
<1>14. CASE ReceiveResult(w)
  <2> DEFINE first == taken + 1
             b == wire[first].bundle
             rest == {wire[i].bundle : i \in taken + 2 .. Len(wire)}
  <2>1. /\ taken' = taken + 1 /\ taken # Len(wire) /\ UNCHANGED <<mrs, merged>>
        /\ worker[w] = "receive"
    BY <1>14 DEF ReceiveResult, InboxEmpty, WorkerStep
  <2>2. /\ first \in taken + 1 .. Len(wire) /\ first \in 1 .. Len(wire)
        /\ \A i : i \in taken + 1 .. Len(wire) <=> i = first \/ i \in taken + 2 .. Len(wire)
        /\ \A i \in taken + 2 .. Len(wire) : i \in 1 .. Len(wire) /\ first < i
                                             /\ i \in taken + 1 .. Len(wire)
        /\ taken' + 1 = taken + 2
    BY <1>4, <2>1
  <2>3. \A i \in taken + 1 .. Len(wire) :
          wire[i].kind = "part" /\ wire[i].id = Len(history) /\ wire[i].bundle \in SentNow
    BY <1>2 DEF Collecting, PackagesFrom
  <2>4. /\ wire[first].kind = "part" /\ wire[first].id = Len(history)
        /\ b \in SentNow /\ b \in Bundle
    BY <1>4, <2>2, <2>3
  <2>5. b \notin rest
    <3>1. \A i \in taken + 2 .. Len(wire) : wire[i].bundle # b
      BY <1>0, <2>2, <2>3, <2>4, NumbersTyped DEF StreamOrdered
    <3> QED
      BY <3>1
  <2>6. Untaken' = rest /\ Untaken = rest \cup {b}
    <3>1. Untaken' = rest
      BY <1>3, <2>2 DEF Untaken
    <3>2. \A x : x \in Untaken <=> x \in rest \/ x = b
      BY <2>2 DEF Untaken
    <3> QED
      BY <3>1, <3>2
  <2>7. MatchesOnce(Asked)
    <3>1. history # <<>>
      BY <1>0, <1>2 DEF Workers
    <3>2. Len(history) \in DOMAIN history
      BY <1>0, <3>1, NumbersTyped, EmptySeq DEF Typed
    <3> QED
      BY <1>2, <3>2 DEF Undisturbed, Asked
  <2>8. /\ ~RepeatsItem(Ones(Asked, b), b)
        /\ \A c \in Bundle : b # c => Records(b) \cap Records(c) = {}
    BY <2>4, <2>7, RecordsOnce
  <2>9. /\ WorkerStep(w, "receive", "merge")
        /\ todo' = [todo EXCEPT ![w] = Records(b)]
    <3>1. Incoming = wire[first] /\ Ones(history[Incoming.id].input, Incoming.bundle) = Ones(Asked, b)
      BY <2>4 DEF Incoming, Asked
    <3> QED
      BY <1>2, <1>14, <2>4, <2>8, <3>1 DEF ReceiveResult, Records
  <2> HIDE DEF b, first, rest
  <2>10. /\ worker' = [worker EXCEPT ![w] = "merge"]
         /\ todo'[w] = Records(b) /\ todo[w] = {}
         /\ \A v \in ResultWorker : v # w => todo'[v] = todo[v]
    BY <1>4, <2>1, <2>9 DEF WorkerStep, Merging, Clean
  <2>11. \A v \in ResultWorker : worker'[v] # "threw" /\ (v \notin Merging' => todo'[v] = {})
    <3>1. worker'[w] = "merge" /\ \A v \in ResultWorker : v # w => worker'[v] = worker[v]
      BY <1>4, <2>10
    <3> QED
      BY <2>10, <3>1 DEF Merging, Clean
  <2>12. PackagesFrom(taken + 1)'
    BY <1>3, <1>5, <2>2, <2>3 DEF PackagesFrom
  <2>13. Len(wire) - taken' + merged' + Cardinality(Merging') = Cardinality(SentNow)
    <3>1. /\ Cardinality(Merging) \in Nat
          /\ Cardinality(Merging') = Cardinality(Merging) + 1
      BY <1>0, <2>9, MergingChanges
    <3>2. Len(wire) - (taken + 1) + merged + (Cardinality(Merging) + 1) = Cardinality(SentNow)
      BY <1>2, <1>4, <3>1 DEF Collecting
    <3> QED
      BY <2>1, <3>1, <3>2
  <2>14. Consumed' = Consumed \cup Records(b)
    <3>1. SentNow \ Untaken' = (SentNow \ Untaken) \cup {b}
      BY <2>4, <2>5, <2>6
    <3>2. Consumed' = UNION {Records(c) : c \in SentNow \ Untaken'}
      BY <1>5 DEF Consumed
    <3> QED
      BY <3>1, <3>2 DEF Consumed
  <2>15. mrs' \cup UNION {todo'[v] : v \in ResultWorker} = Consumed'
    <3>1. mrs \cup UNION {todo[v] : v \in ResultWorker} = Consumed
      BY <1>2 DEF Collecting
    <3>2. \A x : x \in UNION {todo'[v] : v \in ResultWorker} <=>
                   x \in Records(b) \/ x \in UNION {todo[v] : v \in ResultWorker}
      BY <2>10
    <3> QED
      BY <2>1, <2>14, <3>1, <3>2
  <2>16. Records(b) \cap Consumed = {}
    <3>1. \A c \in SentNow \ Untaken : c \in Bundle /\ c # b
      BY <1>4, <2>6
    <3> QED
      BY <2>8, <3>1 DEF Consumed
  <2>17. /\ \A v \in ResultWorker : todo'[v] \cap mrs' = {}
         /\ \A u, v \in ResultWorker : u # v => todo'[u] \cap todo'[v] = {}
    <3>1. mrs \subseteq Consumed /\ \A v \in ResultWorker : todo[v] \subseteq Consumed
      BY <1>2 DEF Collecting
    <3> QED
      BY <1>2, <2>1, <2>10, <2>16, <3>1 DEF Collecting
  <2> QED
    BY <1>6, <2>11, <2>12, <2>13, <2>15, <2>17
<1> QED
  BY <1>8, <1>9, <1>10, <1>11, <1>12, <1>13, <1>14 DEF WorkerNext

LEMMA CleanRequest ==
  ASSUME ProtocolInv, Clean, NEW input \in QueryInput \cup {Params}, Request(input)
  PROVE  Clean'
<1> DEFINE n == Len(history) + 1
<1>1. /\ Len(history) \in Nat /\ Len(history') = n
      /\ DOMAIN history = 1 .. Len(history) /\ DOMAIN history' = 1 .. n
      /\ history'[n] = [input |-> input, outcome |-> Pending]
      /\ \A i \in 1 .. Len(history) : history'[i] = history[i]
  BY RequestAppends DEF ProtocolInv
<1>2. /\ rpc = "idle" /\ rpc' = "response" /\ requests' = Append(requests, n)
      /\ UNCHANGED <<worker, todo, senderVars, wire, taken>>
  BY DEF Request
<1>3. InboxEmpty /\ requests = <<>> /\ Finished
  BY <1>2 DEF Clean
<1>4. requests' = <<n>>
  BY <1>2, <1>3
<1>5. Awaiting'
  BY <1>1, <1>2, <1>3, <1>4 DEF Awaiting, InboxEmpty, Finished, Sent, senderVars
<1>6. \A i \in DOMAIN history' : history'[i].outcome # Threw
  <2>1. \A i \in 1 .. n : i \in 1 .. Len(history) \/ i = n
    BY <1>1
  <2> QED
    BY <1>1, <2>1, ProtocolAssumption DEF Clean
<1> QED
  BY <1>2, <1>5, <1>6 DEF Clean, Merging

\* When every package is merged, none is left to send or to take.
LEMMA AllTaken ==
  ASSUME ProtocolInv, Clean, rpc = "futures", GotAll
  PROVE  taken = Len(wire) /\ SentNow = Bundle /\ Merging = {}
<1>1. merged = BundleCount /\ \A w \in ResultWorker : worker[w] = "done"
  BY AllMerged
<1>2. Merging = {} /\ Cardinality(Merging) = 0
  BY <1>1, FS_EmptySet DEF Merging
<1>3. taken \in 0 .. Len(wire) /\ Len(wire) \in Nat /\ BundleCount \in Nat
  BY NumbersTyped, ProtocolAssumption DEF ProtocolInv, Typed, TypeOK
<1>4. Len(wire) - taken + BundleCount = Cardinality(SentNow)
  BY <1>1, <1>2, <1>3, SentCounted DEF Clean, Collecting
<1> QED
  BY <1>2, <1>3, <1>4, SentCounted

\* The caller's thread receives the response, waits and returns.
LEMMA CleanCaller == ProtocolInv /\ Clean /\ CallerNext => Clean'
<1> SUFFICES ASSUME ProtocolInv, Clean, CallerNext
             PROVE  Clean'
  OBVIOUS
<1>0. /\ Typed /\ Workers
      /\ taken \in 0 .. Len(wire) /\ Len(wire) \in Nat /\ merged \in Nat /\ BundleCount \in Nat
      /\ history \in Seq(RequestType) /\ mrs \in SUBSET QueryItem
      /\ UNCHANGED <<senderVars, requests, wire>> /\ SameInputs /\ DOMAIN history' = DOMAIN history
  BY NumbersTyped, ReceiverFrame, ProtocolAssumption DEF ProtocolInv, Typed, TypeOK, ReceiverStep
<1>1. ASSUME NEW outcome \in {Params} \cup SUBSET QueryItem, EndRequest(outcome), history # <<>>,
             rpc' = "idle", InboxEmpty', requests = <<>>, Finished,
             \A w \in ResultWorker : worker'[w] # "threw" /\ (w \notin Merging' => todo'[w] = {})
      PROVE  Clean'
  <2>1. \A i \in DOMAIN history : history'[i].outcome = IF i = Len(history) THEN outcome ELSE history[i].outcome
    BY <1>0, <1>1, EndRequestChanges
  <2>2. outcome # Threw
    BY ProtocolAssumption
  <2>3. \A i \in DOMAIN history' : history'[i].outcome # Threw
    BY <1>0, <2>1, <2>2 DEF Clean
  <2>4. requests' = <<>> /\ Finished'
    BY <1>0, <1>1 DEF Finished, Sent, senderVars
  <2> QED
    BY <1>1, <2>3, <2>4 DEF Clean
<1>2. CASE ReceiveResponse
  <2>1. /\ rpc = "response" /\ ~InboxEmpty /\ taken' = taken + 1 /\ history # <<>>
        /\ todo' = todo
    BY <1>0, <1>2 DEF ReceiveResponse, Workers
  <2>2. \/ /\ requests = <<>> /\ current = Len(history) /\ spc = "poll" /\ ForParams(current)
           /\ Len(wire) = taken + 1 /\ Incoming.kind = "params"
        \/ /\ Streaming /\ ~ForParams(current)
           /\ ~InboxEmpty /\ Incoming.kind = "query" /\ PackagesFrom(taken + 2)
           /\ SentNow = {wire[i].bundle : i \in taken + 2 .. Len(wire)}
           /\ Len(wire) = taken + 1 + Cardinality(SentNow)
    BY <2>1 DEF Clean, Awaiting
  <2>3. CASE /\ requests = <<>> /\ current = Len(history) /\ spc = "poll" /\ ForParams(current)
             /\ Len(wire) = taken + 1 /\ Incoming.kind = "params"
    <3>1. EndRequest(Params) /\ rpc' = "idle" /\ worker' = worker
      BY <1>2, <2>3 DEF ReceiveResponse, ForParams, Asked
    <3>2. InboxEmpty' /\ Finished
      BY <1>0, <2>1, <2>3 DEF InboxEmpty, Finished
    <3>3. \A w \in ResultWorker : worker'[w] # "threw" /\ (w \notin Merging' => todo'[w] = {})
      BY <2>1, <3>1 DEF Clean, Merging
    <3> QED
      BY <1>1, <2>1, <2>3, <3>1, <3>2, <3>3
  <2>4. CASE /\ Streaming /\ ~ForParams(current)
             /\ ~InboxEmpty /\ Incoming.kind = "query" /\ PackagesFrom(taken + 2)
             /\ SentNow = {wire[i].bundle : i \in taken + 2 .. Len(wire)}
             /\ Len(wire) = taken + 1 + Cardinality(SentNow)
    <3>1. LaunchWorkers /\ history' = history
      BY <1>2, <2>4 DEF ReceiveResponse, ForParams, Asked, Streaming
    <3>2. /\ rpc' = "futures" /\ mrs' = {} /\ merged' = 0
          /\ \A w \in ResultWorker : worker'[w] = "queued"
      BY <3>1 DEF LaunchWorkers
    <3>3. \A w \in ResultWorker : worker[w] = "off"
      BY <1>0, <2>1 DEF Workers
    <3>4. \A w \in ResultWorker : todo'[w] = {} /\ w \notin Merging'
      BY <2>1, <3>2, <3>3 DEF Clean, Merging
    <3>5. SentNow' = SentNow /\ Streaming' /\ taken' + 1 = taken + 2
      BY <1>0, <2>1, <2>4, <3>1 DEF SentNow, Sent, Streaming, senderVars
    <3>6. PackagesFrom(taken + 1)'
      BY <1>0, <2>4, <3>1, <3>5 DEF PackagesFrom
    <3>7. Merging' = {} /\ Cardinality(Merging') = 0
      BY <3>4, FS_EmptySet DEF Merging
    <3>8. Len(wire') - taken' + merged' + Cardinality(Merging') = Cardinality(SentNow')
      <4>1. Len(wire) - (taken + 1) + 0 + 0 = Cardinality(SentNow)
        BY <1>0, <2>4, SentCounted
      <4> QED
        BY <1>0, <2>1, <3>2, <3>5, <3>7, <4>1
    <3>9. mrs' \cup UNION {todo'[w] : w \in ResultWorker} = Consumed'
      <4>1. Untaken' = SentNow'
        BY <1>0, <2>4, <3>5 DEF Untaken
      <4>2. Consumed' = {}
        BY <4>1 DEF Consumed
      <4> QED
        BY <3>2, <3>4, <4>2
    <3>10. Collecting'
      BY <3>2, <3>4, <3>5, <3>6, <3>8, <3>9 DEF Collecting
    <3> QED
      BY <3>1, <3>2, <3>4, <3>10 DEF Clean
  <2> QED
    BY <2>2, <2>3, <2>4
<1>3. CASE GetFuture
  <2>1. /\ rpc = "futures" /\ rpc' = "futures"
        /\ UNCHANGED <<history, worker, todo, mrs, merged, taken>>
    BY <1>3 DEF GetFuture, Clean
  <2>2. Collecting'
    <3>1. SentNow' = SentNow /\ Merging' = Merging /\ \A b : Records(b)' = Records(b)
      BY <1>0, <2>1, RecordsSame DEF SentNow, Sent, Merging, senderVars
    <3>2. Consumed' = Consumed
      BY <1>0, <2>1, <3>1 DEF Consumed, Untaken
    <3>3. Streaming' = Streaming /\ PackagesFrom(taken + 1)' = PackagesFrom(taken + 1)
      BY <1>0, <2>1, <3>1 DEF Streaming, Sent, PackagesFrom, senderVars
    <3> QED
      BY <1>0, <2>1, <3>1, <3>2, <3>3 DEF Clean, Collecting
  <2> QED
    BY <2>1, <2>2 DEF Clean, Merging
<1>4. CASE ReturnRecords
  <2>1. /\ rpc = "futures" /\ rpc' = "idle" /\ EndRequest(mrs)
        /\ UNCHANGED <<todo, taken>> /\ \A w \in ResultWorker : worker'[w] = "off"
        /\ history # <<>> /\ Collecting
    BY <1>0, <1>4 DEF ReturnRecords, EndQuery, Workers, Clean
  <2>2. taken = Len(wire) /\ SentNow = Bundle /\ Merging = {}
    BY <1>4, AllTaken DEF ReturnRecords
  <2>6. requests = <<>> /\ Finished
    BY <2>1, <2>2, BundlesCounted DEF Collecting, Streaming, SentNow, Finished
  <2>7. InboxEmpty'
    BY <1>0, <2>1, <2>2 DEF InboxEmpty
  <2>8. \A w \in ResultWorker : todo'[w] = {}
    BY <2>1, <2>2 DEF Clean
  <2> QED
    BY <1>0, <1>1, <2>1, <2>6, <2>7, <2>8
<1> QED
  BY <1>2, <1>3, <1>4 DEF CallerNext, PassOnException, Clean

\* While it streams, the sender sends one more package of the last request,
\* or none.
LEMMA StreamingStep ==
  ASSUME ProtocolInv, NothingFailed, faults = 0, Serves, Streaming, UNCHANGED history
  PROVE  /\ Streaming'
         /\ \/ SentNow' = SentNow /\ wire' = wire
            \/ \E b \in Bundle \ SentNow :
                 /\ SentNow' = SentNow \cup {b} /\ Len(wire') = Len(wire) + 1
                 /\ wire'[Len(wire) + 1] = Message("part", Len(history), b)
                 /\ \A i \in 1 .. Len(wire) : wire'[i] = wire[i]
<1>0. /\ Typed /\ TasksEnd /\ Processing
      /\ spc \in {"enqueue", "futures", "poll"} /\ requests = <<>> /\ current = Len(history)
      /\ task \in [Bundle -> {"none", "queued", "running", "sent", "failed"}]
      /\ \A b \in Bundle : task[b] # "failed"
  BY DEF ProtocolInv, Typed, TypeOK, Streaming, NothingFailed
<1>1. CASE UNCHANGED <<spc, requests, wire, current, task, stop, faults>>
  BY <1>1 DEF Streaming, SentNow, Sent
<1>2. CASE EnqueueBundles
  <2>1. /\ spc = "enqueue" /\ spc' = "futures" /\ \A b \in Bundle : task'[b] = "queued"
        /\ UNCHANGED <<requests, wire, current>>
    BY <1>2 DEF EnqueueBundles, DispatcherStep
  <2>2. SentNow = {} /\ SentNow' = {}
    BY <2>1 DEF SentNow, Sent
  <2> QED
    BY <1>0, <2>1, <2>2 DEF Streaming
<1>3. CASE EndRunQuery
  <2>1. /\ spc = "futures" /\ spc' = "poll" /\ \A b \in Bundle : task[b] = "sent"
        /\ UNCHANGED <<requests, wire, current, task>>
    BY <1>0, <1>3 DEF EndRunQuery, DispatcherStep, PoolDrained
  <2>2. Sent' = Bundle /\ Sent = Bundle
    BY <2>1 DEF Sent
  <2> QED
    BY <1>0, <2>1, <2>2 DEF Streaming, SentNow
<1>4. ASSUME NEW b \in Bundle, StartTask(b)
      PROVE  Streaming' /\ SentNow' = SentNow /\ wire' = wire
  <2>1. /\ task[b] = "queued" /\ task' = [task EXCEPT ![b] = "running"]
        /\ UNCHANGED <<spc, requests, wire, current>>
    BY <1>4 DEF StartTask, TaskStep
  <2>2. Sent' = Sent
    BY <1>0, <2>1 DEF Sent
  <2> QED
    BY <2>1, <2>2 DEF Streaming, SentNow
<1>5. ASSUME NEW b \in Bundle, SendPackage(b)
      PROVE  /\ Streaming' /\ b \notin SentNow /\ SentNow' = SentNow \cup {b}
             /\ Len(wire') = Len(wire) + 1
             /\ wire'[Len(wire) + 1] = Message("part", Len(history), b)
             /\ \A i \in 1 .. Len(wire) : wire'[i] = wire[i]
  <2>1. /\ task[b] = "running" /\ task' = [task EXCEPT ![b] = "sent"]
        /\ UNCHANGED <<spc, requests, current>> /\ Send("part", b)
    BY <1>5 DEF SendPackage, SendPart, TaskStep
  <2>2. spc = "futures" /\ current # 0
    BY <1>0, <2>1 DEF TasksEnd, Processing
  <2>3. Sent' = Sent \cup {b} /\ b \notin Sent
    BY <1>0, <2>1 DEF Sent
  <2>4. Streaming' /\ b \notin SentNow /\ SentNow' = SentNow \cup {b}
    BY <1>0, <2>1, <2>2, <2>3 DEF Streaming, SentNow
  <2> QED
    BY <1>0, <2>1, <2>2, <2>4, SendAppends
<1>6. ~PollRequest /\ ~RunParams /\ ~SendResponse
  BY <1>0 DEF PollRequest, RunParams, SendResponse, DispatcherStep
<1> QED
  BY <1>1, <1>2, <1>3, <1>4, <1>5, <1>6 DEF Serves

\* A sender that has nothing more to send sends nothing, and stays so unless
\* there is another request.
LEMMA FinishedStep ==
  ASSUME ProtocolInv, NothingFailed, faults = 0, Serves, Finished
  PROVE  \/ PollRequest
         \/ Finished' /\ UNCHANGED <<wire, requests, current>>
            /\ (spc = "poll" => spc' = "poll")
<1>0. /\ Typed /\ TasksEnd /\ task \in [Bundle -> {"none", "queued", "running", "sent", "failed"}]
  BY DEF ProtocolInv, Typed, TypeOK
<1>1. \A b \in Bundle : task[b] \notin {"queued", "running"}
  BY <1>0 DEF Finished, TasksEnd, Sent
<1>2. ~RunParams /\ ~SendResponse /\ ~EnqueueBundles /\ \A b \in Bundle : ~StartTask(b) /\ ~SendPackage(b)
  BY <1>1 DEF Finished, RunParams, SendResponse, EnqueueBundles, StartTask, SendPackage,
     DispatcherStep, TaskStep
<1> QED
  BY <1>2 DEF Serves, EndRunQuery, DispatcherStep, Finished, Sent

LEMMA CleanSender ==
  ASSUME ProtocolInv, NothingFailed, faults = 0, Clean, SenderStep, Serves
  PROVE  Clean'
<1>0. /\ UNCHANGED <<receiverVars, taken>>
      /\ Typed /\ Processing /\ TasksEnd
      /\ DOMAIN wire = 1 .. Len(wire) /\ Len(wire) \in Nat /\ taken \in 0 .. Len(wire)
      /\ merged \in Nat /\ Cardinality(SentNow) \in Nat /\ Len(history) \in Nat
  BY SenderFrame, NumbersTyped, SentCounted, ProtocolAssumption DEF ProtocolInv, Typed, TypeOK
<1>1. /\ UNCHANGED <<rpc, history, worker, todo, mrs, merged, taken>>
      /\ \A b : Records(b)' = Records(b) /\ Merging' = Merging
  BY <1>0, RecordsSame DEF receiverVars, Merging
<1>2. /\ rpc' # "unwind" /\ \A i \in DOMAIN history' : history'[i].outcome # Threw
      /\ \A w \in ResultWorker : worker'[w] # "threw" /\ (w \notin Merging' => todo'[w] = {})
  BY <1>1 DEF Clean
<1>3. CASE rpc = "idle"
  <2>1. InboxEmpty /\ requests = <<>> /\ Finished /\ ~PollRequest
    BY <1>3 DEF Clean, PollRequest
  <2>2. Finished' /\ UNCHANGED <<wire, requests>>
    BY <2>1, FinishedStep
  <2> QED
    BY <1>1, <1>2, <1>3, <2>1, <2>2 DEF Clean, InboxEmpty
<1>4. CASE rpc = "response"
  <2>1. SUFFICES Awaiting'
    BY <1>1, <1>2, <1>4 DEF Clean
  <2>2. Awaiting
    BY <1>4 DEF Clean
  <2>3. CASE requests = <<Len(history)>> /\ InboxEmpty /\ Finished
    <3>1. CASE PollRequest
      <4>1. /\ requests' = Tail(requests) /\ current' = Head(requests) /\ wire' = wire
            /\ spc' \in {"params", "query"}
        BY <3>1 DEF PollRequest, DispatcherStep
      <4>2. requests' = <<>> /\ current' = Len(history)
        BY <2>3, <4>1
      <4> QED
        BY <1>1, <2>3, <4>1, <4>2 DEF Awaiting, InboxEmpty
    <3>2. CASE Finished' /\ UNCHANGED <<wire, requests, current>>
      BY <1>1, <2>3, <3>2 DEF Awaiting, InboxEmpty
    <3> QED
      BY <2>3, <3>1, <3>2, FinishedStep
  <2>4. CASE requests = <<>> /\ current = Len(history) /\ InboxEmpty /\ spc \in {"params", "query"}
    <3>1. current # 0 /\ \A b \in Bundle : task[b] \notin {"queued", "running"}
      BY <1>0, <2>4 DEF Processing, TasksEnd
    <3>2. CASE RunParams
      <4>1. /\ spc = "params" /\ spc' = "poll" /\ Send("params", 0) /\ UNCHANGED <<requests, current>>
        BY <3>2 DEF RunParams, DispatcherStep
      <4>2. /\ Len(wire') = Len(wire) + 1
            /\ wire'[Len(wire) + 1] = Message("params", current, 0)
        BY <1>0, <3>1, <4>1, SendAppends, BundlesCounted
      <4>3. Len(wire') = taken + 1 /\ wire'[taken + 1].kind = "params"
        BY <2>4, <4>2 DEF InboxEmpty, Message
      <4>4. ForParams(current)
        BY <1>0, <4>1 DEF Processing
      <4> QED
        BY <1>1, <2>4, <4>1, <4>3, <4>4 DEF Awaiting, Incoming, ForParams
    <3>3. CASE SendResponse
      <4>1. /\ spc = "query" /\ spc' = "enqueue" /\ Send("query", 0) /\ UNCHANGED <<requests, current>>
        BY <3>3 DEF SendResponse, DispatcherStep
      <4>2. /\ Len(wire') = Len(wire) + 1
            /\ wire'[Len(wire) + 1] = Message("query", current, 0)
        BY <1>0, <3>1, <4>1, SendAppends, BundlesCounted
      <4>3. Len(wire') = taken + 1 /\ wire'[taken + 1].kind = "query"
        BY <2>4, <4>2 DEF InboxEmpty, Message
      <4>4. ~ForParams(current)
        BY <1>0, <4>1 DEF Processing
      <4>5. SentNow' = {} /\ Cardinality(SentNow') = 0 /\ taken + 2 .. taken + 1 = {}
        BY <1>0, <4>1, FS_EmptySet DEF SentNow
      <4>6. /\ PackagesFrom(taken + 2)' /\ SentNow' = {wire'[i].bundle : i \in taken' + 2 .. Len(wire')}
        BY <1>1, <4>3, <4>5 DEF PackagesFrom
      <4>7. Streaming'
        BY <1>1, <2>4, <4>1 DEF Streaming
      <4>8. taken # Len(wire') /\ Len(wire') = taken + 1 + 0
        BY <1>0, <4>3
      <4> QED
        BY <1>1, <4>1, <4>3, <4>4, <4>5, <4>6, <4>7, <4>8 DEF Awaiting, Incoming, ForParams, InboxEmpty
    <3>4. CASE UNCHANGED <<spc, requests, wire, current, task, stop, faults>>
      BY <1>1, <2>4, <3>4 DEF Awaiting, InboxEmpty
    <3>5. /\ ~PollRequest /\ ~EnqueueBundles /\ ~EndRunQuery
          /\ \A b \in Bundle : ~StartTask(b) /\ ~SendPackage(b)
      BY <2>4, <3>1 DEF PollRequest, EnqueueBundles, EndRunQuery, StartTask, SendPackage,
         DispatcherStep, TaskStep
    <3> QED
      BY <3>2, <3>3, <3>4, <3>5 DEF Serves
  <2>5. CASE /\ requests = <<>> /\ current = Len(history) /\ spc = "poll" /\ ForParams(current)
             /\ Len(wire) = taken + 1 /\ Incoming.kind = "params"
    <3>1. Finished /\ ~PollRequest
      BY <2>5 DEF Finished, PollRequest
    <3>2. spc' = "poll" /\ UNCHANGED <<wire, requests, current>>
      BY <2>5, <3>1, FinishedStep
    <3> QED
      BY <1>1, <2>5, <3>2 DEF Awaiting, Incoming, ForParams
  <2>6. CASE /\ Streaming /\ ~ForParams(current)
             /\ ~InboxEmpty /\ Incoming.kind = "query" /\ PackagesFrom(taken + 2)
             /\ SentNow = {wire[i].bundle : i \in taken + 2 .. Len(wire)}
             /\ Len(wire) = taken + 1 + Cardinality(SentNow)
    <3>1. Streaming' /\ current' = current
      BY <1>1, <2>6, StreamingStep DEF Streaming
    <3>2. CASE SentNow' = SentNow /\ wire' = wire
      <4>1. PackagesFrom(taken + 2)'
        BY <1>1, <2>6, <3>2 DEF PackagesFrom
      <4>2. SentNow' = {wire'[i].bundle : i \in taken' + 2 .. Len(wire')}
        BY <1>1, <2>6, <3>2
      <4> QED
        BY <1>1, <2>6, <3>1, <3>2, <4>1, <4>2 DEF Awaiting, Incoming, InboxEmpty, ForParams
    <3>3. ASSUME NEW b \in Bundle \ SentNow,
                 SentNow' = SentNow \cup {b}, Len(wire') = Len(wire) + 1,
                 wire'[Len(wire) + 1] = Message("part", Len(history), b),
                 \A i \in 1 .. Len(wire) : wire'[i] = wire[i]
          PROVE  Awaiting'
      <4> DEFINE last == Len(wire) + 1
      <4>0. Len(wire) = taken + 1 + Cardinality(SentNow)
        BY <2>6
      <4>1. /\ wire'[last].kind = "part" /\ wire'[last].id = Len(history) /\ wire'[last].bundle = b
        BY <3>3 DEF Message
      <4>2. /\ \A i : i \in taken + 2 .. last <=> i \in taken + 2 .. Len(wire) \/ i = last
            /\ \A i \in taken + 2 .. Len(wire) : i \in 1 .. Len(wire)
            /\ taken + 1 \in 1 .. Len(wire) /\ taken # last
        BY <1>0, <4>0
      <4>3. \A i \in taken + 2 .. Len(wire) : wire'[i] = wire[i]
        BY <3>3, <4>2
      <4> HIDE DEF last
      <4>4. PackagesFrom(taken + 2)'
        <5>1. \A i \in taken + 2 .. last :
                wire'[i].kind = "part" /\ wire'[i].id = Len(history) /\ wire'[i].bundle \in SentNow'
          <6>1. \A i \in taken + 2 .. Len(wire) :
                  wire[i].kind = "part" /\ wire[i].id = Len(history) /\ wire[i].bundle \in SentNow
            BY <2>6 DEF PackagesFrom
          <6> QED
            BY <3>3, <4>1, <4>2, <4>3, <6>1
        <5> QED
          BY <1>1, <3>3, <5>1 DEF PackagesFrom, last
      <4>5. SentNow' = {wire'[i].bundle : i \in taken + 2 .. last}
        <5>1. \A x : x \in SentNow' <=> x \in {wire'[i].bundle : i \in taken + 2 .. last}
          BY <2>6, <3>3, <4>1, <4>2, <4>3
        <5> QED
          BY <5>1
      <4>6. Len(wire') = taken + 1 + Cardinality(SentNow')
        <5>1. Cardinality(SentNow \cup {b}) = Cardinality(SentNow) + 1
          BY SentCounted, FS_AddElement
        <5>2. Len(wire) + 1 = taken + 1 + (Cardinality(SentNow) + 1)
          BY <1>0, <4>0
        <5> QED
          BY <3>3, <5>1, <5>2
      <4>7. wire'[taken + 1] = wire[taken + 1] /\ taken # Len(wire')
        BY <3>3, <4>2 DEF last
      <4>8. SentNow' = {wire'[i].bundle : i \in taken' + 2 .. Len(wire')}
        BY <1>1, <3>3, <4>5 DEF last
      <4>9. Len(wire') = taken' + 1 + Cardinality(SentNow')
        BY <1>1, <4>6
      <4>10. ~InboxEmpty' /\ Incoming'.kind = "query" /\ ~ForParams(current)'
        BY <1>1, <2>6, <3>1, <4>7 DEF InboxEmpty, Incoming, ForParams
      <4> QED
        BY <1>1, <3>1, <4>4, <4>8, <4>9, <4>10 DEF Awaiting
    <3> QED
      BY <1>1, <2>6, <3>2, <3>3, StreamingStep
  <2> QED
    BY <2>2, <2>3, <2>4, <2>5, <2>6 DEF Awaiting
<1>5. CASE rpc = "futures"
  <2>1. Collecting
    BY <1>5 DEF Clean
  <2>2. SUFFICES Collecting'
    BY <1>1, <1>2, <1>5 DEF Clean
  <2>3. Streaming'
    BY <1>1, <2>1, StreamingStep DEF Collecting
  <2>4. CASE SentNow' = SentNow /\ wire' = wire
    <3>1. PackagesFrom(taken + 1)'
      BY <1>1, <2>1, <2>4 DEF PackagesFrom, Collecting
    <3>2. Consumed' = Consumed
      BY <1>1, <2>4 DEF Consumed, Untaken
    <3> QED
      BY <1>1, <2>1, <2>3, <2>4, <3>1, <3>2 DEF Collecting
  <2>5. ASSUME NEW b \in Bundle \ SentNow,
               SentNow' = SentNow \cup {b}, Len(wire') = Len(wire) + 1,
               wire'[Len(wire) + 1] = Message("part", Len(history), b),
               \A i \in 1 .. Len(wire) : wire'[i] = wire[i]
        PROVE  Collecting'
    <3> DEFINE last == Len(wire) + 1
    <3>1. /\ wire'[last].kind = "part" /\ wire'[last].id = Len(history) /\ wire'[last].bundle = b
      BY <2>5 DEF Message
    <3>2. /\ \A i : i \in taken + 1 .. last <=> i \in taken + 1 .. Len(wire) \/ i = last
          /\ \A i \in taken + 1 .. Len(wire) : i \in 1 .. Len(wire)
      BY <1>0
    <3>3. \A i \in taken + 1 .. Len(wire) : wire'[i] = wire[i]
      BY <2>5, <3>2
    <3> HIDE DEF last
    <3>4. PackagesFrom(taken + 1)'
      <4>1. \A i \in taken + 1 .. last :
              wire'[i].kind = "part" /\ wire'[i].id = Len(history) /\ wire'[i].bundle \in SentNow'
        BY <2>1, <2>5, <3>1, <3>2, <3>3 DEF PackagesFrom, Collecting
      <4> QED
        BY <1>1, <2>5, <4>1 DEF PackagesFrom, last
    <3>5. Consumed' = Consumed
      <4>1. Untaken' = {wire'[i].bundle : i \in taken + 1 .. last}
        BY <1>1, <2>5 DEF Untaken, last
      <4>2. \A x : x \in Untaken' <=> x \in Untaken \/ x = b
        BY <3>1, <3>2, <3>3, <4>1 DEF Untaken
      <4>3. SentNow' \ Untaken' = SentNow \ Untaken
        BY <2>5, <4>2
      <4>4. Consumed' = UNION {Records(c) : c \in SentNow' \ Untaken'}
        BY <1>1 DEF Consumed
      <4> QED
        BY <4>3, <4>4 DEF Consumed
    <3>6. Len(wire') - taken' + merged' + Cardinality(Merging') = Cardinality(SentNow')
      <4>1. Cardinality(SentNow \cup {b}) = Cardinality(SentNow) + 1
        BY SentCounted, FS_AddElement
      <4>2. Cardinality(Merging) \in Nat
        BY WorkersNumbered, FS_Subset, FS_CardinalityType DEF Merging
      <4>3. (Len(wire) + 1) - taken + merged + Cardinality(Merging) = Cardinality(SentNow) + 1
        BY <1>0, <2>1, <4>2 DEF Collecting
      <4> QED
        BY <1>1, <2>5, <4>1, <4>3
    <3> QED
      BY <1>1, <2>1, <2>3, <3>4, <3>5, <3>6 DEF Collecting
  <2> QED
    BY <1>1, <2>1, <2>4, <2>5, StreamingStep DEF Collecting
<1> QED
  BY <1>0, <1>3, <1>4, <1>5 DEF Typed, TypeOK, Clean

LEMMA SessionStutters == UNCHANGED vars /\ SessionInv => SessionInv'
<1> SUFFICES ASSUME UNCHANGED vars, SessionInv
             PROVE  SessionInv'
  OBVIOUS
<1>1. /\ UNCHANGED <<history, rpc, rnext, count, worker, seen, todo, mrs, merged>>
      /\ UNCHANGED <<spc, current, task, snext, requests, wire, taken, stop, faults>>
  BY DEF vars, receiverVars, senderVars
<1>2. ProtocolInv' /\ NothingFailed'
  BY <1>1 DEF SessionInv, ProtocolInv, Typed, TypeOK, Processing, ForParams, TasksEnd, Workers, Holding,
     RequestsInOrder, SentSoFar, StreamOrdered, OnePending, NothingFailed
<1>3. /\ SentNow' = SentNow /\ Merging' = Merging /\ Untaken' = Untaken
      /\ Streaming' = Streaming /\ Finished' = Finished /\ InboxEmpty' = InboxEmpty
      /\ Incoming' = Incoming /\ \A i : ForParams(i)' = ForParams(i)
      /\ Undisturbed' = Undisturbed
  BY <1>1 DEF SentNow, Sent, Merging, Untaken, Streaming, Finished, InboxEmpty, Incoming, ForParams,
     Undisturbed
<1>4. \A i : PackagesFrom(i)' = PackagesFrom(i)
  BY <1>1, <1>3 DEF PackagesFrom
<1>5. Consumed' = Consumed
  BY <1>1, <1>3, RecordsSame DEF Consumed
<1>6. Awaiting' = Awaiting /\ Collecting' = Collecting
  <2>1. PackagesFrom(taken + 2)' = PackagesFrom(taken + 2) /\ PackagesFrom(taken + 1)' = PackagesFrom(taken + 1)
    BY <1>1, <1>3 DEF PackagesFrom
  <2>2. Awaiting' = Awaiting
    BY <1>1, <1>3, <2>1 DEF Awaiting, ForParams
  <2>3. Collecting' = Collecting
    BY <1>1, <1>3, <1>5, <2>1 DEF Collecting
  <2> QED
    BY <2>2, <2>3
<1> QED
  BY <1>1, <1>2, <1>3, <1>6 DEF SessionInv, Clean

LEMMA SessionKept == SessionInv /\ Next => SessionInv'
<1> SUFFICES ASSUME ProtocolInv, NothingFailed, Undisturbed => Clean, Next
             PROVE  ProtocolInv' /\ NothingFailed' /\ (Undisturbed' => Clean')
  BY DEF SessionInv
<1>1. ProtocolInv' /\ NothingFailed'
  BY WhoSteps, RequestKeeps, ReceiverKeeps, SenderKeeps, NothingFailedKept
<1>2. ASSUME Undisturbed'
      PROVE  Clean'
  <2>1. Undisturbed /\ Clean /\ faults = 0 /\ faults' = 0
    BY <1>2, UndisturbedBefore DEF Undisturbed
  <2> QED
    BY <2>1, WhoSteps, FailsOrServes, CleanRequest, CleanCaller, CleanWorker, CleanSender DEF ReceiverStep
<1> QED
  BY <1>1, <1>2

(***************************************************************************)
(* The inductive invariant of undisturbed sessions: as long as nothing has *)
(* gone wrong, the wire holds the response and the packages of the last    *)
(* request and nothing else, each package is untaken, being merged or      *)
(* merged, and the records and the workers' shares of them are those of    *)
(* the packages taken.                                                     *)
(***************************************************************************)
THEOREM SessionInvariant == Spec => []SessionInv
<1>1. Init => SessionInv
  <2> SUFFICES ASSUME Init
               PROVE  SessionInv
    OBVIOUS
  <2>1. NothingFailed
    BY DEF Init, NothingFailed
  <2>2. Clean
    BY DEF Init, Clean, InboxEmpty, Finished
  <2> QED
    BY <2>1, <2>2, InitiallyInv DEF SessionInv
<1>2. SessionInv /\ [Next]_vars => SessionInv'
  BY SessionKept, SessionStutters
<1> QED
  BY <1>1, <1>2, PTL DEF Spec

(***************************************************************************)
(* With a sender that does not fail, and queries that do not trip over a   *)
(* repeated match, a request leaves nothing on the wire for the next one,  *)
(* and none ends with an exception.                                        *)
(***************************************************************************)
THEOREM SessionsEndClean == Spec => []CleanSession
<1>1. SessionInv => CleanSession
  BY DEF SessionInv, Clean, CleanSession
<1> QED
  BY <1>1, SessionInvariant, PTL

----------------------------------------------------------------------------
(***************************************************************************)
(* The service that an undisturbed session implements.                     *)
(***************************************************************************)

\* Item 0, which create_query puts in every empty bin, is in the
\* intersection whenever some bundle holds it.
ZeroIsOwn(input) == (\E b \in Bundle : 0 \in input.holds[b]) => 0 \in Answer(input)

\* Then the records of all packages are the intersection.
LEMMA RecordsAreAnswer ==
  ASSUME Asked \in QueryInput, ZeroIsOwn(Asked)
  PROVE  UNION {Records(b) : b \in Bundle} = Answer(Asked)
<1>1. Asked # Params /\ Asked \in QueryInputType
  BY ProtocolAssumption
<1>2. PICK S \in SUBSET (Bundle \X Bin) : Asked.table \in [S -> QueryItem]
  BY <1>1 DEF QueryInputType
<1>3. ASSUME NEW x \in Answer(Asked)
      PROVE  \E b \in Bundle : x \in Records(b)
  <2>1. PICK p \in DOMAIN Asked.table : Asked.table[p] \in Asked.holds[p[1]] /\ x = Asked.table[p]
    BY <1>1, <1>3 DEF Answer
  <2>2. PICK b \in Bundle, n \in Bin : p = <<b, n>>
    BY <1>2, <2>1
  <2>3. find_item_idx(Asked, <<b, n>>) = x /\ x \in Asked.holds[b]
    BY <2>1, <2>2 DEF find_item_idx
  <2> QED
    BY <2>3 DEF Records, RecordsOf, Ones, Position
<1>4. ASSUME NEW b \in Bundle, NEW x \in Records(b)
      PROVE  x \in Answer(Asked)
  <2>1. PICK n \in Bin : x = find_item_idx(Asked, <<b, n>>) /\ x \in Asked.holds[b]
    BY <1>4 DEF Records, RecordsOf, Ones, Position
  <2>2. CASE <<b, n>> \in DOMAIN Asked.table
    <3>1. x = Asked.table[<<b, n>>] /\ <<b, n>>[1] = b
      BY <2>1, <2>2 DEF find_item_idx
    <3> QED
      BY <1>1, <2>1, <2>2, <3>1 DEF Answer
  <2>3. CASE <<b, n>> \notin DOMAIN Asked.table
    BY <2>1, <2>3 DEF find_item_idx, ZeroIsOwn
  <2> QED
    BY <2>2, <2>3
<1> QED
  BY <1>3, <1>4

LEMMA ServiceStep ==
  ASSUME SessionInv, Undisturbed, Next, \A input \in QueryInput : ZeroIsOwn(input)
  PROVE  PsiService!Next \/ history' = history
<1>0. /\ ProtocolInv /\ Typed /\ Workers /\ OnePending /\ Clean
      /\ history \in Seq(RequestType) /\ DOMAIN history = 1 .. Len(history) /\ Len(history) \in Nat
      /\ rpc # "idle" => history # <<>>
  BY NumbersTyped DEF SessionInv, ProtocolInv, Typed, Workers
<1>1. ASSUME NEW input \in QueryInput \cup {Params}, Request(input)
      PROVE  PsiService!Next
  <2>1. PsiService!Idle
    BY <1>0, <1>1 DEF Request, OnePending, PsiService!Idle
  <2> QED
    BY <1>1, <2>1 DEF Request, PsiService!Next, PsiService!Ask
<1>2. ASSUME rpc # "idle", NEW outcome, EndRequest(outcome),
             outcome = Threw \/ outcome = Answer(Asked)
      PROVE  PsiService!Next
  <2>1. Len(history) \in DOMAIN history
    BY <1>0, <1>2, EmptySeq
  <2>2. ~PsiService!Idle
    BY <1>0, <1>2, <2>1 DEF OnePending, PsiService!Idle
  <2> QED
    BY <1>2, <2>2 DEF EndRequest, Asked, PsiService!Next, PsiService!EndWith
<1>3. CASE ReceiveResponse
  <2>1. \/ history' = history
        \/ EndRequest(Threw)
        \/ EndRequest(Params) /\ Asked = Params
    BY <1>3 DEF ReceiveResponse
  <2>2. rpc # "idle" /\ Answer(Params) = Params
    BY <1>3 DEF ReceiveResponse, Answer
  <2> QED
    BY <1>2, <2>1, <2>2
<1>4. CASE ReturnRecords
  <2>1. rpc = "futures" /\ EndRequest(mrs) /\ GotAll /\ Collecting
    BY <1>0, <1>4 DEF ReturnRecords, EndQuery, Clean
  <2>2. taken = Len(wire) /\ SentNow = Bundle /\ Merging = {}
    BY <1>0, <2>1, AllTaken
  <2>3. Untaken = {}
    BY <1>0, <2>2, NumbersTyped DEF Untaken
  <2>4. mrs = UNION {Records(b) : b \in Bundle}
    <3>1. \A w \in ResultWorker : todo[w] = {}
      BY <1>0, <2>2 DEF Clean
    <3> QED
      BY <2>1, <2>2, <2>3, <3>1 DEF Collecting, Consumed
  <2>5. Asked \in QueryInput
    <3>1. history # <<>> /\ Asked # Params
      BY <1>0, <2>1 DEF Workers, ForParams, Asked
    <3>2. history[Len(history)] \in RequestType
      BY <1>0, <3>1, EmptySeq, ElementOfSeq
    <3> QED
      BY <3>1, <3>2 DEF RequestType, Asked
  <2> QED
    BY <1>2, <2>1, <2>4, <2>5, RecordsAreAnswer
<1>5. CASE PassOnException
  BY <1>2, <1>5 DEF PassOnException, EndQuery
<1>6. CASE GetFuture \/ SenderStep \/ \E w \in ResultWorker : WorkerNext(w)
  <2>1. history' = history
    BY <1>6, SenderFrame DEF GetFuture, WorkerNext, StartWorker, ReadCount, CompareExchange, Exchange,
       ReceiveResult, TestRecord, WriteRecord, NextPackage, WorkerStep, receiverVars
  <2> QED
    BY <2>1
<1> QED
  BY <1>1, <1>3, <1>4, <1>5, <1>6, WhoSteps DEF ReceiverStep, CallerNext

(***************************************************************************)
(* With a sender that does not fail, queries that match no item twice, and *)
(* item 0 in the intersection whenever a bundle holds it, the protocol is  *)
(* the service: requests end one by one, each with its own answer or an    *)
(* exception, although empty bins ask for item 0 and the answer comes in   *)
(* packages that several workers merge in any order.                       *)
(***************************************************************************)
THEOREM ServiceImplemented ==
  ASSUME MaxFaults = 0, \A input \in QueryInput : MatchesOnce(input) /\ ZeroIsOwn(input)
  PROVE  Spec => ImplementsPsiService
<1>1. Init => PsiService!Init
  BY DEF Init, PsiService!Init
<1>2. SessionInv => Undisturbed
  BY DEF SessionInv, ProtocolInv, Typed, TypeOK, Undisturbed
<1>3. SessionInv /\ [Next]_vars => [PsiService!Next]_history
  BY <1>2, ServiceStep DEF vars, receiverVars
<1>4. Spec => PsiService!Spec
  BY <1>1, <1>3, SessionInvariant, PTL DEF Spec, PsiService!Spec
<1> QED
  BY <1>4 DEF ImplementsPsiService

=============================================================================
