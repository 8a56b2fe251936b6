# A verification project for the branching-program fork of APSI

This directory holds TLA+ models of the private set intersection library in
this repository (a fork of APSI whose sender evaluates branching programs over
the encrypted bits of the receiver's items), configurations that check them
with TLC, and proofs that TLAPS checks. `PROJECT.json` ties every definition to
the lines of code it models, every property to the hazards it is for, and
records which change of a definition makes each property fail.

## The system

A *receiver* holds items and wants to know which of them a *sender* has.

* `cli/receiver`, `cli/sender` load parameters and CSV files and run one side.
* `receiver/apsi/receiver.cpp` turns the items into a cuckoo table, each bin of
  the table into the bits of one item, encrypts the bits bundle by bundle and
  sends one query.
* `sender/apsi/zmq/sender_dispatcher.cpp` polls a ROUTER socket and runs one
  request at a time through `sender/apsi/sender.cpp`, which evaluates one
  branching program per bundle index on the thread pool and streams one result
  package per bundle index back.
* `receiver.cpp` decrypts packages on its own thread pool, several workers at a
  time, and merges the matches.
* `sender/apsi/sender_db.cpp` holds the sender's items: one `BinBundle` per
  bundle index, one branching program (`common/apsi/bp`) per bin bundle.
* `common/apsi/util/thread_pool.h` and `common/apsi/thread_pool_mgr.cpp` are the
  scheduling layer under both sides.

### Inventory

| Component | State | Operations | Interacts with | Hard because of | Correct when |
|---|---|---|---|---|---|
| Thread pool | queue and its limit, workers and their numbers, pool size, `in_flight`, stop | constructor, `enqueue`, two waits, two setters, destructor, worker loop | every user of it | two mutexes, three condition variables, resizing while it runs, a destructor that drains | every accepted task runs once, in order; no wakeup is lost; the destructor returns with nothing in flight |
| Thread pool manager | the static pool, `ref_count_`, thread counts, `tp_mutex` | constructor, destructor, setters | thread pool; `RunQuery`, `request_query`, `insert_or_assign` | the last manager drains the pool with `tp_mutex` held; jobs left by an exception | a manager's pool lives as long as the manager and has the size set last |
| Receiver: requests | `package_count`, `mrs`, futures, keys, parameters | `RequestParams`, constructor, `reset_keys`, `request_query`, result workers | channel, thread pool | workers race on an atomic and on the records; an exception of one leaves the others running | every package is processed once, a request ends with its own answer or an exception |
| Receiver: matching | cuckoo table, index translation table | `create_query`, `process_result_part` | Kuku, result workers | relocations, repeated items, bins without an item | the positive records are the intersection |
| Dispatcher | stop, the request in hand | `run`, `dispatch_parms`, `dispatch_query` | channel, sender | exceptions at every stage end in a log line | it polls again whatever happens |
| Sender (`RunParams`, `RunQuery`) | `all_bits`, futures, reader lock | the two functions, `ProcessBinBundle` | database, thread pool, channel | tasks refer to locals; the first exception ends the wait | one response, then one package of each bundle |
| Query validation | `data_`, `relin_keys_`, `valid_` | constructor of `Query` | parameters of the database | the parameters may be newer than the query | what it finds valid can be evaluated |
| Sender database | bundles, item count, `db_lock_` | `insert_or_assign`, `set_data`, `clear`, move, readers | thread pool, branching programs | tasks per bundle, a lock that some calls do not take | no item is lost, none is in the wrong bundle, readers see no change |
| Branching program | node arrays, counters | `addItem`, `eval` | database, `RunQuery` | shared prefixes, breadth-first evaluation with costs shared per level | evaluates to one exactly on its items |
| Parameters | the fields of `PSIParams` | `initialize`, `Load` | both programs | boundary values | what loads divides the table into whole bundles |
| Channel, messages | socket, endpoint, two mutexes | bind, connect, disconnect, send and receive of requests, responses, packages | both sides | messages carry no query number; what does not load is dropped; sends and receives lock different mutexes | nothing is dropped that was made for this side; one thread at a time uses the socket |
| SEAL objects, crypto contexts | an object or its serializable form; shared pointers to keys | set, assign, save, load, extract; `set_secret`, `set_evaluator` | receiver, `Query`, `RunQuery`, packages | copies share keys, moves empty their source, one database serves many receivers | a result is computed and decrypted with the keys of its query |
| The two programs | command line, files, SIGINT | `main`, `start_sender`, `remote_query`, loading of parameters and data | everything | files change between test and use, and while they are read; most failures are a log line and an empty pointer | a sender serves all items of one content of its file, unless this changes while it is open, or ends |
| CSV reader, items | lines left, items read | `read`, `process_line`, assignment of a string to an `Item` | both programs | white space, labels, lines without an item, characters outside a table | every item stands for the line it came from |
| Log | settings, appenders, level | `ConfigureIfNeeded`, `Configure`, `DoLog` | every thread | nothing is locked | a line from the level on is written once to each place |
| Stopwatch, exit | summaries by name; the static pool | scopes, `get_timespans`, the report, `exit` | every thread, the SIGINT handler, the pool's destructor | a mutex that a signal handler takes, an exit that waits for the workers | the summaries are exact; SIGINT ends the sender |
| Cuckoo filter and its table | packed tags, the overflow entry, the count | `add`, `contains`, `remove`, `save`, `Load` | `bin_bundle.h` includes it, no call yet | bits across words, random kicks, one overflow entry | answers as counts per fingerprint would |
| Utilities, labels, `Bitstring` | none | number, byte, stream, label and polynomial functions | encodings | wrapping, remainders, short reads, repeated points | each computes its reference definition |

Not in the table: OPRF (emptied), FourQ (vendored, not called), the computation
depth tool (prints one line), the build files.

## The modules

```
 PsiService  <--implements--  QueryProtocol        Negotiation
                              (receiver+sender)    (parameters, keys, restarts)
                                    | uses, as promised by
 TaskPool    <--implements--  ThreadPool           QueryKeys  (the way of the keys)
     ^--- INSTANCE ----  ThreadPoolMgr             Channel    (threads and the socket)

 Matching  --- takes a bundle's test from ---  BranchingProgram
                              SenderDB  (what RunQuery reads)

 Programs --reads a file as described by--> CsvReader      Log, Stopwatch

 ItemBag   <--implements--  CuckooFilter
                               | its table is
 TagTable  <--implements--  CuckooFilterTable  (both over Words)

 Utilities --calls--> Numbers, Buffers, Interpolation, Words, Exceptions
```

`MCx.tla` gives module `x` the sets TLC needs, its `.cfg` the constants.
`xProofs.tla` holds the theorems about `x`. Three modules gather smaller ones
that share no state, so that a run checks them and theorems name their properties
together: `Process` (Programs, CsvReader, Log, Channel, QueryKeys), `Structures`
(CuckooFilter, CuckooFilterTable, BranchingProgram) and `Statics` (ThreadPoolMgr,
Stopwatch). Where a run checks several modules, its variable `part` is chosen at
the start and says which module takes the steps; the others stay in an initial
state, where none of their fair actions is enabled.

### TaskPool, ThreadPool

`TaskPool` is what users rely on: tasks start in the order in which they were
accepted, each runs exactly once, the pool is gone only when all have finished.

`ThreadPool` is `thread_pool.h`. One action is one critical section, from
taking a mutex to releasing it or going to sleep; a wait is a state in which
only a notification or a spurious wakeup moves the thread, after which it tests
its predicate again. `workers` is the vector of threads, `number` the index each
thread captured, `inFlight` the atomic, `status` the life of each call of
`enqueue` and then of its task. `wait_until_empty` and
`wait_until_nothing_in_flight` are called by `Waiter`s.

### ThreadPoolMgr

`thread_pool_mgr.cpp` over `TaskPool` (an `INSTANCE`, so that accepting, running
and destroying are the abstract pool's actions): users construct a manager,
enqueue jobs, leave (normally or by an exception, with jobs unfinished), and
destroy the manager; `mutex` is `tp_mutex`, which only the last destructor keeps
over several steps.

### QueryProtocol, PsiService

Both sides of a connection. The receiver's calling thread sends a request, waits
for a response, launches workers, gets their futures one by one and returns or
unwinds. Each access of a worker to `package_count` or to an element of `mrs` is
a step of its own. The dispatcher polls, sends the response, enqueues one task
per bundle and waits for their futures; tasks send packages in any order. The
wire is all the sender ever sent, of which the receiver has taken a prefix.
A *fault* is a task that throws, a package that cannot be read, a request that is
refused, or the setting of stop. `PsiService` is the abstract promise: requests
end one by one, each with its own answer or an exception, for as long as none has
ended with an exception. After one, a query may end with a *stray* answer; a
request for parameters still ends with the parameters or an exception.

### Negotiation

How the two sides come to compute with the same parameters: loading and checking
parameters, requesting them, constructing a `Receiver`, resetting keys, querying;
a sender that is stopped and started with another file or another serialization
version between any two steps; and the four places in which a query made for
other parameters is noticed or not (channel, `SenderOperationQuery::load`,
`Query`, `RunQuery`). Its requests are processed in one step, whose packages are
sent in any order of the bundles: `QueryProtocol` has what happens inside.

### Matching

One query without the network: insertion into the cuckoo table, index
translation, the bits in every slot, the sender's bundles, and the booking of the
ones that come back, in any order of bundles. Kuku is external: an insertion may
leave any table in which every item has a location of its own, or may fail when
all of the item's locations are taken. A slot's test is the evaluation `eval` of
the bundle's branching program for the item in the slot: membership, except for
the bundles and items in `wrong`, where the program says the opposite. Which
these are is chosen at the start from `Errors`, because `bp_eval` shows that the
evaluation does err. The properties are about items one at a time: what is
claimed of an item needs the evaluations for this item to be right (`Exact`),
and no others.

### SenderDB

The database under calls of several threads. A region that holds `db_lock_` for
writing is one step; `insert_or_assign` takes no lock and its tasks add items one
at a time, so that everything interleaves with it. A step with undefined
behaviour (index out of bounds, a data race, a bundle used while it is moved)
sets `undefined`, after which nothing is claimed. `clear` and `set_data` reset
the count and leave the items, as the code does. A reader may be held up by a
waiting writer or admitted before it: `std::shared_mutex` leaves it open.

### BranchingProgram

`addItem` on the arrays and `eval` on them, with ciphertexts replaced by the
integers modulo the plain modulus in one of their slots.

### QueryKeys

The way of a receiver's keys: `reset_keys` puts them into `SEALObject`s and the
receiver's `CryptoContext`; `create_query` copies the relinearization keys into
the request; the request is saved, loaded and extracted from (`Query::Query`);
`RunQuery` copies the database's context and sets the evaluator of the copy;
the package is loaded and decrypted with the receiver's context. A key or a
ciphertext is the pair of its receiver and generation; several receivers'
queries overlap.

### Channel

One `ZMQChannel` on either side from construction to destruction: which thread
is inside a call of the socket, with which mutex, during polling, dispatching,
answering, streaming packages from tasks, asking, and receiving packages in
workers; a `bind` or `connect` that throws, tasks that throw, `stop`. What is in
the messages is in QueryProtocol and Negotiation. That the pool's destructor
waits is `TaskPool`'s promise, and that a query's manager is the last one is how
the programs use it.

### Programs, CsvReader, Log, Stopwatch

`Programs` has any number of senders and receivers over the files of one
directory, which change between any two steps: `parse_args`, the test of the
file, the parameters, the data, the server port that only one sender gets, the
receiver's two requests, SIGINT. A file is checked, opened and read one line at
a time. A change of a file that is open reaches the stream or not (the file was
written, or replaced): `Rewritten` has what it may give then, the lines read or
buffered, perhaps a line torn between the two contents, and lines of the new
one. Whatever the code catches ends the program with -1: a request for
parameters, the making of the database, or a query may fail at any time. `CsvReader` reads one file: a character is its
code, white space and commas are treated as `process_line` treats them, and an
item is what `Item::operator=` makes of a string (a read outside of
`charToByte` may yield any byte). `Log` is the build with log4cplus: settings by
`parse_args`, configuration by the first line, lines by several threads.
`Stopwatch` has threads that time scopes and the SIGINT handler that prints the
summaries on one of them or on another thread, and then exits. `exit` destroys
the shared pool if there is one, whose destructor takes the queue's lock and
waits for its workers (`DestroyPool`); the pool's life is reduced to what exit
meets of it, `ThreadPoolMgr` and `ThreadPool` have the rest. The locks inside
log4cplus and the allocator are one external lock that a call in a scope holds
and that the handler needs for its lines.

### CuckooFilterTable, TagTable, CuckooFilter, ItemBag, Words

`Words` has words as the sets of their bits, so that shifts, masks and exclusive
or are set operations. `CuckooFilterTable` is the packed table: `TagIndexInfo`
computes where a tag begins and ends, `write_tag` and `read_tag` work on one or
two words; it refines `TagTable`, an array of tags. `CuckooFilter` is the filter
over `TagTable`'s operators: a call of `add_index_tag` goes through its kicks one
step at a time and may end in the overflow entry, which `remove` tries to put
back; `save` followed by `Load` is one step. It refines `ItemBag`, which counts
items per fingerprint: the set of an item's two buckets and its tag.

### Utilities, Numbers, Buffers, Interpolation

The functions of `common/apsi/util`, the label encryptor and `Bitstring` as
operators, called one at a time by `Utilities` with all the arguments of its
bounds; `CallsExact` compares every answer with a reference definition (least
multiple, even partition, the digits' sum, the polynomial's values, ...). A label
that `decrypt_label` returns must encrypt to what it was given, and
`to_bitstring` must have a byte for each of an item's first bits. Of
`copy_bytes` with a count of 0 nothing is claimed: there its comment and its
code disagree (see below).

## The runs

| Run | Instance | Shows |
|---|---|---|
| `pool` | 2 threads, 1 waiter, 3 tasks, sizes 1 and 2, limit from 1, 2 reconfigurations | numbering, accounting, no lost wakeup, shutdown order, drained on destruction, refinement of `TaskPool`; no deadlock; queued tasks run, the destructor and sleeping callers return, a shrunk pool shrinks |
| `query` | 2 bundles of 2 bins, 3 items, 2 workers on 2 threads each side, 2 requests, 1 fault | packages are claimed exactly once, answers are whole, sessions without faults are clean and end, the stream is ordered, the dispatcher returns, refinement of `PsiService` with faults |
| `query_own` *(violation)* | 3 requests, 1 worker, no fault | an answer of another query |
| `query_unwind` *(violation)* | 1 request, 1 failing task | `RunQuery` leaves its wait early |
| `negotiation` | 2 receivers, 2 starts, 4 requests, 2 key generations, 6 parameter files, 2 versions | served as made, nothing dropped that was made for this side, results are the receiver's own, requests return |
| `negotiation_powers` *(violation)* | 1 receiver | a query with other bits is found valid |
| `matching` | query: 4 items, table of 4, 2 bundles, all queries of up to 3 items against all sets of the sender, one evaluation that errs or none; session: 3 requests, 3 bundles of 2 bins, 2 workers, no fault; programs: 2 senders, 1 receiver, 3 data files, a torn line, 1 change of a file; reader: all files of up to 3 of 9 lines; log: 3 threads, 2 lines each; socket: 3 threads; keys: 2 receivers, 2 key generations, with and without key switching | the intersection is found, what throws; refinement of `PsiService` also by sessions in which a request throws by itself and a later one gets a stray answer; what is served is a whole file unless it changed while open; items stand for their lines; lines are logged once; one thread at a time uses the socket; results have the keys of their query |
| `db_calls` | 2 databases, 2 callers, 3 calls, 3 items in one or both of 2 bundles, moves both ways | nothing is lost or misplaced, readers keep what they read, calls return but for the two deadlocks |
| `db_clear` *(violation)* | 1 caller, 2 calls | `clear` leaves the items |
| `db_read_while_inserting` *(violation)* | 2 calls | the reader lock does not prevent insertion |
| `structures` | program: all sequences of up to 3 of the 16 items of 4 bits; filter: 3 items, 2 buckets of 2 tags, 3 kicks, 6 additions; table: tags of 3 bits in words of 4; functions: words of 3 bits, arguments up to 8; manager: 3 users, 1 job each, 2 pools, 1 size change; stopwatch: 2 threads, one of them a worker of the pool, 2 names, 2 scopes of 1 or 4 ms | the arrays are the prefix tree; the filter refines `ItemBag`, the table `TagTable`; every function computes its reference; the pool is shared and outlives its managers, the last one drains it, it has the size set last, users return; the summaries are exact, and SIGINT ends the program unless its handler has to wait for the thread it runs on |
| `bp_eval` *(violation)* | up to 2 items | two items are not exact |

### Why the bounds are enough

* `pool`: two threads are the least number for a thread that is not at the back
  of the vector to be told to leave, for a thread created after a shrink, and for
  a notification that reaches the wrong sleeper. Three tasks fill the queue of
  limit one, make one caller double the limit and another sleep. Two changes
  shrink and grow again. What does not depend on the number of threads is proved.
* `query`: two workers on two packages is the smallest race on `package_count` in
  which one wins the last package; three items are a repeated one and one
  besides. Two requests are a request after an exception. One fault reaches every
  exception path; faults on both packages of a query only end the same waits.
* `query_own` needs three requests: two that throw, one that is answered wrongly.
  The session of `matching` has three requests, too, and three bundles, so that a
  query that throws leaves packages: the stray answer does happen in it.
* `negotiation`: two starts are a restart, four requests are parameters and query
  for each receiver, or two of each for one; two key generations are a reset.
  The files differ from the base in one thing each that some check tells apart.
* `matching`: items 1 and 2 have the same two locations, 3 shares one, so that
  insertion relocates and fails; two bundles let an item have its locations in
  one bundle or in both. Three items per query include repetitions and bins that
  stay empty. One evaluation that errs makes a member missed, a non-member match,
  or `items[0]` match where nothing holds it; the proof is for any number.
* `db_calls`: three calls by two callers contain every pair of calls that overlap
  and a call after or before them; two moves the opposite way and a writer
  between a query's two reader locks are among them.
* `structures`, program: depth 4 is the smallest power of two with a product of
  products; three items make a leaf shared by prefix, a repetition and a third.
* `structures`, filter and table: two of the three items have the same
  fingerprint, the third has one bucket only, and six additions do not fit the
  four places, so that kicks reach their limit, the overflow entry is used, then
  refuses additions, and is put back after a removal. A
  tag of three bits in words of four begins in one word and ends in the next.
* `structures`, functions: in words of three bits the arguments reach every
  wrap, and three points contain a repeated one.
* `matching`, programs: one change lets a file differ between any test and its
  use, and between any two lines that are read; the three contents have no line, a
  first line without an item, a gap and a later label; two senders contend for
  the port. Before the change, both programs read the same data. Reader: the nine lines have an empty
  line, a blank, a label without item, an item with label, white space around
  and inside, letters and a digit outside of the table; three lines contain a
  skipped one between two items. Log: two lines per thread show order and
  repetition. Socket: two workers and the calling thread are every pair of users.
  Keys: two receivers and two generations let a copy or a shared pointer be of
  another receiver or another generation.
* `structures`, stopwatch: two scopes make a name's first and second duration, or
  two names, and overlap in two threads that contend for the mutex; one thread is
  a worker, so that the handler's exit meets a pool on either. What the summaries
  are after more scopes is proved.
* `structures`, manager: three users are one that goes while another comes and a
  third holds on; two pools are one that is made after the first was drained.

### Fairness

No call is ever forced to start, no fault to happen.

* ThreadPool: weak fairness of each worker thread and of each woken caller: a
  thread that can run runs, and a task returns. Spurious wakeups, and which
  sleeper a `notify_one` reaches, stay arbitrary.
* ThreadPoolMgr: weak fairness of users leaving, of jobs and of the drain; strong
  fairness of a destructor, because `tp_mutex` is taken and released by others in
  between and a mutex is assumed to be handed to every waiter eventually.
* QueryProtocol: weak fairness of the receiver's calling thread, of each worker,
  of the dispatcher and of each bundle's task. Failing is never fair.
* SenderDB: weak fairness of each caller's next step, but not of a reader behind a
  writer that waits: `std::shared_mutex` need not admit it. The bound on calls
  keeps others from taking a lock over and over.
* Stopwatch: weak fairness of each thread inside `add_timespan_event` or a call,
  of the end of a pool worker's scope (a task returns, as in ThreadPool), and of
  the handler's steps. Nothing forces other threads to leave their scopes. The scopes of a run are bounded, so that the mutex is free for
  good in the end; in the program the handler waits for the mutex like any
  thread, and a mutex is assumed to be handed to every waiter eventually.
* Negotiation: weak fairness of the dispatcher for each receiver (the dispatcher
  polls for ever and a ROUTER socket queues fairly among its peers) and of a
  receiver that has something to read.

`CHECK_DEADLOCK FALSE` stands in the configurations whose system may stop: when
the bound on calls is reached, and when a receiver waits for an answer that the
sender never sends. `pool` checks deadlock.

## The proofs

TLAPS checks these for every value of the constants that the named assumptions
allow.

* **ThreadPoolProofs** (`ConstantsAssumption`: finitely many threads, positive
  sizes): `PoolInv` is inductive. `InFlightExact` alone is not: it needs that the
  busy workers hold distinct running tasks (`RunningAreHeld`), that the queue
  holds the queued tasks once each (`QueuedAreInQueue`), and that a thread's
  number is its index (`NumbersAreIndices`), because only then does the thread at
  the back leave; `ShutdownOrder` says that a stopped pool without workers has an
  empty queue. From it: `TypeCorrect`, `Numbering`, `Accounting`,
  `DestructorDrains` (the assertion at the end of `~ThreadPool` holds) and
  `PoolRefinesTaskPool` (every step maps to a step of `TaskPool` or to none).
* **ThreadPoolMgrProofs** (`ManagerAssumption`): the invariant ties the pool's
  life to the number of managers and to `tp_mutex`. From it: `ManagerTypes`
  (`ref_count_` is the number of managers), `PoolIsShared`, `LastManagerDrains`,
  `SizeFollows`. The same module has the stopwatch (`StopwatchAssumption`:
  durations are natural numbers, names have lengths): `TimingInv` says that the
  threads inside `add_timespan_event` are the owner of the mutex, that the
  summary of every name is exact (`Exact`), that every summarised name fits
  `max_length` unless the thread that has just inserted it is still to widen it,
  and that the report is of a prefix of each name's durations. From it:
  `SummariesExact`, also with the steps of the pool and of exit in between. The handler reads `max_length` without the lock, after it has
  copied the summaries under it: the length never shrinks, which is all it needs.
* **MatchingProofs** (`MatchingAssumption`: the table is a whole number of
  bundles, every item has a location): the invariant says that the table holds
  the inserted items once, each at a location of its own, that the translation
  table names the last index of the item at a location, that bundles hold what
  the sender inserted, and which indices are booked. It holds for any evaluations
  that err: `wrong` is any set that `Errors` has, and a booked item is in the
  sender's set or one of `wrong`. From it: `MatchingTypes`, `NoFalseMatch`,
  `IntersectionFound` (of the items whose evaluations are right, a query that
  returns has found the intersection and nothing else), `OnlyFirstThrows` (the
  exception is about `items[0]`, whatever errs for other items). What they
  do not say is that evaluations are right: `bp_eval` refutes it, for two items
  and more in a bundle. The heart of it is that the
  location the receiver uses for an item is one of the sender's, so that it lies
  in a bundle that holds the item, and that two bins name the same index only if
  both, or all but one, are empty and stand for `items[0]`.
* **QueryProtocolProofs** (`ProtocolAssumption`: positive sizes, outcomes that
  can be told apart): `ClaimsExact` is not inductive, because a worker that reads
  `package_count` relies on who else holds a package, and a query that starts
  relies on what the last one left. `ProtocolInv` adds where workers and tasks may be
  (`Workers`, `TasksEnd`), that requests reach the sender in order
  and at most the last one is pending (`RequestsInOrder`, `OnePending`), and what
  the dispatcher has sent for the request it is at (`SentSoFar`,
  `StreamOrdered`). It holds whatever fails. From it: `ClaimsAreExact`,
  `StreamIsOrdered`, `AnswersWhole`. `SessionInv` adds what is true while nothing
  has failed: before the response the request, the dispatcher and the inbox are
  in one of four stages (`Awaiting`), and while workers collect, each package
  sent is on the wire, held or merged, and the records in `mrs` and those still
  to be merged are, without overlap, those of the packages taken (`Collecting`).
  From it: `SessionsEndClean`, and `ServiceImplemented` with every step mapped to a
  step of `PsiService` or a stutter. Its hypotheses: no fault
  (`MaxFaults = 0`), no repeated match (`MatchesOnce`), and item 0, which fills
  the empty bins, is found when a bundle holds it (`ZeroIsOwn`). The last is no
  restriction: by Matching, whose theorem uses the same fact, the sender puts an item
  in the bundles of all its locations, the receiver's among them. The first two
  are real: after a failure, or a repeated match that throws, packages are
  left on the wire for the next query, and `query_own` shows what becomes of
  them. With them the theorem is about the part of `PsiService` before an
  exception; the run `query` checks the refinement with one failure and a
  repeated match in sessions of two requests, the run `matching` in sessions of
  three, where the third may get a stray answer.
* **SenderDBProofs** (`SenderDBAssumption`; "nobody" is no caller):
  `HoldsWhatWasPut` compares sets per bundle, with one exception per caller that
  is inserting. `DBInv` says it item by item: a bundle holds an item exactly when
  it was put and hashes there, or some caller has this very insertion to make
  (`Held`, `UnderWay`), and such insertions are of items that were put (`Placed`).
  `Locked` says that a database written to has no reader and that a move
  assignment between its two halves holds the lock. From it: `HoldsItems` and
  `ReadersKeep`, the action property that only insertions change a database under
  a reader. As in the run, nothing is claimed after `undefined`.
* **NegotiationProofs** (`NegotiationAssumption`): `Session` relates, receiver by
  receiver, the request on its way, the inbox, the place in the call, the object
  with its keys, the packages got and left, and the sender's decision. A package
  is of a bundle not got before, so that the packages left are counted by the
  cardinality of the bundles, in any order of arrival and across restarts of the
  sender. `FateFits` says what a decision tells of the two sides' parameters.
  From it: `QueriesServed`, `AllReceived` and the action property
  `QueriesReturnOwn`, for any files and versions, and any number of receivers.

* **ProcessProofs**, one part for each module that `Process` gathers:
  * the socket (`ThreadsAssumption`: the calling thread is no worker, and
    "nobody" is no thread): `send_mutex` and `receive_mutex` do not exclude one
    another, so `SocketIsTakenInTurns` rests on who is where. The invariant says
    that a mutex is held exactly by the thread in the call that locks it, that
    workers have something to do only while the calling thread waits for them or
    unwinds, and that the workers of one side use one and the same mutex; and
    what there is of the socket, by the place of the calling thread.
  * the keys (hypothesis `Values` of the theorem: the null pointer is no key and
    no result): `KeysInv` says for every stage of a query where its keys are and
    in which form (the request's objects, the bytes, the sender's query, the copy
    of the context, the package), and that the contexts hold the keys generated
    last, or none before the first. The lemmas `BothSet`, `HoldsValue` and
    `HoldsNothing` say what assigning, extracting, saving and loading do to an
    object with one pointer or none. From it: `ResultsHaveTheirKeys`, for any
    number of receivers and generations, also when several queries run at once.
  * the programs (`ProgramsAssumption`: a program is a sender or a receiver, and
    the null pointer is no parameters; `DataAssumption`: contents are sequences of
    lines): `ProgramsInv` says of every program, by its place, what its stream may
    give (a content that the file has had, or, if the file changed while it was
    open, lines of its contents and torn ones), how far it has been read, and that
    one sender at most has the port. A line read keeps it (`GetlineKeeps`, with
    `RewrittenLines` for a stream whose file has changed). From it:
    `WholeFilesServed`, for any files and any changes of them.
  * the log (`ThreadsAssumption`): `LogInv` says that threads other than the
    calling one are not born before the log is configured, that an appender is
    added once, and for each thread and place which of its lines have been
    written, in which order. From it: `LinesAreOnce`.
  * the reader (`FilesAssumption`: a file is lines of characters, a stray read
    yields a byte): `ReaderInv` says that each item was new when it was assigned
    the string that `orig_items` has at its place; the lemmas about `Bits` say
    that an item's bits are those of its bytes, eight of each. From it:
    `ItemsAreLines`.
* **StructuresProofs**:
  * the branching program (`TreeAssumption`: a positive depth): `TreeInv` says
    that the nodes can be labelled with the prefixes of the items added, each
    prefix at one node, so that a child's label is its parent's and the side it
    is on, and that the leaves are the items. A descent keeps it (`Arrived`,
    along the bits of the new item). From it: `ProgramHoldsItems`.
  * the cuckoo filter (`FilterAssumption`: hashes are words, a tag is shorter than
    a word, there is at least one kick, and the mark for no call is no call): the bag counts,
    per fingerprint, the table's entries and the overflow entry, less the call
    under way (`BagOf`); a kick exchanges one entry for another of the same
    class. From it: `FilterIsBag`, each step a step of `ItemBag` or a stutter.
  * the packed table (`TableAssumption`: a tag is shorter than a word, and
    `num_buckets` is a number, which TLC evaluates): tags that begin in different
    slots share no bit, so that writing one leaves the others alone, also where a
    tag spans two words. From it: `TableIsArray`.

What recursive functions compute (the sums of the stopwatch, the descent in the
tree) is proved by taking the least counterexample: `WFMin` of
WellFoundedInduction, which needs no operator as its parameter, gives a set of
numbers its least element, from which `UpTo` in ThreadPoolMgrProofs and
`InductionUpTo` in StructuresProofs follow: a set with 0 that is closed under
successors up to N has all of `0 .. N`.

Only model-checked are:

* all liveness properties: liveness under fairness and ENABLED are beyond the
  prover;
* `CallsExact` (what the utilities compute): it rests on powers of two with a
  variable exponent, of which the provers know nothing;
* `ServiceKept`, the sessions in which requests throw;
* what the runs that expect a violation refute.

## What the checks found

* **The answer of another query** (`query_own`). Responses and packages carry no
  query number. A query that ends with an exception (a repeated match is enough,
  no failure is needed) leaves its packages on the connection; after two such
  queries a third returns the records of the second.
* **RunQuery stops waiting at the first exception** (`query_unwind`), while
  tasks of later bundles still use `all_bits` and the context, which are
  destroyed.
* **The reader lock does not keep insertions out** (`db_read_while_inserting`):
  `insert_or_assign` does not take the lock.
* **Evaluation is not membership** (`bp_eval`): with two items in a program,
  `eval` multiplies with the costs of the node visited last on a level. Members
  are missed, or others match.
* **A query with other bits is found valid** (`negotiation_powers`): the bit
  indices are compared with nothing, and `RunQuery` writes beyond a vector.

* **clear does not clear** (`db_clear`): it resets the count of items and leaves
  them in the branching programs; `set_data` therefore adds. `sender_db.h:71` says
  "Every item and label will be removed", `sender_db.h:125-126` that `set_data`
  clears the database.

`Matching` takes a bundle's test to be right or wrong item by item, so that its
results say what is left of them when `eval` errs. `QueryProtocol` does not
compute answers: `holds` is what the bundles' programs answer for, right or wrong.

Places where a comment of the repository says something else than the code does.
No property here claims what the comment says; the properties around it say what
the code does:

* *Bins without an item.* `itt.h:17-22` says that `find_item_idx` returns the
  number of items for a bin without one, and `receiver.cpp:400-401` that the
  results of such bins are ignored. It returns 0 (`receiver.cpp:55`), and
  `items[0]` is queried in all of them: a query throws when `items[0]` is found
  twice (`ThrowsOnlyForFirst`), which is how two queries of `query_own` fail.
* *Repeated items.* `receiver.h:87-88` says that the record of an item in the
  intersection is positive. Of an item given several times only the record at its
  last index is, and that at index 0 if there are empty bins
  (`FindsIntersection`).
* *copy_bytes.* `utils.h:209-212` says that it throws if the source or the
  destination is null. It returns before it looks when the count is 0
  (`utils.cpp:118`).

Seen while modelling, in the models as the code has it:

* `enqueue` on a full queue doubles the limit, so the limit never holds it up
  unless another call changes it in between.
* `eval` of an empty program returns the first bit, a match for half the items.
* With a depth that is not a power of two even one item is not exact.
* `leaves_count` counts a repeated item that is the newest node again;
  `item_count_` adds whole bundle sizes after every insertion, and the
  uninitialized size of bundles without items.
* Move assignment copies the count before it locks the source, and two opposite
  moves deadlock. With a lock that prefers writers, the second reader lock of
  `RunQuery` deadlocks with a waiting writer. `CallsReturn` excepts these two
  deadlocks by name; both are reached in its run.
* `insert_or_assign` indexes its data by bundle number and fails when the bundles
  that occur are not 0, 1, 2, ...
* A query without items is undefined.
* Parameters with `receiver_bins_per_bundle` 0 divide by zero; parameters without
  key switching load and make every query fail; a query made for other hash
  functions is evaluated without notice.
* SIGINT does not end the program when its handler has to wait for the thread that
  it interrupted: one with the stopwatch's mutex, or inside a call that keeps a
  lock of log4cplus or of the allocator; and, as `exit(0)` destroys the shared
  pool, one of its workers or a thread that holds the lock of its queue. The first
  kind is any thread in `add_timespan_event`; a worker is, for example, a thread
  that evaluates a bundle. `InterruptEnds` excepts these by name.
* The log's configuration is not locked. What keeps lines from being lost or
  doubled is that both programs log before they start a thread.
* A database or query file whose first line has no item is taken as empty; one
  whose first line has a label makes the sender end, and lines with a label are
  accepted in a file whose first line has none.
* `charToByte` is read outside of its 60 entries by every character below `A`,
  digits and inner blanks included.
* `end_point_` is set before the socket call that may throw, so that a channel
  whose `bind` failed counts as connected; after `disconnect` the channel cannot
  be connected again, its context is gone.
* `to_bitstring` takes an eighth of the item's bits; `read_from_stream` takes no
  notice of a stream that has ended; `round_up_to` wraps near the end of its
  type; interpolation of values that are all zero returns before it notices
  repeated points; a table with tags of 64 bits would shift by 64.
* The receiver program drops its results, and never writes its output file.
* `SEALObject::operator=` loses an object assigned to itself.
* The sender answers nothing to a request that it drops, refuses or fails: the
  receiver then waits for ever.

## Not modelled

Encryption, noise and the arithmetic of SEAL (a slot is an integer); Kuku and
ZeroMQ beyond what the code relies on; the layout of FlatBuffers encodings; JSON
text; the hash of an item (Blake2b); the options' definitions in TCLAP, the
console and the layout of what is printed; byte counters; memory beyond the
marked undefined behaviour; the order in which the static objects of different
source files are destroyed at exit. OPRF is empty in this fork, FourQ is vendored and
not called, `hash.h`, `add_event` and `generate_event_report` have no caller, and
the depth tool and the build files have no behaviour to model.

## The plan

Order, most important first; 1 to 17 are done.

1. TaskPool, ThreadPool, the proofs of numbering, accounting and refinement.
2. QueryProtocol and PsiService.
3. BranchingProgram.
4. SenderDB.
5. ThreadPoolMgr over TaskPool, with proofs.
6. Matching, with proofs.
7. Negotiation.
8. The findings, each with its run.
9. QueryKeys and Channel: what the other models take for granted of keys and of
   the socket.
10. The start of both programs: Programs, CsvReader, Log.
11. Stopwatch and the SIGINT handler.
12. The cuckoo filter, its table, and the utilities.

13. Proofs of QueryProtocol: `ClaimsExact`, `StreamOrdered`, `AnswersAreWhole`,
    `CleanSession` and the refinement of PsiService.
14. Proofs of SenderDB: `HoldsWhatWasPut` and `ReadersKeepItems`.
15. Proofs of Negotiation: `ServedAsMade`, `NothingDropped`, `ResultsAreOwn`.

16. Proofs of the structures: the tree of the branching program holds what was
    added, and the refinements of the cuckoo filter and of its packed table.
17. Proofs of what surrounds a query: the socket, the keys, the programs' files,
    the log, the reader and the stopwatch.

What is left:

18. Theorems about sessions in which requests throw (`ServiceKept`).
19. Composing the files of Programs with Negotiation: an empty database or an
    empty query file goes all the way to the exchange.
20. Theorems about powers of two, for `next_power_of_2` (then
    `num_buckets` needs no assumption) and the number functions.
