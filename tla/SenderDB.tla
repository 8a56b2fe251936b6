------------------------------ MODULE SenderDB ------------------------------
(***************************************************************************)
(* The sender's database, sender/apsi/sender_db.cpp and bin_bundle.cpp,    *)
(* under calls from several threads: insert_or_assign, clear, set_data,    *)
(* move assignment, and what Sender::RunQuery does with it.                *)
(*                                                                         *)
(* db_lock_ is a std::shared_mutex.  A region that holds it for writing is *)
(* one step.  insert_or_assign does not take it: its tasks add the items   *)
(* of each bundle one at a time.  A branching program is the set of its    *)
(* items and the counter that addItem returns (see BranchingProgram.tla).  *)
(***************************************************************************)
EXTENDS Integers, FiniteSets, FiniteSetsExt

CONSTANTS
  DB,               \* databases
  Caller,           \* threads that use them
  Item,             \* the sender's items
  BundleCount,      \* bundle_idx_count
  Home,             \* the bundles that hold the cuckoo locations of each item
  Calls,            \* the calls made: see CallType
  MaxCalls,         \* bound: number of calls
  Garbage,          \* what an uninitialized bundle_size_ may hold
  None

Bundle == 0 .. BundleCount - 1

CallType ==
  [op : {"insert", "clear", "set", "query", "move"}, db : DB, source : DB, items : SUBSET Item]

ASSUME SenderDBAssumption ==
  /\ BundleCount \in Nat \ {0} /\ MaxCalls \in Nat
  /\ Home \in [Item -> (SUBSET Bundle) \ {{}}]
  /\ Calls \subseteq CallType
  /\ Garbage \subseteq Int
  /\ None \notin Caller

VARIABLES
  bundles,     \* bin_bundles_ of each database; <<>> after it was moved away
  item_count,  \* item_count_
  readers,     \* how often each caller holds db_lock_ for reading
  writer,      \* who holds it for writing
  pc,          \* where each caller is
  call,        \* the call it makes
  left,        \* the insertions its tasks have not begun
  adding,      \* the insertions its tasks are at
  calls,       \* number of calls so far
  put,         \* the items that were inserted into the database or moved to it
  undefined    \* the program has accessed memory out of bounds or raced

lockVars == <<readers, writer>>
dataVars == <<bundles, item_count, put>>
vars == <<dataVars, lockVars, pc, call, left, adding, calls, undefined>>

Moved == [b \in {} |-> 0]
NewBundle(size) == [items |-> {}, last |-> None, leaves |-> 0, size |-> size]

Init ==
  /\ bundles \in [DB -> {[b \in Bundle |-> NewBundle(s)] : s \in Garbage}]
  /\ item_count = [d \in DB |-> 0]
  /\ readers = [d \in DB |-> [c \in Caller |-> 0]]
  /\ writer = [d \in DB |-> None]
  /\ pc = [c \in Caller |-> "idle"]
  /\ call = [c \in Caller |-> None]
  /\ left = [c \in Caller |-> {}] /\ adding = [c \in Caller |-> {}]
  /\ calls = 0
  /\ put = [d \in DB |-> {}]
  /\ undefined = FALSE
----------------------------------------------------------------------------
db(c) == call[c].db

Step(c, from, to) ==
  /\ ~undefined /\ undefined' = FALSE
  /\ pc[c] = from
  /\ pc' = [pc EXCEPT ![c] = to]
  /\ UNCHANGED calls

\* a step with undefined behaviour: nothing is claimed of what follows
GoUndefined == undefined' = TRUE /\ UNCHANGED <<dataVars, lockVars, pc, call, left, adding, calls>>

\* tasks of insert_or_assign use the bundles of d
Inserting(d) == \E c \in Caller : pc[c] = "adding" /\ db(c) = d

Free(d) == writer[d] = None
Unread(d) == Free(d) /\ \A c \in Caller : readers[d][c] = 0
WantsToWrite(c, d) ==
  \/ pc[c] \in {"clear", "moveThis"} /\ db(c) = d
  \/ pc[c] = "moveSource" /\ call[c].source = d

\* A reader may be held up by a waiting writer, or not: the standard leaves it open.
HeldUp(c) == pc[c] \in {"query", "count"} /\ \E e \in Caller : WantsToWrite(e, db(c))

Begin(c, k) ==
  /\ ~undefined /\ pc[c] = "idle" /\ calls < MaxCalls
  /\ calls' = calls + 1
  /\ call' = [call EXCEPT ![c] = k]
  /\ pc' = [pc EXCEPT ![c] =
        CASE k.op \in {"clear", "set"} -> "clear" [] k.op = "insert" -> "insert"
          [] k.op = "query" -> "query" [] k.op = "move" -> IF k.db = k.source THEN "idle" ELSE "moveThis"]
  /\ UNCHANGED <<dataVars, lockVars, left, adding, undefined>>
----------------------------------------------------------------------------
(***************************************************************************)
(* clear, set_data and move assignment.                                    *)
(***************************************************************************)

\* Mutant: clear does not wait for the readers.
ClearableUnlocked(d) == TRUE

\* get_writer_lock
Clearable(d) == Unread(d)

Clear(c) ==
  /\ Step(c, "clear", IF call[c].op = "set" THEN "insert" ELSE "idle")
  /\ Clearable(db(c))
  /\ item_count' = [item_count EXCEPT ![db(c)] = 0]
  /\ UNCHANGED <<bundles, put, lockVars, call, left, adding>>

MoveLockThis(c) ==
  /\ Step(c, "moveThis", "moveSource")
  /\ Unread(db(c))
  /\ writer' = [writer EXCEPT ![db(c)] = c]
  /\ item_count' = [item_count EXCEPT ![db(c)] = item_count[call[c].source]]
  /\ UNCHANGED <<bundles, put, readers, call, left, adding>>

MoveSource(c) ==
  LET d == db(c)
      s == call[c].source
  IN  /\ Step(c, "moveSource", "idle")
      /\ Unread(s) /\ ~Inserting(s) /\ ~Inserting(d)
      /\ bundles' = [bundles EXCEPT ![d] = bundles[s], ![s] = Moved]
      /\ item_count' = [item_count EXCEPT ![s] = 0]
      /\ put' = [put EXCEPT ![d] = put[s], ![s] = {}]
      /\ writer' = [writer EXCEPT ![d] = None]
      /\ UNCHANGED <<readers, call, left, adding>>

\* bin_bundles_ is moved or replaced while tasks add to it
MoveUndefined(c) ==
  /\ ~undefined /\ pc[c] = "moveSource"
  /\ Inserting(call[c].source) \/ Inserting(db(c))
  /\ GoUndefined
----------------------------------------------------------------------------
(***************************************************************************)
(* insert_or_assign.                                                       *)
(***************************************************************************)

\* Mutant: an item is inserted at one of its locations only.
FirstLocation(x) == {Min(Home[x])}

\* all_locations, unpacked to bundle indices
Locations(x) == Home[x]

Placements(items) == {p \in items \X Bundle : p[2] \in Locations(p[1])}
Targets(items) == {p[2] : p \in Placements(items)}

\* datas has one element per bundle index that occurs and is indexed by them
Contiguous(indices) == indices = 0 .. (Cardinality(indices) - 1)

StartInsert(c) ==
  /\ Step(c, "insert", "adding")
  /\ Targets(call[c].items) \subseteq DOMAIN bundles[db(c)]
  /\ left' = [left EXCEPT ![c] = Placements(call[c].items)]
  /\ put' = [put EXCEPT ![db(c)] = @ \cup call[c].items]
  /\ UNCHANGED <<bundles, item_count, lockVars, call, adding>>

\* datas[bundle_idx] or bin_bundles[bundle_idx] out of bounds
InsertOutOfBounds(c) ==
  /\ ~undefined /\ pc[c] = "insert"
  /\ ~Contiguous(Targets(call[c].items)) \/ ~(Targets(call[c].items) \subseteq DOMAIN bundles[db(c)])
  /\ GoUndefined

\* the task of bundle b begins to add item x
BeginAdd(c) ==
  /\ Step(c, "adding", "adding")
  /\ \E p \in left[c] :
       /\ \A q \in adding[c] : q[2] # p[2]
       /\ left' = [left EXCEPT ![c] = @ \ {p}]
       /\ adding' = [adding EXCEPT ![c] = @ \cup {p}]
  /\ UNCHANGED <<dataVars, lockVars, call>>

\* two threads are in addItem of one branching program, or its bundle is gone
Races(c, p) ==
  \/ p[2] \notin DOMAIN bundles[db(c)]
  \/ \E e \in Caller \ {c} : pc[e] = "adding" /\ db(e) = db(c) /\ \E q \in adding[e] : q[2] = p[2]

\* multi_insert and BP::addItem, which counts a leaf that is the node created last
Added(bundle, x) ==
  LET new == x \notin bundle.items
      n == bundle.leaves + (IF new \/ x = bundle.last THEN 1 ELSE 0)
  IN  [items |-> bundle.items \cup {x}, last |-> IF new THEN x ELSE bundle.last,
       leaves |-> n, size |-> n]

EndAdd(c) ==
  \E p \in adding[c] :
    /\ ~Races(c, p)
    /\ Step(c, "adding", "adding")
    /\ bundles' = [bundles EXCEPT ![db(c)][p[2]] = Added(@, p[1])]
    /\ adding' = [adding EXCEPT ![c] = @ \ {p}]
    /\ UNCHANGED <<item_count, put, lockVars, call, left>>

RacingAdd(c) ==
  ~undefined /\ pc[c] = "adding" /\ (\E p \in adding[c] : Races(c, p)) /\ GoUndefined

\* every future is ready: add up the bundle sizes
CountItems(c) ==
  /\ Step(c, "adding", "idle")
  /\ left[c] = {} /\ adding[c] = {}
  /\ item_count' = [item_count EXCEPT ![db(c)] =
        @ + SumFunction([b \in DOMAIN bundles[db(c)] |-> bundles[db(c)][b].size])]
  /\ UNCHANGED <<bundles, put, lockVars, call, left, adding>>
----------------------------------------------------------------------------
(***************************************************************************)
(* Sender::RunQuery: the reader lock, the number of bundles under a second *)
(* reader lock, and the evaluation of every bundle.                        *)
(***************************************************************************)
LockRead(c) ==
  /\ Step(c, "query", "count")
  /\ Free(db(c))
  /\ readers' = [readers EXCEPT ![db(c)][c] = @ + 1]
  /\ UNCHANGED <<dataVars, writer, call, left, adding>>

CountBundles(c) ==
  /\ Step(c, "count", "evaluate")
  /\ Free(db(c))
  /\ UNCHANGED <<dataVars, lockVars, call, left, adding>>

\* Mutant: the lock is not released.
Kept(c) == readers' = readers

\* ~ReaderLock
Released(c) == readers' = [readers EXCEPT ![db(c)][c] = 0]

Evaluate(c) ==
  /\ Step(c, "evaluate", "idle")
  /\ DOMAIN bundles[db(c)] = Bundle
  /\ Released(c)
  /\ UNCHANGED <<dataVars, writer, call, left, adding>>

\* get_bin_bundle of a database that was moved away, or that is being added to
EvaluateUndefined(c) ==
  /\ ~undefined /\ pc[c] = "evaluate"
  /\ \/ DOMAIN bundles[db(c)] # Bundle
     \/ \E e \in Caller : pc[e] = "adding" /\ db(e) = db(c) /\ adding[e] # {}
  /\ GoUndefined
----------------------------------------------------------------------------
CallStep(c) ==
  \/ Clear(c) \/ MoveLockThis(c) \/ MoveSource(c) \/ MoveUndefined(c)
  \/ StartInsert(c) \/ InsertOutOfBounds(c) \/ BeginAdd(c) \/ EndAdd(c) \/ RacingAdd(c) \/ CountItems(c)
  \/ LockRead(c) \/ CountBundles(c) \/ Evaluate(c) \/ EvaluateUndefined(c)

Next == \E c \in Caller : (\E k \in Calls : Begin(c, k)) \/ CallStep(c)

Spec == Init /\ [][Next]_vars

\* A thread runs on, but nothing says that a reader gets past a waiting writer.
FairSpec == Spec /\ \A c \in Caller : WF_vars(~HeldUp(c) /\ CallStep(c))
----------------------------------------------------------------------------
(***************************************************************************)
(* Properties.                                                             *)
(***************************************************************************)
Pending(d) ==
  UNION {left[c] \cup adding[c] : c \in {e \in Caller : pc[e] = "adding" /\ db(e) = d}}

(***************************************************************************)
(* Types; the sizes of bundles are the values addItem returned, a bundle   *)
(* that nothing was added to has kept its uninitialized one.               *)
(***************************************************************************)
TypeOK ==
  /\ \A d \in DB : \A b \in DOMAIN bundles[d] :
       /\ b \in Bundle
       /\ IF bundles[d][b].items = {} THEN bundles[d][b].size \in Garbage
          ELSE bundles[d][b].size = bundles[d][b].leaves
  /\ \A d \in DB : writer[d] # None => \A c \in Caller : readers[d][c] = 0
  /\ \A c \in Caller : pc[c] # "adding" => left[c] = {} /\ adding[c] = {}

(***************************************************************************)
(* Every bundle holds exactly the items that were put in the database and  *)
(* have one of their locations there, but for those whose insertion is     *)
(* still under way: no item is lost between parallel tasks, calls and move *)
(* assignments, or ends up in the wrong bundle (insert_or_assign_worker);  *)
(* and a bundle's size is what its last addItem returned (in TypeOK).      *)
(* That clear takes none of them away is not meant to be so: the comments  *)
(* of clear and set_data say otherwise (ClearRemoves).                     *)
(***************************************************************************)
HoldsWhatWasPut ==
  /\ TypeOK
  /\ ~undefined => \A d \in DB : \A b \in DOMAIN bundles[d] :
    LET underWay == {p[1] : p \in {q \in Pending(d) : q[2] = b}} IN
    bundles[d][b].items \ underWay = {x \in put[d] : b \in Home[x]} \ underWay

Reading(d) == \E c \in Caller : readers[d][c] > 0 /\ readers'[d][c] > 0
SameDatabase(d) == bundles'[d] = bundles[d] /\ item_count'[d] = item_count[d]

(***************************************************************************)
(* While RunQuery holds the reader lock, no clear or move assignment takes *)
(* effect: what it reads can only grow, by an insertion in progress.       *)
(***************************************************************************)
ReadersKeepItems ==
  [][\A d \in DB : Reading(d) =>
       \/ SameDatabase(d)
       \/ Inserting(d) /\ \A b \in DOMAIN bundles[d] : bundles[d][b].items \subseteq bundles'[d][b].items]_vars

(***************************************************************************)
(* While a caller holds the reader lock, the database does not change      *)
(* (sender_db.h: "Obtains a scoped lock preventing the SenderDB from being *)
(* changed").                                                              *)
(***************************************************************************)
LockPreventsChange == [][\A d \in DB : Reading(d) => SameDatabase(d)]_vars

(***************************************************************************)
(* Every call returns, unless the callers end in one of two deadlocks:     *)
(* move assignments in a circle, each with the lock that the next one      *)
(* wants for its source; or RunQuery at its second reader lock, which a    *)
(* writer holds up that waits for the first one.                           *)
(***************************************************************************)
MovesInCircle ==
  \E S \in (SUBSET Caller) \ {{}} :
    \A c \in S : pc[c] = "moveSource" /\ writer[call[c].source] \in S

CountBehindWriter == \E c \in Caller : pc[c] = "count" /\ HeldUp(c)

CallsReturn ==
  \/ <>[](MovesInCircle \/ CountBehindWriter)
  \/ \A c \in Caller : (pc[c] # "idle" ~> pc[c] = "idle" \/ undefined)

=============================================================================
