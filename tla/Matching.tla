------------------------------ MODULE Matching ------------------------------
(***************************************************************************)
(* How one query finds its matches, without the network: create_query of   *)
(* receiver/apsi/receiver.cpp puts the receiver's items in a cuckoo table  *)
(* and one item's bits in every slot of every bundle; the sender tests     *)
(* each slot of a bundle against all items it inserted in that bundle      *)
(* (sender_db.cpp); process_result_part books the ones that come back.     *)
(*                                                                         *)
(* Kuku's table is external.  A branching program is to give one in the    *)
(* slots of its items and of no other; BranchingProgram shows that its     *)
(* evaluation errs.  Which evaluations err is free here, and what is       *)
(* claimed of an item depends on the evaluations for this item alone.      *)
(***************************************************************************)
EXTENDS Integers, Sequences, FiniteSets, FiniteSetsExt

CONSTANTS
  Item,             \* items of the receiver and the sender
  TableSize,        \* table_size
  BinsPerBundle,    \* receiver_bins_per_bundle
  HashLocations,    \* the locations hash_functions(params) give each item
  Queries,          \* sequences of items that may be queried
  Errors,           \* sets of the <<bundle, item>> for which eval may err together
  Empty

Location == 0 .. TableSize - 1
BundleCount == TableSize \div BinsPerBundle
Bundle == 0 .. BundleCount - 1
Bin == 0 .. BinsPerBundle - 1

\* PSIParams::initialize: table_size is a multiple of receiver_bins_per_bundle
ASSUME MatchingAssumption ==
  /\ TableSize \in Nat \ {0} /\ BinsPerBundle \in Nat \ {0}
  /\ TableSize % BinsPerBundle = 0
  /\ HashLocations \in [Item -> (SUBSET Location) \ {{}}]
  /\ Queries \subseteq Seq(Item)
  /\ Errors \subseteq SUBSET (Bundle \X Item)
  /\ Empty \notin Item

VARIABLES
  items,     \* the items of the query, in order
  bundles,   \* the items in the branching program of each bundle
  wrong,     \* the bundles and items for which the evaluation is not membership
  phase,     \* where the query is
  next,      \* number of items that create_query has looked at
  table,     \* the cuckoo table
  itt,       \* table_idx_to_item_idx_
  arrived,   \* bundles whose packages have been processed
  found      \* indices of the items with a positive MatchRecord

vars == <<items, bundles, wrong, phase, next, table, itt, arrived, found>>

Held == {table[l] : l \in Location} \ {Empty}
ItemIdx == 0 .. Len(items) - 1
items_at(i) == items[i + 1]
----------------------------------------------------------------------------
(***************************************************************************)
(* The sender's side: insert_or_assign puts an item in the bundles of all  *)
(* its locations.                                                          *)
(***************************************************************************)

\* Mutant: an item is inserted at one of its locations.
one_location(x) == {Min(HashLocations[x])}

all_locations(x) == HashLocations[x]

Inserted(senderItems) ==
  [b \in Bundle |-> {x \in senderItems : \E l \in all_locations(x) : l \div BinsPerBundle = b}]

Init ==
  /\ items \in Queries
  /\ \E senderItems \in SUBSET Item : bundles = Inserted(senderItems)
  /\ wrong \in Errors
  /\ phase = "insert" /\ next = 0
  /\ table = [l \in Location |-> Empty]
  /\ itt = [l \in {} |-> 0]
  /\ arrived = {} /\ found = {}
----------------------------------------------------------------------------
(***************************************************************************)
(* create_query.                                                           *)
(***************************************************************************)

\* the tables KukuTable::insert may leave when it returns true: the item
\* takes a free location, or moves others to locations of theirs
Settled(x) ==
  LET free == {l \in HashLocations[x] : table[l] = Empty} IN
  IF free # {} THEN {[table EXCEPT ![l] = x] : l \in free}
  ELSE {t \in [Location -> Held \cup {x, Empty}] :
          /\ {t[l] : l \in Location} \ {Empty} = Held \cup {x}
          /\ \A l \in Location : t[l] # Empty => l \in HashLocations[t[l]]
          /\ \A l, m \in Location : t[l] = t[m] /\ t[l] # Empty => l = m}

\* Mutant: a repeated item is an error.
NeverRepeated(x) == FALSE

\* insert returns false and the leftover item is empty
Repeated(x) == x \in Held

\* every location of the item is taken, and the attempts may run out
MayFail(x) == \A l \in HashLocations[x] : table[l] # Empty

InsertItem ==
  /\ phase = "insert" /\ next < Len(items)
  /\ LET x == items_at(next) IN
       \/ Repeated(x) /\ next' = next + 1 /\ UNCHANGED <<table, phase>>
       \/ ~Repeated(x) /\ table' \in Settled(x) /\ next' = next + 1 /\ UNCHANGED phase
       \/ ~Repeated(x) /\ MayFail(x) /\ phase' = "failed" /\ UNCHANGED <<table, next>>
  /\ UNCHANGED <<items, bundles, wrong, itt, arrived, found>>

\* the loop over all items, in which a later index replaces an earlier one,
\* and the encryption of the bits; without items, items[0] is undefined
Translate ==
  /\ phase = "insert" /\ next = Len(items)
  /\ itt' = [l \in {m \in Location : table[m] # Empty} |-> Max({i \in ItemIdx : items_at(i) = table[l]})]
  /\ phase' = IF items = <<>> THEN "undefined" ELSE "sent"
  /\ UNCHANGED <<items, bundles, wrong, next, table, arrived, found>>

\* a location without an item stands for items[0]
find_item_idx(l) == IF l \in DOMAIN itt THEN itt[l] ELSE 0

\* the item whose bits are in a slot of the bundle's ciphertexts
Slot(b, n) == items_at(find_item_idx(b * BinsPerBundle + n))
----------------------------------------------------------------------------
(***************************************************************************)
(* The packages come back in any order.                                    *)
(***************************************************************************)

\* ProcessBinBundle: eval gives one in the slots of the bundle's items, but
\* where it errs either way
eval(b, x) == (x \in bundles[b]) # (<<b, x>> \in wrong)

Ones(b) == {n \in Bin : eval(b, Slot(b, n))}

\* add_safe(bin, bundle_start)
TableIdx(n, b) == n + b * BinsPerBundle

Idx(n, b) == find_item_idx(TableIdx(n, b))
Records(b) == {Idx(n, b) : n \in Ones(b)}

\* a positive record is there already, from this package or from another
Clash(b) ==
  \/ \E n, m \in Ones(b) : n # m /\ Idx(n, b) = Idx(m, b)
  \/ Records(b) \cap found # {}

\* process_result_part, whose records process_result_worker merges
ProcessPart(b) ==
  /\ phase = "sent" /\ b \notin arrived
  /\ arrived' = arrived \cup {b}
  /\ \/ ~Clash(b) /\ found' = found \cup Records(b) /\ UNCHANGED phase
     \/ Clash(b) /\ phase' = "threw" /\ UNCHANGED found
  /\ UNCHANGED <<items, bundles, wrong, next, table, itt>>

Return ==
  /\ phase = "sent" /\ arrived = Bundle
  /\ phase' = "returned"
  /\ UNCHANGED <<items, bundles, wrong, next, table, itt, arrived, found>>

Next == InsertItem \/ Translate \/ (\E b \in Bundle : ProcessPart(b)) \/ Return
Spec == Init /\ [][Next]_vars
----------------------------------------------------------------------------
(***************************************************************************)
(* Properties.                                                             *)
(***************************************************************************)
SenderItems == UNION {bundles[b] : b \in Bundle}
LastIdx == {i \in ItemIdx : \A j \in ItemIdx : items_at(i) = items_at(j) => j <= i}

\* the programs of all bundles give for the item what they are to give
Exact(x) == \A b \in Bundle : <<b, x>> \notin wrong

(***************************************************************************)
(* Types; every item that was inserted has one location of its own.        *)
(***************************************************************************)
TypeOK ==
  /\ phase \in {"insert", "failed", "undefined", "sent", "threw", "returned"}
  /\ \A l \in Location : table[l] # Empty => l \in HashLocations[table[l]]
  /\ Held = {items_at(i) : i \in 0 .. next - 1}
  /\ phase = "sent" => \A l \in DOMAIN itt : items_at(itt[l]) = table[l] /\ itt[l] \in LastIdx
  /\ found \subseteq ItemIdx

(***************************************************************************)
(* No record, at any time, is positive for an item that the sender does    *)
(* not have, wherever the table put the items and whatever fills the bins  *)
(* without items (process_result_part), unless eval erred for that item;   *)
(* that it errs for others does no harm.                                   *)
(***************************************************************************)
MatchesAreTrue == \A i \in found : Exact(items_at(i)) => items_at(i) \in SenderItems

(***************************************************************************)
(* Of the items for which eval does not err, a query that returns has      *)
(* found the whole intersection, and no other: the one location that the   *)
(* receiver's table gives an item is always in a bundle in which the       *)
(* sender inserted it.  It is found at its last index, and at index 0 if   *)
(* there are empty bins.  This is less than receiver.h:87-88 says, where   *)
(* every index of an item in the intersection has a positive record.       *)
(***************************************************************************)
FindsIntersection ==
  /\ MatchesAreTrue
  /\ phase = "returned" =>
    /\ \A i \in LastIdx : items_at(i) \in SenderItems /\ Exact(items_at(i)) => i \in found
    /\ found \subseteq LastIdx \cup {0}

(***************************************************************************)
(* The exception for a duplicate match is about items[0] alone: it needs   *)
(* empty bins, and items[0] in the intersection or an evaluation that errs *)
(* for it; other items, also repeated ones, and errors of eval for them    *)
(* never cause it.  That it happens at all contradicts itt.h:17-22 and     *)
(* receiver.cpp:400-401, after which the results of empty bins are to be   *)
(* ignored: find_item_idx gives 0 for them (receiver.cpp:55), where        *)
(* item_count is promised.                                                 *)
(***************************************************************************)
ThrowsOnlyForFirst ==
  phase = "threw" =>
    /\ \E l \in Location : table[l] = Empty
    /\ items_at(0) \in SenderItems \/ ~Exact(items_at(0))
=============================================================================
