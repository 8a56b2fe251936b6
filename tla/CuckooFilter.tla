---------------------------- MODULE CuckooFilter ----------------------------
(***************************************************************************)
(* CuckooFilter (sender/apsi/util/cuckoo_filter.cpp): a set of items with  *)
(* removal and false positives.  Of an item only a tag is kept, in one of  *)
(* two buckets; the second is computed from the first and the tag, so that *)
(* a tag can be moved without knowing its item.  What finds no place after *)
(* MaxKicks moves is kept in overflow, and the filter is full.             *)
(*                                                                         *)
(* The table is the array of tags of TagTable, which CuckooFilterTable     *)
(* implements.  Bucket indices, tags and hashes are words (module Words);  *)
(* the hash function of util/hash.h is any function.                       *)
(***************************************************************************)
EXTENDS Words, Integers, FiniteSets

CONSTANTS
  Item,
  Hash,          \* hasher_ on items: [Item -> Word]
  TagHash,       \* hasher_ on tags: [Word -> Word]
  IndexBits,     \* the bits of num_buckets - 1
  BitsPerTag,
  TagIdx,        \* 0 .. tags_per_bucket_ - 1
  MaxKicks,      \* max_cuckoo_kicks_, 1000 in the code
  MaxItems,      \* a bound on additions
  NoCall

ASSUME FilterAssumption ==
  /\ Hash \in [Item -> Word] /\ TagHash \in [Word -> Word]
  /\ IndexBits \subseteq Bit
  /\ BitsPerTag \in 1 .. WordBits - 1
  /\ MaxKicks \in Nat \ {0}
  /\ TagIdx \subseteq Nat /\ IsFiniteSet(TagIdx)
  /\ NoCall \notin [op : {"add", "remove"}, item : Item, idx : SUBSET IndexBits, tag : Word,
                    i : Nat]

VARIABLES
  tags,          \* table_
  overflow,      \* overflow_
  num_items,     \* num_items_
  call,          \* the loop of add_index_tag that runs, or NoCall
  answer         \* what the last call returned

vars == <<tags, overflow, num_items, call, answer>>

Bucket == SUBSET IndexBits
Tag == (SUBSET LowBits(BitsPerTag)) \ {Zero}

Table == INSTANCE TagTable WITH Empty <- Zero, Slot <- TagIdx

idx_bucket_limit(value) == value \cap IndexBits

tag_bit_limit(value) ==
  LET tag == value \cap LowBits(BitsPerTag)
  IN IF tag = Zero THEN ToWord(1) ELSE tag

get_alt_index(idx, tag) == Xor(idx, idx_bucket_limit(TagHash[tag]))

IndexOf(item) == idx_bucket_limit(Hash[item])
TagOf(item) == tag_bit_limit(Hash[item])
AltOf(item) == get_alt_index(IndexOf(item), TagOf(item))

Init ==
  /\ tags = [b \in Bucket |-> [s \in TagIdx |-> Zero]]
  /\ overflow = [used |-> FALSE, index |-> Zero, tag |-> Zero]
  /\ num_items = 0
  /\ call = NoCall
  /\ answer = FALSE

(***************************************************************************)
(* contains.                                                               *)
(***************************************************************************)
InOverflow(item) ==
  /\ overflow.used
  /\ overflow.tag = TagOf(item)
  /\ overflow.index \in {IndexOf(item), AltOf(item)}

Contains(item) ==
  /\ call = NoCall
  /\ answer' = (InOverflow(item)
                \/ \E b \in {IndexOf(item), AltOf(item)} : Table!Found(tags, b, TagOf(item)))
  /\ UNCHANGED <<tags, overflow, num_items, call>>

(***************************************************************************)
(* add, and the loop of add_index_tag it shares with removal.  The loop    *)
(* tries the tag's bucket, then its other bucket, and from then on leaves  *)
(* its tag in the place of another and goes on with that one.              *)
(***************************************************************************)
Loop(op, item, idx, tag) == [op |-> op, item |-> item, idx |-> idx, tag |-> tag, i |-> 0]

Add(item) ==
  /\ call = NoCall
  /\ ~overflow.used
  /\ num_items < MaxItems
  /\ call' = Loop("add", item, IndexOf(item), TagOf(item))
  /\ UNCHANGED <<tags, overflow, num_items, answer>>

AddRefused ==
  /\ call = NoCall
  /\ overflow.used
  /\ answer' = FALSE
  /\ UNCHANGED <<tags, overflow, num_items, call>>

\* add counts its item when the loop is over; removal counted before it.
Return ==
  /\ num_items' = IF call.op = "add" THEN num_items + 1 ELSE num_items
  /\ answer' = TRUE
  /\ call' = NoCall

CarryOn(old) ==
  LET tag == IF call.i > 0 THEN old ELSE call.tag
  IN [call EXCEPT !.idx = get_alt_index(call.idx, tag), !.tag = tag, !.i = @ + 1]

InsertStep ==
  /\ call # NoCall
  /\ call.i < MaxKicks
  /\ \E o \in Table!Insertions(tags, call.idx, call.tag, call.i > 0) :
       /\ tags' = o.tags
       /\ IF o.ok THEN Return
          ELSE call' = CarryOn(o.old) /\ UNCHANGED <<num_items, answer>>
  /\ UNCHANGED overflow

Overflow ==
  /\ call # NoCall
  /\ call.i = MaxKicks
  /\ overflow' = [used |-> TRUE, index |-> call.idx, tag |-> call.tag]
  /\ Return
  /\ UNCHANGED tags

(***************************************************************************)
(* remove: from the first bucket, the other one, or overflow.  What a      *)
(* removal from the table leaves room for is tried again                   *)
(* (try_eliminate_overflow).                                               *)
(***************************************************************************)
BucketsWith(item) ==
  {b \in {IndexOf(item), AltOf(item)} : Table!Found(tags, b, TagOf(item))}

FromBucket(item) ==
  IF IndexOf(item) \in BucketsWith(item) THEN IndexOf(item) ELSE AltOf(item)

\* Mutant: what was in overflow is forgotten.
drop_overflow(item) ==
  /\ overflow' = [overflow EXCEPT !.used = FALSE]
  /\ answer' = TRUE
  /\ UNCHANGED call

try_eliminate_overflow(item) ==
  IF overflow.used
  THEN /\ overflow' = [overflow EXCEPT !.used = FALSE]
       /\ call' = Loop("remove", item, overflow.index, overflow.tag)
       /\ UNCHANGED answer
  ELSE /\ answer' = TRUE
       /\ UNCHANGED <<overflow, call>>

RemoveFromTable(item) ==
  /\ call = NoCall
  /\ BucketsWith(item) # {}
  /\ tags' = Table!Deleted(tags, FromBucket(item), TagOf(item))
  /\ num_items' = num_items - 1
  /\ try_eliminate_overflow(item)

RemoveFromOverflow(item) ==
  /\ call = NoCall
  /\ BucketsWith(item) = {}
  /\ InOverflow(item)
  /\ overflow' = [overflow EXCEPT !.used = FALSE]
  /\ num_items' = num_items - 1
  /\ answer' = TRUE
  /\ UNCHANGED <<tags, call>>

RemoveNone(item) ==
  /\ call = NoCall
  /\ BucketsWith(item) = {}
  /\ ~InOverflow(item)
  /\ answer' = FALSE
  /\ UNCHANGED <<tags, overflow, num_items, call>>

(***************************************************************************)
(* save, and Load in another process: what the buffer holds, and the       *)
(* filter that is constructed from it.                                     *)
(***************************************************************************)
Saved ==
  [table |-> tags, num_items |-> num_items,
   overflow |-> [index |-> overflow.index, tag |-> overflow.tag, used |-> overflow.used]]

Reload ==
  /\ call = NoCall
  /\ tags' = Saved.table
  /\ num_items' = Saved.num_items
  /\ overflow' = [used |-> Saved.overflow.used, index |-> Saved.overflow.index,
                  tag |-> Saved.overflow.tag]
  /\ UNCHANGED <<call, answer>>

Next ==
  \/ AddRefused
  \/ InsertStep
  \/ Overflow
  \/ Reload
  \/ \E item \in Item :
       \/ Contains(item)
       \/ Add(item)
       \/ RemoveFromTable(item)
       \/ RemoveFromOverflow(item)
       \/ RemoveNone(item)

Spec == Init /\ [][Next]_vars

(***************************************************************************)
(* The filter implements the bag of its items' classes: however tags are   *)
(* moved, parked in overflow, tried again and saved, a call answers as     *)
(* counts per class would, no item added before is lost, and num_items is  *)
(* their number.  A call counts as done when it returns.                   *)
(***************************************************************************)
ClassOf(idx, tag) == <<{idx, get_alt_index(idx, tag)}, tag>>
Class == {ClassOf(IndexOf(item), TagOf(item)) : item \in Item}

InTable(c) ==
  Cardinality({e \in Bucket \X TagIdx :
    tags[e[1]][e[2]] # Zero /\ ClassOf(e[1], tags[e[1]][e[2]]) = c})

One(P) == IF P THEN 1 ELSE 0

Kept(c) ==
  InTable(c) + One(overflow.used /\ ClassOf(overflow.index, overflow.tag) = c)
  + One(call # NoCall /\ ClassOf(call.idx, call.tag) = c)

CallIs(op) == call # NoCall /\ call.op = op
CallOf(op, c) == CallIs(op) /\ ClassOf(IndexOf(call.item), TagOf(call.item)) = c

Bag == INSTANCE ItemBag WITH
  bag <- [c \in Class |-> Kept(c) + One(CallOf("remove", c)) - One(CallOf("add", c))],
  size <- num_items + One(CallIs("remove")),
  full <- overflow.used \/ CallIs("remove")

ImplementsItemBag == Bag!Spec
=============================================================================
