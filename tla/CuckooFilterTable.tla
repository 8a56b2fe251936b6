------------------------- MODULE CuckooFilterTable --------------------------
(***************************************************************************)
(* CuckooFilterTable (sender/apsi/util/cuckoo_filter_table.cpp): the tags  *)
(* of the filter packed into an array of words, BitsPerTag bits each, so   *)
(* that a tag may begin in one word and end in the next.                   *)
(*                                                                         *)
(* A word is the set of its one bits (module Words).  The constructors     *)
(* accept BitsPerTag = 64, for which the shifts of the code are undefined; *)
(* here a tag is shorter than a word.  Nor is a tag ever zero, as          *)
(* tag_bit_limit of the filter ensures.                                    *)
(***************************************************************************)
EXTENDS Words, Integers, Sequences

CONSTANTS
  NumItems,        \* num_items, as given to the constructor
  BitsPerTag,      \* bits_per_tag_: less than WordBits
  TagsPerBucket,   \* tags_per_bucket_, 4 in the code
  Tag              \* the tags that the calls use: words below 2 ^ BitsPerTag, not zero

VARIABLES
  table,           \* table_
  answer           \* what the last call returned, and its old_tag

vars == <<table, answer>>

(***************************************************************************)
(* The constructor: buckets for the items, twice as many when more than    *)
(* 0.96 of the slots would be taken.                                       *)
(***************************************************************************)
num_buckets ==
  LET n == next_power_of_2(Max({1, NumItems \div TagsPerBucket}))
  IN IF 100 * NumItems > 96 * n * TagsPerBucket THEN 2 * n ELSE n

Bucket == 0 .. num_buckets - 1
Slot == 0 .. TagsPerBucket - 1

num_words == (TagsPerBucket * BitsPerTag * num_buckets + WordBits - 1) \div WordBits

Init ==
  /\ table = [i \in 0 .. num_words - 1 |-> Zero]
  /\ answer = [ok |-> FALSE, old |-> Zero]

(***************************************************************************)
(* Where a tag lies: TagIndexInfo.                                         *)
(***************************************************************************)
StartBit(bucket, slot) == bucket * BitsPerTag * TagsPerBucket + slot * BitsPerTag

TagIndexInfo(bucket, slot) ==
  LET offset == StartBit(bucket, slot) % WordBits
      first == IF offset > WordBits - BitsPerTag THEN WordBits - offset ELSE BitsPerTag
  IN [word |-> StartBit(bucket, slot) \div WordBits, offset |-> offset,
      first |-> first, second |-> BitsPerTag - first]

read_tag(t, bucket, slot) ==
  LET at == TagIndexInfo(bucket, slot)
      low == ShiftR(t[at.word], at.offset) \cap LowBits(at.first)
  IN IF at.second = 0 THEN low
     ELSE low \cup ShiftL(t[at.word + 1] \cap LowBits(at.second), at.first)

FirstWordWritten(t, at, tag) ==
  [t EXCEPT ![at.word] =
     (@ \cap Complement(ShiftL(LowBits(BitsPerTag), at.offset))) \cup ShiftL(tag, at.offset)]

\* Mutant: the end of the former tag stays.
SecondWordJoined(t, at, tag) == [t EXCEPT ![at.word + 1] = @ \cup ShiftR(tag, at.first)]

SecondWordWritten(t, at, tag) ==
  [t EXCEPT ![at.word + 1] =
     (@ \cap Complement(ShiftR(LowBits(BitsPerTag), at.first))) \cup ShiftR(tag, at.first)]

write_tag(t, bucket, slot, tag) ==
  LET at == TagIndexInfo(bucket, slot)
      begun == FirstWordWritten(t, at, tag)
  IN IF at.second = 0 THEN begun ELSE SecondWordWritten(begun, at, tag)

\* The first slot of the bucket that holds tag, if there is one.
SlotsWith(t, bucket, tag) == {s \in Slot : read_tag(t, bucket, s) = tag}
FirstSlot(t, bucket, tag) == Min(SlotsWith(t, bucket, tag))

(***************************************************************************)
(* insert_tag: without a free slot the tag goes nowhere, or replaces that  *)
(* of a random slot, which is handed back in old_tag.                      *)
(***************************************************************************)
InsertFree(bucket, tag) ==
  /\ SlotsWith(table, bucket, Zero) # {}
  /\ table' = write_tag(table, bucket, FirstSlot(table, bucket, Zero), tag)
  /\ answer' = [ok |-> TRUE, old |-> Zero]

InsertKick(bucket, tag) ==
  /\ SlotsWith(table, bucket, Zero) = {}
  /\ \E s \in Slot :
       /\ table' = write_tag(table, bucket, s, tag)
       /\ answer' = [ok |-> FALSE, old |-> read_tag(table, bucket, s)]

InsertRefused(bucket) ==
  /\ SlotsWith(table, bucket, Zero) = {}
  /\ answer' = [ok |-> FALSE, old |-> Zero]
  /\ UNCHANGED table

delete_tag(bucket, tag) ==
  LET there == SlotsWith(table, bucket, tag) # {}
  IN /\ table' = IF there THEN write_tag(table, bucket, FirstSlot(table, bucket, tag), Zero)
                          ELSE table
     /\ answer' = [ok |-> there, old |-> Zero]

find_tag_in_buckets(bucket1, bucket2, tag) ==
  /\ answer' = [ok |-> SlotsWith(table, bucket1, tag) \cup SlotsWith(table, bucket2, tag) # {},
                old |-> Zero]
  /\ UNCHANGED table

Next ==
  \E bucket \in Bucket, tag \in Tag :
    \/ InsertFree(bucket, tag)
    \/ InsertKick(bucket, tag)
    \/ InsertRefused(bucket)
    \/ delete_tag(bucket, tag)
    \/ \E other \in Bucket : find_tag_in_buckets(bucket, other, tag)

Spec == Init /\ [][Next]_vars

(***************************************************************************)
(* The packed words implement the array of tags: writing a tag, also one   *)
(* that spans two words, is read back whole and leaves every other tag of  *)
(* the table as it was.                                                    *)
(***************************************************************************)
Unpacked == [b \in Bucket |-> [s \in Slot |-> read_tag(table, b, s)]]

Tags == INSTANCE TagTable WITH Empty <- Zero, tags <- Unpacked

ImplementsTagTable == Tags!Spec
=============================================================================
