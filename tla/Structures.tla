----------------------------- MODULE Structures -----------------------------
(***************************************************************************)
(* The sequential data structures: the cuckoo filter of the sender, the    *)
(* packed table of its tags, and the branching program.  They share no     *)
(* state; theorems about them are in StructuresProofs.                     *)
(***************************************************************************)
EXTENDS CuckooFilter, Sequences

CONSTANTS
  Depth, Modulus, MaxAdded,                            \* BranchingProgram
  TableItems, TableBits, TagsPerBucket, TableTag       \* CuckooFilterTable

VARIABLES
  bp, added,                                           \* BranchingProgram
  table, table_answer                                  \* CuckooFilterTable

ASSUME TreeAssumption == Depth \in Nat \ {0} /\ MaxAdded \in Nat

Tree == INSTANCE BranchingProgram

Packed == INSTANCE CuckooFilterTable WITH
  NumItems <- TableItems, BitsPerTag <- TableBits, Tag <- TableTag, answer <- table_answer

\* A tag is shorter than a word and none is zero, which means a free slot.
ASSUME TableAssumption ==
  /\ TableBits \in 1 .. WordBits - 1 /\ TagsPerBucket \in Nat \ {0}
  /\ TableTag \subseteq SUBSET (0 .. TableBits - 1) \ {{}}
  /\ Packed!num_buckets \in Nat

(***************************************************************************)
(* The arrays are the prefix tree of the items (BranchingProgram).         *)
(***************************************************************************)
TreeHoldsItems == Tree!TreeHoldsItems

(***************************************************************************)
(* The packed words implement the array of tags (CuckooFilterTable).       *)
(***************************************************************************)
ImplementsTagTable == Packed!ImplementsTagTable
=============================================================================
