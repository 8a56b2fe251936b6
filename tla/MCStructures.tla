---------------------------- MODULE MCStructures ----------------------------
(***************************************************************************)
(* Instances for TLC of the structures of the library: the sequential ones *)
(* (Structures, Utilities), and those that the threads of a program        *)
(* contend for (Statics).  They share no state: part says which of them    *)
(* takes the steps of a behaviour, the others stay as they are at the      *)
(* start, where none of their fair actions is enabled.                     *)
(***************************************************************************)
EXTENDS Structures, Statics

CONSTANTS
  x1, x2, x3,                                          \* items
  invalid_argument, logic_error, Null, Idle            \* Utilities

VARIABLES
  part,
  function_call                                        \* Utilities

\* Two items share the tag, and three the first bucket of one another.
ItemHashes == [i \in Item |-> CASE i = x1 -> {} [] i = x2 -> {0} [] i = x3 -> {1}]
TagHashes == [w \in Word |-> IF w = {0} THEN {0} ELSE {}]

\* Tags of three bits in words of four: some span two words.
TableTags == {{0}, {1, 2}}

S == INSTANCE SequencesExt

Texts == S!SeqOf({"a", ","}, 4)
Buffers == [1 .. 3 -> {{}, {0}}]
Streams ==
  S!SeqOf({{}, {0}, {0, 2}}, 3) \cup {<<{0, 1, 2}, {0}, {1}, {2}, {0}, {1}, {2}, {0}>>}
Labels == S!SeqOf({{}, {1}}, 3)
Nonces == S!SeqOf({{0}}, 2)
MaskByte(nonce, key, i) == IF key = "k" THEN ToWord((i + Len(nonce)) % 8) ELSE {0}

Functions3 == INSTANCE Utilities WITH
  WordBits <- 3, ChunkBytes <- 2, WordBytes <- 2, MaxNonceBytes <- 1, Mask <- MaskByte,
  Modulus <- 5, MaxNumber <- 8, Point <- {0, 1, 3}, MaxPoints <- 3, Text <- Texts, Delim <- ",",
  Buffer <- Buffers, Stream <- Streams, LabelText <- Labels, Nonce <- Nonces,
  Key <- {"k", "other"}, call <- function_call

\* Names of scopes, with their lengths.
Lengths == [n \in {"Sender", "Worker"} |-> IF n = "Sender" THEN 1 ELSE 2]

table_vars == <<table, table_answer>>
tree_vars == <<bp, added>>

MCInit ==
  /\ part \in {"filter", "table", "functions", "tree", "manager", "stopwatch"}
  /\ Init
  /\ Packed!Init
  /\ Functions3!Init
  /\ Tree!Init
  /\ MgrInit
  /\ Timing!Init

statics_vars == <<mgr_vars, timing_vars>>
SequentialNext ==
  /\ \/ part = "filter" /\ Next /\ UNCHANGED <<table_vars, function_call, tree_vars>>
     \/ part = "table" /\ Packed!Next /\ UNCHANGED <<vars, function_call, tree_vars>>
     \/ part = "functions" /\ Functions3!Next /\ UNCHANGED <<vars, table_vars, tree_vars>>
     \/ part = "tree" /\ Tree!Next /\ UNCHANGED <<vars, table_vars, function_call>>
  /\ UNCHANGED statics_vars

sequential_vars == <<vars, table_vars, function_call, tree_vars>>
StaticsNext ==
  /\ \/ part = "manager" /\ MgrNext /\ UNCHANGED timing_vars
     \/ part = "stopwatch" /\ Timing!Next /\ UNCHANGED mgr_vars
  /\ UNCHANGED sequential_vars

MCNext == (SequentialNext \/ StaticsNext) /\ UNCHANGED part

MCSpec ==
  /\ MCInit
  /\ [][MCNext]_<<part, sequential_vars, statics_vars>>
  /\ Fairness /\ Timing!Fairness

\* The functions of common/apsi/util compute what they are to (Utilities).
CallsExact == Functions3!CallsExact

\* The packed table implements the array of tags (CuckooFilterTable); where
\* another part takes the steps, its words are not looked at.
Array == INSTANCE TagTable WITH
  Bucket <- Packed!Bucket, Slot <- Packed!Slot, Tag <- TableTag, Empty <- Zero,
  tags <- IF part = "table" THEN Packed!Unpacked
          ELSE [b \in Packed!Bucket |-> [s \in Packed!Slot |-> Zero]],
  answer <- table_answer

ImplementsArray == Array!Spec
=============================================================================
