------------------------------ MODULE ItemBag ------------------------------
(***************************************************************************)
(* What CuckooFilter promises: a bag of classes of items that counts what  *)
(* was added and not removed.  Items of one class (the same tag, the same  *)
(* pair of buckets) are not told apart.  The filter may declare itself     *)
(* full with any call that adds; only a removal makes room again.          *)
(***************************************************************************)
EXTENDS Naturals

CONSTANT Class

VARIABLES
  bag,       \* [Class -> Nat]
  size,      \* the number of items
  full,      \* additions are refused
  answer     \* what the last call returned

Init ==
  /\ bag = [c \in Class |-> 0]
  /\ size = 0
  /\ full = FALSE
  /\ answer = FALSE

Add(c) ==
  /\ ~full
  /\ answer' = TRUE
  /\ size' = size + 1
  /\ full' \in BOOLEAN
  /\ bag' = [bag EXCEPT ![c] = @ + 1]

Refuse ==
  /\ full
  /\ answer' = FALSE
  /\ UNCHANGED <<bag, size, full>>

Remove(c) ==
  /\ bag[c] > 0
  /\ answer' = TRUE
  /\ size' = size - 1
  /\ full' \in {FALSE, full}
  /\ bag' = [bag EXCEPT ![c] = @ - 1]

RemoveNone(c) ==
  /\ bag[c] = 0
  /\ answer' = FALSE
  /\ UNCHANGED <<bag, size, full>>

Contains(c) ==
  /\ answer' = (bag[c] > 0)
  /\ UNCHANGED <<bag, size, full>>

Next ==
  \/ Refuse
  \/ \E c \in Class : Add(c) \/ Remove(c) \/ RemoveNone(c) \/ Contains(c)

Spec == Init /\ [][Next]_<<bag, size, full, answer>>
=============================================================================
