------------------------------ MODULE TagTable ------------------------------
(***************************************************************************)
(* What CuckooFilterTable promises: an array of buckets, each a row of     *)
(* slots that hold a tag or Empty.  A tag goes to the first free slot of   *)
(* its bucket; when there is none it may kick out the tag of any slot.     *)
(***************************************************************************)
EXTENDS Naturals

CONSTANTS Bucket, Slot, Tag, Empty

VARIABLES
  tags,     \* [Bucket -> [Slot -> Tag \cup {Empty}]]
  answer    \* what the last call returned: its result and its old_tag

FirstWith(t, b, tag) ==
  {s \in Slot : t[b][s] = tag /\ \A r \in Slot : t[b][r] = tag => s <= r}

Written(t, b, s, tag) == [t EXCEPT ![b][s] = tag]

\* The outcomes of inserting tag in bucket b: the table, whether there was a
\* free slot, and the tag that was kicked out.
Insertions(t, b, tag, kickout) ==
  IF FirstWith(t, b, Empty) # {}
  THEN {[tags |-> Written(t, b, s, tag), ok |-> TRUE, old |-> Empty] : s \in FirstWith(t, b, Empty)}
  ELSE IF kickout
  THEN {[tags |-> Written(t, b, s, tag), ok |-> FALSE, old |-> t[b][s]] : s \in Slot}
  ELSE {[tags |-> t, ok |-> FALSE, old |-> Empty]}

Found(t, b, tag) == \E s \in Slot : t[b][s] = tag

Deleted(t, b, tag) ==
  [c \in Bucket |-> [s \in Slot |->
     IF c = b /\ s \in FirstWith(t, b, tag) THEN Empty ELSE t[c][s]]]

Init ==
  /\ tags = [b \in Bucket |-> [s \in Slot |-> Empty]]
  /\ answer = [ok |-> FALSE, old |-> Empty]

Insert(b, tag, kickout) ==
  \E i \in Insertions(tags, b, tag, kickout) :
    /\ answer' = [ok |-> i.ok, old |-> i.old]
    /\ tags' = i.tags

Delete(b, tag) ==
  /\ answer' = [ok |-> Found(tags, b, tag), old |-> Empty]
  /\ tags' = Deleted(tags, b, tag)

Find(b, c, tag) ==
  /\ answer' = [ok |-> Found(tags, b, tag) \/ Found(tags, c, tag), old |-> Empty]
  /\ UNCHANGED tags

Next ==
  \E b \in Bucket, tag \in Tag :
    \/ \E kickout \in BOOLEAN : Insert(b, tag, kickout)
    \/ Delete(b, tag)
    \/ \E c \in Bucket : Find(b, c, tag)

Spec == Init /\ [][Next]_<<tags, answer>>
=============================================================================
