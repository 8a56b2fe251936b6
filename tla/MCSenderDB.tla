----------------------------- MODULE MCSenderDB -----------------------------
(***************************************************************************)
(* Instances of SenderDB for TLC: two bundles and items in one or both.    *)
(***************************************************************************)
EXTENDS SenderDB

Homes == [x \in Item |-> IF x = 1 THEN {0} ELSE IF x = 2 THEN {0, 1} ELSE {1}]
Call(op, d, s, items) == [op |-> op, db |-> d, source |-> s, items |-> items]

Queries == {Call("query", d, d, {}) : d \in DB}
Clears == {Call("clear", d, d, {}) : d \in DB} \cup {Call("set", 1, 1, {1, 2})}
Inserts == {Call("insert", 1, 1, items) : items \in {{1, 2}, {2, 3}, {3}}}
Moves == {Call("move", 2, 1, {}), Call("move", 1, 2, {}), Call("move", 1, 1, {})}

AllCalls == Inserts \cup Queries \cup Clears \cup Moves
InsertAndClear == {Call("insert", 1, 1, {1, 2}), Call("clear", 1, 1, {}), Call("set", 1, 1, {3})}
InsertAndQuery == {Call("insert", 1, 1, {1, 2})} \cup Queries
=============================================================================
