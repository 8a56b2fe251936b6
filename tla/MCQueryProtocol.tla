-------------------------- MODULE MCQueryProtocol --------------------------
(***************************************************************************)
(* Instances of QueryProtocol for TLC: two bundles of two bins and queries *)
(* of three items.                                                         *)
(***************************************************************************)
EXTENDS QueryProtocol

Query(table, holds0, holds1) ==
  [table |-> table, holds |-> [b \in {0, 1} |-> IF b = 0 THEN holds0 ELSE holds1]]

At(p) == CASE p = <<0, 0>> -> 0 [] p = <<0, 1>> -> 1 [] OTHER -> 2
FullBundle == [p \in {<<0, 0>>, <<0, 1>>, <<1, 0>>} |-> At(p)]
Spread == [p \in {<<0, 0>>, <<1, 0>>, <<1, 1>>} |-> IF p[1] = 0 THEN 0 ELSE p[2] + 1]

AllFound == Query(FullBundle, {0, 1}, {2})
NoneFound == Query(Spread, {}, {})
LastFound == Query(Spread, {}, {2})
\* the empty bin of bundle 0 repeats item 0, which the sender has there
RepeatedInPart == Query(Spread, {0}, {1})
\* the empty bin of bundle 1 repeats item 0, which the sender has in both
RepeatedAcross == Query(FullBundle, {0}, {0})

SessionQueries == {AllFound, LastFound, RepeatedAcross}
CleanQueries == {AllFound, NoneFound, LastFound}
SomeQueries == {LastFound, RepeatedInPart, RepeatedAcross}
=============================================================================
