-------------------------- MODULE BranchingProgram --------------------------
(***************************************************************************)
(* The branching program of common/apsi/bp/branching_program.cpp: a binary *)
(* tree kept in arrays, to which addItem adds the path of an item's bits,  *)
(* and which eval evaluates on encrypted bits.  A ciphertext stands for    *)
(* the integer modulo the plain modulus in one of its slots; relinearizing *)
(* does not change it.                                                     *)
(***************************************************************************)
EXTENDS Integers, Sequences, FiniteSets

CONSTANTS
  Depth,      \* item_bit_count: the length of every item, at least 1
  Modulus,    \* plain_modulus: more than MaxAdded + 1
  MaxAdded    \* bound: calls of addItem

Bit == {0, 1}
Items == [1 .. Depth -> Bit]

VARIABLES
  bp,       \* the arrays and counters of struct BP
  added     \* the items given to addItem, in order

vars == <<bp, added>>

Node(t) == 0 .. (t.nodes_count - 1)

\* BP::clear; child[n][0] is left_child_[n], child[n][1] is right_child_[n]
EmptyBP ==
  [nodes_count |-> 1, leaves_count |-> 0,
   child |-> [n \in {0} |-> [side \in Bit |-> -1]],
   parent |-> [n \in {0} |-> -1],
   level |-> [n \in {0} |-> -1],
   is_leaf |-> [n \in {0} |-> FALSE]]

Init == bp = EmptyBP /\ added = <<>>
----------------------------------------------------------------------------
Extended(f, n, v) == [m \in DOMAIN f \cup {n} |-> IF m = n THEN v ELSE f[m]]

\* Mutant: a child is put on its parent's level.
addSiblingNode(t, cur, side) ==
  LET new == t.nodes_count IN
  [t EXCEPT !.nodes_count = new + 1,
            !.child = Extended([@ EXCEPT ![cur][side] = new], new, [s \in Bit |-> -1]),
            !.parent = Extended(@, new, cur),
            !.level = Extended(@, new, t.level[cur]),
            !.is_leaf = Extended(@, new, FALSE)]

\* left_child_[cur] = addChildNode(cur), or right_child_
addChildNode(t, cur, side) ==
  LET new == t.nodes_count IN
  [t EXCEPT !.nodes_count = new + 1,
            !.child = Extended([@ EXCEPT ![cur][side] = new], new, [s \in Bit |-> -1]),
            !.parent = Extended(@, new, cur),
            !.level = Extended(@, new, t.level[cur] + 1),
            !.is_leaf = Extended(@, new, FALSE)]

\* Mutant: a child that exists is replaced.
DescendAnew(s, side) ==
  LET t == addChildNode(s.tree, s.cur, side) IN [tree |-> t, cur |-> t.child[s.cur][side]]

\* one iteration of the loop of addItem
Descend(s, side) ==
  LET t == IF s.tree.child[s.cur][side] = -1 THEN addChildNode(s.tree, s.cur, side) ELSE s.tree
  IN  [tree |-> t, cur |-> t.child[s.cur][side]]

Walk(t, item) ==
  LET walk[n \in 0 .. Depth] ==
        IF n = 0 THEN [tree |-> t, cur |-> 0] ELSE Descend(walk[n - 1], item[n])
  IN  walk[Depth]

addItem(item) ==
  LET end == Walk(bp, item)
      last == end.tree.nodes_count - 1
  IN  /\ Len(added) < MaxAdded
      /\ bp' = [end.tree EXCEPT !.is_leaf[end.cur] = TRUE,
                                !.leaves_count = IF end.cur = last THEN @ + 1 ELSE @]
      /\ added' = Append(added, item)

Next == \E item \in Items : addItem(item)
Spec == Init /\ [][Next]_vars
----------------------------------------------------------------------------
(***************************************************************************)
(* eval(query): the nodes are visited breadth first; path_costs[d] holds,  *)
(* for the node last visited at level d, the products over the last 1, 2,  *)
(* 4, ... levels up to it, as many as powers of two divide d + 1.          *)
(***************************************************************************)
MaxSubPath(d) == CHOOSE l \in 0 .. d : (d + 1) % 2^l = 0 /\ (d + 1) % 2^(l + 1) # 0

\* zero_ptx encodes ones and one_ptx is never encoded: (bit - 1)^2 to the
\* left, bit^2 to the right
EdgeCost(side, bit) == (IF side = 0 THEN bit - 1 ELSE bit)^2

Costs(path_costs, d, edge) ==
  LET cost[l \in 0 .. MaxSubPath(d)] ==
        IF l = 0 THEN edge
        ELSE (path_costs[d - 2^(l - 1)][l - 1] * cost[l - 1]) % Modulus
  IN  cost

\* one iteration of the loop over node_queue
Visit(t, query, s) ==
  LET cur == Head(s.node_queue)
      d == t.level[cur]
      side == IF t.child[t.parent[cur]][0] = cur THEN 0 ELSE 1
      costs == IF cur = 0 THEN s.path_costs
               ELSE [s.path_costs EXCEPT ![d] = Costs(s.path_costs, d, EdgeCost(side, query[d + 1]))]
  IN  [node_queue |-> Tail(s.node_queue)
                        \o SelectSeq(<<t.child[cur][0], t.child[cur][1]>>, LAMBDA n : n # -1),
       path_costs |-> costs,
       total |-> IF t.is_leaf[cur] THEN (s.total + costs[d][MaxSubPath(d)]) % Modulus ELSE s.total]

eval(t, query) ==
  LET run[n \in 0 .. t.nodes_count] ==
        IF n = 0 THEN [node_queue |-> <<0>>, total |-> 0,
                       path_costs |-> [d \in 0 .. (Depth - 1) |-> [l \in 0 .. MaxSubPath(d) |-> 0]]]
        ELSE Visit(t, query, run[n - 1])
  IN  IF t.nodes_count = 1 THEN query[1] ELSE run[t.nodes_count].total
----------------------------------------------------------------------------
(***************************************************************************)
(* Properties.                                                             *)
(***************************************************************************)
Inserted == {added[i] : i \in DOMAIN added}

\* the node that a sequence of bits leads to, -1 if there is none
NodeAt(bits) ==
  LET at[n \in 0 .. Len(bits)] ==
        IF n = 0 THEN 0 ELSE IF at[n - 1] = -1 THEN -1 ELSE bp.child[at[n - 1]][bits[n]]
  IN  at[Len(bits)]

\* Every node but the root is the child of exactly its parent, on one side,
\* one level below it.
TypeOK ==
  /\ bp.nodes_count \in Nat \ {0} /\ bp.leaves_count \in 0 .. MaxAdded
  /\ DOMAIN bp.child = Node(bp) /\ DOMAIN bp.parent = Node(bp)
  /\ DOMAIN bp.level = Node(bp) /\ DOMAIN bp.is_leaf = Node(bp)
  /\ \A n \in Node(bp) \ {0} :
       /\ \E s \in Bit :
            {link \in Node(bp) \X Bit : bp.child[link[1]][link[2]] = n} = {<<bp.parent[n], s>>}
       /\ bp.level[n] = bp.level[bp.parent[n]] + 1

(***************************************************************************)
(* The arrays describe one tree, and it is the prefix tree of the items:   *)
(* exactly the inserted items lead to a leaf, and items share the nodes of *)
(* their common prefixes.                                                  *)
(***************************************************************************)
TreeHoldsItems ==
  /\ TypeOK
  /\ {item \in Items : NodeAt(item) # -1 /\ bp.is_leaf[NodeAt(item)]} = Inserted
  /\ bp.nodes_count = Cardinality({SubSeq(i, 1, n) : i \in Inserted, n \in 1 .. Depth}) + 1

(***************************************************************************)
(* Whatever the program holds, the receiver, who takes a one as a match,   *)
(* sees a match exactly for the items the sender inserted (receiver.h: "If *)
(* an item is in the intersection, the corresponding MatchRecord indicates *)
(* it").                                                                   *)
(***************************************************************************)
MatchesAreMembers ==
  added # <<>> => \A query \in Items : eval(bp, query) = 1 <=> query \in Inserted
=============================================================================
