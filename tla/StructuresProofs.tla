-------------------------- MODULE StructuresProofs --------------------------
(***************************************************************************)
(* Proofs about the branching program (any length of items, any number of  *)
(* them), the cuckoo filter (any hash functions and sizes) and its packed  *)
(* table (any lengths of words and tags).                                  *)
(***************************************************************************)
EXTENDS Structures, SequenceTheorems, FiniteSetTheorems, WellFoundedInduction, TLAPS

(***************************************************************************)
(* Induction over the natural numbers, for sets: from the theorem of the   *)
(* library that a well-founded relation has minimal elements.              *)
(***************************************************************************)
Below == {pair \in Nat \X Nat : pair[1] < pair[2]}

LEMMA BelowWellFounded == IsWellFoundedOn(Below, Nat)
<1>1. Below = OpToRel(<, Nat)
  BY Zenon DEF Below, OpToRel
<1> QED
  BY ONLY <1>1, NatLessThanWellFounded, Zenon

LEMMA LeastElement ==
  ASSUME NEW T, T \subseteq Nat, T # {}
  PROVE  \E x \in T : \A y \in T : x <= y
<1>1. PICK x \in T : \A y \in T : <<y, x>> \notin Below
  BY BelowWellFounded, WFMin
<1>2. ASSUME NEW y \in T
      PROVE  x <= y
  <2>1. x \in Nat /\ y \in Nat
    OBVIOUS
  <2>2. CASE y < x
    <3>1. <<y, x>> \in Nat \X Nat /\ <<y, x>>[1] < <<y, x>>[2]
      BY <2>1, <2>2
    <3>2. <<y, x>> \in Below
      BY <3>1 DEF Below
    <3> QED
      BY <3>2, <1>1
  <2> QED
    BY <2>1, <2>2
<1> QED
  BY <1>2

LEMMA InductionUpTo ==
  ASSUME NEW N \in Nat, NEW S, 0 \in S,
         \A n \in 1 .. N : n - 1 \in S => n \in S
  PROVE  0 .. N \subseteq S
<1> SUFFICES ASSUME (0 .. N) \ S # {}
             PROVE  FALSE
  OBVIOUS
<1> DEFINE Rest == (0 .. N) \ S
<1>1. PICK x \in Rest : \A y \in Rest : x <= y
  <2>1. Rest \subseteq Nat /\ Rest # {}
    OBVIOUS
  <2> HIDE DEF Rest
  <2> QED
    BY <2>1, LeastElement
<1>2. x \in 1 .. N /\ x - 1 \in 0 .. N
  BY <1>1
<1> QED
  BY <1>1, <1>2

----------------------------------------------------------------------------
(***************************************************************************)
(* The tree that a set of words makes up: label gives every node the word  *)
(* of the sides on its way from the root.                                  *)
(***************************************************************************)
TreeOfSize(n) ==
  [nodes_count : {n}, leaves_count : Nat,
   child : [0 .. (n - 1) -> [Tree!Bit -> Int]],
   parent : [0 .. (n - 1) -> Int], level : [0 .. (n - 1) -> Int],
   is_leaf : [0 .. (n - 1) -> BOOLEAN]]

IsTree(t) == \E n \in Nat \ {0} : t \in TreeOfSize(n)

\* The nodes of t are the words of W, each once.
Names(t, W, label) ==
  /\ label \in [Tree!Node(t) -> W]
  /\ \A w \in W : \E n \in Tree!Node(t) : label[n] = w
  /\ \A m, n \in Tree!Node(t) : label[m] = label[n] => m = n
  /\ label[0] = <<>>

\* A node has a child on a side if and only if there is a word for it.
Links(t, W, label) ==
  \A n \in Tree!Node(t), s \in Tree!Bit :
    IF Append(label[n], s) \in W
    THEN t.child[n][s] \in Tree!Node(t) /\ label[t.child[n][s]] = Append(label[n], s)
    ELSE t.child[n][s] = -1

\* Every node but the root has its parent and its level.
Descent(t, label) ==
  \A n \in Tree!Node(t) \ {0} :
    /\ t.parent[n] \in Tree!Node(t)
    /\ t.level[n] = t.level[t.parent[n]] + 1
    /\ \E s \in Tree!Bit : label[n] = Append(label[t.parent[n]], s)

\* The leaves are the words of L.
Leaves(t, L, label) == \A n \in Tree!Node(t) : t.is_leaf[n] <=> label[n] \in L

TreeOf(t, W, L, label) ==
  /\ IsTree(t)
  /\ W \subseteq Seq(Tree!Bit) /\ L \subseteq W
  /\ Names(t, W, label) /\ Links(t, W, label) /\ Descent(t, label) /\ Leaves(t, L, label)

\* The last letter of a word and what is before it.
LEMMA Letters ==
  ASSUME NEW v \in Seq(Tree!Bit), NEW w \in Seq(Tree!Bit), NEW r \in Tree!Bit, NEW s \in Tree!Bit
  PROVE  /\ Append(v, r) \in Seq(Tree!Bit) /\ Append(v, r) # v /\ Append(v, r) # <<>>
         /\ Append(v, r) = Append(w, s) => v = w /\ r = s
<1>1. Append(v, r) = Append(w, s) => v = w /\ r = s
  BY AppendInjective
<1>2. Len(Append(v, r)) = Len(v) + 1 /\ Len(v) \in Nat /\ Append(v, r) \in Seq(Tree!Bit)
  BY AppendProperties
<1>3. Append(v, r) # v
  BY <1>2
<1>4. Append(v, r) # <<>>
  <2>1. Len(<<>>) = 0
    OBVIOUS
  <2>2. Len(Append(v, r)) # 0
    BY <1>2
  <2> QED
    BY <2>1, <2>2, Zenon
<1> QED
  BY <1>1, <1>2, <1>3, <1>4

\* A tree grows by the node that addChildNode makes.
LEMMA ChildAdded ==
  ASSUME NEW n \in Nat \ {0}, NEW t \in TreeOfSize(n), NEW cur \in 0 .. (n - 1), NEW side \in Tree!Bit
  PROVE  LET u == Tree!addChildNode(t, cur, side)
         IN /\ u \in TreeOfSize(n + 1) /\ u.leaves_count = t.leaves_count
            /\ u.child[cur][side] = n
            /\ \A s \in Tree!Bit : u.child[n][s] = -1 /\ (s # side => u.child[cur][s] = t.child[cur][s])
            /\ \A m \in (0 .. (n - 1)) \ {cur}, s \in Tree!Bit : u.child[m][s] = t.child[m][s]
            /\ u.parent[n] = cur /\ u.level[n] = t.level[cur] + 1 /\ ~u.is_leaf[n]
            /\ \A m \in 0 .. (n - 1) :
                 /\ u.parent[m] = t.parent[m] /\ u.level[m] = t.level[m]
                 /\ u.is_leaf[m] = t.is_leaf[m]
<1> DEFINE u == Tree!addChildNode(t, cur, side)
           minus == [s \in Tree!Bit |-> -1]
           grown == [t.child EXCEPT ![cur][side] = n]
<1>1. /\ t.nodes_count = n /\ t.leaves_count \in Nat
      /\ t.child \in [0 .. (n - 1) -> [Tree!Bit -> Int]]
      /\ t.parent \in [0 .. (n - 1) -> Int] /\ t.level \in [0 .. (n - 1) -> Int]
      /\ t.is_leaf \in [0 .. (n - 1) -> BOOLEAN]
      /\ t = [nodes_count |-> n, leaves_count |-> t.leaves_count, child |-> t.child,
              parent |-> t.parent, level |-> t.level, is_leaf |-> t.is_leaf]
  BY DEF TreeOfSize
<1>0. u = [t EXCEPT !.nodes_count = t.nodes_count + 1,
                    !.child = Tree!Extended([t.child EXCEPT ![cur][side] = t.nodes_count], t.nodes_count, minus),
                    !.parent = Tree!Extended(t.parent, t.nodes_count, cur),
                    !.level = Tree!Extended(t.level, t.nodes_count, t.level[cur] + 1),
                    !.is_leaf = Tree!Extended(t.is_leaf, t.nodes_count, FALSE)]
  BY DEF Tree!addChildNode
<1>2. u = [nodes_count |-> n + 1, leaves_count |-> t.leaves_count,
           child |-> Tree!Extended(grown, n, minus),
           parent |-> Tree!Extended(t.parent, n, cur),
           level |-> Tree!Extended(t.level, n, t.level[cur] + 1),
           is_leaf |-> Tree!Extended(t.is_leaf, n, FALSE)]
  BY <1>0, <1>1
<1>3. 0 .. n = (0 .. (n - 1)) \cup {n} /\ (n + 1) - 1 = n /\ n \notin 0 .. (n - 1)
  OBVIOUS
<1>4. grown \in [0 .. (n - 1) -> [Tree!Bit -> Int]]
  BY <1>1 DEF Tree!Bit
<1>5. ASSUME NEW S, NEW f \in [0 .. (n - 1) -> S], NEW v \in S
      PROVE  /\ Tree!Extended(f, n, v) \in [0 .. n -> S] /\ Tree!Extended(f, n, v)[n] = v
             /\ \A m \in 0 .. (n - 1) : Tree!Extended(f, n, v)[m] = f[m]
  BY <1>3 DEF Tree!Extended
<1>6. minus \in [Tree!Bit -> Int] /\ cur \in Int /\ t.level[cur] + 1 \in Int
  BY <1>1 DEF Tree!Bit
<1>7. u \in TreeOfSize(n + 1)
  <2>1. /\ Tree!Extended(grown, n, minus) \in [0 .. n -> [Tree!Bit -> Int]]
        /\ Tree!Extended(t.parent, n, cur) \in [0 .. n -> Int]
        /\ Tree!Extended(t.level, n, t.level[cur] + 1) \in [0 .. n -> Int]
        /\ Tree!Extended(t.is_leaf, n, FALSE) \in [0 .. n -> BOOLEAN]
    BY <1>1, <1>4, <1>5, <1>6
  <2>2. TreeOfSize(n + 1) =
          [nodes_count : {n + 1}, leaves_count : Nat, child : [0 .. n -> [Tree!Bit -> Int]],
           parent : [0 .. n -> Int], level : [0 .. n -> Int], is_leaf : [0 .. n -> BOOLEAN]]
    BY <1>3 DEF TreeOfSize
  <2> HIDE DEF u, grown, minus
  <2> QED
    BY <1>1, <1>2, <2>1, <2>2
<1>9. /\ grown[cur][side] = n
      /\ \A s \in Tree!Bit : s # side => grown[cur][s] = t.child[cur][s]
      /\ \A m \in (0 .. (n - 1)) \ {cur} : grown[m] = t.child[m]
      /\ \A s \in Tree!Bit : minus[s] = -1
  BY <1>1
<1> HIDE DEF u, grown, minus
<1>8. /\ u.child[n] = minus /\ \A m \in 0 .. (n - 1) : u.child[m] = grown[m]
      /\ u.parent[n] = cur /\ u.level[n] = t.level[cur] + 1 /\ u.is_leaf[n] = FALSE
      /\ \A m \in 0 .. (n - 1) :
           u.parent[m] = t.parent[m] /\ u.level[m] = t.level[m] /\ u.is_leaf[m] = t.is_leaf[m]
  <2>1. /\ u.child = Tree!Extended(grown, n, minus) /\ u.parent = Tree!Extended(t.parent, n, cur)
        /\ u.level = Tree!Extended(t.level, n, t.level[cur] + 1)
        /\ u.is_leaf = Tree!Extended(t.is_leaf, n, FALSE)
    BY <1>2
  <2>2. u.child[n] = minus /\ \A m \in 0 .. (n - 1) : u.child[m] = grown[m]
    BY <2>1, <1>3, <1>4 DEF Tree!Extended
  <2>3. u.parent[n] = cur /\ \A m \in 0 .. (n - 1) : u.parent[m] = t.parent[m]
    BY <2>1, <1>1, <1>3 DEF Tree!Extended
  <2>4. u.level[n] = t.level[cur] + 1 /\ \A m \in 0 .. (n - 1) : u.level[m] = t.level[m]
    BY <2>1, <1>1, <1>3 DEF Tree!Extended
  <2>5. u.is_leaf[n] = FALSE /\ \A m \in 0 .. (n - 1) : u.is_leaf[m] = t.is_leaf[m]
    BY <2>1, <1>1, <1>3 DEF Tree!Extended
  <2> QED
    BY <2>2, <2>3, <2>4, <2>5
<1>10. n \in Int /\ cur \in 0 .. (n - 1)
  OBVIOUS
<1>11. /\ u \in TreeOfSize(n + 1) /\ u.leaves_count = t.leaves_count
       /\ u.child[cur][side] = n
       /\ \A s \in Tree!Bit : u.child[n][s] = -1 /\ (s # side => u.child[cur][s] = t.child[cur][s])
       /\ \A m \in (0 .. (n - 1)) \ {cur}, s \in Tree!Bit : u.child[m][s] = t.child[m][s]
  BY <1>2, <1>7, <1>8, <1>9
<1> QED
  BY <1>8, <1>11 DEF u

\* The loop of addItem, as far as the word w.
Arrived(s, count, W, L, w) ==
  /\ s = [tree |-> s.tree, cur |-> s.cur] /\ s.cur \in Tree!Node(s.tree)
  /\ s.tree.leaves_count = count
  /\ \E label : TreeOf(s.tree, W, L, label) /\ label[s.cur] = w

\* One iteration of the loop of addItem: the word of the node it arrives at
\* has a node, the new leaves are the old ones.
LEMMA Descends ==
  ASSUME NEW t, NEW W, NEW L, NEW label, TreeOf(t, W, L, label), NEW cur \in Tree!Node(t), NEW side \in Tree!Bit
  PROVE  LET w == Append(label[cur], side)
         IN  Arrived(Tree!Descend([tree |-> t, cur |-> cur], side), t.leaves_count, W \cup {w}, L, w)
<1> DEFINE s == Tree!Descend([tree |-> t, cur |-> cur], side)
           w == Append(label[cur], side)
           n == t.nodes_count
<1>1. n \in Nat \ {0} /\ t \in TreeOfSize(n) /\ Tree!Node(t) = 0 .. (n - 1)
  BY DEF TreeOf, IsTree, TreeOfSize, Tree!Node
<1>2. label \in [Tree!Node(t) -> W] /\ label[cur] \in Seq(Tree!Bit) /\ W \subseteq Seq(Tree!Bit) /\ L \subseteq W
  BY DEF TreeOf, Names
<1>3. w \in Seq(Tree!Bit)
  BY <1>2, Letters
<1>4. CASE w \in W
  <2>1. t.child[cur][side] \in Tree!Node(t) /\ label[t.child[cur][side]] = w
    BY <1>4 DEF TreeOf, Links
  <2>2. s = [tree |-> t, cur |-> t.child[cur][side]]
    BY <1>1, <2>1 DEF Tree!Descend
  <2>3. W \cup {w} = W
    BY <1>4
  <2> HIDE DEF s, w
  <2> QED
    <3>1. s.tree = t /\ s.cur = t.child[cur][side]
      BY <2>2
    <3>2. TreeOf(s.tree, W \cup {w}, L, label) /\ label[s.cur] = w
      BY <2>1, <2>3, <3>1
    <3>3. s.cur \in Tree!Node(s.tree) /\ s.tree.leaves_count = t.leaves_count /\ s = [tree |-> s.tree, cur |-> s.cur]
      BY <2>1, <2>2, <3>1
    <3> QED
      BY <3>2, <3>3 DEF s, w, Arrived
<1>5. CASE w \notin W
  <2> DEFINE u == Tree!addChildNode(t, cur, side)
             new == [m \in 0 .. n |-> IF m = n THEN w ELSE label[m]]
             V == W \cup {w}
  <2>1. t.child[cur][side] = -1
    BY <1>5 DEF TreeOf, Links
  <2>2. /\ u \in TreeOfSize(n + 1) /\ u.leaves_count = t.leaves_count
        /\ u.child[cur][side] = n
        /\ \A r \in Tree!Bit : u.child[n][r] = -1 /\ (r # side => u.child[cur][r] = t.child[cur][r])
        /\ \A m \in (0 .. (n - 1)) \ {cur}, r \in Tree!Bit : u.child[m][r] = t.child[m][r]
        /\ u.parent[n] = cur /\ u.level[n] = t.level[cur] + 1 /\ ~u.is_leaf[n]
        /\ \A m \in 0 .. (n - 1) :
             /\ u.parent[m] = t.parent[m] /\ u.level[m] = t.level[m]
             /\ u.is_leaf[m] = t.is_leaf[m]
    <3>1. n \in Nat \ {0} /\ t \in TreeOfSize(n) /\ cur \in 0 .. (n - 1)
      BY <1>1
    <3> HIDE DEF n
    <3> QED
      BY <3>1, ChildAdded
  <2>3. s = [tree |-> u, cur |-> n]
    BY <2>1, <2>2 DEF Tree!Descend
  <2>4. n + 1 \in Nat \ {0} /\ (n + 1) - 1 = n /\ 0 .. n = (0 .. (n - 1)) \cup {n}
        /\ n \notin 0 .. (n - 1)
    BY <1>1
  <2>5. Tree!Node(u) = 0 .. n /\ IsTree(u)
    BY <2>2, <2>4 DEF TreeOfSize, Tree!Node, IsTree
  <2> HIDE DEF u, s, w
  <2>6. new[n] = w /\ (\A m \in 0 .. (n - 1) : new[m] = label[m]) /\ new \in [0 .. n -> V]
    BY <1>1, <1>2, <2>4
  <2> HIDE DEF new
  <2>7. Names(u, V, new)
    <3>1. \A v \in V : \E m \in 0 .. n : new[m] = v
      BY <1>1, <2>4, <2>6 DEF TreeOf, Names
    <3>2. \A l, m \in 0 .. n : new[l] = new[m] => l = m
      <4>1. \A l, m \in 0 .. (n - 1) : new[l] = new[m] => l = m
        BY <1>1, <2>6 DEF TreeOf, Names
      <4>2. \A m \in 0 .. (n - 1) : new[m] # new[n]
        BY <1>1, <1>2, <1>5, <2>6
      <4> QED
        BY <2>4, <4>1, <4>2
    <3>3. new[0] = <<>>
      BY <1>1, <2>6 DEF TreeOf, Names
    <3> QED
      BY <2>5, <2>6, <3>1, <3>2, <3>3 DEF Names
  <2>8. ASSUME NEW r \in Tree!Bit
        PROVE  Append(w, r) \notin V
    <3>1. Append(w, r) # w /\ Append(w, r) # <<>>
      BY <1>3, Letters
    <3>2. ASSUME Append(w, r) \in W
          PROVE  FALSE
      <4>1. PICK m \in Tree!Node(t) : label[m] = Append(w, r)
        BY <3>2 DEF TreeOf, Names
      <4>2. m \in Tree!Node(t) \ {0}
        BY <3>1, <4>1 DEF TreeOf, Names
      <4>3. PICK q \in Tree!Bit : t.parent[m] \in Tree!Node(t) /\ label[m] = Append(label[t.parent[m]], q)
        BY <4>2 DEF TreeOf, Descent
      <4>4. label[t.parent[m]] \in W /\ label[t.parent[m]] \in Seq(Tree!Bit)
        BY <1>2, <4>3
      <4>5. label[t.parent[m]] = w
        <5>1. Append(label[t.parent[m]], q) = Append(w, r)
          BY <4>1, <4>3
        <5> QED
          BY ONLY <1>3, <4>4, <5>1, q \in Tree!Bit, r \in Tree!Bit, Letters
      <4> QED
        BY <1>5, <4>4, <4>5
    <3> QED
      BY <3>1, <3>2
  <2>9. Links(u, V, new)
    <3> SUFFICES ASSUME NEW m \in 0 .. n, NEW r \in Tree!Bit
                 PROVE  IF Append(new[m], r) \in V
                        THEN u.child[m][r] \in 0 .. n /\ new[u.child[m][r]] = Append(new[m], r)
                        ELSE u.child[m][r] = -1
      BY <2>5 DEF Links
    <3>1. CASE m = n
      BY <2>2, <2>6, <2>8, <3>1
    <3>2. CASE m = cur /\ r = side
      BY <1>1, <2>2, <2>4, <2>6, <3>2 DEF w
    <3>3. CASE m # n /\ ~(m = cur /\ r = side)
      <4>1. m \in Tree!Node(t) /\ new[m] = label[m] /\ u.child[m][r] = t.child[m][r]
        BY <1>1, <2>2, <2>4, <2>6, <3>3
      <4>2. label[m] \in Seq(Tree!Bit) /\ (m # cur => label[m] # label[cur])
        BY <1>2, <4>1 DEF TreeOf, Names
      <4>3. Append(label[m], r) # w
        BY <1>2, <3>3, <4>2, Letters DEF w
      <4>4. IF Append(label[m], r) \in W
            THEN t.child[m][r] \in Tree!Node(t) /\ label[t.child[m][r]] = Append(label[m], r)
            ELSE t.child[m][r] = -1
        BY <4>1 DEF TreeOf, Links
      <4> QED
        BY <1>1, <2>4, <2>6, <4>1, <4>3, <4>4
    <3> QED
      BY <3>1, <3>2, <3>3
  <2>10. Descent(u, new)
    <3> SUFFICES ASSUME NEW m \in (0 .. n) \ {0}
                 PROVE  /\ u.parent[m] \in 0 .. n
                        /\ u.level[m] = u.level[u.parent[m]] + 1
                        /\ \E r \in Tree!Bit : new[m] = Append(new[u.parent[m]], r)
      BY <2>5 DEF Descent
    <3>1. CASE m = n
      BY <1>1, <2>2, <2>4, <2>6, <3>1 DEF w
    <3>2. CASE m # n
      <4>1. m \in Tree!Node(t) \ {0} /\ u.parent[m] = t.parent[m] /\ u.level[m] = t.level[m] /\ new[m] = label[m]
        BY <1>1, <2>2, <2>4, <2>6, <3>2
      <4>2. /\ t.parent[m] \in Tree!Node(t) /\ t.level[m] = t.level[t.parent[m]] + 1
            /\ \E r \in Tree!Bit : label[m] = Append(label[t.parent[m]], r)
        BY <4>1 DEF TreeOf, Descent
      <4> QED
        <5>1. t.parent[m] \in 0 .. (n - 1) /\ t.parent[m] \in 0 .. n
          BY <1>1, <2>4, <4>2
        <5>2. u.level[t.parent[m]] = t.level[t.parent[m]] /\ new[t.parent[m]] = label[t.parent[m]]
          BY <2>2, <2>6, <5>1
        <5> QED
          BY <4>1, <4>2, <5>1, <5>2
    <3> QED
      BY <3>1, <3>2
  <2>11. Leaves(u, L, new)
    <3>1. \A m \in 0 .. (n - 1) : u.is_leaf[m] <=> new[m] \in L
      BY <1>1, <2>2, <2>6 DEF TreeOf, Leaves
    <3>2. ~u.is_leaf[n] /\ new[n] \notin L
      BY <1>2, <1>5, <2>2, <2>6
    <3> QED
      BY <2>4, <2>5, <3>1, <3>2 DEF Leaves
  <2>12. TreeOf(u, V, L, new)
    BY <1>2, <1>3, <2>5, <2>7, <2>9, <2>10, <2>11 DEF TreeOf
  <2>13. s.cur \in Tree!Node(s.tree) /\ new[s.cur] = w /\ s.tree = u /\ s.cur = n
    BY <1>1, <2>3, <2>5, <2>6
  <2> QED
    BY <2>2, <2>3, <2>12, <2>13 DEF s, w, Arrived
<1> QED
  BY <1>4, <1>5

LEMMA Arrives ==
  ASSUME NEW s, NEW count, NEW W, NEW L, NEW w, Arrived(s, count, W, L, w), NEW side \in Tree!Bit
  PROVE  Arrived(Tree!Descend(s, side), count, W \cup {Append(w, side)}, L, Append(w, side))
<1> DEFINE t == s.tree
           c == s.cur
           d == Tree!Descend([tree |-> t, cur |-> c], side)
<1>1. s = [tree |-> t, cur |-> c] /\ c \in Tree!Node(t) /\ t.leaves_count = count
  BY DEF Arrived
<1>2. PICK label : TreeOf(t, W, L, label) /\ label[c] = w
  BY DEF Arrived
<1>3. Tree!Descend(s, side) = d
  BY <1>1
<1> HIDE DEF t, c
<1>4. Arrived(d, t.leaves_count, W \cup {Append(label[c], side)}, L, Append(label[c], side))
  BY <1>1, <1>2, Descends
<1> HIDE DEF d
<1> QED
  BY <1>1, <1>2, <1>3, <1>4

----------------------------------------------------------------------------
(***************************************************************************)
(* The prefixes of an item.                                                *)
(***************************************************************************)
PrefixesUpTo(item, n) == {SubSeq(item, 1, k) : k \in 0 .. n}

LEMMA Prefix ==
  ASSUME NEW item \in Tree!Items
  PROVE  /\ item \in Seq(Tree!Bit) /\ Len(item) = Depth /\ \A n \in 1 .. Depth : item[n] \in Tree!Bit
         /\ SubSeq(item, 1, 0) = <<>> /\ SubSeq(item, 1, Depth) = item
         /\ \A n \in 0 .. Depth : SubSeq(item, 1, n) \in Seq(Tree!Bit) /\ Len(SubSeq(item, 1, n)) = n
         /\ \A n \in 1 .. Depth : SubSeq(item, 1, n) = Append(SubSeq(item, 1, n - 1), item[n])
<1>1. Depth \in Nat \ {0}
  BY TreeAssumption
<1>2. item \in Seq(Tree!Bit) /\ Len(item) = Depth /\ \A n \in 1 .. Depth : item[n] \in Tree!Bit
  BY <1>1, IsASeq DEF Tree!Items
<1>3. SubSeq(item, 1, 0) = <<>> /\ SubSeq(item, 1, Depth) = item
  BY <1>1, <1>2, SubSeqEmpty, SubSeqFull
<1>4. ASSUME NEW n \in 0 .. Depth
      PROVE  /\ SubSeq(item, 1, n) \in Seq(Tree!Bit) /\ Len(SubSeq(item, 1, n)) = n
             /\ \A k \in 1 .. n : SubSeq(item, 1, n)[k] = item[k]
  BY <1>1, <1>2, SubSeqProperties
<1>5. ASSUME NEW n \in 1 .. Depth
      PROVE  SubSeq(item, 1, n) = Append(SubSeq(item, 1, n - 1), item[n])
  <2> DEFINE v == SubSeq(item, 1, n)
             w == SubSeq(item, 1, n - 1)
  <2>1. n \in 0 .. Depth /\ n - 1 \in 0 .. Depth /\ item[n] \in Tree!Bit
    BY <1>1, <1>2
  <2>2. /\ v \in Seq(Tree!Bit) /\ Len(v) = n /\ (\A k \in 1 .. n : v[k] = item[k])
        /\ w \in Seq(Tree!Bit) /\ Len(w) = n - 1 /\ \A k \in 1 .. (n - 1) : w[k] = item[k]
    BY <1>4, <2>1
  <2> HIDE DEF v, w
  <2>3. /\ Append(w, item[n]) \in Seq(Tree!Bit) /\ Len(Append(w, item[n])) = n
        /\ Append(w, item[n])[n] = item[n]
        /\ \A k \in 1 .. (n - 1) : Append(w, item[n])[k] = w[k]
    BY <2>1, <2>2, AppendProperties
  <2>4. \A k \in 1 .. n : v[k] = Append(w, item[n])[k]
    BY <2>2, <2>3
  <2>5. v = Append(w, item[n])
    BY <2>2, <2>3, <2>4, SeqEqual
  <2> QED
    BY <2>5 DEF v, w
<1> QED
  BY <1>2, <1>3, <1>4, <1>5

(***************************************************************************)
(* The loop of addItem: it ends at the node of the item, and the tree has  *)
(* the item's prefixes besides those it had.                               *)
(***************************************************************************)
WalkFrom(t, item, w, N) ==
  w = [n \in 0 .. N |-> IF n = 0 THEN [tree |-> t, cur |-> 0] ELSE Tree!Descend(w[n - 1], item[n])]

LEMMA WalkExists ==
  ASSUME NEW t, NEW item
  PROVE  \E w : WalkFrom(t, item, w, Depth)
<1> DEFINE S == {k \in 0 .. Depth : \E w : WalkFrom(t, item, w, k)}
<1>1. 0 \in S
  <2>1. WalkFrom(t, item, [n \in 0 .. 0 |-> [tree |-> t, cur |-> 0]], 0)
    BY DEF WalkFrom
  <2> QED
    BY <2>1, TreeAssumption
<1>2. ASSUME NEW k \in 1 .. Depth, k - 1 \in S
      PROVE  k \in S
  <2>1. PICK w : WalkFrom(t, item, w, k - 1)
    BY <1>2
  <2> DEFINE v == [n \in 0 .. k |-> IF n = k THEN Tree!Descend(w[k - 1], item[k]) ELSE w[n]]
  <2>2. \A n \in 0 .. (k - 1) :
          w[n] = IF n = 0 THEN [tree |-> t, cur |-> 0] ELSE Tree!Descend(w[n - 1], item[n])
    BY <2>1 DEF WalkFrom
  <2>3. k \in Nat /\ k # 0 /\ 0 .. k = (0 .. (k - 1)) \cup {k} /\ k \notin 0 .. (k - 1)
    BY TreeAssumption
  <2>4. v[k] = Tree!Descend(w[k - 1], item[k]) /\ \A n \in 0 .. (k - 1) : v[n] = w[n]
    BY <2>3
  <2>5. \A n \in 0 .. k :
          v[n] = IF n = 0 THEN [tree |-> t, cur |-> 0] ELSE Tree!Descend(v[n - 1], item[n])
    <3> SUFFICES ASSUME NEW n \in 0 .. k
                 PROVE  v[n] = IF n = 0 THEN [tree |-> t, cur |-> 0] ELSE Tree!Descend(v[n - 1], item[n])
      OBVIOUS
    <3> HIDE DEF v
    <3>1. CASE n = k
      <4>1. n # 0 /\ v[n - 1] = w[n - 1]
        BY <2>3, <2>4, <3>1
      <4> QED
        BY <2>4, <3>1, <4>1
    <3>2. CASE n # k
      <4>1. n \in 0 .. (k - 1) /\ (n # 0 => n - 1 \in 0 .. (k - 1))
        BY <2>3, <3>2
      <4> QED
        BY <2>2, <2>4, <4>1
    <3> QED
      BY <3>1, <3>2
  <2>6. v = [n \in 0 .. k |-> IF n = 0 THEN [tree |-> t, cur |-> 0] ELSE Tree!Descend(v[n - 1], item[n])]
    BY <2>5
  <2>7. WalkFrom(t, item, v, k)
    BY <2>6 DEF WalkFrom
  <2> HIDE DEF v
  <2> QED
    BY <2>7
<1>3. 0 .. Depth \subseteq S
  <2> HIDE DEF S
  <2> QED
    BY <1>1, <1>2, InductionUpTo, TreeAssumption
<1>4. Depth \in S
  BY <1>3, TreeAssumption
<1> QED
  BY <1>4

LEMMA WalkIsIteration ==
  ASSUME NEW t, NEW item
  PROVE  \E w : WalkFrom(t, item, w, Depth) /\ Tree!Walk(t, item) = w[Depth]
<1> DEFINE walk == CHOOSE w : WalkFrom(t, item, w, Depth)
<1>1. WalkFrom(t, item, walk, Depth)
  BY WalkExists
<1>2. Tree!Walk(t, item) = walk[Depth]
  BY Zenon DEF Tree!Walk, WalkFrom
<1> QED
  BY <1>1, <1>2

LEMMA PrefixesGrow ==
  ASSUME NEW item
  PROVE  /\ PrefixesUpTo(item, 0) = {SubSeq(item, 1, 0)}
         /\ \A n \in Nat \ {0} : PrefixesUpTo(item, n) = PrefixesUpTo(item, n - 1) \cup {SubSeq(item, 1, n)}
<1>1. ASSUME NEW x
      PROVE  x \in PrefixesUpTo(item, 0) <=> x = SubSeq(item, 1, 0)
  <2>1. \A k \in 0 .. 0 : k = 0
    OBVIOUS
  <2>2. 0 \in 0 .. 0
    OBVIOUS
  <2> QED
    BY <2>1, <2>2, Zenon DEF PrefixesUpTo
<1>2. ASSUME NEW n \in Nat \ {0}
      PROVE  PrefixesUpTo(item, n) = PrefixesUpTo(item, n - 1) \cup {SubSeq(item, 1, n)}
  <2>1. 0 .. n = (0 .. (n - 1)) \cup {n}
    OBVIOUS
  <2> QED
    BY <2>1 DEF PrefixesUpTo
<1> QED
  BY <1>1, <1>2

LEMMA Walks ==
  ASSUME NEW t, NEW W, NEW L, NEW label, TreeOf(t, W, L, label), NEW item \in Tree!Items
  PROVE  Arrived(Tree!Walk(t, item), t.leaves_count, W \cup PrefixesUpTo(item, Depth), L, item)
<1>1. PICK w : WalkFrom(t, item, w, Depth) /\ Tree!Walk(t, item) = w[Depth]
  BY WalkIsIteration
<1> DEFINE count == t.leaves_count
           S == {n \in 0 .. Depth :
                   Arrived(w[n], count, W \cup PrefixesUpTo(item, n), L, SubSeq(item, 1, n))}
<1>2. w[0] = [tree |-> t, cur |-> 0] /\ \A n \in 1 .. Depth : w[n] = Tree!Descend(w[n - 1], item[n])
  <2>1. \A n \in 0 .. Depth : w[n] = IF n = 0 THEN [tree |-> t, cur |-> 0] ELSE Tree!Descend(w[n - 1], item[n])
    BY <1>1 DEF WalkFrom
  <2> QED
    BY <2>1, TreeAssumption
<1>3. 0 \in S
  <2>1. w[0].tree = t /\ w[0].cur = 0 /\ w[0] = [tree |-> w[0].tree, cur |-> w[0].cur]
    BY <1>2
  <2>2. 0 \in Tree!Node(t) /\ label[0] = <<>> /\ <<>> \in W
    <3>1. 0 \in Tree!Node(t)
      BY DEF TreeOf, IsTree, TreeOfSize, Tree!Node
    <3> QED
      BY <3>1 DEF TreeOf, Names
  <2>3. SubSeq(item, 1, 0) = <<>>
    BY Prefix
  <2>4. W \cup PrefixesUpTo(item, 0) = W
    BY <2>2, <2>3, PrefixesGrow
  <2>5. Arrived(w[0], count, W \cup PrefixesUpTo(item, 0), L, SubSeq(item, 1, 0))
    BY <2>1, <2>2, <2>3, <2>4 DEF Arrived
  <2> QED
    BY <2>5, TreeAssumption
<1>4. ASSUME NEW n \in 1 .. Depth, n - 1 \in S
      PROVE  n \in S
  <2> DEFINE V == W \cup PrefixesUpTo(item, n - 1)
             v == SubSeq(item, 1, n - 1)
  <2>1. Arrived(w[n - 1], count, V, L, v)
    BY <1>4
  <2>2. item[n] \in Tree!Bit /\ w[n] = Tree!Descend(w[n - 1], item[n])
    BY <1>2, Prefix
  <2>3. Arrived(Tree!Descend(w[n - 1], item[n]), count, V \cup {Append(v, item[n])}, L, Append(v, item[n]))
    <3> HIDE DEF V, v, count
    <3> QED
      BY <2>1, <2>2, Arrives
  <2>4. Append(v, item[n]) = SubSeq(item, 1, n)
    BY Prefix
  <2>5. V \cup {SubSeq(item, 1, n)} = W \cup PrefixesUpTo(item, n)
    <3>1. n \in Nat \ {0}
      BY TreeAssumption
    <3>2. PrefixesUpTo(item, n) = PrefixesUpTo(item, n - 1) \cup {SubSeq(item, 1, n)}
      BY <3>1, PrefixesGrow
    <3> QED
      BY <3>2
  <2> HIDE DEF V, v, count
  <2>6. Arrived(w[n], count, W \cup PrefixesUpTo(item, n), L, SubSeq(item, 1, n))
    BY <2>2, <2>3, <2>4, <2>5
  <2> QED
    BY <2>6, TreeAssumption
<1>5. Depth \in S
  <2> HIDE DEF S
  <2>1. 0 .. Depth \subseteq S
    BY <1>3, <1>4, InductionUpTo, TreeAssumption
  <2> QED
    BY <2>1, TreeAssumption
<1>6. SubSeq(item, 1, Depth) = item
  BY Prefix
<1> QED
  BY <1>1, <1>5, <1>6

----------------------------------------------------------------------------
(***************************************************************************)
(* The inductive invariant: the arrays are the tree of the prefixes of the *)
(* items, with the items for leaves.                                       *)
(***************************************************************************)
Prefixes(S) == {<<>>} \cup UNION {PrefixesUpTo(item, Depth) : item \in S}

TreeInv ==
  /\ added \in Seq(Tree!Items) /\ Len(added) <= MaxAdded
  /\ bp.leaves_count <= Len(added)
  /\ \E label : TreeOf(bp, Prefixes(Tree!Inserted), Tree!Inserted, label)

LEMMA PrefixesOfMore ==
  ASSUME NEW S, NEW item
  PROVE  Prefixes(S \cup {item}) = Prefixes(S) \cup PrefixesUpTo(item, Depth)
BY DEF Prefixes

LEMMA TreeInvInit ==
  ASSUME Tree!Init
  PROVE  TreeInv
<1> DEFINE label == [n \in {0} |-> <<>>]
<1>1. added = <<>> /\ added \in Seq(Tree!Items) /\ Len(added) = 0 /\ Tree!Inserted = {}
  BY DEF Tree!Init, Tree!Inserted
<1>2. Prefixes({}) = {<<>>} /\ <<>> \in Seq(Tree!Bit)
  BY DEF Prefixes
<1>3. /\ bp.nodes_count = 1 /\ bp.leaves_count = 0 /\ Tree!Node(bp) = {0}
      /\ \A s \in Tree!Bit : bp.child[0][s] = -1
      /\ ~bp.is_leaf[0]
  BY DEF Tree!Init, Tree!EmptyBP, Tree!Node
<1>4. IsTree(bp)
  <2>1. 0 .. (1 - 1) = {0} /\ 1 \in Nat \ {0}
    OBVIOUS
  <2>2. /\ [n \in {0} |-> [side \in Tree!Bit |-> -1]] \in [{0} -> [Tree!Bit -> Int]]
        /\ [n \in {0} |-> -1] \in [{0} -> Int]
        /\ [n \in {0} |-> FALSE] \in [{0} -> BOOLEAN]
    OBVIOUS
  <2>3. TreeOfSize(1) =
          [nodes_count : {1}, leaves_count : Nat, child : [{0} -> [Tree!Bit -> Int]],
           parent : [{0} -> Int], level : [{0} -> Int], is_leaf : [{0} -> BOOLEAN]]
    BY <2>1 DEF TreeOfSize
  <2>4. bp \in TreeOfSize(1)
    BY <2>2, <2>3 DEF Tree!Init, Tree!EmptyBP
  <2> QED
    BY <2>1, <2>4 DEF IsTree
<1>5. label \in [{0} -> {<<>>}] /\ label[0] = <<>>
  OBVIOUS
<1> HIDE DEF label
<1>6. Names(bp, {<<>>}, label)
  BY <1>3, <1>5 DEF Names
<1>7. Links(bp, {<<>>}, label)
  <2>1. \A s \in Tree!Bit : Append(<<>>, s) \notin {<<>>}
    BY <1>2, Letters
  <2> QED
    BY <1>3, <1>5, <2>1 DEF Links
<1>8. Descent(bp, label) /\ Leaves(bp, {}, label)
  BY <1>3 DEF Descent, Leaves
<1>9. TreeOf(bp, Prefixes(Tree!Inserted), Tree!Inserted, label)
  BY <1>1, <1>2, <1>4, <1>6, <1>7, <1>8 DEF TreeOf
<1> QED
  BY <1>1, <1>3, <1>9, TreeAssumption DEF TreeInv

\* The end of addItem: the node of the item becomes a leaf.
LEMMA LeafMarked ==
  ASSUME NEW t, NEW W, NEW L, NEW label, TreeOf(t, W, L, label), NEW cur \in Tree!Node(t), NEW count \in Nat
  PROVE  TreeOf([t EXCEPT !.is_leaf[cur] = TRUE, !.leaves_count = count], W, L \cup {label[cur]}, label)
<1> DEFINE u == [t EXCEPT !.is_leaf[cur] = TRUE, !.leaves_count = count]
           n == t.nodes_count
<1>1. /\ n \in Nat \ {0} /\ Tree!Node(t) = 0 .. (n - 1) /\ t \in TreeOfSize(n)
      /\ t.is_leaf \in [0 .. (n - 1) -> BOOLEAN]
  BY DEF TreeOf, IsTree, TreeOfSize, Tree!Node
<1>2. u.is_leaf = [t.is_leaf EXCEPT ![cur] = TRUE] /\ u.leaves_count = count
      /\ u.child = t.child /\ u.parent = t.parent /\ u.level = t.level /\ u.nodes_count = n
  BY <1>1 DEF TreeOfSize
<1>3. u \in TreeOfSize(n)
  <2>1. [t.is_leaf EXCEPT ![cur] = TRUE] \in [0 .. (n - 1) -> BOOLEAN]
    BY <1>1
  <2> QED
    BY <1>1, <2>1 DEF TreeOfSize
<1> HIDE DEF u
<1>4. IsTree(u) /\ Tree!Node(u) = Tree!Node(t)
  BY <1>1, <1>2, <1>3 DEF IsTree, Tree!Node
<1>5. Names(u, W, label) /\ Links(u, W, label) /\ Descent(u, label)
  BY <1>2, <1>4 DEF TreeOf, Names, Links, Descent
<1>6. Leaves(u, L \cup {label[cur]}, label)
  BY <1>1, <1>2, <1>4 DEF TreeOf, Names, Leaves
<1>7. W \subseteq Seq(Tree!Bit) /\ L \cup {label[cur]} \subseteq W
  BY DEF TreeOf, Names
<1> QED
  BY <1>4, <1>5, <1>6, <1>7 DEF TreeOf, u

LEMMA TreeInvStep ==
  ASSUME TreeInv, NEW item \in Tree!Items, Tree!addItem(item)
  PROVE  TreeInv'
<1> DEFINE end == Tree!Walk(bp, item)
           count == IF end.cur = end.tree.nodes_count - 1
                    THEN end.tree.leaves_count + 1 ELSE end.tree.leaves_count
<1>1. /\ Len(added) < MaxAdded /\ added' = Append(added, item)
      /\ bp' = [end.tree EXCEPT !.is_leaf[end.cur] = TRUE, !.leaves_count = count]
  BY DEF Tree!addItem
<1>2. /\ added' \in Seq(Tree!Items) /\ Len(added') = Len(added) + 1
      /\ Len(added) \in Nat /\ Tree!Inserted' = Tree!Inserted \cup {item}
  <2>1. added \in Seq(Tree!Items)
    BY DEF TreeInv
  <2> QED
    BY <1>1, <2>1, AppendProperties DEF Tree!Inserted
<1>3. PICK old : TreeOf(bp, Prefixes(Tree!Inserted), Tree!Inserted, old)
  BY DEF TreeInv
<1>4. bp.leaves_count \in Nat /\ bp.leaves_count <= Len(added)
  BY <1>3 DEF TreeInv, TreeOf, IsTree, TreeOfSize
<1>5. Arrived(end, bp.leaves_count, Prefixes(Tree!Inserted) \cup PrefixesUpTo(item, Depth), Tree!Inserted, item)
  BY <1>3, Walks
<1>6. Prefixes(Tree!Inserted') = Prefixes(Tree!Inserted) \cup PrefixesUpTo(item, Depth)
  BY <1>2, PrefixesOfMore
<1> HIDE DEF end
<1>7. PICK label : TreeOf(end.tree, Prefixes(Tree!Inserted'), Tree!Inserted, label) /\ label[end.cur] = item
  BY <1>5, <1>6 DEF Arrived
<1>8. end.cur \in Tree!Node(end.tree) /\ end.tree.leaves_count = bp.leaves_count
  BY <1>5 DEF Arrived
<1>9. count \in Nat /\ count <= Len(added) + 1
  BY <1>2, <1>4, <1>8
<1> HIDE DEF count
<1>10. TreeOf(bp', Prefixes(Tree!Inserted'), Tree!Inserted', label)
  BY <1>1, <1>2, <1>7, <1>8, <1>9, LeafMarked
<1>11. bp'.leaves_count = count
  <2>1. end.tree = [end.tree EXCEPT !.is_leaf = end.tree.is_leaf] /\ "leaves_count" \in DOMAIN end.tree
    BY <1>7 DEF TreeOf, IsTree, TreeOfSize
  <2> QED
    BY <1>1, <2>1
<1> QED
  BY <1>1, <1>2, <1>9, <1>10, <1>11, TreeAssumption DEF TreeInv

\* Every addItem keeps the invariant.
THEOREM TreeInvariant == Tree!Spec => []TreeInv
<1>1. Tree!Init => TreeInv
  BY TreeInvInit
<1>2. TreeInv /\ [Tree!Next]_(Tree!vars) => TreeInv'
  <2>1. ASSUME TreeInv, Tree!Next
        PROVE  TreeInv'
    BY <2>1, TreeInvStep DEF Tree!Next
  <2>2. ASSUME TreeInv, UNCHANGED Tree!vars
        PROVE  TreeInv'
    BY <2>2 DEF TreeInv, Tree!vars, Tree!Inserted
  <2> QED
    BY <2>1, <2>2
<1> QED
  BY <1>1, <1>2, PTL DEF Tree!Spec

----------------------------------------------------------------------------
(***************************************************************************)
(* What the tree answers: where the bits of an item lead.                  *)
(***************************************************************************)
LEMMA PrefixClosed ==
  ASSUME NEW t, NEW W, NEW L, NEW label, TreeOf(t, W, L, label),
         NEW v \in Seq(Tree!Bit), NEW s \in Tree!Bit, Append(v, s) \in W
  PROVE  v \in W
<1>1. PICK m \in Tree!Node(t) : label[m] = Append(v, s)
  BY DEF TreeOf, Names
<1>2. m \in Tree!Node(t) \ {0}
  BY <1>1, Letters DEF TreeOf, Names
<1>3. PICK q \in Tree!Bit : t.parent[m] \in Tree!Node(t) /\ label[m] = Append(label[t.parent[m]], q)
  BY <1>2 DEF TreeOf, Descent
<1>4. label[t.parent[m]] \in W /\ label[t.parent[m]] \in Seq(Tree!Bit)
  BY <1>3 DEF TreeOf, Names
<1>5. label[t.parent[m]] = v
  <2>1. Append(label[t.parent[m]], q) = Append(v, s)
    BY <1>1, <1>3
  <2> QED
    BY ONLY <1>4, <2>1, q \in Tree!Bit, s \in Tree!Bit, v \in Seq(Tree!Bit), Letters
<1> QED
  BY <1>4, <1>5

AtFrom(t, bits, at, N) ==
  at = [n \in 0 .. N |->
          IF n = 0 THEN 0 ELSE IF at[n - 1] = -1 THEN -1 ELSE t.child[at[n - 1]][bits[n]]]

LEMMA AtExists ==
  ASSUME NEW t, NEW bits, NEW N \in Nat
  PROVE  \E at : AtFrom(t, bits, at, N)
<1> DEFINE Step(from, n) == IF from = -1 THEN -1 ELSE t.child[from][bits[n]]
           S == {k \in 0 .. N : \E at : AtFrom(t, bits, at, k)}
<1>1. 0 \in S
  <2>1. AtFrom(t, bits, [n \in 0 .. 0 |-> 0], 0)
    BY DEF AtFrom
  <2> QED
    BY <2>1
<1>2. ASSUME NEW k \in 1 .. N, k - 1 \in S
      PROVE  k \in S
  <2>1. PICK w : AtFrom(t, bits, w, k - 1)
    BY <1>2
  <2> DEFINE v == [n \in 0 .. k |-> IF n = k THEN Step(w[k - 1], k) ELSE w[n]]
  <2>2. \A n \in 0 .. (k - 1) : w[n] = IF n = 0 THEN 0 ELSE Step(w[n - 1], n)
    BY <2>1 DEF AtFrom
  <2>3. k \in Nat /\ k # 0 /\ 0 .. k = (0 .. (k - 1)) \cup {k} /\ k \notin 0 .. (k - 1)
    OBVIOUS
  <2> HIDE DEF Step
  <2>4. v[k] = Step(w[k - 1], k) /\ \A n \in 0 .. (k - 1) : v[n] = w[n]
    BY <2>3
  <2>5. \A n \in 0 .. k : v[n] = IF n = 0 THEN 0 ELSE Step(v[n - 1], n)
    <3> SUFFICES ASSUME NEW n \in 0 .. k
                 PROVE  v[n] = IF n = 0 THEN 0 ELSE Step(v[n - 1], n)
      OBVIOUS
    <3> HIDE DEF v
    <3>1. CASE n = k
      <4>1. n # 0 /\ v[n - 1] = w[n - 1]
        BY <2>3, <2>4, <3>1
      <4> QED
        BY <2>4, <3>1, <4>1
    <3>2. CASE n # k
      <4>1. n \in 0 .. (k - 1) /\ (n # 0 => n - 1 \in 0 .. (k - 1))
        BY <2>3, <3>2
      <4> QED
        BY <2>2, <2>4, <4>1
    <3> QED
      BY <3>1, <3>2
  <2>6. v = [n \in 0 .. k |-> IF n = 0 THEN 0 ELSE Step(v[n - 1], n)]
    BY <2>5
  <2>7. AtFrom(t, bits, v, k)
    BY <2>6 DEF AtFrom, Step
  <2> HIDE DEF v
  <2> QED
    BY <2>7
<1>3. N \in S
  <2> HIDE DEF S
  <2>1. 0 .. N \subseteq S
    BY <1>1, <1>2, InductionUpTo
  <2> QED
    BY <2>1
<1> QED
  BY <1>3

LEMMA NodeAtIsIteration ==
  ASSUME NEW item \in Tree!Items
  PROVE  \E at : AtFrom(bp, item, at, Depth) /\ Tree!NodeAt(item) = at[Depth]
<1> DEFINE at == CHOOSE a : AtFrom(bp, item, a, Depth)
<1>1. AtFrom(bp, item, at, Depth)
  BY AtExists, TreeAssumption
<1>2. Len(item) = Depth
  BY Prefix
<1>3. Tree!NodeAt(item) = at[Depth]
  BY <1>2, Zenon DEF Tree!NodeAt, AtFrom
<1> QED
  BY <1>1, <1>3

\* The bits of an item lead to the node of its word, if there is one.
LEMMA NodeOfItem ==
  ASSUME NEW W, NEW L, NEW label, TreeOf(bp, W, L, label), NEW item \in Tree!Items
  PROVE  \/ Tree!NodeAt(item) = -1 /\ item \notin W
         \/ Tree!NodeAt(item) \in Tree!Node(bp) /\ label[Tree!NodeAt(item)] = item
<1>1. PICK at : AtFrom(bp, item, at, Depth) /\ Tree!NodeAt(item) = at[Depth]
  BY NodeAtIsIteration
<1> DEFINE word(n) == SubSeq(item, 1, n)
           S == {n \in 0 .. Depth : \/ at[n] = -1 /\ word(n) \notin W
                                    \/ at[n] \in Tree!Node(bp) /\ label[at[n]] = word(n)}
<1>2. /\ at[0] = 0
      /\ \A n \in 1 .. Depth :
           at[n] = IF at[n - 1] = -1 THEN -1 ELSE bp.child[at[n - 1]][item[n]]
  <2>1. \A n \in 0 .. Depth :
          at[n] = IF n = 0 THEN 0 ELSE IF at[n - 1] = -1 THEN -1 ELSE bp.child[at[n - 1]][item[n]]
    BY <1>1 DEF AtFrom
  <2> QED
    BY <2>1, TreeAssumption
<1>3. 0 \in S
  <2>1. 0 \in Tree!Node(bp) /\ label[0] = <<>>
    BY DEF TreeOf, IsTree, TreeOfSize, Tree!Node, Names
  <2>2. word(0) = <<>>
    BY Prefix
  <2> QED
    <3>1. at[0] \in Tree!Node(bp) /\ label[at[0]] = word(0)
      BY <1>2, <2>1, <2>2
    <3>2. 0 \in 0 .. Depth
      BY TreeAssumption
    <3> HIDE DEF word
    <3> QED
      BY <3>1, <3>2
<1>4. ASSUME NEW n \in 1 .. Depth, n - 1 \in S
      PROVE  n \in S
  <2>1. /\ word(n) = Append(word(n - 1), item[n]) /\ item[n] \in Tree!Bit
        /\ word(n - 1) \in Seq(Tree!Bit)
    BY Prefix, TreeAssumption
  <2> HIDE DEF word
  <2>2. CASE at[n - 1] = -1 /\ word(n - 1) \notin W
    <3>1. word(n) \notin W
      BY <2>1, <2>2, PrefixClosed
    <3> QED
      BY <1>2, <2>2, <3>1, TreeAssumption
  <2>3. CASE at[n - 1] \in Tree!Node(bp) /\ label[at[n - 1]] = word(n - 1)
    <3>1. at[n] = bp.child[at[n - 1]][item[n]]
      <4>1. at[n - 1] # -1
        BY <2>3 DEF TreeOf, IsTree, TreeOfSize, Tree!Node
      <4> QED
        BY <1>2, <4>1
    <3>2. IF word(n) \in W THEN at[n] \in Tree!Node(bp) /\ label[at[n]] = word(n) ELSE at[n] = -1
      <4>1. IF Append(label[at[n - 1]], item[n]) \in W
            THEN /\ bp.child[at[n - 1]][item[n]] \in Tree!Node(bp)
                 /\ label[bp.child[at[n - 1]][item[n]]] = Append(label[at[n - 1]], item[n])
            ELSE bp.child[at[n - 1]][item[n]] = -1
        BY <2>1, <2>3 DEF TreeOf, Links
      <4>2. Append(label[at[n - 1]], item[n]) = word(n)
        BY <2>1, <2>3
      <4> QED
        BY <3>1, <4>1, <4>2
    <3> QED
      BY <3>2, TreeAssumption
  <2> QED
    BY <1>4, <2>2, <2>3
<1>5. Depth \in S
  <2> HIDE DEF S
  <2>1. 0 .. Depth \subseteq S
    BY <1>3, <1>4, InductionUpTo, TreeAssumption
  <2> QED
    BY <2>1, TreeAssumption
<1>6. word(Depth) = item
  BY Prefix
<1> QED
  BY <1>1, <1>5, <1>6

LEMMA LeavesAreItems ==
  ASSUME TreeInv
  PROVE  {item \in Tree!Items : Tree!NodeAt(item) # -1 /\ bp.is_leaf[Tree!NodeAt(item)]} = Tree!Inserted
<1>1. PICK label : TreeOf(bp, Prefixes(Tree!Inserted), Tree!Inserted, label)
  BY DEF TreeInv
<1>2. Tree!Inserted \subseteq Tree!Items
  BY DEF TreeInv, Tree!Inserted
<1>3. ASSUME NEW item \in Tree!Items
      PROVE  Tree!NodeAt(item) # -1 /\ bp.is_leaf[Tree!NodeAt(item)] <=> item \in Tree!Inserted
  <2>1. \/ Tree!NodeAt(item) = -1 /\ item \notin Prefixes(Tree!Inserted)
        \/ Tree!NodeAt(item) \in Tree!Node(bp) /\ label[Tree!NodeAt(item)] = item
    BY <1>1, NodeOfItem
  <2>2. Tree!Inserted \subseteq Prefixes(Tree!Inserted) /\ -1 \notin Tree!Node(bp)
    BY <1>1 DEF TreeOf, IsTree, TreeOfSize, Tree!Node
  <2>3. \A n \in Tree!Node(bp) : bp.is_leaf[n] <=> label[n] \in Tree!Inserted
    BY <1>1 DEF TreeOf, Leaves
  <2> QED
    BY <2>1, <2>2, <2>3
<1> QED
  BY <1>2, <1>3

LEMMA NodesAreCounted ==
  ASSUME TreeInv
  PROVE  bp.nodes_count = Cardinality({SubSeq(i, 1, n) : i \in Tree!Inserted, n \in 1 .. Depth}) + 1
<1>1. PICK label : TreeOf(bp, Prefixes(Tree!Inserted), Tree!Inserted, label)
  BY DEF TreeInv
<1> DEFINE W == Prefixes(Tree!Inserted)
           X == {SubSeq(i, 1, n) : i \in Tree!Inserted, n \in 1 .. Depth}
           N == bp.nodes_count
<1>2. N \in Nat \ {0} /\ Tree!Node(bp) = 0 .. (N - 1)
  BY <1>1 DEF TreeOf, IsTree, TreeOfSize, Tree!Node
<1>3. IsFiniteSet(0 .. (N - 1)) /\ Cardinality(0 .. (N - 1)) = N
  BY <1>2, FS_Interval
<1>4. label \in Bijection(0 .. (N - 1), W)
  BY <1>1, <1>2 DEF TreeOf, Names, Bijection, Injection, IsInjective, Surjection
<1>5. IsFiniteSet(W) /\ Cardinality(W) = N
  BY <1>3, <1>4, FS_Bijection DEF ExistsBijection
<1>6. X = W \ {<<>>}
  <2>1. Tree!Inserted \subseteq Tree!Items
    BY DEF TreeInv, Tree!Inserted
  <2>2. ASSUME NEW i \in Tree!Inserted, NEW n \in 0 .. Depth
        PROVE  SubSeq(i, 1, n) = <<>> <=> n = 0
    <3>1. SubSeq(i, 1, 0) = <<>> /\ Len(SubSeq(i, 1, n)) = n
      BY <2>1, Prefix
    <3> QED
      BY <3>1
  <2>3. 0 .. Depth = {0} \cup 1 .. Depth /\ 0 \notin 1 .. Depth
    BY TreeAssumption
  <2>4. \A i \in Tree!Inserted : PrefixesUpTo(i, Depth) \ {<<>>} = {SubSeq(i, 1, n) : n \in 1 .. Depth}
    BY <2>2, <2>3 DEF PrefixesUpTo
  <2>5. W \ {<<>>} = UNION {PrefixesUpTo(i, Depth) \ {<<>>} : i \in Tree!Inserted}
    BY DEF Prefixes
  <2>6. X = UNION {{SubSeq(i, 1, n) : n \in 1 .. Depth} : i \in Tree!Inserted}
    OBVIOUS
  <2> QED
    BY <2>4, <2>5, <2>6
<1>7. <<>> \in W
  BY DEF Prefixes
<1> HIDE DEF W, X, N
<1>8. Cardinality(X) = N - 1
  BY <1>5, <1>6, <1>7, FS_RemoveElement
<1> QED
  BY <1>2, <1>8 DEF X, N

LEMMA ArraysAreTree ==
  ASSUME TreeInv
  PROVE  Tree!TypeOK
<1>1. PICK label : TreeOf(bp, Prefixes(Tree!Inserted), Tree!Inserted, label)
  BY DEF TreeInv
<1>2. /\ bp.nodes_count \in Nat \ {0} /\ bp.leaves_count \in Nat
      /\ DOMAIN bp.child = Tree!Node(bp) /\ DOMAIN bp.parent = Tree!Node(bp)
      /\ DOMAIN bp.level = Tree!Node(bp) /\ DOMAIN bp.is_leaf = Tree!Node(bp)
      /\ -1 \notin Tree!Node(bp)
  BY <1>1 DEF TreeOf, IsTree, TreeOfSize, Tree!Node
<1>3. bp.leaves_count \in 0 .. MaxAdded
  BY <1>2, TreeAssumption DEF TreeInv
<1>4. ASSUME NEW n \in Tree!Node(bp) \ {0}
      PROVE  /\ \E s \in Tree!Bit :
                  {link \in Tree!Node(bp) \X Tree!Bit : bp.child[link[1]][link[2]] = n} = {<<bp.parent[n], s>>}
             /\ bp.level[n] = bp.level[bp.parent[n]] + 1
  <2>1. PICK s \in Tree!Bit : /\ bp.parent[n] \in Tree!Node(bp)
                         /\ bp.level[n] = bp.level[bp.parent[n]] + 1
                         /\ label[n] = Append(label[bp.parent[n]], s)
    BY <1>1 DEF TreeOf, Descent
  <2>2. /\ \A m \in Tree!Node(bp) : label[m] \in Prefixes(Tree!Inserted) /\ label[m] \in Seq(Tree!Bit)
        /\ \A l, m \in Tree!Node(bp) : label[l] = label[m] => l = m
    BY <1>1 DEF TreeOf, Names
  <2>3. ASSUME NEW m \in Tree!Node(bp), NEW r \in Tree!Bit
        PROVE  bp.child[m][r] = n <=> m = bp.parent[n] /\ r = s
    <3>1. IF Append(label[m], r) \in Prefixes(Tree!Inserted)
          THEN bp.child[m][r] \in Tree!Node(bp) /\ label[bp.child[m][r]] = Append(label[m], r)
          ELSE bp.child[m][r] = -1
      BY <1>1 DEF TreeOf, Links
    <3>2. ASSUME bp.child[m][r] = n
          PROVE  m = bp.parent[n] /\ r = s
      <4>1. Append(label[m], r) = Append(label[bp.parent[n]], s)
        BY <1>2, <2>1, <3>1, <3>2
      <4>2. label[m] = label[bp.parent[n]] /\ r = s
        <5> DEFINE v == label[m]
                   w == label[bp.parent[n]]
        <5>1. v \in Seq(Tree!Bit) /\ w \in Seq(Tree!Bit) /\ Append(v, r) = Append(w, s)
          BY <2>1, <2>2, <4>1
        <5> HIDE DEF v, w
        <5>2. v = w /\ r = s
          BY <5>1, Letters
        <5> QED
          BY <5>2 DEF v, w
      <4> QED
        BY <2>1, <2>2, <4>2
    <3>3. ASSUME m = bp.parent[n], r = s
          PROVE  bp.child[m][r] = n
      BY <2>1, <2>2, <3>1, <3>3
    <3> QED
      BY <3>2, <3>3
  <2>4. {link \in Tree!Node(bp) \X Tree!Bit : bp.child[link[1]][link[2]] = n} = {<<bp.parent[n], s>>}
    BY <2>1, <2>3
  <2> QED
    BY <2>1, <2>4
<1> QED
  BY <1>2, <1>3, <1>4 DEF Tree!TypeOK

(***************************************************************************)
(* Whatever items addItem is given, in any order and however often: the    *)
(* arrays are one tree, exactly the items lead to a leaf, and there is one *)
(* node for each prefix of an item (branching_program.cpp).                *)
(***************************************************************************)
THEOREM ProgramHoldsItems == Tree!Spec => []TreeHoldsItems
<1>0. \A S : Tree!Cardinality(S) = Cardinality(S)
  BY Zenon DEF Tree!Cardinality, Cardinality
<1>1. ASSUME TreeInv
      PROVE  TreeHoldsItems
  <2>1. bp.nodes_count =
          Tree!Cardinality({SubSeq(i, 1, n) : i \in Tree!Inserted, n \in 1 .. Depth}) + 1
    BY <1>0, <1>1, NodesAreCounted
  <2>2. Tree!TypeOK /\ {item \in Tree!Items : Tree!NodeAt(item) # -1 /\ bp.is_leaf[Tree!NodeAt(item)]} = Tree!Inserted
    BY <1>1, LeavesAreItems, ArraysAreTree
  <2> QED
    BY <2>1, <2>2 DEF TreeHoldsItems, Tree!TreeHoldsItems
<1> QED
  BY <1>1, TreeInvariant, PTL

----------------------------------------------------------------------------
(***************************************************************************)
(* The cuckoo filter: classes of items.                                    *)
(***************************************************************************)
LEMMA AltOfAlt ==
  ASSUME NEW idx \in Bucket, NEW tag
  PROVE  get_alt_index(idx, tag) \in Bucket /\ get_alt_index(get_alt_index(idx, tag), tag) = idx
<1> DEFINE x == idx_bucket_limit(TagHash[tag])
<1>1. x \subseteq IndexBits
  BY DEF idx_bucket_limit
<1> HIDE DEF x
<1>2. get_alt_index(idx, tag) = Xor(idx, x) /\ get_alt_index(Xor(idx, x), tag) = Xor(Xor(idx, x), x)
  BY DEF get_alt_index, x
<1>3. Xor(idx, x) \in Bucket /\ Xor(Xor(idx, x), x) = idx
  BY <1>1 DEF Xor, Bucket
<1> QED
  BY <1>2, <1>3

LEMMA SameClass ==
  ASSUME NEW idx \in Bucket, NEW tag, NEW b \in Bucket, NEW w
  PROVE  ClassOf(b, w) = ClassOf(idx, tag) <=> w = tag /\ b \in {idx, get_alt_index(idx, tag)}
<1>1. ASSUME w = tag, b = get_alt_index(idx, tag)
      PROVE  ClassOf(b, w) = ClassOf(idx, tag)
  BY <1>1, AltOfAlt DEF ClassOf
<1>2. ASSUME ClassOf(b, w) = ClassOf(idx, tag)
      PROVE  w = tag /\ b \in {idx, get_alt_index(idx, tag)}
  BY <1>2 DEF ClassOf
<1> QED
  BY <1>1, <1>2

LEMMA ItemsHaveTags ==
  ASSUME NEW item \in Item
  PROVE  /\ IndexOf(item) \in Bucket /\ AltOf(item) \in Bucket
         /\ TagOf(item) \in Word /\ TagOf(item) # Zero
<1>1. IndexOf(item) \in Bucket /\ AltOf(item) \in Bucket
  BY AltOfAlt DEF IndexOf, AltOf, idx_bucket_limit, Bucket
<1>2. ToWord(1) \in Word /\ ToWord(1) # Zero
  <2>1. 0 \in Bit /\ (1 \div 2^0) % 2 = 1
    BY WordBitsAssumption DEF Bit
  <2> QED
    BY <2>1 DEF ToWord, Word, Zero
<1>3. Hash[item] \cap LowBits(BitsPerTag) \in Word
  BY FilterAssumption DEF Word
<1> QED
  BY <1>1, <1>2, <1>3 DEF TagOf, tag_bit_limit

(***************************************************************************)
(* How a change of one entry changes the numbers of the classes.           *)
(***************************************************************************)
Tables == [Bucket -> [TagIdx -> Word]]

Entries(t, c) ==
  {e \in Bucket \X TagIdx : t[e[1]][e[2]] # Zero /\ ClassOf(e[1], t[e[1]][e[2]]) = c}

Counts(b, w, c) == IF w # Zero /\ ClassOf(b, w) = c THEN 1 ELSE 0

LEMMA PlacesAreFinite ==
  IsFiniteSet(Bucket \X TagIdx)
<1>1. IsFiniteSet(Bit)
  BY WordBitsAssumption, FS_Interval DEF Bit
<1>2. IsFiniteSet(IndexBits)
  BY <1>1, FS_Subset, FilterAssumption
<1>3. IsFiniteSet(Bucket)
  BY <1>2, FS_SUBSET DEF Bucket
<1> QED
  BY <1>3, FS_Product, FilterAssumption

LEMMA EntriesCounted ==
  ASSUME NEW t, NEW c
  PROVE  /\ IsFiniteSet(Entries(t, c)) /\ Cardinality(Entries(t, c)) \in Nat
         /\ Cardinality(Entries(t, c)) = 0 <=> Entries(t, c) = {}
<1>1. IsFiniteSet(Entries(t, c))
  BY PlacesAreFinite, FS_Subset DEF Entries
<1> QED
  BY <1>1, FS_CardinalityType, FS_EmptySet

LEMMA EntryChanged ==
  ASSUME NEW t \in Tables, NEW b \in Bucket, NEW s \in TagIdx, NEW w \in Word, NEW c
  PROVE  LET u == [t EXCEPT ![b][s] = w]
         IN /\ u \in Tables
            /\ Cardinality(Entries(u, c)) =
                 Cardinality(Entries(t, c)) - Counts(b, t[b][s], c) + Counts(b, w, c)
<1> DEFINE u == [t EXCEPT ![b][s] = w]
           place == <<b, s>>
           rest == Entries(t, c) \ {place}
<1>1. u \in Tables /\ u[b][s] = w
  BY DEF Tables
<1>2. \A d \in Bucket, r \in TagIdx : <<d, r>> # place => u[d][r] = t[d][r]
  BY DEF Tables
<1> HIDE DEF u
<1>3. rest = Entries(u, c) \ {place}
  <2>1. \A e \in Bucket \X TagIdx : e # place => u[e[1]][e[2]] = t[e[1]][e[2]]
    BY <1>2
  <2> QED
    BY <2>1 DEF Entries
<1>4. place \in Entries(t, c) <=> t[b][s] # Zero /\ ClassOf(b, t[b][s]) = c
  BY DEF Entries
<1>5. place \in Entries(u, c) <=> w # Zero /\ ClassOf(b, w) = c
  BY <1>1 DEF Entries
<1>6. Cardinality(rest) = Cardinality(Entries(t, c)) - Counts(b, t[b][s], c)
  <2>1. IsFiniteSet(Entries(t, c)) /\ Cardinality(Entries(t, c)) \in Nat
    BY EntriesCounted
  <2>2. Cardinality(Entries(t, c) \ {place}) =
          IF place \in Entries(t, c) THEN Cardinality(Entries(t, c)) - 1 ELSE Cardinality(Entries(t, c))
    BY <2>1, FS_RemoveElement
  <2> QED
    BY <1>4, <2>1, <2>2 DEF Counts
<1>7. Cardinality(rest) = Cardinality(Entries(u, c)) - Counts(b, w, c)
  <2>1. IsFiniteSet(Entries(u, c)) /\ Cardinality(Entries(u, c)) \in Nat
    BY EntriesCounted
  <2>2. Cardinality(Entries(u, c) \ {place}) =
          IF place \in Entries(u, c) THEN Cardinality(Entries(u, c)) - 1 ELSE Cardinality(Entries(u, c))
    BY <2>1, FS_RemoveElement
  <2> HIDE DEF rest, place
  <2>3. Cardinality(rest) = Cardinality(Entries(u, c) \ {place})
    BY <1>3
  <2> QED
    BY <1>5, <2>1, <2>2, <2>3 DEF Counts
<1>8. /\ Cardinality(Entries(t, c)) \in Nat /\ Cardinality(Entries(u, c)) \in Nat
      /\ Counts(b, t[b][s], c) \in Int /\ Counts(b, w, c) \in Int
  BY EntriesCounted DEF Counts
<1>9. Cardinality(Entries(u, c)) = Cardinality(Entries(t, c)) - Counts(b, t[b][s], c) + Counts(b, w, c)
  BY <1>6, <1>7, <1>8
<1> QED
  BY <1>1, <1>9 DEF u

\* The slot that insert_tag and delete_tag find.
LEMMA FirstSlotFound ==
  ASSUME NEW t, NEW b, NEW w
  PROVE  /\ Table!FirstWith(t, b, w) \subseteq TagIdx
         /\ Table!FirstWith(t, b, w) = {} <=> ~Table!Found(t, b, w)
         /\ \A s \in Table!FirstWith(t, b, w) : t[b][s] = w /\ Table!FirstWith(t, b, w) = {s}
<1> DEFINE With == {s \in TagIdx : t[b][s] = w}
<1>1. With \subseteq Nat
  BY FilterAssumption
<1>2. Table!FirstWith(t, b, w) = {s \in With : \A r \in With : s <= r}
  BY DEF Table!FirstWith
<1>3. Table!Found(t, b, w) <=> With # {}
  BY DEF Table!Found
<1>4. With # {} => \E s \in With : \A r \in With : s <= r
  <2> HIDE DEF With
  <2> QED
    BY <1>1, LeastElement
<1> QED
  BY <1>1, <1>2, <1>3, <1>4

(***************************************************************************)
(* The invariant of the filter, and the state of the bag that it stands    *)
(* for.                                                                    *)
(***************************************************************************)
Calls == [op : {"add", "remove"}, item : Item, idx : Bucket, tag : Word, i : Nat]

FilterInv ==
  /\ tags \in Tables
  /\ overflow \in [used : BOOLEAN, index : Bucket, tag : Word]
  /\ overflow.used => overflow.tag # Zero
  /\ num_items \in Int
  /\ call # NoCall => call \in Calls /\ call.tag # Zero /\ ~overflow.used

Parked(c) == IF overflow.used /\ ClassOf(overflow.index, overflow.tag) = c THEN 1 ELSE 0
Moving(c) == IF call # NoCall /\ ClassOf(call.idx, call.tag) = c THEN 1 ELSE 0
Owed(c) == IF CallOf("remove", c) THEN 1 ELSE 0
Early(c) == IF CallOf("add", c) THEN 1 ELSE 0
Stored(c) == Cardinality(Entries(tags, c))

BagOf == [c \in Class |-> Kept(c) + One(CallOf("remove", c)) - One(CallOf("add", c))]
SizeOf == num_items + One(CallIs("remove"))
FullOf == overflow.used \/ CallIs("remove")
BagStep == [Bag!Next]_<<BagOf, SizeOf, FullOf, answer>>

ItemClass(item) == ClassOf(IndexOf(item), TagOf(item))

LEMMA BagParts ==
  ASSUME NEW c \in Class
  PROVE  /\ BagOf[c] = Stored(c) + Parked(c) + Moving(c) + Owed(c) - Early(c)
         /\ Stored(c) \in Nat /\ Parked(c) \in {0, 1} /\ Moving(c) \in {0, 1}
         /\ Owed(c) \in {0, 1} /\ Early(c) \in {0, 1}
<1>1. Stored(c) = InTable(c)
  BY DEF Stored, InTable, Entries
<1>2. /\ Stored(c) \in Nat /\ Parked(c) \in {0, 1} /\ Moving(c) \in {0, 1}
      /\ Owed(c) \in {0, 1} /\ Early(c) \in {0, 1}
  BY EntriesCounted DEF Stored, Parked, Moving, Owed, Early
<1>3. One(CallOf("remove", c)) = Owed(c) /\ One(CallOf("add", c)) = Early(c)
  BY DEF One, Owed, Early
<1>4. Kept(c) = InTable(c) + Parked(c) + Moving(c)
  BY DEF Kept, One, Parked, Moving
<1> QED
  BY <1>1, <1>2, <1>3, <1>4 DEF BagOf

LEMMA BagPartsNext ==
  ASSUME NEW c \in Class
  PROVE  /\ BagOf'[c] = Stored(c)' + Parked(c)' + Moving(c)' + Owed(c)' - Early(c)'
         /\ Stored(c)' \in Nat /\ Parked(c)' \in {0, 1} /\ Moving(c)' \in {0, 1}
         /\ Owed(c)' \in {0, 1} /\ Early(c)' \in {0, 1}
<1>1. Stored(c)' = InTable(c)'
  BY DEF Stored, InTable, Entries
<1>2. /\ Stored(c)' \in Nat /\ Parked(c)' \in {0, 1} /\ Moving(c)' \in {0, 1}
      /\ Owed(c)' \in {0, 1} /\ Early(c)' \in {0, 1}
  BY EntriesCounted DEF Stored, Parked, Moving, Owed, Early
<1>3. One(CallOf("remove", c))' = Owed(c)' /\ One(CallOf("add", c))' = Early(c)'
  BY DEF One, Owed, Early
<1>4. Kept(c)' = InTable(c)' + Parked(c)' + Moving(c)'
  BY DEF Kept, One, Parked, Moving
<1> QED
  BY <1>1, <1>2, <1>3, <1>4 DEF BagOf

LEMMA NothingRuns ==
  ASSUME FilterInv, call = NoCall
  PROVE  /\ SizeOf = num_items /\ FullOf = overflow.used
         /\ \A c : Moving(c) = 0 /\ Owed(c) = 0 /\ Early(c) = 0
<1>1. num_items \in Int /\ overflow.used \in BOOLEAN
  BY DEF FilterInv
<1>2. ~CallIs("remove") /\ \A c : ~CallOf("remove", c) /\ ~CallOf("add", c)
  BY DEF CallIs, CallOf
<1> QED
  BY <1>1, <1>2 DEF SizeOf, FullOf, One, Moving, Owed, Early

\* The classes of the entries in an item's two buckets.
LEMMA StoredIffFound ==
  ASSUME NEW idx \in Bucket, NEW tag, tag # Zero
  PROVE  Stored(ClassOf(idx, tag)) > 0 <=>
           \E b \in {idx, get_alt_index(idx, tag)} : Table!Found(tags, b, tag)
<1> DEFINE c == ClassOf(idx, tag)
<1>1. Stored(c) > 0 <=> Entries(tags, c) # {}
  BY EntriesCounted DEF Stored
<1>2. ASSUME NEW b \in Bucket, NEW s \in TagIdx
      PROVE  <<b, s>> \in Entries(tags, c) <=>
               tags[b][s] = tag /\ b \in {idx, get_alt_index(idx, tag)}
  BY SameClass DEF Entries
<1>3. get_alt_index(idx, tag) \in Bucket
  BY AltOfAlt
<1>4. Entries(tags, c) # {} <=> \E b \in Bucket, s \in TagIdx : <<b, s>> \in Entries(tags, c)
  BY DEF Entries
<1> HIDE DEF c
<1> QED
  BY <1>1, <1>2, <1>3, <1>4 DEF Table!Found, c

LEMMA AnswerIsCount ==
  ASSUME FilterInv, call = NoCall, NEW item \in Item
  PROVE  /\ ItemClass(item) \in Class
         /\ BagOf[ItemClass(item)] > 0 <=>
              \/ InOverflow(item)
              \/ \E b \in {IndexOf(item), AltOf(item)} : Table!Found(tags, b, TagOf(item))
         /\ Parked(ItemClass(item)) = 1 <=> InOverflow(item)
         /\ Stored(ItemClass(item)) > 0 <=> BucketsWith(item) # {}
<1> DEFINE c == ItemClass(item)
<1>1. c \in Class
  BY DEF Class, ItemClass
<1>2. BagOf[c] = Stored(c) + Parked(c) /\ Stored(c) \in Nat /\ Parked(c) \in {0, 1}
  BY <1>1, BagParts, NothingRuns
<1>3. Parked(c) = 1 <=> InOverflow(item)
  <2>1. overflow.index \in Bucket
    BY DEF FilterInv
  <2> QED
    BY <2>1, ItemsHaveTags, SameClass DEF Parked, InOverflow, AltOf, ItemClass
<1>4. Stored(c) > 0 <=> \E b \in {IndexOf(item), AltOf(item)} : Table!Found(tags, b, TagOf(item))
  BY ItemsHaveTags, StoredIffFound DEF AltOf, ItemClass
<1> HIDE DEF c
<1> QED
  BY <1>1, <1>2, <1>3, <1>4 DEF BucketsWith, c

(***************************************************************************)
(* The steps of the filter are steps of the bag, or change nothing of it.  *)
(***************************************************************************)
BagKept == \A c \in Class : BagOf'[c] = BagOf[c]

LEMMA BagUnchanged ==
  ASSUME BagKept
  PROVE  BagOf' = BagOf
<1>1. BagOf = [c \in Class |-> BagOf[c]] /\ BagOf' = [c \in Class |-> BagOf'[c]]
  BY DEF BagOf
<1> QED
  BY <1>1 DEF BagKept

LEMMA Stutters ==
  ASSUME BagKept, SizeOf' = SizeOf, FullOf' = FullOf, answer' = answer
  PROVE  BagStep
BY BagUnchanged DEF BagStep

LEMMA BagChanged ==
  ASSUME NEW c \in Class, NEW n, BagOf'[c] = n, \A d \in Class \ {c} : BagOf'[d] = BagOf[d]
  PROVE  BagOf' = [BagOf EXCEPT ![c] = n]
<1>1. BagOf = [d \in Class |-> BagOf[d]] /\ BagOf' = [d \in Class |-> BagOf'[d]]
  BY DEF BagOf
<1> QED
  BY <1>1

LEMMA BagAdds ==
  ASSUME NEW c \in Class, BagOf'[c] = BagOf[c] + 1, \A d \in Class \ {c} : BagOf'[d] = BagOf[d],
         ~FullOf, answer' = TRUE, SizeOf' = SizeOf + 1, FullOf' \in BOOLEAN
  PROVE  BagStep
<1>1. BagOf' = [BagOf EXCEPT ![c] = BagOf[c] + 1]
  BY BagChanged
<1>2. Bag!Add(c)
  BY <1>1 DEF Bag!Add, BagOf, SizeOf, FullOf
<1> QED
  BY <1>2 DEF Bag!Next, BagStep

LEMMA BagRemoves ==
  ASSUME NEW c \in Class, BagOf'[c] = BagOf[c] - 1, \A d \in Class \ {c} : BagOf'[d] = BagOf[d],
         BagOf[c] > 0, answer' = TRUE, SizeOf' = SizeOf - 1, FullOf' \in {FALSE, FullOf}
  PROVE  BagStep
<1>1. BagOf' = [BagOf EXCEPT ![c] = BagOf[c] - 1]
  BY BagChanged
<1>2. Bag!Remove(c)
  BY <1>1 DEF Bag!Remove, BagOf, SizeOf, FullOf
<1> QED
  BY <1>2 DEF Bag!Next, BagStep

LEMMA BagAnswers ==
  ASSUME BagKept, SizeOf' = SizeOf, FullOf' = FullOf,
         \/ FullOf /\ answer' = FALSE
         \/ \E c \in Class : BagOf[c] = 0 /\ answer' = FALSE
         \/ \E c \in Class : answer' = (BagOf[c] > 0)
  PROVE  BagStep
<1>1. BagOf' = BagOf
  BY BagUnchanged
<1>2. CASE FullOf /\ answer' = FALSE
  <2>1. Bag!Refuse
    BY <1>1, <1>2 DEF Bag!Refuse, BagOf, SizeOf, FullOf
  <2> QED
    BY <2>1 DEF Bag!Next, BagStep
<1>3. ASSUME NEW c \in Class, BagOf[c] = 0, answer' = FALSE
      PROVE  BagStep
  <2>1. Bag!RemoveNone(c)
    BY <1>1, <1>3 DEF Bag!RemoveNone, BagOf, SizeOf, FullOf
  <2> QED
    BY <2>1 DEF Bag!Next, BagStep
<1>4. ASSUME NEW c \in Class, answer' = (BagOf[c] > 0)
      PROVE  BagStep
  <2>1. Bag!Contains(c)
    BY <1>1, <1>4 DEF Bag!Contains, BagOf, SizeOf, FullOf
  <2> QED
    BY <2>1 DEF Bag!Next, BagStep
<1> QED
  BY <1>2, <1>3, <1>4

LEMMA FilterInvInit ==
  ASSUME Init
  PROVE  FilterInv /\ Bag!Init
<1>1. tags \in Tables
  BY DEF Init, Tables, Word, Zero
<1>2. FilterInv
  <2>1. Zero \in Bucket /\ Zero \in Word
    BY DEF Zero, Bucket, Word
  <2> QED
    BY <1>1, <2>1 DEF Init, FilterInv
<1>3. ASSUME NEW c \in Class
      PROVE  BagOf[c] = 0
  <2>1. Entries(tags, c) = {}
    BY DEF Init, Entries
  <2>2. Stored(c) = 0
    BY <2>1, EntriesCounted DEF Stored
  <2>3. Parked(c) = 0 /\ Moving(c) = 0 /\ Owed(c) = 0 /\ Early(c) = 0
    BY NothingRuns, <1>2 DEF Init, Parked
  <2>4. BagOf[c] = Stored(c) + Parked(c) + Moving(c) + Owed(c) - Early(c)
    BY BagParts
  <2> QED
    BY <2>2, <2>3, <2>4
<1>4. BagOf = [c \in Class |-> 0]
  <2>1. BagOf = [c \in Class |-> BagOf[c]]
    BY DEF BagOf
  <2> QED
    BY <1>3, <2>1
<1>5. SizeOf = 0 /\ FullOf = FALSE /\ answer = FALSE
  BY NothingRuns, <1>2 DEF Init
<1> QED
  BY <1>2, <1>4, <1>5 DEF Bag!Init, BagOf, SizeOf, FullOf

\* A call of add begins: it counts when it returns.
LEMMA AddStep ==
  ASSUME FilterInv, NEW item \in Item, Add(item)
  PROVE  FilterInv' /\ BagStep
<1> DEFINE idx == IndexOf(item)
           tag == TagOf(item)
<1>1. /\ call = NoCall /\ ~overflow.used
      /\ call' = [op |-> "add", item |-> item, idx |-> idx, tag |-> tag, i |-> 0]
      /\ tags' = tags /\ overflow' = overflow /\ num_items' = num_items /\ answer' = answer
  BY DEF Add, Loop
<1>2. idx \in Bucket /\ tag \in Word /\ tag # Zero
  BY ItemsHaveTags
<1>3. call' \in Calls /\ call'.tag # Zero
  BY <1>1, <1>2 DEF Calls
<1>4. call' # NoCall
  BY <1>3, FilterAssumption DEF Calls, Bucket
<1>5. FilterInv'
  BY <1>1, <1>3 DEF FilterInv
<1>6. ASSUME NEW c \in Class
      PROVE  BagOf'[c] = BagOf[c]
  <2>1. Stored(c)' = Stored(c) /\ Parked(c)' = Parked(c)
    BY <1>1 DEF Stored, Parked
  <2>2. Moving(c) = 0 /\ Owed(c) = 0 /\ Early(c) = 0
    BY <1>1, NothingRuns
  <2>3. Owed(c)' = 0 /\ Early(c)' = Moving(c)'
    BY <1>1, <1>4 DEF Owed, Early, Moving, CallOf, CallIs
  <2> QED
    BY <2>1, <2>2, <2>3, BagParts, BagPartsNext
<1>7. SizeOf' = SizeOf /\ FullOf' = FullOf
  <2>1. ~CallIs("remove") /\ ~CallIs("remove")'
    BY <1>1 DEF CallIs
  <2> QED
    BY <1>1, <2>1 DEF SizeOf, FullOf, One
<1> QED
  BY <1>1, <1>5, <1>6, <1>7, Stutters DEF BagKept

\* A call returns: its tag has found a place.
LEMMA ReturnStep ==
  ASSUME FilterInv, call # NoCall, Return, tags' \in Tables,
         overflow' \in [used : BOOLEAN, index : Bucket, tag : Word],
         overflow'.used => overflow'.tag # Zero,
         \A c \in Class : Stored(c)' + Parked(c)' = Stored(c) + Parked(c) + Moving(c)
  PROVE  FilterInv' /\ BagStep
<1>1. /\ call \in Calls /\ ~overflow.used /\ call' = NoCall /\ answer' = TRUE
      /\ num_items' = IF call.op = "add" THEN num_items + 1 ELSE num_items
  BY DEF FilterInv, Return
<1>2. FilterInv'
  BY <1>1 DEF FilterInv
<1>3. call.item \in Item /\ call.op \in {"add", "remove"} /\ num_items \in Int
  BY <1>1 DEF Calls, FilterInv
<1> DEFINE c == ItemClass(call.item)
<1>4. c \in Class
  BY <1>3 DEF Class, ItemClass
<1>5. ASSUME NEW d \in Class
      PROVE  /\ BagOf'[d] = BagOf[d] - Owed(d) + Early(d)
             /\ Owed(d) = IF call.op = "remove" /\ d = c THEN 1 ELSE 0
             /\ Early(d) = IF call.op = "add" /\ d = c THEN 1 ELSE 0
             /\ BagOf[d] \in Int /\ BagOf[d] >= Owed(d) - Early(d)
  <2>1. Moving(d)' = 0 /\ Owed(d)' = 0 /\ Early(d)' = 0
    BY <1>1 DEF Moving, Owed, Early, CallOf, CallIs
  <2>2. Owed(d) = IF call.op = "remove" /\ d = c THEN 1 ELSE 0
    BY DEF Owed, CallOf, CallIs, ItemClass
  <2>3. Early(d) = IF call.op = "add" /\ d = c THEN 1 ELSE 0
    BY DEF Early, CallOf, CallIs, ItemClass
  <2>4. Stored(d)' + Parked(d)' = Stored(d) + Parked(d) + Moving(d)
    OBVIOUS
  <2>5. /\ BagOf[d] = Stored(d) + Parked(d) + Moving(d) + Owed(d) - Early(d)
        /\ BagOf'[d] = Stored(d)' + Parked(d)' + Moving(d)' + Owed(d)' - Early(d)'
        /\ Stored(d) \in Nat /\ Parked(d) \in {0, 1} /\ Moving(d) \in {0, 1}
        /\ Owed(d) \in {0, 1} /\ Early(d) \in {0, 1}
        /\ Stored(d)' \in Nat /\ Parked(d)' \in {0, 1}
    BY BagParts, BagPartsNext
  <2>6. BagOf'[d] = BagOf[d] - Owed(d) + Early(d) /\ BagOf[d] \in Int /\ BagOf[d] >= Owed(d) - Early(d)
    BY <2>1, <2>4, <2>5
  <2> QED
    BY <2>2, <2>3, <2>6
<1>6. overflow'.used \in BOOLEAN /\ overflow.used = FALSE
  BY <1>1 DEF FilterInv
<1>7. ~CallIs("remove")' /\ (CallIs("remove") <=> call.op = "remove")
  BY <1>1 DEF CallIs
<1>8. FullOf' \in BOOLEAN /\ SizeOf' = num_items'
  <2>1. num_items' \in Int
    BY <1>1, <1>3
  <2>2. SizeOf' = num_items'
    <3>1. One(CallIs("remove"))' = 0
      BY <1>7, Zenon DEF One
    <3> QED
      BY <2>1, <3>1 DEF SizeOf
  <2>3. FullOf' = overflow'.used
    BY <1>6, <1>7 DEF FullOf
  <2> QED
    BY <1>6, <2>2, <2>3
<1>9. CASE call.op = "add"
  <2>1. ~FullOf /\ SizeOf' = SizeOf + 1
    BY <1>1, <1>3, <1>6, <1>7, <1>8, <1>9 DEF FullOf, SizeOf, One
  <2>2. BagOf'[c] = BagOf[c] + 1 /\ \A d \in Class \ {c} : BagOf'[d] = BagOf[d]
    <3>1. \A d \in Class : /\ BagOf'[d] = BagOf[d] + (IF d = c THEN 1 ELSE 0)
                           /\ BagOf[d] \in Int
      BY <1>5, <1>9
    <3> QED
      BY <1>4, <3>1
  <2> HIDE DEF c
  <2> QED
    BY <1>1, <1>2, <1>4, <1>8, <2>1, <2>2, BagAdds
<1>10. CASE call.op = "remove"
  <2>1. FullOf = TRUE /\ SizeOf' = SizeOf - 1
    BY <1>1, <1>3, <1>6, <1>7, <1>8, <1>10 DEF FullOf, SizeOf, One
  <2>2. /\ BagOf'[c] = BagOf[c] - 1 /\ (\A d \in Class \ {c} : BagOf'[d] = BagOf[d])
        /\ BagOf[c] > 0
    <3>1. \A d \in Class : /\ BagOf'[d] = BagOf[d] - (IF d = c THEN 1 ELSE 0)
                           /\ BagOf[d] \in Int
                           /\ BagOf[d] >= (IF d = c THEN 1 ELSE 0)
      BY <1>5, <1>10
    <3> QED
      BY <1>4, <3>1
  <2>3. FullOf' \in {FALSE, FullOf}
    BY <1>8, <2>1
  <2> HIDE DEF c
  <2> QED
    BY <1>1, <1>2, <1>4, <2>1, <2>2, <2>3, BagRemoves
<1> QED
  BY <1>3, <1>9, <1>10

\* The loop goes on, with its tag in the other bucket or with the tag that
\* it has kicked out: nothing was lost.
LEMMA CarryOnStep ==
  ASSUME FilterInv, call # NoCall, NEW old \in Word, call' = CarryOn(old),
         call.i > 0 => old # Zero, tags' \in Tables,
         UNCHANGED <<num_items, answer, overflow>>,
         IF call.i > 0
         THEN \A c \in Class :
                Stored(c)' = Stored(c) - Counts(call.idx, old, c) + Counts(call.idx, call.tag, c)
         ELSE tags' = tags
  PROVE  FilterInv' /\ BagStep
<1> DEFINE tag == IF call.i > 0 THEN old ELSE call.tag
           idx == get_alt_index(call.idx, tag)
<1>1. call \in Calls /\ call.tag # Zero /\ ~overflow.used /\ call.idx \in Bucket /\ call.i \in Nat
      /\ call.tag \in Word
  BY DEF FilterInv, Calls
<1>2. call' = [call EXCEPT !.idx = idx, !.tag = tag, !.i = call.i + 1]
  BY DEF CarryOn
<1>3. idx \in Bucket /\ get_alt_index(idx, tag) = call.idx /\ tag \in Word /\ tag # Zero
  BY <1>1, AltOfAlt
<1> HIDE DEF idx, tag
<1>4. call' \in Calls /\ call'.idx = idx /\ call'.tag = tag /\ call'.op = call.op
      /\ call'.item = call.item
  <2>1. call = [op |-> call.op, item |-> call.item, idx |-> call.idx, tag |-> call.tag, i |-> call.i]
        /\ call.op \in {"add", "remove"} /\ call.item \in Item
    BY <1>1 DEF Calls
  <2>2. call' = [op |-> call.op, item |-> call.item, idx |-> idx, tag |-> tag, i |-> call.i + 1]
    BY <1>2, <2>1
  <2> QED
    BY <1>1, <1>3, <2>1, <2>2 DEF Calls
<1>5. call' # NoCall
  BY <1>4, FilterAssumption DEF Calls, Bucket
<1>6. FilterInv'
  BY <1>1, <1>3, <1>4 DEF FilterInv
<1>7. ASSUME NEW c \in Class
      PROVE  BagOf'[c] = BagOf[c]
  <2>1. Parked(c)' = Parked(c) /\ Owed(c)' = Owed(c) /\ Early(c)' = Early(c)
    BY <1>4, <1>5 DEF Parked, Owed, Early, CallOf, CallIs
  <2>2. ClassOf(idx, tag) = ClassOf(call.idx, tag)
    BY <1>1, <1>3, SameClass
  <2>3. Moving(c)' = Counts(call.idx, tag, c) /\ Moving(c) = Counts(call.idx, call.tag, c)
    BY <1>1, <1>3, <1>4, <1>5, <2>2 DEF Moving, Counts
  <2>4. CASE call.i > 0
    <3>1. tag = old
      BY <2>4 DEF tag
    <3>2. Stored(c)' = Stored(c) - Counts(call.idx, old, c) + Counts(call.idx, call.tag, c)
      BY <2>4
    <3> QED
      BY <2>1, <2>3, <3>1, <3>2, BagParts, BagPartsNext
  <2>5. CASE ~(call.i > 0)
    <3>1. tag = call.tag /\ Stored(c)' = Stored(c)
      BY <2>5 DEF tag, Stored
    <3> QED
      BY <2>1, <2>3, <3>1, BagParts, BagPartsNext
  <2> QED
    BY <2>4, <2>5
<1>8. SizeOf' = SizeOf /\ FullOf' = FullOf
  BY <1>4, <1>5 DEF SizeOf, FullOf, CallIs
<1> QED
  BY <1>6, <1>7, <1>8, Stutters DEF BagKept

LEMMA InsertStepStep ==
  ASSUME FilterInv, InsertStep
  PROVE  FilterInv' /\ BagStep
<1> DEFINE idx == call.idx
           tag == call.tag
<1>1. /\ call # NoCall /\ call \in Calls /\ overflow' = overflow /\ tags \in Tables
      /\ idx \in Bucket /\ tag \in Word /\ tag # Zero /\ call.i \in Nat /\ Zero \in Word
      /\ ~overflow.used
  BY DEF InsertStep, FilterInv, Calls, Word, Zero
<1>2. PICK o \in Table!Insertions(tags, idx, tag, call.i > 0) :
        /\ tags' = o.tags
        /\ IF o.ok THEN Return ELSE call' = CarryOn(o.old) /\ UNCHANGED <<num_items, answer>>
  BY DEF InsertStep
<1> DEFINE Free == Table!FirstWith(tags, idx, Zero)
<1>3. overflow' \in [used : BOOLEAN, index : Bucket, tag : Word] /\ (overflow'.used => overflow'.tag # Zero)
  BY <1>1 DEF FilterInv
<1> HIDE DEF idx, tag
<1>4. CASE Free # {}
  <2>1. PICK s \in Free :
          o = [tags |-> Table!Written(tags, idx, s, tag), ok |-> TRUE, old |-> Zero]
    BY <1>2, <1>4 DEF Table!Insertions
  <2>2. s \in TagIdx /\ tags[idx][s] = Zero
    BY <2>1, FirstSlotFound
  <2>3. tags' = [tags EXCEPT ![idx][s] = tag] /\ Return
    BY <1>2, <2>1 DEF Table!Written
  <2>4. tags' \in Tables
    BY <1>1, <2>2, <2>3, EntryChanged
  <2>5. ASSUME NEW c \in Class
        PROVE  Stored(c)' + Parked(c)' = Stored(c) + Parked(c) + Moving(c)
    <3>1. Stored(c)' = Stored(c) - Counts(idx, Zero, c) + Counts(idx, tag, c)
      <4>1. Cardinality(Entries([tags EXCEPT ![idx][s] = tag], c)) =
              Cardinality(Entries(tags, c)) - Counts(idx, tags[idx][s], c) + Counts(idx, tag, c)
        BY <1>1, <2>2, EntryChanged
      <4> QED
        BY <2>2, <2>3, <4>1 DEF Stored
    <3>2. Counts(idx, Zero, c) = 0 /\ Counts(idx, tag, c) = Moving(c)
      BY <1>1 DEF Counts, Moving, idx, tag
    <3>3. Parked(c)' = Parked(c)
      BY <1>1 DEF Parked
    <3> QED
      BY <3>1, <3>2, <3>3, BagParts
  <2> QED
    BY <1>1, <1>3, <2>3, <2>4, <2>5, ReturnStep
<1>5. CASE Free = {} /\ call.i > 0
  <2>1. PICK s \in TagIdx :
          o = [tags |-> Table!Written(tags, idx, s, tag), ok |-> FALSE, old |-> tags[idx][s]]
    BY <1>2, <1>5 DEF Table!Insertions
  <2>2. tags[idx][s] \in Word /\ tags[idx][s] # Zero
    <3>1. tags[idx][s] # Zero
      BY <1>5, FirstSlotFound DEF Table!Found
    <3> QED
      BY <1>1, <3>1 DEF Tables
  <2>3. tags' = [tags EXCEPT ![idx][s] = tag] /\ call' = CarryOn(tags[idx][s]) /\ UNCHANGED <<num_items, answer>>
    BY <1>2, <2>1 DEF Table!Written
  <2>4. tags' \in Tables
    BY <1>1, <2>3, EntryChanged
  <2>5. ASSUME NEW c \in Class
        PROVE  Stored(c)' = Stored(c) - Counts(idx, tags[idx][s], c) + Counts(idx, tag, c)
    BY <1>1, <2>3, EntryChanged DEF Stored
  <2>6. ASSUME NEW old, old = tags[idx][s]
        PROVE  FilterInv' /\ BagStep
    <3>1. old \in Word /\ old # Zero /\ call' = CarryOn(old)
      BY <2>2, <2>3, <2>6
    <3>2. \A c \in Class :
            Stored(c)' = Stored(c) - Counts(call.idx, old, c) + Counts(call.idx, call.tag, c)
      BY <2>5, <2>6 DEF idx, tag
    <3> QED
      BY <1>1, <1>5, <2>3, <2>4, <3>1, <3>2, CarryOnStep
  <2> QED
    BY <2>6
<1>6. CASE Free = {} /\ ~(call.i > 0)
  <2>1. o = [tags |-> tags, ok |-> FALSE, old |-> Zero]
    BY <1>2, <1>6 DEF Table!Insertions
  <2>2. tags' = tags /\ call' = CarryOn(Zero) /\ UNCHANGED <<num_items, answer>>
    BY <1>2, <2>1
  <2> QED
    BY <1>1, <1>6, <2>2, CarryOnStep
<1> QED
  BY <1>4, <1>5, <1>6

LEMMA OverflowStep ==
  ASSUME FilterInv, Overflow
  PROVE  FilterInv' /\ BagStep
<1>1. /\ call # NoCall /\ call \in Calls /\ call.tag # Zero /\ ~overflow.used /\ tags' = tags
      /\ overflow' = [used |-> TRUE, index |-> call.idx, tag |-> call.tag] /\ Return
      /\ tags \in Tables
  BY DEF Overflow, FilterInv
<1>2. overflow' \in [used : BOOLEAN, index : Bucket, tag : Word] /\ overflow'.tag # Zero
  BY <1>1 DEF Calls
<1>3. ASSUME NEW c \in Class
      PROVE  Stored(c)' + Parked(c)' = Stored(c) + Parked(c) + Moving(c)
  <2>1. Stored(c)' = Stored(c) /\ Parked(c) = 0 /\ Parked(c)' = Moving(c)
    BY <1>1 DEF Stored, Parked, Moving
  <2> QED
    BY <2>1, BagParts
<1> QED
  BY <1>1, <1>2, <1>3, ReturnStep

\* A removal from the table: when there was a tag in overflow, the call goes
\* on to place it, and the removal counts when it returns.
LEMMA RemoveFromTableStep ==
  ASSUME FilterInv, NEW item \in Item, RemoveFromTable(item)
  PROVE  FilterInv' /\ BagStep
<1> DEFINE c == ItemClass(item)
           b == FromBucket(item)
           tag == TagOf(item)
<1>1. /\ call = NoCall /\ tags \in Tables /\ num_items \in Int /\ num_items' = num_items - 1
      /\ tags' = Table!Deleted(tags, b, tag) /\ try_eliminate_overflow(item)
      /\ overflow \in [used : BOOLEAN, index : Bucket, tag : Word]
      /\ (overflow.used => overflow.tag # Zero)
      /\ BucketsWith(item) # {} /\ Zero \in Word
  BY DEF RemoveFromTable, FilterInv, Zero, Word
<1>2. tag \in Word /\ tag # Zero /\ IndexOf(item) \in Bucket /\ AltOf(item) \in Bucket
  BY ItemsHaveTags
<1>3. b \in {IndexOf(item), AltOf(item)} /\ Table!Found(tags, b, tag)
  BY <1>1 DEF FromBucket, BucketsWith
<1>4. PICK s \in TagIdx : Table!FirstWith(tags, b, tag) = {s} /\ tags[b][s] = tag
  BY <1>3, FirstSlotFound
<1>5. c \in Class /\ ClassOf(b, tag) = c
  BY <1>2, <1>3, SameClass DEF Class, ItemClass, AltOf
<1> HIDE DEF c, b, tag
<1>6. b \in Bucket
  BY <1>2, <1>3
<1>7. tags' = [tags EXCEPT ![b][s] = Zero]
  <2>1. tags' = [d \in Bucket |-> [r \in TagIdx |-> IF d = b /\ r \in {s} THEN Zero ELSE tags[d][r]]]
    BY <1>1, <1>4 DEF Table!Deleted
  <2>2. \A d \in Bucket : tags'[d] = [r \in TagIdx |-> IF d = b /\ r \in {s} THEN Zero ELSE tags[d][r]]
    BY <2>1
  <2>3. \A d \in Bucket : tags[d] \in [TagIdx -> Word]
    BY <1>1 DEF Tables
  <2>4. tags = [d \in Bucket |-> tags[d]]
    BY <1>1 DEF Tables
  <2>5. tags'[b] = [tags[b] EXCEPT ![s] = Zero]
    BY <1>6, <2>2, <2>3
  <2>6. \A d \in Bucket : d # b => tags'[d] = tags[d]
    <3> SUFFICES ASSUME NEW d \in Bucket, d # b PROVE tags'[d] = tags[d]
      OBVIOUS
    <3>1. tags'[d] = [r \in TagIdx |-> tags[d][r]]
      BY <2>2
    <3> QED
      BY <2>3, <3>1
  <2>7. [tags EXCEPT ![b][s] = Zero] = [d \in Bucket |-> IF d = b THEN [tags[b] EXCEPT ![s] = Zero] ELSE tags[d]]
    BY <2>4
  <2>8. tags' = [d \in Bucket |-> tags'[d]]
    BY <2>1
  <2> QED
    BY <2>5, <2>6, <2>7, <2>8
<1>8. tags' \in Tables
  <2>1. [tags EXCEPT ![b][s] = Zero] \in Tables
    BY <1>1, <1>4, <1>6, EntryChanged
  <2> QED
    BY <1>7, <2>1
<1>9. ASSUME NEW d \in Class
      PROVE  Stored(d)' = Stored(d) - (IF d = c THEN 1 ELSE 0)
  <2>1. Cardinality(Entries([tags EXCEPT ![b][s] = Zero], d)) =
          Cardinality(Entries(tags, d)) - Counts(b, tags[b][s], d) + Counts(b, Zero, d)
    BY <1>1, <1>4, <1>6, EntryChanged
  <2>2. Counts(b, Zero, d) = 0 /\ Counts(b, tags[b][s], d) = IF d = c THEN 1 ELSE 0
    BY <1>2, <1>4, <1>5 DEF Counts
  <2>3. Cardinality(Entries(tags, d)) \in Nat
    BY EntriesCounted
  <2> QED
    BY <1>7, <2>1, <2>2, <2>3 DEF Stored
<1>10. ASSUME NEW d \in Class
       PROVE  BagOf[d] = Stored(d) + Parked(d) /\ Stored(d) \in Nat /\ Parked(d) \in {0, 1}
  <2>1. /\ BagOf[d] = Stored(d) + Parked(d) + Moving(d) + Owed(d) - Early(d)
        /\ Stored(d) \in Nat /\ Parked(d) \in {0, 1}
    BY BagParts
  <2>2. Moving(d) = 0 /\ Owed(d) = 0 /\ Early(d) = 0
    BY <1>1, NothingRuns
  <2> QED
    BY <2>1, <2>2
<1>11. SizeOf = num_items /\ FullOf = overflow.used
  BY <1>1, NothingRuns
<1>12. CASE ~overflow.used
  <2>1. answer' = TRUE /\ UNCHANGED <<overflow, call>>
    BY <1>1, <1>12 DEF try_eliminate_overflow
  <2>2. FilterInv'
    BY <1>1, <1>8, <2>1 DEF FilterInv
  <2>3. ASSUME NEW d \in Class
        PROVE  BagOf'[d] = BagOf[d] - (IF d = c THEN 1 ELSE 0)
    <3>1. Parked(d)' = 0 /\ Moving(d)' = 0 /\ Owed(d)' = 0 /\ Early(d)' = 0 /\ Parked(d) = 0
      BY <1>1, <1>12, <2>1 DEF Parked, Moving, Owed, Early, CallOf, CallIs
    <3>2. BagOf'[d] = Stored(d)' + Parked(d)' + Moving(d)' + Owed(d)' - Early(d)' /\ Stored(d)' \in Nat
      BY BagPartsNext
    <3> QED
      BY <1>9, <1>10, <3>1, <3>2
  <2>4. BagOf'[c] = BagOf[c] - 1 /\ \A d \in Class \ {c} : BagOf'[d] = BagOf[d]
    <3>1. \A d \in Class : BagOf[d] \in Int
      BY <1>10
    <3> QED
      BY <1>5, <2>3, <3>1
  <2>5. BagOf[c] > 0
    <3>1. Stored(c)' \in Nat
      BY <1>5, BagPartsNext
    <3> QED
      BY <1>5, <1>9, <1>10, <3>1
  <2>6. SizeOf' = num_items' /\ FullOf' = FALSE
    <3>1. ~CallIs("remove")' /\ overflow'.used = FALSE
      BY <1>1, <1>12, <2>1 DEF CallIs
    <3>2. One(CallIs("remove"))' = 0
      BY <3>1, Zenon DEF One
    <3> QED
      BY <1>1, <3>1, <3>2 DEF SizeOf, FullOf
  <2> QED
    BY <1>1, <1>5, <1>11, <2>1, <2>2, <2>4, <2>5, <2>6, BagRemoves
<1>13. CASE overflow.used
  <2>1. /\ overflow' = [overflow EXCEPT !.used = FALSE] /\ answer' = answer
        /\ call' = [op |-> "remove", item |-> item, idx |-> overflow.index, tag |-> overflow.tag, i |-> 0]
    BY <1>1, <1>13 DEF try_eliminate_overflow, Loop
  <2>2. call' \in Calls /\ call'.tag # Zero /\ call'.op = "remove" /\ call'.item = item
        /\ call'.idx = overflow.index /\ call'.tag = overflow.tag
    BY <1>1, <1>13, <2>1 DEF Calls
  <2>3. call' # NoCall
    BY <2>2, FilterAssumption DEF Calls, Bucket
  <2>4. overflow' \in [used : BOOLEAN, index : Bucket, tag : Word] /\ ~overflow'.used
    BY <1>1, <2>1
  <2>5. FilterInv'
    BY <1>1, <1>8, <2>2, <2>4 DEF FilterInv
  <2>6. ASSUME NEW d \in Class
        PROVE  BagOf'[d] = BagOf[d]
    <3>1. Parked(d)' = 0 /\ Moving(d)' = Parked(d) /\ Early(d)' = 0
          /\ Owed(d)' = IF d = c THEN 1 ELSE 0
      BY <1>13, <2>2, <2>3, <2>4 DEF Parked, Moving, Owed, Early, CallOf, CallIs, ItemClass, c
    <3>2. BagOf'[d] = Stored(d)' + Parked(d)' + Moving(d)' + Owed(d)' - Early(d)' /\ Stored(d)' \in Nat
      BY BagPartsNext
    <3> QED
      BY <1>9, <1>10, <3>1, <3>2
  <2>7. SizeOf' = SizeOf /\ FullOf' = FullOf
    <3>1. CallIs("remove")' /\ overflow.used = TRUE
      BY <1>1, <1>13, <2>2, <2>3 DEF CallIs
    <3>2. One(CallIs("remove"))' = 1
      BY <3>1, Zenon DEF One
    <3>3. SizeOf' = num_items' + 1
      BY <3>2 DEF SizeOf
    <3>4. FullOf' = TRUE
      BY <3>1 DEF FullOf
    <3>5. num_items' + 1 = num_items
      BY <1>1
    <3>6. SizeOf' = SizeOf
      BY <1>11, <3>3, <3>5
    <3>7. FullOf' = FullOf
      BY <1>11, <3>1, <3>4
    <3> QED
      BY <3>6, <3>7
  <2> QED
    BY <2>1, <2>5, <2>6, <2>7, Stutters DEF BagKept
<1> QED
  BY <1>12, <1>13

LEMMA RemoveFromOverflowStep ==
  ASSUME FilterInv, NEW item \in Item, RemoveFromOverflow(item)
  PROVE  FilterInv' /\ BagStep
<1> DEFINE c == ItemClass(item)
<1>1. /\ call = NoCall /\ call' = call /\ tags' = tags /\ InOverflow(item) /\ num_items' = num_items - 1
      /\ overflow' = [overflow EXCEPT !.used = FALSE] /\ answer' = TRUE /\ num_items \in Int
      /\ overflow \in [used : BOOLEAN, index : Bucket, tag : Word] /\ overflow.used
  BY DEF RemoveFromOverflow, FilterInv, InOverflow
<1>2. overflow' \in [used : BOOLEAN, index : Bucket, tag : Word] /\ overflow'.used = FALSE
  BY <1>1
<1>3. FilterInv'
  BY <1>1, <1>2 DEF FilterInv
<1>4. c \in Class /\ Parked(c) = 1
  BY <1>1, AnswerIsCount
<1>5. ClassOf(overflow.index, overflow.tag) = c
  BY <1>4 DEF Parked
<1> HIDE DEF c
<1>6. ASSUME NEW d \in Class
      PROVE  BagOf'[d] = BagOf[d] - (IF d = c THEN 1 ELSE 0) /\ BagOf[d] \in Nat
             /\ BagOf[d] >= (IF d = c THEN 1 ELSE 0)
  <2>1. /\ BagOf[d] = Stored(d) + Parked(d) + Moving(d) + Owed(d) - Early(d)
        /\ BagOf'[d] = Stored(d)' + Parked(d)' + Moving(d)' + Owed(d)' - Early(d)'
        /\ Stored(d) \in Nat
    BY BagParts, BagPartsNext
  <2>2. Moving(d) = 0 /\ Owed(d) = 0 /\ Early(d) = 0
    BY <1>1, NothingRuns
  <2>3. Moving(d)' = 0 /\ Owed(d)' = 0 /\ Early(d)' = 0 /\ Stored(d)' = Stored(d)
    BY <1>1 DEF Moving, Owed, Early, CallOf, CallIs, Stored
  <2>4. Parked(d)' = 0 /\ Parked(d) = IF d = c THEN 1 ELSE 0
    BY <1>1, <1>2, <1>5 DEF Parked
  <2> QED
    BY <2>1, <2>2, <2>3, <2>4
<1>7. BagOf'[c] = BagOf[c] - 1 /\ BagOf[c] > 0 /\ \A d \in Class \ {c} : BagOf'[d] = BagOf[d]
  BY <1>4, <1>6
<1>8. SizeOf = num_items /\ SizeOf' = num_items' /\ FullOf' = FALSE
  <2>1. ~CallIs("remove")'
    BY <1>1 DEF CallIs
  <2>2. One(CallIs("remove"))' = 0
    BY <2>1, Zenon DEF One
  <2>3. SizeOf' = num_items' /\ FullOf' = FALSE
    BY <1>1, <1>2, <2>1, <2>2 DEF SizeOf, FullOf
  <2> QED
    BY <1>1, <2>3, NothingRuns
<1> QED
  BY <1>1, <1>3, <1>4, <1>7, <1>8, BagRemoves

\* The calls that change nothing answer as the bag does.
LEMMA AnswerStep ==
  ASSUME FilterInv, call = NoCall, UNCHANGED <<tags, overflow, num_items, call>>,
         \/ AddRefused
         \/ \E item \in Item : Contains(item) \/ RemoveNone(item)
  PROVE  FilterInv' /\ BagStep
<1>1. FilterInv'
  BY DEF FilterInv
<1>2. BagKept /\ SizeOf' = SizeOf /\ FullOf' = FullOf
  BY DEF BagKept, BagOf, SizeOf, FullOf, Kept, InTable, CallOf, CallIs
<1>3. CASE AddRefused
  <2>1. FullOf /\ answer' = FALSE
    BY <1>3 DEF AddRefused, FullOf
  <2> QED
    BY <1>1, <1>2, <2>1, BagAnswers
<1>4. ASSUME NEW item \in Item, Contains(item)
      PROVE  BagStep
  <2>1. answer' = (BagOf[ItemClass(item)] > 0) /\ ItemClass(item) \in Class
    BY <1>4, AnswerIsCount DEF Contains
  <2> QED
    BY <1>2, <2>1, BagAnswers
<1>5. ASSUME NEW item \in Item, RemoveNone(item)
      PROVE  BagStep
  <2>1. ~InOverflow(item) /\ BucketsWith(item) = {} /\ answer' = FALSE
    BY <1>5 DEF RemoveNone
  <2>2. ItemClass(item) \in Class /\ ~(Parked(ItemClass(item)) = 1) /\ ~(Stored(ItemClass(item)) > 0)
    BY <2>1, AnswerIsCount
  <2>3. BagOf[ItemClass(item)] = 0
    <3>1. /\ BagOf[ItemClass(item)] = Stored(ItemClass(item)) + Parked(ItemClass(item))
               + Moving(ItemClass(item)) + Owed(ItemClass(item)) - Early(ItemClass(item))
          /\ Stored(ItemClass(item)) \in Nat /\ Parked(ItemClass(item)) \in {0, 1}
      BY <2>2, BagParts
    <3>2. /\ Moving(ItemClass(item)) = 0 /\ Owed(ItemClass(item)) = 0
          /\ Early(ItemClass(item)) = 0
      BY NothingRuns
    <3> QED
      BY <2>2, <3>1, <3>2
  <2> QED
    BY <1>2, <2>1, <2>2, <2>3, BagAnswers
<1> QED
  BY <1>1, <1>3, <1>4, <1>5

LEMMA ReloadStep ==
  ASSUME FilterInv, Reload
  PROVE  FilterInv' /\ BagStep
<1>1. overflow = [used |-> overflow.used, index |-> overflow.index, tag |-> overflow.tag]
  BY DEF FilterInv
<1>2. UNCHANGED <<tags, overflow, num_items, call, answer>>
  BY <1>1 DEF Reload, Saved
<1>3. FilterInv'
  BY <1>2 DEF FilterInv
<1>4. BagKept /\ SizeOf' = SizeOf /\ FullOf' = FullOf
  BY <1>2 DEF BagKept, BagOf, SizeOf, FullOf, Kept, InTable, CallOf, CallIs
<1> QED
  BY <1>2, <1>3, <1>4, Stutters

LEMMA FilterStep ==
  ASSUME FilterInv, [Next]_vars
  PROVE  FilterInv' /\ BagStep
<1>1. CASE UNCHANGED vars
  <2>1. UNCHANGED <<tags, overflow, num_items, call, answer>>
    BY <1>1 DEF vars
  <2>2. FilterInv'
    BY <2>1 DEF FilterInv
  <2>3. BagKept /\ SizeOf' = SizeOf /\ FullOf' = FullOf
    BY <2>1 DEF BagKept, BagOf, SizeOf, FullOf, Kept, InTable, CallOf, CallIs
  <2> QED
    BY <2>1, <2>2, <2>3, Stutters
<1>2. CASE AddRefused
  BY <1>2, AnswerStep DEF AddRefused
<1>3. ASSUME NEW item \in Item, Contains(item)
      PROVE  FilterInv' /\ BagStep
  BY <1>3, AnswerStep DEF Contains
<1>4. ASSUME NEW item \in Item, RemoveNone(item)
      PROVE  FilterInv' /\ BagStep
  BY <1>4, AnswerStep DEF RemoveNone
<1> QED
  BY <1>1, <1>2, <1>3, <1>4, AddStep, InsertStepStep, OverflowStep, RemoveFromTableStep,
     RemoveFromOverflowStep, ReloadStep DEF Next

(***************************************************************************)
(* Whatever the hash functions do to the items, however tags are moved,    *)
(* parked in overflow, tried again, saved and loaded: the answers of the   *)
(* filter and its count are those of a bag of the items' classes, and      *)
(* nothing that was added is lost before it is removed (cuckoo_filter.cpp).*)
(***************************************************************************)
THEOREM FilterIsBag == Spec => ImplementsItemBag
<1>1. Init => FilterInv /\ Bag!Init
  BY FilterInvInit
<1>2. FilterInv /\ [Next]_vars => FilterInv' /\ BagStep
  BY FilterStep
<1>3. BagStep => [Bag!Next]_<<BagOf, SizeOf, FullOf, answer>>
  BY DEF BagStep
<1> QED
  BY <1>1, <1>2, <1>3, PTL DEF Spec, ImplementsItemBag, Bag!Spec, BagOf, SizeOf, FullOf

----------------------------------------------------------------------------
(***************************************************************************)
(* The packed table.  Positions in the table are counted in bits, from the *)
(* first bit of the first word.                                            *)
(***************************************************************************)
W == WordBits
Place(b, s) == Packed!TagIndexInfo(b, s)

\* A product of natural numbers grows with its factors.
LEMMA Products ==
  ASSUME NEW x \in Nat, NEW y \in Nat, NEW z \in Nat, x <= y
  PROVE  x * z \in Nat /\ x * z <= y * z /\ (x + 1) * z = x * z + z
OBVIOUS

\* The tags lie one after the other, the whole of them in the table.
LEMMA InTheTable ==
  ASSUME NEW b \in Packed!Bucket, NEW s \in Packed!Slot
  PROVE  /\ Packed!StartBit(b, s) \in Nat
         /\ Packed!StartBit(b, s) = (b * TagsPerBucket + s) * TableBits
         /\ Packed!StartBit(b, s) + TableBits <= TagsPerBucket * TableBits * Packed!num_buckets
<1>1. /\ b \in Nat /\ s \in Nat /\ b + 1 <= Packed!num_buckets /\ s + 1 <= TagsPerBucket
      /\ TagsPerBucket \in Nat /\ TableBits \in Nat /\ Packed!num_buckets \in Nat
  BY TableAssumption, WordBitsAssumption DEF Packed!Bucket, Packed!Slot
<1> DEFINE N == b * TagsPerBucket + s
<1>2. N \in Nat /\ N + 1 <= (b + 1) * TagsPerBucket /\ (b + 1) * TagsPerBucket \in Nat
  BY <1>1, Products
<1>3. (b + 1) * TagsPerBucket <= Packed!num_buckets * TagsPerBucket
      /\ Packed!num_buckets * TagsPerBucket \in Nat
  BY <1>1, Products
<1>4. N * TableBits = b * TableBits * TagsPerBucket + s * TableBits
  BY <1>1
<1>5. Packed!num_buckets * TagsPerBucket * TableBits = TagsPerBucket * TableBits * Packed!num_buckets
  BY <1>1
<1> HIDE DEF N
<1>6. N + 1 <= Packed!num_buckets * TagsPerBucket
  BY <1>1, <1>2, <1>3
<1>7. /\ N * TableBits \in Nat /\ (N + 1) * TableBits = N * TableBits + TableBits
      /\ (N + 1) * TableBits <= (Packed!num_buckets * TagsPerBucket) * TableBits
  BY <1>1, <1>2, <1>3, <1>6, Products
<1>8. Packed!StartBit(b, s) = N * TableBits
  BY <1>4 DEF Packed!StartBit
<1> QED
  BY <1>5, <1>7, <1>8 DEF N

\* Quotient and remainder.
LEMMA Division ==
  ASSUME NEW x \in Nat, NEW d \in Nat \ {0}
  PROVE  x \div d \in Nat /\ x % d \in 0 .. d - 1 /\ x = (x \div d) * d + (x % d)
OBVIOUS

\* What TagIndexInfo computes.
LEMMA Places ==
  ASSUME NEW b \in Packed!Bucket, NEW s \in Packed!Slot
  PROVE  /\ Place(b, s).word \in 0 .. Packed!num_words - 1
         /\ Place(b, s).offset \in 0 .. W - 1
         /\ Place(b, s).word * W + Place(b, s).offset = Packed!StartBit(b, s)
         /\ Place(b, s).first \in 1 .. TableBits
         /\ Place(b, s).second = TableBits - Place(b, s).first
         /\ Place(b, s).offset + Place(b, s).first <= W
         /\ Place(b, s).second # 0 =>
              /\ Place(b, s).offset + Place(b, s).first = W
              /\ Place(b, s).word + 1 \in 0 .. Packed!num_words - 1
<1> DEFINE p == Packed!StartBit(b, s)
           offset == p % W
           word == p \div W
           first == IF offset > W - TableBits THEN W - offset ELSE TableBits
           size == TagsPerBucket * TableBits * Packed!num_buckets
<1>1. Place(b, s) = [word |-> word, offset |-> offset, first |-> first, second |-> TableBits - first]
  BY DEF Place, Packed!TagIndexInfo, W
<1>2. W \in Nat \ {0, 1} /\ TableBits \in 1 .. W - 1
  BY TableAssumption, WordBitsAssumption DEF W
<1>3. p \in Nat /\ p + TableBits <= size /\ size \in Nat
  BY InTheTable, TableAssumption, <1>2
<1>4. word \in Nat /\ offset \in 0 .. W - 1 /\ p = word * W + offset
  BY <1>2, <1>3, Division
<1>5. Packed!num_words \in Nat /\ size <= Packed!num_words * W
  <2> DEFINE n == size + W - 1
  <2>1. n \in Nat /\ Packed!num_words = n \div W
    BY <1>2, <1>3 DEF Packed!num_words, W
  <2> HIDE DEF n
  <2>2. n \div W \in Nat /\ n % W \in 0 .. W - 1 /\ n = (n \div W) * W + (n % W)
    BY <1>2, <2>1, Division
  <2>3. (n \div W) * W \in Nat
    BY <1>2, <2>2, Products
  <2>4. n = size + W - 1
    BY DEF n
  <2> HIDE DEF size
  <2> QED
    BY <1>2, <1>3, <2>1, <2>2, <2>3, <2>4
<1> HIDE DEF size, p, word, offset
<1>6. first \in 1 .. TableBits /\ offset + first <= W /\ (TableBits - first # 0 => offset + first = W)
  BY <1>2, <1>4
<1>7. ASSUME NEW v \in Nat, v * W < size
      PROVE  v \in 0 .. Packed!num_words - 1
  <2>1. CASE Packed!num_words <= v
    <3>1. Packed!num_words * W <= v * W /\ v * W \in Nat /\ Packed!num_words * W \in Nat
      BY <1>2, <1>5, <2>1, Products
    <3> QED
      BY <1>3, <1>5, <1>7, <3>1
  <2> QED
    BY <1>5, <2>1
<1>8. word * W \in Nat /\ (word + 1) * W = word * W + W
  BY <1>2, <1>4, Products
<1>9. word \in 0 .. Packed!num_words - 1
  BY <1>2, <1>3, <1>4, <1>7, <1>8
<1>10. TableBits - first # 0 => word + 1 \in 0 .. Packed!num_words - 1
  <2> SUFFICES ASSUME TableBits - first # 0 PROVE word + 1 \in 0 .. Packed!num_words - 1
    OBVIOUS
  <2>1. offset + first = W /\ first < TableBits
    BY <1>2, <1>6
  <2>2. (word + 1) * W < size
    BY <1>2, <1>3, <1>4, <1>6, <1>8, <2>1
  <2> QED
    BY <1>4, <1>7, <2>2
<1> QED
  BY <1>1, <1>4, <1>6, <1>9, <1>10 DEF p

----------------------------------------------------------------------------
(***************************************************************************)
(* Reading and writing, bit by bit.                                        *)
(***************************************************************************)
IsTable(t) == t \in [0 .. Packed!num_words - 1 -> Word]

TagBits == 0 .. TableBits - 1

\* Bit i of a tag is in the first word or, after its end, in the second.
BitOf(t, at, i) == IF i < at.first THEN at.offset + i \in t[at.word] ELSE i - at.first \in t[at.word + 1]

LEMMA ReadBits ==
  ASSUME NEW t, IsTable(t), NEW b \in Packed!Bucket, NEW s \in Packed!Slot
  PROVE  Packed!read_tag(t, b, s) = {i \in 0 .. TableBits - 1 : BitOf(t, Place(b, s), i)}
<1> DEFINE at == Place(b, s)
           low == ShiftR(t[at.word], at.offset) \cap LowBits(at.first)
<1>1. /\ at.word \in 0 .. Packed!num_words - 1 /\ at.offset \in 0 .. W - 1
      /\ at.first \in 1 .. TableBits /\ at.second = TableBits - at.first
      /\ at.offset + at.first <= W
      /\ at.second # 0 => at.word + 1 \in 0 .. Packed!num_words - 1
  BY Places
<1>2. W \in Nat \ {0, 1} /\ TableBits \in 1 .. W - 1 /\ Bit = 0 .. W - 1
  BY TableAssumption, WordBitsAssumption DEF W, Bit
<1>3. Packed!read_tag(t, b, s) =
        IF at.second = 0 THEN low
        ELSE low \cup ShiftL(t[at.word + 1] \cap LowBits(at.second), at.first)
  BY DEF Packed!read_tag, Place, Packed!ShiftR, Packed!ShiftL, Packed!LowBits, Packed!Bit,
         ShiftR, ShiftL, LowBits, Bit
<1>4. t[at.word] \subseteq 0 .. W - 1 /\ (at.second # 0 => t[at.word + 1] \subseteq 0 .. W - 1)
  BY <1>1, <1>2 DEF IsTable, Word
<1> HIDE DEF at
<1>5. \A i \in Int : i \in low <=> i \in 0 .. at.first - 1 /\ at.offset + i \in t[at.word]
  BY <1>1, <1>2, <1>4 DEF ShiftR, LowBits
<1>6. CASE at.second = 0
  <2>1. at.first = TableBits
    BY <1>1, <1>2, <1>6
  <2>2. low \subseteq Int
    BY <1>2 DEF LowBits
  <2>3. \A i \in Int : i \in low <=> i \in 0 .. TableBits - 1 /\ BitOf(t, at, i)
    BY <1>2, <1>5, <2>1 DEF BitOf
  <2> HIDE DEF low
  <2>4. 0 .. TableBits - 1 \subseteq Int
    BY <1>2
  <2>5. low = {i \in 0 .. TableBits - 1 : BitOf(t, at, i)}
    BY <2>2, <2>3, <2>4
  <2> QED
    BY <1>3, <1>6, <2>5 DEF at
<1>7. CASE at.second # 0
  <2> DEFINE high == ShiftL(t[at.word + 1] \cap LowBits(at.second), at.first)
  <2>1. low \subseteq Int /\ high \subseteq Int
    BY <1>2 DEF LowBits, ShiftL
  <2>2. \A i \in Int : i \in high <=> i \in at.first .. TableBits - 1 /\ i - at.first \in t[at.word + 1]
    BY <1>1, <1>2, <1>4, <1>7 DEF ShiftL, LowBits
  <2> HIDE DEF low, high
  <2>3. \A i \in Int : i \in low \cup high <=> i \in 0 .. TableBits - 1 /\ BitOf(t, at, i)
    BY <1>1, <1>2, <1>5, <2>2 DEF BitOf
  <2>4. 0 .. TableBits - 1 \subseteq Int
    BY <1>2
  <2>5. low \cup high = {i \in 0 .. TableBits - 1 : BitOf(t, at, i)}
    BY <2>1, <2>3, <2>4
  <2> QED
    BY <1>3, <1>7, <2>5 DEF at, high
<1> QED
  BY <1>6, <1>7

\* Position c of word v is a bit of the tag.
Covers(at, v, c) ==
  \/ v = at.word /\ at.offset <= c /\ c < at.offset + TableBits
  \/ at.second # 0 /\ v = at.word + 1 /\ c < at.second

LEMMA WriteBits ==
  ASSUME NEW t, IsTable(t), NEW b \in Packed!Bucket, NEW s \in Packed!Slot,
         NEW tag, tag \subseteq TagBits
  PROVE  LET n == Packed!write_tag(t, b, s, tag)
             at == Place(b, s)
         IN /\ IsTable(n)
            /\ \A i \in 0 .. TableBits - 1 : BitOf(n, at, i) <=> i \in tag
            /\ \A v \in 0 .. Packed!num_words - 1, c \in Bit :
                 ~Covers(at, v, c) => (c \in n[v] <=> c \in t[v])
<1> DEFINE at == Place(b, s)
           n == Packed!write_tag(t, b, s, tag)
           begun == [t EXCEPT ![at.word] =
                       (t[at.word] \cap Complement(ShiftL(LowBits(TableBits), at.offset)))
                         \cup ShiftL(tag, at.offset)]
           ended == [begun EXCEPT ![at.word + 1] =
                       (begun[at.word + 1] \cap Complement(ShiftR(LowBits(TableBits), at.first)))
                         \cup ShiftR(tag, at.first)]
<1>1. /\ at.word \in 0 .. Packed!num_words - 1 /\ at.offset \in 0 .. W - 1
      /\ at.first \in 1 .. TableBits /\ at.second = TableBits - at.first
      /\ at.offset + at.first <= W
      /\ at.second # 0 =>
           at.offset + at.first = W /\ at.word + 1 \in 0 .. Packed!num_words - 1
  BY Places
<1>2. /\ W \in Nat \ {0, 1} /\ TableBits \in 1 .. W - 1 /\ Bit = 0 .. W - 1
      /\ tag \subseteq 0 .. TableBits - 1
  BY TableAssumption, WordBitsAssumption DEF W, Bit, TagBits
<1>3. n = IF at.second = 0 THEN begun ELSE ended
  BY DEF Packed!write_tag, Packed!FirstWordWritten, Packed!SecondWordWritten, Place,
         Packed!ShiftR, Packed!ShiftL, Packed!LowBits, Packed!Bit, Packed!Complement,
         ShiftR, ShiftL, LowBits, Bit, Complement
<1> HIDE DEF at, n
<1>4. /\ begun \in [0 .. Packed!num_words - 1 -> Word]
      /\ \A v \in 0 .. Packed!num_words - 1 : v # at.word => begun[v] = t[v]
      /\ \A c \in Bit : c \in begun[at.word] <=>
           IF at.offset <= c /\ c < at.offset + TableBits THEN c - at.offset \in tag
           ELSE c \in t[at.word]
  <2> DEFINE first == (t[at.word] \cap Complement(ShiftL(LowBits(TableBits), at.offset)))
                         \cup ShiftL(tag, at.offset)
  <2>1. t[at.word] \subseteq Bit
    BY <1>1 DEF IsTable, Word
  <2>2. first \in Word
    BY <2>1 DEF Word, ShiftL
  <2>3. \A c \in Bit : c \in first <=>
          IF at.offset <= c /\ c < at.offset + TableBits THEN c - at.offset \in tag
          ELSE c \in t[at.word]
    BY <1>1, <1>2, <2>1 DEF Complement, ShiftL, LowBits
  <2>4. begun = [t EXCEPT ![at.word] = first]
    OBVIOUS
  <2> HIDE DEF first, begun
  <2> QED
    BY <1>1, <2>2, <2>3, <2>4 DEF IsTable
<1> HIDE DEF begun
<1>5. CASE at.second = 0
  <2>1. n = begun /\ at.first = TableBits
    BY <1>1, <1>2, <1>3, <1>5
  <2>2. \A i \in 0 .. TableBits - 1 : BitOf(begun, at, i) <=> i \in tag
    <3> SUFFICES ASSUME NEW i \in 0 .. TableBits - 1 PROVE BitOf(begun, at, i) <=> i \in tag
      OBVIOUS
    <3>1. /\ at.offset + i \in Bit /\ (at.offset + i) - at.offset = i /\ i < at.first
          /\ at.offset <= at.offset + i /\ at.offset + i < at.offset + TableBits
      BY <1>1, <1>2, <2>1
    <3>2. at.offset + i \in begun[at.word] <=> i \in tag
      BY <1>4, <3>1
    <3> QED
      BY <3>1, <3>2 DEF BitOf
  <2>3. \A v \in 0 .. Packed!num_words - 1, c \in Bit :
          ~Covers(at, v, c) => (c \in begun[v] <=> c \in t[v])
    BY <1>4 DEF Covers
  <2> QED
    BY <1>4, <2>1, <2>2, <2>3 DEF IsTable, n, at
<1>6. CASE at.second # 0
  <2> DEFINE second == (begun[at.word + 1] \cap Complement(ShiftR(LowBits(TableBits), at.first)))
                         \cup ShiftR(tag, at.first)
  <2>1. at.word + 1 \in 0 .. Packed!num_words - 1 /\ at.word + 1 # at.word /\ begun[at.word + 1] \subseteq Bit
        /\ at.offset + at.first = W
    BY <1>1, <1>4, <1>6 DEF Word
  <2>2. second \in Word
    BY <2>1 DEF Word, ShiftR
  <2>3. \A c \in Bit : c \in second <=>
          IF c < at.second THEN c + at.first \in tag ELSE c \in t[at.word + 1]
    <3> SUFFICES ASSUME NEW c \in Bit
                 PROVE  c \in second <=>
                          IF c < at.second THEN c + at.first \in tag ELSE c \in t[at.word + 1]
      OBVIOUS
    <3>1. c \in Int /\ begun[at.word + 1] = t[at.word + 1]
      BY <1>2, <1>4, <2>1
    <3>2. c \in ShiftR(LowBits(TableBits), at.first) <=> c < at.second
      BY <1>1, <1>2 DEF ShiftR, LowBits
    <3>3. c \in ShiftR(tag, at.first) <=> c + at.first \in tag
      BY DEF ShiftR
    <3>4. c + at.first \in tag => c < at.second
      BY <1>1, <1>2
    <3> QED
      BY <3>1, <3>2, <3>3, <3>4 DEF Complement
  <2>4. ended = [begun EXCEPT ![at.word + 1] = second]
    OBVIOUS
  <2> HIDE DEF second, ended
  <2>5. /\ ended \in [0 .. Packed!num_words - 1 -> Word]
        /\ \A v \in 0 .. Packed!num_words - 1 : v # at.word + 1 => ended[v] = begun[v]
        /\ ended[at.word + 1] = second
    BY <1>4, <2>1, <2>2, <2>4
  <2>6. \A i \in 0 .. TableBits - 1 : BitOf(ended, at, i) <=> i \in tag
    <3>1. ASSUME NEW i \in 0 .. TableBits - 1, i < at.first
          PROVE  at.offset + i \in ended[at.word] <=> i \in tag
      <4>1. /\ at.offset + i \in Bit /\ (at.offset + i) - at.offset = i
            /\ at.offset <= at.offset + i /\ at.offset + i < at.offset + TableBits
        <5>1. i \in Nat /\ i < at.first /\ i < TableBits /\ at.offset \in Nat /\ at.first \in Nat
          BY <1>1, <1>2, <3>1
        <5>2. at.offset + i < W /\ at.offset + i \in Nat /\ W \in Nat
          BY <1>2, <2>1, <5>1
        <5> QED
          BY <1>2, <5>1, <5>2
      <4>2. ended[at.word] = begun[at.word]
        BY <1>1, <2>1, <2>5
      <4> QED
        BY <1>4, <4>1, <4>2
    <3>2. ASSUME NEW i \in 0 .. TableBits - 1, ~(i < at.first)
          PROVE  i - at.first \in ended[at.word + 1] <=> i \in tag
      <4>1. i - at.first \in Bit /\ (i - at.first) + at.first = i /\ i - at.first < at.second
        BY <1>1, <1>2, <3>2
      <4> QED
        BY <2>3, <2>5, <4>1
    <3> QED
      BY <3>1, <3>2 DEF BitOf
  <2>7. \A v \in 0 .. Packed!num_words - 1, c \in Bit :
          ~Covers(at, v, c) => (c \in ended[v] <=> c \in t[v])
    <3> SUFFICES ASSUME NEW v \in 0 .. Packed!num_words - 1, NEW c \in Bit, ~Covers(at, v, c)
                 PROVE  c \in ended[v] <=> c \in t[v]
      OBVIOUS
    <3>1. CASE v = at.word + 1
      BY <1>6, <2>3, <2>5, <3>1 DEF Covers
    <3>2. CASE v # at.word + 1
      BY <1>4, <2>5, <3>2 DEF Covers
    <3> QED
      BY <3>1, <3>2
  <2>8. n = ended
    BY <1>3, <1>6
  <2> QED
    BY <2>5, <2>6, <2>7, <2>8 DEF IsTable, n, at
<1> QED
  BY <1>5, <1>6

----------------------------------------------------------------------------
(***************************************************************************)
(* Tags of different slots have no bit in common.                          *)
(***************************************************************************)
\* Slots are numbered one after the other.
LEMMA OneNumberPerSlot ==
  ASSUME NEW b \in Packed!Bucket, NEW s \in Packed!Slot, NEW c \in Packed!Bucket, NEW r \in Packed!Slot,
         b # c \/ s # r
  PROVE  \/ Packed!StartBit(b, s) + TableBits <= Packed!StartBit(c, r)
         \/ Packed!StartBit(c, r) + TableBits <= Packed!StartBit(b, s)
<1> DEFINE M == b * TagsPerBucket + s
           N == c * TagsPerBucket + r
<1>1. /\ b \in Nat /\ c \in Nat /\ TagsPerBucket \in Nat /\ s \in 0 .. TagsPerBucket - 1
      /\ r \in 0 .. TagsPerBucket - 1 /\ TableBits \in Nat
  BY TableAssumption, WordBitsAssumption DEF Packed!Bucket, Packed!Slot
<1>2. M \in Nat /\ N \in Nat
  BY <1>1, Products
<1>3. M # N
  <2>1. CASE b = c
    BY <1>1, <1>2, <2>1
  <2>2. CASE b < c
    <3>1. (b + 1) * TagsPerBucket <= c * TagsPerBucket /\ (b + 1) * TagsPerBucket = b * TagsPerBucket + TagsPerBucket
          /\ b * TagsPerBucket \in Nat /\ c * TagsPerBucket \in Nat
      BY <1>1, <2>2, Products
    <3> QED
      BY <1>1, <3>1
  <2>3. CASE c < b
    <3>1. (c + 1) * TagsPerBucket <= b * TagsPerBucket /\ (c + 1) * TagsPerBucket = c * TagsPerBucket + TagsPerBucket
          /\ b * TagsPerBucket \in Nat /\ c * TagsPerBucket \in Nat
      BY <1>1, <2>3, Products
    <3> QED
      BY <1>1, <3>1
  <2> QED
    BY <1>1, <2>1, <2>2, <2>3
<1>4. Packed!StartBit(b, s) = M * TableBits /\ Packed!StartBit(c, r) = N * TableBits
  BY InTheTable
<1> HIDE DEF M, N
<1>5. \A x, y \in Nat : x < y => x * TableBits + TableBits <= y * TableBits
  <2> SUFFICES ASSUME NEW x \in Nat, NEW y \in Nat, x < y
               PROVE  x * TableBits + TableBits <= y * TableBits
    OBVIOUS
  <2>1. x + 1 \in Nat /\ x + 1 <= y
    OBVIOUS
  <2>2. (x + 1) * TableBits <= y * TableBits /\ (x + 1) * TableBits = x * TableBits + TableBits
    BY <1>1, <2>1, Products
  <2> QED
    BY <2>2
<1> QED
  BY <1>2, <1>3, <1>4, <1>5

\* A bit of the tag of a slot, by its number in the table.
LEMMA CoveredBits ==
  ASSUME NEW b \in Packed!Bucket, NEW s \in Packed!Slot, NEW v \in Nat, NEW c \in Bit,
         Covers(Place(b, s), v, c)
  PROVE  Packed!StartBit(b, s) <= v * W + c /\ v * W + c < Packed!StartBit(b, s) + TableBits
<1> DEFINE at == Place(b, s)
           p == Packed!StartBit(b, s)
<1>1. /\ at.word \in Nat /\ at.offset \in 0 .. W - 1
      /\ at.word * W + at.offset = p
      /\ at.first \in 1 .. TableBits /\ at.second = TableBits - at.first
      /\ at.second # 0 => at.offset + at.first = W
  BY Places
<1>2. W \in Nat \ {0, 1} /\ TableBits \in 1 .. W - 1 /\ c \in 0 .. W - 1
  BY TableAssumption, WordBitsAssumption DEF W, Bit
<1> DEFINE n == at.word * W
           q == v * W + c
<1>3. n \in Nat /\ (at.word + 1) * W = n + W /\ n + at.offset = p /\ c \in Nat /\ W \in Nat
  BY <1>1, <1>2, Products
<1>4. \/ v = at.word /\ at.offset <= c /\ c < at.offset + TableBits
      \/ at.second # 0 /\ v = at.word + 1 /\ c < at.second
  BY DEF Covers
<1> HIDE DEF at, p
<1>5. CASE v = at.word /\ at.offset <= c /\ c < at.offset + TableBits
  <2>1. q = n + c
    BY <1>5
  <2> HIDE DEF n, q
  <2>2. p <= q /\ q < p + TableBits
    BY <1>1, <1>2, <1>3, <1>5, <2>1
  <2> QED
    BY <2>2 DEF p, q, at
<1>6. CASE at.second # 0 /\ v = at.word + 1 /\ c < at.second
  <2>1. q = n + W + c
    <3>1. v * W = n + W
      BY <1>3, <1>6
    <3> HIDE DEF n
    <3> QED
      BY <1>2, <1>3, <3>1
  <2> HIDE DEF n, q
  <2>2. p <= q /\ q < p + TableBits
    BY <1>1, <1>2, <1>3, <1>6, <2>1
  <2> QED
    BY <2>2 DEF p, q, at
<1> QED
  BY <1>4, <1>5, <1>6 DEF at, p

LEMMA Apart ==
  ASSUME NEW b \in Packed!Bucket, NEW s \in Packed!Slot, NEW c \in Packed!Bucket, NEW r \in Packed!Slot,
         b # c \/ s # r, NEW v \in Nat, NEW x \in Bit, Covers(Place(b, s), v, x)
  PROVE  ~Covers(Place(c, r), v, x)
<1> SUFFICES ASSUME Covers(Place(c, r), v, x) PROVE FALSE
  OBVIOUS
<1> DEFINE q == v * W + x
<1>1. q \in Nat
  <2>1. W \in Nat /\ x \in Nat
    BY WordBitsAssumption DEF W, Bit
  <2> QED
    BY <2>1, Products
<1>2. /\ Packed!StartBit(b, s) <= q /\ q < Packed!StartBit(b, s) + TableBits
      /\ Packed!StartBit(c, r) <= q /\ q < Packed!StartBit(c, r) + TableBits
  BY CoveredBits
<1>3. Packed!StartBit(b, s) \in Nat /\ Packed!StartBit(c, r) \in Nat /\ TableBits \in Nat
  BY InTheTable, TableAssumption, WordBitsAssumption
<1> HIDE DEF q
<1> QED
  BY <1>1, <1>2, <1>3, OneNumberPerSlot

\* What write_tag has written is read back, and every other tag is as it was.
LEMMA Rewritten ==
  ASSUME NEW t, IsTable(t), NEW b \in Packed!Bucket, NEW s \in Packed!Slot,
         NEW tag, tag \subseteq TagBits, NEW n, n = Packed!write_tag(t, b, s, tag)
  PROVE  /\ IsTable(n)
         /\ Packed!read_tag(n, b, s) = tag
         /\ \A c \in Packed!Bucket, r \in Packed!Slot :
              c # b \/ r # s => Packed!read_tag(n, c, r) = Packed!read_tag(t, c, r)
<1>1. /\ IsTable(n)
      /\ \A i \in 0 .. TableBits - 1 : BitOf(n, Place(b, s), i) <=> i \in tag
      /\ \A v \in 0 .. Packed!num_words - 1, c \in Bit :
           ~Covers(Place(b, s), v, c) => (c \in n[v] <=> c \in t[v])
  BY WriteBits
<1>2. Packed!read_tag(n, b, s) = tag
  <2>1. Packed!read_tag(n, b, s) = {i \in 0 .. TableBits - 1 : BitOf(n, Place(b, s), i)}
    BY <1>1, ReadBits
  <2>2. tag \subseteq 0 .. TableBits - 1
    BY DEF TagBits
  <2>3. \A i \in tag : i \in 0 .. TableBits - 1
    BY <2>2
  <2> QED
    BY <1>1, <2>1, <2>3
<1>3. ASSUME NEW c \in Packed!Bucket, NEW r \in Packed!Slot, c # b \/ r # s
      PROVE  Packed!read_tag(n, c, r) = Packed!read_tag(t, c, r)
  <2> DEFINE at == Place(c, r)
  <2>1. /\ at.word \in 0 .. Packed!num_words - 1 /\ at.offset \in 0 .. W - 1
        /\ at.first \in 1 .. TableBits /\ at.second = TableBits - at.first
        /\ at.offset + at.first <= W
        /\ at.second # 0 =>
             at.offset + at.first = W /\ at.word + 1 \in 0 .. Packed!num_words - 1
    BY Places
  <2>2. W \in Nat \ {0, 1} /\ TableBits \in 1 .. W - 1 /\ Bit = 0 .. W - 1
    BY TableAssumption, WordBitsAssumption DEF W, Bit
  <2>3. ASSUME NEW v \in 0 .. Packed!num_words - 1, NEW x \in Bit, Covers(at, v, x)
        PROVE  x \in n[v] <=> x \in t[v]
    <3>1. v \in Nat
      OBVIOUS
    <3>2. ~Covers(Place(b, s), v, x)
      BY <1>3, <2>3, <3>1, Apart
    <3> QED
      BY <1>1, <3>2
  <2>4. Packed!read_tag(n, c, r) = {i \in 0 .. TableBits - 1 : BitOf(n, at, i)}
    BY <1>1, ReadBits
  <2>5. Packed!read_tag(t, c, r) = {i \in 0 .. TableBits - 1 : BitOf(t, at, i)}
    BY ReadBits
  <2> HIDE DEF at
  <2>6. ASSUME NEW i \in 0 .. TableBits - 1
        PROVE  BitOf(n, at, i) <=> BitOf(t, at, i)
    <3>1. i \in Nat /\ i < TableBits
      BY <2>2
    <3>2. CASE i < at.first
      <4>1. at.offset + i \in Bit /\ at.offset <= at.offset + i /\ at.offset + i < at.offset + TableBits
        BY <2>1, <2>2, <3>1, <3>2
      <4>2. Covers(at, at.word, at.offset + i)
        BY <4>1 DEF Covers
      <4> QED
        BY <2>1, <2>3, <3>2, <4>1, <4>2 DEF BitOf
    <3>3. CASE ~(i < at.first)
      <4>1. i - at.first \in Bit /\ i - at.first < at.second /\ at.second # 0
        BY <2>1, <2>2, <3>1, <3>3
      <4>2. Covers(at, at.word + 1, i - at.first)
        BY <4>1 DEF Covers
      <4> QED
        BY <2>1, <2>3, <3>3, <4>1, <4>2 DEF BitOf
    <3> QED
      BY <3>2, <3>3
  <2> QED
    BY <2>4, <2>5, <2>6
<1> QED
  BY <1>1, <1>2, <1>3

----------------------------------------------------------------------------
(***************************************************************************)
(* The calls.                                                              *)
(***************************************************************************)
TableInv == IsTable(table)

U == Packed!Unpacked

\* The array of tags that the words stand for.
LEMMA UnpackedIs ==
  ASSUME NEW b \in Packed!Bucket, NEW s \in Packed!Slot
  PROVE  U[b][s] = Packed!read_tag(table, b, s)
BY DEF U, Packed!Unpacked

LEMMA UnpackedWritten ==
  ASSUME TableInv, NEW b \in Packed!Bucket, NEW s \in Packed!Slot, NEW tag, tag \subseteq TagBits,
         table' = Packed!write_tag(table, b, s, tag)
  PROVE  IsTable(table') /\ U' = Packed!Tags!Written(U, b, s, tag)
<1>1. /\ IsTable(table')
      /\ Packed!read_tag(table', b, s) = tag
      /\ \A c \in Packed!Bucket, r \in Packed!Slot :
           c # b \/ r # s => Packed!read_tag(table', c, r) = Packed!read_tag(table, c, r)
  BY Rewritten DEF TableInv
<1>2. U = [c \in Packed!Bucket |-> [r \in Packed!Slot |-> Packed!read_tag(table, c, r)]]
  BY DEF U, Packed!Unpacked
<1>3. U' = [c \in Packed!Bucket |-> [r \in Packed!Slot |-> Packed!read_tag(table', c, r)]]
  BY DEF U, Packed!Unpacked
<1>4. Packed!Tags!Written(U, b, s, tag) =
        [c \in Packed!Bucket |->
           IF c = b THEN [r \in Packed!Slot |-> IF r = s THEN tag ELSE Packed!read_tag(table, b, r)]
           ELSE [r \in Packed!Slot |-> Packed!read_tag(table, c, r)]]
  BY <1>2 DEF Packed!Tags!Written
<1> QED
  BY <1>1, <1>3, <1>4

LEMMA SlotsFound ==
  ASSUME NEW b \in Packed!Bucket, NEW tag
  PROVE  Packed!SlotsWith(table, b, tag) = {s \in Packed!Slot : U[b][s] = tag}
BY UnpackedIs DEF Packed!SlotsWith

\* The first slot with a tag is the only one that TagTable allows.
LEMMA FirstSlotIs ==
  ASSUME NEW b \in Packed!Bucket, NEW tag, Packed!SlotsWith(table, b, tag) # {}
  PROVE  /\ Packed!FirstSlot(table, b, tag) \in Packed!Slot
         /\ Packed!Tags!FirstWith(U, b, tag) = {Packed!FirstSlot(table, b, tag)}
<1> DEFINE T == Packed!SlotsWith(table, b, tag)
           x == Packed!FirstSlot(table, b, tag)
<1>1. T = {s \in Packed!Slot : U[b][s] = tag} /\ T # {}
  BY SlotsFound
<1>2. x = Packed!Min(T)
  BY DEF Packed!FirstSlot
<1>3. Packed!Slot \subseteq Nat
  BY TableAssumption DEF Packed!Slot
<1> HIDE DEF T, x
<1>4. x \in T /\ \A y \in T : x <= y
  <2>1. \E y \in T : \A z \in T : y <= z
    BY <1>1, <1>3, LeastElement
  <2> QED
    BY <1>2, <2>1 DEF Packed!Min
<1>5. \A s \in Packed!Slot : s \in Packed!Tags!FirstWith(U, b, tag) <=> s = x
  <2> SUFFICES ASSUME NEW s \in Packed!Slot
               PROVE  s \in Packed!Tags!FirstWith(U, b, tag) <=> s = x
    OBVIOUS
  <2>1. s \in Packed!Tags!FirstWith(U, b, tag) <=> s \in T /\ \A r \in T : s <= r
    BY <1>1 DEF Packed!Tags!FirstWith
  <2>2. s \in Nat /\ x \in Nat
    BY <1>1, <1>3, <1>4
  <2> QED
    BY <1>4, <2>1, <2>2
<1>6. Packed!Tags!FirstWith(U, b, tag) \subseteq Packed!Slot /\ x \in Packed!Slot
  BY <1>1, <1>4 DEF Packed!Tags!FirstWith
<1> QED
  BY <1>5, <1>6 DEF x

LEMMA NoSlotIs ==
  ASSUME NEW b \in Packed!Bucket, NEW tag, Packed!SlotsWith(table, b, tag) = {}
  PROVE  Packed!Tags!FirstWith(U, b, tag) = {} /\ ~Packed!Tags!Found(U, b, tag)
BY SlotsFound DEF Packed!Tags!FirstWith, Packed!Tags!Found

\* What a tag may be.
LEMMA TagsFit ==
  ASSUME NEW tag \in TableTag \cup {Zero}
  PROVE  tag \subseteq TagBits
<1>1. CASE tag \in TableTag
  BY <1>1, TableAssumption DEF TagBits
<1>2. CASE tag = Zero
  BY <1>2 DEF Zero
<1> QED
  BY <1>1, <1>2

LEMMA InsertFreeStep ==
  ASSUME TableInv, NEW b \in Packed!Bucket, NEW tag \in TableTag, Packed!InsertFree(b, tag)
  PROVE  IsTable(table') /\ Packed!Tags!Insert(b, tag, TRUE)
<1> DEFINE s == Packed!FirstSlot(table, b, Zero)
<1>1. /\ Packed!SlotsWith(table, b, Zero) # {}
      /\ table' = Packed!write_tag(table, b, s, tag)
      /\ table_answer' = [ok |-> TRUE, old |-> Zero]
  BY DEF Packed!InsertFree, Packed!Zero, Zero
<1>2. s \in Packed!Slot /\ Packed!Tags!FirstWith(U, b, Zero) = {s}
  BY <1>1, FirstSlotIs
<1> HIDE DEF s
<1>3. IsTable(table') /\ U' = Packed!Tags!Written(U, b, s, tag)
  BY <1>1, <1>2, TagsFit, UnpackedWritten
<1>4. [tags |-> U', ok |-> TRUE, old |-> Zero] \in Packed!Tags!Insertions(U, b, tag, TRUE)
  BY <1>2, <1>3 DEF Packed!Tags!Insertions, Packed!Zero, Zero
<1> QED
  BY <1>1, <1>3, <1>4 DEF Packed!Tags!Insert, U

LEMMA InsertKickStep ==
  ASSUME TableInv, NEW b \in Packed!Bucket, NEW tag \in TableTag, Packed!InsertKick(b, tag)
  PROVE  IsTable(table') /\ Packed!Tags!Insert(b, tag, TRUE)
<1>1. Packed!SlotsWith(table, b, Zero) = {}
  BY DEF Packed!InsertKick, Packed!Zero, Zero
<1>2. PICK s \in Packed!Slot :
        /\ table' = Packed!write_tag(table, b, s, tag)
        /\ table_answer' = [ok |-> FALSE, old |-> Packed!read_tag(table, b, s)]
  BY DEF Packed!InsertKick
<1>3. IsTable(table') /\ U' = Packed!Tags!Written(U, b, s, tag)
  BY <1>2, TagsFit, UnpackedWritten
<1>4. Packed!Tags!FirstWith(U, b, Zero) = {}
  BY <1>1, NoSlotIs
<1>5. U[b][s] = Packed!read_tag(table, b, s)
  BY UnpackedIs
<1>6. [tags |-> U', ok |-> FALSE, old |-> U[b][s]] \in Packed!Tags!Insertions(U, b, tag, TRUE)
  BY <1>3, <1>4 DEF Packed!Tags!Insertions, Packed!Zero, Zero
<1> QED
  BY <1>2, <1>3, <1>5, <1>6 DEF Packed!Tags!Insert, U

LEMMA InsertRefusedStep ==
  ASSUME TableInv, NEW b \in Packed!Bucket, NEW tag \in TableTag, Packed!InsertRefused(b)
  PROVE  IsTable(table') /\ Packed!Tags!Insert(b, tag, FALSE)
<1>1. /\ Packed!SlotsWith(table, b, Zero) = {} /\ table' = table
      /\ table_answer' = [ok |-> FALSE, old |-> Zero]
  BY DEF Packed!InsertRefused, Packed!Zero, Zero
<1>2. Packed!Tags!FirstWith(U, b, Zero) = {}
  BY <1>1, NoSlotIs
<1>3. U' = U
  BY <1>1 DEF U, Packed!Unpacked
<1>4. [tags |-> U, ok |-> FALSE, old |-> Zero] \in Packed!Tags!Insertions(U, b, tag, FALSE)
  BY <1>2 DEF Packed!Tags!Insertions, Packed!Zero, Zero
<1>5. IsTable(table')
  BY <1>1 DEF TableInv
<1> QED
  BY <1>1, <1>3, <1>4, <1>5 DEF Packed!Tags!Insert, U

LEMMA DeleteStep ==
  ASSUME TableInv, NEW b \in Packed!Bucket, NEW tag \in TableTag, Packed!delete_tag(b, tag)
  PROVE  IsTable(table') /\ Packed!Tags!Delete(b, tag)
<1> DEFINE s == Packed!FirstSlot(table, b, tag)
           there == Packed!SlotsWith(table, b, tag) # {}
<1>1. /\ table' = IF there THEN Packed!write_tag(table, b, s, Zero) ELSE table
      /\ table_answer' = [ok |-> there, old |-> Zero]
  BY DEF Packed!delete_tag, Packed!Zero, Zero
<1>2. Packed!Tags!Found(U, b, tag) <=> there
  BY SlotsFound DEF Packed!Tags!Found
<1>3. U = [c \in Packed!Bucket |-> [r \in Packed!Slot |-> U[c][r]]]
  BY DEF U, Packed!Unpacked
<1>4. IsTable(table') /\ U' = Packed!Tags!Deleted(U, b, tag)
  <2>1. CASE there
    <3>1. s \in Packed!Slot /\ Packed!Tags!FirstWith(U, b, tag) = {s}
      BY <2>1, FirstSlotIs
    <3>2. table' = Packed!write_tag(table, b, s, Zero)
      BY <1>1, <2>1
    <3> HIDE DEF s
    <3>3. IsTable(table') /\ U' = Packed!Tags!Written(U, b, s, Zero)
      BY <3>1, <3>2, TagsFit, UnpackedWritten
    <3>4. Packed!Tags!Written(U, b, s, Zero) = Packed!Tags!Deleted(U, b, tag)
      BY <1>3, <3>1 DEF Packed!Tags!Written, Packed!Tags!Deleted, Packed!Zero, Zero
    <3> QED
      BY <3>3, <3>4
  <2>2. CASE ~there
    <3>1. table' = table /\ Packed!Tags!FirstWith(U, b, tag) = {}
      BY <1>1, <2>2, NoSlotIs
    <3>2. U' = U
      BY <3>1 DEF U, Packed!Unpacked
    <3>3. U = Packed!Tags!Deleted(U, b, tag)
      BY <1>3, <3>1 DEF Packed!Tags!Deleted
    <3> QED
      BY <3>1, <3>2, <3>3 DEF TableInv
  <2> QED
    BY <2>1, <2>2
<1>5. table_answer' = [ok |-> Packed!Tags!Found(U, b, tag), old |-> Zero]
  <2>1. table_answer' = [ok |-> Packed!SlotsWith(table, b, tag) # {}, old |-> Zero]
    BY <1>1
  <2>2. Packed!Tags!Found(U, b, tag) <=> Packed!SlotsWith(table, b, tag) # {}
    BY <1>2
  <2> QED
    BY <2>1, <2>2 DEF Packed!Tags!Found
<1> QED
  BY <1>4, <1>5 DEF Packed!Tags!Delete, U, Packed!Zero, Zero

LEMMA FindStep ==
  ASSUME TableInv, NEW b \in Packed!Bucket, NEW c \in Packed!Bucket, NEW tag \in TableTag,
         Packed!find_tag_in_buckets(b, c, tag)
  PROVE  IsTable(table') /\ Packed!Tags!Find(b, c, tag)
<1>1. /\ table' = table
      /\ table_answer' = [ok |-> Packed!SlotsWith(table, b, tag) \cup Packed!SlotsWith(table, c, tag) # {},
                          old |-> Zero]
  BY DEF Packed!find_tag_in_buckets, Packed!Zero, Zero
<1>2. Packed!SlotsWith(table, b, tag) \cup Packed!SlotsWith(table, c, tag) # {}
        <=> Packed!Tags!Found(U, b, tag) \/ Packed!Tags!Found(U, c, tag)
  BY SlotsFound DEF Packed!Tags!Found
<1>3. U' = U
  BY <1>1 DEF U, Packed!Unpacked
<1>4. table_answer' = [ok |-> Packed!Tags!Found(U, b, tag) \/ Packed!Tags!Found(U, c, tag), old |-> Zero]
  BY <1>1, <1>2
<1>5. IsTable(table')
  BY <1>1 DEF TableInv
<1> QED
  BY <1>3, <1>4, <1>5 DEF Packed!Tags!Find, U, Packed!Zero, Zero

LEMMA TableInit == Packed!Init => TableInv /\ Packed!Tags!Init
<1> SUFFICES ASSUME Packed!Init PROVE TableInv /\ Packed!Tags!Init
  OBVIOUS
<1>1. table = [i \in 0 .. Packed!num_words - 1 |-> Zero] /\ table_answer = [ok |-> FALSE, old |-> Zero]
  BY DEF Packed!Init, Packed!Zero, Zero
<1>2. TableInv
  <2>1. Zero \in Word
    BY DEF Zero, Word
  <2> QED
    BY <1>1, <2>1 DEF TableInv, IsTable
<1>3. ASSUME NEW b \in Packed!Bucket, NEW s \in Packed!Slot
      PROVE  Packed!read_tag(table, b, s) = Zero
  <2>1. Packed!read_tag(table, b, s) = {i \in 0 .. TableBits - 1 : BitOf(table, Place(b, s), i)}
    BY <1>2, ReadBits DEF TableInv
  <2>2. /\ table[Place(b, s).word] = {}
        /\ Place(b, s).second # 0 => table[Place(b, s).word + 1] = {}
        /\ Place(b, s).second = TableBits - Place(b, s).first /\ Place(b, s).first \in 1 .. TableBits
    BY <1>1, Places DEF Zero
  <2>3. TableBits \in Nat
    BY TableAssumption, WordBitsAssumption
  <2>4. \A i \in 0 .. TableBits - 1 : ~BitOf(table, Place(b, s), i)
    BY <2>2, <2>3 DEF BitOf
  <2> QED
    BY <2>1, <2>4 DEF Zero
<1>4. U = [b \in Packed!Bucket |-> [s \in Packed!Slot |-> Zero]]
  BY <1>3 DEF U, Packed!Unpacked
<1> QED
  BY <1>1, <1>2, <1>4 DEF Packed!Tags!Init, U, Packed!Zero, Zero

LEMMA TableStep ==
  ASSUME TableInv, [Packed!Next]_(Packed!vars)
  PROVE  TableInv' /\ [Packed!Tags!Next]_<<U, table_answer>>
<1>1. CASE UNCHANGED Packed!vars
  BY <1>1 DEF Packed!vars, TableInv, U, Packed!Unpacked
<1>2. ASSUME NEW b \in Packed!Bucket, NEW tag \in TableTag,
             \/ Packed!InsertFree(b, tag)
             \/ Packed!InsertKick(b, tag)
             \/ Packed!InsertRefused(b)
             \/ Packed!delete_tag(b, tag)
             \/ \E c \in Packed!Bucket : Packed!find_tag_in_buckets(b, c, tag)
      PROVE  IsTable(table') /\ Packed!Tags!Next
  <2>1. CASE Packed!InsertFree(b, tag)
    BY <2>1, InsertFreeStep DEF Packed!Tags!Next
  <2>2. CASE Packed!InsertKick(b, tag)
    BY <2>2, InsertKickStep DEF Packed!Tags!Next
  <2>3. CASE Packed!InsertRefused(b)
    BY <2>3, InsertRefusedStep DEF Packed!Tags!Next
  <2>4. CASE Packed!delete_tag(b, tag)
    BY <2>4, DeleteStep DEF Packed!Tags!Next
  <2>5. CASE \E c \in Packed!Bucket : Packed!find_tag_in_buckets(b, c, tag)
    BY <2>5, FindStep DEF Packed!Tags!Next
  <2> QED
    BY <1>2, <2>1, <2>2, <2>3, <2>4, <2>5
<1>3. CASE Packed!Next
  BY <1>2, <1>3 DEF Packed!Next, TableInv
<1> QED
  BY <1>1, <1>3

(***************************************************************************)
(* However long words and tags are: a tag written to the packed table,     *)
(* also one that begins in one word and ends in the next, is read back     *)
(* whole and leaves every other as it was, so that the calls of            *)
(* CuckooFilterTable are those of an array of tags                         *)
(* (cuckoo_filter_table.cpp:26-39, 81-208).                                *)
(***************************************************************************)
THEOREM TableIsArray == Packed!Spec => ImplementsTagTable
<1>1. Packed!Init => TableInv /\ Packed!Tags!Init
  BY TableInit
<1>2. TableInv /\ [Packed!Next]_(Packed!vars) => TableInv' /\ [Packed!Tags!Next]_<<U, table_answer>>
  BY TableStep
<1> QED
  BY <1>1, <1>2, PTL
  DEF Packed!Spec, ImplementsTagTable, Packed!ImplementsTagTable, Packed!Tags!Spec, U

=============================================================================
