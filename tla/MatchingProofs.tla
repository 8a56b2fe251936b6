--------------------------- MODULE MatchingProofs ---------------------------
(***************************************************************************)
(* Proofs about Matching, for any hash functions, any sizes of the table   *)
(* and its bundles, any query, any set of the sender's items and any        *)
(* evaluation of the bundles: Errors may be all sets of bundles and items. *)
(***************************************************************************)
EXTENDS Matching, FiniteSetTheorems, TLAPS

----------------------------------------------------------------------------
(***************************************************************************)
(* Arithmetic.                                                             *)
(***************************************************************************)

\* A set of numbers up to n that is not empty has a maximum: the intervals
\* x .. n with x in the set have a least one.
LEMMA MaxOfBounded ==
  ASSUME NEW n \in Nat, NEW S, S \subseteq 0 .. n, S # {}
  PROVE  Max(S) \in S /\ \A y \in S : Max(S) >= y
<1> DEFINE T == {x .. n : x \in S}
           R == StrictSubsetOrdering(0 .. n)
<1>1. T \subseteq SUBSET (0 .. n) /\ T # {}
  <2>1. ASSUME NEW x \in S PROVE x .. n \in SUBSET (0 .. n)
    OBVIOUS
  <2> QED
    BY <2>1
<1>2. IsWellFoundedOn(R, T)
  <2>1. FiniteSubsetsOf(0 .. n) = SUBSET (0 .. n)
    <3>1. IsFiniteSet(0 .. n)
      BY FS_Interval
    <3> QED
      BY <3>1, FS_FiniteSubsetsOfFinite
  <2> QED
    BY <1>1, <2>1, FS_StrictSubsetOrderingWellFounded, IsWellFoundedOnSubset
<1>3. PICK t \in T : \A s \in T : ~(<<s, t>> \in R)
  <2> HIDE DEF T, R
  <2> QED
    BY <1>1, <1>2, WFMin
<1>4. PICK m \in S : t = m .. n
  OBVIOUS
<1>5. \A y \in S : m >= y
  <2> SUFFICES ASSUME NEW y \in S, y > m PROVE FALSE
    OBVIOUS
  <2>1. m \in 0 .. n /\ y \in 0 .. n
    OBVIOUS
  <2>2. y .. n \subseteq m .. n /\ m \in m .. n /\ m \notin y .. n
    BY <2>1
  <2>3. <<y .. n, m .. n>> \in R
    BY <2>1, <2>2 DEF StrictSubsetOrdering
  <2> QED
    BY <1>3, <1>4, <2>3
<1> QED
  BY <1>4, <1>5 DEF Max

\* A location is a bin of one bundle.
LEMMA LocationIsBin ==
  ASSUME NEW l \in Location
  PROVE  /\ l \div BinsPerBundle \in Bundle /\ l % BinsPerBundle \in Bin
         /\ (l \div BinsPerBundle) * BinsPerBundle + (l % BinsPerBundle) = l
<1> DEFINE B == BinsPerBundle
           c == TableSize \div B
           q == l \div B
<1>0. l \in Nat /\ l < TableSize /\ B \in Nat /\ B > 0 /\ TableSize \in Nat /\ TableSize % B = 0
  BY MatchingAssumption DEF Location
<1>1. q \in Int /\ l % B \in 0 .. B - 1 /\ l = B * q + (l % B)
  BY <1>0
<1>2. c \in Int /\ TableSize = B * c
  BY <1>0
<1>3. q >= 0
  <2> HIDE DEF q
  <2> SUFFICES ASSUME q <= -1 PROVE FALSE
    BY <1>1
  <2>1. B * q <= -B
    BY <1>0, <1>1
  <2> QED
    BY <1>0, <1>1, <2>1
<1>4. q < c
  <2> HIDE DEF q, c
  <2> SUFFICES ASSUME q >= c PROVE FALSE
    BY <1>1, <1>2
  <2>1. B * q >= B * c
    BY <1>0, <1>1, <1>2
  <2> QED
    BY <1>0, <1>1, <1>2, <2>1
<1>5. q * B + (l % B) = l
  BY <1>0, <1>1
<1> QED
  BY <1>0, <1>1, <1>2, <1>3, <1>4, <1>5 DEF Bundle, BundleCount, Bin

\* A bin of a bundle is a location.
LEMMA BinIsLocation ==
  ASSUME NEW b \in Bundle, NEW n \in Bin
  PROVE  TableIdx(n, b) \in Location /\ b * BinsPerBundle + n = TableIdx(n, b)
<1> DEFINE B == BinsPerBundle
           c == BundleCount
<1>0. /\ B \in Nat /\ TableSize \in Nat /\ n \in 0 .. (B - 1) /\ B > 0 /\ c \in Int
      /\ b \in 0 .. (c - 1) /\ TableSize = B * c
  BY MatchingAssumption DEF Bundle, Bin, BundleCount
<1>1. b * B \in Int /\ b * B >= 0 /\ b * B <= B * c - B
  <2> HIDE DEF B, c
  <2>1. b \in Int /\ b <= c - 1 /\ b >= 0
    BY <1>0
  <2>2. b * B <= (c - 1) * B
    BY <1>0, <2>1
  <2>3. (c - 1) * B = B * c - B
    BY <1>0
  <2>4. b * B >= 0 /\ b * B \in Int
    BY <1>0, <2>1
  <2> QED
    BY <2>2, <2>3, <2>4
<1>2. n + b * B \in 0 .. (TableSize - 1) /\ b * B + n = n + b * B
  BY <1>0, <1>1
<1> QED
  BY <1>2 DEF TableIdx, Location

\* No location is a bin twice.
LEMMA BinsAreDistinct ==
  ASSUME NEW b \in Bundle, NEW c \in Bundle, NEW n \in Bin, NEW m \in Bin,
         TableIdx(n, b) = TableIdx(m, c)
  PROVE  b = c /\ n = m
<1> DEFINE B == BinsPerBundle
<1>0. /\ B \in Nat /\ B > 0 /\ n \in 0 .. (B - 1) /\ m \in 0 .. (B - 1) /\ b \in Int /\ c \in Int
      /\ n + b * B = m + c * B
  BY MatchingAssumption DEF Bundle, Bin, BundleCount, TableIdx
<1>1. b * B \in Int /\ c * B \in Int
  BY <1>0
<1>2. ~(b > c)
  <2> SUFFICES ASSUME b >= c + 1 PROVE FALSE
    BY <1>0
  <2>1. b * B >= (c + 1) * B /\ (c + 1) * B = c * B + B
    BY <1>0
  <2> QED
    BY <1>0, <1>1, <2>1
<1>3. ~(b < c)
  <2> SUFFICES ASSUME c >= b + 1 PROVE FALSE
    BY <1>0
  <2>1. c * B >= (b + 1) * B /\ (b + 1) * B = b * B + B
    BY <1>0
  <2> QED
    BY <1>0, <1>1, <2>1
<1> QED
  BY <1>0, <1>2, <1>3
----------------------------------------------------------------------------
(***************************************************************************)
(* The inductive invariant.                                                *)
(***************************************************************************)
Answering == phase \in {"sent", "threw", "returned"}

StateTypes ==
  /\ items \in Seq(Item)
  /\ bundles \in [Bundle -> SUBSET Item]
  /\ phase \in {"insert", "failed", "undefined", "sent", "threw", "returned"}
  /\ next \in 0 .. Len(items)
  /\ table \in [Location -> Item \cup {Empty}]
  /\ arrived \in SUBSET Bundle

\* an item in one bundle is in the bundles of all its locations
SenderComplete == \A b \in Bundle : \A x \in bundles[b] : \A l \in HashLocations[x] : x \in bundles[l \div BinsPerBundle]

\* the table holds the items looked at so far, each at one location of its own
TableSound ==
  /\ \A l \in Location : table[l] # Empty => l \in HashLocations[table[l]]
  /\ \A l, m \in Location : table[l] = table[m] /\ table[l] # Empty => l = m
  /\ Held = {items_at(i) : i \in 0 .. next - 1}

\* the translation table maps the occupied locations to the last indices
TranslationSound ==
  Answering =>
    /\ items # <<>> /\ next = Len(items)
    /\ DOMAIN itt = {l \in Location : table[l] # Empty}
    /\ \A l \in DOMAIN itt : itt[l] \in LastIdx /\ items_at(itt[l]) = table[l]

\* exactly the packages that were processed are booked
Booked ==
  /\ phase = "insert" => arrived = {} /\ found = {}
  /\ phase \in {"failed", "undefined"} => found = {}
  /\ Answering => found \subseteq UNION {Records(b) : b \in arrived}
  /\ phase \in {"sent", "returned"} => UNION {Records(b) : b \in arrived} \subseteq found
  /\ phase = "returned" => arrived = Bundle

MatchingInv == StateTypes /\ SenderComplete /\ TableSound /\ TranslationSound /\ Booked /\ ThrowsOnlyForFirst
----------------------------------------------------------------------------
LEMMA InitInv == Init => MatchingInv
<1> SUFFICES ASSUME Init PROVE MatchingInv
  OBVIOUS
<1>1. PICK senderItems \in SUBSET Item : bundles = Inserted(senderItems)
  BY DEF Init
<1>2. StateTypes
  <2>1. items \in Seq(Item)
    BY MatchingAssumption DEF Init
  <2>2. bundles \in [Bundle -> SUBSET Item]
    BY <1>1 DEF Inserted
  <2>3. Len(items) \in Nat
    BY <2>1
  <2> QED
    BY <2>1, <2>2, <2>3 DEF Init, StateTypes
<1>3. SenderComplete
  <2> SUFFICES ASSUME NEW b \in Bundle, NEW x \in bundles[b], NEW l \in HashLocations[x]
               PROVE  x \in bundles[l \div BinsPerBundle]
    BY DEF SenderComplete
  <2>1. x \in senderItems /\ x \in Item
    BY <1>1 DEF Inserted
  <2>2. l \in Location
    BY <2>1, MatchingAssumption
  <2>3. l \div BinsPerBundle \in Bundle
    BY <2>2, LocationIsBin
  <2> QED
    BY <1>1, <2>1, <2>3 DEF Inserted, all_locations
<1>4. TableSound
  <2>1. Held = {}
    BY DEF Init, Held
  <2>2. 0 .. next - 1 = {}
    BY DEF Init
  <2> QED
    BY <2>1, <2>2 DEF Init, TableSound
<1>5. TranslationSound /\ Booked /\ ThrowsOnlyForFirst
  BY DEF Init, TranslationSound, Booked, ThrowsOnlyForFirst, Answering
<1> QED
  BY <1>2, <1>3, <1>4, <1>5 DEF MatchingInv

\* What the table holds when an item is put in it.
LEMMA HeldWithOneMore ==
  ASSUME StateTypes, next < Len(items), TableSound
  PROVE  /\ items_at(next) \in Item /\ items_at(next) # Empty
         /\ Held \cup {items_at(next)} = {items_at(i) : i \in 0 .. (next + 1) - 1}
         /\ next + 1 \in 0 .. Len(items)
<1>1. Len(items) \in Nat /\ next \in Nat /\ next + 1 \in 1 .. Len(items)
  BY DEF StateTypes
<1>2. items_at(next) \in Item
  BY <1>1 DEF StateTypes, items_at
<1>3. 0 .. (next + 1) - 1 = (0 .. next - 1) \cup {next}
  BY <1>1
<1>4. Held = {items_at(i) : i \in 0 .. next - 1}
  BY DEF TableSound
<1> HIDE DEF Held, items_at
<1>5. Held \cup {items_at(next)} = {items_at(i) : i \in 0 .. (next + 1) - 1}
  BY <1>3, <1>4
<1> QED
  BY <1>1, <1>2, <1>5, MatchingAssumption

\* KukuTable::insert: the table afterwards, and the items in it.
LEMMA SettledTable ==
  ASSUME StateTypes, TableSound, NEW x \in Item, x \notin Held, NEW t \in Settled(x)
  PROVE  /\ t \in [Location -> Item \cup {Empty}]
         /\ \A l \in Location : t[l] # Empty => l \in HashLocations[t[l]]
         /\ \A l, m \in Location : t[l] = t[m] /\ t[l] # Empty => l = m
         /\ {t[l] : l \in Location} \ {Empty} = Held \cup {x}
<1> DEFINE free == {l \in HashLocations[x] : table[l] = Empty}
<1>0. Held \subseteq Item /\ HashLocations[x] \subseteq Location /\ x # Empty
  BY MatchingAssumption DEF Held, StateTypes
<1>1. CASE free # {}
  <2>1. PICK k \in free : t = [table EXCEPT ![k] = x]
    BY <1>1 DEF Settled
  <2>2. k \in Location /\ table[k] = Empty /\ k \in HashLocations[x]
    BY <1>0
  <2>3. t \in [Location -> Item \cup {Empty}]
    BY <2>1, <2>2 DEF StateTypes
  <2>4. \A l \in Location : t[l] = IF l = k THEN x ELSE table[l]
    BY <2>1, <2>2 DEF StateTypes
  <2>5. {t[l] : l \in Location} \ {Empty} = Held \cup {x}
    BY <2>2, <2>4, <1>0 DEF Held
  <2>6. \A l \in Location : t[l] # Empty => l \in HashLocations[t[l]]
    BY <2>2, <2>4 DEF TableSound
  <2>7. \A l \in Location : table[l] # x
    BY <1>0 DEF Held
  <2>8. \A l, m \in Location : t[l] = t[m] /\ t[l] # Empty => l = m
    BY <2>4, <2>7 DEF TableSound
  <2> QED
    BY <2>3, <2>5, <2>6, <2>8
<1>2. CASE free = {}
  <2>1. t \in [Location -> Held \cup {x, Empty}]
    BY <1>2 DEF Settled
  <2>2. /\ {t[l] : l \in Location} \ {Empty} = Held \cup {x}
        /\ \A l \in Location : t[l] # Empty => l \in HashLocations[t[l]]
        /\ \A l, m \in Location : t[l] = t[m] /\ t[l] # Empty => l = m
    BY <1>2 DEF Settled
  <2>3. t \in [Location -> Item \cup {Empty}]
    BY <1>0, <2>1
  <2> QED
    BY <2>2, <2>3
<1> QED
  BY <1>1, <1>2

\* Before the query is sent nothing is claimed of translations and matches.
LEMMA InsertItemKeeps == MatchingInv /\ InsertItem => MatchingInv'
<1> SUFFICES ASSUME MatchingInv, InsertItem PROVE MatchingInv'
  OBVIOUS
<1> DEFINE x == items_at(next)
<1>0. StateTypes /\ SenderComplete /\ TableSound /\ Booked /\ phase = "insert" /\ next < Len(items)
  BY DEF MatchingInv, InsertItem
<1>1. UNCHANGED <<items, bundles, wrong, itt, arrived, found>> /\ phase' \in {"insert", "failed"}
  BY <1>0 DEF InsertItem
<1>2. /\ x \in Item /\ x # Empty /\ next + 1 \in 0 .. Len(items)
      /\ Held \cup {x} = {items_at(i) : i \in 0 .. (next + 1) - 1}
  BY <1>0, HeldWithOneMore
<1>3. SenderComplete'
  BY <1>0, <1>1 DEF SenderComplete
<1>4. TranslationSound' /\ Booked' /\ ThrowsOnlyForFirst'
  BY <1>0, <1>1 DEF TranslationSound, Booked, ThrowsOnlyForFirst, Answering
<1>5. CASE Repeated(x) /\ next' = next + 1 /\ UNCHANGED <<table, phase>>
  <2>1. StateTypes'
    BY <1>0, <1>1, <1>2, <1>5 DEF StateTypes
  <2>2. Held' = {items_at(i)' : i \in 0 .. next' - 1}
    <3>1. Held' = Held \cup {x}
      BY <1>5 DEF Held, Repeated
    <3> QED
      BY <3>1, <1>1, <1>2, <1>5 DEF items_at
  <2>3. TableSound'
    BY <1>0, <1>5, <2>2 DEF TableSound
  <2> QED
    BY <1>3, <1>4, <2>1, <2>3 DEF MatchingInv
<1>6. CASE ~Repeated(x) /\ table' \in Settled(x) /\ next' = next + 1 /\ UNCHANGED phase
  <2>1. /\ table' \in [Location -> Item \cup {Empty}]
        /\ \A l \in Location : table'[l] # Empty => l \in HashLocations[table'[l]]
        /\ \A l, m \in Location : table'[l] = table'[m] /\ table'[l] # Empty => l = m
        /\ {table'[l] : l \in Location} \ {Empty} = Held \cup {x}
    BY <1>0, <1>2, <1>6, SettledTable DEF Repeated
  <2>2. Held' = {items_at(i)' : i \in 0 .. next' - 1}
    <3>1. Held' = Held \cup {x}
      BY <2>1 DEF Held
    <3> QED
      BY <3>1, <1>1, <1>2, <1>6 DEF items_at
  <2>3. StateTypes'
    BY <1>0, <1>1, <1>2, <1>6, <2>1 DEF StateTypes
  <2>4. TableSound'
    BY <2>1, <2>2 DEF TableSound
  <2> QED
    BY <1>3, <1>4, <2>3, <2>4 DEF MatchingInv
<1>7. CASE phase' = "failed" /\ UNCHANGED <<table, next>>
  <2>1. StateTypes'
    BY <1>0, <1>1, <1>7 DEF StateTypes
  <2>2. TableSound /\ UNCHANGED <<items, next, table>>
    BY <1>0, <1>1, <1>7
  <2>3. TableSound'
    BY <2>2 DEF TableSound, Held, items_at
  <2> QED
    BY <1>3, <1>4, <2>1, <2>3 DEF MatchingInv
<1> QED
  BY <1>0, <1>5, <1>6, <1>7 DEF InsertItem

\* The last index of an item in the table.
LEMMA LastIndex ==
  ASSUME StateTypes, TableSound, next = Len(items), NEW l \in Location, table[l] # Empty
  PROVE  LET i == Max({j \in ItemIdx : items_at(j) = table[l]}) IN
         i \in LastIdx /\ items_at(i) = table[l]
<1> DEFINE S == {j \in ItemIdx : items_at(j) = table[l]}
           n == Len(items)
<1>1. n \in Nat /\ S \subseteq 0 .. n
  BY DEF StateTypes, ItemIdx
<1>2. table[l] \in Held
  BY DEF Held
<1>3. S # {}
  BY <1>1, <1>2 DEF TableSound, ItemIdx
<1>4. Max(S) \in S /\ \A y \in S : Max(S) >= y
  <2> HIDE DEF S, n
  <2> QED
    BY <1>1, <1>3, MaxOfBounded
<1> QED
  BY <1>4 DEF LastIdx

LEMMA TranslateKeeps == MatchingInv /\ Translate => MatchingInv'
<1> SUFFICES ASSUME MatchingInv, Translate PROVE MatchingInv'
  OBVIOUS
<1>0. StateTypes /\ SenderComplete /\ TableSound /\ Booked /\ phase = "insert" /\ next = Len(items)
  BY DEF MatchingInv, Translate
<1>1. UNCHANGED <<items, bundles, wrong, next, table, arrived, found>>
  BY DEF Translate
<1>2. phase' \in {"undefined", "sent"} /\ (phase' = "sent" => items # <<>>)
  BY DEF Translate
<1>3. StateTypes'
  BY <1>0, <1>1, <1>2 DEF StateTypes
<1>4. SenderComplete' /\ TableSound'
  <2>1. SenderComplete'
    BY <1>0, <1>1 DEF SenderComplete
  <2>2. TableSound /\ UNCHANGED <<items, next, table>>
    BY <1>0, <1>1
  <2>3. TableSound'
    BY <2>2 DEF TableSound, Held, items_at
  <2> QED
    BY <2>1, <2>3
<1>5. TranslationSound'
  <2> DEFINE last(l) == Max({j \in ItemIdx : items_at(j) = table[l]})
  <2>1. itt' = [l \in {m \in Location : table[m] # Empty} |-> last(l)]
    BY DEF Translate
  <2>2. \A l \in {m \in Location : table[m] # Empty} : last(l) \in LastIdx /\ items_at(last(l)) = table[l]
    BY <1>0, LastIndex
  <2> HIDE DEF last
  <2>3. DOMAIN itt' = {l \in Location : table[l] # Empty}
    BY <2>1
  <2>4. \A l \in DOMAIN itt' : itt'[l] \in LastIdx /\ items_at(itt'[l]) = table[l]
    BY <2>1, <2>2
  <2>5. LastIdx' = LastIdx /\ \A i : items_at(i)' = items_at(i)
    BY <1>1 DEF LastIdx, ItemIdx, items_at
  <2> QED
    BY <1>0, <1>1, <1>2, <2>3, <2>4, <2>5 DEF TranslationSound, Answering, items_at
<1>6. Booked' /\ ThrowsOnlyForFirst'
  BY <1>0, <1>1, <1>2 DEF Booked, ThrowsOnlyForFirst, Answering
<1> QED
  BY <1>3, <1>4, <1>5, <1>6 DEF MatchingInv

\* What a slot holds: the item of its location, or items[0].
LEMMA SlotItem ==
  ASSUME StateTypes, TranslationSound, Answering, NEW b \in Bundle, NEW n \in Bin
  PROVE  /\ Slot(b, n) = items_at(Idx(n, b))
         /\ TableIdx(n, b) \in Location
         /\ table[TableIdx(n, b)] # Empty => Idx(n, b) \in LastIdx /\ Slot(b, n) = table[TableIdx(n, b)]
         /\ table[TableIdx(n, b)] = Empty => Idx(n, b) = 0
         /\ Idx(n, b) \in ItemIdx
<1>1. TableIdx(n, b) \in Location /\ b * BinsPerBundle + n = TableIdx(n, b)
  BY BinIsLocation
<1>2. Slot(b, n) = items_at(Idx(n, b))
  BY <1>1 DEF Slot, Idx
<1>3. 0 \in ItemIdx
  BY DEF StateTypes, TranslationSound, ItemIdx
<1>4. LastIdx \subseteq ItemIdx
  BY DEF LastIdx
<1> QED
  BY <1>1, <1>2, <1>3, <1>4 DEF TranslationSound, Idx, find_item_idx

\* A one is an item of the sender's, or the evaluation errs for it.
LEMMA OneIsItem ==
  ASSUME NEW b \in Bundle, NEW x, eval(b, x)
  PROVE  x \in SenderItems \/ ~Exact(x)
<1>1. CASE x \in bundles[b]
  BY <1>1 DEF SenderItems
<1>2. CASE <<b, x>> \in wrong
  BY <1>2 DEF Exact
<1> QED
  BY <1>1, <1>2 DEF eval

\* A clash needs a bin without item, and items[0] in the intersection, or an
\* evaluation that errs for items[0].
LEMMA ClashIsFirst ==
  ASSUME MatchingInv, phase = "sent", NEW b \in Bundle, b \notin arrived, Clash(b)
  PROVE  /\ items_at(0) \in SenderItems \/ ~Exact(items_at(0))
         /\ \E l \in Location : table[l] = Empty
<1>0. StateTypes /\ TableSound /\ TranslationSound /\ Booked /\ Answering /\ arrived \subseteq Bundle
  BY DEF MatchingInv, Answering, StateTypes
<1>1. \E c \in Bundle : \E n \in Ones(b), m \in Ones(c) : Idx(n, b) = Idx(m, c) /\ ~(b = c /\ n = m)
  <2>1. CASE \E n, m \in Ones(b) : n # m /\ Idx(n, b) = Idx(m, b)
    BY <2>1
  <2>2. CASE Records(b) \cap found # {}
    <3>1. PICK i : i \in Records(b) /\ i \in UNION {Records(c) : c \in arrived}
      BY <1>0, <2>2 DEF Booked
    <3>2. PICK c \in arrived : i \in Records(c)
      BY <3>1
    <3> QED
      BY <1>0, <3>1, <3>2 DEF Records
  <2> QED
    BY <2>1, <2>2 DEF Clash
<1>2. PICK c \in Bundle : \E n \in Ones(b), m \in Ones(c) : Idx(n, b) = Idx(m, c) /\ ~(b = c /\ n = m)
  BY <1>1
<1>3. PICK n \in Ones(b), m \in Ones(c) : Idx(n, b) = Idx(m, c) /\ ~(b = c /\ n = m)
  BY <1>2
<1>4. n \in Bin /\ m \in Bin /\ eval(b, Slot(b, n)) /\ eval(c, Slot(c, m))
  BY DEF Ones
<1> DEFINE k == TableIdx(n, b)
           l == TableIdx(m, c)
<1>5. k # l /\ k \in Location /\ l \in Location
  BY <1>0, <1>3, <1>4, BinsAreDistinct, SlotItem
<1>6. table[k] = Empty \/ table[l] = Empty
  <2> SUFFICES ASSUME table[k] # Empty, table[l] # Empty PROVE FALSE
    OBVIOUS
  <2>1. Slot(b, n) = table[k] /\ Slot(c, m) = table[l] /\ Slot(b, n) = Slot(c, m)
    BY <1>0, <1>3, <1>4, SlotItem
  <2> QED
    BY <1>0, <1>5, <2>1 DEF TableSound
<1>7. Idx(n, b) = 0 /\ Slot(b, n) = items_at(0)
  BY <1>0, <1>3, <1>4, <1>6, SlotItem
<1>8. items_at(0) \in SenderItems \/ ~Exact(items_at(0))
  BY <1>4, <1>7, OneIsItem
<1> QED
  BY <1>5, <1>6, <1>8

LEMMA ProcessPartKeeps == ASSUME NEW b \in Bundle PROVE MatchingInv /\ ProcessPart(b) => MatchingInv'
<1> SUFFICES ASSUME MatchingInv, ProcessPart(b) PROVE MatchingInv'
  OBVIOUS
<1>0. StateTypes /\ SenderComplete /\ TableSound /\ TranslationSound /\ Booked /\ phase = "sent" /\ b \notin arrived
  BY DEF MatchingInv, ProcessPart
<1>1. UNCHANGED <<items, bundles, wrong, next, table, itt>> /\ arrived' = arrived \cup {b} /\ phase' \in {"sent", "threw"}
  BY <1>0 DEF ProcessPart
<1>2. StateTypes' /\ SenderComplete'
  BY <1>0, <1>1 DEF StateTypes, SenderComplete
<1>3. TableSound'
  BY <1>0, <1>1 DEF TableSound, Held, items_at
<1>4. TranslationSound'
  BY <1>0, <1>1 DEF TranslationSound, Answering, LastIdx, ItemIdx, items_at
<1>5. \A c : Records(c)' = Records(c)
  BY <1>1 DEF Records, Ones, eval, Idx, Slot, find_item_idx, items_at
<1>6. Booked'
  <2>0. found \subseteq UNION {Records(c) : c \in arrived} /\ UNION {Records(c) : c \in arrived} \subseteq found
    BY <1>0 DEF Booked, Answering
  <2>1. UNION {Records(c) : c \in arrived'} = (UNION {Records(c) : c \in arrived}) \cup Records(b)
    BY <1>1
  <2>2. UNION {Records(c)' : c \in arrived'} = UNION {Records(c) : c \in arrived'}
    BY <1>5
  <2>3. CASE found' = found \cup Records(b) /\ phase' = "sent"
    BY <2>0, <2>1, <2>2, <2>3 DEF Booked, Answering
  <2>4. CASE found' = found /\ phase' = "threw"
    BY <2>0, <2>1, <2>2, <2>4 DEF Booked, Answering
  <2> QED
    BY <1>0, <2>3, <2>4 DEF ProcessPart
<1>7. ThrowsOnlyForFirst'
  <2>1. CASE phase' = "threw"
    <3>1. Clash(b)
      BY <1>0, <2>1 DEF ProcessPart
    <3>2. /\ items_at(0) \in SenderItems \/ ~Exact(items_at(0))
          /\ \E l \in Location : table[l] = Empty
      BY <1>0, <3>1, ClashIsFirst
    <3> QED
      BY <1>1, <3>2 DEF ThrowsOnlyForFirst, SenderItems, Exact, items_at
  <2>2. CASE phase' # "threw"
    BY <2>2 DEF ThrowsOnlyForFirst
  <2> QED
    BY <2>1, <2>2
<1> QED
  BY <1>2, <1>3, <1>4, <1>6, <1>7 DEF MatchingInv

\* Steps that leave the table, the translation and the matches alone.
LEMMA ReturnKeeps == MatchingInv /\ (Return \/ UNCHANGED vars) => MatchingInv'
<1> SUFFICES ASSUME MatchingInv, Return \/ UNCHANGED vars PROVE MatchingInv'
  OBVIOUS
<1>0. StateTypes /\ SenderComplete /\ TableSound /\ TranslationSound /\ Booked /\ ThrowsOnlyForFirst
  BY DEF MatchingInv
<1>1. UNCHANGED <<items, bundles, wrong, next, table, itt, arrived, found>>
  BY DEF Return, vars
<1>2. phase' = phase \/ (phase = "sent" /\ phase' = "returned" /\ arrived = Bundle)
  BY DEF Return, vars
<1>3. StateTypes' /\ SenderComplete'
  BY <1>0, <1>1, <1>2 DEF StateTypes, SenderComplete
<1>4. TableSound'
  BY <1>0, <1>1 DEF TableSound, Held, items_at
<1>5. TranslationSound'
  BY <1>0, <1>1, <1>2 DEF TranslationSound, Answering, LastIdx, ItemIdx, items_at
<1>6. Booked'
  <2>1. \A c : Records(c)' = Records(c)
    BY <1>1 DEF Records, Ones, eval, Idx, Slot, find_item_idx, items_at
  <2>2. UNION {Records(c)' : c \in arrived'} = UNION {Records(c) : c \in arrived}
    BY <1>1, <2>1
  <2> QED
    BY <1>0, <1>1, <1>2, <2>2 DEF Booked, Answering
<1>7. ThrowsOnlyForFirst'
  BY <1>0, <1>1, <1>2 DEF ThrowsOnlyForFirst, SenderItems, Exact, items_at
<1> QED
  BY <1>3, <1>4, <1>5, <1>6, <1>7 DEF MatchingInv
----------------------------------------------------------------------------
(***************************************************************************)
(* The matching invariant: what the table, the translation and the matches *)
(* have to do with each other at each point of a query.                    *)
(***************************************************************************)
THEOREM MatchingInvariant == Spec => []MatchingInv
<1>1. Init => MatchingInv
  BY InitInv
<1>2. MatchingInv /\ [Next]_vars => MatchingInv'
  BY InsertItemKeeps, TranslateKeeps, ProcessPartKeeps, ReturnKeeps DEF Next
<1> QED
  BY <1>1, <1>2, PTL DEF Spec

\* A match is an item of the sender's at its index, in an answering query.
LEMMA FoundIsMatch ==
  ASSUME MatchingInv, NEW i \in found
  PROVE  /\ i \in ItemIdx /\ (i \in LastIdx \/ i = 0)
         /\ items_at(i) \in SenderItems \/ ~Exact(items_at(i))
<1>1. StateTypes /\ TranslationSound /\ Answering /\ found \subseteq UNION {Records(b) : b \in arrived}
  BY DEF MatchingInv, Booked, Answering, StateTypes
<1>2. PICK b \in Bundle : i \in Records(b)
  BY <1>1 DEF StateTypes
<1>3. PICK n \in Ones(b) : i = Idx(n, b)
  BY <1>2 DEF Records
<1>4. n \in Bin /\ eval(b, Slot(b, n))
  BY DEF Ones
<1> QED
  BY <1>1, <1>3, <1>4, SlotItem, OneIsItem

(***************************************************************************)
(* Types; every item that was inserted has one location of its own, also   *)
(* after others moved it (create_query).                                   *)
(***************************************************************************)
THEOREM MatchingTypes == Spec => []TypeOK
<1>1. MatchingInv => TypeOK
  <2> SUFFICES ASSUME MatchingInv PROVE TypeOK
    OBVIOUS
  <2>1. found \subseteq ItemIdx
    BY FoundIsMatch
  <2> QED
    BY <2>1 DEF MatchingInv, StateTypes, TableSound, TranslationSound, Answering, TypeOK
<1> QED
  BY <1>1, MatchingInvariant, PTL

(***************************************************************************)
(* No record is positive for an item that the sender does not have, unless *)
(* eval errs for that item (process_result_part).                          *)
(***************************************************************************)
THEOREM NoFalseMatch == Spec => []MatchesAreTrue
<1>1. MatchingInv => MatchesAreTrue
  BY FoundIsMatch DEF MatchesAreTrue
<1> QED
  BY <1>1, MatchingInvariant, PTL

(***************************************************************************)
(* A query that returns has found, of the items for which eval does not    *)
(* err, exactly those in the intersection, at their last index             *)
(* (create_query, insert_or_assign and process_result_part together).      *)
(***************************************************************************)
THEOREM IntersectionFound == Spec => []FindsIntersection
<1>1. ASSUME MatchingInv, phase = "returned", NEW i \in LastIdx,
             items_at(i) \in SenderItems, Exact(items_at(i))
      PROVE  i \in found
  <2>0. StateTypes /\ SenderComplete /\ TableSound /\ TranslationSound /\ Answering /\ arrived = Bundle
    BY <1>1 DEF MatchingInv, Booked, Answering
  <2>1. UNION {Records(b) : b \in Bundle} \subseteq found
    BY <1>1, <2>0 DEF MatchingInv, Booked
  <2>2. items_at(i) \in Held
    BY <2>0 DEF TableSound, TranslationSound, ItemIdx, LastIdx
  <2>3. PICK l \in Location : table[l] = items_at(i) /\ table[l] # Empty
    BY <2>2 DEF Held
  <2>4. PICK c \in Bundle : items_at(i) \in bundles[c]
    BY <1>1 DEF SenderItems
  <2> DEFINE b == l \div BinsPerBundle
             n == l % BinsPerBundle
  <2>5. b \in Bundle /\ n \in Bin /\ TableIdx(n, b) = l
    <3>1. b \in Bundle /\ n \in Bin /\ b * BinsPerBundle + n = l
      BY LocationIsBin
    <3> QED
      BY <3>1, BinIsLocation
  <2>6. items_at(i) \in bundles[b]
    BY <2>0, <2>3, <2>4 DEF SenderComplete, TableSound
  <2> HIDE DEF b, n
  <2>7. Slot(b, n) = items_at(i) /\ Idx(n, b) \in LastIdx /\ items_at(Idx(n, b)) = items_at(i)
    BY <2>0, <2>3, <2>5, SlotItem
  <2>8. n \in Ones(b)
    BY <1>1, <2>5, <2>6, <2>7 DEF Ones, eval, Exact
  <2>9. Idx(n, b) = i
    BY <2>0, <2>7 DEF LastIdx, ItemIdx, StateTypes
  <2> QED
    BY <2>1, <2>5, <2>8, <2>9 DEF Records
<1>2. MatchingInv => FindsIntersection
  BY <1>1, FoundIsMatch DEF FindsIntersection, MatchesAreTrue
<1> QED
  BY <1>2, MatchingInvariant, PTL

(***************************************************************************)
(* The exception for a duplicate match needs bins without items, and       *)
(* items[0] in the intersection or eval erring for it                      *)
(* (process_result_part).                                                  *)
(***************************************************************************)
THEOREM OnlyFirstThrows == Spec => []ThrowsOnlyForFirst
<1>1. MatchingInv => ThrowsOnlyForFirst
  BY DEF MatchingInv
<1> QED
  BY <1>1, MatchingInvariant, PTL
=============================================================================
