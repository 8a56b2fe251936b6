--------------------------- MODULE SenderDBProofs ---------------------------
(***************************************************************************)
(* Proofs about SenderDB, for any databases, callers, items and calls, and *)
(* any number of bundles: what the database holds while calls insert into  *)
(* it, clear it, move it and read it.                                      *)
(***************************************************************************)
EXTENDS SenderDB, TLAPS

Place == {"idle", "clear", "insert", "adding", "moveThis", "moveSource", "query", "count", "evaluate"}
BundleType == [items : SUBSET Item, last : Item \cup {None}, leaves : Int, size : Int]

\* Shapes of the variables, which TypeOK leaves out.
Shapes ==
  /\ DOMAIN bundles = DB
  /\ \A d \in DB : DOMAIN bundles[d] \subseteq Bundle /\ bundles[d] \in [DOMAIN bundles[d] -> BundleType]
  /\ DOMAIN item_count = DB
  /\ readers \in [DB -> [Caller -> Nat]] /\ writer \in [DB -> Caller \cup {None}]
  /\ pc \in [Caller -> Place] /\ DOMAIN call = Caller
  /\ \A c \in Caller : pc[c] # "idle" => call[c] \in CallType
  /\ left \in [Caller -> SUBSET (Item \X Bundle)] /\ adding \in [Caller -> SUBSET (Item \X Bundle)]
  /\ put \in [DB -> SUBSET Item]
  /\ undefined \in BOOLEAN

\* What the sizes and the tasks are (the first and last part of TypeOK).
Sized ==
  \A d \in DB : \A b \in DOMAIN bundles[d] :
    IF bundles[d][b].items = {} THEN bundles[d][b].size \in Garbage
    ELSE bundles[d][b].size = bundles[d][b].leaves
TasksOfInserts == \A c \in Caller : pc[c] # "adding" => left[c] = {} /\ adding[c] = {}

\* A database that is being written is not read, and a move assignment that
\* has locked its target holds the lock.
Locked ==
  /\ \A d \in DB : writer[d] # None => \A c \in Caller : readers[d][c] = 0
  /\ \A c \in Caller : pc[c] = "moveSource" => writer[db(c)] = c

\* Caller e has still to insert item x in bundle b of database d.
UnderWay(e, d, x, b) == pc[e] = "adding" /\ db(e) = d /\ <<x, b>> \in left[e] \cup adding[e]

\* What is still to be inserted was put into the database and belongs there.
Placed ==
  \A e \in Caller, d \in DB, x \in Item, b \in Bundle :
    UnderWay(e, d, x, b) => x \in put[d] /\ b \in Home[x]

\* HoldsWhatWasPut, item by item.
Held ==
  \A d \in DB : \A b \in DOMAIN bundles[d] : \A x \in Item :
    \/ \E e \in Caller : UnderWay(e, d, x, b)
    \/ x \in bundles[d][b].items <=> x \in put[d] /\ b \in Home[x]

\* The inductive invariant.
DBInv == Shapes /\ Sized /\ TasksOfInserts /\ Locked /\ Placed /\ Held

\* Every bundle that an item is placed in is one of its locations.
LEMMA PlacementsAtHome ==
  ASSUME NEW items \in SUBSET Item
  PROVE  /\ Placements(items) \subseteq Item \X Bundle
         /\ \A x \in Item, b \in Bundle : <<x, b>> \in Placements(items) <=> x \in items /\ b \in Home[x]
BY DEF Placements, Locations

LEMMA InvImpliesHolds == DBInv => HoldsWhatWasPut
<1> SUFFICES ASSUME DBInv
             PROVE  HoldsWhatWasPut
  OBVIOUS
<1>1. TypeOK
  BY DEF DBInv, Shapes, Sized, TasksOfInserts, Locked, TypeOK
<1>2. ASSUME NEW d \in DB, NEW b \in DOMAIN bundles[d]
      PROVE  LET underWay == {p[1] : p \in {q \in Pending(d) : q[2] = b}}
             IN  bundles[d][b].items \ underWay = {x \in put[d] : b \in Home[x]} \ underWay
  <2> DEFINE underWay == {p[1] : p \in {q \in Pending(d) : q[2] = b}}
  <2>1. b \in Bundle /\ bundles[d][b].items \subseteq Item /\ put[d] \subseteq Item
    BY DEF DBInv, Shapes, BundleType
  <2>2. ASSUME NEW x \in Item
        PROVE  x \in underWay <=> \E e \in Caller : UnderWay(e, d, x, b)
    <3>1. ASSUME NEW e \in Caller, UnderWay(e, d, x, b)
          PROVE  x \in underWay
      <4>1. <<x, b>> \in Pending(d) /\ <<x, b>>[1] = x /\ <<x, b>>[2] = b
        BY <3>1 DEF UnderWay, Pending
      <4> QED
        BY <4>1
    <3>2. ASSUME x \in underWay
          PROVE  \E e \in Caller : UnderWay(e, d, x, b)
      <4>1. PICK q \in Pending(d) : q[2] = b /\ q[1] = x
        BY <3>2
      <4>2. PICK e \in Caller : pc[e] = "adding" /\ db(e) = d /\ q \in left[e] \cup adding[e]
        BY DEF Pending
      <4>3. q = <<x, b>>
        BY <4>1, <4>2 DEF DBInv, Shapes
      <4> QED
        BY <4>2, <4>3 DEF UnderWay
    <3> QED
      BY <3>1, <3>2
  <2>3. \A x \in Item : x \in underWay \/ (x \in bundles[d][b].items <=> x \in put[d] /\ b \in Home[x])
    BY <2>2 DEF DBInv, Held
  <2> HIDE DEF underWay
  <2>4. bundles[d][b].items \ underWay = {x \in put[d] : b \in Home[x]} \ underWay
    BY <2>1, <2>3
  <2> QED
    BY <2>4 DEF underWay
<1> QED
  BY <1>1, <1>2 DEF HoldsWhatWasPut

----------------------------------------------------------------------------
(***************************************************************************)
(* The steps preserve the invariant.                                       *)
(***************************************************************************)

LEMMA InitiallyDB == Init => DBInv
<1> SUFFICES ASSUME Init
             PROVE  DBInv
  OBVIOUS
<1>1. ASSUME NEW d \in DB
      PROVE  \E s \in Garbage : bundles[d] = [b \in Bundle |-> NewBundle(s)]
  BY DEF Init
<1>2. ASSUME NEW d \in DB
      PROVE  /\ DOMAIN bundles[d] = Bundle /\ bundles[d] \in [Bundle -> BundleType]
             /\ \A b \in Bundle : bundles[d][b].items = {} /\ bundles[d][b].size \in Garbage
  <2>1. PICK s \in Garbage : bundles[d] = [b \in Bundle |-> NewBundle(s)]
    BY <1>1
  <2>2. NewBundle(s) \in BundleType /\ NewBundle(s).items = {} /\ NewBundle(s).size = s
    BY SenderDBAssumption DEF NewBundle, BundleType
  <2> QED
    BY <2>1, <2>2
<1>3. Shapes
  <2>1. \A d \in DB : DOMAIN bundles[d] \subseteq Bundle /\ bundles[d] \in [DOMAIN bundles[d] -> BundleType]
    BY <1>2
  <2>2. DOMAIN bundles = DB
    BY DEF Init
  <2>3. readers \in [DB -> [Caller -> Nat]]
    BY DEF Init
  <2> QED
    BY <2>1, <2>2, <2>3 DEF Init, Shapes, Place
<1>4. Sized /\ TasksOfInserts /\ Locked /\ Placed
  BY <1>2 DEF Init, Sized, TasksOfInserts, Locked, Placed, UnderWay
<1>5. Held
  BY <1>2 DEF Init, Held
<1> QED
  BY <1>3, <1>4, <1>5 DEF DBInv

\* What a step of caller c leaves alone.
LEMMA StepFrame ==
  ASSUME Shapes, NEW c \in Caller, NEW from \in Place, NEW to \in Place, Step(c, from, to)
  PROVE  /\ pc' \in [Caller -> Place] /\ pc[c] = from /\ pc'[c] = to
         /\ \A e \in Caller : e # c => pc'[e] = pc[e]
         /\ ~undefined /\ undefined' = FALSE
BY DEF Shapes, Step

\* A step of a caller without tasks that changes no bundle.
LEMMA QuietKeepsHeld ==
  ASSUME DBInv, NEW c \in Caller, left[c] = {}, adding[c] = {},
         UNCHANGED <<bundles, put, left, adding>>,
         \A e \in Caller : e # c => pc'[e] = pc[e] /\ call'[e] = call[e]
  PROVE  Sized' /\ TasksOfInserts' /\ Placed' /\ Held'
<1>1. \A e \in Caller, d \in DB : \A x, b : UnderWay(e, d, x, b)' <=> UnderWay(e, d, x, b)
  BY DEF UnderWay, db
<1>2. Sized' /\ TasksOfInserts'
  BY DEF DBInv, Sized, TasksOfInserts
<1>3. Placed'
  BY <1>1 DEF DBInv, Placed
<1>4. Held'
  <2> SUFFICES ASSUME NEW d \in DB, NEW b \in DOMAIN bundles[d], NEW x \in Item
               PROVE  \/ \E e \in Caller : UnderWay(e, d, x, b)'
                      \/ x \in bundles[d][b].items <=> x \in put[d] /\ b \in Home[x]
    BY DEF Held
  <2> QED
    BY <1>1 DEF DBInv, Held
<1> QED
  BY <1>2, <1>3, <1>4

\* The steps that are quiet.
Quiet(c) ==
  \/ \E k \in Calls : Begin(c, k)
  \/ Clear(c) \/ MoveLockThis(c) \/ CountItems(c) \/ LockRead(c) \/ CountBundles(c) \/ Evaluate(c)

LEMMA QuietKeeps ==
  ASSUME DBInv, NEW c \in Caller, Quiet(c)
  PROVE  DBInv'
<1> USE DEF DBInv
<1>1. ASSUME NEW k \in Calls, Begin(c, k)
      PROVE  DBInv'
  <2>1. /\ pc[c] = "idle" /\ call' = [call EXCEPT ![c] = k] /\ k \in CallType
        /\ \E to \in {"idle", "clear", "insert", "query", "moveThis"} : pc' = [pc EXCEPT ![c] = to]
        /\ UNCHANGED <<dataVars, lockVars, left, adding, undefined>>
    <3>1. k \in CallType /\ k.op \in {"insert", "clear", "set", "query", "move"}
      BY SenderDBAssumption DEF CallType
    <3> QED
      BY <1>1, <3>1 DEF Begin
  <2>2. left[c] = {} /\ adding[c] = {}
    BY <2>1 DEF TasksOfInserts
  <2>3. Shapes'
    BY <2>1 DEF Shapes, Place, dataVars, lockVars
  <2>4. \A e \in Caller : e # c => pc'[e] = pc[e] /\ call'[e] = call[e]
    BY <2>1 DEF Shapes
  <2>5. Locked'
    BY <2>1, <2>4 DEF Shapes, Locked, lockVars, db
  <2>6. Sized' /\ TasksOfInserts' /\ Placed' /\ Held'
    BY <2>1, <2>2, <2>4, QuietKeepsHeld DEF dataVars
  <2> QED
    BY <2>3, <2>5, <2>6
<1>2. ASSUME NEW from \in Place, NEW to \in Place, Step(c, from, to), UNCHANGED <<bundles, put, call, left, adding>>,
             from = "adding" => left[c] = {} /\ adding[c] = {}
      PROVE  /\ Sized' /\ TasksOfInserts' /\ Placed' /\ Held'
             /\ pc' \in [Caller -> Place] /\ undefined' \in BOOLEAN
             /\ pc'[c] = to /\ \A e \in Caller : e # c => pc'[e] = pc[e]
  <2>1. /\ pc' \in [Caller -> Place] /\ pc[c] = from /\ pc'[c] = to
        /\ \A e \in Caller : e # c => pc'[e] = pc[e]
        /\ undefined' = FALSE
    BY <1>2, StepFrame
  <2>2. left[c] = {} /\ adding[c] = {}
    BY <1>2, <2>1 DEF TasksOfInserts
  <2> QED
    BY <1>2, <2>1, <2>2, QuietKeepsHeld
<1>3. ASSUME NEW from \in Place \ {"idle"}, NEW to \in Place, Step(c, from, to),
             UNCHANGED <<bundles, put, call, left, adding>>,
             DOMAIN item_count' = DB, readers' \in [DB -> [Caller -> Nat]], writer' \in [DB -> Caller \cup {None}]
      PROVE  Shapes'
  <2>1. /\ pc' \in [Caller -> Place] /\ undefined' \in BOOLEAN /\ pc[c] = from
        /\ \A e \in Caller : e # c => pc'[e] = pc[e]
    BY <1>3, StepFrame
  <2>2. \A e \in Caller : pc'[e] # "idle" => call[e] \in CallType
    BY <1>3, <2>1 DEF Shapes
  <2> QED
    BY <1>3, <2>1, <2>2 DEF Shapes
<1>4. pc[c] # "idle" => db(c) \in DB
  BY DEF Shapes, CallType, db
<1>5. CASE Clear(c)
  <2>1. PICK to \in {"insert", "idle"} : Step(c, "clear", to)
    BY <1>5 DEF Clear
  <2>2. /\ UNCHANGED <<bundles, put, call, left, adding, readers, writer>>
        /\ DOMAIN item_count' = DB
    BY <1>5 DEF Clear, lockVars, Shapes
  <2>3. Shapes'
    BY <1>3, <2>1, <2>2 DEF Place, Shapes
  <2>4. /\ Sized' /\ TasksOfInserts' /\ Placed' /\ Held' /\ pc'[c] = to
        /\ \A e \in Caller : e # c => pc'[e] = pc[e]
    BY <1>2, <2>1, <2>2 DEF Place
  <2>5. Locked'
    BY <2>2, <2>4 DEF Locked, db
  <2> QED
    BY <2>3, <2>4, <2>5
<1>6. CASE MoveLockThis(c)
  <2>1. /\ Step(c, "moveThis", "moveSource") /\ Unread(db(c))
        /\ writer' = [writer EXCEPT ![db(c)] = c]
        /\ UNCHANGED <<bundles, put, call, left, adding, readers>>
        /\ DOMAIN item_count' = DB
    BY <1>6 DEF MoveLockThis, Shapes
  <2>2. db(c) \in DB
    BY <1>4, <2>1 DEF Step
  <2>3. Shapes'
    BY <1>3, <2>1 DEF Place, Shapes
  <2>4. /\ Sized' /\ TasksOfInserts' /\ Placed' /\ Held' /\ pc'[c] = "moveSource"
        /\ \A e \in Caller : e # c => pc'[e] = pc[e]
    BY <1>2, <2>1 DEF Place
  <2>5. writer'[db(c)] = c /\ \A d \in DB : d # db(c) => writer'[d] = writer[d]
    BY <2>1, <2>2 DEF Shapes
  <2>6. Locked'
    <3>1. \A d \in DB : writer'[d] # None => \A e \in Caller : readers'[d][e] = 0
      BY <2>1, <2>5 DEF Locked, Unread
    <3>2. ASSUME NEW e \in Caller, pc'[e] = "moveSource"
          PROVE  writer'[db(e)'] = e
      <4>1. CASE e = c
        BY <2>1, <2>5, <4>1 DEF db
      <4>2. CASE e # c
        <5>1. db(e)' = db(e) /\ writer[db(e)] = e /\ db(e) \in DB
          BY <2>1, <2>4, <3>2, <4>2 DEF db, Locked, Shapes, CallType
        <5>2. db(e) # db(c)
          BY <2>1, <5>1, SenderDBAssumption DEF Unread, Free
        <5> QED
          BY <2>5, <5>1, <5>2
      <4> QED
        BY <4>1, <4>2
    <3> QED
      BY <3>1, <3>2 DEF Locked
  <2> QED
    BY <2>3, <2>4, <2>6
<1>7. CASE CountItems(c) \/ CountBundles(c)
  <2>1. PICK from \in {"adding", "count"}, to \in {"idle", "evaluate"} :
          Step(c, from, to) /\ (from = "adding" => left[c] = {} /\ adding[c] = {})
    BY <1>7 DEF CountItems, CountBundles
  <2>2. /\ UNCHANGED <<bundles, put, call, left, adding, readers, writer>>
        /\ DOMAIN item_count' = DB
    BY <1>7 DEF CountItems, CountBundles, lockVars, dataVars, Shapes
  <2>3. Shapes'
    BY <1>3, <2>1, <2>2 DEF Place, Shapes
  <2>4. /\ Sized' /\ TasksOfInserts' /\ Placed' /\ Held' /\ pc'[c] = to
        /\ \A e \in Caller : e # c => pc'[e] = pc[e]
    BY <1>2, <2>1, <2>2 DEF Place
  <2>5. Locked'
    BY <2>2, <2>4 DEF Locked, db
  <2> QED
    BY <2>3, <2>4, <2>5
<1>8. CASE LockRead(c) \/ Evaluate(c)
  <2>1. PICK from \in {"query", "evaluate"}, to \in {"idle", "count"} : Step(c, from, to)
    BY <1>8 DEF LockRead, Evaluate
  <2>2. /\ UNCHANGED <<bundles, put, call, left, adding, writer>>
        /\ DOMAIN item_count' = DB
    BY <1>8 DEF LockRead, Evaluate, dataVars, Shapes
  <2>3. db(c) \in DB
    BY <1>4, <2>1 DEF Step
  <2>4. \E n \in Nat : /\ readers' = [readers EXCEPT ![db(c)][c] = n]
                       /\ n = 0 \/ writer[db(c)] = None
    <3>1. readers[db(c)][c] \in Nat
      BY <2>3 DEF Shapes
    <3>2. readers[db(c)][c] + 1 \in Nat
      BY <3>1
    <3> QED
      BY <1>8, <3>2 DEF LockRead, Free, Evaluate, Released
  <2>5. readers' \in [DB -> [Caller -> Nat]]
    BY <2>3, <2>4 DEF Shapes
  <2>6. Shapes'
    BY <1>3, <2>1, <2>2, <2>5 DEF Place, Shapes
  <2>7. /\ Sized' /\ TasksOfInserts' /\ Placed' /\ Held' /\ pc'[c] = to
        /\ \A e \in Caller : e # c => pc'[e] = pc[e]
    BY <1>2, <2>1, <2>2 DEF Place
  <2>8. \A d \in DB : writer[d] # None => \A e \in Caller : readers'[d][e] = 0
    BY <2>3, <2>4 DEF Locked, Shapes
  <2>9. Locked'
    BY <2>2, <2>7, <2>8 DEF Locked, db
  <2> QED
    BY <2>6, <2>7, <2>9
<1> QED
  BY <1>1, <1>5, <1>6, <1>7, <1>8 DEF Quiet

\* A move assignment: nobody reads either database or inserts into it.
LEMMA MoveKeeps ==
  ASSUME DBInv, NEW c \in Caller, MoveSource(c)
  PROVE  DBInv'
<1> USE DEF DBInv
<1> DEFINE d == db(c)
           s == call[c].source
<1>1. /\ Step(c, "moveSource", "idle") /\ Unread(s) /\ ~Inserting(s) /\ ~Inserting(d)
      /\ bundles' = [bundles EXCEPT ![d] = bundles[s], ![s] = Moved]
      /\ item_count' = [item_count EXCEPT ![s] = 0]
      /\ put' = [put EXCEPT ![d] = put[s], ![s] = {}]
      /\ writer' = [writer EXCEPT ![d] = None]
      /\ UNCHANGED <<readers, call, left, adding>>
  BY DEF MoveSource
<1>2. /\ pc' \in [Caller -> Place] /\ pc[c] = "moveSource" /\ pc'[c] = "idle"
      /\ \A e \in Caller : e # c => pc'[e] = pc[e]
      /\ undefined' \in BOOLEAN
  BY <1>1, StepFrame DEF Place
<1>3. d \in DB /\ s \in DB
  BY <1>2 DEF Shapes, CallType, db
<1> HIDE DEF d, s
<1>4. ASSUME NEW e \in DB
      PROVE  /\ bundles'[e] = IF e = s THEN Moved ELSE IF e = d THEN bundles[s] ELSE bundles[e]
             /\ put'[e] = IF e = s THEN {} ELSE IF e = d THEN put[s] ELSE put[e]
  BY <1>1, <1>3 DEF Shapes
<1>5. DOMAIN Moved = {} /\ Moved \in [{} -> BundleType]
  BY DEF Moved
<1>6. Shapes'
  <2>1. \A e \in DB : DOMAIN bundles'[e] \subseteq Bundle /\ bundles'[e] \in [DOMAIN bundles'[e] -> BundleType]
    BY <1>3, <1>4, <1>5 DEF Shapes
  <2>2. DOMAIN bundles' = DB /\ DOMAIN item_count' = DB /\ writer' \in [DB -> Caller \cup {None}]
    BY <1>1 DEF Shapes
  <2>3. put' \in [DB -> SUBSET Item]
    BY <1>1, <1>3 DEF Shapes
  <2>4. \A e \in Caller : pc'[e] # "idle" => call[e] \in CallType
    BY <1>2 DEF Shapes
  <2> QED
    BY <1>1, <1>2, <2>1, <2>2, <2>3, <2>4 DEF Shapes
<1>7. Sized'
  <2> SUFFICES ASSUME NEW e \in DB, NEW b \in DOMAIN bundles'[e]
               PROVE  IF bundles'[e][b].items = {} THEN bundles'[e][b].size \in Garbage
                      ELSE bundles'[e][b].size = bundles'[e][b].leaves
    BY DEF Sized
  <2>1. e # s
    BY <1>4, <1>5
  <2> QED
    BY <1>3, <1>4, <2>1 DEF Sized
<1>8. TasksOfInserts'
  BY <1>1, <1>2 DEF TasksOfInserts
<1>9. ASSUME NEW e \in Caller, NEW f \in DB, NEW x, NEW b
      PROVE  /\ UnderWay(e, f, x, b)' <=> UnderWay(e, f, x, b)
             /\ UnderWay(e, f, x, b) => f # s /\ f # d
  BY <1>1, <1>2 DEF UnderWay, db, Inserting
<1>10. Locked'
  <2>1. writer'[d] = None /\ \A e \in DB : e # d => writer'[e] = writer[e]
    BY <1>1, <1>3 DEF Shapes
  <2>2. writer[d] = c
    BY <1>2 DEF Locked, d
  <2>3. ASSUME NEW e \in Caller, pc'[e] = "moveSource"
        PROVE  writer'[db(e)'] = e
    <3>1. e # c /\ pc[e] = "moveSource" /\ db(e)' = db(e)
      BY <1>1, <1>2, <2>3 DEF db
    <3>2. writer[db(e)] = e /\ db(e) \in DB
      BY <3>1 DEF Locked, Shapes, CallType, db
    <3> QED
      BY <2>1, <2>2, <3>1, <3>2
  <2> QED
    BY <1>1, <2>1, <2>3 DEF Locked
<1>11. Placed'
  <2> SUFFICES ASSUME NEW e \in Caller, NEW f \in DB, NEW x \in Item, NEW b \in Bundle, UnderWay(e, f, x, b)'
               PROVE  x \in put'[f] /\ b \in Home[x]
    BY DEF Placed
  <2> QED
    BY <1>4, <1>9 DEF Placed
<1>12. Held'
  <2> SUFFICES ASSUME NEW f \in DB, NEW b \in DOMAIN bundles'[f], NEW x \in Item
               PROVE  \/ \E e \in Caller : UnderWay(e, f, x, b)'
                      \/ x \in bundles'[f][b].items <=> x \in put'[f] /\ b \in Home[x]
    BY DEF Held
  <2>1. f # s
    BY <1>4, <1>5
  <2>2. CASE f = d
    <3>1. bundles'[f] = bundles[s] /\ put'[f] = put[s]
      BY <1>4, <2>1, <2>2
    <3>2. \A e \in Caller : ~UnderWay(e, s, x, b)
      BY <1>3, <1>9
    <3> QED
      BY <1>3, <3>1, <3>2 DEF Held
  <2>3. CASE f # d
    <3>1. bundles'[f] = bundles[f] /\ put'[f] = put[f]
      BY <1>4, <2>1, <2>3
    <3> QED
      BY <1>9, <3>1 DEF Held
  <2> QED
    BY <2>2, <2>3
<1> QED
  BY <1>6, <1>7, <1>8, <1>10, <1>11, <1>12

\* A call that begins to insert: everything it puts is under way.
LEMMA StartInsertKeeps ==
  ASSUME DBInv, NEW c \in Caller, StartInsert(c)
  PROVE  DBInv'
<1> USE DEF DBInv
<1> DEFINE d == db(c)
           items == call[c].items
           P == Placements(items)
<1>1. /\ Step(c, "insert", "adding")
      /\ left' = [left EXCEPT ![c] = P]
      /\ put' = [put EXCEPT ![d] = @ \cup items]
      /\ UNCHANGED <<bundles, item_count, readers, writer, call, adding>>
  BY DEF StartInsert, lockVars
<1>2. /\ pc' \in [Caller -> Place] /\ pc[c] = "insert" /\ pc'[c] = "adding"
      /\ \A e \in Caller : e # c => pc'[e] = pc[e]
      /\ undefined' \in BOOLEAN
  BY <1>1, StepFrame DEF Place
<1>3. d \in DB /\ items \in SUBSET Item
  BY <1>2 DEF Shapes, CallType, db
<1>4. /\ P \subseteq Item \X Bundle
      /\ \A x \in Item, b \in Bundle : <<x, b>> \in P <=> x \in items /\ b \in Home[x]
  BY <1>3, PlacementsAtHome
<1> HIDE DEF d, items, P
<1>5. /\ left' \in [Caller -> SUBSET (Item \X Bundle)] /\ left'[c] = P
      /\ \A e \in Caller : e # c => left'[e] = left[e]
  BY <1>1, <1>4 DEF Shapes
<1>6. /\ put' \in [DB -> SUBSET Item] /\ put'[d] = put[d] \cup items
      /\ \A f \in DB : f # d => put'[f] = put[f]
  BY <1>1, <1>3 DEF Shapes
<1>7. left[c] = {} /\ adding[c] = {}
  BY <1>2 DEF TasksOfInserts
<1>8. ASSUME NEW e \in Caller, NEW f \in DB, NEW x \in Item, NEW b \in Bundle
      PROVE  UnderWay(e, f, x, b)' <=> UnderWay(e, f, x, b) \/ (e = c /\ f = d /\ x \in items /\ b \in Home[x])
  <2>1. CASE e = c
    BY <1>1, <1>2, <1>4, <1>5, <1>7, <2>1 DEF UnderWay, db, d
  <2>2. CASE e # c
    BY <1>1, <1>2, <1>5, <2>2 DEF UnderWay, db
  <2> QED
    BY <2>1, <2>2
<1>9. Shapes'
  <2>1. \A e \in Caller : pc'[e] # "idle" => call[e] \in CallType
    BY <1>2 DEF Shapes
  <2> QED
    BY <1>1, <1>2, <1>5, <1>6, <2>1 DEF Shapes
<1>10. Sized' /\ TasksOfInserts' /\ Locked'
  BY <1>1, <1>2, <1>5 DEF Sized, TasksOfInserts, Locked, db
<1>11. Placed'
  <2> SUFFICES ASSUME NEW e \in Caller, NEW f \in DB, NEW x \in Item, NEW b \in Bundle, UnderWay(e, f, x, b)'
               PROVE  x \in put'[f] /\ b \in Home[x]
    BY DEF Placed
  <2>1. CASE UnderWay(e, f, x, b)
    BY <1>6, <2>1 DEF Placed
  <2>2. CASE ~UnderWay(e, f, x, b)
    BY <1>6, <1>8, <2>2
  <2> QED
    BY <2>1, <2>2
<1>12. Held'
  <2> SUFFICES ASSUME NEW f \in DB, NEW b \in DOMAIN bundles[f], NEW x \in Item,
                      \A e \in Caller : ~UnderWay(e, f, x, b)'
               PROVE  x \in bundles[f][b].items <=> x \in put'[f] /\ b \in Home[x]
    BY <1>1 DEF Held
  <2>1. b \in Bundle
    BY DEF Shapes
  <2>2. x \in bundles[f][b].items <=> x \in put[f] /\ b \in Home[x]
    BY <1>8, <2>1 DEF Held
  <2>3. ~(f = d /\ x \in items /\ b \in Home[x])
    BY <1>8, <2>1
  <2> QED
    BY <1>6, <2>2, <2>3
<1> QED
  BY <1>9, <1>10, <1>11, <1>12

\* A task takes up an insertion, which stays under way.
LEMMA BeginAddKeeps ==
  ASSUME DBInv, NEW c \in Caller, BeginAdd(c)
  PROVE  DBInv'
<1> USE DEF DBInv
<1>1. PICK p \in left[c] : /\ left' = [left EXCEPT ![c] = @ \ {p}]
                           /\ adding' = [adding EXCEPT ![c] = @ \cup {p}]
  BY DEF BeginAdd
<1>2. Step(c, "adding", "adding") /\ UNCHANGED <<bundles, item_count, put, readers, writer, call>>
  BY DEF BeginAdd, dataVars, lockVars
<1>3. pc' = pc /\ pc[c] = "adding" /\ undefined' \in BOOLEAN
  BY <1>2 DEF Step, Shapes
<1>4. /\ left' \in [Caller -> SUBSET (Item \X Bundle)] /\ adding' \in [Caller -> SUBSET (Item \X Bundle)]
      /\ \A e \in Caller : left'[e] \cup adding'[e] = left[e] \cup adding[e]
      /\ \A e \in Caller : e # c => left'[e] = left[e] /\ adding'[e] = adding[e]
  BY <1>1 DEF Shapes
<1>5. \A e \in Caller, f \in DB : \A x, b : UnderWay(e, f, x, b)' <=> UnderWay(e, f, x, b)
  BY <1>2, <1>3, <1>4 DEF UnderWay, db
<1>6. Shapes'
  BY <1>2, <1>3, <1>4 DEF Shapes
<1>7. Sized' /\ TasksOfInserts' /\ Locked'
  BY <1>2, <1>3, <1>4 DEF Sized, TasksOfInserts, Locked, db
<1>8. Placed'
  BY <1>2, <1>5 DEF Placed
<1>9. Held'
  <2> SUFFICES ASSUME NEW f \in DB, NEW b \in DOMAIN bundles[f], NEW x \in Item
               PROVE  \/ \E e \in Caller : UnderWay(e, f, x, b)'
                      \/ x \in bundles[f][b].items <=> x \in put[f] /\ b \in Home[x]
    BY <1>2 DEF Held
  <2> QED
    BY <1>5 DEF Held
<1> QED
  BY <1>6, <1>7, <1>8, <1>9

\* A task has inserted an item in its bundle.
LEMMA EndAddKeeps ==
  ASSUME DBInv, NEW c \in Caller, EndAdd(c)
  PROVE  /\ DBInv'
         /\ \A f \in DB : \A b \in DOMAIN bundles[f] : b \in DOMAIN bundles'[f] /\ bundles[f][b].items \subseteq bundles'[f][b].items
         /\ \A f \in DB : bundles'[f] # bundles[f] => Inserting(f)
<1> USE DEF DBInv
<1> DEFINE d == db(c)
<1>1. PICK p \in adding[c] : /\ ~Races(c, p) /\ Step(c, "adding", "adding")
                             /\ bundles' = [bundles EXCEPT ![d][p[2]] = Added(@, p[1])]
                             /\ adding' = [adding EXCEPT ![c] = @ \ {p}]
                             /\ UNCHANGED <<item_count, put, readers, writer, call, left>>
  BY DEF EndAdd, lockVars
<1>2. pc' = pc /\ pc[c] = "adding" /\ undefined' \in BOOLEAN
  BY <1>1 DEF Step, Shapes
<1>3. d \in DB
  BY <1>2 DEF Shapes, CallType, db
<1>4. PICK y \in Item, g \in Bundle : p = <<y, g>>
  BY DEF Shapes
<1>5. g \in DOMAIN bundles[d]
  BY <1>1, <1>4 DEF Races, d
<1> HIDE DEF d
<1>6. bundles[d][g] \in BundleType
  BY <1>3, <1>5 DEF Shapes
<1> DEFINE n == bundles[d][g].leaves + (IF y \notin bundles[d][g].items \/ y = bundles[d][g].last THEN 1 ELSE 0)
<1>7. /\ Added(bundles[d][g], y) \in BundleType
      /\ Added(bundles[d][g], y).items = bundles[d][g].items \cup {y}
      /\ Added(bundles[d][g], y).size = Added(bundles[d][g], y).leaves
  <2>1. n \in Int
    BY <1>6 DEF BundleType
  <2> HIDE DEF n
  <2>2. Added(bundles[d][g], y) = [items |-> bundles[d][g].items \cup {y},
                                   last |-> IF y \notin bundles[d][g].items THEN y ELSE bundles[d][g].last,
                                   leaves |-> n, size |-> n]
    BY DEF Added, n
  <2> QED
    BY <1>6, <2>1, <2>2 DEF BundleType
<1>8. /\ DOMAIN bundles' = DB
      /\ \A f \in DB : f # d => bundles'[f] = bundles[f]
      /\ DOMAIN bundles'[d] = DOMAIN bundles[d]
      /\ bundles'[d][g] = Added(bundles[d][g], y)
      /\ \A b \in DOMAIN bundles[d] : b # g => bundles'[d][b] = bundles[d][b]
  BY <1>1, <1>3, <1>4, <1>5 DEF Shapes
<1>9. bundles'[d] \in [DOMAIN bundles[d] -> BundleType]
  <2>1. bundles'[d] = [bundles[d] EXCEPT ![g] = Added(@, y)]
    BY <1>1, <1>3, <1>4 DEF Shapes
  <2> QED
    BY <1>3, <1>7, <2>1 DEF Shapes
<1>10. /\ adding' \in [Caller -> SUBSET (Item \X Bundle)] /\ adding'[c] = adding[c] \ {p}
       /\ \A e \in Caller : e # c => adding'[e] = adding[e]
  BY <1>1 DEF Shapes
<1>11. ASSUME NEW e \in Caller, NEW f \in DB, NEW x \in Item, NEW b \in Bundle
       PROVE  /\ UnderWay(e, f, x, b)' => UnderWay(e, f, x, b)
              /\ UnderWay(e, f, x, b) /\ ~UnderWay(e, f, x, b)' => e = c /\ f = d /\ x = y /\ b = g
  BY <1>1, <1>2, <1>4, <1>10 DEF UnderWay, db, d
<1>12. y \in put[d] /\ g \in Home[y]
  BY <1>2, <1>3, <1>4 DEF Placed, UnderWay, d
<1>13. Shapes'
  <2>1. \A f \in DB : DOMAIN bundles'[f] \subseteq Bundle /\ bundles'[f] \in [DOMAIN bundles'[f] -> BundleType]
    <3> SUFFICES ASSUME NEW f \in DB
                 PROVE  DOMAIN bundles'[f] \subseteq Bundle /\ bundles'[f] \in [DOMAIN bundles'[f] -> BundleType]
      OBVIOUS
    <3>1. CASE f = d
      BY <1>3, <1>8, <1>9, <3>1 DEF Shapes
    <3>2. CASE f # d
      BY <1>8, <3>2 DEF Shapes
    <3> QED
      BY <3>1, <3>2
  <2> QED
    BY <1>1, <1>2, <1>8, <1>10, <2>1 DEF Shapes
<1>14. Sized'
  <2> SUFFICES ASSUME NEW f \in DB, NEW b \in DOMAIN bundles'[f]
               PROVE  IF bundles'[f][b].items = {} THEN bundles'[f][b].size \in Garbage
                      ELSE bundles'[f][b].size = bundles'[f][b].leaves
    BY DEF Sized
  <2>1. CASE f = d /\ b = g
    BY <1>7, <1>8, <2>1
  <2>2. CASE ~(f = d /\ b = g)
    <3>1. b \in DOMAIN bundles[f] /\ bundles'[f][b] = bundles[f][b]
      BY <1>8, <2>2
    <3> QED
      BY <3>1 DEF Sized
  <2> QED
    BY <2>1, <2>2
<1>15. TasksOfInserts' /\ Locked'
  BY <1>1, <1>2, <1>10 DEF TasksOfInserts, Locked, db
<1>16. Placed'
  BY <1>1, <1>11 DEF Placed
<1>17. Held'
  <2> SUFFICES ASSUME NEW f \in DB, NEW b \in DOMAIN bundles'[f], NEW x \in Item,
                      \A e \in Caller : ~UnderWay(e, f, x, b)'
               PROVE  x \in bundles'[f][b].items <=> x \in put[f] /\ b \in Home[x]
    BY <1>1 DEF Held
  <2>1. b \in DOMAIN bundles[f] /\ b \in Bundle
    BY <1>8 DEF Shapes
  <2>2. CASE f = d /\ b = g /\ x = y
    BY <1>7, <1>8, <1>12, <2>2
  <2>3. CASE ~(f = d /\ b = g /\ x = y)
    <3>1. \A e \in Caller : ~UnderWay(e, f, x, b)
      BY <1>11, <2>1, <2>3
    <3>2. x \in bundles[f][b].items <=> x \in put[f] /\ b \in Home[x]
      BY <2>1, <3>1 DEF Held
    <3>3. x \in bundles'[f][b].items <=> x \in bundles[f][b].items
      <4>1. CASE f = d /\ b = g
        BY <1>7, <1>8, <2>3, <4>1
      <4>2. CASE ~(f = d /\ b = g)
        BY <1>8, <2>1, <4>2
      <4> QED
        BY <4>1, <4>2
    <3> QED
      BY <3>2, <3>3
  <2> QED
    BY <2>2, <2>3
<1>18. ASSUME NEW f \in DB, NEW b \in DOMAIN bundles[f]
       PROVE  b \in DOMAIN bundles'[f] /\ bundles[f][b].items \subseteq bundles'[f][b].items
  <2>1. CASE f = d /\ b = g
    BY <1>7, <1>8, <2>1
  <2>2. CASE ~(f = d /\ b = g)
    BY <1>8, <2>2
  <2> QED
    BY <2>1, <2>2
<1>19. ASSUME NEW f \in DB, bundles'[f] # bundles[f]
       PROVE  Inserting(f)
  BY <1>2, <1>8, <1>19 DEF Inserting, d
<1> QED
  BY <1>13, <1>14, <1>15, <1>16, <1>17, <1>18, <1>19

\* The steps after which nothing is claimed.
LEMMA UndefinedKeeps ==
  ASSUME DBInv, GoUndefined
  PROVE  DBInv' /\ UNCHANGED <<bundles, item_count>>
BY DEF GoUndefined, dataVars, lockVars, DBInv, Shapes, Sized, TasksOfInserts, Locked, Placed, Held, UnderWay, db

LEMMA StutterKeepsDB ==
  ASSUME DBInv, UNCHANGED vars
  PROVE  DBInv'
BY DEF vars, dataVars, lockVars, DBInv, Shapes, Sized, TasksOfInserts, Locked, Placed, Held, UnderWay, db

\* The kinds of steps of a caller.
LEMMA StepsOfCaller ==
  ASSUME NEW c \in Caller, (\E k \in Calls : Begin(c, k)) \/ CallStep(c)
  PROVE  Quiet(c) \/ MoveSource(c) \/ StartInsert(c) \/ BeginAdd(c) \/ EndAdd(c) \/ GoUndefined
BY DEF CallStep, Quiet, MoveUndefined, InsertOutOfBounds, RacingAdd, EvaluateUndefined

LEMMA StepKeepsDB == DBInv /\ [Next]_vars => DBInv'
<1> SUFFICES ASSUME DBInv, [Next]_vars
             PROVE  DBInv'
  OBVIOUS
<1>1. CASE UNCHANGED vars
  BY <1>1, StutterKeepsDB
<1>2. CASE Next
  <2>1. PICK c \in Caller : (\E k \in Calls : Begin(c, k)) \/ CallStep(c)
    BY <1>2 DEF Next
  <2> QED
    BY <2>1, StepsOfCaller, QuietKeeps, MoveKeeps, StartInsertKeeps, BeginAddKeeps, EndAddKeeps, UndefinedKeeps
<1> QED
  BY <1>1, <1>2

----------------------------------------------------------------------------
(***************************************************************************)
(* The theorems.                                                           *)
(***************************************************************************)

(***************************************************************************)
(* The inductive invariant holds: in particular what the tasks of          *)
(* insert_or_assign_worker have still to insert was put into the database  *)
(* and belongs in their bundle.                                            *)
(***************************************************************************)
THEOREM DatabaseInvariant == Spec => []DBInv
<1> QED
  BY InitiallyDB, StepKeepsDB, PTL DEF Spec

(***************************************************************************)
(* Every bundle holds exactly the items that were put in the database and  *)
(* have a location there, but for those being inserted, whatever calls     *)
(* insert_or_assign, clear, set_data and move assignment make (as long as  *)
(* nothing undefined happened).                                            *)
(***************************************************************************)
THEOREM HoldsItems == Spec => []HoldsWhatWasPut
<1> QED
  BY DatabaseInvariant, InvImpliesHolds, PTL

\* While a database is read, clear and the two halves of a move wait.
LEMMA ReadersKeepStep ==
  ASSUME DBInv, [Next]_vars, NEW d \in DB, Reading(d)
  PROVE  \/ SameDatabase(d)
         \/ Inserting(d) /\ \A b \in DOMAIN bundles[d] : bundles[d][b].items \subseteq bundles'[d][b].items
<1>1. PICK r \in Caller : readers[d][r] > 0 /\ readers'[d][r] > 0
  BY DEF Reading
<1>2. ~Unread(d) /\ writer[d] = None
  BY <1>1 DEF Unread, DBInv, Locked
<1>3. CASE UNCHANGED vars
  BY <1>3 DEF vars, dataVars, SameDatabase
<1>4. CASE Next
  <2>1. PICK c \in Caller : (\E k \in Calls : Begin(c, k)) \/ CallStep(c)
    BY <1>4 DEF Next
  <2>2. CASE UNCHANGED <<bundles, item_count>>
    BY <2>2 DEF SameDatabase
  <2>3. CASE EndAdd(c)
    <3>1. UNCHANGED item_count
      BY <2>3 DEF EndAdd
    <3>2. CASE bundles'[d] = bundles[d]
      BY <3>1, <3>2 DEF SameDatabase
    <3>3. CASE bundles'[d] # bundles[d]
      BY <2>3, <3>3, EndAddKeeps
    <3> QED
      BY <3>2, <3>3
  <2>4. CASE CountItems(c)
    <3>1. UNCHANGED bundles /\ pc[c] = "adding" /\ \E n : item_count' = [item_count EXCEPT ![db(c)] = n]
      BY <2>4 DEF CountItems, Step
    <3>2. CASE d = db(c)
      BY <3>1, <3>2 DEF Inserting
    <3>3. CASE d # db(c)
      BY <3>1, <3>3 DEF SameDatabase, DBInv, Shapes
    <3> QED
      BY <3>2, <3>3
  <2>5. CASE Clear(c) \/ MoveLockThis(c)
    <3>1. UNCHANGED bundles /\ Unread(db(c)) /\ \E n : item_count' = [item_count EXCEPT ![db(c)] = n]
      BY <2>5 DEF Clear, Clearable, MoveLockThis
    <3>2. d # db(c)
      BY <1>2, <3>1
    <3> QED
      BY <3>1, <3>2 DEF SameDatabase, DBInv, Shapes
  <2>6. CASE MoveSource(c)
    <3>1. /\ Unread(call[c].source) /\ pc[c] = "moveSource"
          /\ bundles' = [bundles EXCEPT ![db(c)] = bundles[call[c].source], ![call[c].source] = Moved]
          /\ item_count' = [item_count EXCEPT ![call[c].source] = 0]
      BY <2>6 DEF MoveSource, Step
    <3>2. d # call[c].source /\ writer[db(c)] = c
      BY <1>2, <3>1 DEF DBInv, Locked
    <3>3. d # db(c)
      BY <1>2, <3>2, SenderDBAssumption
    <3> QED
      BY <3>1, <3>2, <3>3 DEF SameDatabase, DBInv, Shapes
  <2>7. CASE GoUndefined
    BY <2>2, <2>7 DEF GoUndefined, dataVars
  <2>8. CASE StartInsert(c) \/ BeginAdd(c) \/ LockRead(c) \/ CountBundles(c) \/ Evaluate(c)
    BY <2>2, <2>8 DEF StartInsert, BeginAdd, LockRead, CountBundles, Evaluate, dataVars
  <2>9. CASE \E k \in Calls : Begin(c, k)
    BY <2>2, <2>9 DEF Begin, dataVars
  <2> QED
    BY <2>1, <2>3, <2>4, <2>5, <2>6, <2>7, <2>8, <2>9, StepsOfCaller DEF Quiet
<1> QED
  BY <1>3, <1>4

(***************************************************************************)
(* While a query holds the reader lock, neither clear nor a move           *)
(* assignment takes effect: what it reads only grows, by an insertion in   *)
(* progress, which takes no lock.                                          *)
(***************************************************************************)
THEOREM ReadersKeep == Spec => ReadersKeepItems
<1>1. DBInv /\ [Next]_vars => [\A d \in DB : Reading(d) =>
       \/ SameDatabase(d)
       \/ Inserting(d) /\ \A b \in DOMAIN bundles[d] : bundles[d][b].items \subseteq bundles'[d][b].items]_vars
  BY ReadersKeepStep
<1> QED
  BY <1>1, DatabaseInvariant, PTL DEF Spec, ReadersKeepItems

=============================================================================
