------------------------- MODULE NegotiationProofs -------------------------
(***************************************************************************)
(* Proofs about Negotiation, for any receivers and versions, any files     *)
(* that the sender may be restarted with and any number of requests, keys  *)
(* and restarts: a query made with the sender's parameters is served,      *)
(* nothing that a receiver is sent is dropped, and what a query returns is *)
(* one package of each bundle, for this query.                             *)
(***************************************************************************)
EXTENDS Negotiation, FiniteSetTheorems, SequenceTheorems, TLAPS

Phases == {"idle", "params", "response", "parts", "threw"}
Proper == {p \in ParamsFile : initialize(p)}
ProperOrNone == Proper \cup {None}
ResponseType == [type : {"sop_parms", "sop_query"}, version : Nat, params : Proper, package_count : Nat]
PackageType ==
  [type : {"package"}, bundle_idx : Nat, seal_params : SEALParams,
   secret : Nat, relin_keys : Nat, receiver : Receiver]
SenderType == [params : ProperOrNone, version : Nat]
ObjectType == [params : ProperOrNone, secret : Nat, relin_keys : Nat]
FateRecords == [what : FateType, made : ProperOrNone, by : SenderType]

\* Shapes of the variables, which TypeOK leaves out.
Shapes ==
  /\ sender \in SenderType /\ sender.version \in Version \cup {0}
  /\ phase \in [Receiver -> Phases]
  /\ DOMAIN request = Receiver
  /\ inbox \in [Receiver -> Seq(ResponseType \cup PackageType)]
  /\ given \in [Receiver -> ProperOrNone]
  /\ object \in [Receiver -> ObjectType]
  /\ left \in [Receiver -> Nat]
  /\ got \in [Receiver -> SUBSET PackageType]
  /\ fate \in [Receiver -> FateRecords]
  /\ starts \in 0 .. MaxStarts /\ asked \in 0 .. MaxRequests /\ keys \in 0 .. MaxKeys

\* The query of r that object o makes.
QueryOf(r, o) ==
  [type |-> "sop_query", version |-> ReceiverVersion[r],
   params |-> o.params, secret |-> o.secret, relin_keys |-> o.relin_keys]

\* The keys of an object are of one generation.
KeysTogether(o) ==
  o.params # None =>
    /\ o.secret # 0
    /\ o.relin_keys = IF o.params.seal_params.using_keyswitching THEN o.secret ELSE 0

Indices(ms) == {m.bundle_idx : m \in ms}

\* A package for the query that r has made with object o, whose fate is f.
OwnPackage(r, o, f, m) ==
  /\ m \in PackageType
  /\ m.receiver = r /\ m.secret = o.secret /\ m.relin_keys = o.relin_keys
  /\ m.seal_params = o.params.seal_params
  /\ m.bundle_idx \in Bundles(o.params)
  /\ f.what # "overrun" => o.params.seal_params.using_keyswitching

\* The packages s from position k on are such packages, of different bundles
\* not in seen.
OwnPackages(r, o, f, s, k, seen) ==
  \A i \in k .. Len(s) :
    /\ OwnPackage(r, o, f, s[i]) /\ s[i].bundle_idx \notin seen
    /\ \A j \in k .. Len(s) : s[i].bundle_idx = s[j].bundle_idx => i = j

\* What r has got is of different bundles; the others are left.
Collected(r, o, f, ms, n) ==
  /\ \A m \in ms : OwnPackage(r, o, f, m)
  /\ IsFiniteSet(Indices(ms)) /\ Cardinality(Indices(ms)) + n = bundle_idx_count(o.params)

\* What a receiver with request q, inbox s, phase p, object o, n packages
\* left, packages ms and fate f knows.
Session(r, q, s, p, o, n, ms, f) ==
  /\ KeysTogether(o)
  /\ p \in {"idle", "threw"} => q = None /\ s = <<>>
  /\ q # None => s = <<>> /\ q = IF p = "params" THEN Parms(r) ELSE QueryOf(r, o)
  /\ p = "params" /\ s # <<>> => Len(s) = 1 /\ s[1] \in ResponseType /\ s[1].type = "sop_parms" /\ s[1].version = ReceiverVersion[r]
  /\ p \in {"response", "parts"} => o.params # None
  /\ p = "response" =>
       /\ ms = {}
       /\ s # <<>> =>
            /\ s[1] \in ResponseType /\ s[1].type = "sop_query" /\ s[1].version = ReceiverVersion[r]
            /\ s[1].package_count = bundle_idx_count(o.params)
            /\ OwnPackages(r, o, f, s, 2, {})
  /\ p = "parts" =>
       /\ q = None /\ n # 0
       /\ OwnPackages(r, o, f, s, 1, Indices(ms)) /\ Collected(r, o, f, ms, n)

Sessions == \A r \in Receiver : Session(r, request[r], inbox[r], phase[r], object[r], left[r], got[r], fate[r])

\* ServedAsMade, without the types.
FateFits(r, f) ==
  f.what # "pending" /\ f.made # None =>
    /\ f.made = f.by.params /\ f.by.version = ReceiverVersion[r] /\ f.made.seal_params.using_keyswitching
         => f.what = "served"
    /\ f.what = "served" => SameShape(f.made, f.by.params)
Fates == \A r \in Receiver : FateFits(r, fate[r])

\* The inductive invariant.
NegotiationInv == Shapes /\ Sessions /\ Fates

----------------------------------------------------------------------------
(***************************************************************************)
(* Parameters, queries and packages.                                       *)
(***************************************************************************)

\* The quotient of a division without remainder.
LEMMA WholeQuotient ==
  ASSUME NEW a \in Nat \ {0}, NEW b \in Nat \ {0}, a % b = 0
  PROVE  a \div b \in Nat \ {0} /\ (a \div b) * b = a
OBVIOUS

\* Parameters that a process accepts make up the table with their bundles.
LEMMA ProperBundles ==
  ASSUME NEW p \in Proper
  PROVE  /\ p \in ParamsFile /\ p \in PSIParams /\ p # None
         /\ bundle_idx_count(p) \in Nat \ {0} /\ bundle_idx_count(p) * p.receiver_bins_per_bundle = p.table_size
         /\ Bundles(p) \subseteq Nat /\ IsFiniteSet(Bundles(p)) /\ Cardinality(Bundles(p)) = bundle_idx_count(p)
<1>1. p \in ParamsFile /\ p \in PSIParams /\ p # None /\ initialize(p)
  BY NegotiationAssumption DEF Proper
<1>2. /\ p.table_size \in Nat \ {0} /\ p.receiver_bins_per_bundle \in Nat \ {0}
      /\ p.table_size % p.receiver_bins_per_bundle = 0
  BY <1>1 DEF initialize, WholeBundles, PSIParams
<1>3. bundle_idx_count(p) \in Nat \ {0} /\ bundle_idx_count(p) * p.receiver_bins_per_bundle = p.table_size
  BY <1>2, WholeQuotient DEF bundle_idx_count
<1> DEFINE n == bundle_idx_count(p)
<1> HIDE DEF n
<1>4. n \in Nat \ {0}
  BY <1>3 DEF n
<1>5. 0 .. n - 1 \subseteq Nat /\ IsFiniteSet(0 .. n - 1) /\ Cardinality(0 .. n - 1) = n
  BY <1>4, FS_Interval
<1> QED
  BY <1>1, <1>3, <1>5 DEF Bundles, n

\* A message after an empty inbox, followed by others.
LEMMA Answers ==
  ASSUME NEW S, NEW m \in S, NEW ms \in Seq(S)
  PROVE  LET s == <<>> \o (<<m>> \o ms)
         IN  /\ s \in Seq(S) /\ Len(s) = Len(ms) + 1 /\ s # <<>> /\ s[1] = m
             /\ \A i \in 2 .. Len(s) : i - 1 \in 1 .. Len(ms) /\ s[i] = ms[i - 1]
BY ConcatProperties

\* ms are packages for query op of r, of different bundles in sent.
PackagesFor(r, op, seal_params, sent, ms) ==
  /\ ms \in Seq(PackageType)
  /\ \A i \in 1 .. Len(ms) :
       /\ ms[i].receiver = r /\ ms[i].secret = op.secret /\ ms[i].relin_keys = op.relin_keys
       /\ ms[i].seal_params = seal_params /\ ms[i].bundle_idx \in sent
       /\ \A j \in 1 .. Len(ms) : ms[i].bundle_idx = ms[j].bundle_idx => i = j

\* The packages of the bundles in sent, and no others.
LEMMA PackagesSent ==
  ASSUME Shapes, sender.params \in Proper, NEW sent \in SUBSET Bundles(sender.params),
         NEW r \in Receiver, NEW op, op.secret \in Nat, op.relin_keys \in Nat,
         NEW ms \in Packages(r, op, sent)
  PROVE  PackagesFor(r, op, sender.params.seal_params, sent, ms)
<1> DEFINE p == sender.params
<1>1. Bundles(p) \subseteq Nat /\ IsFiniteSet(Bundles(p)) /\ p \in PSIParams
  BY ProperBundles
<1>2. IsFiniteSet(sent) /\ sent \subseteq Nat
  BY <1>1, FS_Subset
<1> DEFINE n == Cardinality(sent)
<1>3. n \in Nat
  BY <1>2, FS_CardinalityType
<1>4. PICK order \in Injection(1 .. n, sent) : ms = [i \in 1 .. n |-> Package(r, op, order[i])]
  BY DEF Packages
<1> HIDE DEF n
<1>5. order \in [1 .. n -> sent] /\ \A i, j \in 1 .. n : order[i] = order[j] => i = j
  BY DEF Injection, IsInjective
<1>6. p.seal_params \in SEALParams
  BY <1>1 DEF PSIParams
<1>7. ASSUME NEW i \in 1 .. n
      PROVE  /\ ms[i] \in PackageType
             /\ ms[i].receiver = r /\ ms[i].secret = op.secret /\ ms[i].relin_keys = op.relin_keys
             /\ ms[i].seal_params = p.seal_params /\ ms[i].bundle_idx = order[i]
  <2>1. ms[i] = Package(r, op, order[i]) /\ order[i] \in Nat
    BY <1>2, <1>4, <1>5
  <2> QED
    BY <1>6, <2>1 DEF Package, PackageType
<1>8. ms \in Seq(PackageType) /\ Len(ms) = n
  BY <1>3, <1>4, <1>7, IsASeq
<1> QED
  BY <1>5, <1>7, <1>8 DEF n, PackagesFor

----------------------------------------------------------------------------
(***************************************************************************)
(* The steps of the sender's process.                                      *)
(***************************************************************************)
Message == ResponseType \cup PackageType

LEMMA InitiallyNegotiation == Init => NegotiationInv
<1> SUFFICES ASSUME Init
             PROVE  NegotiationInv
  OBVIOUS
<1>1. Down \in SenderType /\ Down.version = 0 /\ NoObject \in ObjectType /\ NoFate \in FateRecords
  BY DEF Down, SenderType, NoObject, ObjectType, NoFate, FateRecords, FateType, ProperOrNone
<1>2. Shapes
  <2>1. inbox \in [Receiver -> Seq(Message)] /\ got \in [Receiver -> SUBSET PackageType]
    BY EmptySeq DEF Init
  <2> QED
    BY <1>1, <2>1, NegotiationAssumption DEF Init, Shapes, Phases, ProperOrNone, Message
<1>3. KeysTogether(NoObject) /\ NoFate.what = "pending"
  BY DEF KeysTogether, NoObject, NoFate
<1>4. Sessions
  BY <1>3 DEF Init, Sessions, Session
<1>5. Fates
  BY <1>3 DEF Init, Fates, FateFits
<1> QED
  BY <1>2, <1>4, <1>5 DEF NegotiationInv

LEMMA StutterKeeps ==
  ASSUME NegotiationInv, UNCHANGED vars
  PROVE  NegotiationInv'
BY DEF vars, receiverVars, NegotiationInv, Shapes, Sessions, Fates

LEMMA StartKeeps ==
  ASSUME NegotiationInv, NEW p \in ParamsFile, NEW v \in Version, StartSender(p, v)
  PROVE  NegotiationInv'
<1>1. /\ starts < MaxStarts /\ starts' = starts + 1
      /\ sender' = IF initialize(p) THEN [params |-> p, version |-> v] ELSE Down
      /\ UNCHANGED <<request, inbox, phase, given, object, left, got, asked, keys, fate>>
  BY DEF StartSender, receiverVars
<1>2. sender' \in SenderType /\ sender'.version \in Version \cup {0}
  BY <1>1, NegotiationAssumption DEF SenderType, Proper, ProperOrNone, Down
<1>3. starts' \in 0 .. MaxStarts
  BY <1>1, NegotiationAssumption DEF NegotiationInv, Shapes
<1>4. Shapes'
  BY <1>1, <1>2, <1>3 DEF NegotiationInv, Shapes
<1> QED
  BY <1>1, <1>4 DEF NegotiationInv, Sessions, Fates

\* The first n messages of s, and the request that may be lost.
LEMMA PrefixKeeps ==
  ASSUME NEW r, NEW q, NEW s \in Seq(Message), NEW p, NEW o, NEW l, NEW ms, NEW f,
         Session(r, q, s, p, o, l, ms, f), NEW n \in 0 .. Len(s), NEW t \in {q, None}
  PROVE  Session(r, t, SubSeq(s, 1, n), p, o, l, ms, f)
<1> DEFINE u == SubSeq(s, 1, n)
<1>1. /\ u \in Seq(Message) /\ Len(u) = n
      /\ \A i \in 1 .. n : u[i] = s[i]
  BY LenProperties, SubSeqProperties
<1> HIDE DEF u
<1>2. Len(s) \in Nat /\ n \in Nat /\ n <= Len(s)
  BY LenProperties
<1>3. (u # <<>> => n > 0 /\ s # <<>>) /\ (s = <<>> => u = <<>>)
  BY <1>1, <1>2, EmptySeq
<1>4. n > 0 => u[1] = s[1]
  BY <1>1, <1>2
<1>5. ASSUME NEW k \in {1, 2}, NEW seen, OwnPackages(r, o, f, s, k, seen)
      PROVE  OwnPackages(r, o, f, u, k, seen)
  <2>1. \A i \in k .. n : i \in k .. Len(s) /\ u[i] = s[i]
    BY <1>1, <1>2
  <2> QED
    BY <1>1, <1>5, <2>1 DEF OwnPackages
<1>6. p = "params" /\ u # <<>> => Len(u) = 1 /\ u[1] \in ResponseType /\ u[1].type = "sop_parms" /\ u[1].version = ReceiverVersion[r]
  <2> SUFFICES ASSUME p = "params", u # <<>>
               PROVE  Len(u) = 1 /\ u[1] \in ResponseType /\ u[1].type = "sop_parms" /\ u[1].version = ReceiverVersion[r]
    OBVIOUS
  <2>1. Len(s) = 1 /\ s[1] \in ResponseType /\ s[1].type = "sop_parms" /\ s[1].version = ReceiverVersion[r]
    BY <1>3 DEF Session
  <2>2. n = 1
    BY <1>2, <1>3, <2>1
  <2> QED
    BY <1>1, <1>4, <2>1, <2>2
<1> QED
  BY <1>3, <1>4, <1>5, <1>6 DEF Session, u

LEMMA StopKeeps ==
  ASSUME NegotiationInv, StopSender
  PROVE  NegotiationInv'
<1>1. PICK lost \in SUBSET Receiver : request' = [r \in Receiver |-> IF r \in lost THEN None ELSE request[r]]
  BY DEF StopSender
<1>2. PICK out \in [Receiver -> 0 .. Max({Len(inbox[r]) : r \in Receiver})] :
         /\ \A r \in Receiver : out[r] <= Len(inbox[r])
         /\ inbox' = [r \in Receiver |-> SubSeq(inbox[r], 1, out[r])]
  BY DEF StopSender
<1>3. sender' = Down /\ UNCHANGED <<phase, given, object, left, got, asked, keys, fate, starts>>
  BY DEF StopSender, receiverVars
<1>4. ASSUME NEW r \in Receiver
      PROVE  inbox[r] \in Seq(Message) /\ out[r] \in 0 .. Len(inbox[r])
  <2>1. inbox[r] \in Seq(Message) /\ Len(inbox[r]) \in Nat
    BY LenProperties DEF NegotiationInv, Shapes, Message
  <2>2. out[r] \in 0 .. Max({Len(inbox[i]) : i \in Receiver})
    OBVIOUS
  <2>3. out[r] \in Int /\ 0 <= out[r]
    BY <2>2
  <2> QED
    BY <1>2, <2>1, <2>3
<1>5. ASSUME NEW r \in Receiver
      PROVE  inbox'[r] \in Seq(Message)
  BY <1>2, <1>4, LenProperties, SubSeqProperties
<1>6. Down \in SenderType /\ Down.version = 0
  BY DEF Down, SenderType, ProperOrNone
<1>7. Shapes'
  BY <1>1, <1>2, <1>3, <1>5, <1>6 DEF NegotiationInv, Shapes, Message
<1>8. ASSUME NEW r \in Receiver
      PROVE  Session(r, request'[r], inbox'[r], phase'[r], object'[r], left'[r], got'[r], fate'[r])
  <2>1. request'[r] \in {request[r], None} /\ inbox'[r] = SubSeq(inbox[r], 1, out[r])
    BY <1>1, <1>2
  <2>2. Session(r, request[r], inbox[r], phase[r], object[r], left[r], got[r], fate[r])
    BY DEF NegotiationInv, Sessions
  <2>3. Session(r, request'[r], SubSeq(inbox[r], 1, out[r]), phase[r], object[r], left[r], got[r], fate[r])
    BY <1>4, <2>1, <2>2, PrefixKeeps
  <2> QED
    BY <1>3, <2>1, <2>3
<1> QED
  BY <1>3, <1>7, <1>8 DEF NegotiationInv, Sessions, Fates

----------------------------------------------------------------------------
(***************************************************************************)
(* The calls of a receiver.                                                *)
(***************************************************************************)

\* A step that concerns one receiver.
LEMMA OneReceiver ==
  ASSUME NegotiationInv, NEW r \in Receiver, Shapes',
         \A s \in Receiver : s # r =>
           /\ request'[s] = request[s] /\ inbox'[s] = inbox[s] /\ phase'[s] = phase[s] /\ object'[s] = object[s]
           /\ left'[s] = left[s] /\ got'[s] = got[s] /\ fate'[s] = fate[s],
         Session(r, request'[r], inbox'[r], phase'[r], object'[r], left'[r], got'[r], fate'[r]),
         FateFits(r, fate'[r])
  PROVE  NegotiationInv'
<1>1. ASSUME NEW s \in Receiver
      PROVE  /\ Session(s, request'[s], inbox'[s], phase'[s], object'[s], left'[s], got'[s], fate'[s])
             /\ FateFits(s, fate'[s])
  <2>1. CASE s = r
    BY <2>1
  <2>2. CASE s # r
    <3>1. Session(s, request[s], inbox[s], phase[s], object[s], left[s], got[s], fate[s]) /\ FateFits(s, fate[s])
      BY DEF NegotiationInv, Sessions, Fates
    <3> QED
      BY <2>2, <3>1
  <2> QED
    BY <2>1, <2>2
<1> QED
  BY <1>1 DEF NegotiationInv, Sessions, Fates

\* What is known of a receiver.
LEMMA KnownOf ==
  ASSUME NegotiationInv, NEW r \in Receiver
  PROVE  /\ Session(r, request[r], inbox[r], phase[r], object[r], left[r], got[r], fate[r])
         /\ FateFits(r, fate[r])
         /\ object[r] \in ObjectType /\ inbox[r] \in Seq(Message) /\ phase[r] \in Phases
         /\ fate[r] \in FateRecords /\ left[r] \in Nat /\ got[r] \in SUBSET PackageType
BY DEF NegotiationInv, Sessions, Fates, Shapes, Message

LEMMA CallKeeps ==
  ASSUME NegotiationInv, NEW r \in Receiver, RequestParams(r) \/ RequestQuery(r)
  PROVE  NegotiationInv'
<1>1. PICK p \in {"params", "response"} :
        /\ Call(r, p, IF p = "params" THEN Parms(r) ELSE QueryOf(r, object[r]))
        /\ p = "response" => object[r].params # None
  BY DEF RequestParams, RequestQuery, Query, QueryOf
<1> DEFINE msg == IF p = "params" THEN Parms(r) ELSE QueryOf(r, object[r])
<1>2. UNCHANGED <<sender, inbox, given, object, left, keys, starts>>
  BY DEF RequestParams, RequestQuery
<1> HIDE DEF msg
<1>3. /\ phase[r] = "idle" /\ request[r] = None /\ asked < MaxRequests /\ asked' = asked + 1
      /\ phase' = [phase EXCEPT ![r] = p] /\ request' = [request EXCEPT ![r] = msg]
      /\ fate' = [fate EXCEPT ![r] = NoFate] /\ got' = [got EXCEPT ![r] = {}]
  BY <1>1 DEF Call, msg
<1>4. asked' \in 0 .. MaxRequests
  BY <1>3, NegotiationAssumption DEF NegotiationInv, Shapes
<1>5. NoFate \in FateRecords /\ NoFate.what = "pending"
  BY DEF NoFate, FateRecords, FateType, ProperOrNone, Down, SenderType
<1>6. /\ phase' \in [Receiver -> Phases] /\ got' \in [Receiver -> SUBSET PackageType]
      /\ fate' \in [Receiver -> FateRecords] /\ DOMAIN request' = Receiver
  BY <1>3, <1>5 DEF NegotiationInv, Shapes, Phases
<1>7. Shapes'
  BY <1>2, <1>4, <1>6 DEF NegotiationInv, Shapes
<1>8. \A s \in Receiver : s # r =>
        /\ request'[s] = request[s] /\ inbox'[s] = inbox[s] /\ phase'[s] = phase[s] /\ object'[s] = object[s]
        /\ left'[s] = left[s] /\ got'[s] = got[s] /\ fate'[s] = fate[s]
  BY <1>2, <1>3 DEF NegotiationInv, Shapes
<1>9. phase'[r] = p /\ request'[r] = msg /\ fate'[r] = NoFate /\ got'[r] = {}
  BY <1>3 DEF NegotiationInv, Shapes
<1>10. inbox[r] = <<>> /\ KeysTogether(object[r])
  BY <1>3, KnownOf DEF Session
<1>11. Session(r, msg, <<>>, p, object[r], left[r], {}, NoFate)
  BY <1>1, <1>10 DEF Session, msg
<1>12. FateFits(r, NoFate)
  BY <1>5 DEF FateFits
<1> QED
  BY <1>2, <1>7, <1>8, <1>9, <1>10, <1>11, <1>12, OneReceiver

LEMMA KeysKeep ==
  ASSUME NegotiationInv, NEW r \in Receiver, Construct(r) \/ ResetKeys(r)
  PROVE  NegotiationInv'
<1>1. PICK p \in Proper : WithKeys(r, p) /\ phase[r] = "idle"
  BY DEF Construct, ResetKeys, NegotiationInv, Shapes, ObjectType, ProperOrNone
<1> DEFINE o == [params |-> p, secret |-> keys + 1,
                 relin_keys |-> IF p.seal_params.using_keyswitching THEN relin_keys(r, keys + 1) ELSE 0]
<1>2. /\ keys < MaxKeys /\ keys' = keys + 1
      /\ object' = [object EXCEPT ![r] = o]
      /\ UNCHANGED <<sender, request, inbox, phase, given, left, got, fate, starts, asked>>
  BY <1>1 DEF WithKeys
<1>3. keys + 1 \in Nat \ {0} /\ keys' \in 0 .. MaxKeys
  BY <1>2, NegotiationAssumption DEF NegotiationInv, Shapes
<1>4. o \in ObjectType /\ KeysTogether(o)
  BY <1>3 DEF ObjectType, ProperOrNone, KeysTogether, relin_keys
<1> HIDE DEF o
<1>5. object' \in [Receiver -> ObjectType] /\ object'[r] = o /\ \A s \in Receiver : s # r => object'[s] = object[s]
  BY <1>2, <1>4 DEF NegotiationInv, Shapes
<1>6. Shapes'
  BY <1>2, <1>3, <1>5 DEF NegotiationInv, Shapes
<1>7. Session(r, request[r], inbox[r], phase[r], o, left[r], got[r], fate[r])
  <2>1. request[r] = None /\ inbox[r] = <<>>
    BY <1>1, KnownOf DEF Session
  <2> QED
    BY <1>1, <1>4, <2>1 DEF Session
<1>8. FateFits(r, fate[r])
  BY KnownOf
<1> QED
  BY <1>2, <1>5, <1>6, <1>7, <1>8, OneReceiver

----------------------------------------------------------------------------
(***************************************************************************)
(* The dispatcher.                                                         *)
(***************************************************************************)

\* The fate of the request of r that is being processed.
Fated(r, what) ==
  [what |-> what, by |-> sender, made |-> IF phase[r] = "params" THEN None ELSE object[r].params]

\* What is known when a request is processed.
LEMMA Request ==
  ASSUME NegotiationInv, NEW r \in Receiver, NEW op, Receives(r, op)
  PROVE  /\ sender.params \in Proper /\ sender \in SenderType /\ inbox[r] = <<>>
         /\ \/ phase[r] = "params" /\ op = Parms(r)
            \/ phase[r] = "response" /\ op = QueryOf(r, object[r]) /\ object[r].params \in Proper /\ got[r] = {}
<1>1. sender \in SenderType /\ sender.params # None /\ request[r] # None /\ op = request[r]
  BY DEF Receives, Up, NegotiationInv, Shapes
<1>2. Session(r, request[r], inbox[r], phase[r], object[r], left[r], got[r], fate[r])
      /\ object[r] \in ObjectType /\ phase[r] \in Phases
  BY KnownOf
<1>3. phase[r] \in {"params", "response"}
  BY <1>1, <1>2 DEF Session, Phases
<1>4. inbox[r] = <<>> /\ op = IF phase[r] = "params" THEN Parms(r) ELSE QueryOf(r, object[r])
  BY <1>1, <1>2 DEF Session
<1>5. phase[r] = "response" => object[r].params # None /\ got[r] = {}
  BY <1>2 DEF Session
<1>6. sender.params \in Proper /\ (object[r].params # None => object[r].params \in Proper)
  BY <1>1, <1>2 DEF SenderType, ObjectType, ProperOrNone
<1> QED
  BY <1>1, <1>3, <1>4, <1>5, <1>6

\* A request is processed and answered with t.
LEMMA ProcessedKeeps ==
  ASSUME NegotiationInv, NEW r \in Receiver, NEW op, Receives(r, op),
         NEW what \in FateType, Ends(r, what), sender' \in {sender, Down},
         NEW t \in Seq(Message), inbox' = [inbox EXCEPT ![r] = t],
         Session(r, None, t, phase[r], object[r], left[r], got[r], Fated(r, what)),
         FateFits(r, Fated(r, what))
  PROVE  NegotiationInv'
<1>1. /\ request' = [request EXCEPT ![r] = None]
      /\ UNCHANGED <<phase, given, object, left, got, asked, keys, starts>>
      /\ fate' = [fate EXCEPT ![r] = Fated(r, what)]
  BY DEF Receives, receiverVars, Ends, Fated
<1>2. Fated(r, what) \in FateRecords
  <2>1. sender \in SenderType /\ object[r].params \in ProperOrNone
    BY DEF NegotiationInv, Shapes, ObjectType
  <2> QED
    BY <2>1 DEF Fated, FateRecords, ProperOrNone
<1> DEFINE f == Fated(r, what)
<1> HIDE DEF f
<1>3. /\ fate' \in [Receiver -> FateRecords] /\ fate'[r] = f
      /\ \A s \in Receiver : s # r => fate'[s] = fate[s]
  BY <1>1, <1>2 DEF NegotiationInv, Shapes, f
<1>4. /\ inbox' \in [Receiver -> Seq(Message)] /\ inbox'[r] = t
      /\ \A s \in Receiver : s # r => inbox'[s] = inbox[s]
  BY DEF NegotiationInv, Shapes, Message
<1>5. /\ DOMAIN request' = Receiver /\ request'[r] = None
      /\ \A s \in Receiver : s # r => request'[s] = request[s]
  BY <1>1 DEF NegotiationInv, Shapes
<1>6. sender' \in SenderType /\ sender'.version \in Version \cup {0}
  BY DEF NegotiationInv, Shapes, Down, SenderType, ProperOrNone
<1>7. Shapes'
  BY <1>1, <1>3, <1>4, <1>5, <1>6 DEF NegotiationInv, Shapes, Message
<1>8. \A s \in Receiver : s # r =>
        /\ request'[s] = request[s] /\ inbox'[s] = inbox[s] /\ phase'[s] = phase[s] /\ object'[s] = object[s]
        /\ left'[s] = left[s] /\ got'[s] = got[s] /\ fate'[s] = fate[s]
  BY <1>1, <1>3, <1>4, <1>5
<1>9. Session(r, request'[r], inbox'[r], phase'[r], object'[r], left'[r], got'[r], fate'[r])
  BY <1>1, <1>3, <1>4, <1>5 DEF f
<1>10. FateFits(r, fate'[r])
  BY <1>3 DEF f
<1> QED
  BY <1>7, <1>8, <1>9, <1>10, OneReceiver

\* A query that was made with the parameters of this sender, for its version,
\* is served.
LEMMA SameParamsServed ==
  ASSUME NegotiationInv, NEW r \in Receiver, NEW op, op = QueryOf(r, object[r]),
         object[r].params = sender.params, object[r].params \in Proper, sender.version = ReceiverVersion[r],
         sender.params.seal_params.using_keyswitching
  PROVE  Loads(op) /\ Valid(op) /\ Bits(op.params) \subseteq AllBits /\ Evaluable(op)
<1>1. op.params = sender.params /\ op.version = sender.version /\ op.relin_keys = object[r].relin_keys
  BY DEF QueryOf
<1>2. object[r].relin_keys # 0
  <2>1. object[r].params # None
    BY ProperBundles
  <2>2. KeysTogether(object[r])
    BY KnownOf DEF Session
  <2> QED
    BY <2>1, <2>2 DEF KeysTogether
<1> QED
  BY <1>1, <1>2 DEF Loads, Valid, Bits, AllBits, Evaluable

\* A query is not served, and nothing is sent.
LEMMA UnansweredKeeps ==
  ASSUME NegotiationInv, NEW r \in Receiver, NEW op, Drop(r, op) \/ Refuse(r, op)
  PROVE  NegotiationInv'
<1>1. PICK what \in {"dropped", "refused"} :
        Receives(r, op) /\ Ends(r, what) /\ UNCHANGED <<sender, inbox>>
  BY DEF Drop, Refuse
<1>2. ~(Loads(op) /\ Valid(op))
  BY DEF Drop, Refuse
<1>3. /\ sender.params \in Proper /\ inbox[r] = <<>>
      /\ \/ phase[r] = "params"
         \/ phase[r] = "response" /\ op = QueryOf(r, object[r]) /\ object[r].params \in Proper /\ got[r] = {}
  BY <1>1, Request
<1>4. inbox' = [inbox EXCEPT ![r] = <<>>] /\ <<>> \in Seq(Message)
  BY <1>1, <1>3, EmptySeq DEF NegotiationInv, Shapes
<1>5. Session(r, None, <<>>, phase[r], object[r], left[r], got[r], Fated(r, what))
  <2>1. Session(r, request[r], <<>>, phase[r], object[r], left[r], got[r], fate[r])
    BY <1>3, KnownOf
  <2> QED
    BY <1>3, <2>1 DEF Session
<1>6. FateFits(r, Fated(r, what))
  <2> DEFINE f == Fated(r, what)
  <2>1. f.what = what /\ f.by = sender
    BY DEF Fated
  <2>2. ASSUME f.made # None, f.made = sender.params, sender.version = ReceiverVersion[r],
               f.made.seal_params.using_keyswitching
        PROVE  FALSE
    <3>1. op = QueryOf(r, object[r]) /\ object[r].params \in Proper /\ f.made = object[r].params
      BY <1>3, <2>2 DEF Fated
    <3> QED
      BY <1>2, <2>2, <3>1, SameParamsServed
  <2> QED
    BY <2>1, <2>2 DEF FateFits
<1> QED
  BY <1>1, <1>4, <1>5, <1>6, ProcessedKeeps DEF FateType

\* The answer to a parameter request.
LEMMA RunParamsKeeps ==
  ASSUME NegotiationInv, NEW r \in Receiver, NEW op, RunParams(r, op)
  PROVE  NegotiationInv'
<1> DEFINE m == Response(op)
           t == <<>> \o (<<m>> \o <<>>)
<1>1. /\ Receives(r, op) /\ Loads(op) /\ op.type = "sop_parms" /\ Ends(r, "served") /\ UNCHANGED sender
      /\ inbox' = [inbox EXCEPT ![r] = @ \o <<m>>]
  BY DEF RunParams, SendTo
<1>2. sender.params \in Proper /\ sender \in SenderType /\ inbox[r] = <<>> /\ phase[r] = "params" /\ op = Parms(r)
  BY <1>1, Request DEF QueryOf
<1>3. m \in ResponseType /\ m.type = "sop_parms" /\ m.version = ReceiverVersion[r]
  <2>1. sender.version = ReceiverVersion[r]
    BY <1>1, <1>2 DEF Loads, Parms
  <2>2. bundle_idx_count(sender.params) \in Nat
    BY <1>2, ProperBundles
  <2> QED
    BY <1>1, <1>2, <2>1, <2>2 DEF Response, ResponseType, SenderType
<1> HIDE DEF m
<1>4. m \in Message /\ <<>> \in Seq(Message) /\ Len(<<>>) = 0
  BY <1>3, EmptySeq DEF Message
<1>5. t \in Seq(Message) /\ Len(t) = 1 /\ t[1] = m
  BY <1>4, Answers
<1>6. <<m>> \o <<>> = <<m>>
  BY <1>4, ConcatEmptySeq
<1>7. inbox' = [inbox EXCEPT ![r] = t]
  BY <1>1, <1>2, <1>6 DEF NegotiationInv, Shapes
<1> HIDE DEF t
<1>8. Session(r, None, t, "params", object[r], left[r], got[r], Fated(r, "served"))
  <2>1. KeysTogether(object[r])
    BY KnownOf DEF Session
  <2> QED
    BY <1>3, <1>5, <2>1 DEF Session
<1>9. FateFits(r, Fated(r, "served"))
  BY <1>2 DEF FateFits, Fated
<1> QED
  BY <1>1, <1>2, <1>5, <1>7, <1>8, <1>9, ProcessedKeeps DEF FateType

\* The response and packages of some bundles of a query that is run.
LEMMA AnswerKeeps ==
  ASSUME NegotiationInv, NEW r \in Receiver, NEW op, Runs(r, op),
         NEW what \in {"overrun", "failed", "served"}, Ends(r, what), sender' \in {sender, Down},
         NEW sent \in SUBSET Bundles(sender.params), NEW ms \in Packages(r, op, sent) \cup {<<>>},
         inbox' = [inbox EXCEPT ![r] = @ \o (<<Response(op)>> \o ms)],
         what # "overrun" /\ sent # {} => sender.params.seal_params.using_keyswitching,
         FateFits(r, Fated(r, what))
  PROVE  NegotiationInv'
<1> DEFINE m == Response(op)
           t == <<>> \o (<<m>> \o ms)
           o == object[r]
           f == Fated(r, what)
<1>1. Receives(r, op) /\ Loads(op) /\ op.type = "sop_query" /\ Valid(op)
  BY DEF Runs
<1>2. /\ sender.params \in Proper /\ sender \in SenderType /\ inbox[r] = <<>>
      /\ phase[r] = "response" /\ op = QueryOf(r, o) /\ o.params \in Proper /\ got[r] = {}
  BY <1>1, Request DEF Parms
<1>3. op.version = ReceiverVersion[r] /\ op.params = o.params
  BY <1>2 DEF QueryOf
<1>4. /\ sender.version = ReceiverVersion[r] /\ sender.params.seal_params = o.params.seal_params
      /\ bundle_idx_count(o.params) = bundle_idx_count(sender.params)
      /\ Bundles(o.params) = Bundles(sender.params)
  BY <1>1, <1>3 DEF Loads, Valid, Bundles
<1>5. m \in ResponseType /\ m.type = "sop_query" /\ m.version = ReceiverVersion[r]
      /\ m.package_count = bundle_idx_count(o.params)
  <2>1. bundle_idx_count(sender.params) \in Nat
    BY <1>2, ProperBundles
  <2> QED
    BY <1>1, <1>2, <1>4, <2>1 DEF Response, ResponseType, SenderType
<1>6. o \in ObjectType
  BY KnownOf
<1>7. PackagesFor(r, op, sender.params.seal_params, sent, ms)
  <2>1. CASE ms = <<>>
    BY <2>1, EmptySeq DEF PackagesFor
  <2>2. CASE ms \in Packages(r, op, sent)
    <3>1. Shapes /\ sender.params \in Proper
      BY <1>2 DEF NegotiationInv
    <3>2. op.secret = o.secret /\ op.relin_keys = o.relin_keys /\ o.secret \in Nat /\ o.relin_keys \in Nat
      BY <1>2, <1>6 DEF QueryOf, ObjectType
    <3> HIDE DEF o, m, t, f
    <3> QED
      BY <2>2, <3>1, <3>2, PackagesSent
  <2> QED
    BY <2>1, <2>2
<1>8. f.what = what
  BY DEF Fated
<1> HIDE DEF m, f
<1>9. m \in Message /\ ms \in Seq(Message) /\ \A i \in 1 .. Len(ms) : ms[i] \in PackageType
  <2>1. \A i \in 1 .. Len(ms) : ms[i] \in PackageType
    BY <1>7, ElementOfSeq DEF PackagesFor
  <2>2. ms \in Seq(Message)
    BY <1>7, SeqMonotonic DEF Message, PackagesFor
  <2> QED
    BY <1>5, <2>1, <2>2 DEF Message
<1>10. /\ t \in Seq(Message) /\ t # <<>> /\ t[1] = m
       /\ \A i \in 2 .. Len(t) : i - 1 \in 1 .. Len(ms) /\ t[i] = ms[i - 1]
  BY <1>9, Answers
<1>11. inbox' = [inbox EXCEPT ![r] = t]
  BY <1>2 DEF NegotiationInv, Shapes, m
<1> HIDE DEF t
<1>12. ASSUME NEW i \in 1 .. Len(ms)
       PROVE  OwnPackage(r, o, f, ms[i])
  <2>1. ms[i].bundle_idx \in sent /\ sent # {}
    BY <1>7 DEF PackagesFor
  <2>2. f.what # "overrun" => o.params.seal_params.using_keyswitching
    BY <1>4, <1>8, <2>1
  <2> QED
    BY <1>2, <1>4, <1>7, <1>9, <2>1, <2>2 DEF OwnPackage, PackagesFor, QueryOf
<1>13. OwnPackages(r, o, f, t, 2, {})
  <2> SUFFICES ASSUME NEW i \in 2 .. Len(t)
               PROVE  /\ OwnPackage(r, o, f, t[i])
                      /\ \A j \in 2 .. Len(t) : t[i].bundle_idx = t[j].bundle_idx => i = j
    BY DEF OwnPackages
  <2>1. OwnPackage(r, o, f, t[i])
    BY <1>10, <1>12
  <2>2. ASSUME NEW j \in 2 .. Len(t), t[i].bundle_idx = t[j].bundle_idx
        PROVE  i = j
    <3> DEFINE x == i - 1
               y == j - 1
    <3>1. x \in 1 .. Len(ms) /\ y \in 1 .. Len(ms) /\ t[i] = ms[x] /\ t[j] = ms[y]
      BY <1>10
    <3> HIDE DEF x, y
    <3>2. x = y
      BY <1>7, <2>2, <3>1 DEF PackagesFor
    <3>3. i - 1 = j - 1
      BY <3>2 DEF x, y
    <3> QED
      BY <3>3
  <2> QED
    BY <2>1, <2>2
<1>14. Session(r, None, t, phase[r], object[r], left[r], got[r], f)
  <2>1. KeysTogether(o)
    BY KnownOf DEF Session
  <2>2. o.params # None
    BY <1>2, ProperBundles
  <2> QED
    BY <1>2, <1>5, <1>10, <1>13, <2>1, <2>2 DEF Session
<1> QED
  BY <1>1, <1>10, <1>11, <1>14, ProcessedKeeps DEF FateType, f

\* What becomes of a query is told from its parameters.
LEMMA RunKeeps ==
  ASSUME NegotiationInv, NEW r \in Receiver, NEW op, Overrun(r, op) \/ FailBundles(r, op) \/ RunQuery(r, op)
  PROVE  NegotiationInv'
<1> DEFINE p == sender.params
<1>1. Runs(r, op) /\ Receives(r, op) /\ Loads(op) /\ Valid(op) /\ op.type = "sop_query"
  BY DEF Overrun, FailBundles, RunQuery, Runs
<1>2. /\ p \in Proper /\ phase[r] = "response" /\ op = QueryOf(r, object[r]) /\ object[r].params \in Proper
  BY <1>1, Request DEF Parms
<1>3. op.params = object[r].params
  BY <1>2 DEF QueryOf
<1>4. ASSUME NEW what \in {"overrun", "failed"}, ~(Bits(op.params) \subseteq AllBits /\ Evaluable(op))
      PROVE  FateFits(r, Fated(r, what))
  <2> DEFINE f == Fated(r, what)
  <2>1. f.what = what /\ f.by = sender /\ f.made = object[r].params
    BY <1>2 DEF Fated
  <2>2. ~(f.made = p /\ sender.version = ReceiverVersion[r] /\ f.made.seal_params.using_keyswitching)
    BY <1>2, <1>4, <2>1, SameParamsServed
  <2> QED
    BY <2>1, <2>2 DEF FateFits
<1>5. ASSUME Bits(op.params) \subseteq AllBits, Evaluable(op)
      PROVE  FateFits(r, Fated(r, "served"))
  <2> DEFINE f == Fated(r, "served")
             q == object[r].params
  <2>1. f.what = "served" /\ f.by = sender /\ f.made = q
    BY <1>2 DEF Fated
  <2>2. q.item_bit_count \in Nat \ {0} /\ p.item_bit_count \in Nat \ {0}
    BY <1>2, ProperBundles DEF Proper, initialize, PSIParams, item_bit_count_min, item_bit_count_max
  <2>3. 0 .. q.item_bit_count - 1 = 0 .. p.item_bit_count - 1
    BY <1>3, <1>5 DEF Bits, AllBits, Evaluable
  <2> DEFINE a == q.item_bit_count
             b == p.item_bit_count
  <2> HIDE DEF a, b
  <2>4. a \in Nat \ {0} /\ b \in Nat \ {0} /\ 0 .. a - 1 = 0 .. b - 1
    BY <2>2, <2>3 DEF a, b
  <2>5. a = b
    <3>1. a - 1 \in 0 .. b - 1 /\ b - 1 \in 0 .. a - 1
      BY <2>4
    <3> QED
      BY <2>4, <3>1
  <2>6. q.seal_params = p.seal_params /\ bundle_idx_count(q) = bundle_idx_count(p)
    BY <1>1, <1>3 DEF Loads, Valid
  <2> QED
    BY <2>1, <2>5, <2>6 DEF FateFits, SameShape, a, b
<1>6. CASE Overrun(r, op)
  <2>1. Ends(r, "overrun") /\ ~(Bits(op.params) \subseteq AllBits)
    BY <1>6 DEF Overrun
  <2>2. FateFits(r, Fated(r, "overrun"))
    BY <1>4, <2>1
  <2>3. CASE sender' = Down /\ SendTo(r, <<Response(op)>>)
    <3> DEFINE m == Response(op)
    <3> HIDE DEF m
    <3>1. <<m>> \o <<>> = <<m>>
      BY ConcatEmptySeq
    <3>2. inbox' = [inbox EXCEPT ![r] = @ \o (<<Response(op)>> \o <<>>)]
      BY <2>3, <3>1 DEF SendTo, m
    <3> QED
      BY <1>1, <2>1, <2>2, <2>3, <3>2, AnswerKeeps
  <2>4. CASE UNCHANGED sender /\ Answer(r, op, Bundles(p))
    BY <1>1, <2>1, <2>2, <2>4, AnswerKeeps DEF Answer, SendTo
  <2> QED
    BY <1>6, <2>3, <2>4 DEF Overrun
<1>7. CASE FailBundles(r, op)
  <2>1. PICK empty \in SUBSET Bundles(p) :
          /\ empty # {} => p.seal_params.using_keyswitching
          /\ Answer(r, op, empty)
    BY <1>7 DEF FailBundles
  <2>2. Ends(r, "failed") /\ UNCHANGED sender /\ ~Evaluable(op)
    BY <1>7 DEF FailBundles
  <2>3. FateFits(r, Fated(r, "failed"))
    BY <1>4, <2>2
  <2> QED
    BY <1>1, <2>1, <2>2, <2>3, AnswerKeeps DEF Answer, SendTo
<1>8. CASE RunQuery(r, op)
  <2>1. /\ Ends(r, "served") /\ UNCHANGED sender /\ Bits(op.params) \subseteq AllBits /\ Evaluable(op)
        /\ Answer(r, op, Bundles(p))
    BY <1>8 DEF RunQuery
  <2>2. FateFits(r, Fated(r, "served"))
    BY <1>5, <2>1
  <2>3. p.seal_params.using_keyswitching
    BY <2>1 DEF Evaluable
  <2> QED
    BY <1>1, <2>1, <2>2, <2>3, AnswerKeeps DEF Answer, SendTo
<1> QED
  BY <1>6, <1>7, <1>8

----------------------------------------------------------------------------
(***************************************************************************)
(* What a receiver receives.                                               *)
(***************************************************************************)

\* All bundles have been collected when none is left.
LEMMA AllCollected ==
  ASSUME NEW r, NEW o, o.params \in Proper, NEW f, NEW ms, Collected(r, o, f, ms, 0)
  PROVE  Indices(ms) = Bundles(o.params)
<1>1. Indices(ms) \subseteq Bundles(o.params)
  BY DEF Collected, OwnPackage, Indices
<1>2. /\ IsFiniteSet(Bundles(o.params)) /\ Cardinality(Bundles(o.params)) = bundle_idx_count(o.params)
      /\ bundle_idx_count(o.params) \in Nat
  BY ProperBundles
<1>3. IsFiniteSet(Indices(ms)) /\ Cardinality(Indices(ms)) + 0 = bundle_idx_count(o.params)
  BY DEF Collected
<1>4. Cardinality(Indices(ms)) = Cardinality(Bundles(o.params))
  BY <1>2, <1>3, FS_CardinalityType
<1> QED
  BY <1>1, <1>2, <1>4, FS_Subset

\* One more package is collected.
LEMMA CollectOne ==
  ASSUME NEW r, NEW o, NEW f, NEW ms, NEW n \in Nat \ {0}, Collected(r, o, f, ms, n),
         NEW m, OwnPackage(r, o, f, m), m.bundle_idx \notin Indices(ms)
  PROVE  Collected(r, o, f, ms \cup {m}, n - 1) /\ Indices(ms \cup {m}) = Indices(ms) \cup {m.bundle_idx}
<1>1. Indices(ms \cup {m}) = Indices(ms) \cup {m.bundle_idx}
  BY DEF Indices
<1> DEFINE I == Indices(ms)
<1>2. IsFiniteSet(I) /\ Cardinality(I) \in Nat /\ Cardinality(I) + n = bundle_idx_count(o.params)
  BY FS_CardinalityType DEF Collected
<1>3. IsFiniteSet(I \cup {m.bundle_idx}) /\ Cardinality(I \cup {m.bundle_idx}) = Cardinality(I) + 1
  BY <1>2, FS_AddElement
<1> HIDE DEF I
<1>4. Cardinality(I \cup {m.bundle_idx}) + (n - 1) = bundle_idx_count(o.params)
  BY <1>2, <1>3
<1>5. \A x \in ms \cup {m} : OwnPackage(r, o, f, x)
  BY DEF Collected
<1> QED
  BY <1>1, <1>3, <1>4, <1>5 DEF Collected, I

\* The first message of an inbox and those behind it.
LEMMA FirstMessage ==
  ASSUME NEW s \in Seq(Message), s # <<>>
  PROVE  /\ Head(s) = s[1] /\ Tail(s) \in Seq(Message) /\ Len(s) \in Nat \ {0} /\ Len(Tail(s)) = Len(s) - 1
         /\ \A i \in 1 .. Len(Tail(s)) : i + 1 \in 2 .. Len(s) /\ Tail(s)[i] = s[i + 1]
         /\ Len(s) = 1 => Tail(s) = <<>>
<1>1. Tail(s) \in Seq(Message) /\ Len(Tail(s)) = Len(s) - 1 /\ \A i \in 1 .. Len(Tail(s)) : Tail(s)[i] = s[i + 1]
  BY HeadTailProperties
<1>2. Len(s) \in Nat \ {0}
  BY LenProperties, EmptySeq
<1>3. Head(s) = s[1]
  BY <1>2
<1>4. Len(s) = 1 => Tail(s) = <<>>
  <2>1. Len(s) = 1 => Len(Tail(s)) = 0
    BY <1>1
  <2> QED
    BY <1>1, <2>1, EmptySeq
<1>5. \A i \in 1 .. Len(Tail(s)) : i + 1 \in 2 .. Len(s)
  BY <1>1, <1>2
<1> QED
  BY <1>1, <1>2, <1>3, <1>4, <1>5

\* The packages behind the first message.
LEMMA PackagesBehind ==
  ASSUME NEW r, NEW o, NEW f, NEW s \in Seq(Message), s # <<>>, NEW seen, OwnPackages(r, o, f, s, 2, seen)
  PROVE  OwnPackages(r, o, f, Tail(s), 1, seen)
<1> DEFINE t == Tail(s)
<1>1. \A i \in 1 .. Len(t) : i + 1 \in 2 .. Len(s) /\ t[i] = s[i + 1]
  BY FirstMessage
<1> HIDE DEF t
<1>2. ASSUME NEW i \in 1 .. Len(t)
      PROVE  /\ OwnPackage(r, o, f, t[i]) /\ t[i].bundle_idx \notin seen
             /\ \A j \in 1 .. Len(t) : t[i].bundle_idx = t[j].bundle_idx => i = j
  <2> DEFINE x == i + 1
  <2>1. x \in 2 .. Len(s) /\ t[i] = s[x]
    BY <1>1
  <2> HIDE DEF x
  <2>2. ASSUME NEW j \in 1 .. Len(t), t[i].bundle_idx = t[j].bundle_idx
        PROVE  i = j
    <3> DEFINE y == j + 1
    <3>1. y \in 2 .. Len(s) /\ t[j] = s[y]
      BY <1>1
    <3> HIDE DEF y
    <3>2. x = y
      BY <2>1, <2>2, <3>1 DEF OwnPackages
    <3>3. i + 1 = j + 1
      BY <3>2 DEF x, y
    <3> QED
      BY <3>3
  <2>3. OwnPackage(r, o, f, t[i]) /\ t[i].bundle_idx \notin seen
    BY <2>1 DEF OwnPackages
  <2> QED
    BY <2>2, <2>3
<1> QED
  BY <1>2 DEF OwnPackages, t

\* What receiving does.
LEMMA Received ==
  ASSUME NegotiationInv, NEW r \in Receiver, Receive(r)
  PROVE  /\ inbox[r] \in Seq(Message) /\ inbox[r] # <<>> /\ request[r] = None
         /\ inbox' \in [Receiver -> Seq(Message)] /\ inbox'[r] = Tail(inbox[r])
         /\ \A s \in Receiver : s # r => inbox'[s] = inbox[s]
<1>1. inbox[r] # <<>> /\ inbox' = [inbox EXCEPT ![r] = Tail(@)]
  BY DEF Receive
<1>2. inbox[r] \in Seq(Message) /\ Session(r, request[r], inbox[r], phase[r], object[r], left[r], got[r], fate[r])
  BY KnownOf
<1>3. request[r] = None
  BY <1>1, <1>2 DEF Session
<1>4. Tail(inbox[r]) \in Seq(Message)
  BY <1>1, <1>2, FirstMessage
<1> QED
  BY <1>1, <1>2, <1>3, <1>4 DEF NegotiationInv, Shapes, Message

\* The state of r after it has received a message.
LEMMA ReceivedKeeps ==
  ASSUME NegotiationInv, NEW r \in Receiver, Receive(r),
         NEW g \in ProperOrNone, given' = [given EXCEPT ![r] = g],
         NEW p \in Phases, phase' = [phase EXCEPT ![r] = p],
         NEW n \in Nat, left' = [left EXCEPT ![r] = n],
         NEW ms \in SUBSET PackageType, got' = [got EXCEPT ![r] = ms],
         Session(r, None, Tail(inbox[r]), p, object[r], n, ms, fate[r])
  PROVE  NegotiationInv'
<1>1. UNCHANGED <<sender, request, object, fate, starts, asked, keys>>
  BY DEF Receive
<1>2. /\ request[r] = None /\ inbox' \in [Receiver -> Seq(Message)] /\ inbox'[r] = Tail(inbox[r])
      /\ \A s \in Receiver : s # r => inbox'[s] = inbox[s]
  BY Received
<1>3. /\ phase' \in [Receiver -> Phases] /\ phase'[r] = p /\ \A s \in Receiver : s # r => phase'[s] = phase[s]
      /\ left' \in [Receiver -> Nat] /\ left'[r] = n /\ \A s \in Receiver : s # r => left'[s] = left[s]
      /\ got' \in [Receiver -> SUBSET PackageType] /\ got'[r] = ms /\ \A s \in Receiver : s # r => got'[s] = got[s]
      /\ given' \in [Receiver -> ProperOrNone]
  BY DEF NegotiationInv, Shapes
<1>4. Shapes'
  BY <1>1, <1>2, <1>3 DEF NegotiationInv, Shapes, Message
<1>5. FateFits(r, fate[r])
  BY KnownOf
<1>6. Session(r, request'[r], inbox'[r], phase'[r], object'[r], left'[r], got'[r], fate'[r])
  BY <1>1, <1>2, <1>3
<1>7. \A s \in Receiver : s # r =>
        /\ request'[s] = request[s] /\ inbox'[s] = inbox[s] /\ phase'[s] = phase[s] /\ object'[s] = object[s]
        /\ left'[s] = left[s] /\ got'[s] = got[s] /\ fate'[s] = fate[s]
  BY <1>1, <1>2, <1>3
<1> QED
  BY <1>1, <1>4, <1>5, <1>6, <1>7, OneReceiver

LEMMA ReceiveParamsKeeps ==
  ASSUME NegotiationInv, NEW r \in Receiver, ReceiveParams(r)
  PROVE  NegotiationInv'
<1> DEFINE s == inbox[r]
           m == Head(s)
<1>1. phase[r] = "params" /\ Receive(r) /\ UNCHANGED <<left, got>>
  BY DEF ReceiveParams
<1>2. s \in Seq(Message) /\ s # <<>>
  BY <1>1, Received
<1>3. Session(r, request[r], s, phase[r], object[r], left[r], got[r], fate[r])
  BY KnownOf
<1>4. Len(s) = 1 /\ m \in ResponseType /\ m.type = "sop_parms" /\ m.version = ReceiverVersion[r]
  BY <1>1, <1>2, <1>3, FirstMessage DEF Session
<1>5. m.params \in Proper /\ initialize(m.params)
  BY <1>4 DEF ResponseType, Proper
<1>6. given' = [given EXCEPT ![r] = m.params] /\ phase' = [phase EXCEPT ![r] = "idle"]
  BY <1>4, <1>5 DEF ReceiveParams
<1>7. Tail(s) = <<>>
  BY <1>2, <1>4, FirstMessage
<1>8. Session(r, None, Tail(s), "idle", object[r], left[r], got[r], fate[r])
  BY <1>3, <1>7 DEF Session
<1>9. /\ left' = [left EXCEPT ![r] = left[r]] /\ left[r] \in Nat
      /\ got' = [got EXCEPT ![r] = got[r]] /\ got[r] \in SUBSET PackageType
  BY <1>1 DEF NegotiationInv, Shapes
<1> HIDE DEF m
<1> QED
  BY <1>1, <1>5, <1>6, <1>8, <1>9, ReceivedKeeps DEF Phases, ProperOrNone

LEMMA ReceiveResponseKeeps ==
  ASSUME NegotiationInv, NEW r \in Receiver, ReceiveResponse(r)
  PROVE  NegotiationInv'
<1> DEFINE s == inbox[r]
           m == Head(s)
           o == object[r]
<1>1. phase[r] = "response" /\ Receive(r) /\ UNCHANGED <<given, got>>
  BY DEF ReceiveResponse
<1>2. s \in Seq(Message) /\ s # <<>>
  BY <1>1, Received
<1>3. Session(r, request[r], s, phase[r], o, left[r], got[r], fate[r]) /\ o \in ObjectType
  BY KnownOf
<1>4. /\ m \in ResponseType /\ m.type = "sop_query" /\ m.version = ReceiverVersion[r]
      /\ m.package_count = bundle_idx_count(o.params)
      /\ OwnPackages(r, o, fate[r], s, 2, {}) /\ got[r] = {}
  BY <1>1, <1>2, <1>3, FirstMessage DEF Session
<1>5. left' = [left EXCEPT ![r] = bundle_idx_count(o.params)] /\ phase' = [phase EXCEPT ![r] = "parts"]
  BY <1>4 DEF ReceiveResponse
<1>6. o.params \in Proper
  BY <1>1, <1>3 DEF Session, ObjectType, ProperOrNone
<1>7. bundle_idx_count(o.params) \in Nat \ {0}
  BY <1>6, ProperBundles
<1>8. OwnPackages(r, o, fate[r], Tail(s), 1, {})
  BY <1>2, <1>4, PackagesBehind
<1>9. Indices({}) = {} /\ Collected(r, o, fate[r], {}, bundle_idx_count(o.params))
  <2>1. Indices({}) = {}
    BY DEF Indices
  <2>2. IsFiniteSet({}) /\ Cardinality({}) + bundle_idx_count(o.params) = bundle_idx_count(o.params)
    BY <1>7, FS_EmptySet
  <2> QED
    BY <2>1, <2>2 DEF Collected
<1>10. Session(r, None, Tail(s), "parts", o, bundle_idx_count(o.params), {}, fate[r])
  BY <1>1, <1>3, <1>7, <1>8, <1>9 DEF Session
<1>11. /\ given' = [given EXCEPT ![r] = given[r]] /\ given[r] \in ProperOrNone
       /\ got' = [got EXCEPT ![r] = {}]
  BY <1>1, <1>4 DEF NegotiationInv, Shapes
<1> HIDE DEF m
<1> QED
  BY <1>1, <1>5, <1>7, <1>10, <1>11, ReceivedKeeps DEF Phases

\* The last package is of the last bundle.
LEMMA ReceiveResultKeeps ==
  ASSUME NegotiationInv, NEW r \in Receiver, ReceiveResult(r)
  PROVE  /\ NegotiationInv'
         /\ phase'[r] = "idle" => object[r].params \in Proper /\ Collected(r, object[r], fate[r], got'[r], 0)
<1> DEFINE s == inbox[r]
           m == Head(s)
           o == object[r]
           f == fate[r]
           n == left[r]
           ms == got[r]
           p == IF n = 1 THEN "idle" ELSE "parts"
<1>1. phase[r] = "parts" /\ Receive(r) /\ UNCHANGED given
  BY DEF ReceiveResult
<1>2. s \in Seq(Message) /\ s # <<>>
  BY <1>1, Received
<1>3. /\ Session(r, request[r], s, phase[r], o, n, ms, f) /\ o \in ObjectType
      /\ n \in Nat /\ ms \in SUBSET PackageType
  BY KnownOf
<1>4. n # 0 /\ o.params # None /\ OwnPackages(r, o, f, s, 1, Indices(ms)) /\ Collected(r, o, f, ms, n) /\ KeysTogether(o)
  BY <1>1, <1>3 DEF Session
<1>5. m = s[1] /\ 1 \in 1 .. Len(s)
  BY <1>2, FirstMessage
<1>6. OwnPackage(r, o, f, m) /\ m.bundle_idx \notin Indices(ms)
  BY <1>4, <1>5 DEF OwnPackages
<1>7. /\ got' = [got EXCEPT ![r] = ms \cup {m}] /\ left' = [left EXCEPT ![r] = n - 1]
      /\ phase' = [phase EXCEPT ![r] = p]
  BY <1>6 DEF ReceiveResult, OwnPackage
<1> HIDE DEF m
<1>8. o.params \in Proper
  BY <1>3, <1>4 DEF ObjectType, ProperOrNone
<1>9. n - 1 \in Nat /\ (n = 1 <=> n - 1 = 0)
  BY <1>3, <1>4
<1>10. /\ Collected(r, o, f, ms \cup {m}, n - 1)
       /\ Indices(ms \cup {m}) = Indices(ms) \cup {m.bundle_idx}
  <2>1. n \in Nat \ {0} /\ Collected(r, o, f, ms, n)
    BY <1>3, <1>4
  <2> HIDE DEF n, o, f, ms
  <2> QED
    BY <1>6, <2>1, CollectOne
<1>11. OwnPackages(r, o, f, s, 2, Indices(ms \cup {m}))
  <2>1. Len(s) \in Nat \ {0} /\ \A i \in 2 .. Len(s) : i \in 1 .. Len(s) /\ i # 1
    BY <1>2, FirstMessage
  <2>2. ASSUME NEW i \in 2 .. Len(s)
        PROVE  /\ OwnPackage(r, o, f, s[i]) /\ s[i].bundle_idx \notin Indices(ms \cup {m})
               /\ \A j \in 2 .. Len(s) : s[i].bundle_idx = s[j].bundle_idx => i = j
    <3>1. i \in 1 .. Len(s) /\ i # 1
      BY <2>1
    <3>2. s[i].bundle_idx # m.bundle_idx
      BY <1>4, <1>5, <3>1 DEF OwnPackages
    <3>3. OwnPackage(r, o, f, s[i]) /\ s[i].bundle_idx \notin Indices(ms)
      BY <1>4, <3>1 DEF OwnPackages
    <3>4. ASSUME NEW j \in 2 .. Len(s), s[i].bundle_idx = s[j].bundle_idx
          PROVE  i = j
      BY <1>4, <2>1, <3>1, <3>4 DEF OwnPackages
    <3> QED
      BY <1>10, <3>2, <3>3, <3>4
  <2> QED
    BY <2>2 DEF OwnPackages
<1>12. OwnPackages(r, o, f, Tail(s), 1, Indices(ms \cup {m}))
  BY <1>2, <1>11, PackagesBehind
<1>13. ASSUME n = 1
       PROVE  Tail(s) = <<>>
  <2>1. Indices(ms \cup {m}) = Bundles(o.params)
    BY <1>8, <1>9, <1>10, <1>13, AllCollected
  <2>2. ASSUME 1 \in 1 .. Len(Tail(s))
        PROVE  FALSE
    BY <1>12, <2>1, <2>2 DEF OwnPackages, OwnPackage
  <2>3. Tail(s) \in Seq(Message)
    BY <1>2, FirstMessage
  <2> QED
    BY <2>2, <2>3, EmptySeq
<1>14. Session(r, None, Tail(s), p, o, n - 1, ms \cup {m}, f)
  <2>1. CASE n = 1
    BY <1>4, <1>13, <2>1 DEF Session
  <2>2. CASE n # 1
    BY <1>4, <1>9, <1>10, <1>12, <2>2 DEF Session
  <2> QED
    BY <2>1, <2>2
<1>15. ms \cup {m} \in SUBSET PackageType /\ p \in Phases
  BY <1>3, <1>6 DEF OwnPackage, Phases
<1>16. given' = [given EXCEPT ![r] = given[r]] /\ given[r] \in ProperOrNone
  BY <1>1 DEF NegotiationInv, Shapes
<1>17. NegotiationInv'
  BY <1>1, <1>7, <1>9, <1>14, <1>15, <1>16, ReceivedKeeps
<1>18. phase'[r] = p /\ got'[r] = ms \cup {m}
  BY <1>7 DEF NegotiationInv, Shapes
<1>19. phase'[r] = "idle" => n - 1 = 0
  BY <1>9, <1>18
<1> QED
  BY <1>8, <1>10, <1>17, <1>18, <1>19

----------------------------------------------------------------------------
(***************************************************************************)
(* The theorems.                                                           *)
(***************************************************************************)

LEMMA NextKeeps == NegotiationInv /\ [Next]_vars => NegotiationInv'
<1> SUFFICES ASSUME NegotiationInv, [Next]_vars
             PROVE  NegotiationInv'
  OBVIOUS
<1>1. CASE UNCHANGED vars
  BY <1>1, StutterKeeps
<1>2. CASE \E p \in ParamsFile, v \in Version : StartSender(p, v)
  BY <1>2, StartKeeps
<1>3. CASE StopSender
  BY <1>3, StopKeeps
<1>4. ASSUME NEW r \in Receiver,
             RequestParams(r) \/ Construct(r) \/ ResetKeys(r) \/ RequestQuery(r) \/ Dispatch(r) \/ Answered(r)
      PROVE  NegotiationInv'
  <2>1. CASE RequestParams(r) \/ RequestQuery(r)
    BY <2>1, CallKeeps
  <2>2. CASE Construct(r) \/ ResetKeys(r)
    BY <2>2, KeysKeep
  <2>3. CASE Dispatch(r)
    BY <2>3, UnansweredKeeps, RunParamsKeeps, RunKeeps DEF Dispatch
  <2>4. CASE Answered(r)
    BY <2>4, ReceiveParamsKeeps, ReceiveResponseKeeps, ReceiveResultKeeps DEF Answered
  <2> QED
    BY <1>4, <2>1, <2>2, <2>3, <2>4
<1> QED
  BY <1>1, <1>2, <1>3, <1>4 DEF Next

(***************************************************************************)
(* The inductive invariant holds: between its request and its last         *)
(* package, what a receiver has been sent is what its one request asked    *)
(* for, of different bundles, whatever became of the sender in between.    *)
(***************************************************************************)
THEOREM NegotiationInvariant == Spec => []NegotiationInv
<1> QED
  BY InitiallyNegotiation, NextKeeps, PTL DEF Spec

LEMMA InvImpliesTypes == NegotiationInv => TypeOK
<1> SUFFICES ASSUME NegotiationInv
             PROVE  TypeOK
  OBVIOUS
<1>1. InUse \subseteq Proper
  BY DEF NegotiationInv, Shapes, InUse, SenderType, ObjectType, ProperOrNone
<1>2. \A p \in InUse :
        p \in ParamsFile /\ bundle_idx_count(p) > 0 /\ bundle_idx_count(p) * p.receiver_bins_per_bundle = p.table_size
  BY <1>1, ProperBundles
<1>3. ASSUME NEW r \in Receiver
      PROVE  /\ phase[r] \in {"response", "parts"} => object[r].params # None
             /\ phase[r] = "parts" => left[r] > 0
             /\ fate[r].what \in FateType
  <2>1. /\ Session(r, request[r], inbox[r], phase[r], object[r], left[r], got[r], fate[r])
        /\ fate[r] \in FateRecords /\ left[r] \in Nat
    BY KnownOf
  <2>2. phase[r] = "parts" => left[r] # 0
    BY <2>1 DEF Session
  <2> QED
    BY <2>1, <2>2 DEF Session, FateRecords
<1> QED
  BY <1>2, <1>3 DEF NegotiationInv, Shapes, Phases, TypeOK

(***************************************************************************)
(* A query made with the sender's parameters, by a build of its version,   *)
(* is served, whatever happened before; and one that is answered in full   *)
(* has the sender's SEAL parameters, bundles and bits.                     *)
(***************************************************************************)
THEOREM QueriesServed == Spec => []ServedAsMade
<1>1. NegotiationInv => ServedAsMade
  <2>1. NegotiationInv => TypeOK
    BY InvImpliesTypes
  <2> QED
    BY <2>1 DEF NegotiationInv, Fates, FateFits, ServedAsMade
<1> QED
  BY <1>1, NegotiationInvariant, PTL

(***************************************************************************)
(* A receiver never drops what it receives.                                *)
(***************************************************************************)
THEOREM AllReceived == Spec => []NothingDropped
<1>1. ASSUME NegotiationInv, NEW r \in Receiver, inbox[r] # <<>>
      PROVE  LET m == Head(inbox[r]) IN
             CASE phase[r] = "params" -> m.type = "sop_parms" /\ m.version = ReceiverVersion[r]
               [] phase[r] = "response" -> m.type = "sop_query" /\ m.version = ReceiverVersion[r]
               [] phase[r] = "parts" -> m.type = "package" /\ m.seal_params = object[r].params.seal_params
               [] OTHER -> FALSE
  <2> DEFINE s == inbox[r]
             m == Head(s)
  <2>1. /\ Session(r, request[r], s, phase[r], object[r], left[r], got[r], fate[r])
        /\ s \in Seq(Message) /\ phase[r] \in Phases
    BY <1>1, KnownOf
  <2>2. m = s[1] /\ 1 \in 1 .. Len(s)
    BY <1>1, <2>1, FirstMessage
  <2>3. phase[r] = "params" => m.type = "sop_parms" /\ m.version = ReceiverVersion[r]
    BY <1>1, <2>1, <2>2 DEF Session
  <2>4. phase[r] = "response" => m.type = "sop_query" /\ m.version = ReceiverVersion[r]
    BY <1>1, <2>1, <2>2 DEF Session
  <2>5. phase[r] = "parts" => m.type = "package" /\ m.seal_params = object[r].params.seal_params
    <3>1. phase[r] = "parts" => OwnPackage(r, object[r], fate[r], m)
      BY <2>1, <2>2 DEF Session, OwnPackages
    <3> QED
      BY <3>1 DEF OwnPackage, PackageType
  <2>6. phase[r] \in {"params", "response", "parts"}
    BY <1>1, <2>1 DEF Session, Phases
  <2> QED
    BY <2>3, <2>4, <2>5, <2>6
<1>2. NegotiationInv => NothingDropped
  BY <1>1 DEF NothingDropped
<1> QED
  BY <1>2, NegotiationInvariant, PTL

\* A query returns with its last package only.
LEMMA QueryReturns ==
  ASSUME NegotiationInv, [Next]_vars, NEW r \in Receiver, phase[r] = "parts", phase'[r] = "idle"
  PROVE  ReceiveResult(r)
<1>1. phase' # phase
  OBVIOUS
<1>2. PICK s \in Receiver :
        RequestParams(s) \/ Construct(s) \/ ResetKeys(s) \/ RequestQuery(s) \/ Dispatch(s) \/ Answered(s)
  BY <1>1 DEF Next, vars, receiverVars, StartSender, StopSender
<1>3. ~Construct(s) /\ ~ResetKeys(s) /\ ~Dispatch(s)
  BY <1>1 DEF Construct, ResetKeys, WithKeys, Dispatch, Drop, RunParams, Refuse, Overrun, FailBundles, RunQuery, Runs, Receives, receiverVars
<1>4. \E p : phase' = [phase EXCEPT ![s] = p]
  BY <1>1, <1>2, <1>3 DEF RequestParams, RequestQuery, Call, Answered, ReceiveParams, ReceiveResponse, ReceiveResult
<1>5. s = r
  BY <1>4 DEF NegotiationInv, Shapes
<1> QED
  BY <1>2, <1>3, <1>5 DEF RequestParams, RequestQuery, Call, Answered, ReceiveParams, ReceiveResponse

(***************************************************************************)
(* When a query returns, its packages are one of each bundle of the        *)
(* receiver's parameters, evaluated for this query of this receiver with   *)
(* the relinearization keys that belong to its secret key.                 *)
(***************************************************************************)
THEOREM QueriesReturnOwn == Spec => ResultsAreOwn
<1>1. ASSUME NegotiationInv, [Next]_vars, NEW r \in Receiver,
             phase[r] = "parts", phase'[r] = "idle", fate[r].what # "overrun"
      PROVE  /\ {m.bundle_idx : m \in got'[r]} = Bundles(object[r].params)
             /\ \A m \in got'[r] :
                  /\ m.receiver = r
                  /\ m.secret = object[r].secret
                  /\ m.relin_keys = object[r].secret
  <2>1. object[r].params \in Proper /\ Collected(r, object[r], fate[r], got'[r], 0)
    BY <1>1, QueryReturns, ReceiveResultKeeps
  <2>2. Indices(got'[r]) = Bundles(object[r].params)
    BY <2>1, AllCollected
  <2>3. KeysTogether(object[r]) /\ object[r].params # None
    BY <1>1, <2>1, KnownOf, ProperBundles DEF Session
  <2>4. ASSUME NEW m \in got'[r]
        PROVE  m.receiver = r /\ m.secret = object[r].secret /\ m.relin_keys = object[r].secret
    <3>1. OwnPackage(r, object[r], fate[r], m)
      BY <2>1 DEF Collected
    <3> QED
      BY <1>1, <2>3, <3>1 DEF OwnPackage, KeysTogether
  <2> QED
    BY <2>2, <2>4 DEF Indices
<1>2. NegotiationInv /\ [Next]_vars =>
        [\A r \in Receiver :
           phase[r] = "parts" /\ phase'[r] = "idle" /\ fate[r].what # "overrun" =>
             /\ {m.bundle_idx : m \in got'[r]} = Bundles(object[r].params)
             /\ \A m \in got'[r] :
                  /\ m.receiver = r
                  /\ m.secret = object[r].secret
                  /\ m.relin_keys = object[r].secret]_vars
  BY <1>1
<1> QED
  BY <1>2, NegotiationInvariant, PTL DEF Spec, ResultsAreOwn

=============================================================================
