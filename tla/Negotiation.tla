---------------------------- MODULE Negotiation ----------------------------
(***************************************************************************)
(* How receivers and a sender come to compute with the same parameters,    *)
(* and what becomes of a query when they do not.                           *)
(*                                                                         *)
(* A sender loads its parameters from a file and checks them               *)
(* (common/apsi/psi_params.cpp).  A receiver asks for them, constructs a   *)
(* Receiver with them, which generates keys, and may then make one query   *)
(* after another (receiver/apsi/receiver.cpp).  In the meantime the sender *)
(* may be restarted with another file or another build.  What the sender   *)
(* does with a query is decided in four places: the header's version       *)
(* (zmq_channel.cpp), loading under the SEALContext of its own parameters  *)
(* (sender_operation.cpp), the constructor of Query (sender/query.cpp) and *)
(* the use of the data in RunQuery (sender.cpp).                           *)
(*                                                                         *)
(* A receiver has one request at a time; the dispatcher processes one      *)
(* request at a time, so that receiving it, running it and sending all     *)
(* answers is one action here: QueryProtocol.tla has the steps between,    *)
(* its failing tasks and racing workers.                                   *)
(***************************************************************************)
EXTENDS Integers, Sequences, FiniteSets, FiniteSetsExt

CONSTANTS
  Receiver,         \* receivers, each with the routing id of its socket
  ReceiverVersion,  \* apsi_serialization_version of each receiver's build
  Version,          \* apsi_serialization_version of the sender's builds
  ParamsFile,       \* what the sender's params_file may hold
  MaxStarts,        \* bound: attempts to start the sender
  MaxRequests,      \* bound: requests of all receivers
  MaxKeys,          \* bound: generations of keys
  None

(***************************************************************************)
(* The fields of PSIParams.  Of the SEAL parameters counts what            *)
(* EncryptionParameters and SEALContext say of them; two of them are the   *)
(* same parms_id when all fields are equal.                                *)
(***************************************************************************)
SEALParams ==
  [id : Nat, poly_modulus_degree : Nat, parameters_set : BOOLEAN,
   using_batching : BOOLEAN, using_keyswitching : BOOLEAN]
PSIParams ==
  [table_size : Nat, max_items_per_bin : Nat, hash_func_count : Nat,
   receiver_bins_per_bundle : Nat, sender_bins_per_bundle : Nat,
   item_bit_count : Nat, seal_params : SEALParams]

ASSUME NegotiationAssumption ==
  /\ ReceiverVersion \in [Receiver -> Nat] /\ Version \subseteq Nat
  /\ ParamsFile \subseteq PSIParams
  /\ MaxStarts \in Nat /\ MaxRequests \in Nat /\ MaxKeys \in Nat
  /\ None \notin ParamsFile

VARIABLES
  sender,    \* the sender's process: its parameters (None if down) and build
  request,   \* the request of each receiver that is on its way
  inbox,     \* what the sender has sent to each receiver
  phase,     \* the call each receiver is in
  given,     \* the parameters RequestParams returned last
  object,    \* the Receiver object: its parameters and keys
  left,      \* package_count of the query in progress
  got,       \* the packages of the last query
  fate,      \* what the sender made of the last request
  starts, asked, keys    \* counters for the bounds

receiverVars == <<phase, given, object, left, got, asked, keys>>
vars == <<sender, request, inbox, receiverVars, fate, starts>>

Down == [params |-> None, version |-> 0]
NoObject == [params |-> None, secret |-> 0, relin_keys |-> 0]
NoFate == [what |-> "pending", made |-> None, by |-> Down]

Init ==
  /\ sender = Down /\ starts = 0
  /\ request = [r \in Receiver |-> None] /\ inbox = [r \in Receiver |-> <<>>]
  /\ phase = [r \in Receiver |-> "idle"]
  /\ given = [r \in Receiver |-> None] /\ object = [r \in Receiver |-> NoObject]
  /\ left = [r \in Receiver |-> 0] /\ got = [r \in Receiver |-> {}]
  /\ fate = [r \in Receiver |-> NoFate]
  /\ asked = 0 /\ keys = 0
----------------------------------------------------------------------------
(***************************************************************************)
(* PSIParams.                                                              *)
(***************************************************************************)
hash_func_count_min == 1
hash_func_count_max == 8
item_bit_count_min == 32
item_bit_count_max == 128

SEALParamsValid(s) == s.parameters_set /\ s.using_batching

TablesFit(p) ==
  /\ p.receiver_bins_per_bundle <= p.seal_params.poly_modulus_degree
  /\ p.sender_bins_per_bundle <= p.seal_params.poly_modulus_degree

\* without bins the remainder is undefined: the process is killed, or the
\* remainder is table_size and the parameters are refused
WholeBundles(p) ==
  p.receiver_bins_per_bundle # 0 /\ p.table_size % p.receiver_bins_per_bundle = 0

\* initialize does not throw
initialize(p) ==
  /\ p.table_size # 0 /\ p.max_items_per_bin # 0
  /\ p.hash_func_count \in hash_func_count_min .. hash_func_count_max
  /\ p.item_bit_count \in item_bit_count_min .. item_bit_count_max
  /\ SEALParamsValid(p.seal_params)
  /\ TablesFit(p)
  /\ WholeBundles(p)

bundle_idx_count(p) == p.table_size \div p.receiver_bins_per_bundle
Bundles(p) == 0 .. bundle_idx_count(p) - 1
----------------------------------------------------------------------------
(***************************************************************************)
(* The sender's process.                                                   *)
(***************************************************************************)
Up == sender.params # None

\* start_sender: parameters that do not load end the process
StartSender(p, v) ==
  /\ ~Up
  /\ starts < MaxStarts /\ starts' = starts + 1
  /\ sender' = IF initialize(p) THEN [params |-> p, version |-> v] ELSE Down
  /\ UNCHANGED <<request, inbox, receiverVars, fate>>

\* the process ends: it may have received requests that it has not run, and
\* its socket may hold answers that have not gone out
StopSender ==
  /\ Up
  /\ sender' = Down
  /\ \E lost \in SUBSET Receiver :
       request' = [r \in Receiver |-> IF r \in lost THEN None ELSE request[r]]
  /\ \E out \in [Receiver -> 0 .. Max({Len(inbox[r]) : r \in Receiver})] :
       /\ \A r \in Receiver : out[r] <= Len(inbox[r])
       /\ inbox' = [r \in Receiver |-> SubSeq(inbox[r], 1, out[r])]
  /\ UNCHANGED <<receiverVars, fate, starts>>
----------------------------------------------------------------------------
(***************************************************************************)
(* Requests.                                                               *)
(***************************************************************************)
Call(r, p, msg) ==
  /\ phase[r] = "idle" /\ request[r] = None
  /\ asked < MaxRequests /\ asked' = asked + 1
  /\ phase' = [phase EXCEPT ![r] = p]
  /\ request' = [request EXCEPT ![r] = msg]
  /\ fate' = [fate EXCEPT ![r] = NoFate]
  /\ got' = [got EXCEPT ![r] = {}]

\* SenderOperationParms: a header and no data
Parms(r) == [type |-> "sop_parms", version |-> ReceiverVersion[r]]

RequestParams(r) ==
  /\ Call(r, "params", Parms(r))
  /\ UNCHANGED <<sender, inbox, given, object, left, keys, starts>>

\* Mutant: the relinearization keys of the first key generation stay.
kept_relin_keys(r, k) == IF object[r].relin_keys = 0 THEN k ELSE object[r].relin_keys

relin_keys(r, k) == k

\* reset_keys; without key switching the query has no relinearization keys
WithKeys(r, p) ==
  /\ keys < MaxKeys /\ keys' = keys + 1
  /\ object' = [object EXCEPT ![r] =
       [params |-> p, secret |-> keys + 1,
        relin_keys |-> IF p.seal_params.using_keyswitching THEN relin_keys(r, keys + 1) ELSE 0]]
  /\ UNCHANGED <<sender, request, inbox, phase, given, left, got, fate, starts, asked>>

Construct(r) == phase[r] = "idle" /\ given[r] # None /\ WithKeys(r, given[r])
ResetKeys(r) == phase[r] = "idle" /\ object[r].params # None /\ WithKeys(r, object[r].params)

\* Mutant: the bits are counted from one.
BitsFromOne(p) == 1 .. p.item_bit_count

\* PlaintextBits: the exponents of a query
Bits(p) == 0 .. p.item_bit_count - 1

\* create_query: for each of the Bits(params) bundle_idx_count(params)
\* ciphertexts, and a copy of the keys
Query(r) ==
  [type |-> "sop_query", version |-> ReceiverVersion[r],
   params |-> object[r].params, secret |-> object[r].secret, relin_keys |-> object[r].relin_keys]

RequestQuery(r) ==
  /\ object[r].params # None
  /\ Call(r, "response", Query(r))
  /\ UNCHANGED <<sender, inbox, given, object, left, keys, starts>>
----------------------------------------------------------------------------
(***************************************************************************)
(* The dispatcher.                                                         *)
(***************************************************************************)

\* Mutant: the version in the header is not compared.
LoadsAnyVersion(op) == op.type = "sop_query" => op.params.seal_params = sender.params.seal_params

\* receive_network_operation: header and SenderOperation::load
Loads(op) ==
  /\ op.version = sender.version
  /\ op.type = "sop_query" =>
       /\ op.params.seal_params = sender.params.seal_params
       /\ sender.params.seal_params.using_keyswitching => op.relin_keys # 0

\* Mutant: the number of ciphertexts is not checked.
AlwaysValid(op) == TRUE

\* the constructor of Query
Valid(op) == bundle_idx_count(op.params) = bundle_idx_count(sender.params)

\* the vector of ciphertexts that RunQuery fills
AllBits == 0 .. sender.params.item_bit_count - 1

Response(op) ==
  [type |-> op.type, version |-> sender.version, params |-> sender.params,
   package_count |-> bundle_idx_count(sender.params)]
Package(r, op, b) ==
  [type |-> "package", bundle_idx |-> b, seal_params |-> sender.params.seal_params,
   secret |-> op.secret, relin_keys |-> op.relin_keys, receiver |-> r]

\* Mutant: the client_id has been moved into the response, the packages
\* are addressed to nobody.
PackagesLost(r, op, sent) == {<<>>}

\* the tasks of the pool send the packages of their bundles in any order
Packages(r, op, sent) ==
  {[i \in 1 .. Cardinality(sent) |-> Package(r, op, order[i])] : order \in Injection(1 .. Cardinality(sent), sent)}

SendTo(r, answers) == inbox' = [inbox EXCEPT ![r] = @ \o answers]
Answer(r, op, sent) == \E packages \in Packages(r, op, sent) : SendTo(r, <<Response(op)>> \o packages)

Ends(r, what) ==
  fate' = [fate EXCEPT ![r] = [what |-> what, by |-> sender,
             made |-> IF phase[r] = "params" THEN None ELSE object[r].params]]

Receives(r, op) ==
  /\ Up
  /\ request[r] # None /\ op = request[r]
  /\ request' = [request EXCEPT ![r] = None]
  /\ UNCHANGED <<receiverVars, starts>>

\* the channel returns nullptr
Drop(r, op) ==
  /\ Receives(r, op) /\ ~Loads(op)
  /\ Ends(r, "dropped")
  /\ UNCHANGED <<sender, inbox>>

\* dispatch_parms
RunParams(r, op) ==
  /\ Receives(r, op) /\ Loads(op) /\ op.type = "sop_parms"
  /\ SendTo(r, <<Response(op)>>)
  /\ Ends(r, "served")
  /\ UNCHANGED sender

\* dispatch_query, whose query is invalid: RunQuery throws
Refuse(r, op) ==
  /\ Receives(r, op) /\ Loads(op) /\ op.type = "sop_query" /\ ~Valid(op)
  /\ Ends(r, "refused")
  /\ UNCHANGED <<sender, inbox>>

Runs(r, op) == Receives(r, op) /\ Loads(op) /\ op.type = "sop_query" /\ Valid(op)

\* a ciphertext is written beyond the vector, after the response: the
\* process is killed, or it goes on
Overrun(r, op) ==
  /\ Runs(r, op) /\ ~(Bits(op.params) \subseteq AllBits)
  /\ Ends(r, "overrun")
  /\ \/ sender' = Down /\ SendTo(r, <<Response(op)>>)
     \/ UNCHANGED sender /\ Answer(r, op, Bundles(sender.params))

Evaluable(op) == AllBits \subseteq Bits(op.params) /\ sender.params.seal_params.using_keyswitching

\* an evaluation throws: always at the relinearization if there is no key
\* switching; at the first bit that is missing unless the branching program
\* is without nodes, so that only some bundles' packages are sent
FailBundles(r, op) ==
  /\ Runs(r, op) /\ Bits(op.params) \subseteq AllBits /\ ~Evaluable(op)
  /\ \E empty \in SUBSET Bundles(sender.params) :
       /\ empty # {} => sender.params.seal_params.using_keyswitching
       /\ Answer(r, op, empty)
  /\ Ends(r, "failed")
  /\ UNCHANGED sender

RunQuery(r, op) ==
  /\ Runs(r, op) /\ Bits(op.params) \subseteq AllBits /\ Evaluable(op)
  /\ Answer(r, op, Bundles(sender.params))
  /\ Ends(r, "served")
  /\ UNCHANGED sender

Dispatch(r) ==
  \E op \in {request[r]} :
    Drop(r, op) \/ RunParams(r, op) \/ Refuse(r, op) \/ Overrun(r, op) \/ FailBundles(r, op) \/ RunQuery(r, op)
----------------------------------------------------------------------------
(***************************************************************************)
(* Answers.                                                                *)
(***************************************************************************)
Receive(r) ==
  /\ inbox[r] # <<>> /\ inbox' = [inbox EXCEPT ![r] = Tail(@)]
  /\ UNCHANGED <<sender, request, object, fate, starts, asked, keys>>

\* the end of RequestParams: PSIParams::Load, which checks the parameters
ReceiveParams(r) ==
  /\ phase[r] = "params" /\ Receive(r)
  /\ LET m == Head(inbox[r]) IN
     IF m.type = "sop_parms" /\ m.version = ReceiverVersion[r]
     THEN IF initialize(m.params)
          THEN given' = [given EXCEPT ![r] = m.params] /\ phase' = [phase EXCEPT ![r] = "idle"]
          ELSE UNCHANGED given /\ phase' = [phase EXCEPT ![r] = "threw"]
     ELSE UNCHANGED <<given, phase>>
  /\ UNCHANGED <<left, got>>

ReceiveResponse(r) ==
  /\ phase[r] = "response" /\ Receive(r)
  /\ LET m == Head(inbox[r]) IN
     IF m.type = "sop_query" /\ m.version = ReceiverVersion[r]
     THEN left' = [left EXCEPT ![r] = m.package_count] /\ phase' = [phase EXCEPT ![r] = "parts"]
     ELSE UNCHANGED <<left, phase>>
  /\ UNCHANGED <<given, got>>

\* a package that does not load under the receiver's SEALContext is dropped
ReceiveResult(r) ==
  /\ phase[r] = "parts" /\ Receive(r)
  /\ LET m == Head(inbox[r]) IN
     IF m.seal_params = object[r].params.seal_params
     THEN /\ got' = [got EXCEPT ![r] = @ \cup {m}]
          /\ left' = [left EXCEPT ![r] = @ - 1]
          /\ phase' = [phase EXCEPT ![r] = IF left[r] = 1 THEN "idle" ELSE "parts"]
     ELSE UNCHANGED <<got, left, phase>>
  /\ UNCHANGED given

Answered(r) == ReceiveParams(r) \/ ReceiveResponse(r) \/ ReceiveResult(r)
----------------------------------------------------------------------------
Next ==
  \/ \E p \in ParamsFile, v \in Version : StartSender(p, v)
  \/ StopSender
  \/ \E r \in Receiver :
       RequestParams(r) \/ Construct(r) \/ ResetKeys(r) \/ RequestQuery(r) \/ Dispatch(r) \/ Answered(r)

Spec == Init /\ [][Next]_vars

\* the dispatcher polls again and the socket is fair to its clients; a
\* receiver's call that can go on goes on
FairSpec == Spec /\ \A r \in Receiver : WF_vars(Dispatch(r)) /\ WF_vars(Answered(r))
----------------------------------------------------------------------------
(***************************************************************************)
(* Properties.                                                             *)
(***************************************************************************)
InUse == ({sender.params} \cup {given[r] : r \in Receiver} \cup {object[r].params : r \in Receiver}) \ {None}
FateType == {"pending", "dropped", "refused", "overrun", "failed", "served"}

(***************************************************************************)
(* Types.  The parameters that a process or a Receiver runs with divide    *)
(* the whole table into at least one bundle (psi_params.cpp: "Compute the  *)
(* number of bundle indices; this is now guaranteed to be greater than     *)
(* zero").                                                                 *)
(***************************************************************************)
TypeOK ==
  /\ InUse \subseteq ParamsFile
  /\ \A p \in InUse : bundle_idx_count(p) > 0 /\ bundle_idx_count(p) * p.receiver_bins_per_bundle = p.table_size
  /\ sender.version \in Version \cup {0}
  /\ phase \in [Receiver -> {"idle", "params", "response", "parts", "threw"}]
  /\ \A r \in Receiver :
       /\ phase[r] \in {"response", "parts"} => object[r].params # None
       /\ phase[r] = "parts" => left[r] > 0
       /\ fate[r].what \in FateType
  /\ starts \in 0 .. MaxStarts /\ asked \in 0 .. MaxRequests /\ keys \in 0 .. MaxKeys

SameShape(p, q) ==
  /\ p.seal_params = q.seal_params /\ bundle_idx_count(p) = bundle_idx_count(q)
  /\ p.item_bit_count = q.item_bit_count

(***************************************************************************)
(* A query that was made with the parameters of the sender that processes  *)
(* it, by a build of the same serialization version, is never dropped,     *)
(* refused or left without packages, however the sender was restarted and  *)
(* the keys were reset before; and a query is answered in full only if it  *)
(* has the sender's SEAL parameters, bundles and bits.  (The code does not *)
(* notice a query made for other hash functions.)  No process runs with    *)
(* parameters whose bundles do not make up the table (in TypeOK).          *)
(***************************************************************************)
ServedAsMade ==
  /\ TypeOK
  /\ \A r \in Receiver :
    LET f == fate[r] IN
    f.what # "pending" /\ f.made # None =>
      /\ f.made = f.by.params /\ f.by.version = ReceiverVersion[r] /\ f.made.seal_params.using_keyswitching
           => f.what = "served"
      /\ f.what = "served" => SameShape(f.made, f.by.params)

(***************************************************************************)
(* When a query returns, its packages are one of each bundle of the        *)
(* receiver's parameters, evaluated for this receiver's query, with the    *)
(* relinearization keys that belong to the secret key that encrypted it    *)
(* and that decrypts them.                                                 *)
(***************************************************************************)
ResultsAreOwn ==
  [][\A r \in Receiver :
       phase[r] = "parts" /\ phase'[r] = "idle" /\ fate[r].what # "overrun" =>
         /\ {m.bundle_idx : m \in got'[r]} = Bundles(object[r].params)
         /\ \A m \in got'[r] :
              /\ m.receiver = r
              /\ m.secret = object[r].secret
              /\ m.relin_keys = object[r].secret]_vars

(***************************************************************************)
(* A receiver never drops what it receives: by the time of an answer the   *)
(* request has been accepted by a sender with the version and, for a       *)
(* query, the SEAL parameters of the receiver, whoever runs then.          *)
(***************************************************************************)
NothingDropped ==
  \A r \in Receiver : inbox[r] # <<>> =>
    LET m == Head(inbox[r]) IN
    CASE phase[r] = "params" -> m.type = "sop_parms" /\ m.version = ReceiverVersion[r]
      [] phase[r] = "response" -> m.type = "sop_query" /\ m.version = ReceiverVersion[r]
      [] phase[r] = "parts" -> m.type = "package" /\ m.seal_params = object[r].params.seal_params
      [] OTHER -> FALSE

(***************************************************************************)
(* A query that the constructor of Query finds valid asks for the bits of  *)
(* the sender's items, no fewer and no more (sender/query.cpp: "Check that *)
(* powers in the query data match source nodes in the PowersDag").         *)
(***************************************************************************)
PowersMatch ==
  \A r \in Receiver :
    fate[r].what \in {"overrun", "failed", "served"} /\ fate[r].made # None
      => Bits(fate[r].made) = 0 .. fate[r].by.params.item_bit_count - 1

\* the sender runs, as far as this receiver can see, what the receiver runs
Agree(r) ==
  /\ Up /\ sender.version = ReceiverVersion[r]
  /\ phase[r] = "params" \/ (object[r].params = sender.params /\ sender.params.seal_params.using_keyswitching)

(***************************************************************************)
(* A request that reaches a sender of the same version and, for a query,   *)
(* with the same parameters, returns, unless the sender is stopped before. *)
(***************************************************************************)
RequestsReturn ==
  \A r \in Receiver : request[r] # None /\ Agree(r) ~> phase[r] = "idle" \/ ~Agree(r)
=============================================================================
