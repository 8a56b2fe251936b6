----------------------------- MODULE QueryKeys ------------------------------
(***************************************************************************)
(* How the keys of a receiver reach the evaluation of its query: through   *)
(* SEALObject (common/apsi/seal_object.h), which holds an object or its    *)
(* serializable form, is copied, moved, saved, loaded and extracted from,  *)
(* and through CryptoContext (common/apsi/crypto_context.h), of which each *)
(* query gets a copy of its own.                                           *)
(*                                                                         *)
(* A key or a ciphertext stands for the generation of keys it belongs to:  *)
(* <<receiver, n>>.  RunQuery may run for several receivers at once.       *)
(***************************************************************************)
EXTENDS Integers, FiniteSets

CONSTANTS
  Receiver,
  MaxGenerations,  \* a bound on reset_keys
  Default,         \* an object as its default constructor makes it
  None             \* a null pointer

VARIABLES
  using_keyswitching,  \* what the parameters of both sides allow
  generation,      \* how often each receiver has generated keys
  stage,           \* where the query of each receiver is
  relin_keys,      \* Receiver::relin_keys_
  context,         \* Receiver::crypto_context_
  request,         \* the request, on the receiver's side and on the sender's
  wire,            \* its bytes
  query,           \* the sender's Query
  db_context,      \* SenderDB::crypto_context_
  run_context,     \* the copies in RunQuery
  package,         \* the result package, on the sender's side, then the receiver's
  decrypted        \* what ResultPackage::extract decrypted, and with which key

vars == <<using_keyswitching, generation, stage, relin_keys, context, request, wire, query,
          db_context, run_context, package, decrypted>>

receiver_vars == <<generation, relin_keys, context>>
sender_vars == <<query, db_context, run_context>>

(***************************************************************************)
(* SEALObject: at most one of two pointers is set.                         *)
(***************************************************************************)
NewObject == [local |-> None, serializable |-> None]

is_local(o) == o.local # None
is_serializable(o) == o.serializable # None

clear(o) == [o EXCEPT !.serializable = None, !.local = None]
set_local(o, value) == [o EXCEPT !.serializable = None, !.local = value]
set_serializable(o, value) == [o EXCEPT !.local = None, !.serializable = value]

\* operator=, which loses the object that is assigned to itself; source
\* never holds both, for which it throws
assign(o, source) ==
  CASE is_local(source) /\ ~is_serializable(source) -> set_local(o, source.local)
    [] ~is_local(source) /\ is_serializable(source) -> set_serializable(o, source.serializable)
    [] OTHER -> clear(o)

CanExtract(o) == is_local(o) \/ is_serializable(o)
Extracted(o) == IF is_local(o) THEN o.local ELSE o.serializable
AfterExtract(o) ==
  IF is_local(o) THEN [o EXCEPT !.local = None] ELSE [o EXCEPT !.serializable = None]

\* No bytes for an empty object.
save(o) ==
  CASE is_local(o) /\ ~is_serializable(o) -> o.local
    [] ~is_local(o) /\ is_serializable(o) -> o.serializable
    [] OTHER -> None

\* load throws for no bytes, and leaves a default object.
Loads(bytes) == bytes # None
load(o, bytes) == set_local(o, IF Loads(bytes) THEN bytes ELSE Default)

(***************************************************************************)
(* CryptoContext: pointers, which copies share; set_ and clear_ change     *)
(* those of one copy.                                                      *)
(***************************************************************************)
NewContext ==
  [relin_keys |-> None, secret_key |-> None, encryptor |-> None, decryptor |-> None,
   evaluator |-> FALSE]

set_evaluator(c, keys) == [c EXCEPT !.relin_keys = keys, !.evaluator = TRUE]

set_secret(c, key) == [c EXCEPT !.secret_key = key, !.encryptor = key, !.decryptor = key]

Init ==
  /\ using_keyswitching \in BOOLEAN
  /\ generation = [r \in Receiver |-> 0]
  /\ stage = [r \in Receiver |-> "idle"]
  /\ relin_keys = [r \in Receiver |-> NewObject]
  /\ context = [r \in Receiver |-> NewContext]
  /\ request = [r \in Receiver |-> [relin_keys |-> NewObject, data |-> NewObject]]
  /\ wire = [r \in Receiver |-> [relin_keys |-> None, data |-> None]]
  /\ query = [r \in Receiver |-> [relin_keys |-> Default, data |-> None]]
  /\ db_context = set_evaluator(NewContext, None)
  /\ run_context = [r \in Receiver |-> NewContext]
  /\ package = [r \in Receiver |-> NewObject]
  /\ decrypted = [r \in Receiver |-> None]

Goes(r, from, to) == stage[r] = from /\ stage' = [stage EXCEPT ![r] = to]

(***************************************************************************)
(* The receiver.  reset_keys is called by the constructor, and by others   *)
(* between queries.                                                        *)
(***************************************************************************)
Generated(keys, gen) ==
  IF using_keyswitching THEN set_serializable(clear(keys), gen) ELSE clear(keys)

reset_keys(r) ==
  LET gen == <<r, generation[r] + 1>>
  IN /\ stage[r] = "idle"
     /\ generation[r] < MaxGenerations
     /\ generation' = [generation EXCEPT ![r] = @ + 1]
     /\ context' = [context EXCEPT ![r] = set_secret(@, gen)]
     /\ relin_keys' = [relin_keys EXCEPT ![r] = Generated(@, gen)]
     /\ UNCHANGED <<using_keyswitching, stage, request, wire, package, decrypted, sender_vars>>

\* The bits are encrypted and moved into the request; the keys are copied.
create_query(r) ==
  /\ generation[r] > 0
  /\ Goes(r, "idle", "created")
  /\ request' = [request EXCEPT ![r] =
       [relin_keys |-> assign(NewObject, relin_keys[r]),
        data |-> set_serializable(NewObject, context[r].encryptor)]]
  /\ decrypted' = [decrypted EXCEPT ![r] = None]
  /\ UNCHANGED <<using_keyswitching, wire, package, receiver_vars, sender_vars>>

send(r) ==
  /\ Goes(r, "created", "sent")
  /\ wire' = [wire EXCEPT ![r] =
       [relin_keys |-> save(request[r].relin_keys), data |-> save(request[r].data)]]
  /\ UNCHANGED <<using_keyswitching, request, package, decrypted, receiver_vars, sender_vars>>

(***************************************************************************)
(* The sender: SenderOperationQuery::load, Query::Query, RunQuery.         *)
(***************************************************************************)
receive(r) ==
  /\ Goes(r, "sent", "loaded")
  /\ Loads(wire[r].data) /\ (using_keyswitching => Loads(wire[r].relin_keys))
  /\ request' = [request EXCEPT ![r] =
       [relin_keys |-> IF using_keyswitching THEN load(NewObject, wire[r].relin_keys) ELSE NewObject,
        data |-> load(NewObject, wire[r].data)]]
  /\ UNCHANGED <<using_keyswitching, wire, package, decrypted, receiver_vars, sender_vars>>

MakeQuery(r) ==
  LET q == request[r]
      keys == using_keyswitching
  IN /\ Goes(r, "loaded", "query")
     /\ CanExtract(q.data) /\ (keys => CanExtract(q.relin_keys))
     /\ query' = [query EXCEPT ![r] =
          [relin_keys |-> IF keys THEN Extracted(q.relin_keys) ELSE Default,
           data |-> Extracted(q.data)]]
     /\ request' = [request EXCEPT ![r] =
          [relin_keys |-> IF keys THEN AfterExtract(q.relin_keys) ELSE q.relin_keys,
           data |-> AfterExtract(q.data)]]
     /\ UNCHANGED <<using_keyswitching, wire, package, decrypted, receiver_vars, db_context,
                    run_context>>

\* Mutant: the evaluator is set in the database's context, not in a copy.
RunQueryInPlace(r) ==
  /\ Goes(r, "query", "running")
  /\ db_context' = set_evaluator(db_context, query[r].relin_keys)
  /\ run_context' = [run_context EXCEPT ![r] = db_context']
  /\ UNCHANGED <<using_keyswitching, request, wire, package, decrypted, receiver_vars, query>>

RunQuery(r) ==
  /\ Goes(r, "query", "running")
  /\ run_context' = [run_context EXCEPT ![r] = set_evaluator(db_context, query[r].relin_keys)]
  /\ UNCHANGED <<using_keyswitching, request, wire, package, decrypted, receiver_vars, query,
                 db_context>>

\* The tasks of RunQuery read its context and its data when they run.
ProcessBinBundle(r) ==
  /\ Goes(r, "running", "answered")
  /\ run_context[r].evaluator
  /\ package' = [package EXCEPT ![r] =
       load(NewObject, save(set_local(NewObject, [data |-> query[r].data, keys |-> run_context[r].relin_keys])))]
  /\ UNCHANGED <<using_keyswitching, request, wire, decrypted, receiver_vars, sender_vars>>

(***************************************************************************)
(* ResultPackage::extract in process_result_part.                          *)
(***************************************************************************)
extract(r) ==
  /\ Goes(r, "answered", "idle")
  /\ context[r].decryptor # None /\ CanExtract(package[r])
  /\ decrypted' = [decrypted EXCEPT ![r] =
       [result |-> Extracted(package[r]), with |-> context[r].decryptor]]
  /\ package' = [package EXCEPT ![r] = AfterExtract(@)]
  /\ UNCHANGED <<using_keyswitching, request, wire, receiver_vars, sender_vars>>

Next ==
  \E r \in Receiver :
    \/ reset_keys(r)
    \/ create_query(r)
    \/ send(r)
    \/ receive(r)
    \/ MakeQuery(r)
    \/ RunQuery(r)
    \/ ProcessBinBundle(r)
    \/ extract(r)

Spec == Init /\ [][Next]_vars

(***************************************************************************)
(* A result is decrypted with the key that the query was encrypted with,   *)
(* and was relinearized with keys of the same generation, if the           *)
(* parameters have them at all; no object is ever in the state that its    *)
(* operator= throws for, none is empty when it is extracted from; and the  *)
(* database's context, which all queries copy, keeps no keys of any query. *)
(***************************************************************************)
OneOfTwo(o) == ~(is_local(o) /\ is_serializable(o))

KeysMatch ==
  /\ \A r \in Receiver :
       /\ OneOfTwo(relin_keys[r]) /\ OneOfTwo(package[r])
       /\ OneOfTwo(request[r].relin_keys) /\ OneOfTwo(request[r].data)
       /\ stage[r] = "sent" =>
            Loads(wire[r].data) /\ (using_keyswitching => Loads(wire[r].relin_keys))
       /\ stage[r] = "loaded" =>
            CanExtract(request[r].data)
            /\ (using_keyswitching => CanExtract(request[r].relin_keys))
       /\ decrypted[r] # None =>
            LET d == decrypted[r]
            IN d.result.data = d.with
               /\ d.result.keys = (IF using_keyswitching THEN d.with ELSE Default)
  /\ db_context = set_evaluator(NewContext, None)
=============================================================================
