------------------------------ MODULE Channel -------------------------------
(***************************************************************************)
(* A ZMQChannel (network/zmq/zmq_channel.cpp) from its construction to its *)
(* destruction, and the threads that use its socket: those of the sender's *)
(* ZMQSenderDispatcher::run and its tasks, or those of a receiver's        *)
(* request_query.  A ZeroMQ socket is not to be used by two threads at     *)
(* once; the channel has a mutex for sending and another for receiving,    *)
(* which do not exclude each other.                                        *)
(*                                                                         *)
(* What is in the messages is left to QueryProtocol and Negotiation.       *)
(***************************************************************************)
EXTENDS Integers, FiniteSets

CONSTANTS
  Main,          \* the dispatcher's thread, or the caller of request_query
  Worker,        \* the threads of the pool
  NoOne

Thread == Worker \cup {Main}

VARIABLES
  role,          \* "sender" or "receiver"
  end_point,     \* whether end_point_ is set
  socket,        \* socket_: "none", "open" or "closed"
  context,       \* whether context_ is there
  send_mutex, receive_mutex,
  at,            \* where each thread is
  failed         \* whether a task of the query has thrown

vars == <<role, end_point, socket, context, send_mutex, receive_mutex, at, failed>>
life == <<role, end_point, socket, context>>

Init ==
  /\ role \in {"sender", "receiver"}
  /\ end_point = FALSE /\ socket = "none" /\ context = TRUE
  /\ send_mutex = NoOne /\ receive_mutex = NoOne
  /\ at = [t \in Thread |-> IF t = Main THEN "start" ELSE "idle"]
  /\ failed = FALSE

Goes(t, from, to) == at[t] \in from /\ at' = [at EXCEPT ![t] = to]

is_connected == end_point

(***************************************************************************)
(* bind and connect: end_point_ is set before get_socket makes the socket  *)
(* and the call is made.  What is left to do when it throws is to destroy  *)
(* the channel: it counts as connected, and refuses another call.          *)
(***************************************************************************)
Open ==
  /\ ~is_connected
  /\ end_point' = TRUE
  /\ socket' = "open"
  /\ \/ Goes(Main, {"start"}, IF role = "sender" THEN "poll" ELSE "request")
     \/ Goes(Main, {"start"}, "leaving")
  /\ UNCHANGED <<role, context, send_mutex, receive_mutex, failed>>

\* ~ZMQChannel
Destroy ==
  /\ Goes(Main, {"leaving"}, "gone")
  /\ end_point' = FALSE
  /\ IF is_connected THEN socket' = (IF socket = "open" THEN "closed" ELSE socket) /\ context' = FALSE
     ELSE UNCHANGED <<socket, context>>
  /\ UNCHANGED <<role, send_mutex, receive_mutex, failed>>

(***************************************************************************)
(* send_message and receive_message: the socket is used with the mutex     *)
(* locked.  A call throws (throw_if_not_connected) without the endpoint.   *)
(***************************************************************************)
Sends(t, from, to) ==
  /\ is_connected
  /\ send_mutex = NoOne
  /\ send_mutex' = t
  /\ Goes(t, from, to)
  /\ UNCHANGED <<life, receive_mutex, failed>>

Sent(t, from, to) ==
  /\ send_mutex = t
  /\ send_mutex' = NoOne
  /\ Goes(t, from, to)
  /\ UNCHANGED <<life, receive_mutex, failed>>

Receives(t, from, to) ==
  /\ is_connected
  /\ receive_mutex = NoOne
  /\ receive_mutex' = t
  /\ Goes(t, from, to)
  /\ UNCHANGED <<life, send_mutex, failed>>

Received(t, from, to) ==
  /\ receive_mutex = t
  /\ receive_mutex' = NoOne
  /\ Goes(t, from, to)
  /\ UNCHANGED <<life, send_mutex, failed>>

(***************************************************************************)
(* The dispatcher: receive an operation without waiting; answer a request  *)
(* for parameters, or announce the packages of a query and have the        *)
(* workers send them.                                                      *)
(***************************************************************************)
Poll == role = "sender" /\ Receives(Main, {"poll"}, "polling")
NothingYet == Received(Main, {"polling"}, "poll")
GotOperation == Received(Main, {"polling"}, "dispatch")
Stop == Goes(Main, {"poll"}, "leaving") /\ UNCHANGED <<life, send_mutex, receive_mutex, failed>>

Respond == role = "sender" /\ Sends(Main, {"dispatch"}, "responding")
Responded == role = "sender" /\ Sent(Main, {"responding"}, "poll")

\* receive_network_operation drops what it cannot load, Query::Query and
\* RunQuery refuse what is not valid: no call of the socket
Refuse ==
  /\ Goes(Main, {"dispatch"}, "poll")
  /\ UNCHANGED <<life, send_mutex, receive_mutex, failed>>

(***************************************************************************)
(* Tasks of a query: RunQuery enqueues them when the response is sent,     *)
(* request_query when it was received.  A task may throw instead.          *)
(***************************************************************************)
EnqueueTasks ==
  /\ \/ role = "sender" /\ at[Main] = "responding" /\ send_mutex = Main /\ send_mutex' = NoOne
        /\ UNCHANGED receive_mutex
     \/ role = "receiver" /\ at[Main] = "awaiting" /\ receive_mutex = Main /\ receive_mutex' = NoOne
        /\ UNCHANGED send_mutex
  /\ at' = [t \in Thread |-> IF t = Main THEN "getting" ELSE "task"]
  /\ failed' = FALSE
  /\ UNCHANGED life

SendPackage(w) == role = "sender" /\ Sends(w, {"task"}, "sending")
PackageSent(w) == Sent(w, {"sending"}, "idle")
ReceivePackage(w) == role = "receiver" /\ Receives(w, {"task"}, "receiving")
PackageReceived(w) == \E to \in {"task", "idle"} : Received(w, {"receiving"}, to)

FailTask(w) ==
  /\ Goes(w, {"task"}, "idle")
  /\ failed' = TRUE
  /\ UNCHANGED <<life, send_mutex, receive_mutex>>

TasksDone == \A w \in Worker : at[w] = "idle"

\* f.get() of a task that has thrown leaves the function at once; then
\* its ThreadPoolMgr is destroyed, the last one, and with it the pool
GetThrows ==
  /\ failed
  /\ Goes(Main, {"getting"}, "unwinding")
  /\ UNCHANGED <<life, send_mutex, receive_mutex, failed>>

\* Mutant: the manager is not the last one, and its destructor waits for nothing.
NotTheLast == TRUE

PoolDrained == TasksDone

Return ==
  /\ \/ TasksDone /\ ~failed /\ Goes(Main, {"getting"}, IF role = "sender" THEN "poll" ELSE "leaving")
     \/ PoolDrained /\ Goes(Main, {"unwinding"}, IF role = "sender" THEN "poll" ELSE "leaving")
  /\ UNCHANGED <<life, send_mutex, receive_mutex, failed>>

(***************************************************************************)
(* The receiver: send the request, wait for its response.                  *)
(***************************************************************************)
Ask == role = "receiver" /\ Sends(Main, {"request"}, "asking")
Asked == Sent(Main, {"asking"}, "wait")
Await == Receives(Main, {"wait"}, "awaiting")
BadResponse == role = "receiver" /\ \E to \in {"wait", "leaving"} : Received(Main, {"awaiting"}, to)

Next ==
  \/ Open \/ Destroy
  \/ Poll \/ NothingYet \/ GotOperation \/ Stop \/ Respond \/ Responded \/ Refuse
  \/ Ask \/ Asked \/ Await \/ BadResponse
  \/ EnqueueTasks \/ GetThrows \/ Return
  \/ \E w \in Worker :
       SendPackage(w) \/ PackageSent(w) \/ ReceivePackage(w) \/ PackageReceived(w) \/ FailTask(w)

Spec == Init /\ [][Next]_vars

(***************************************************************************)
(* No two threads use the socket at once, although sending and receiving   *)
(* exclude each other by no mutex, and a task may go on when RunQuery or   *)
(* request_query has been left by an exception; the socket is open and its *)
(* context there whenever a thread is in a call, and closed when the       *)
(* channel is gone, also if bind or connect threw.                         *)
(***************************************************************************)
Users == {t \in Thread : send_mutex = t \/ receive_mutex = t}

SocketOneUser ==
  /\ Cardinality(Users) <= 1
  /\ Users # {} => is_connected /\ socket = "open" /\ context
  /\ at[Main] = "gone" => socket = "closed" /\ ~context
=============================================================================
