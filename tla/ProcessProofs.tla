--------------------------- MODULE ProcessProofs ---------------------------
(***************************************************************************)
(* Proofs about what surrounds a query: the channel for any number of      *)
(* workers, the keys for any number of receivers and generations.          *)
(***************************************************************************)
EXTENDS Process, SequenceTheorems, FiniteSetTheorems, WellFoundedInduction, TLAPS

----------------------------------------------------------------------------
(***************************************************************************)
(* The socket of a channel.                                                *)
(***************************************************************************)

MainPlace ==
  {"start", "poll", "polling", "dispatch", "responding", "request", "asking", "wait", "awaiting",
   "getting", "unwinding", "leaving", "gone"}
WorkerPlace == {"idle", "task", "sending", "receiving"}

TypeCorrect ==
  /\ role \in {"sender", "receiver"}
  /\ end_point \in BOOLEAN /\ context \in BOOLEAN
  /\ socket \in {"none", "open", "closed"}
  /\ thread_at \in [Sockets!Thread -> MainPlace \cup WorkerPlace]
  /\ thread_at[Main] \in MainPlace
  /\ \A w \in Worker : thread_at[w] \in WorkerPlace

\* A mutex is held by the thread that is in a call which locks it.
MutexesHeld ==
  \A t \in Sockets!Thread :
    /\ send_mutex = t <=> thread_at[t] \in {"responding", "asking", "sending"}
    /\ receive_mutex = t <=> thread_at[t] \in {"polling", "awaiting", "receiving"}

\* Workers have something to do only while the calling thread waits for
\* them or for the pool to end, and use one mutex only.
TakingTurns ==
  /\ \A w \in Worker : thread_at[w] # "idle" => thread_at[Main] \in {"getting", "unwinding"}
  /\ \A w \in Worker : thread_at[w] = "sending" => role = "sender"
  /\ \A w \in Worker : thread_at[w] = "receiving" => role = "receiver"

\* What there is of the socket, by where the calling thread is.
SocketLife ==
  /\ thread_at[Main] = "start" => ~end_point /\ socket = "none" /\ context
  /\ thread_at[Main] = "gone" => ~end_point /\ socket = "closed" /\ ~context
  /\ thread_at[Main] \notin {"start", "gone"} => end_point /\ socket = "open" /\ context

\* The inductive invariant.
ChannelInv == TypeCorrect /\ MutexesHeld /\ TakingTurns /\ SocketLife

----------------------------------------------------------------------------
(***************************************************************************)
(* The steps.                                                              *)
(***************************************************************************)

\* The calling thread moves on, no mutex changes hands and nothing else
\* changes: neither place is one in which a mutex is held.
LEMMA MainMoves ==
  ASSUME Main \notin Worker, ChannelInv, NEW from, NEW to \in MainPlace,
         Sockets!Goes(Main, from, to),
         from \cap {"start", "gone", "responding", "asking", "polling", "awaiting"} = {},
         to \notin {"start", "gone", "responding", "asking", "polling", "awaiting"},
         to \notin {"getting", "unwinding"} => \A w \in Worker : thread_at[w] = "idle",
         UNCHANGED <<Sockets!life, send_mutex, receive_mutex>>
  PROVE  ChannelInv'
<1>1. thread_at' = [thread_at EXCEPT ![Main] = to] /\ thread_at[Main] \in from /\ Main \in Sockets!Thread
  BY DEF Sockets!Goes, Sockets!Thread
<1>2. thread_at'[Main] = to /\ \A w \in Worker : thread_at'[w] = thread_at[w] /\ w \in Sockets!Thread
  BY <1>1 DEF ChannelInv, TypeCorrect, Sockets!Thread
<1>3. TypeCorrect'
  BY <1>1, <1>2 DEF ChannelInv, TypeCorrect, Sockets!life
<1>4. MutexesHeld'
  <2>1. thread_at[Main] \notin {"responding", "asking", "sending", "polling", "awaiting", "receiving"}
    BY <1>1 DEF ChannelInv, TypeCorrect, MainPlace
  <2>2. to \notin {"responding", "asking", "sending", "polling", "awaiting", "receiving"}
    BY DEF MainPlace
  <2> QED
    BY <1>1, <1>2, <2>1, <2>2 DEF ChannelInv, MutexesHeld, Sockets!Thread
<1>5. TakingTurns' /\ SocketLife'
  BY <1>1, <1>2 DEF ChannelInv, TakingTurns, SocketLife, Sockets!life
<1> QED
  BY <1>3, <1>4, <1>5 DEF ChannelInv

LEMMA InitChannel ==
  ASSUME Main \notin Worker, NoOne \notin Sockets!Thread, Sockets!Init
  PROVE  ChannelInv
BY DEF Sockets!Init, ChannelInv, TypeCorrect, MutexesHeld, TakingTurns, SocketLife, MainPlace,
       WorkerPlace, Sockets!Thread

\* A thread enters a call that locks a mutex which is free.
LEMMA Entering ==
  ASSUME Main \notin Worker, NoOne \notin Sockets!Thread, ChannelInv, NEW t \in Sockets!Thread,
         NEW from, NEW to,
         \/ /\ t = Main /\ to \in {"responding", "asking"}
            /\ Sockets!Sends(t, from, to)
         \/ t = Main /\ to \in {"polling", "awaiting"} /\ Sockets!Receives(t, from, to)
         \/ t \in Worker /\ role = "sender" /\ to = "sending" /\ Sockets!Sends(t, from, to)
         \/ t \in Worker /\ role = "receiver" /\ to = "receiving" /\ Sockets!Receives(t, from, to),
         IF t = Main THEN from \cap {"start", "gone", "responding", "asking", "polling", "awaiting",
                                     "getting", "unwinding"} = {}
         ELSE from = {"task"}
  PROVE  ChannelInv'
<1>1. thread_at' = [thread_at EXCEPT ![t] = to] /\ thread_at[t] \in from
  BY DEF Sockets!Sends, Sockets!Receives, Sockets!Goes
<1>2. thread_at'[t] = to /\ \A u \in Sockets!Thread \ {t} : thread_at'[u] = thread_at[u]
  BY <1>1 DEF ChannelInv, TypeCorrect
<1>3. Main \in Sockets!Thread /\ Worker \subseteq Sockets!Thread
  BY DEF Sockets!Thread
<1>4. UNCHANGED Sockets!life
  BY DEF Sockets!Sends, Sockets!Receives
<1>5. TypeCorrect'
  BY <1>1, <1>2, <1>3, <1>4 DEF ChannelInv, TypeCorrect, Sockets!life, MainPlace, WorkerPlace,
       Sockets!Thread
<1>6. MutexesHeld'
  <2>1. thread_at[t] \notin {"responding", "asking", "sending", "polling", "awaiting", "receiving"}
    BY <1>1 DEF ChannelInv, TypeCorrect, MainPlace
  <2>2. CASE Sockets!Sends(t, from, to) /\ to \in {"responding", "asking", "sending"}
    BY <1>2, <2>1, <2>2 DEF ChannelInv, MutexesHeld, Sockets!Sends
  <2>3. CASE Sockets!Receives(t, from, to) /\ to \in {"polling", "awaiting", "receiving"}
    BY <1>2, <2>1, <2>3 DEF ChannelInv, MutexesHeld, Sockets!Receives
  <2> QED
    BY <2>2, <2>3
<1>7. TakingTurns'
  BY <1>1, <1>2, <1>3, <1>4 DEF ChannelInv, TakingTurns, Sockets!life, Sockets!Thread
<1>8. SocketLife'
  BY <1>1, <1>2, <1>3, <1>4 DEF ChannelInv, SocketLife, TakingTurns, Sockets!life, Sockets!Thread
<1> QED
  BY <1>5, <1>6, <1>7, <1>8 DEF ChannelInv

\* A thread leaves its call and unlocks the mutex.
LEMMA LeavingCall ==
  ASSUME Main \notin Worker, NoOne \notin Sockets!Thread, ChannelInv, NEW t \in Sockets!Thread,
         NEW from, NEW to,
         Sockets!Sent(t, from, to) \/ Sockets!Received(t, from, to),
         IF t = Main THEN to \in {"poll", "dispatch", "wait", "leaving"}
         ELSE to \in {"task", "idle"}
  PROVE  ChannelInv'
<1>1. thread_at' = [thread_at EXCEPT ![t] = to] /\ thread_at[t] \in from
  BY DEF Sockets!Sent, Sockets!Received, Sockets!Goes
<1>2. thread_at'[t] = to /\ \A u \in Sockets!Thread \ {t} : thread_at'[u] = thread_at[u]
  BY <1>1 DEF ChannelInv, TypeCorrect
<1>3. Main \in Sockets!Thread /\ Worker \subseteq Sockets!Thread
  BY DEF Sockets!Thread
<1>4. UNCHANGED Sockets!life
  BY DEF Sockets!Sent, Sockets!Received
<1>5. thread_at[t] \in {"responding", "asking", "sending", "polling", "awaiting", "receiving"}
  BY DEF ChannelInv, MutexesHeld, Sockets!Sent, Sockets!Received
<1>6. TypeCorrect'
  BY <1>1, <1>2, <1>3, <1>4 DEF ChannelInv, TypeCorrect, Sockets!life, MainPlace, WorkerPlace,
       Sockets!Thread
<1>7. MutexesHeld'
  BY <1>1, <1>2, <1>5 DEF ChannelInv, MutexesHeld, Sockets!Sent, Sockets!Received, Sockets!Thread
<1>8. TakingTurns'
  BY <1>1, <1>2, <1>3, <1>4, <1>5 DEF ChannelInv, TakingTurns, Sockets!life, Sockets!Thread
<1>9. SocketLife'
  BY <1>1, <1>2, <1>3, <1>4, <1>5 DEF ChannelInv, SocketLife, Sockets!life, Sockets!Thread
<1> QED
  BY <1>6, <1>7, <1>8, <1>9 DEF ChannelInv

LEMMA OpenStep ==
  ASSUME Main \notin Worker, ChannelInv, Sockets!Open
  PROVE  ChannelInv'
<1>1. PICK to \in {"poll", "request", "leaving"} : Sockets!Goes(Main, {"start"}, to)
  BY DEF Sockets!Open
<1>2. Main \in Sockets!Thread /\ thread_at' = [thread_at EXCEPT ![Main] = to] /\ thread_at[Main] = "start"
  BY <1>1 DEF Sockets!Goes, Sockets!Thread
<1>3. thread_at'[Main] = to /\ \A w \in Worker : thread_at'[w] = thread_at[w] /\ w \in Sockets!Thread
  BY <1>2 DEF ChannelInv, TypeCorrect, Sockets!Thread
<1>4. \A w \in Worker : thread_at[w] = "idle"
  BY <1>2 DEF ChannelInv, TakingTurns
<1>5. TypeCorrect'
  BY <1>2, <1>3 DEF ChannelInv, TypeCorrect, Sockets!Open, MainPlace
<1>6. MutexesHeld'
  BY <1>2, <1>3 DEF ChannelInv, MutexesHeld, Sockets!Open, Sockets!Thread
<1>7. TakingTurns' /\ SocketLife'
  BY <1>2, <1>3, <1>4 DEF ChannelInv, TakingTurns, SocketLife, Sockets!Open
<1> QED
  BY <1>5, <1>6, <1>7 DEF ChannelInv

LEMMA DestroyStep ==
  ASSUME Main \notin Worker, ChannelInv, Sockets!Destroy
  PROVE  ChannelInv'
<1>1. Main \in Sockets!Thread /\ thread_at' = [thread_at EXCEPT ![Main] = "gone"] /\ thread_at[Main] = "leaving"
  BY DEF Sockets!Destroy, Sockets!Goes, Sockets!Thread
<1>2. thread_at'[Main] = "gone" /\ \A w \in Worker : thread_at'[w] = thread_at[w] /\ w \in Sockets!Thread
  BY <1>1 DEF ChannelInv, TypeCorrect, Sockets!Thread
<1>3. socket' = "closed" /\ context' = FALSE /\ end_point' = FALSE
  BY <1>1 DEF ChannelInv, SocketLife, Sockets!Destroy, Sockets!is_connected
<1>4. \A w \in Worker : thread_at[w] = "idle"
  BY <1>1 DEF ChannelInv, TakingTurns
<1>5. TypeCorrect'
  BY <1>1, <1>2, <1>3 DEF ChannelInv, TypeCorrect, Sockets!Destroy, MainPlace
<1>6. MutexesHeld'
  BY <1>1, <1>2 DEF ChannelInv, MutexesHeld, Sockets!Destroy, Sockets!Thread
<1>7. TakingTurns' /\ SocketLife'
  BY <1>1, <1>2, <1>3, <1>4 DEF ChannelInv, TakingTurns, SocketLife, Sockets!Destroy
<1> QED
  BY <1>5, <1>6, <1>7 DEF ChannelInv

\* All workers get a task at once, and the calling thread unlocks its mutex.
LEMMA EnqueueStep ==
  ASSUME Main \notin Worker, NoOne \notin Sockets!Thread, ChannelInv, Sockets!EnqueueTasks
  PROVE  ChannelInv'
<1>1. thread_at' = [t \in Sockets!Thread |-> IF t = Main THEN "getting" ELSE "task"]
  BY DEF Sockets!EnqueueTasks
<1>2. thread_at'[Main] = "getting" /\ \A w \in Worker : thread_at'[w] = "task"
  BY <1>1 DEF Sockets!Thread
<1>3. UNCHANGED Sockets!life /\ thread_at[Main] \in {"responding", "awaiting"} /\ \A w \in Worker : thread_at[w] = "idle"
  BY DEF Sockets!EnqueueTasks, ChannelInv, TakingTurns
<1>4. TypeCorrect'
  BY <1>1, <1>2, <1>3 DEF ChannelInv, TypeCorrect, Sockets!life, MainPlace, WorkerPlace
<1>5. MutexesHeld'
  BY <1>1, <1>2, <1>3 DEF ChannelInv, MutexesHeld, Sockets!EnqueueTasks, Sockets!Thread
<1>6. TakingTurns' /\ SocketLife'
  BY <1>2, <1>3 DEF ChannelInv, TakingTurns, SocketLife, Sockets!life
<1> QED
  BY <1>4, <1>5, <1>6 DEF ChannelInv

LEMMA FailStep ==
  ASSUME Main \notin Worker, ChannelInv, NEW w \in Worker, Sockets!FailTask(w)
  PROVE  ChannelInv'
<1>1. w \in Sockets!Thread /\ w # Main /\ Main \in Sockets!Thread /\ Worker \subseteq Sockets!Thread
  BY DEF Sockets!Thread
<1>2. thread_at' = [thread_at EXCEPT ![w] = "idle"] /\ thread_at[w] = "task" /\ UNCHANGED <<Sockets!life, send_mutex, receive_mutex>>
  BY DEF Sockets!FailTask, Sockets!Goes
<1>3. thread_at'[w] = "idle" /\ \A u \in Sockets!Thread \ {w} : thread_at'[u] = thread_at[u]
  BY <1>1, <1>2 DEF ChannelInv, TypeCorrect
<1>4. TypeCorrect'
  BY <1>1, <1>2, <1>3 DEF ChannelInv, TypeCorrect, Sockets!life, WorkerPlace
<1>5. MutexesHeld'
  BY <1>1, <1>2, <1>3 DEF ChannelInv, MutexesHeld
<1>6. TakingTurns' /\ SocketLife'
  BY <1>1, <1>2, <1>3 DEF ChannelInv, TakingTurns, SocketLife, Sockets!life
<1> QED
  BY <1>4, <1>5, <1>6 DEF ChannelInv

LEMMA NextChannel ==
  ASSUME Main \notin Worker, NoOne \notin Sockets!Thread, ChannelInv, [Sockets!Next]_(Sockets!vars)
  PROVE  ChannelInv'
<1>1. Main \in Sockets!Thread /\ Worker \subseteq Sockets!Thread
  BY DEF Sockets!Thread
<1>2. thread_at[Main] \notin {"getting", "unwinding"} => \A w \in Worker : thread_at[w] = "idle"
  BY DEF ChannelInv, TakingTurns
<1>3. CASE UNCHANGED Sockets!vars
  BY <1>3 DEF Sockets!vars, ChannelInv, TypeCorrect, MutexesHeld, TakingTurns, SocketLife
<1>4. CASE Sockets!Open \/ Sockets!Destroy
  BY <1>4, OpenStep, DestroyStep
<1>5. CASE Sockets!Poll
  BY <1>1, <1>5, Entering DEF Sockets!Poll
<1>6. CASE Sockets!Respond
  BY <1>1, <1>6, Entering DEF Sockets!Respond
<1>7. CASE Sockets!Ask
  BY <1>1, <1>7, Entering DEF Sockets!Ask
<1>8. CASE Sockets!Await
  BY <1>1, <1>8, Entering DEF Sockets!Await
<1>9. CASE Sockets!NothingYet
  BY <1>1, <1>9, LeavingCall DEF Sockets!NothingYet
<1>10. CASE Sockets!GotOperation
  BY <1>1, <1>10, LeavingCall DEF Sockets!GotOperation
<1>11. CASE Sockets!Responded
  BY <1>1, <1>11, LeavingCall DEF Sockets!Responded
<1>12. CASE Sockets!Asked
  BY <1>1, <1>12, LeavingCall DEF Sockets!Asked
<1>13. CASE Sockets!BadResponse
  BY <1>1, <1>13, LeavingCall DEF Sockets!BadResponse
<1>14. CASE Sockets!Stop
  <2>1. Sockets!Goes(Main, {"poll"}, "leaving") /\ thread_at[Main] = "poll"
    BY <1>14 DEF Sockets!Stop, Sockets!Goes
  <2> QED
    BY <1>2, <1>14, <2>1, MainMoves DEF Sockets!Stop, MainPlace
<1>15. CASE Sockets!Refuse
  <2>1. Sockets!Goes(Main, {"dispatch"}, "poll") /\ thread_at[Main] = "dispatch"
    BY <1>15 DEF Sockets!Refuse, Sockets!Goes
  <2> QED
    BY <1>2, <1>15, <2>1, MainMoves DEF Sockets!Refuse, MainPlace
<1>16. CASE Sockets!EnqueueTasks
  BY <1>16, EnqueueStep
<1>17. CASE Sockets!GetThrows
  BY <1>17, MainMoves DEF Sockets!GetThrows, MainPlace
<1>18. CASE Sockets!Return
  <2>1. \A w \in Worker : thread_at[w] = "idle"
    BY <1>18 DEF Sockets!Return, Sockets!PoolDrained, Sockets!TasksDone
  <2>2. PICK from \in {{"getting"}, {"unwinding"}}, to \in {"poll", "leaving"} : Sockets!Goes(Main, from, to)
    BY <1>18 DEF Sockets!Return
  <2>3. UNCHANGED <<Sockets!life, send_mutex, receive_mutex>> /\ to \in MainPlace
    BY <1>18 DEF Sockets!Return, MainPlace
  <2> QED
    BY <2>1, <2>2, <2>3, MainMoves
<1>19. ASSUME NEW w \in Worker,
              Sockets!SendPackage(w) \/ Sockets!PackageSent(w) \/ Sockets!ReceivePackage(w) \/ Sockets!PackageReceived(w) \/ Sockets!FailTask(w)
       PROVE  ChannelInv'
  <2>1. w \in Sockets!Thread /\ w # Main
    BY <1>1
  <2>2. CASE Sockets!SendPackage(w)
    BY <2>1, <2>2, Entering DEF Sockets!SendPackage
  <2>3. CASE Sockets!ReceivePackage(w)
    BY <2>1, <2>3, Entering DEF Sockets!ReceivePackage
  <2>4. CASE Sockets!PackageSent(w)
    BY <2>1, <2>4, LeavingCall DEF Sockets!PackageSent
  <2>5. CASE Sockets!PackageReceived(w)
    BY <2>1, <2>5, LeavingCall DEF Sockets!PackageReceived
  <2> QED
    BY <1>19, <2>2, <2>3, <2>4, <2>5, FailStep
<1> QED
  BY <1>3, <1>4, <1>5, <1>6, <1>7, <1>8, <1>9, <1>10, <1>11, <1>12, <1>13, <1>14, <1>15, <1>16,
     <1>17, <1>18, <1>19 DEF Sockets!Next

----------------------------------------------------------------------------
(***************************************************************************)
(* One user of the socket.                                                 *)
(***************************************************************************)

LEMMA OneUser ==
  ASSUME Main \notin Worker, NoOne \notin Sockets!Thread, ChannelInv
  PROVE  SocketOneUser
<1>1. \A t, u \in Sockets!Users : t = u
  BY DEF ChannelInv, MutexesHeld, TakingTurns, TypeCorrect, MainPlace, WorkerPlace, Sockets!Users,
       Sockets!Thread
<1>2. Sockets!Cardinality(Sockets!Users) <= 1
  <2> \A S : Sockets!Cardinality(S) = Cardinality(S)
    BY Zenon DEF Sockets!Cardinality, Cardinality
  <2>1. CASE Sockets!Users = {}
    BY <2>1, FS_EmptySet
  <2>2. CASE Sockets!Users # {}
    <3>1. PICK t \in Sockets!Users : Sockets!Users = {t}
      BY <1>1, <2>2
    <3> QED
      BY <3>1, FS_Singleton
  <2> QED
    BY <2>1, <2>2
<1>3. Sockets!Users # {} => thread_at[Main] \notin {"start", "gone"}
  BY DEF ChannelInv, MutexesHeld, TakingTurns, TypeCorrect, WorkerPlace, Sockets!Users,
       Sockets!Thread
<1> QED
  BY <1>2, <1>3 DEF ChannelInv, SocketLife, SocketOneUser, Sockets!SocketOneUser, Sockets!is_connected

\* No two threads ever use the socket at once, whatever throws, and it is
\* open when it is used (ZMQChannel::send_message and receive_message, which
\* lock different mutexes).
THEOREM SocketIsTakenInTurns == Sockets!Spec => []SocketOneUser
<1>1. Main \notin Worker /\ NoOne \notin Sockets!Thread
  BY ThreadsAssumption DEF Sockets!Thread
<1>2. Sockets!Init => ChannelInv
  BY <1>1, InitChannel
<1>3. ChannelInv /\ [Sockets!Next]_(Sockets!vars) => ChannelInv'
  BY <1>1, NextChannel
<1>4. ChannelInv => SocketOneUser
  BY <1>1, OneUser
<1> QED
  BY <1>2, <1>3, <1>4, PTL DEF Sockets!Spec

----------------------------------------------------------------------------
(***************************************************************************)
(* The keys of a query.                                                    *)
(***************************************************************************)

\* The two ways in which an object may hold a value.
Local(value) == [local |-> value, serializable |-> None]
Serial(value) == [local |-> None, serializable |-> value]

Gen(r) == <<r, generation[r]>>

\* What the evaluation of a query of generation gen is to use.
KeysOf(gen) == IF using_keyswitching THEN gen ELSE Default

\* A result of a query of generation gen.
ResultOf(gen) == [data |-> gen, keys |-> KeysOf(gen)]

\* The null pointer is no value.
Values ==
  /\ Default # None
  /\ \A r \in KeyReceiver, n \in Nat : <<r, n>> # None
  /\ \A d, k : [data |-> d, keys |-> k] # None

\* What a receiver has: nothing before its first reset_keys, then the keys
\* of its generation.
HasKeys(r) ==
  IF generation[r] = 0
  THEN stage[r] = "idle" /\ crypto_context[r] = Keys!NewContext /\ relin_keys[r] = Keys!NewObject
  ELSE /\ crypto_context[r] = Keys!set_secret(Keys!NewContext, Gen(r))
       /\ relin_keys[r] = IF using_keyswitching THEN Serial(Gen(r)) ELSE Keys!NewObject

\* Where the keys of its query are, at each stage.
KeysAt(r) ==
  /\ stage[r] = "created" =>
       request[r] = [relin_keys |-> IF using_keyswitching THEN Serial(Gen(r)) ELSE Keys!NewObject,
                     data |-> Serial(Gen(r))]
  /\ stage[r] = "sent" =>
       wire[r] = [relin_keys |-> IF using_keyswitching THEN Gen(r) ELSE None, data |-> Gen(r)]
  /\ stage[r] = "loaded" =>
       request[r] = [relin_keys |-> IF using_keyswitching THEN Local(Gen(r)) ELSE Keys!NewObject,
                     data |-> Local(Gen(r))]
  /\ stage[r] = "query" => query[r] = [relin_keys |-> KeysOf(Gen(r)), data |-> Gen(r)]
  /\ stage[r] = "running" =>
       query[r].data = Gen(r) /\ run_context[r].relin_keys = KeysOf(Gen(r))
  /\ stage[r] = "answered" => package[r] = Local(ResultOf(Gen(r)))

\* Objects are in a valid state, and what was decrypted is right.
ObjectsValid(r) ==
  /\ Keys!OneOfTwo(relin_keys[r]) /\ Keys!OneOfTwo(package[r])
  /\ Keys!OneOfTwo(request[r].relin_keys) /\ Keys!OneOfTwo(request[r].data)
  /\ decrypted[r] # None =>
       \E gen : decrypted[r] = [result |-> ResultOf(gen), with |-> gen]

\* The variables are functions of the receivers.
Functional ==
  /\ generation \in [KeyReceiver -> Nat]
  /\ stage = [r \in KeyReceiver |-> stage[r]]
  /\ relin_keys = [r \in KeyReceiver |-> relin_keys[r]]
  /\ crypto_context = [r \in KeyReceiver |-> crypto_context[r]]
  /\ request = [r \in KeyReceiver |-> request[r]]
  /\ wire = [r \in KeyReceiver |-> wire[r]]
  /\ query = [r \in KeyReceiver |-> query[r]]
  /\ run_context = [r \in KeyReceiver |-> run_context[r]]
  /\ package = [r \in KeyReceiver |-> package[r]]
  /\ decrypted = [r \in KeyReceiver |-> decrypted[r]]

KeysRight(r) == HasKeys(r) /\ KeysAt(r) /\ ObjectsValid(r)

\* The inductive invariant.
KeysInv ==
  /\ using_keyswitching \in BOOLEAN
  /\ Functional
  /\ \A r \in KeyReceiver : KeysRight(r)
  /\ db_context = Keys!set_evaluator(Keys!NewContext, None)

----------------------------------------------------------------------------
(***************************************************************************)
(* The operations of SEALObject and CryptoContext.                         *)
(***************************************************************************)

\* Both pointers of an object, or the first, are set.
LEMMA BothSet ==
  ASSUME NEW l, NEW s, NEW v, NEW w
  PROVE  /\ [[local |-> l, serializable |-> s] EXCEPT !.serializable = v, !.local = w]
              = [local |-> w, serializable |-> v]
         /\ [[local |-> l, serializable |-> s] EXCEPT !.local = w, !.serializable = v]
              = [local |-> w, serializable |-> v]
         /\ [[local |-> l, serializable |-> s] EXCEPT !.local = w] = [local |-> w, serializable |-> s]
<1>1. PICK x : x = [[local |-> l, serializable |-> s] EXCEPT !.serializable = v, !.local = w]
  OBVIOUS
<1>2. PICK y : y = [[local |-> l, serializable |-> s] EXCEPT !.local = w, !.serializable = v]
  OBVIOUS
<1>3. PICK z : z = [[local |-> l, serializable |-> s] EXCEPT !.local = w]
  OBVIOUS
<1>4. x = [local |-> w, serializable |-> v]
  BY <1>1
<1>5. y = [local |-> w, serializable |-> v]
  BY <1>2
<1>6. z = [local |-> w, serializable |-> s]
  BY <1>3
<1> QED
  BY <1>1, <1>2, <1>3, <1>4, <1>5, <1>6

\* An object that holds a value in one way gives it back whatever way it
\* is copied or saved, and is empty when it was extracted from.
LEMMA HoldsValue ==
  ASSUME NEW value, value # None
  PROVE  /\ Keys!set_local(Keys!NewObject, value) = Local(value)
         /\ Keys!set_serializable(Keys!NewObject, value) = Serial(value)
         /\ Keys!assign(Keys!NewObject, Serial(value)) = Serial(value)
         /\ Keys!save(Local(value)) = value /\ Keys!save(Serial(value)) = value
         /\ Keys!load(Keys!NewObject, value) = Local(value)
         /\ Keys!clear(Serial(value)) = Keys!NewObject
         /\ Keys!CanExtract(Local(value)) /\ Keys!Extracted(Local(value)) = value
         /\ Keys!AfterExtract(Local(value)) = Keys!NewObject
         /\ Keys!OneOfTwo(Local(value)) /\ Keys!OneOfTwo(Serial(value))
<1>1. /\ Keys!set_local(Keys!NewObject, value) = Local(value)
      /\ Keys!set_serializable(Keys!NewObject, value) = Serial(value)
      /\ Keys!clear(Serial(value)) = Keys!NewObject
      /\ Keys!AfterExtract(Local(value)) = Keys!NewObject
  <2>1. Keys!set_local(Keys!NewObject, value)
          = [[local |-> None, serializable |-> None] EXCEPT !.serializable = None, !.local = value]
    BY DEF Keys!set_local, Keys!NewObject
  <2>2. Keys!set_serializable(Keys!NewObject, value)
          = [[local |-> None, serializable |-> None] EXCEPT !.local = None, !.serializable = value]
    BY DEF Keys!set_serializable, Keys!NewObject
  <2>3. Keys!clear(Serial(value))
          = [[local |-> None, serializable |-> value] EXCEPT !.serializable = None, !.local = None]
    BY DEF Keys!clear, Serial
  <2>4. Keys!AfterExtract(Local(value)) = [[local |-> value, serializable |-> None] EXCEPT !.local = None]
    BY DEF Keys!AfterExtract, Keys!is_local, Local
  <2> QED
    BY <2>1, <2>2, <2>3, <2>4, BothSet DEF Local, Serial, Keys!NewObject
<1>2. Keys!assign(Keys!NewObject, Serial(value)) = Serial(value)
  BY <1>1 DEF Keys!assign, Keys!is_local, Keys!is_serializable, Serial
<1>3. Keys!save(Local(value)) = value /\ Keys!save(Serial(value)) = value
  BY DEF Keys!save, Keys!is_local, Keys!is_serializable, Local, Serial
<1>4. Keys!load(Keys!NewObject, value) = Local(value)
  BY <1>1 DEF Keys!load, Keys!Loads
<1>5. /\ Keys!CanExtract(Local(value)) /\ Keys!Extracted(Local(value)) = value
      /\ Keys!OneOfTwo(Local(value)) /\ Keys!OneOfTwo(Serial(value))
  BY DEF Keys!CanExtract, Keys!Extracted, Keys!OneOfTwo, Keys!is_local, Keys!is_serializable,
       Local, Serial
<1> QED
  BY <1>1, <1>2, <1>3, <1>4, <1>5

LEMMA HoldsNothing ==
  /\ Keys!clear(Keys!NewObject) = Keys!NewObject
  /\ Keys!assign(Keys!NewObject, Keys!NewObject) = Keys!NewObject
  /\ Keys!save(Keys!NewObject) = None
  /\ Keys!OneOfTwo(Keys!NewObject)
<1>1. Keys!clear(Keys!NewObject) = Keys!NewObject
  <2>1. Keys!clear(Keys!NewObject)
          = [[local |-> None, serializable |-> None] EXCEPT !.serializable = None, !.local = None]
    BY DEF Keys!clear, Keys!NewObject
  <2> QED
    BY <2>1, BothSet DEF Keys!NewObject
<1>2. Keys!assign(Keys!NewObject, Keys!NewObject) = Keys!NewObject
  BY <1>1 DEF Keys!assign, Keys!NewObject, Keys!is_local, Keys!is_serializable
<1>3. Keys!save(Keys!NewObject) = None /\ Keys!OneOfTwo(Keys!NewObject)
  BY DEF Keys!save, Keys!OneOfTwo, Keys!NewObject, Keys!is_local, Keys!is_serializable
<1> QED
  BY <1>1, <1>2, <1>3

\* The last keys that were set are those of a context.
LEMMA ContextHolds ==
  ASSUME NEW key, NEW other
  PROVE  /\ Keys!set_secret(Keys!set_secret(Keys!NewContext, other), key) = Keys!set_secret(Keys!NewContext, key)
         /\ Keys!set_secret(Keys!NewContext, key).encryptor = key
         /\ Keys!set_secret(Keys!NewContext, key).decryptor = key
         /\ Keys!set_evaluator(Keys!set_evaluator(Keys!NewContext, other), key).relin_keys = key
BY DEF Keys!set_secret, Keys!set_evaluator, Keys!NewContext

----------------------------------------------------------------------------
(***************************************************************************)
(* The steps.                                                              *)
(***************************************************************************)

LEMMA InitKeys == Values /\ Keys!Init => KeysInv
<1> SUFFICES ASSUME Values, Keys!Init PROVE KeysInv
  OBVIOUS
<1>1. Functional
  BY DEF Keys!Init, Functional
<1>2. ASSUME NEW r \in KeyReceiver PROVE KeysRight(r)
  <2>1. HasKeys(r) /\ KeysAt(r)
    BY DEF Keys!Init, HasKeys, KeysAt
  <2>2. ObjectsValid(r)
    BY HoldsNothing DEF Keys!Init, ObjectsValid
  <2> QED
    BY <2>1, <2>2 DEF KeysRight
<1> QED
  BY <1>1, <1>2 DEF KeysInv, Keys!Init

\* The variables of receiver u stay as they are.
Untouched(u) ==
  /\ UNCHANGED using_keyswitching
  /\ generation'[u] = generation[u] /\ stage'[u] = stage[u] /\ relin_keys'[u] = relin_keys[u]
  /\ crypto_context'[u] = crypto_context[u] /\ request'[u] = request[u] /\ wire'[u] = wire[u]
  /\ query'[u] = query[u] /\ run_context'[u] = run_context[u] /\ package'[u] = package[u]
  /\ decrypted'[u] = decrypted[u]

LEMMA StaysRight ==
  ASSUME NEW u \in KeyReceiver, KeysRight(u), Untouched(u)
  PROVE  KeysRight(u)'
<1>1. Gen(u)' = Gen(u) /\ \A gen : KeysOf(gen)' = KeysOf(gen)
  BY DEF Gen, KeysOf, Untouched
<1>2. \A gen : ResultOf(gen)' = ResultOf(gen)
  BY <1>1 DEF ResultOf
<1>3. HasKeys(u)'
  BY <1>1 DEF KeysRight, HasKeys, Untouched
<1>4. KeysAt(u)'
  BY <1>1, <1>2 DEF KeysRight, KeysAt, Untouched
<1>5. ObjectsValid(u)'
  BY <1>2 DEF KeysRight, ObjectsValid, Untouched
<1> QED
  BY <1>3, <1>4, <1>5 DEF KeysRight

\* A step of r changes nothing of another receiver, and leaves functions.
LEMMA StepOfOne ==
  ASSUME KeysInv, NEW r \in KeyReceiver,
         \/ Keys!reset_keys(r) \/ Keys!create_query(r) \/ Keys!send(r) \/ Keys!receive(r)
         \/ Keys!MakeQuery(r) \/ Keys!RunQuery(r) \/ Keys!ProcessBinBundle(r) \/ Keys!extract(r)
  PROVE  /\ \A u \in KeyReceiver \ {r} : Untouched(u)
         /\ Functional'
         /\ UNCHANGED <<using_keyswitching, db_context>>
<1>1. CASE Keys!reset_keys(r)
  <2>1. generation \in [KeyReceiver -> Nat] /\ generation' = [generation EXCEPT ![r] = @ + 1]
    BY <1>1 DEF Keys!reset_keys, KeysInv, Functional
  <2>2. generation' \in [KeyReceiver -> Nat] /\ \A u \in KeyReceiver \ {r} : generation'[u] = generation[u]
    BY <2>1
  <2>3. PICK c, k : crypto_context' = [crypto_context EXCEPT ![r] = c] /\ relin_keys' = [relin_keys EXCEPT ![r] = k]
    BY <1>1 DEF Keys!reset_keys
  <2>4. UNCHANGED <<using_keyswitching, stage, request, wire, package, decrypted, query,
                    db_context, run_context>>
    BY <1>1 DEF Keys!reset_keys, Keys!sender_vars
  <2> QED
    BY <2>2, <2>3, <2>4 DEF KeysInv, Functional, Untouched
<1>2. CASE Keys!create_query(r)
  BY <1>2 DEF Keys!create_query, Keys!Goes, KeysInv, Functional, Untouched, Keys!receiver_vars,
       Keys!sender_vars
<1>3. CASE Keys!send(r)
  BY <1>3 DEF Keys!send, Keys!Goes, KeysInv, Functional, Untouched, Keys!receiver_vars,
       Keys!sender_vars
<1>4. CASE Keys!receive(r)
  BY <1>4 DEF Keys!receive, Keys!Goes, KeysInv, Functional, Untouched, Keys!receiver_vars,
       Keys!sender_vars
<1>5. CASE Keys!MakeQuery(r)
  BY <1>5 DEF Keys!MakeQuery, Keys!Goes, KeysInv, Functional, Untouched, Keys!receiver_vars
<1>6. CASE Keys!RunQuery(r)
  BY <1>6 DEF Keys!RunQuery, Keys!Goes, KeysInv, Functional, Untouched, Keys!receiver_vars
<1>7. CASE Keys!ProcessBinBundle(r)
  BY <1>7 DEF Keys!ProcessBinBundle, Keys!Goes, KeysInv, Functional, Untouched, Keys!receiver_vars,
       Keys!sender_vars
<1>8. CASE Keys!extract(r)
  BY <1>8 DEF Keys!extract, Keys!Goes, KeysInv, Functional, Untouched, Keys!receiver_vars,
       Keys!sender_vars
<1> QED
  BY <1>1, <1>2, <1>3, <1>4, <1>5, <1>6, <1>7, <1>8

\* A generation is a value, and belongs to its receiver when there is one.
LEMMA GenerationIsValue ==
  ASSUME Values, KeysInv, NEW r \in KeyReceiver
  PROVE  Gen(r) # None /\ \A gen : ResultOf(gen) # None
BY DEF Values, KeysInv, Functional, Gen, ResultOf

LEMMA ResetRight ==
  ASSUME Values, KeysInv, NEW r \in KeyReceiver, Keys!reset_keys(r)
  PROVE  KeysRight(r)'
<1> DEFINE gen == <<r, generation[r] + 1>>
<1>1. /\ stage'[r] = "idle" /\ generation'[r] = generation[r] + 1 /\ generation[r] \in Nat
      /\ crypto_context'[r] = Keys!set_secret(crypto_context[r], gen)
      /\ relin_keys'[r] = Keys!Generated(relin_keys[r], gen)
  BY DEF Keys!reset_keys, KeysInv, Functional
<1>2. Gen(r)' = gen /\ gen # None /\ generation'[r] # 0
  BY <1>1 DEF Gen, Values
<1>3. UNCHANGED <<using_keyswitching, request, package, decrypted>>
  BY DEF Keys!reset_keys
<1>4. Keys!set_secret(crypto_context[r], gen) = Keys!set_secret(Keys!NewContext, gen)
  <2>1. crypto_context[r] = Keys!NewContext \/ crypto_context[r] = Keys!set_secret(Keys!NewContext, Gen(r))
    BY DEF KeysInv, KeysRight, HasKeys
  <2> QED
    BY <2>1, ContextHolds
<1>5. Keys!Generated(relin_keys[r], gen) = IF using_keyswitching THEN Serial(gen) ELSE Keys!NewObject
  <2>1. relin_keys[r] = Keys!NewObject \/ relin_keys[r] = Serial(Gen(r))
    BY DEF KeysInv, KeysRight, HasKeys
  <2>2. Keys!clear(relin_keys[r]) = Keys!NewObject
    BY <2>1, HoldsNothing, HoldsValue, GenerationIsValue
  <2> QED
    BY <1>2, <2>2, HoldsValue DEF Keys!Generated
<1>6. HasKeys(r)'
  BY <1>1, <1>2, <1>3, <1>4, <1>5 DEF HasKeys
<1>7. KeysAt(r)'
  BY <1>1 DEF KeysAt
<1>8. ObjectsValid(r)'
  <2>1. Keys!OneOfTwo(relin_keys[r])'
    BY <1>1, <1>2, <1>5, HoldsValue, HoldsNothing
  <2>2. \A g : ResultOf(g)' = ResultOf(g)
    BY <1>3 DEF ResultOf, KeysOf
  <2> QED
    BY <1>3, <2>1, <2>2 DEF KeysInv, KeysRight, ObjectsValid
<1> QED
  BY <1>6, <1>7, <1>8 DEF KeysRight

\* The other steps of r leave its generation, context and keys.
LEMMA KeepsKeys ==
  ASSUME KeysInv, NEW r \in KeyReceiver, UNCHANGED <<using_keyswitching, Keys!receiver_vars>>,
         stage[r] = "idle" => generation[r] > 0
  PROVE  /\ HasKeys(r)' /\ Gen(r)' = Gen(r) /\ KeysOf(Gen(r))' = KeysOf(Gen(r))
         /\ \A gen : ResultOf(gen)' = ResultOf(gen)
         /\ crypto_context[r] = Keys!set_secret(Keys!NewContext, Gen(r))
         /\ relin_keys[r] = IF using_keyswitching THEN Serial(Gen(r)) ELSE Keys!NewObject
<1>1. generation[r] \in Nat /\ generation[r] # 0
  BY DEF KeysInv, Functional, KeysRight, HasKeys
<1>2. /\ crypto_context[r] = Keys!set_secret(Keys!NewContext, Gen(r))
      /\ relin_keys[r] = IF using_keyswitching THEN Serial(Gen(r)) ELSE Keys!NewObject
  BY <1>1 DEF KeysInv, KeysRight, HasKeys
<1>3. Gen(r)' = Gen(r) /\ KeysOf(Gen(r))' = KeysOf(Gen(r)) /\ \A gen : ResultOf(gen)' = ResultOf(gen)
  BY DEF Gen, KeysOf, ResultOf, Keys!receiver_vars
<1>4. HasKeys(r)'
  BY <1>1, <1>2, <1>3 DEF HasKeys, Keys!receiver_vars
<1> QED
  BY <1>2, <1>3, <1>4

LEMMA CreateRight ==
  ASSUME Values, KeysInv, NEW r \in KeyReceiver, Keys!create_query(r)
  PROVE  KeysRight(r)'
<1>1. /\ stage'[r] = "created" /\ decrypted'[r] = None
      /\ request'[r] = [relin_keys |-> Keys!assign(Keys!NewObject, relin_keys[r]),
                        data |-> Keys!set_serializable(Keys!NewObject, crypto_context[r].encryptor)]
  BY DEF Keys!create_query, Keys!Goes, KeysInv, Functional
<1>2. UNCHANGED <<using_keyswitching, Keys!receiver_vars, package>> /\ generation[r] > 0
  BY DEF Keys!create_query
<1>3. /\ HasKeys(r)' /\ Gen(r)' = Gen(r)
      /\ crypto_context[r].encryptor = Gen(r)
      /\ relin_keys[r] = IF using_keyswitching THEN Serial(Gen(r)) ELSE Keys!NewObject
  BY <1>2, KeepsKeys, ContextHolds
<1>4. request'[r] = [relin_keys |-> IF using_keyswitching THEN Serial(Gen(r)) ELSE Keys!NewObject,
                     data |-> Serial(Gen(r))]
  BY <1>1, <1>3, HoldsValue, HoldsNothing, GenerationIsValue
<1>5. KeysAt(r)'
  BY <1>1, <1>2, <1>3, <1>4 DEF KeysAt
<1>6. ObjectsValid(r)'
  BY <1>1, <1>2, <1>3, <1>4, HoldsValue, HoldsNothing, GenerationIsValue
  DEF KeysInv, KeysRight, ObjectsValid, Keys!receiver_vars
<1> QED
  BY <1>3, <1>5, <1>6 DEF KeysRight

LEMMA SendRight ==
  ASSUME Values, KeysInv, NEW r \in KeyReceiver, Keys!send(r)
  PROVE  KeysRight(r)'
<1>1. /\ stage[r] = "created" /\ stage'[r] = "sent"
      /\ wire'[r] = [relin_keys |-> Keys!save(request[r].relin_keys), data |-> Keys!save(request[r].data)]
  BY DEF Keys!send, Keys!Goes, KeysInv, Functional
<1>2. UNCHANGED <<using_keyswitching, Keys!receiver_vars, request, package, decrypted>>
  BY DEF Keys!send
<1>3. HasKeys(r)' /\ Gen(r)' = Gen(r) /\ \A gen : ResultOf(gen)' = ResultOf(gen)
  BY <1>1, <1>2, KeepsKeys
<1>4. request[r] = [relin_keys |-> IF using_keyswitching THEN Serial(Gen(r)) ELSE Keys!NewObject,
                    data |-> Serial(Gen(r))]
  BY <1>1 DEF KeysInv, KeysRight, KeysAt
<1>5. wire'[r] = [relin_keys |-> IF using_keyswitching THEN Gen(r) ELSE None, data |-> Gen(r)]
  BY <1>1, <1>4, HoldsValue, HoldsNothing, GenerationIsValue
<1>6. KeysAt(r)'
  BY <1>1, <1>2, <1>3, <1>5 DEF KeysAt
<1>7. ObjectsValid(r)'
  BY <1>2, <1>3 DEF KeysInv, KeysRight, ObjectsValid, Keys!receiver_vars
<1> QED
  BY <1>3, <1>6, <1>7 DEF KeysRight

LEMMA ReceiveRight ==
  ASSUME Values, KeysInv, NEW r \in KeyReceiver, Keys!receive(r)
  PROVE  KeysRight(r)'
<1>1. /\ stage[r] = "sent" /\ stage'[r] = "loaded"
      /\ request'[r] =
           [relin_keys |-> IF using_keyswitching THEN Keys!load(Keys!NewObject, wire[r].relin_keys) ELSE Keys!NewObject,
            data |-> Keys!load(Keys!NewObject, wire[r].data)]
  BY DEF Keys!receive, Keys!Goes, KeysInv, Functional
<1>2. UNCHANGED <<using_keyswitching, Keys!receiver_vars, package, decrypted>>
  BY DEF Keys!receive
<1>3. HasKeys(r)' /\ Gen(r)' = Gen(r) /\ \A gen : ResultOf(gen)' = ResultOf(gen)
  BY <1>1, <1>2, KeepsKeys
<1>4. wire[r] = [relin_keys |-> IF using_keyswitching THEN Gen(r) ELSE None, data |-> Gen(r)]
  BY <1>1 DEF KeysInv, KeysRight, KeysAt
<1>5. request'[r] = [relin_keys |-> IF using_keyswitching THEN Local(Gen(r)) ELSE Keys!NewObject,
                     data |-> Local(Gen(r))]
  BY <1>1, <1>4, HoldsValue, GenerationIsValue
<1>6. KeysAt(r)'
  BY <1>1, <1>2, <1>3, <1>5 DEF KeysAt
<1>7. ObjectsValid(r)'
  BY <1>2, <1>3, <1>5, HoldsValue, HoldsNothing, GenerationIsValue
  DEF KeysInv, KeysRight, ObjectsValid, Keys!receiver_vars
<1> QED
  BY <1>3, <1>6, <1>7 DEF KeysRight

LEMMA MakeRight ==
  ASSUME Values, KeysInv, NEW r \in KeyReceiver, Keys!MakeQuery(r)
  PROVE  KeysRight(r)'
<1>1. /\ stage[r] = "loaded" /\ stage'[r] = "query"
      /\ query'[r] = [relin_keys |-> IF using_keyswitching THEN Keys!Extracted(request[r].relin_keys)
                                     ELSE Default,
                      data |-> Keys!Extracted(request[r].data)]
      /\ request'[r] = [relin_keys |-> IF using_keyswitching THEN Keys!AfterExtract(request[r].relin_keys)
                                       ELSE request[r].relin_keys,
                        data |-> Keys!AfterExtract(request[r].data)]
  BY DEF Keys!MakeQuery, Keys!Goes, KeysInv, Functional
<1>2. UNCHANGED <<using_keyswitching, Keys!receiver_vars, package, decrypted>>
  BY DEF Keys!MakeQuery
<1>3. /\ HasKeys(r)' /\ Gen(r)' = Gen(r) /\ KeysOf(Gen(r))' = KeysOf(Gen(r))
      /\ \A gen : ResultOf(gen)' = ResultOf(gen)
  BY <1>1, <1>2, KeepsKeys
<1>4. request[r] = [relin_keys |-> IF using_keyswitching THEN Local(Gen(r)) ELSE Keys!NewObject,
                    data |-> Local(Gen(r))]
  BY <1>1 DEF KeysInv, KeysRight, KeysAt
<1>5. /\ query'[r] = [relin_keys |-> KeysOf(Gen(r)), data |-> Gen(r)]
      /\ request'[r] = [relin_keys |-> Keys!NewObject, data |-> Keys!NewObject]
  BY <1>1, <1>4, HoldsValue, GenerationIsValue DEF KeysOf
<1>6. KeysAt(r)'
  BY <1>1, <1>2, <1>3, <1>5 DEF KeysAt
<1>7. ObjectsValid(r)'
  BY <1>2, <1>3, <1>5, HoldsNothing DEF KeysInv, KeysRight, ObjectsValid, Keys!receiver_vars
<1> QED
  BY <1>3, <1>6, <1>7 DEF KeysRight

LEMMA RunRight ==
  ASSUME Values, KeysInv, NEW r \in KeyReceiver, Keys!RunQuery(r)
  PROVE  KeysRight(r)'
<1>1. /\ stage[r] = "query" /\ stage'[r] = "running"
      /\ run_context'[r] = Keys!set_evaluator(db_context, query[r].relin_keys)
  BY DEF Keys!RunQuery, Keys!Goes, KeysInv, Functional
<1>2. UNCHANGED <<using_keyswitching, Keys!receiver_vars, request, package, decrypted, query>>
  BY DEF Keys!RunQuery
<1>3. /\ HasKeys(r)' /\ Gen(r)' = Gen(r) /\ KeysOf(Gen(r))' = KeysOf(Gen(r))
      /\ \A gen : ResultOf(gen)' = ResultOf(gen)
  BY <1>1, <1>2, KeepsKeys
<1>4. query[r] = [relin_keys |-> KeysOf(Gen(r)), data |-> Gen(r)]
  BY <1>1 DEF KeysInv, KeysRight, KeysAt
<1>5. run_context'[r].relin_keys = KeysOf(Gen(r))
  BY <1>1, <1>4, ContextHolds DEF KeysInv
<1>6. KeysAt(r)'
  BY <1>1, <1>2, <1>3, <1>4, <1>5 DEF KeysAt
<1>7. ObjectsValid(r)'
  BY <1>2, <1>3 DEF KeysInv, KeysRight, ObjectsValid, Keys!receiver_vars
<1> QED
  BY <1>3, <1>6, <1>7 DEF KeysRight

LEMMA ProcessRight ==
  ASSUME Values, KeysInv, NEW r \in KeyReceiver, Keys!ProcessBinBundle(r)
  PROVE  KeysRight(r)'
<1> DEFINE outcome == [data |-> query[r].data, keys |-> run_context[r].relin_keys]
<1>1. /\ stage[r] = "running" /\ stage'[r] = "answered"
      /\ package'[r] = Keys!load(Keys!NewObject, Keys!save(Keys!set_local(Keys!NewObject, outcome)))
  BY DEF Keys!ProcessBinBundle, Keys!Goes, KeysInv, Functional
<1>2. UNCHANGED <<using_keyswitching, Keys!receiver_vars, request, decrypted>>
  BY DEF Keys!ProcessBinBundle
<1>3. HasKeys(r)' /\ Gen(r)' = Gen(r) /\ \A gen : ResultOf(gen)' = ResultOf(gen)
  BY <1>1, <1>2, KeepsKeys
<1>4. outcome = ResultOf(Gen(r))
  BY <1>1 DEF KeysInv, KeysRight, KeysAt, ResultOf
<1>5. package'[r] = Local(ResultOf(Gen(r))) /\ Keys!OneOfTwo(Local(ResultOf(Gen(r))))
  <2>1. ResultOf(Gen(r)) # None
    BY GenerationIsValue
  <2> QED
    BY <1>1, <1>4, <2>1, HoldsValue
<1>6. KeysAt(r)'
  BY <1>1, <1>3, <1>5 DEF KeysAt, Local
<1>7. ObjectsValid(r)'
  BY <1>2, <1>3, <1>5 DEF KeysInv, KeysRight, ObjectsValid, Keys!receiver_vars
<1> QED
  BY <1>3, <1>6, <1>7 DEF KeysRight

LEMMA ExtractRight ==
  ASSUME Values, KeysInv, NEW r \in KeyReceiver, Keys!extract(r)
  PROVE  KeysRight(r)'
<1>1. /\ stage[r] = "answered" /\ stage'[r] = "idle"
      /\ decrypted'[r] = [result |-> Keys!Extracted(package[r]), with |-> crypto_context[r].decryptor]
      /\ package'[r] = Keys!AfterExtract(package[r])
  BY DEF Keys!extract, Keys!Goes, KeysInv, Functional
<1>2. UNCHANGED <<using_keyswitching, Keys!receiver_vars, request>>
  BY DEF Keys!extract
<1>3. /\ HasKeys(r)' /\ Gen(r)' = Gen(r) /\ \A gen : ResultOf(gen)' = ResultOf(gen)
      /\ crypto_context[r].decryptor = Gen(r)
  BY <1>1, <1>2, KeepsKeys, ContextHolds
<1>4. package[r] = Local(ResultOf(Gen(r)))
  BY <1>1 DEF KeysInv, KeysRight, KeysAt
<1>5. Keys!Extracted(package[r]) = ResultOf(Gen(r)) /\ package'[r] = Keys!NewObject
  <2>1. ResultOf(Gen(r)) # None
    BY GenerationIsValue
  <2> QED
    BY <1>1, <1>4, <2>1, HoldsValue
<1>6. KeysAt(r)'
  BY <1>1 DEF KeysAt
<1>7. ObjectsValid(r)'
  BY <1>1, <1>2, <1>3, <1>5, HoldsNothing DEF KeysInv, KeysRight, ObjectsValid, Keys!receiver_vars
<1> QED
  BY <1>3, <1>6, <1>7 DEF KeysRight

LEMMA NextKeys == Values /\ KeysInv /\ [Keys!Next]_(Keys!vars) => KeysInv'
<1> SUFFICES ASSUME Values, KeysInv, [Keys!Next]_(Keys!vars) PROVE KeysInv'
  OBVIOUS
<1>1. CASE UNCHANGED Keys!vars
  <2>1. \A r \in KeyReceiver : Untouched(r)
    BY <1>1 DEF Keys!vars, Untouched
  <2>2. \A r \in KeyReceiver : KeysRight(r)'
    BY <2>1, StaysRight DEF KeysInv
  <2>3. Functional' /\ using_keyswitching' \in BOOLEAN /\ db_context' = db_context
    BY <1>1 DEF Keys!vars, KeysInv, Functional
  <2> QED
    BY <2>2, <2>3 DEF KeysInv
<1>2. CASE Keys!Next
  <2>1. PICK r \in KeyReceiver :
          \/ Keys!reset_keys(r) \/ Keys!create_query(r) \/ Keys!send(r) \/ Keys!receive(r)
          \/ Keys!MakeQuery(r) \/ Keys!RunQuery(r) \/ Keys!ProcessBinBundle(r) \/ Keys!extract(r)
    BY <1>2 DEF Keys!Next
  <2>2. /\ \A u \in KeyReceiver \ {r} : Untouched(u)
        /\ Functional' /\ UNCHANGED <<using_keyswitching, db_context>>
    BY <2>1, StepOfOne
  <2>3. KeysRight(r)'
    BY <2>1, ResetRight, CreateRight, SendRight, ReceiveRight, MakeRight, RunRight, ProcessRight,
       ExtractRight
  <2>4. \A u \in KeyReceiver \ {r} : KeysRight(u)'
    BY <2>2, StaysRight DEF KeysInv
  <2> QED
    BY <2>2, <2>3, <2>4 DEF KeysInv
<1> QED
  BY <1>1, <1>2

----------------------------------------------------------------------------
(***************************************************************************)
(* Results.                                                                *)
(***************************************************************************)

LEMMA InvMatches == Values /\ KeysInv => KeysMatch
<1> SUFFICES ASSUME Values, KeysInv, NEW r \in KeyReceiver
             PROVE  /\ Keys!OneOfTwo(relin_keys[r]) /\ Keys!OneOfTwo(package[r])
                    /\ Keys!OneOfTwo(request[r].relin_keys) /\ Keys!OneOfTwo(request[r].data)
                    /\ stage[r] = "sent" =>
                         Keys!Loads(wire[r].data) /\ (using_keyswitching => Keys!Loads(wire[r].relin_keys))
                    /\ stage[r] = "loaded" =>
                         Keys!CanExtract(request[r].data)
                         /\ (using_keyswitching => Keys!CanExtract(request[r].relin_keys))
                    /\ decrypted[r] # None =>
                         /\ decrypted[r].result.data = decrypted[r].with
                         /\ decrypted[r].result.keys
                              = (IF using_keyswitching THEN decrypted[r].with ELSE Default)
  BY DEF KeysMatch, Keys!KeysMatch, KeysInv
<1>1. KeysRight(r) /\ Gen(r) # None
  BY GenerationIsValue DEF KeysInv
<1>2. stage[r] = "sent" =>
        Keys!Loads(wire[r].data) /\ (using_keyswitching => Keys!Loads(wire[r].relin_keys))
  BY <1>1 DEF KeysRight, KeysAt, Keys!Loads
<1>3. stage[r] = "loaded" =>
        Keys!CanExtract(request[r].data) /\ (using_keyswitching => Keys!CanExtract(request[r].relin_keys))
  BY <1>1, HoldsValue DEF KeysRight, KeysAt
<1>4. decrypted[r] # None =>
        /\ decrypted[r].result.data = decrypted[r].with
        /\ decrypted[r].result.keys = (IF using_keyswitching THEN decrypted[r].with ELSE Default)
  <2> SUFFICES ASSUME decrypted[r] # None
               PROVE  /\ decrypted[r].result.data = decrypted[r].with
                      /\ decrypted[r].result.keys
                           = (IF using_keyswitching THEN decrypted[r].with ELSE Default)
    OBVIOUS
  <2>1. PICK gen : decrypted[r] = [result |-> ResultOf(gen), with |-> gen]
    BY <1>1 DEF KeysRight, ObjectsValid
  <2>2. decrypted[r].with = gen /\ decrypted[r].result = ResultOf(gen)
    BY <2>1
  <2>3. ResultOf(gen).data = gen
        /\ ResultOf(gen).keys = (IF using_keyswitching THEN gen ELSE Default)
    BY DEF ResultOf, KeysOf
  <2> QED
    BY <2>2, <2>3
<1> QED
  BY <1>1, <1>2, <1>3, <1>4 DEF KeysRight, ObjectsValid

\* Every result is decrypted and was relinearized with the keys of its
\* query, on whichever copies of objects and contexts the keys went there
\* (SEALObject, CryptoContext, Receiver::create_query, Sender::RunQuery).
THEOREM ResultsHaveTheirKeys == Values => (Keys!Spec => []KeysMatch)
<1> SUFFICES ASSUME Values PROVE Keys!Spec => []KeysMatch
  OBVIOUS
<1>1. Keys!Init => KeysInv
  BY InitKeys
<1>2. KeysInv /\ [Keys!Next]_(Keys!vars) => KeysInv'
  BY NextKeys
<1>3. KeysInv => KeysMatch
  BY InvMatches
<1> QED
  BY <1>1, <1>2, <1>3, PTL DEF Keys!Spec

----------------------------------------------------------------------------
(***************************************************************************)
(* What is served and asked: the files of the programs.                    *)
(***************************************************************************)

\* What the files hold is what they may hold, and they have had it.
FilesRight ==
  /\ files = [path \in Cli!Path |-> files[path]]
  /\ had = [path \in Cli!Path |-> had[path]]
  /\ \A path \in Cli!Path :
       /\ files[path] \in {Absent, Directory} \cup Cli!Content(path)
       /\ files[path] \in had[path]

ProgramsFunctional ==
  /\ at = [p \in Cli!Program |-> at[p]]
  /\ params = [p \in Cli!Program |-> params[p]]
  /\ loaded = [p \in Cli!Program |-> loaded[p]]
  /\ stream = [p \in Cli!Program |-> stream[p]]
  /\ mixed = [p \in Cli!Program |-> mixed[p]]
  /\ \A p \in Cli!Program : stream[p].stale \in BOOLEAN /\
       stream[p] = [lines |-> stream[p].lines, read |-> stream[p].read, stale |-> stream[p].stale]

\* What an open data file gives: a content of the file while nothing changes,
\* and nothing else than lines of its contents and torn ones.
StreamRight(p) ==
  /\ at[p] \in {"getline", "create_sender_db", "LoadQuery"} =>
       /\ stream[p].lines \in Seq(DataLine) /\ stream[p].read \in 0 .. Len(stream[p].lines)
       /\ Cli!AllItems(stream[p].lines) \subseteq Cli!Known(Cli!DataPath(p))
       /\ Cli!DataPath(p) \notin mixed[p] =>
            ~stream[p].stale /\ stream[p].lines \in had[Cli!DataPath(p)] \cap DataFile
  /\ at[p] = "getline" => stream[p].read = 0 \/ stream[p].lines[1].item # NoItem
  /\ at[p] \in {"create_sender_db", "LoadQuery"} =>
       \/ stream[p].read = Len(stream[p].lines)
       \/ stream[p].read = 1 /\ stream[p].lines[1].item = NoItem
  /\ at[p] = "Load" =>
       stream[p].lines \in had["paramsFile"] /\ (stream[p].stale => "paramsFile" \in mixed[p])

\* A sender has parameters from Load on, and its items from
\* create_sender_db on.
SenderRight(s) ==
  /\ at[s] \in {"main", "start_sender", "try_load_sender_db", "build_psi_params", "open_params", "Load"} =>
       params[s] = None
  /\ at[s] \in {"load_db", "open", "getline", "create_sender_db", "bind", "run"} =>
       params[s] \in Valid /\ ("paramsFile" \notin mixed[s] => params[s] \in had["paramsFile"])
  /\ at[s] \in {"bind", "run"} => Cli!IsFrom(s, "dbFile")
  /\ at[s] \notin {"connect", "RequestParams", "LoadQuery", "request_query"}

\* A receiver has the parameters of a sender, which may have ended since,
\* and then its items.
ReceiverRight(r) ==
  /\ at[r] \in {"load_db", "open", "getline", "LoadQuery", "request_query"} =>
       \E s \in Sender : params[r] = params[s] /\ params[s] # None
  /\ at[r] = "request_query" => Cli!IsFrom(r, "queryFile")
  /\ at[r] \in {"main", "connect", "RequestParams", "load_db", "open", "getline", "LoadQuery",
                "request_query", "ended"}

OneServes == \A s, o \in Sender : Cli!Serves(s) /\ Cli!Serves(o) => s = o

\* The inductive invariant.
ProgramsInv ==
  /\ FilesRight
  /\ ProgramsFunctional
  /\ \A p \in Cli!Program : StreamRight(p)
  /\ \A s \in Sender : SenderRight(s)
  /\ \A r \in Receiver : ReceiverRight(r)
  /\ OneServes

LEMMA InitPrograms == Cli!Init => ProgramsInv
<1> SUFFICES ASSUME Cli!Init PROVE ProgramsInv
  OBVIOUS
<1>1. FilesRight
  <2>1. files = [path \in Cli!Path |-> files[path]] /\ had = [path \in Cli!Path |-> {files[path]}]
    BY DEF Cli!Init
  <2>2. \A path \in Cli!Path : files[path] \in {Absent, Directory} \cup Cli!Content(path)
    BY DEF Cli!Init
  <2> QED
    BY <2>1, <2>2 DEF FilesRight
<1>2. ProgramsFunctional
  BY DEF Cli!Init, ProgramsFunctional, Cli!Closed
<1>3. \A p \in Cli!Program : at[p] = "main" /\ params[p] = None
  BY DEF Cli!Init
<1> QED
  BY <1>1, <1>2, <1>3
  DEF ProgramsInv, StreamRight, SenderRight, ReceiverRight, OneServes, Cli!Program, Cli!Serves

\* What a program has stays right when files get further contents and its
\* own path does not change.
LEMMA FromStays ==
  ASSUME NEW p, NEW path, Cli!IsFrom(p, path), had[path] \subseteq had'[path],
         loaded'[p] = loaded[p], mixed'[p] = mixed[p]
  PROVE  Cli!IsFrom(p, path)'
<1>1. Cli!Known(path) \subseteq Cli!Known(path)'
  BY DEF Cli!Known
<1>2. Cli!IsWhole(loaded[p], path) => Cli!IsWhole(loaded[p], path)'
  BY DEF Cli!IsWhole
<1> QED
  BY <1>1, <1>2 DEF Cli!IsFrom, Cli!IsWhole

\* A program that stands still, while files get further contents.
LEMMA StandsStill ==
  ASSUME ProgramsInv, NEW p \in Cli!Program, \A path \in Cli!Path : had[path] \subseteq had'[path],
         at'[p] = at[p], params'[p] = params[p], loaded'[p] = loaded[p],
         stream'[p] = stream[p], mixed'[p] = mixed[p],
         \A s \in Sender : params[s] # None => params'[s] = params[s]
  PROVE  /\ StreamRight(p)'
         /\ p \in Sender => SenderRight(p)'
         /\ p \in Receiver => ReceiverRight(p)'
<1>0. Cli!DataPath(p) \in Cli!Path /\ "paramsFile" \in Cli!Path /\ "dbFile" \in Cli!Path /\ "queryFile" \in Cli!Path
  BY DEF Cli!DataPath, Cli!Path
<1>1. StreamRight(p)'
  <2>1. Cli!Known(Cli!DataPath(p)) \subseteq Cli!Known(Cli!DataPath(p))'
    BY <1>0 DEF Cli!Known, Cli!DataPath
  <2>2. StreamRight(p) /\ Cli!DataPath(p)' = Cli!DataPath(p)
    BY DEF ProgramsInv, Cli!DataPath
  <2>3. Cli!AllItems(stream[p].lines)' = Cli!AllItems(stream[p].lines)
    BY DEF Cli!AllItems
  <2> QED
    BY <1>0, <2>1, <2>2, <2>3 DEF StreamRight
<1>2. p \in Sender => SenderRight(p)'
  BY <1>0, FromStays DEF ProgramsInv, SenderRight
<1>3. p \in Receiver => ReceiverRight(p)'
  BY <1>0, FromStays DEF ProgramsInv, ReceiverRight
<1> QED
  BY <1>1, <1>2, <1>3

\* A file changes: what it had stays known, and who has it open will notice.
LEMMA ChangeKeeps ==
  ASSUME ProgramsInv, NEW path \in Cli!Path, NEW content \in Cli!Content(path) \cup {Absent},
         Cli!Change(path, content)
  PROVE  ProgramsInv'
<1> USE ProgramsAssumption
<1>1. /\ files' = [files EXCEPT ![path] = content] /\ had' = [had EXCEPT ![path] = @ \cup {content}]
      /\ stream' = [p \in Cli!Program |-> [stream[p] EXCEPT !.stale = @ \/ Cli!HasOpen(p, path)]]
      /\ mixed' = [p \in Cli!Program |-> mixed[p] \cup (IF Cli!HasOpen(p, path) THEN {path} ELSE {})]
      /\ UNCHANGED <<at, params, loaded>>
  BY DEF Cli!Change
<1>2. FilesRight'
  BY <1>1 DEF ProgramsInv, FilesRight, Cli!Content
<1>3. \A q \in Cli!Path : had[q] \subseteq had'[q]
  BY <1>1 DEF ProgramsInv, FilesRight
<1>4. ASSUME NEW p \in Cli!Program
      PROVE  /\ stream'[p].lines = stream[p].lines /\ stream'[p].read = stream[p].read
             /\ stream'[p].stale = (stream[p].stale \/ Cli!HasOpen(p, path))
             /\ stream'[p] = [lines |-> stream[p].lines, read |-> stream[p].read,
                              stale |-> stream[p].stale \/ Cli!HasOpen(p, path)]
             /\ mixed'[p] = mixed[p] \cup (IF Cli!HasOpen(p, path) THEN {path} ELSE {})
  <2>1. stream[p] = [lines |-> stream[p].lines, read |-> stream[p].read, stale |-> stream[p].stale]
    BY DEF ProgramsInv, ProgramsFunctional
  <2>2. stream'[p] = [stream[p] EXCEPT !.stale = @ \/ Cli!HasOpen(p, path)]
    BY <1>1
  <2>3. [stream[p] EXCEPT !.stale = @ \/ Cli!HasOpen(p, path)]
          = [lines |-> stream[p].lines, read |-> stream[p].read, stale |-> stream[p].stale \/ Cli!HasOpen(p, path)]
    BY <2>1
  <2> HIDE DEF Cli!HasOpen
  <2> QED
    BY <1>1, <2>2, <2>3
<1>5. ProgramsFunctional'
  <2>1. \A p \in Cli!Program : stream'[p].stale \in BOOLEAN /\
          stream'[p] = [lines |-> stream'[p].lines, read |-> stream'[p].read, stale |-> stream'[p].stale]
    BY <1>4 DEF ProgramsInv, ProgramsFunctional
  <2> QED
    BY <1>1, <2>1 DEF ProgramsInv, ProgramsFunctional
<1>6. ASSUME NEW p \in Cli!Program
      PROVE  /\ StreamRight(p)'
             /\ p \in Sender => SenderRight(p)'
             /\ p \in Receiver => ReceiverRight(p)'
  <2>1. CASE ~Cli!HasOpen(p, path)
    <3>1. stream'[p] = stream[p] /\ mixed'[p] = mixed[p]
      BY <1>4, <2>1 DEF ProgramsInv, ProgramsFunctional
    <3> QED
      BY <1>1, <1>3, <3>1, StandsStill
  <2>2. CASE Cli!HasOpen(p, path) /\ at[p] = "getline"
    <3>1. path = Cli!DataPath(p) /\ path \in {"dbFile", "queryFile"}
      BY <2>2 DEF Cli!HasOpen, Cli!DataPath
    <3>2. Cli!Known(path) \subseteq Cli!Known(path)' /\ Cli!DataPath(p)' = path
      BY <1>3, <3>1 DEF Cli!Known, Cli!DataPath
    <3>3. StreamRight(p) /\ at'[p] = at[p] /\ params' = params /\ path \in mixed'[p]
      BY <1>1, <1>4, <2>2 DEF ProgramsInv
    <3>4. Cli!AllItems(stream'[p].lines) = Cli!AllItems(stream[p].lines)
      BY <1>4
    <3>5. StreamRight(p)'
      BY <1>4, <2>2, <3>1, <3>2, <3>3, <3>4 DEF StreamRight
    <3>6. "paramsFile" \notin mixed'[p] => "paramsFile" \notin mixed[p]
      BY <1>4
    <3>7. had["paramsFile"] \subseteq had'["paramsFile"]
      BY <1>3 DEF Cli!Path
    <3>8. p \in Sender => SenderRight(p)'
      BY <2>2, <3>3, <3>6, <3>7 DEF ProgramsInv, SenderRight
    <3>9. p \in Receiver => ReceiverRight(p)'
      BY <2>2, <3>3 DEF ProgramsInv, ReceiverRight
    <3> QED
      BY <3>5, <3>8, <3>9
  <2>3. CASE Cli!HasOpen(p, path) /\ at[p] = "Load"
    <3>1. path = "paramsFile"
      BY <2>3 DEF Cli!HasOpen
    <3>2. StreamRight(p) /\ at'[p] = at[p] /\ params' = params /\ "paramsFile" \in mixed'[p]
          /\ had["paramsFile"] \subseteq had'["paramsFile"]
      BY <1>1, <1>3, <1>4, <2>3, <3>1 DEF ProgramsInv
    <3>3. StreamRight(p)'
      BY <1>4, <2>3, <3>2 DEF StreamRight
    <3>4. p \in Sender => SenderRight(p)'
      BY <2>3, <3>2 DEF ProgramsInv, SenderRight
    <3>5. p \notin Receiver
      BY <2>3 DEF ProgramsInv, ReceiverRight
    <3> QED
      BY <3>3, <3>4, <3>5
  <2> QED
    BY <2>1, <2>2, <2>3 DEF Cli!HasOpen
<1>7. OneServes'
  BY <1>1 DEF ProgramsInv, OneServes, Cli!Serves
<1> QED
  BY <1>2, <1>5, <1>6, <1>7 DEF ProgramsInv, Cli!Program

\* A program goes on, with a stream, parameters and items that are right
\* where it gets; the others stay right.
LEMMA ProgramGoesOn ==
  ASSUME ProgramsInv, NEW p \in Cli!Program, NEW place,
         at' = [at EXCEPT ![p] = place], UNCHANGED <<files, had, mixed>>,
         params' = [params EXCEPT ![p] = params'[p]],
         loaded' = [loaded EXCEPT ![p] = loaded'[p]],
         stream' = [stream EXCEPT ![p] = stream'[p]],
         stream'[p] = [lines |-> stream'[p].lines, read |-> stream'[p].read, stale |-> stream'[p].stale],
         stream'[p].stale \in BOOLEAN,
         p \in Sender => params'[p] = params[p] \/ params[p] = None,
         place = "run" => \A o \in Sender : ~Cli!Serves(o),
         StreamRight(p)',
         p \in Sender => SenderRight(p)',
         p \in Receiver => ReceiverRight(p)'
  PROVE  ProgramsInv'
<1> USE ProgramsAssumption
<1>1. /\ at'[p] = place
      /\ \A q \in Cli!Program \ {p} :
           /\ at'[q] = at[q] /\ params'[q] = params[q] /\ loaded'[q] = loaded[q]
           /\ stream'[q] = stream[q] /\ mixed'[q] = mixed[q]
  BY DEF ProgramsInv, ProgramsFunctional
<1>2. FilesRight'
  BY DEF ProgramsInv, FilesRight, Cli!Content
<1>3. ProgramsFunctional'
  <2>1. \A q \in Cli!Program : stream'[q].stale \in BOOLEAN /\
          stream'[q] = [lines |-> stream'[q].lines, read |-> stream'[q].read, stale |-> stream'[q].stale]
    BY <1>1 DEF ProgramsInv, ProgramsFunctional
  <2> QED
    BY <2>1 DEF ProgramsInv, ProgramsFunctional
<1>4. ASSUME NEW s \in Sender, params[s] # None PROVE params'[s] = params[s]
  BY <1>1, <1>4 DEF Cli!Program
<1>5. ASSUME NEW q \in Cli!Program, q # p
      PROVE  /\ StreamRight(q)'
             /\ q \in Sender => SenderRight(q)'
             /\ q \in Receiver => ReceiverRight(q)'
  BY <1>1, <1>4, <1>5, StandsStill
<1>6. OneServes'
  <2>1. CASE place = "run"
    BY <1>1, <2>1 DEF OneServes, Cli!Serves, Cli!Program
  <2>2. CASE place # "run"
    BY <1>1, <2>2 DEF ProgramsInv, OneServes, Cli!Serves, Cli!Program
  <2> QED
    BY <2>1, <2>2
<1>7. \A q \in Cli!Program : StreamRight(q)' /\ (q \in Sender => SenderRight(q)') /\ (q \in Receiver => ReceiverRight(q)')
  BY <1>5
<1> QED
  BY <1>2, <1>3, <1>6, <1>7 DEF ProgramsInv, Cli!Program

\* The same when the program neither reads nor gets anything.
LEMMA ProgramMoves ==
  ASSUME ProgramsInv, NEW p \in Cli!Program, NEW place,
         at' = [at EXCEPT ![p] = place], UNCHANGED <<files, had, mixed, params, loaded, stream>>,
         place = "run" => \A o \in Sender : ~Cli!Serves(o),
         StreamRight(p)',
         p \in Sender => SenderRight(p)',
         p \in Receiver => ReceiverRight(p)'
  PROVE  ProgramsInv'
<1>1. /\ params' = [params EXCEPT ![p] = params'[p]] /\ loaded' = [loaded EXCEPT ![p] = loaded'[p]]
      /\ stream' = [stream EXCEPT ![p] = stream'[p]]
      /\ stream'[p] = [lines |-> stream'[p].lines, read |-> stream'[p].read, stale |-> stream'[p].stale]
      /\ stream'[p].stale \in BOOLEAN /\ params'[p] = params[p]
  BY DEF ProgramsInv, ProgramsFunctional
<1> QED
  BY <1>1, ProgramGoesOn

\* What the concatenation of two sequences is, element by element.
LEMMA Concatenated ==
  ASSUME NEW S, NEW s \in Seq(S), NEW t \in Seq(S)
  PROVE  /\ (s \o t) \in Seq(S) /\ Len(s \o t) = Len(s) + Len(t)
         /\ \A k \in 1 .. Len(s) + Len(t) :
              (s \o t)[k] = IF k <= Len(s) THEN s[k] ELSE t[k - Len(s)]
OBVIOUS

\* The lines of a stream whose file was rewritten: those that were read, and
\* else lines that the file had, has or shares between the two.
LEMMA RewrittenLines ==
  ASSUME NEW s, s.lines \in Seq(DataLine), s.read \in 0 .. Len(s.lines),
         NEW content \in Seq(DataLine), NEW m \in Cli!Rewritten(s, content)
  PROVE  /\ m \in Seq(DataLine) /\ s.read \in 0 .. Len(m)
         /\ s.read > 0 => m[1] = s.lines[1]
         /\ \A i \in DOMAIN m : m[i] \in {s.lines[j] : j \in DOMAIN s.lines}
                                       \cup {content[j] : j \in DOMAIN content} \cup TornLine
<1> DEFINE a == s.lines
<1>1. CASE m = s.lines
  BY <1>1
<1>2. ASSUME NEW i \in s.read .. Len(s.lines), NEW j \in 1 .. Len(content) + 1,
             NEW torn \in {<<>>} \cup {<<entry>> : entry \in TornLine},
             m = SubSeq(s.lines, 1, i) \o torn \o SubSeq(content, j, Len(content))
      PROVE  /\ m \in Seq(DataLine) /\ s.read \in 0 .. Len(m)
             /\ s.read > 0 => m[1] = s.lines[1]
             /\ \A k \in DOMAIN m : m[k] \in {s.lines[l] : l \in DOMAIN s.lines}
                                           \cup {content[l] : l \in DOMAIN content} \cup TornLine
  <2> DEFINE b == SubSeq(s.lines, 1, i)
             c == SubSeq(content, j, Len(content))
  <2>1. b \in Seq(DataLine) /\ Len(b) = i /\ \A k \in 1 .. i : b[k] = s.lines[k]
    OBVIOUS
  <2>2. c \in Seq(DataLine) /\ Len(c) = Len(content) + 1 - j /\ \A k \in 1 .. Len(c) : c[k] = content[k + j - 1]
    OBVIOUS
  <2>3. torn \in Seq(DataLine) /\ \A k \in DOMAIN torn : torn[k] \in TornLine
    <3>1. CASE torn = <<>>
      BY <3>1
    <3>2. CASE \E entry \in TornLine : torn = <<entry>>
      <4>1. PICK entry \in TornLine : torn = <<entry>>
        BY <3>2
      <4>2. entry \in DataLine
        BY DEF DataLine
      <4>3. <<entry>> \in Seq(DataLine) /\ DOMAIN <<entry>> = {1} /\ <<entry>>[1] = entry
        BY <4>2
      <4> QED
        BY <4>1, <4>3
    <3> QED
      BY <3>1, <3>2
  <2>4. i \in Nat /\ i <= Len(s.lines) /\ s.read <= i /\ s.read \in Nat /\ j \in Nat /\ j >= 1
    OBVIOUS
  <2> HIDE DEF b, c
  <2>5. (b \o torn) \in Seq(DataLine) /\ Len(b \o torn) = i + Len(torn)
        /\ \A k \in 1 .. i + Len(torn) : (b \o torn)[k] = IF k <= i THEN b[k] ELSE torn[k - i]
    BY <2>1, <2>3, <2>4
  <2>6. m = (b \o torn) \o c
    BY <1>2 DEF b, c
  <2> DEFINE d == b \o torn
             n == i + Len(torn)
  <2>7. n \in Nat /\ n >= i /\ d \in Seq(DataLine) /\ Len(d) = n
    BY <2>3, <2>4, <2>5
  <2>8. \A k \in 1 .. n : d[k] \in {s.lines[l] : l \in DOMAIN s.lines} \cup TornLine
    <3> SUFFICES ASSUME NEW k \in 1 .. n
                 PROVE  d[k] \in {s.lines[l] : l \in DOMAIN s.lines} \cup TornLine
      OBVIOUS
    <3>1. CASE k <= i
      <4>1. d[k] = s.lines[k] /\ k \in DOMAIN s.lines
        BY <2>1, <2>4, <2>5, <3>1
      <4> QED
        BY <4>1
    <3>2. CASE k > i
      <4>1. k - i \in 1 .. Len(torn) /\ d[k] = torn[k - i]
        BY <2>1, <2>3, <2>4, <2>5, <3>2
      <4> QED
        BY <2>3, <4>1
    <3> HIDE DEF d, n
    <3>3. k \in Int /\ i \in Int
      BY <2>4, <2>7
    <3>4. k <= i \/ k > i
      BY <3>3
    <3> QED
      BY <3>1, <3>2, <3>4
  <2>9. n > 0 /\ i > 0 => d[1] = s.lines[1]
    BY <2>1, <2>4, <2>5, <2>7
  <2> HIDE DEF d, n
  <2>10. m \in Seq(DataLine) /\ Len(m) = n + Len(c)
         /\ \A k \in 1 .. n + Len(c) : m[k] = IF k <= n THEN d[k] ELSE c[k - n]
    <3>1. m = d \o c
      BY <2>6 DEF d
    <3>2. c \in Seq(DataLine)
      BY <2>2
    <3>3. d \in Seq(DataLine) /\ Len(d) = n
      BY <2>7
    <3> QED
      BY <3>1, <3>2, <3>3, Concatenated
  <2>11. \A k \in 1 .. Len(c) : c[k] \in {content[l] : l \in DOMAIN content}
    BY <2>2, <2>4
  <2>12. s.read \in 0 .. Len(m)
    <3>1. Len(c) \in Nat
      BY <2>2
    <3>2. Len(m) = n + Len(c)
      BY <2>10
    <3> DEFINE size == Len(c)
               total == Len(m)
    <3>3. s.read \in Nat /\ n \in Nat /\ s.read <= n /\ size \in Nat /\ total = n + size
      <4>1. n \in Nat /\ n >= i /\ i \in Nat /\ s.read \in Nat /\ s.read <= i
        BY <2>4, <2>7
      <4>2. s.read <= n
        BY <4>1
      <4> QED
        BY <3>1, <3>2, <4>1, <4>2
    <3> HIDE DEF size, total
    <3>4. s.read \in 0 .. total
      BY <3>3
    <3> QED
      BY <3>4 DEF total
  <2>13. s.read > 0 => m[1] = s.lines[1]
    <3> SUFFICES ASSUME s.read > 0 PROVE m[1] = s.lines[1]
      OBVIOUS
    <3>1. n \in Nat /\ n > 0 /\ i > 0
      BY <2>4, <2>7
    <3>2. Len(c) \in Nat
      BY <2>2
    <3>3. 1 \in 1 .. n + Len(c) /\ 1 <= n
      BY <3>1, <3>2
    <3>4. m[1] = d[1]
      BY <2>10, <3>3
    <3> QED
      BY <2>9, <3>1, <3>4
  <2>14. ASSUME NEW k \in DOMAIN m
         PROVE  m[k] \in {s.lines[l] : l \in DOMAIN s.lines} \cup {content[l] : l \in DOMAIN content} \cup TornLine
    <3>1. k \in 1 .. n + Len(c)
      BY <2>10
    <3>2. CASE k <= n
      BY <2>7, <2>8, <2>10, <3>1, <3>2
    <3>3. CASE k > n
      <4>1. Len(c) \in Nat /\ k \in Nat
        BY <2>2, <2>7, <3>1
      <4>2. k - n \in 1 .. Len(c) /\ m[k] = c[k - n]
        BY <2>7, <2>10, <3>1, <3>3, <4>1
      <4> QED
        BY <2>11, <4>2
    <3> QED
      BY <2>7, <3>1, <3>2, <3>3
  <2> QED
    BY <2>10, <2>12, <2>13, <2>14
<1>3. m = s.lines \/ \E i \in s.read .. Len(s.lines), j \in 1 .. Len(content) + 1,
                         torn \in {<<>>} \cup {<<entry>> : entry \in TornLine} :
                       m = SubSeq(s.lines, 1, i) \o torn \o SubSeq(content, j, Len(content))
  <2> DEFINE Given(i, j, torn) == SubSeq(s.lines, 1, i) \o torn \o SubSeq(content, j, Len(content))
             I == s.read .. Len(s.lines)
             J == 1 .. Len(content) + 1
             T == {<<>>} \cup {<<entry>> : entry \in TornLine}
  <2>1. Cli!Rewritten(s, content) = {s.lines} \cup {Given(i, j, torn) : i \in I, j \in J, torn \in T}
    BY DEF Cli!Rewritten
  <2> SUFFICES m = s.lines \/ \E i \in I, j \in J, torn \in T : m = Given(i, j, torn)
    OBVIOUS
  <2> HIDE DEF Given, I, J, T
  <2> QED
    BY <2>1
<1> QED
  BY <1>1, <1>2, <1>3

\* What getline goes on with: lines of contents of the file and torn ones,
\* and the lines as they were unless the file changed.
LEMMA GivenLines ==
  ASSUME ProgramsInv, NEW p \in Cli!Program, at[p] = "getline", NEW l \in Cli!Given(p)
  PROVE  /\ l \in Seq(DataLine) /\ stream[p].read \in 0 .. Len(l)
         /\ stream[p].read > 0 => l[1].item # NoItem
         /\ Cli!AllItems(l) \subseteq Cli!Known(Cli!DataPath(p))
         /\ Cli!DataPath(p) \notin mixed[p] => l \in had[Cli!DataPath(p)] \cap DataFile
<1> DEFINE path == Cli!DataPath(p)
           s == stream[p]
<1>1. /\ s.lines \in Seq(DataLine) /\ s.read \in 0 .. Len(s.lines)
      /\ Cli!AllItems(s.lines) \subseteq Cli!Known(path)
      /\ path \notin mixed[p] => ~s.stale /\ s.lines \in had[path] \cap DataFile
      /\ s.read = 0 \/ s.lines[1].item # NoItem
  BY DEF ProgramsInv, StreamRight
<1>2. CASE l = s.lines
  <2> HIDE DEF s
  <2>1. s.read > 0 => l[1].item # NoItem
    BY <1>1, <1>2
  <2> QED
    BY <1>1, <1>2, <2>1 DEF s
<1>3. CASE l # s.lines
  <2>1. s.stale /\ Cli!IsRegular(path) /\ l \in Cli!Rewritten(s, files[path])
    BY <1>3 DEF Cli!Given
  <2>2. path \in {"dbFile", "queryFile"} /\ path \in Cli!Path
    BY DEF Cli!DataPath, Cli!Path
  <2>3. files[path] \in had[path] \cap DataFile
    BY <2>1, <2>2 DEF ProgramsInv, FilesRight, Cli!IsRegular, Cli!Content
  <2>4. files[path] \in Seq(DataLine)
    BY <2>3, DataAssumption
  <2> DEFINE content == files[path]
  <2> HIDE DEF path, s, content
  <2>5. /\ l \in Seq(DataLine) /\ s.read \in 0 .. Len(l)
        /\ s.read > 0 => l[1] = s.lines[1]
        /\ \A i \in DOMAIN l : l[i] \in {s.lines[j] : j \in DOMAIN s.lines}
                                      \cup {content[j] : j \in DOMAIN content} \cup TornLine
    BY <1>1, <2>1, <2>4, RewrittenLines DEF content
  <2>6. Cli!AllItems(content) \subseteq Cli!Known(path)
    BY <2>3 DEF Cli!Known, content
  <2>7. \A entry \in TornLine : entry.item \in Cli!Known(path)
    BY DEF Cli!Known
  <2>8. ASSUME NEW x \in Cli!AllItems(l) PROVE x \in Cli!Known(path)
    <3>1. PICK i \in DOMAIN l : x = l[i].item /\ x # NoItem
      BY DEF Cli!AllItems
    <3>2. CASE \E j \in DOMAIN s.lines : l[i] = s.lines[j]
      <4>1. x \in Cli!AllItems(s.lines)
        BY <3>1, <3>2 DEF Cli!AllItems
      <4> QED
        BY <1>1, <4>1
    <3>3. CASE \E j \in DOMAIN content : l[i] = content[j]
      <4>1. x \in Cli!AllItems(content)
        BY <3>1, <3>3 DEF Cli!AllItems
      <4> QED
        BY <2>6, <4>1
    <3>4. CASE l[i] \in TornLine
      BY <2>7, <3>1, <3>4
    <3> QED
      BY <2>5, <3>2, <3>3, <3>4
  <2>9. s.read > 0 => l[1].item # NoItem
    BY <1>1, <2>5
  <2> QED
    BY <1>1, <2>1, <2>5, <2>8, <2>9 DEF path, s
<1> QED
  BY <1>2, <1>3

LEMMA GetlineKeeps ==
  ASSUME ProgramsInv, NEW p \in Cli!Program, Cli!getline(p)
  PROVE  ProgramsInv'
<1> USE ProgramsAssumption
<1>1. at[p] = "getline" /\ UNCHANGED <<files, had, mixed, params, loaded>>
  BY DEF Cli!getline, Cli!KeepsFiles
<1> DEFINE path == Cli!DataPath(p)
           after == IF p \in Sender THEN "create_sender_db" ELSE "LoadQuery"
           count(l) == IF stream[p].read < Len(l) THEN stream[p].read + 1 ELSE stream[p].read
           goeson(l) == stream[p].read < Len(l) /\ ~(count(l) = 1 /\ l[1].item = NoItem)
<1>2. PICK l \in Cli!Given(p) :
        /\ stream' = [stream EXCEPT ![p] = [lines |-> l, read |-> count(l), stale |-> FALSE]]
        /\ IF goeson(l) THEN UNCHANGED at ELSE at' = [at EXCEPT ![p] = after]
  BY DEF Cli!getline, Cli!Goes
<1>3. /\ l \in Seq(DataLine) /\ stream[p].read \in 0 .. Len(l)
      /\ stream[p].read > 0 => l[1].item # NoItem
      /\ Cli!AllItems(l) \subseteq Cli!Known(path)
      /\ path \notin mixed[p] => l \in had[path] \cap DataFile
  BY <1>1, GivenLines
<1> DEFINE place == IF goeson(l) THEN "getline" ELSE after
           n == count(l)
<1>4. /\ n \in 0 .. Len(l)
      /\ goeson(l) => n = 0 \/ l[1].item # NoItem
      /\ ~goeson(l) => n = Len(l) \/ (n = 1 /\ l[1].item = NoItem)
  <2>1. Len(l) \in Nat /\ stream[p].read \in Nat /\ stream[p].read <= Len(l)
    BY <1>3
  <2> QED
    BY <1>3, <2>1
<1>5. stream'[p] = [lines |-> l, read |-> n, stale |-> FALSE]
  BY <1>2 DEF ProgramsInv, ProgramsFunctional
<1>6. /\ at' = [at EXCEPT ![p] = place] /\ at'[p] = place
      /\ place \in {"getline", "create_sender_db", "LoadQuery"}
      /\ place = "getline" <=> goeson(l)
  BY <1>1, <1>2 DEF ProgramsInv, ProgramsFunctional
<1>7. p \in Sender <=> p \notin Receiver
  BY DEF Cli!Program
<1> HIDE DEF n, goeson
<1>8. /\ Cli!DataPath(p)' = path /\ Cli!Known(path)' = Cli!Known(path)
      /\ Cli!AllItems(stream'[p].lines) = Cli!AllItems(l)
      /\ Cli!AllItems(stream[p].lines)' = Cli!AllItems(stream'[p].lines)
  BY <1>1, <1>5 DEF Cli!DataPath, Cli!Known, Cli!AllItems
<1>9. StreamRight(p)'
  <2> HIDE DEF path, place
  <2>1. stream'[p].lines = l /\ stream'[p].read = n /\ ~stream'[p].stale
    BY <1>5
  <2> QED
    BY <1>1, <1>3, <1>4, <1>6, <1>8, <2>1 DEF StreamRight
<1>10. p \in Sender => SenderRight(p)'
  BY <1>1, <1>6, <1>7 DEF ProgramsInv, SenderRight
<1>11. p \in Receiver => ReceiverRight(p)'
  BY <1>1, <1>6, <1>7 DEF ProgramsInv, ReceiverRight
<1>12. /\ params' = [params EXCEPT ![p] = params'[p]] /\ loaded' = [loaded EXCEPT ![p] = loaded'[p]]
       /\ stream' = [stream EXCEPT ![p] = stream'[p]] /\ params'[p] = params[p]
       /\ stream'[p] = [lines |-> stream'[p].lines, read |-> stream'[p].read, stale |-> stream'[p].stale]
       /\ stream'[p].stale \in BOOLEAN
  BY <1>1, <1>2, <1>5 DEF ProgramsInv, ProgramsFunctional
<1> HIDE DEF place
<1> QED
  BY <1>1, <1>6, <1>9, <1>10, <1>11, <1>12, ProgramGoesOn

\* What is made of the lines that were read: all items of a content, or items
\* of several when the file changed.
LEMMA DataIsFrom ==
  ASSUME ProgramsInv, NEW p \in Cli!Program, at[p] \in {"create_sender_db", "LoadQuery"}
  PROVE  IF Cli!DataPath(p) \in mixed[p] THEN Cli!Data(p).items \subseteq Cli!Known(Cli!DataPath(p))
         ELSE Cli!IsWhole(Cli!Data(p).items, Cli!DataPath(p))
<1> DEFINE a == stream[p].lines
           n == stream[p].read
           b == SubSeq(a, 1, n)
           path == Cli!DataPath(p)
<1>1. /\ a \in Seq(DataLine) /\ n \in 0 .. Len(a)
      /\ Cli!AllItems(a) \subseteq Cli!Known(path)
      /\ path \notin mixed[p] => a \in had[path] \cap DataFile
      /\ n = Len(a) \/ (n = 1 /\ a[1].item = NoItem)
  BY DEF ProgramsInv, StreamRight
<1>2. Cli!Data(p) = Cli!read(b)
  BY DEF Cli!Data
<1> HIDE DEF a, n, path
<1>3. b \in Seq(DataLine) /\ Len(b) = n /\ \A k \in 1 .. n : b[k] = a[k]
  BY <1>1
<1>4. CASE n = Len(a)
  <2>1. b = a
    BY <1>1, <1>4
  <2>2. CASE a = <<>>
    <3>1. Cli!read(b).items = {} /\ Cli!AllItems(a) = {}
      BY <2>1, <2>2 DEF Cli!read, Cli!AllItems
    <3> QED
      BY <1>1, <1>2, <3>1 DEF Cli!IsWhole, path
  <2>3. CASE a # <<>> /\ a[1].item = NoItem
    <3>1. Cli!read(b).items = {}
      BY <2>1, <2>3 DEF Cli!read
    <3> QED
      BY <1>1, <1>2, <2>3, <3>1 DEF Cli!IsWhole, path
  <2>4. CASE a # <<>> /\ a[1].item # NoItem
    <3>1. Cli!read(b).items = Cli!AllItems(a)
      BY <2>1, <2>4 DEF Cli!read, Cli!AllItems, Cli!ToSet
    <3> QED
      BY <1>1, <1>2, <3>1 DEF Cli!IsWhole, path
  <2> QED
    BY <2>2, <2>3, <2>4
<1>5. CASE n = 1 /\ a[1].item = NoItem
  <2>1. a # <<>> /\ b[1] = a[1]
    BY <1>1, <1>3, <1>5
  <2>2. Cli!read(b).items = {}
    BY <1>5, <2>1 DEF Cli!read
  <2> QED
    BY <1>1, <1>2, <1>5, <2>1, <2>2 DEF Cli!IsWhole, path
<1> QED
  BY <1>1, <1>4, <1>5

\* A file is checked and opened, by a program at a place of its own.
LEMMA ChecksAndOpens ==
  ASSUME ProgramsInv, NEW p \in Cli!Program,
         \/ Cli!load_db(p)
         \/ Cli!open(p)
         \/ p \in Sender /\ Cli!build_psi_params(p)
  PROVE  ProgramsInv'
<1> USE ProgramsAssumption
<1>1. p \in Sender <=> p \notin Receiver
  BY DEF Cli!Program
<1>2. \/ Cli!load_db(p) \/ Cli!open(p)
      \/ p \in Sender /\ at[p] = "build_psi_params" /\ Cli!Checks(p, "paramsFile", "open_params")
      \/ p \in Sender /\ at[p] = "open_params" /\ Cli!Opens(p, "paramsFile", "Load")
  BY DEF Cli!build_psi_params
<1>3. ASSUME NEW place \in {"open", "open_params", "ended"},
             at' = [at EXCEPT ![p] = place], UNCHANGED <<files, had, mixed, params, loaded, stream>>,
             \/ place = "open" /\ at[p] = "load_db"
             \/ place = "open_params" /\ p \in Sender /\ at[p] = "build_psi_params"
             \/ place = "ended"
      PROVE  ProgramsInv'
  <2>1. at'[p] = place
    BY <1>3 DEF ProgramsInv, ProgramsFunctional
  <2>2. StreamRight(p)'
    BY <2>1 DEF StreamRight
  <2>3. p \in Sender => SenderRight(p)'
    BY <1>3, <2>1 DEF ProgramsInv, SenderRight
  <2>4. p \in Receiver => ReceiverRight(p)'
    BY <1>1, <1>3, <2>1 DEF ProgramsInv, ReceiverRight
  <2> QED
    BY <1>3, <2>2, <2>3, <2>4, ProgramMoves
<1>4. CASE Cli!load_db(p) \/ (p \in Sender /\ at[p] = "build_psi_params" /\ Cli!Checks(p, "paramsFile", "open_params"))
  BY <1>3, <1>4 DEF Cli!load_db, Cli!Checks, Cli!Goes, Cli!Ends, Cli!KeepsFiles
<1>5. ASSUME NEW path \in Cli!Path, NEW place, Cli!Opens(p, path, place),
             \/ at[p] = "open" /\ path = Cli!DataPath(p) /\ place = "getline"
             \/ p \in Sender /\ at[p] = "open_params" /\ path = "paramsFile" /\ place = "Load"
      PROVE  ProgramsInv'
  <2>1. CASE ~Cli!IsRegular(path)
    <3>1. at' = [at EXCEPT ![p] = "ended"] /\ UNCHANGED <<files, had, mixed, params, loaded, stream>>
      BY <1>5, <2>1 DEF Cli!Opens, Cli!Ends, Cli!KeepsFiles
    <3> QED
      BY <1>3, <3>1
  <2>2. CASE Cli!IsRegular(path)
    <3>1. /\ at' = [at EXCEPT ![p] = place] /\ UNCHANGED <<files, had, mixed, params, loaded>>
          /\ stream' = [stream EXCEPT ![p] = [Cli!Closed EXCEPT !.lines = files[path]]]
      BY <1>5, <2>2 DEF Cli!Opens, Cli!Goes, Cli!KeepsFiles
    <3>2. at'[p] = place /\ stream'[p] = [lines |-> files[path], read |-> 0, stale |-> FALSE]
      BY <3>1 DEF ProgramsInv, ProgramsFunctional, Cli!Closed
    <3>3. /\ params' = [params EXCEPT ![p] = params'[p]] /\ loaded' = [loaded EXCEPT ![p] = loaded'[p]]
          /\ stream' = [stream EXCEPT ![p] = stream'[p]] /\ params'[p] = params[p]
          /\ stream'[p] = [lines |-> stream'[p].lines, read |-> stream'[p].read, stale |-> stream'[p].stale]
          /\ stream'[p].stale \in BOOLEAN
      BY <3>1, <3>2 DEF ProgramsInv, ProgramsFunctional
    <3>4. /\ stream'[p].lines = files[path] /\ stream'[p].read = 0 /\ ~stream'[p].stale
      BY <3>2
    <3>5. files[path] \in had[path]
      BY DEF ProgramsInv, FilesRight
    <3>6. StreamRight(p)'
      <4>1. CASE place = "getline" /\ path = Cli!DataPath(p)
        <5>1. files[path] \in had[path] \cap DataFile
          BY <2>2, <3>5, <4>1 DEF ProgramsInv, FilesRight, Cli!IsRegular, Cli!Content, Cli!DataPath, Cli!Path
        <5>2. files[path] \in Seq(DataLine)
          BY <5>1, DataAssumption
        <5>3. Len(files[path]) \in Nat
          BY <5>2
        <5>4. Cli!AllItems(files[path]) \subseteq Cli!Known(path)
          BY <5>1 DEF Cli!Known
        <5>5. /\ Cli!DataPath(p)' = path /\ Cli!Known(path)' = Cli!Known(path)
              /\ Cli!AllItems(stream[p].lines)' = Cli!AllItems(files[path])
          BY <3>1, <3>4, <4>1 DEF Cli!DataPath, Cli!Known, Cli!AllItems
        <5> QED
          BY <3>1, <3>2, <3>4, <4>1, <5>1, <5>2, <5>3, <5>4, <5>5 DEF StreamRight
      <4>2. CASE place = "Load" /\ path = "paramsFile"
        BY <3>1, <3>2, <3>4, <3>5, <4>2 DEF StreamRight
      <4> QED
        BY <1>5, <4>1, <4>2
    <3>7. p \in Sender => SenderRight(p)'
      BY <1>5, <3>1, <3>2 DEF ProgramsInv, SenderRight
    <3>8. p \in Receiver => ReceiverRight(p)'
      BY <1>1, <1>5, <3>1, <3>2 DEF ProgramsInv, ReceiverRight
    <3>9. place # "run"
      BY <1>5
    <3> QED
      BY <3>1, <3>3, <3>6, <3>7, <3>8, <3>9, ProgramGoesOn
  <2> QED
    BY <2>1, <2>2
<1>6. CASE Cli!open(p)
  BY <1>5, <1>6 DEF Cli!open, Cli!DataPath, Cli!Path
<1>7. CASE p \in Sender /\ at[p] = "open_params" /\ Cli!Opens(p, "paramsFile", "Load")
  BY <1>5, <1>7 DEF Cli!Path
<1> QED
  BY <1>2, <1>4, <1>6, <1>7

\* A program closes its stream and goes on or ends.
LEMMA ProgramCloses ==
  ASSUME ProgramsInv, NEW p \in Cli!Program, NEW place,
         at' = [at EXCEPT ![p] = place], UNCHANGED <<files, had, mixed>>,
         params' = [params EXCEPT ![p] = params'[p]],
         loaded' = [loaded EXCEPT ![p] = loaded'[p]],
         stream' = [stream EXCEPT ![p] = Cli!Closed],
         p \in Sender => params'[p] = params[p] \/ params[p] = None,
         place \notin {"run", "Load", "getline", "create_sender_db", "LoadQuery"},
         p \in Sender => SenderRight(p)',
         p \in Receiver => ReceiverRight(p)'
  PROVE  ProgramsInv'
<1>1. at'[p] = place /\ stream'[p] = Cli!Closed
  BY DEF ProgramsInv, ProgramsFunctional
<1>2. StreamRight(p)'
  BY <1>1 DEF StreamRight
<1>3. stream' = [stream EXCEPT ![p] = stream'[p]]
  BY <1>1
<1>4. /\ stream'[p].stale \in BOOLEAN
      /\ stream'[p] = [lines |-> stream'[p].lines, read |-> stream'[p].read, stale |-> stream'[p].stale]
  <2> DEFINE c == [lines |-> <<>>, read |-> 0, stale |-> FALSE]
  <2>1. c.stale \in BOOLEAN /\ c = [lines |-> c.lines, read |-> c.read, stale |-> c.stale]
    OBVIOUS
  <2>2. stream'[p] = c
    BY <1>1 DEF Cli!Closed
  <2> HIDE DEF c
  <2> QED
    BY <2>1, <2>2
<1>5. place = "run" => \A o \in Sender : ~Cli!Serves(o)
  OBVIOUS
<1> HIDE DEF Cli!Closed
<1> QED
  BY <1>2, <1>3, <1>4, <1>5, ProgramGoesOn

\* The other steps of a sender.
LEMMA SenderKeeps ==
  ASSUME ProgramsInv, NEW s \in Sender,
         \/ Cli!throw_if_file_invalid(s) \/ Cli!try_load_sender_db(s) \/ Cli!Load(s)
         \/ Cli!create_sender_db(s) \/ Cli!run(s) \/ Cli!sigint_handler(s)
  PROVE  ProgramsInv'
<1> USE ProgramsAssumption
<1>1. s \in Cli!Program /\ s \notin Receiver
  BY DEF Cli!Program
<1>2. CASE Cli!throw_if_file_invalid(s) \/ Cli!try_load_sender_db(s)
  <2>1. PICK place \in {"try_load_sender_db", "build_psi_params", "ended"} :
          /\ at' = [at EXCEPT ![s] = place] /\ UNCHANGED <<files, had, mixed, params, loaded, stream>>
          /\ at[s] \in {"start_sender", "try_load_sender_db"}
    BY <1>2 DEF Cli!throw_if_file_invalid, Cli!try_load_sender_db, Cli!Goes, Cli!Ends, Cli!KeepsFiles
  <2>2. at'[s] = place
    BY <1>1, <2>1 DEF ProgramsInv, ProgramsFunctional
  <2>3. StreamRight(s)'
    BY <2>2 DEF StreamRight
  <2>4. SenderRight(s)'
    BY <2>1, <2>2 DEF ProgramsInv, SenderRight
  <2> QED
    BY <1>1, <2>1, <2>3, <2>4, ProgramMoves
<1>3. CASE Cli!Load(s)
  <2>1. /\ at[s] = "Load" /\ UNCHANGED <<files, had, mixed, loaded>>
        /\ stream' = [stream EXCEPT ![s] = Cli!Closed]
    BY <1>3 DEF Cli!Load, Cli!KeepsFiles
  <2>2. PICK text \in IF stream[s].stale THEN ParamsFile ELSE {stream[s].lines} :
          \/ text \in Valid /\ at' = [at EXCEPT ![s] = "load_db"] /\ params' = [params EXCEPT ![s] = text]
          \/ at' = [at EXCEPT ![s] = "ended"] /\ params' = params
    BY <1>3 DEF Cli!Load, Cli!Goes, Cli!Ends
  <2>3. /\ params' = [params EXCEPT ![s] = params'[s]] /\ loaded' = [loaded EXCEPT ![s] = loaded'[s]]
        /\ params[s] = None
    BY <1>1, <2>1, <2>2 DEF ProgramsInv, ProgramsFunctional, SenderRight
  <2>4. "paramsFile" \notin mixed[s] => text \in had["paramsFile"]
    BY <1>1, <2>1, <2>2 DEF ProgramsInv, StreamRight
  <2>5. \/ at'[s] = "load_db" /\ params'[s] = text /\ text \in Valid
        \/ at'[s] = "ended"
    BY <1>1, <2>2 DEF ProgramsInv, ProgramsFunctional
  <2>6. SenderRight(s)'
    BY <2>1, <2>4, <2>5 DEF SenderRight
  <2>7. PICK place \in {"load_db", "ended"} : at' = [at EXCEPT ![s] = place]
    BY <2>2
  <2> QED
    BY <1>1, <2>1, <2>3, <2>6, <2>7, ProgramCloses
<1>4. CASE Cli!create_sender_db(s)
  <2>1. /\ at[s] = "create_sender_db" /\ UNCHANGED <<files, had, mixed, params>>
        /\ stream' = [stream EXCEPT ![s] = Cli!Closed]
        /\ \/ loaded' = [loaded EXCEPT ![s] = Cli!Data(s).items] /\ at' = [at EXCEPT ![s] = "bind"]
           \/ loaded' = loaded /\ at' = [at EXCEPT ![s] = "ended"]
    BY <1>4 DEF Cli!create_sender_db, Cli!Closes, Cli!Goes, Cli!Ends, Cli!KeepsFiles
  <2> DEFINE set == Cli!Data(s).items
  <2>2. IF "dbFile" \in mixed[s] THEN set \subseteq Cli!Known("dbFile") ELSE Cli!IsWhole(set, "dbFile")
    BY <1>1, <2>1, DataIsFrom DEF Cli!DataPath
  <2> HIDE DEF set
  <2>3. \/ at'[s] = "bind" /\ loaded'[s] = set
        \/ at'[s] = "ended"
    BY <1>1, <2>1 DEF ProgramsInv, ProgramsFunctional, set
  <2>4. Cli!Known("dbFile")' = Cli!Known("dbFile")
    BY <2>1 DEF Cli!Known
  <2>5. at'[s] = "bind" => Cli!IsFrom(s, "dbFile")'
    BY <2>1, <2>2, <2>3, <2>4 DEF Cli!IsFrom, Cli!IsWhole
  <2>6. SenderRight(s)'
    BY <2>1, <2>3, <2>5 DEF ProgramsInv, SenderRight
  <2>7. PICK place \in {"bind", "ended"} : at' = [at EXCEPT ![s] = place]
    BY <2>1
  <2>8. params' = [params EXCEPT ![s] = params'[s]] /\ loaded' = [loaded EXCEPT ![s] = loaded'[s]]
    BY <1>1, <2>1 DEF ProgramsInv, ProgramsFunctional
  <2> QED
    BY <1>1, <2>1, <2>6, <2>7, <2>8, ProgramCloses
<1>5. CASE Cli!run(s)
  <2>1. PICK place \in {"run", "ended"} :
          /\ at[s] = "bind" /\ UNCHANGED <<files, had, mixed, params, loaded, stream>>
          /\ at' = [at EXCEPT ![s] = place]
          /\ place = "run" => \A o \in Sender : ~Cli!Serves(o)
    BY <1>5 DEF Cli!run, Cli!Goes, Cli!Ends, Cli!KeepsFiles
  <2>2. at'[s] = place
    BY <1>1, <2>1 DEF ProgramsInv, ProgramsFunctional
  <2>3. StreamRight(s)'
    BY <2>2 DEF StreamRight
  <2>4. Cli!IsFrom(s, "dbFile")' = Cli!IsFrom(s, "dbFile")
    BY <2>1 DEF Cli!IsFrom, Cli!IsWhole, Cli!Known
  <2>5. SenderRight(s)'
    BY <2>1, <2>2, <2>4 DEF ProgramsInv, SenderRight
  <2> QED
    BY <1>1, <2>1, <2>3, <2>5, ProgramMoves
<1>6. CASE Cli!sigint_handler(s)
  <2>1. /\ at' = [at EXCEPT ![s] = "ended"] /\ UNCHANGED <<files, had, mixed, params, loaded>>
        /\ stream' = [stream EXCEPT ![s] = Cli!Closed]
    BY <1>6 DEF Cli!sigint_handler, Cli!Ends, Cli!Closes, Cli!KeepsFiles
  <2>2. /\ params' = [params EXCEPT ![s] = params'[s]] /\ loaded' = [loaded EXCEPT ![s] = loaded'[s]]
        /\ at'[s] = "ended" /\ params'[s] = params[s]
    BY <1>1, <2>1 DEF ProgramsInv, ProgramsFunctional
  <2>3. SenderRight(s)'
    BY <2>2 DEF SenderRight
  <2> QED
    BY <1>1, <2>1, <2>2, <2>3, ProgramCloses
<1> QED
  BY <1>2, <1>3, <1>4, <1>5, <1>6

\* The other steps of a receiver.
LEMMA ReceiverKeeps ==
  ASSUME ProgramsInv, NEW r \in Receiver,
         Cli!connect(r) \/ Cli!RequestParams(r) \/ Cli!LoadQuery(r) \/ Cli!request_query(r)
  PROVE  ProgramsInv'
<1> USE ProgramsAssumption
<1>1. r \in Cli!Program /\ r \notin Sender
  BY DEF Cli!Program
<1>2. ASSUME NEW place \in {"RequestParams", "ended"},
             at' = [at EXCEPT ![r] = place], UNCHANGED <<files, had, mixed, params, loaded, stream>>
      PROVE  ProgramsInv'
  <2>1. at'[r] = place
    BY <1>1, <1>2 DEF ProgramsInv, ProgramsFunctional
  <2>2. StreamRight(r)' /\ ReceiverRight(r)'
    BY <2>1 DEF StreamRight, ReceiverRight
  <2> QED
    BY <1>1, <1>2, <2>2, ProgramMoves
<1>3. CASE Cli!connect(r) \/ Cli!request_query(r)
  BY <1>2, <1>3 DEF Cli!connect, Cli!request_query, Cli!Goes, Cli!Ends, Cli!KeepsFiles
<1>4. CASE Cli!RequestParams(r)
  <2>1. UNCHANGED <<files, had, mixed, loaded, stream>>
    BY <1>4 DEF Cli!RequestParams, Cli!KeepsFiles
  <2>2. CASE at' = [at EXCEPT ![r] = "ended"] /\ UNCHANGED params
    BY <1>2, <2>1, <2>2
  <2>3. CASE at' = [at EXCEPT ![r] = "load_db"]
             /\ \E s \in Sender : Cli!Serves(s) /\ params' = [params EXCEPT ![r] = params[s]]
    <3>1. PICK s \in Sender : Cli!Serves(s) /\ params' = [params EXCEPT ![r] = params[s]]
      BY <2>3
    <3>2. /\ params' = [params EXCEPT ![r] = params'[r]] /\ loaded' = [loaded EXCEPT ![r] = loaded'[r]]
          /\ stream' = [stream EXCEPT ![r] = stream'[r]]
          /\ stream'[r] = [lines |-> stream'[r].lines, read |-> stream'[r].read, stale |-> stream'[r].stale]
          /\ stream'[r].stale \in BOOLEAN
          /\ at'[r] = "load_db" /\ params'[r] = params[s] /\ params'[s] = params[s]
      BY <1>1, <2>1, <2>3, <3>1 DEF ProgramsInv, ProgramsFunctional, Cli!Program
    <3>3. params[s] # None
      BY <3>1 DEF ProgramsInv, SenderRight, Cli!Serves
    <3>4. StreamRight(r)'
      BY <3>2 DEF StreamRight
    <3>5. ReceiverRight(r)'
      BY <3>2, <3>3 DEF ReceiverRight
    <3> QED
      BY <1>1, <2>1, <2>3, <3>2, <3>4, <3>5, ProgramGoesOn
  <2> QED
    BY <1>4, <2>2, <2>3 DEF Cli!RequestParams, Cli!Goes, Cli!Ends
<1>5. CASE Cli!LoadQuery(r)
  <2>1. /\ at[r] = "LoadQuery" /\ UNCHANGED <<files, had, mixed, params>>
        /\ stream' = [stream EXCEPT ![r] = Cli!Closed]
        /\ \/ loaded' = [loaded EXCEPT ![r] = Cli!Data(r).items] /\ at' = [at EXCEPT ![r] = "request_query"]
           \/ loaded' = loaded /\ at' = [at EXCEPT ![r] = "ended"]
    BY <1>5 DEF Cli!LoadQuery, Cli!Closes, Cli!Goes, Cli!Ends, Cli!KeepsFiles
  <2> DEFINE set == Cli!Data(r).items
  <2>2. IF "queryFile" \in mixed[r] THEN set \subseteq Cli!Known("queryFile") ELSE Cli!IsWhole(set, "queryFile")
    BY <1>1, <2>1, DataIsFrom DEF Cli!DataPath
  <2> HIDE DEF set
  <2>3. \/ at'[r] = "request_query" /\ loaded'[r] = set
        \/ at'[r] = "ended"
    BY <1>1, <2>1 DEF ProgramsInv, ProgramsFunctional, set
  <2>4. Cli!Known("queryFile")' = Cli!Known("queryFile")
    BY <2>1 DEF Cli!Known
  <2>5. at'[r] = "request_query" => Cli!IsFrom(r, "queryFile")'
    BY <2>1, <2>2, <2>3, <2>4 DEF Cli!IsFrom, Cli!IsWhole
  <2>6. ReceiverRight(r)'
    BY <2>1, <2>3, <2>5 DEF ProgramsInv, ReceiverRight
  <2>7. PICK place \in {"request_query", "ended"} : at' = [at EXCEPT ![r] = place]
    BY <2>1
  <2>8. params' = [params EXCEPT ![r] = params'[r]] /\ loaded' = [loaded EXCEPT ![r] = loaded'[r]]
    BY <1>1, <2>1 DEF ProgramsInv, ProgramsFunctional
  <2> QED
    BY <1>1, <2>1, <2>6, <2>7, <2>8, ProgramCloses
<1> QED
  BY <1>3, <1>4, <1>5

LEMMA NextPrograms == ProgramsInv /\ [Cli!Next]_(Cli!vars) => ProgramsInv'
<1> SUFFICES ASSUME ProgramsInv, [Cli!Next]_(Cli!vars) PROVE ProgramsInv'
  OBVIOUS
<1> USE ProgramsAssumption
<1>1. CASE UNCHANGED Cli!vars
  <2>1. UNCHANGED <<files, had, at, params, loaded, stream, mixed>>
    BY <1>1 DEF Cli!vars
  <2>2. FilesRight' /\ ProgramsFunctional' /\ OneServes'
    BY <2>1 DEF ProgramsInv, FilesRight, ProgramsFunctional, OneServes, Cli!Serves, Cli!Content
  <2>3. \A p \in Cli!Program :
          StreamRight(p)' /\ (p \in Sender => SenderRight(p)') /\ (p \in Receiver => ReceiverRight(p)')
    BY <2>1, StandsStill
  <2> QED
    BY <2>2, <2>3 DEF ProgramsInv, Cli!Program
<1>2. ASSUME NEW path \in Cli!Path, NEW content \in Cli!Content(path) \cup {Absent},
             Cli!Change(path, content)
      PROVE  ProgramsInv'
  BY <1>2, ChangeKeeps
<1>3. ASSUME NEW p \in Cli!Program, Cli!parse_args(p)
      PROVE  ProgramsInv'
  <2>1. /\ at[p] = "main" /\ UNCHANGED <<files, had, mixed, params, loaded, stream>>
        /\ \/ at' = [at EXCEPT ![p] = IF p \in Sender THEN "start_sender" ELSE "connect"]
           \/ at' = [at EXCEPT ![p] = "ended"]
    BY <1>3 DEF Cli!parse_args, Cli!Goes, Cli!Ends, Cli!KeepsFiles
  <2>2. PICK place \in {IF p \in Sender THEN "start_sender" ELSE "connect", "ended"} :
          at' = [at EXCEPT ![p] = place]
    BY <2>1
  <2>3. at'[p] = place
    BY <2>2 DEF ProgramsInv, ProgramsFunctional
  <2>4. StreamRight(p)'
    BY <2>3 DEF StreamRight
  <2>5. p \in Sender => SenderRight(p)'
    BY <2>1, <2>3 DEF ProgramsInv, SenderRight
  <2>6. p \in Receiver => ReceiverRight(p)'
    BY <2>1, <2>3 DEF ReceiverRight
  <2>7. place # "run"
    OBVIOUS
  <2> QED
    BY <2>1, <2>2, <2>4, <2>5, <2>6, <2>7, ProgramMoves
<1>4. ASSUME NEW p \in Cli!Program, Cli!load_db(p) \/ Cli!open(p)
      PROVE  ProgramsInv'
  BY <1>4, ChecksAndOpens
<1>5. ASSUME NEW p \in Cli!Program, Cli!getline(p)
      PROVE  ProgramsInv'
  BY <1>5, GetlineKeeps
<1>6. ASSUME NEW s \in Sender, Cli!build_psi_params(s)
      PROVE  ProgramsInv'
  BY <1>6, ChecksAndOpens DEF Cli!Program
<1> QED
  BY <1>1, <1>2, <1>3, <1>4, <1>5, <1>6, SenderKeeps, ReceiverKeeps DEF Cli!Next


\* Whatever becomes of the files while the programs start: what is served or
\* asked is the whole content that a file had, or, if it changed while it was
\* being read, made of nothing but its contents and lines torn between them;
\* parameters are valid, and one sender serves (start_sender, remote_query).
THEOREM WholeFilesServed == Cli!Spec => []ServesWholeFile
<1>1. Cli!Init => ProgramsInv
  BY InitPrograms
<1>2. ProgramsInv /\ [Cli!Next]_(Cli!vars) => ProgramsInv'
  BY NextPrograms
<1>3. ProgramsInv => ServesWholeFile
  BY DEF ProgramsInv, SenderRight, ReceiverRight, OneServes, ServesWholeFile, Cli!ServesWholeFile, Cli!Serves
<1> QED
  BY <1>1, <1>2, <1>3, PTL DEF Cli!Spec

----------------------------------------------------------------------------
(***************************************************************************)
(* The log.                                                                *)
(***************************************************************************)

LogPlace ==
  {"parsing", "file", "level", "idle", "configuring", "console", "rolling_file", "configured",
   "logging", "unborn"}

BegunLine == [number : Nat, level : Int]
WrittenLine == [thread : Logging!Thread, number : Nat]

LogTypes ==
  /\ log_at \in [Logging!Thread -> LogPlace]
  /\ line \in [Logging!Thread -> BegunLine]
  /\ disable_console \in BOOLEAN /\ log_file \in BOOLEAN /\ configured \in BOOLEAN
  /\ log_level \in Int
  /\ written \in [Logging!Sink -> Seq(WrittenLine)]

ConsoleAppender == IF disable_console THEN {} ELSE {<<"console", Main>>}
FileAppender == IF log_file THEN {<<"file", Main>>} ELSE {}

\* Until log4cplus is configured there is the main thread only, and the
\* line that makes it configure is its first.
BeforeConfigured ==
  configured = FALSE =>
    /\ \A w \in Worker : log_at[w] = "unborn"
    /\ log_at[Main] \notin {"logging", "unborn"}
    /\ log_at[Main] \in {"parsing", "file", "level", "idle"} <=> line[Main].number = 0
    /\ log_at[Main] = "rolling_file" => appenders = ConsoleAppender
    /\ log_at[Main] = "configured" => appenders = ConsoleAppender \cup FileAppender
    /\ log_at[Main] \notin {"rolling_file", "configured"} => appenders = {}
    /\ \A s \in Logging!Sink : written[s] = <<>>

\* From then on nobody configures it, and every sink has one appender.
AfterConfigured ==
  configured = TRUE =>
    /\ \A t \in Logging!Thread : log_at[t] \in {"idle", "logging", "unborn"}
    /\ log_at[Main] # "unborn" /\ line[Main].number > 0
    /\ appenders = ConsoleAppender \cup FileAppender

UnbornSilent == \A t \in Logging!Thread : log_at[t] = "unborn" => line[t].number = 0

\* What a sink holds of thread t.
WrittenOf(s, t) ==
  /\ \A i \in DOMAIN written[s] : written[s][i].thread = t =>
       /\ written[s][i].number <= line[t].number
       /\ log_at[t] = "logging" => written[s][i].number < line[t].number
  /\ \A i, j \in DOMAIN written[s] : written[s][i].thread = t /\ written[s][j].thread = t /\ i < j =>
       written[s][i].number < written[s][j].number
  /\ Logging!HasLogged(t) /\ Logging!Wanted(s) =>
       ((line[t].level >= log_level) <=>
          \E i \in DOMAIN written[s] : written[s][i].thread = t /\ written[s][i].number = line[t].number)

\* The inductive invariant.
LogInv ==
  /\ LogTypes
  /\ BeforeConfigured
  /\ AfterConfigured
  /\ UnbornSilent
  /\ \A s \in Logging!Sink : ~Logging!Wanted(s) => written[s] = <<>>
  /\ \A s \in Logging!Sink, t \in Logging!Thread : WrittenOf(s, t)

LEMMA InitLog == Logging!Init => LogInv
<1> SUFFICES ASSUME Logging!Init PROVE LogInv
  OBVIOUS
<1> USE ThreadsAssumption
<1>1. /\ \A t \in Logging!Thread : line[t].number = 0 /\ line[t].level = 5
      /\ log_at = [t \in Logging!Thread |-> IF t = Main THEN "parsing" ELSE "unborn"]
      /\ log_level = 5 /\ appenders = {}
      /\ configured = FALSE /\ disable_console = FALSE /\ log_file = FALSE
  BY DEF Logging!Init, Logging!Level
<1>2. \A s \in Logging!Sink : written[s] = <<>> /\ DOMAIN written[s] = {}
  BY DEF Logging!Init
<1>3. LogTypes
  <2>1. log_at \in [Logging!Thread -> LogPlace]
    BY <1>1 DEF LogPlace
  <2>2. line \in [Logging!Thread -> BegunLine]
    BY DEF Logging!Init, BegunLine, Logging!Level
  <2>3. written \in [Logging!Sink -> Seq(WrittenLine)]
    BY DEF Logging!Init
  <2>4. disable_console \in BOOLEAN /\ log_file \in BOOLEAN /\ configured \in BOOLEAN
    BY <1>1
  <2>5. log_level \in Int
    BY <1>1
  <2> QED
    BY <2>1, <2>2, <2>3, <2>4, <2>5 DEF LogTypes
<1>4. BeforeConfigured /\ AfterConfigured
  BY <1>1, <1>2 DEF BeforeConfigured, AfterConfigured, Logging!Thread
<1>5. \A s \in Logging!Sink, t \in Logging!Thread : WrittenOf(s, t)
  BY <1>1, <1>2 DEF WrittenOf, Logging!HasLogged
<1> QED
  BY <1>1, <1>2, <1>3, <1>4, <1>5 DEF LogInv, UnbornSilent

\* Before it is configured nothing is written and nobody has logged.
NothingYet == LogTypes /\ BeforeConfigured /\ UnbornSilent /\ configured = FALSE

LEMMA NothingWritten == NothingYet => LogInv
<1> SUFFICES ASSUME NothingYet PROVE LogInv
  OBVIOUS
<1> USE DEF NothingYet
<1>1. \A s \in Logging!Sink : written[s] = <<>> /\ DOMAIN written[s] = {}
  BY DEF BeforeConfigured
<1>2. \A t \in Logging!Thread : ~Logging!HasLogged(t)
  BY DEF BeforeConfigured, UnbornSilent, Logging!HasLogged, Logging!Thread
<1>3. \A s \in Logging!Sink, t \in Logging!Thread : WrittenOf(s, t)
  BY <1>1, <1>2 DEF WrittenOf
<1> QED
  BY <1>1, <1>3 DEF LogInv, AfterConfigured

\* parse_args, and the steps of the configuration.
LEMMA ConfiguringStep ==
  ASSUME LogInv,
         \/ \E b \in BOOLEAN : Logging!SetConsoleDisabled(b) \/ Logging!SetLogFile(b)
         \/ \E level \in {Logging!Level[name] : name \in DOMAIN Logging!Level} :
              Logging!SetLogLevel(level)
         \/ \E t \in Logging!Thread :
              Logging!Configure(t) \/ Logging!AddConsole(t) \/ Logging!AddFile(t)
  PROVE  LogInv'
<1> USE ThreadsAssumption
<1>1. Main \in Logging!Thread /\ log_at \in [Logging!Thread -> LogPlace]
  BY DEF LogInv, LogTypes, BegunLine, WrittenLine, Logging!Thread
<1>2. PICK place \in {"file", "level", "idle", "console", "rolling_file", "configured"} :
        /\ log_at' = [log_at EXCEPT ![Main] = place] /\ UNCHANGED <<line, written>>
        /\ configured = FALSE /\ configured' = FALSE
        /\ disable_console' \in BOOLEAN /\ log_file' \in BOOLEAN /\ log_level' \in Int
        /\ place \in {"file", "level", "idle"} <=> log_at[Main] \in {"parsing", "file", "level"}
        /\ log_at[Main] \in {"parsing", "file", "level", "configuring", "console", "rolling_file"}
        /\ place = "rolling_file" => appenders' = ConsoleAppender'
        /\ place = "configured" => appenders' = (ConsoleAppender \cup FileAppender)'
        /\ place \notin {"rolling_file", "configured"} => appenders' = {}
  <2>1. ASSUME NEW b \in BOOLEAN, Logging!SetConsoleDisabled(b) \/ Logging!SetLogFile(b)
        PROVE  /\ log_at[Main] \in {"parsing", "file"} /\ UNCHANGED <<line, written, appenders, log_level>>
               /\ log_at' = [log_at EXCEPT ![Main] = IF log_at[Main] = "parsing" THEN "file" ELSE "level"]
               /\ configured' = FALSE /\ disable_console' \in BOOLEAN /\ log_file' \in BOOLEAN
    BY <2>1 DEF Logging!SetConsoleDisabled, Logging!SetLogFile, Logging!Goes, LogInv, LogTypes
  <2>2. ASSUME NEW level \in {Logging!Level[name] : name \in DOMAIN Logging!Level},
               Logging!SetLogLevel(level)
        PROVE  /\ log_at[Main] = "level" /\ log_at' = [log_at EXCEPT ![Main] = "idle"]
               /\ UNCHANGED <<line, written, appenders, disable_console, log_file, configured>>
               /\ log_level' \in Int
    <3>1. level \in Int
      BY DEF Logging!Level
    <3> QED
      BY <2>2, <3>1 DEF Logging!SetLogLevel, Logging!Goes
  <2>3. log_at[Main] \in {"parsing", "file", "level"} => configured = FALSE /\ appenders = {}
    BY <1>1 DEF LogInv, BeforeConfigured, AfterConfigured
  <2>4. ASSUME NEW t \in Logging!Thread,
               Logging!Configure(t) \/ Logging!AddConsole(t) \/ Logging!AddFile(t)
        PROVE  /\ t = Main /\ configured = FALSE
               /\ UNCHANGED <<line, written, disable_console, log_file, configured, log_level>>
               /\ \/ /\ log_at[Main] = "configuring" /\ log_at' = [log_at EXCEPT ![Main] = "console"]
                     /\ appenders' = {}
                  \/ /\ log_at[Main] = "console" /\ log_at' = [log_at EXCEPT ![Main] = "rolling_file"]
                     /\ appenders' = ConsoleAppender
                  \/ /\ log_at[Main] = "rolling_file" /\ log_at' = [log_at EXCEPT ![Main] = "configured"]
                     /\ appenders' = ConsoleAppender \cup FileAppender
    <3>1. log_at[t] \in {"configuring", "console", "rolling_file"}
      BY <2>4 DEF Logging!Configure, Logging!AddConsole, Logging!AddFile
    <3>2. configured = FALSE /\ t = Main
      BY <3>1 DEF LogInv, UnbornSilent, BeforeConfigured, AfterConfigured, Logging!Thread
    <3>3. /\ log_at[Main] = "console" => appenders = {}
          /\ log_at[Main] = "rolling_file" => appenders = ConsoleAppender
      BY <3>2 DEF LogInv, BeforeConfigured
    <3>4. CASE Logging!Configure(t)
      BY <3>2, <3>4 DEF Logging!Configure, Logging!Goes
    <3>5. CASE Logging!AddConsole(t)
      BY <3>2, <3>3, <3>5 DEF Logging!AddConsole, Logging!Goes, ConsoleAppender
    <3>6. CASE Logging!AddFile(t)
      BY <3>2, <3>3, <3>6 DEF Logging!AddFile, Logging!Goes, ConsoleAppender, FileAppender
    <3> QED
      BY <2>4, <3>4, <3>5, <3>6
  <2>5. disable_console \in BOOLEAN /\ log_file \in BOOLEAN /\ log_level \in Int
    BY DEF LogInv, LogTypes, BegunLine, WrittenLine
  <2>6. CASE \E b \in BOOLEAN : Logging!SetConsoleDisabled(b) \/ Logging!SetLogFile(b)
    BY <2>1, <2>3, <2>5, <2>6
  <2>7. CASE \E level \in {Logging!Level[name] : name \in DOMAIN Logging!Level} :
               Logging!SetLogLevel(level)
    BY <2>2, <2>3, <2>5, <2>7
  <2>8. CASE \E t \in Logging!Thread :
               Logging!Configure(t) \/ Logging!AddConsole(t) \/ Logging!AddFile(t)
    <3>1. PICK t \in Logging!Thread :
            Logging!Configure(t) \/ Logging!AddConsole(t) \/ Logging!AddFile(t)
      BY <2>8
    <3>2. /\ configured = FALSE /\ configured' = configured
          /\ disable_console' \in BOOLEAN /\ log_file' \in BOOLEAN /\ log_level' \in Int
          /\ ConsoleAppender' = ConsoleAppender /\ FileAppender' = FileAppender
          /\ UNCHANGED <<line, written>>
      <4>1. UNCHANGED <<line, written, disable_console, log_file, configured, log_level>> /\ configured = FALSE
        BY <2>4, <3>1
      <4>2. ConsoleAppender' = ConsoleAppender /\ FileAppender' = FileAppender
        BY <4>1 DEF ConsoleAppender, FileAppender
      <4> QED
        BY <2>5, <4>1, <4>2
    <3> QED
      BY <2>4, <3>1, <3>2
  <2> QED
    BY <2>6, <2>7, <2>8
<1>3. log_at'[Main] = place /\ \A t \in Logging!Thread \ {Main} : log_at'[t] = log_at[t]
  BY <1>1, <1>2
<1>4. LogTypes'
  BY <1>1, <1>2 DEF LogInv, LogTypes, BegunLine, WrittenLine, LogPlace
<1>5. BeforeConfigured'
  BY <1>1, <1>2, <1>3 DEF LogInv, BeforeConfigured, Logging!Thread
<1>6. UnbornSilent'
  BY <1>2, <1>3 DEF LogInv, UnbornSilent
<1>7. configured' = FALSE
  BY <1>2
<1> QED
  <2>1. NothingYet'
    BY <1>4, <1>5, <1>6, <1>7 DEF NothingYet
  <2> QED
    BY <2>1, NothingWritten, PTL

\* The threads of the pool are started, which have logged nothing.
LEMMA StartStep ==
  ASSUME LogInv, Logging!StartWorkers
  PROVE  LogInv'
<1> USE ThreadsAssumption
<1>1. /\ log_at[Main] = "idle" /\ line[Main].number > 0
      /\ log_at' = [t \in Logging!Thread |-> IF t = Main THEN log_at[t] ELSE "idle"]
      /\ UNCHANGED <<line, disable_console, log_file, configured, log_level, appenders, written>>
      /\ \A w \in Worker : log_at[w] = "unborn"
  BY DEF Logging!StartWorkers, Logging!HasLogged
<1>2. configured = TRUE
  BY <1>1 DEF LogInv, BeforeConfigured, LogTypes
<1>3. log_at'[Main] = "idle" /\ \A w \in Worker : log_at'[w] = "idle" /\ line'[w].number = 0
  BY <1>1 DEF LogInv, UnbornSilent, Logging!Thread
<1>4. LogTypes'
  BY <1>1 DEF LogInv, LogTypes, BegunLine, WrittenLine, LogPlace
<1>5. BeforeConfigured' /\ AfterConfigured'
  BY <1>1, <1>2, <1>3 DEF LogInv, UnbornSilent, BeforeConfigured, AfterConfigured, Logging!Thread, ConsoleAppender, FileAppender
<1>6. ASSUME NEW s \in Logging!Sink, NEW t \in Logging!Thread
      PROVE  WrittenOf(s, t)'
  <2>1. WrittenOf(s, t)
    BY DEF LogInv
  <2>2. Logging!HasLogged(t)' => Logging!HasLogged(t)
    BY <1>1, <1>3 DEF Logging!HasLogged, Logging!Thread
  <2>3. log_at'[t] # "logging"
    BY <1>3 DEF UnbornSilent, Logging!Thread
  <2> QED
    BY <1>1, <2>1, <2>2, <2>3 DEF WrittenOf, Logging!Wanted
<1>7. UnbornSilent'
  BY <1>3 DEF UnbornSilent, Logging!Thread
<1>8. \A s \in Logging!Sink : ~Logging!Wanted(s)' => written'[s] = <<>>
  BY <1>1 DEF LogInv, Logging!Wanted
<1> QED
  BY <1>4, <1>5, <1>6, <1>7, <1>8 DEF LogInv

\* A thread begins a line.
LEMMA BeginLine ==
  ASSUME LogInv, NEW t \in Logging!Thread, NEW level \in Logging!LineLevel,
         Logging!ConfigureIfNeeded(t, level)
  PROVE  LogInv'
<1> USE ThreadsAssumption
<1>1. /\ log_at[t] = "idle"
      /\ line' = [line EXCEPT ![t] = [number |-> @.number + 1, level |-> level]]
      /\ log_at' = [log_at EXCEPT ![t] = IF configured THEN "logging" ELSE "configuring"]
      /\ UNCHANGED <<disable_console, log_file, configured, log_level, appenders, written>>
  BY DEF Logging!ConfigureIfNeeded, Logging!Goes
<1>2. level \in Int
  BY DEF Logging!LineLevel, Logging!Level
<1>3. /\ line'[t].number = line[t].number + 1 /\ line'[t].number \in Nat /\ line'[t].level = level
      /\ log_at'[t] = (IF configured THEN "logging" ELSE "configuring")
      /\ \A u \in Logging!Thread \ {t} : line'[u] = line[u] /\ log_at'[u] = log_at[u]
  BY <1>1 DEF LogInv, LogTypes, BegunLine, WrittenLine
<1>4. LogTypes'
  <2>1. log_at' \in [Logging!Thread -> LogPlace]
    BY <1>1 DEF LogInv, LogTypes, BegunLine, WrittenLine, LogPlace
  <2>2. line' \in [Logging!Thread -> BegunLine]
    BY <1>1, <1>2 DEF LogInv, LogTypes, BegunLine, WrittenLine
  <2> QED
    BY <1>1, <2>1, <2>2 DEF LogInv, LogTypes, BegunLine, WrittenLine
<1>5. UnbornSilent'
  BY <1>3 DEF LogInv, UnbornSilent
<1>6. CASE configured = FALSE
  <2>1. t = Main /\ line[Main].number = 0
    BY <1>1, <1>6 DEF LogInv, BeforeConfigured, Logging!Thread
  <2>2. BeforeConfigured'
    BY <1>1, <1>3, <1>6, <2>1 DEF LogInv, BeforeConfigured, Logging!Thread
  <2>3. configured' = FALSE
    BY <1>1, <1>6
  <2>4. NothingYet'
    BY <1>4, <1>5, <2>2, <2>3 DEF NothingYet
  <2> QED
    BY <2>4, NothingWritten, PTL
<1>7. CASE configured = TRUE
  <2>1. BeforeConfigured' /\ AfterConfigured'
    <3>1. line'[Main].number > 0
      BY <1>3, <1>7 DEF LogInv, LogTypes, BegunLine, WrittenLine, AfterConfigured, Logging!Thread
    <3> QED
      BY <1>1, <1>3, <1>7, <3>1
      DEF LogInv, UnbornSilent, BeforeConfigured, AfterConfigured, Logging!Thread, ConsoleAppender, FileAppender
  <2>2. ASSUME NEW s \in Logging!Sink, NEW u \in Logging!Thread
        PROVE  WrittenOf(s, u)'
    <3>1. WrittenOf(s, u) /\ line[u].number \in Nat
      BY DEF LogInv, LogTypes, BegunLine, WrittenLine
    <3>2. CASE u # t
      BY <1>1, <1>3, <3>1, <3>2 DEF WrittenOf, Logging!Wanted, Logging!HasLogged
    <3>3. CASE u = t
      <4>1. ~Logging!HasLogged(t)'
        BY <1>3, <1>7 DEF Logging!HasLogged
      <4>2. ASSUME NEW i \in DOMAIN written[s], written[s][i].thread = t
            PROVE  written[s][i].number < line'[t].number /\ written[s][i].number <= line'[t].number
        <5>1. written[s] \in Seq(WrittenLine)
          BY DEF LogInv, LogTypes
        <5>2. written[s][i] \in WrittenLine
          BY <5>1
        <5>3. written[s][i].number \in Nat
          BY <5>2 DEF WrittenLine
        <5>4. written[s][i].number <= line[t].number
          BY <3>1, <3>3, <4>2 DEF WrittenOf
        <5> QED
          BY <1>3, <3>1, <3>3, <5>3, <5>4
      <4> QED
        BY <1>1, <3>1, <3>3, <4>1, <4>2 DEF WrittenOf
    <3> QED
      BY <3>2, <3>3
  <2>3. \A s \in Logging!Sink : ~Logging!Wanted(s)' => written'[s] = <<>>
    BY <1>1 DEF LogInv, Logging!Wanted
  <2> QED
    BY <1>4, <1>5, <2>1, <2>2, <2>3 DEF LogInv
<1>8. configured \in BOOLEAN
  BY DEF LogInv, LogTypes
<1> QED
  BY <1>6, <1>7, <1>8

\* The configuration is done: main goes on with its line, its first.
LEMMA ConfiguredStep ==
  ASSUME LogInv, NEW t \in Logging!Thread, Logging!Configured(t)
  PROVE  LogInv'
<1> USE ThreadsAssumption
<1>1. /\ log_at[t] = "configured" /\ log_at' = [log_at EXCEPT ![t] = "logging"] /\ configured' = TRUE
      /\ UNCHANGED <<line, disable_console, log_file, log_level, appenders, written>>
  BY DEF Logging!Configured, Logging!Goes
<1>2. configured = FALSE /\ t = Main
  BY <1>1 DEF LogInv, UnbornSilent, BeforeConfigured, AfterConfigured, Logging!Thread
<1>3. log_at'[Main] = "logging" /\ \A w \in Worker : log_at'[w] = "unborn" /\ line'[w].number = 0
  BY <1>1, <1>2 DEF LogInv, LogTypes, BegunLine, WrittenLine, UnbornSilent, BeforeConfigured, Logging!Thread
<1>4. LogTypes'
  BY <1>1 DEF LogInv, LogTypes, BegunLine, WrittenLine, LogPlace
<1>5. \A s \in Logging!Sink : written'[s] = <<>> /\ DOMAIN written'[s] = {}
  BY <1>1, <1>2 DEF LogInv, BeforeConfigured
<1>6. \A u \in Logging!Thread : ~Logging!HasLogged(u)'
  BY <1>3 DEF Logging!HasLogged, Logging!Thread
<1>7. \A s \in Logging!Sink, u \in Logging!Thread : WrittenOf(s, u)'
  BY <1>5, <1>6 DEF WrittenOf
<1>8. BeforeConfigured' /\ AfterConfigured'
  <2>1. line[Main].number > 0
    BY <1>1, <1>2 DEF LogInv, LogTypes, BegunLine, WrittenLine, UnbornSilent, BeforeConfigured, Logging!Thread
  <2>2. appenders = ConsoleAppender \cup FileAppender
    BY <1>1, <1>2 DEF LogInv, BeforeConfigured
  <2> QED
    BY <1>1, <1>3, <2>1, <2>2
    DEF BeforeConfigured, AfterConfigured, Logging!Thread, ConsoleAppender, FileAppender
<1>9. UnbornSilent'
  BY <1>3 DEF UnbornSilent, Logging!Thread
<1> QED
  BY <1>4, <1>5, <1>7, <1>8, <1>9 DEF LogInv

\* A line below the level is not written.
LEMMA TooLowStep ==
  ASSUME LogInv, NEW t \in Logging!Thread, Logging!TooLow(t)
  PROVE  LogInv'
<1> USE ThreadsAssumption
<1>1. /\ log_at[t] = "logging" /\ log_at' = [log_at EXCEPT ![t] = "idle"] /\ log_level > line[t].level
      /\ UNCHANGED <<line, disable_console, log_file, configured, log_level, appenders, written>>
  BY DEF Logging!TooLow, Logging!Goes
<1>2. log_at'[t] = "idle" /\ \A u \in Logging!Thread \ {t} : log_at'[u] = log_at[u]
  BY <1>1 DEF LogInv, LogTypes
<1>3. configured = TRUE
  BY <1>1 DEF LogInv, LogTypes, BeforeConfigured, Logging!Thread
<1>4. LogTypes'
  BY <1>1 DEF LogInv, LogTypes, LogPlace
<1>5. BeforeConfigured' /\ AfterConfigured'
  BY <1>1, <1>2, <1>3
  DEF LogInv, BeforeConfigured, AfterConfigured, Logging!Thread, ConsoleAppender, FileAppender
<1>6. ASSUME NEW s \in Logging!Sink, NEW u \in Logging!Thread
      PROVE  WrittenOf(s, u)'
  <2>1. WrittenOf(s, u)
    BY DEF LogInv
  <2>2. CASE u # t
    BY <1>1, <1>2, <2>1, <2>2 DEF WrittenOf, Logging!Wanted, Logging!HasLogged
  <2>3. CASE u = t
    <3>1. ASSUME NEW i \in DOMAIN written[s], written[s][i].thread = t
          PROVE  written[s][i].number # line[t].number
      <4>1. written[s] \in Seq(WrittenLine)
        BY DEF LogInv, LogTypes
      <4>2. written[s][i] \in WrittenLine
        BY <4>1
      <4>3. written[s][i].number \in Nat
        BY <4>2 DEF WrittenLine
      <4>4. written[s][i].number < line[t].number /\ line[t].number \in Nat
        BY <1>1, <2>1, <2>3, <3>1 DEF WrittenOf, LogInv, LogTypes, BegunLine
      <4> QED
        BY <4>3, <4>4
    <3>2. ~(line[t].level >= log_level)
      BY <1>1 DEF LogInv, LogTypes, BegunLine
    <3> QED
      BY <1>1, <1>2, <2>1, <2>3, <3>1, <3>2 DEF WrittenOf
  <2> QED
    BY <2>2, <2>3
<1>7. UnbornSilent'
  BY <1>1, <1>2 DEF LogInv, UnbornSilent
<1>8. \A s \in Logging!Sink : ~Logging!Wanted(s)' => written'[s] = <<>>
  BY <1>1 DEF LogInv, Logging!Wanted
<1> QED
  BY <1>4, <1>5, <1>6, <1>7, <1>8 DEF LogInv

\* A sink that is wanted has one appender.
LEMMA OneAppender ==
  ASSUME NEW s \in Logging!Sink
  PROVE  Logging!Cardinality({a \in ConsoleAppender \cup FileAppender : a[1] = s}) =
           IF Logging!Wanted(s) THEN 1 ELSE 0
<1> DEFINE mine == {a \in ConsoleAppender \cup FileAppender : a[1] = s}
<1>1. mine = IF Logging!Wanted(s) THEN {<<s, Main>>} ELSE {}
  BY DEF Logging!Sink, Logging!Wanted, ConsoleAppender, FileAppender
<1>2. Logging!Cardinality(mine) = Cardinality(mine)
  BY Zenon DEF Logging!Cardinality, Cardinality
<1> QED
  BY <1>1, <1>2, FS_EmptySet, FS_Singleton

\* One line at the end of what a sink holds.
LEMMA OneMore ==
  ASSUME NEW S, NEW q \in Seq(S), NEW e \in S
  PROVE  /\ q \o [i \in 1 .. 1 |-> e] \in Seq(S)
         /\ DOMAIN (q \o [i \in 1 .. 1 |-> e]) = 1 .. Len(q) + 1
         /\ (q \o [i \in 1 .. 1 |-> e])[Len(q) + 1] = e
         /\ \A i \in 1 .. Len(q) : (q \o [j \in 1 .. 1 |-> e])[i] = q[i]
<1>1. [i \in 1 .. 1 |-> e] \in Seq(S) /\ Len([i \in 1 .. 1 |-> e]) = 1
  OBVIOUS
<1> QED
  BY <1>1

LEMMA NoMore ==
  ASSUME NEW e
  PROVE  <<>> \o [i \in 1 .. 0 |-> e] = <<>>
OBVIOUS

\* A line is written to the sinks that are wanted.
LEMMA DoLogStep ==
  ASSUME LogInv, NEW t \in Logging!Thread, Logging!DoLog(t)
  PROVE  LogInv'
<1> USE ThreadsAssumption
<1> DEFINE w == [thread |-> t, number |-> line[t].number]
           n(s) == Logging!Cardinality({a \in appenders : a[1] = s})
<1>1. /\ log_at[t] = "logging" /\ log_at' = [log_at EXCEPT ![t] = "idle"] /\ log_level <= line[t].level
      /\ UNCHANGED <<line, disable_console, log_file, configured, log_level, appenders>>
      /\ written' = [s \in Logging!Sink |-> written[s] \o [i \in 1 .. n(s) |-> w]]
  BY DEF Logging!DoLog, Logging!Goes
<1>2. log_at'[t] = "idle" /\ \A u \in Logging!Thread \ {t} : log_at'[u] = log_at[u]
  BY <1>1 DEF LogInv, LogTypes
<1>3. configured = TRUE
  BY <1>1 DEF LogInv, LogTypes, BeforeConfigured, Logging!Thread
<1>4. \A s \in Logging!Sink : n(s) = IF Logging!Wanted(s) THEN 1 ELSE 0
  BY <1>3, OneAppender DEF LogInv, AfterConfigured
<1> HIDE DEF n
<1>5. w \in WrittenLine /\ w.thread = t /\ w.number = line[t].number /\ line[t].number \in Nat
  BY DEF LogInv, LogTypes, BegunLine, WrittenLine
<1> HIDE DEF w
<1>6. ASSUME NEW s \in Logging!Sink, ~Logging!Wanted(s)
      PROVE  written'[s] = <<>>
  <2>1. written[s] = <<>> /\ n(s) = 0
    BY <1>4, <1>6 DEF LogInv
  <2> QED
    BY <1>1, <2>1, NoMore
<1>7. ASSUME NEW s \in Logging!Sink, Logging!Wanted(s)
      PROVE  /\ written'[s] \in Seq(WrittenLine) /\ DOMAIN written'[s] = 1 .. Len(written[s]) + 1
             /\ written'[s][Len(written[s]) + 1] = w
             /\ \A i \in 1 .. Len(written[s]) : written'[s][i] = written[s][i]
  <2>1. written'[s] = written[s] \o [i \in 1 .. 1 |-> w]
    BY <1>1, <1>4, <1>7
  <2>2. written[s] \in Seq(WrittenLine)
    BY DEF LogInv, LogTypes
  <2> QED
    BY <1>5, <2>1, <2>2, OneMore
<1>8. LogTypes'
  <2>1. log_at' \in [Logging!Thread -> LogPlace]
    BY <1>1 DEF LogInv, LogTypes, LogPlace
  <2>2. ASSUME NEW s \in Logging!Sink PROVE written'[s] \in Seq(WrittenLine)
    <3>1. CASE Logging!Wanted(s)
      BY <1>7, <3>1
    <3>2. CASE ~Logging!Wanted(s)
      <4>1. written'[s] = <<>> /\ <<>> \in Seq(WrittenLine)
        BY <1>6, <3>2
      <4> QED
        BY <4>1, Zenon
    <3> QED
      BY <3>1, <3>2
  <2>3. written' \in [Logging!Sink -> Seq(WrittenLine)]
    BY <1>1, <2>2
  <2> QED
    BY <1>1, <2>1, <2>3 DEF LogInv, LogTypes
<1>9. BeforeConfigured' /\ AfterConfigured'
  BY <1>1, <1>2, <1>3
  DEF LogInv, BeforeConfigured, AfterConfigured, Logging!Thread, ConsoleAppender, FileAppender
<1>10. ASSUME NEW s \in Logging!Sink, NEW u \in Logging!Thread
       PROVE  WrittenOf(s, u)'
  <2>1. WrittenOf(s, u)
    BY DEF LogInv
  <2>2. CASE ~Logging!Wanted(s)
    <3>1. DOMAIN written'[s] = {}
      BY <1>6, <2>2
    <3>2. ~Logging!Wanted(s)'
      BY <1>1, <2>2 DEF Logging!Wanted
    <3> QED
      BY <3>1, <3>2 DEF WrittenOf
  <2>3. CASE Logging!Wanted(s)
    <3> DEFINE last == Len(written[s]) + 1
    <3>1. /\ DOMAIN written'[s] = 1 .. last /\ written'[s][last] = w /\ last \in Nat \ {0}
          /\ DOMAIN written[s] = 1 .. last - 1 /\ \A i \in 1 .. last - 1 : written'[s][i] = written[s][i]
      <4>1. written[s] \in Seq(WrittenLine)
        BY DEF LogInv, LogTypes
      <4> QED
        BY <1>7, <2>3, <4>1
    <3>2. \A i \in 1 .. last - 1 : written[s][i].number \in Nat
      <4>1. written[s] \in Seq(WrittenLine)
        BY DEF LogInv, LogTypes
      <4>2. \A i \in 1 .. last - 1 : written[s][i] \in WrittenLine
        BY <3>1, <4>1
      <4> QED
        BY <4>2 DEF WrittenLine
    <3> HIDE DEF last
    <3>3. CASE u # t
      <4>1. \A i \in 1 .. last : written'[s][i].thread = u => i \in 1 .. last - 1
        BY <1>5, <3>1, <3>3
      <4>2. line'[u] = line[u] /\ log_at'[u] = log_at[u] /\ log_level' = log_level
        BY <1>1, <1>2, <3>3
      <4>3. Logging!HasLogged(u)' <=> Logging!HasLogged(u)
        BY <4>2 DEF Logging!HasLogged
      <4>4. \A i \in 1 .. last - 1 : i \in 1 .. last
        BY <3>1
      <4>5. (\E i \in 1 .. last : written'[s][i].thread = u /\ written'[s][i].number = line'[u].number)
              <=> (\E i \in 1 .. last - 1 : written[s][i].thread = u /\ written[s][i].number = line[u].number)
        BY <3>1, <4>1, <4>2, <4>4
      <4>6. \A i, j \in 1 .. last : written'[s][i].thread = u /\ written'[s][j].thread = u /\ i < j =>
              written'[s][i].number < written'[s][j].number
        BY <2>1, <3>1, <4>1 DEF WrittenOf
      <4>7. \A i \in 1 .. last : written'[s][i].thread = u =>
              /\ written'[s][i].number <= line'[u].number
              /\ log_at'[u] = "logging" => written'[s][i].number < line'[u].number
        BY <2>1, <3>1, <4>1, <4>2 DEF WrittenOf
      <4> QED
        BY <2>1, <2>3, <3>1, <4>2, <4>3, <4>5, <4>6, <4>7 DEF WrittenOf
    <3>4. CASE u = t
      <4>1. \A i \in 1 .. last - 1 : written[s][i].thread = t => written[s][i].number < line[t].number
        BY <1>1, <2>1, <3>1, <3>4 DEF WrittenOf
      <4>2. \A i \in 1 .. last : written'[s][i].thread = t => written'[s][i].number <= line'[t].number
        <5>1. ASSUME NEW i \in 1 .. last, written'[s][i].thread = t
              PROVE  written'[s][i].number <= line[t].number
          <6>1. CASE i = last
            BY <1>5, <3>1, <6>1
          <6>2. CASE i # last
            <7>1. i \in 1 .. last - 1
              BY <3>1, <6>2
            <7> QED
              <8>1. written'[s][i] = written[s][i] /\ written[s][i].number \in Nat
                BY <3>1, <3>2, <7>1
              <8>2. written[s][i].number < line[t].number
                BY <4>1, <5>1, <7>1, <8>1
              <8> QED
                BY <1>5, <8>1, <8>2
          <6> QED
            BY <6>1, <6>2
        <5> QED
          BY <1>1, <5>1
      <4>3. ASSUME NEW i \in 1 .. last, NEW j \in 1 .. last, i < j,
                   written'[s][i].thread = t, written'[s][j].thread = t
            PROVE  written'[s][i].number < written'[s][j].number
        <5>1. i \in 1 .. last - 1
          BY <3>1, <4>3
        <5>2. CASE j = last
          BY <1>5, <3>1, <4>1, <4>3, <5>1, <5>2
        <5>3. CASE j # last
          <6>1. j \in 1 .. last - 1
            BY <3>1, <5>3
          <6> QED
            BY <2>1, <3>1, <3>4, <4>3, <5>1, <6>1 DEF WrittenOf
        <5> QED
          BY <5>2, <5>3
      <4>4. line'[t].level >= log_level'
        BY <1>1 DEF LogInv, LogTypes, BegunLine
      <4>5. last \in 1 .. last /\ written'[s][last].thread = t /\ written'[s][last].number = line'[t].number
        <5>1. last \in 1 .. last
          BY <3>1
        <5> QED
          BY <1>1, <1>5, <3>1, <5>1
      <4> QED
        BY <1>2, <3>1, <3>4, <4>2, <4>3, <4>4, <4>5 DEF WrittenOf
    <3> QED
      BY <3>3, <3>4
  <2> QED
    BY <2>2, <2>3
<1>11. UnbornSilent'
  BY <1>1, <1>2 DEF LogInv, UnbornSilent
<1>12. \A s \in Logging!Sink : ~Logging!Wanted(s)' => written'[s] = <<>>
  BY <1>1, <1>6 DEF Logging!Wanted
<1> QED
  BY <1>8, <1>9, <1>10, <1>11, <1>12 DEF LogInv

LEMMA NextLog == LogInv /\ [Logging!Next]_(Logging!vars) => LogInv'
<1> SUFFICES ASSUME LogInv, [Logging!Next]_(Logging!vars) PROVE LogInv'
  OBVIOUS
<1>1. CASE UNCHANGED Logging!vars
  <2>1. UNCHANGED <<log_at, line, disable_console, log_file, configured, log_level, appenders, written>>
    BY <1>1 DEF Logging!vars
  <2>2. LogTypes' /\ UnbornSilent'
    BY <2>1 DEF LogInv, LogTypes, UnbornSilent
  <2>3. BeforeConfigured' /\ AfterConfigured'
    BY <2>1 DEF LogInv, BeforeConfigured, AfterConfigured, ConsoleAppender, FileAppender
  <2>4. \A s \in Logging!Sink, t \in Logging!Thread : WrittenOf(s, t)'
    <3> SUFFICES ASSUME NEW s \in Logging!Sink, NEW t \in Logging!Thread PROVE WrittenOf(s, t)'
      OBVIOUS
    <3>1. (Logging!HasLogged(t) <=> Logging!HasLogged(t)') /\ (Logging!Wanted(s) <=> Logging!Wanted(s)')
      BY <2>1 DEF Logging!HasLogged, Logging!Wanted
    <3>2. WrittenOf(s, t)
      BY DEF LogInv
    <3> QED
      BY <2>1, <3>1, <3>2 DEF WrittenOf
  <2>5. \A s \in Logging!Sink : ~Logging!Wanted(s)' => written'[s] = <<>>
    BY <2>1 DEF LogInv, Logging!Wanted
  <2> QED
    BY <2>2, <2>3, <2>4, <2>5 DEF LogInv
<1>2. CASE Logging!Next
  BY <1>2, ConfiguringStep, StartStep, BeginLine, ConfiguredStep, TooLowStep, DoLogStep DEF Logging!Next
<1> QED
  BY <1>1, <1>2

LEMMA WrittenOnce == LogInv => LinesOnce
<1> SUFFICES ASSUME LogInv PROVE LinesOnce
  OBVIOUS
<1>1. \A t \in Logging!Thread : log_at[t] # "thrown"
  BY DEF LogInv, LogTypes, LogPlace
<1>2. ASSUME NEW s \in Logging!Sink, NEW t \in Logging!Thread
      PROVE  LET mine == Logging!Lines(s, t)
             IN /\ \A i, j \in mine : i < j => written[s][i].number < written[s][j].number
                /\ ~Logging!Wanted(s) => mine = {}
                /\ Logging!HasLogged(t) /\ Logging!Wanted(s) =>
                     ((line[t].level >= log_level) <=>
                       \E i \in mine : written[s][i].number = line[t].number /\ \A j \in mine : j <= i)
  <2> DEFINE mine == Logging!Lines(s, t)
  <2>1. WrittenOf(s, t) /\ written[s] \in Seq(WrittenLine) /\ line[t].number \in Nat
    BY DEF LogInv, LogTypes, BegunLine
  <2>2. \A i \in mine : i \in DOMAIN written[s] /\ i \in Nat /\ written[s][i].thread = t
    BY <2>1 DEF Logging!Lines
  <2>3. \A i, j \in mine : i < j => written[s][i].number < written[s][j].number
    BY <2>1, <2>2 DEF WrittenOf
  <2>4. ~Logging!Wanted(s) => mine = {}
    BY <2>2 DEF LogInv
  <2>5. \A i \in mine : written[s][i].number \in Nat /\ written[s][i].number <= line[t].number
    <3>1. \A i \in DOMAIN written[s] : written[s][i] \in WrittenLine
      BY <2>1
    <3> QED
      BY <2>1, <2>2, <3>1 DEF WrittenOf, WrittenLine
  <2>6. ASSUME NEW i \in mine, written[s][i].number = line[t].number, NEW j \in mine
        PROVE  j <= i
    BY <2>1, <2>2, <2>3, <2>5, <2>6
  <2>7. (\E i \in DOMAIN written[s] : written[s][i].thread = t /\ written[s][i].number = line[t].number)
          <=> (\E i \in mine : written[s][i].number = line[t].number /\ \A j \in mine : j <= i)
    BY <2>2, <2>6 DEF Logging!Lines
  <2> HIDE DEF mine
  <2>8. Logging!HasLogged(t) /\ Logging!Wanted(s) =>
          ((line[t].level >= log_level) <=>
            \E i \in mine : written[s][i].number = line[t].number /\ \A j \in mine : j <= i)
    BY <2>1, <2>7 DEF WrittenOf
  <2> QED
    BY <2>3, <2>4, <2>8 DEF mine
<1> QED
  BY <1>1, <1>2 DEF LinesOnce, Logging!LinesOnce

\* The lines of every thread, however they interleave, are in every sink
\* once and in order, and no call throws, although nothing is locked: all
\* configuration is done before the second thread is there (Log::DoLog,
\* Log::ConfigureIfNeeded).
THEOREM LinesAreOnce == Logging!Spec => []LinesOnce
<1>1. Logging!Init => LogInv
  BY InitLog
<1>2. LogInv /\ [Logging!Next]_(Logging!vars) => LogInv'
  BY NextLog
<1>3. LogInv => LinesOnce
  BY WrittenOnce
<1> QED
  BY <1>1, <1>2, <1>3, PTL DEF Logging!Spec

----------------------------------------------------------------------------
(***************************************************************************)
(* The items of a file.                                                    *)
(***************************************************************************)
Str == Seq(Nat)

\* The least element of a set of natural numbers, from the theorem of the
\* library that a well-founded relation has minimal elements.
LEMMA LeastNumber ==
  ASSUME NEW T, T \subseteq Nat, T # {}
  PROVE  \E x \in T : \A y \in T : x <= y
<1> DEFINE Below == {pair \in Nat \X Nat : pair[1] < pair[2]}
<1>1. IsWellFoundedOn(Below, Nat)
  <2>1. Below = OpToRel(<, Nat)
    BY Zenon DEF OpToRel
  <2> QED
    BY ONLY <2>1, NatLessThanWellFounded, Zenon
<1>2. PICK x \in T : \A y \in T : <<y, x>> \notin Below
  <2> HIDE DEF Below
  <2> QED
    BY <1>1, WFMin
<1>3. ASSUME NEW y \in T, y < x
      PROVE  FALSE
  <2>1. <<y, x>> \in Nat \X Nat /\ <<y, x>>[1] < <<y, x>>[2]
    BY <1>3
  <2> QED
    BY <1>2, <2>1
<1> QED
  BY <1>2, <1>3

LEMMA MinOf ==
  ASSUME NEW T, T \subseteq Nat, T # {}
  PROVE  Reader!Min(T) \in T /\ \A y \in T : Reader!Min(T) <= y
BY LeastNumber DEF Reader!Min

LEMMA MaxOf ==
  ASSUME NEW N \in Nat, NEW T, T \subseteq 0 .. N, T # {}
  PROVE  Reader!Max(T) \in T /\ \A y \in T : y <= Reader!Max(T)
<1> DEFINE Below == {N - x : x \in T}
<1>1. Below \subseteq Nat /\ Below # {} /\ \A y \in T : N - y \in Below
  <2>1. \A y \in T : y \in Int /\ N - y \in Nat
    OBVIOUS
  <2>2. \A y \in T : N - y \in Below
    OBVIOUS
  <2> QED
    BY <2>1, <2>2
<1>2. PICK b \in Below : \A c \in Below : b <= c
  <2> HIDE DEF Below
  <2> QED
    BY <1>1, LeastNumber
<1>3. PICK x \in T : b = N - x
  OBVIOUS
<1>4. \A y \in T : y <= x
  <2>1. \A y \in T : b <= N - y
    BY <1>1, <1>2
  <2> QED
    BY <1>3, <2>1
<1> QED
  BY <1>4 DEF Reader!Max

LEMMA TrimmedIsString ==
  ASSUME NEW s \in Str
  PROVE  Reader!Trimmed(s) \in Str
<1> DEFINE Kept == {i \in DOMAIN s : s[i] \notin Reader!Space}
<1>1. CASE Kept = {}
  BY <1>1 DEF Reader!Trimmed, Str
<1>2. CASE Kept # {}
  <2>1. Kept \subseteq 0 .. Len(s) /\ Kept \subseteq Nat /\ Len(s) \in Nat /\ Kept \subseteq 1 .. Len(s)
    BY DEF Str
  <2>2. Reader!Trimmed(s) = SubSeq(s, Reader!Min(Kept), Reader!Max(Kept))
    BY <1>2 DEF Reader!Trimmed
  <2> HIDE DEF Kept
  <2>3. Reader!Min(Kept) \in 1 .. Len(s) /\ Reader!Max(Kept) \in 1 .. Len(s)
    BY <1>2, <2>1, MinOf, MaxOf
  <2>4. \A i \in Reader!Min(Kept) .. Reader!Max(Kept) : s[i] \in Nat
    BY <2>1, <2>3 DEF Str
  <2> QED
    BY <2>2, <2>3, <2>4, SubSeqProperties DEF Str
<1> QED
  BY <1>1, <1>2

LEMMA FieldsAreStrings ==
  ASSUME NEW s \in Str
  PROVE  Reader!ItemField(s) \in Str /\ Reader!LabelField(s) \in Str
<1> DEFINE Ends == {i \in DOMAIN s : s[i] = Reader!Comma} \cup {Len(s) + 1}
           c == Reader!FirstComma(s)
<1>1. c \in 1 .. Len(s) + 1 /\ Len(s) \in Nat
  <2>1. Ends \subseteq 1 .. Len(s) + 1 /\ Ends \subseteq Nat /\ Ends # {} /\ Len(s) \in Nat
    BY DEF Str
  <2>2. c = Reader!Min(Ends)
    BY DEF Reader!FirstComma
  <2> HIDE DEF Ends, c
  <2> QED
    BY <2>1, <2>2, MinOf
<1> HIDE DEF c
<1>2. ASSUME NEW m \in Nat \ {0}, NEW n \in 0 .. Len(s)
      PROVE  SubSeq(s, m, n) \in Str
  <2>1. \A i \in m .. n : s[i] \in Nat
    BY <1>1 DEF Str
  <2> QED
    BY <1>1, <2>1, SubSeqProperties DEF Str
<1>3. Reader!ItemField(s) = Reader!Trimmed(SubSeq(s, 1, c - 1))
      /\ Reader!LabelField(s) = Reader!Trimmed(SubSeq(s, c + 1, Len(s)))
  BY DEF Reader!ItemField, Reader!LabelField, c
<1>4. SubSeq(s, 1, c - 1) \in Str /\ SubSeq(s, c + 1, Len(s)) \in Str
  BY <1>1, <1>2
<1> QED
  BY <1>3, <1>4, TrimmedIsString

----------------------------------------------------------------------------
(***************************************************************************)
(* The bits of an item.                                                    *)
(***************************************************************************)
LEMMA BytesAre ==
  ASSUME NEW c \in Nat, NEW stray \in StrayByte
  PROVE  Reader!ByteOf(c, stray) \in 0 .. 255
<1>1. DOMAIN Reader!charToByte = 1 .. 60 /\ \A i \in 1 .. 60 : Reader!charToByte[i] \in 0 .. 255
  BY DEF Reader!charToByte
<1> QED
  BY <1>1, FilesAssumption DEF Reader!ByteOf

\* charToByte gives every letter a byte of its own.
LEMMA LettersDiffer ==
  ASSUME NEW c \in Reader!Letter, NEW d \in Reader!Letter, NEW x \in StrayByte, NEW y \in StrayByte
  PROVE  Reader!ByteOf(c, x) = Reader!ByteOf(d, y) <=> c = d
<1> DEFINE Index == (1 .. 26) \cup (33 .. 58)
<1>1. DOMAIN Reader!charToByte = 1 .. 60
  BY DEF Reader!charToByte
<1>2. \A i, j \in Index : Reader!charToByte[i] = Reader!charToByte[j] => i = j
  BY DEF Reader!charToByte
<1>3. /\ c - 64 \in Index /\ d - 64 \in Index /\ c \in Int /\ d \in Int
      /\ c - 65 + 1 = c - 64 /\ d - 65 + 1 = d - 64 /\ Index \subseteq 1 .. 60
  BY DEF Reader!Letter
<1>4. Reader!ByteOf(c, x) = Reader!charToByte[c - 64] /\ Reader!ByteOf(d, y) = Reader!charToByte[d - 64]
  BY <1>1, <1>3 DEF Reader!ByteOf, Reader!A
<1> HIDE DEF Index
<1>5. c - 64 = d - 64 => c = d
  BY <1>3
<1> QED
  BY <1>2, <1>3, <1>4, <1>5

\* A byte is determined by its bits.
LEMMA BitsOfByte ==
  ASSUME NEW x \in 0 .. 255, NEW y \in 0 .. 255, \A b \in 1 .. 8 : Reader!Bit(x, b) = Reader!Bit(y, b)
  PROVE  x = y
<1>1. /\ (x \div 1) % 2 = (y \div 1) % 2 /\ (x \div 2) % 2 = (y \div 2) % 2
      /\ (x \div 4) % 2 = (y \div 4) % 2 /\ (x \div 8) % 2 = (y \div 8) % 2
      /\ (x \div 16) % 2 = (y \div 16) % 2 /\ (x \div 32) % 2 = (y \div 32) % 2
      /\ (x \div 64) % 2 = (y \div 64) % 2 /\ (x \div 128) % 2 = (y \div 128) % 2
  BY DEF Reader!Bit, Reader!Weight
<1>2. x \div 128 = y \div 128
  <2>1. \A z \in 0 .. 255 : z \div 128 = (z \div 128) % 2
    OBVIOUS
  <2> QED
    BY <1>1, <2>1
<1>3. x \div 64 = y \div 64
  <2>1. \A z \in 0 .. 255 : z \div 64 = 2 * (z \div 128) + ((z \div 64) % 2)
    OBVIOUS
  <2> QED
    BY <1>1, <1>2, <2>1
<1>4. x \div 32 = y \div 32
  <2>1. \A z \in 0 .. 255 : z \div 32 = 2 * (z \div 64) + ((z \div 32) % 2)
    OBVIOUS
  <2> QED
    BY <1>1, <1>3, <2>1
<1>5. x \div 16 = y \div 16
  <2>1. \A z \in 0 .. 255 : z \div 16 = 2 * (z \div 32) + ((z \div 16) % 2)
    OBVIOUS
  <2> QED
    BY <1>1, <1>4, <2>1
<1>6. x \div 8 = y \div 8
  <2>1. \A z \in 0 .. 255 : z \div 8 = 2 * (z \div 16) + ((z \div 8) % 2)
    OBVIOUS
  <2> QED
    BY <1>1, <1>5, <2>1
<1>7. x \div 4 = y \div 4
  <2>1. \A z \in 0 .. 255 : z \div 4 = 2 * (z \div 8) + ((z \div 4) % 2)
    OBVIOUS
  <2> QED
    BY <1>1, <1>6, <2>1
<1>8. x \div 2 = y \div 2
  <2>1. \A z \in 0 .. 255 : z \div 2 = 2 * (z \div 4) + ((z \div 2) % 2)
    OBVIOUS
  <2> QED
    BY <1>1, <1>7, <2>1
<1>9. \A z \in 0 .. 255 : z = 2 * (z \div 2) + ((z \div 1) % 2)
  OBVIOUS
<1> QED
  BY <1>1, <1>8, <1>9

\* Every character has eight bits, one after the other.
LEMMA BitsOfString ==
  ASSUME NEW s \in Str, NEW stray \in StrayByte
  PROVE  /\ Reader!Bits(s, stray) \in Seq(0 .. 1)
         /\ Len(Reader!Bits(s, stray)) = 8 * Len(s)
         /\ \A i \in 1 .. Len(s), b \in 1 .. 8 :
              /\ 8 * (i - 1) + b \in 1 .. 8 * Len(s)
              /\ Reader!Bits(s, stray)[8 * (i - 1) + b] = Reader!Bit(Reader!ByteOf(s[i], stray), b)
<1>1. Len(s) \in Nat /\ \A i \in 1 .. Len(s) : s[i] \in Nat
  BY DEF Str
<1>2. Reader!Bits(s, stray) =
        [k \in 1 .. 8 * Len(s) |-> Reader!Bit(Reader!ByteOf(s[(k - 1) \div 8 + 1], stray), ((k - 1) % 8) + 1)]
  BY DEF Reader!Bits
<1>3. ASSUME NEW k \in 1 .. 8 * Len(s)
      PROVE  Reader!Bit(Reader!ByteOf(s[(k - 1) \div 8 + 1], stray), ((k - 1) % 8) + 1) \in 0 .. 1
  <2>1. (k - 1) \div 8 + 1 \in 1 .. Len(s) /\ ((k - 1) % 8) + 1 \in 1 .. 8
    BY <1>1
  <2>2. \A x \in 0 .. 255, b \in 1 .. 8 : Reader!Bit(x, b) \in 0 .. 1
    <3>1. DOMAIN Reader!Weight = 1 .. 8 /\ \A b \in 1 .. 8 : Reader!Weight[b] \in 1 .. 128
      BY DEF Reader!Weight
    <3>2. \A n \in Int : n % 2 \in 0 .. 1
      OBVIOUS
    <3>3. \A x \in 0 .. 255, w \in 1 .. 128 : x \div w \in Int
      OBVIOUS
    <3>4. \A x \in 0 .. 255, b \in 1 .. 8 : x \div Reader!Weight[b] \in Int
      BY <3>1, <3>3
    <3> QED
      BY <3>2, <3>4 DEF Reader!Bit
  <2> QED
    BY <1>1, <2>1, <2>2, BytesAre
<1>4. ASSUME NEW i \in 1 .. Len(s), NEW b \in 1 .. 8
      PROVE  /\ 8 * (i - 1) + b \in 1 .. 8 * Len(s)
             /\ (8 * (i - 1) + b - 1) \div 8 + 1 = i /\ ((8 * (i - 1) + b - 1) % 8) + 1 = b
  BY <1>1
<1>5. Reader!Bits(s, stray) \in [1 .. 8 * Len(s) -> 0 .. 1] /\ 8 * Len(s) \in Nat
  <2>1. Reader!Bits(s, stray) \in [1 .. 8 * Len(s) -> 0 .. 1]
    BY <1>2, <1>3, Zenon
  <2>2. 8 * Len(s) \in Nat
    BY <1>1
  <2> QED
    BY <2>1, <2>2
<1>6. Reader!Bits(s, stray) \in Seq(0 .. 1) /\ Len(Reader!Bits(s, stray)) = 8 * Len(s)
  BY <1>5
<1>7. ASSUME NEW i \in 1 .. Len(s), NEW b \in 1 .. 8
      PROVE  Reader!Bits(s, stray)[8 * (i - 1) + b] = Reader!Bit(Reader!ByteOf(s[i], stray), b)
  <2> DEFINE k == 8 * (i - 1) + b
  <2>1. k \in 1 .. 8 * Len(s) /\ (k - 1) \div 8 + 1 = i /\ ((k - 1) % 8) + 1 = b
    <3>1. k = 8 * (i - 1) + b /\ k \in Int /\ i \in Int /\ b \in 1 .. 8
      BY <1>1
    <3>2. k \in 1 .. 8 * Len(s)
      BY <1>4
    <3>3. \A q \in Int, r \in 0 .. 7 : (8 * q + r) \div 8 = q /\ (8 * q + r) % 8 = r
      OBVIOUS
    <3>4. (8 * (i - 1) + (b - 1)) \div 8 = i - 1 /\ (8 * (i - 1) + (b - 1)) % 8 = b - 1
      <4>1. i - 1 \in Int /\ b - 1 \in 0 .. 7
        BY <3>1
      <4> QED
        BY ONLY <3>3, <4>1, Zenon
    <3>5. k - 1 = 8 * (i - 1) + (b - 1)
      BY <3>1
    <3> HIDE DEF k
    <3> QED
      BY <3>1, <3>2, <3>4, <3>5
  <2> HIDE DEF k
  <2>2. Reader!Bits(s, stray)[k] =
          Reader!Bit(Reader!ByteOf(s[(k - 1) \div 8 + 1], stray), ((k - 1) % 8) + 1)
    BY <1>2, <2>1
  <2> QED
    BY <2>1, <2>2 DEF k
<1> QED
  BY <1>4, <1>6, <1>7

\* Strings of letters have the same bits exactly if they are the same.
LEMMA SameBits ==
  ASSUME NEW s \in Str, NEW t \in Str, Reader!OfLetters(s), Reader!OfLetters(t),
         NEW x \in StrayByte, NEW y \in StrayByte
  PROVE  Reader!Bits(s, x) = Reader!Bits(t, y) <=> s = t
<1>1. /\ Len(s) \in Nat /\ Len(t) \in Nat
      /\ \A i \in 1 .. Len(s) : s[i] \in Nat /\ s[i] \in Reader!Letter
      /\ \A i \in 1 .. Len(t) : t[i] \in Nat /\ t[i] \in Reader!Letter
  BY DEF Str, Reader!OfLetters
<1>2. ASSUME Reader!Bits(s, x) = Reader!Bits(t, y)
      PROVE  s = t
  <2>1. Len(s) = Len(t)
    <3>1. 8 * Len(s) = 8 * Len(t)
      BY <1>2, BitsOfString
    <3> QED
      BY <1>1, <3>1
  <2>2. ASSUME NEW i \in 1 .. Len(s)
        PROVE  s[i] = t[i]
    <3>1. i \in 1 .. Len(t)
      BY <2>1
    <3>2. \A b \in 1 .. 8 : Reader!Bits(s, x)[8 * (i - 1) + b] = Reader!Bit(Reader!ByteOf(s[i], x), b)
      BY BitsOfString
    <3>3. \A b \in 1 .. 8 : Reader!Bits(t, y)[8 * (i - 1) + b] = Reader!Bit(Reader!ByteOf(t[i], y), b)
      BY <3>1, BitsOfString
    <3>4. \A b \in 1 .. 8 : Reader!Bit(Reader!ByteOf(s[i], x), b) = Reader!Bit(Reader!ByteOf(t[i], y), b)
      BY <1>2, <3>2, <3>3, Zenon
    <3>5. Reader!ByteOf(s[i], x) \in 0 .. 255 /\ Reader!ByteOf(t[i], y) \in 0 .. 255
      BY <1>1, <3>1, BytesAre
    <3>6. Reader!ByteOf(s[i], x) = Reader!ByteOf(t[i], y)
      BY <3>4, <3>5, BitsOfByte, Zenon
    <3> QED
      BY <1>1, <3>1, <3>6, LettersDiffer
  <2> QED
    BY <2>1, <2>2, SeqEqual DEF Str
<1>3. ASSUME s = t
      PROVE  Reader!Bits(s, x) = Reader!Bits(s, y)
  <2>1. \A i \in 1 .. Len(s) : Reader!ByteOf(s[i], x) = Reader!ByteOf(s[i], y)
    BY <1>1, LettersDiffer
  <2>2. \A k \in 1 .. 8 * Len(s) : (k - 1) \div 8 + 1 \in 1 .. Len(s)
    BY <1>1
  <2>3. \A k \in 1 .. 8 * Len(s) :
          Reader!Bit(Reader!ByteOf(s[(k - 1) \div 8 + 1], x), ((k - 1) % 8) + 1)
            = Reader!Bit(Reader!ByteOf(s[(k - 1) \div 8 + 1], y), ((k - 1) % 8) + 1)
    BY <2>1, <2>2, Zenon
  <2> QED
    BY <2>3, Zenon DEF Reader!Bits
<1> QED
  BY <1>2, <1>3

----------------------------------------------------------------------------
(***************************************************************************)
(* The invariant of the reader: every item is a new one, assigned the      *)
(* string that orig_items has at its place.                                *)
(***************************************************************************)
Reading == [item : [raw_val : Str, value : Seq(0 .. 1), hashed : Str], label : Str]

ReaderInv ==
  /\ lines \in Seq(Str) /\ orig_items \in Seq(Str) /\ result \in Seq(Reading)
  /\ Len(result) = Len(orig_items)
  /\ \A n \in 1 .. Len(result) : \E stray \in StrayByte :
       result[n].item = Reader!Assigned(Reader!NewItem, orig_items[n], stray)

LEMMA AssignedNew ==
  ASSUME NEW s \in Str, NEW stray \in StrayByte
  PROVE  Reader!Assigned(Reader!NewItem, s, stray) =
           [raw_val |-> s, value |-> Reader!Bits(s, stray), hashed |-> s]
<1>1. <<>> \o s = s
  BY ConcatEmptySeq DEF Str
<1>2. <<>> \o Reader!Bits(s, stray) = Reader!Bits(s, stray)
  BY BitsOfString, ConcatEmptySeq
<1> QED
  BY <1>1, <1>2 DEF Reader!Assigned, Reader!NewItem

LEMMA InitReader == Reader!Init => ReaderInv
<1> SUFFICES ASSUME Reader!Init PROVE ReaderInv
  OBVIOUS
<1>1. lines \in Seq(Str) /\ orig_items = <<>> /\ result = <<>>
  BY FilesAssumption DEF Reader!Init, Str
<1>2. orig_items \in Seq(Str) /\ result \in Seq(Reading)
  BY <1>1
<1>3. Len(result) = 0 /\ Len(orig_items) = 0
  BY <1>1
<1> QED
  BY <1>1, <1>2, <1>3 DEF ReaderInv

LEMMA PushStep ==
  ASSUME ReaderInv, NEW s \in Str, Reader!Push(s), lines' \in Seq(Str)
  PROVE  ReaderInv'
<1> DEFINE field == Reader!ItemField(s)
<1>1. field \in Str /\ Reader!LabelField(s) \in Str
  BY FieldsAreStrings
<1>2. PICK stray \in StrayByte :
        /\ result' = Append(result,
             [item |-> Reader!Assigned(Reader!NewItem, field, stray), label |-> Reader!LabelField(s)])
        /\ orig_items' = Append(orig_items, field)
  BY DEF Reader!Push
<1> HIDE DEF field
<1> DEFINE reading ==
      [item |-> Reader!Assigned(Reader!NewItem, field, stray), label |-> Reader!LabelField(s)]
<1>3. reading \in Reading
  <2>1. Reader!Bits(field, stray) \in Seq(0 .. 1)
    BY <1>1, BitsOfString
  <2>2. reading = [item |-> [raw_val |-> field, value |-> Reader!Bits(field, stray), hashed |-> field],
                   label |-> Reader!LabelField(s)]
    BY <1>1, AssignedNew
  <2> HIDE DEF reading
  <2> QED
    BY <1>1, <2>1, <2>2 DEF Reading
<1>4. reading.item = Reader!Assigned(Reader!NewItem, field, stray)
  OBVIOUS
<1> HIDE DEF reading
<1>5. result \in Seq(Reading) /\ orig_items \in Seq(Str) /\ Len(result) = Len(orig_items)
      /\ Len(result) \in Nat
  BY DEF ReaderInv
<1>6. /\ result' \in Seq(Reading) /\ Len(result') = Len(result) + 1
      /\ result'[Len(result) + 1] = reading
      /\ \A n \in 1 .. Len(result) : result'[n] = result[n]
  BY <1>2, <1>3, <1>5, AppendProperties DEF reading
<1>7. /\ orig_items' \in Seq(Str) /\ Len(orig_items') = Len(result) + 1
      /\ orig_items'[Len(result) + 1] = field
      /\ \A n \in 1 .. Len(result) : orig_items'[n] = orig_items[n]
  BY <1>1, <1>2, <1>5, AppendProperties
<1>8. ASSUME NEW n \in 1 .. Len(result')
      PROVE  \E other \in StrayByte :
               result'[n].item = Reader!Assigned(Reader!NewItem, orig_items'[n], other)
  <2>1. CASE n = Len(result) + 1
    BY <1>2, <1>4, <1>6, <1>7, <2>1
  <2>2. CASE n # Len(result) + 1
    <3>1. n \in 1 .. Len(result)
      BY <1>5, <1>6, <2>2
    <3>2. result'[n] = result[n] /\ orig_items'[n] = orig_items[n]
      BY <1>6, <1>7, <3>1
    <3>3. \E other \in StrayByte :
            result[n].item = Reader!Assigned(Reader!NewItem, orig_items[n], other)
      BY <3>1 DEF ReaderInv
    <3> QED
      BY <3>2, <3>3
  <2> QED
    BY <2>1, <2>2
<1> QED
  BY <1>6, <1>7, <1>8 DEF ReaderInv

LEMMA NextReader == ReaderInv /\ [Reader!Next]_(Reader!vars) => ReaderInv'
<1> SUFFICES ASSUME ReaderInv, [Reader!Next]_(Reader!vars) PROVE ReaderInv'
  OBVIOUS
<1>1. lines \in Seq(Str)
  BY DEF ReaderInv
<1>2. ASSUME lines # <<>>
      PROVE  Head(lines) \in Str /\ Tail(lines) \in Seq(Str)
  BY <1>1, <1>2, HeadTailProperties
<1>3. CASE Reader!FirstLine \/ Reader!ItemLine
  <2>1. lines # <<>> /\ Reader!Push(Head(lines)) /\ lines' = Tail(lines)
    BY <1>3 DEF Reader!FirstLine, Reader!ItemLine, Reader!NextHasItem
  <2> QED
    BY <1>2, <2>1, PushStep
<1>4. CASE Reader!SkipLine
  <2>1. lines # <<>> /\ lines' = Tail(lines) /\ UNCHANGED <<result, orig_items>>
    BY <1>4 DEF Reader!SkipLine
  <2> QED
    BY <1>2, <2>1 DEF ReaderInv
<1>5. CASE Reader!NothingToRead \/ Reader!EndOfFile \/ UNCHANGED Reader!vars
  <2>1. UNCHANGED <<lines, result, orig_items>>
    BY <1>5 DEF Reader!NothingToRead, Reader!EndOfFile, Reader!vars
  <2> QED
    BY <2>1 DEF ReaderInv
<1> QED
  BY <1>3, <1>4, <1>5 DEF Reader!Next

LEMMA ItemsStand == ReaderInv => ItemsStandForLines
<1> SUFFICES ASSUME ReaderInv PROVE ItemsStandForLines
  OBVIOUS
<1>1. /\ result \in Seq(Reading) /\ orig_items \in Seq(Str)
      /\ Len(result) = Len(orig_items) /\ Len(result) \in Nat
      /\ DOMAIN result = 1 .. Len(result)
  BY DEF ReaderInv
<1>2. ASSUME NEW n \in DOMAIN result
      PROVE  orig_items[n] \in Str /\ \E stray \in StrayByte :
               result[n].item = [raw_val |-> orig_items[n],
                                 value |-> Reader!Bits(orig_items[n], stray),
                                 hashed |-> orig_items[n]]
  <2>1. orig_items[n] \in Str
    BY <1>1
  <2>2. PICK stray \in StrayByte :
          result[n].item = Reader!Assigned(Reader!NewItem, orig_items[n], stray)
    BY <1>1 DEF ReaderInv
  <2> QED
    BY <2>1, <2>2, AssignedNew
<1>3. ASSUME NEW n \in DOMAIN result
      PROVE  LET item == result[n].item
             IN /\ item.raw_val = orig_items[n] /\ item.hashed = orig_items[n]
                /\ Len(item.value) = 8 * Len(orig_items[n])
  <2>1. PICK stray \in StrayByte :
          result[n].item = [raw_val |-> orig_items[n],
                            value |-> Reader!Bits(orig_items[n], stray),
                            hashed |-> orig_items[n]]
    BY <1>2
  <2>2. Len(Reader!Bits(orig_items[n], stray)) = 8 * Len(orig_items[n])
    BY <1>2, BitsOfString
  <2> QED
    BY <2>1, <2>2
<1>4. ASSUME NEW m \in DOMAIN result, NEW n \in DOMAIN result,
             Reader!OfLetters(orig_items[m]), Reader!OfLetters(orig_items[n])
      PROVE  (result[m].item.value = result[n].item.value) <=> (orig_items[m] = orig_items[n])
  <2>1. PICK x \in StrayByte :
          result[m].item = [raw_val |-> orig_items[m],
                            value |-> Reader!Bits(orig_items[m], x),
                            hashed |-> orig_items[m]]
    BY <1>2
  <2>2. PICK y \in StrayByte :
          result[n].item = [raw_val |-> orig_items[n],
                            value |-> Reader!Bits(orig_items[n], y),
                            hashed |-> orig_items[n]]
    BY <1>2
  <2>3. Reader!Bits(orig_items[m], x) = Reader!Bits(orig_items[n], y) <=> orig_items[m] = orig_items[n]
    BY <1>2, <1>4, SameBits
  <2> QED
    BY <2>1, <2>2, <2>3
<1> QED
  BY <1>1, <1>3, <1>4 DEF ItemsStandForLines, Reader!ItemsStandForLines

\* Every item that read returns is of its line alone: the string that
\* Item::operator= appends to raw_val_ and to the bits is appended to a new
\* item, and the bits of two items of letters, by which a query matches, are
\* the same exactly if their strings are (CSVReader::read, item.cpp:20-49).
THEOREM ItemsAreLines == Reader!Spec => []ItemsStandForLines
<1>1. Reader!Init => ReaderInv
  BY InitReader
<1>2. ReaderInv /\ [Reader!Next]_(Reader!vars) => ReaderInv'
  BY NextReader
<1>3. ReaderInv => ItemsStandForLines
  BY ItemsStand
<1> QED
  BY <1>1, <1>2, <1>3, PTL DEF Reader!Spec

=============================================================================
