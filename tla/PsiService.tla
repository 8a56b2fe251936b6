----------------------------- MODULE PsiService -----------------------------
(***************************************************************************)
(* What a receiver can rely on, without a network, packages, workers or a  *)
(* sender: it makes one request after another, and each request ends with  *)
(* the answer that belongs to its own input or with an exception, for as   *)
(* long as no request has ended with an exception.  An exception leaves    *)
(* the service broken: a later request may also end with a stray answer,   *)
(* one that belongs to no request.  QueryProtocol.tla implements this      *)
(* specification.                                                          *)
(***************************************************************************)
EXTENDS Naturals, Sequences

CONSTANTS
  Input,       \* what a request can ask
  Answer(_),   \* the answer that belongs to an input
  Stray(_),    \* the answers that an input may get from a broken service
  Pending,     \* the outcome of a request that has not ended
  Threw        \* the outcome of a request that ended with an exception

VARIABLE history    \* the requests so far, with their inputs and outcomes

Idle == \A i \in DOMAIN history : history[i].outcome # Pending
Broken == \E i \in DOMAIN history : history[i].outcome = Threw

Init == history = <<>>

Ask(input) ==
  /\ Idle
  /\ history' = Append(history, [input |-> input, outcome |-> Pending])

EndWith(outcome) ==
  /\ ~Idle
  /\ history' = [history EXCEPT ![Len(history)].outcome = outcome]

Next ==
  \/ \E input \in Input : Ask(input)
  \/ ~Idle /\ EndWith(Answer(history[Len(history)].input))
  \/ EndWith(Threw)
  \/ Broken /\ ~Idle /\ \E answer \in Stray(history[Len(history)].input) : EndWith(answer)

Spec == Init /\ [][Next]_history
=============================================================================
