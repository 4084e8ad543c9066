----------------------------- MODULE RpcService -----------------------------
(***************************************************************************)
(* What gethrpc.Client promises to the goroutines that use it: requests    *)
(* are sent one at a time, a call gets an answer to each of its ids and    *)
(* nothing else, it succeeds only with all of them, it gets nothing more   *)
(* once it has returned, and no request is taken after Close.  There is no *)
(* connection, no dispatch goroutine and no lock here; RpcRequests has     *)
(* them and implements this.                                               *)
(***************************************************************************)
EXTENDS Sequences

CONSTANTS Op, Sub, Id, Owner

VARIABLES
  state,      \* [Op -> where the request is]
  received,   \* [Op -> Seq(Id)]: the answers the caller has been given
  result,     \* [Op -> what the call returned]
  closed      \* Close has been accepted

serviceVars == <<state, received, result, closed>>

OwnIds(op) == {i \in Id : Owner[i] = op}
Complete(op, answers) == \A i \in OwnIds(op) : \E x \in DOMAIN answers : answers[x] = i

ServiceInit ==
  /\ state = [op \in Op |-> "idle"]
  /\ received = [op \in Op |-> <<>>]
  /\ result = [op \in Op |-> "none"]
  /\ closed = FALSE

Becomes(op, s) == state' = [state EXCEPT ![op] = s]

Finish(op, r) == Becomes(op, "done") /\ result' = [result EXCEPT ![op] = r]

Call(op) ==
  /\ state[op] = "idle"
  /\ Becomes(op, "called")
  /\ UNCHANGED <<received, result, closed>>

\* The request is taken: it is the only one that is being sent.
Accept(op) ==
  /\ state[op] = "called" /\ ~closed
  /\ \A other \in Op : state[other] # "sending"
  /\ Becomes(op, "sending")
  /\ UNCHANGED <<received, result, closed>>

AwaitAnswers(op) ==
  /\ state[op] = "sending"
  /\ Becomes(op, "waiting")
  /\ UNCHANGED <<received, result, closed>>

\* A new answer to the call, with which it may be over.
Receive(op, i) ==
  /\ state[op] = "waiting"
  /\ i \in OwnIds(op) /\ \A x \in DOMAIN received[op] : received[op][x] # i
  /\ received' = [received EXCEPT ![op] = Append(@, i)]
  /\ \/ UNCHANGED <<state, result>>
     \/ Finish(op, "err")
     \/ Complete(op, received'[op]) /\ Finish(op, "ok")
  /\ UNCHANGED closed

\* The call returns by itself: with an error at any time; without one when it
\* needs no answer, or when the subscription has been granted.
ReturnAlone(op, r) ==
  /\ state[op] \in {"called", "sending", "waiting"}
  /\ \/ r = "err"
     \/ r = "ok" /\ state[op] = "sending" /\ OwnIds(op) = {}
     \/ r = "ok" /\ state[op] = "waiting" /\ op \in Sub
  /\ Finish(op, r)
  /\ UNCHANGED <<received, closed>>

CloseService ==
  /\ ~closed
  /\ closed' = TRUE
  /\ UNCHANGED <<state, received, result>>

ServiceNext ==
  \/ \E op \in Op :
       \/ Call(op) \/ Accept(op) \/ AwaitAnswers(op)
       \/ \E i \in Id : Receive(op, i)
       \/ \E r \in {"ok", "err"} : ReturnAlone(op, r)
  \/ CloseService

ServiceSpec == ServiceInit /\ [][ServiceNext]_serviceVars

=============================================================================
