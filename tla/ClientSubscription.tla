------------------------- MODULE ClientSubscription -------------------------
(***************************************************************************)
(* gethrpc.ClientSubscription and the subscription types of package rpc     *)
(* that wrap it: the goroutine started by handleResponse (start, forward), *)
(* the two operations dispatch performs on a subscription (deliver and     *)
(* quitWithError), and the application goroutines that read the channel    *)
(* and call Unsubscribe.                                                   *)
(*                                                                         *)
(* In Spec the dispatch goroutine and the server are an environment that   *)
(* delivers, ends the subscription and answers the unsubscribe request at  *)
(* any time.  RpcClient replaces it by the model of dispatch.              *)
(***************************************************************************)
EXTENDS Naturals, Sequences

CONSTANTS
  Sub,        \* subscriptions
  User,       \* application goroutines that may call Unsubscribe
  MaxNotif,   \* bound: notifications the server sends per subscription
  MaxBuffer   \* maxClientSubscriptionBuffer

ASSUME SubscriptionAssumption ==
  /\ User \cap {"free", "done", "forward"} = {}
  /\ MaxNotif \in Nat /\ MaxBuffer \in Nat \ {0}

VARIABLES
  fpc,         \* [Sub -> where the goroutine in start is]
  buf,         \* [Sub -> Seq(Nat)]: the list buffer of forward
  passed,      \* [Sub -> Nat]: the last notification given to deliver
  rcvd,        \* [Sub -> Seq(Nat)]: what the application took from channel
  once,        \* [Sub -> state of quitOnce]: free, done, or who runs its body
  quit,        \* subscriptions whose channel quit is closed
  unsub,       \* [Sub -> state of the request of requestUnsubscribe]
  errCh,       \* [Sub -> Seq]: errors sent on the channel err, capacity one
  errClosed,   \* subscriptions whose channel err is closed
  chanClosed,  \* subscriptions whose notification channel is closed
  panicked,    \* subscriptions whose forward sent on a closed channel
  upc          \* [Sub -> [User -> where the goroutine in Unsubscribe is]]

fwdVars  == <<fpc, buf, passed, rcvd>>
onceVars == <<once, quit, unsub>>
errVars  == <<errCh, errClosed>>
userVars == <<chanClosed, panicked, upc>>
subVars  == <<fwdVars, onceVars, errVars, userVars>>

-----------------------------------------------------------------------------
(* dispatch *)

\* handleResponse: go op.sub.start().
Establish(s) ==
  /\ fpc[s] = "none"
  /\ fpc' = [fpc EXCEPT ![s] = "run"]
  /\ UNCHANGED <<buf, passed, rcvd, onceVars, errVars, userVars>>

\* Mutant: the buffer is used as a stack.
DeliverFront(s, n) ==
  /\ fpc[s] = "run" /\ Len(buf[s]) < MaxBuffer
  /\ buf' = [buf EXCEPT ![s] = <<n>> \o @]
  /\ passed' = [passed EXCEPT ![s] = n]
  /\ UNCHANGED <<fpc, rcvd, onceVars, errVars, userVars>>

\* Mutant: deliver does not listen on quit.
DeliverBlocks(s, n) ==
  /\ fpc[s] = "run"
  /\ \/ /\ Len(buf[s]) < MaxBuffer
        /\ buf' = [buf EXCEPT ![s] = Append(@, n)]
        /\ UNCHANGED fpc
     \/ /\ fpc' = [fpc EXCEPT ![s] = "failed"]
        /\ buf' = [buf EXCEPT ![s] = <<>>]
  /\ passed' = [passed EXCEPT ![s] = n]
  /\ UNCHANGED <<rcvd, onceVars, errVars, userVars>>

\* deliver: forward takes notification n from sub.in and queues it, or ends
\* because it cannot be decoded or the buffer is full, which empties the buffer
\* (the deferred buffer.Init) on the way out; or quit is closed and
\* the notification is dropped.
Deliver(s, n) ==
  /\ \/ /\ fpc[s] = "run"
        /\ \/ /\ Len(buf[s]) < MaxBuffer
              /\ buf' = [buf EXCEPT ![s] = Append(@, n)]
              /\ UNCHANGED fpc
           \/ /\ fpc' = [fpc EXCEPT ![s] = "failed"]
              /\ buf' = [buf EXCEPT ![s] = <<>>]
     \/ /\ s \in quit
        /\ UNCHANGED <<fpc, buf>>
  /\ passed' = [passed EXCEPT ![s] = n]
  /\ UNCHANGED <<rcvd, onceVars, errVars, userVars>>

\* Mutant: ErrClientQuit is sent as it is.
QuitUntranslated(s, err) ==
  /\ once[s] = "free"
  /\ once' = [once EXCEPT ![s] = "done"]
  /\ quit' = quit \cup {s}
  /\ errCh' = [errCh EXCEPT ![s] = Append(@, "ErrClientQuit")]
  /\ UNCHANGED <<fwdVars, unsub, errClosed, userVars>>

\* quitWithError(err, false), called by cancelAllRequests.  It waits for the
\* goroutine that runs the body of quitOnce.  ErrClientQuit is sent as nil.
QuitByHandler(s, err) ==
  /\ \/ /\ once[s] = "free"
        /\ once' = [once EXCEPT ![s] = "done"]
        /\ quit' = quit \cup {s}
        /\ errCh' = [errCh EXCEPT ![s] = Append(@, err)]
     \/ /\ once[s] = "done"
        /\ UNCHANGED <<once, quit, errCh>>
  /\ UNCHANGED <<fwdVars, unsub, errClosed, userVars>>

-----------------------------------------------------------------------------
(* start and forward *)

\* forward: case 2, the application receives the front of the buffer.  Once
\* the channel is closed the send panics.
ForwardSend(s) ==
  /\ fpc[s] = "run"
  /\ buf[s] # <<>>
  /\ \/ /\ s \notin chanClosed
        /\ rcvd' = [rcvd EXCEPT ![s] = Append(@, Head(buf[s]))]
        /\ buf' = [buf EXCEPT ![s] = Tail(@)]
        /\ UNCHANGED <<fpc, panicked>>
     \/ /\ s \in chanClosed
        /\ panicked' = panicked \cup {s}
        /\ fpc' = [fpc EXCEPT ![s] = "done"]
        /\ buf' = [buf EXCEPT ![s] = <<>>]
        /\ UNCHANGED rcvd
  /\ UNCHANGED <<passed, onceVars, errVars, chanClosed, upc>>

\* Mutant: forward does not listen on quit.
ForwardDeaf(s) == FALSE

\* forward: case 0, quit is closed; the buffer is emptied on return.
ForwardQuit(s) ==
  /\ fpc[s] = "run"
  /\ s \in quit
  /\ fpc' = [fpc EXCEPT ![s] = "stopped"]
  /\ buf' = [buf EXCEPT ![s] = <<>>]
  /\ UNCHANGED <<passed, rcvd, onceVars, errVars, userVars>>

\* The body of quitOnce up to the unsubscribe request, run by g.
EnterOnce(s, g) ==
  /\ once[s] = "free"
  /\ once' = [once EXCEPT ![s] = g]
  /\ quit' = quit \cup {s}
  /\ unsub' = [unsub EXCEPT ![s] = "call"]

\* start: quitWithError(err, true) becomes the one to run the body.
ForwardQuitsOnce(s) ==
  /\ fpc[s] = "failed"
  /\ EnterOnce(s, "forward")
  /\ fpc' = [fpc EXCEPT ![s] = "inOnce"]
  /\ UNCHANGED <<buf, passed, rcvd, errVars, userVars>>

\* start: quitWithError finds the body already run by another goroutine.
ForwardEnds(s) ==
  /\ fpc[s] \in {"stopped", "failed"}
  /\ once[s] = "done"
  /\ fpc' = [fpc EXCEPT ![s] = "done"]
  /\ UNCHANGED <<buf, passed, rcvd, onceVars, errVars, userVars>>

\* Mutant: forward ends without telling why.
ForwardSilent(s) ==
  /\ fpc[s] = "inOnce"
  /\ unsub[s] = "done"
  /\ once' = [once EXCEPT ![s] = "done"]
  /\ fpc' = [fpc EXCEPT ![s] = "done"]
  /\ UNCHANGED <<buf, passed, rcvd, quit, unsub, errVars, userVars>>

\* Mutant: the channel err has no buffer, and nobody receives from it.
ForwardReportsBlocked(s) == FALSE

\* requestUnsubscribe has returned; the rest of the body, err is not nil.
ForwardReports(s) ==
  /\ fpc[s] = "inOnce"
  /\ unsub[s] = "done"
  /\ once' = [once EXCEPT ![s] = "done"]
  /\ errCh' = [errCh EXCEPT ![s] = Append(@, "err")]
  /\ fpc' = [fpc EXCEPT ![s] = "done"]
  /\ UNCHANGED <<buf, passed, rcvd, quit, unsub, errClosed, userVars>>

\* requestUnsubscribe: the call returns.
UnsubscribeReturns(s) ==
  /\ unsub[s] = "call"
  /\ unsub' = [unsub EXCEPT ![s] = "done"]
  /\ UNCHANGED <<fwdVars, once, quit, errVars, userVars>>

-----------------------------------------------------------------------------
(* Unsubscribe, called by goroutine u. *)

UserGoto(s, u, l) == upc' = [upc EXCEPT ![s][u] = l]

\* Mutant: close(sub.err) comes before quitWithError.
UnsubscribeClosesFirst(s, u) ==
  /\ upc[s][u] = "idle"
  /\ fpc[s] # "none"
  /\ errClosed' = errClosed \cup {s}
  /\ UserGoto(s, u, "once")
  /\ UNCHANGED <<fwdVars, onceVars, errCh, chanClosed, panicked>>

Unsubscribe(s, u) ==
  /\ upc[s][u] = "idle"
  /\ fpc[s] # "none"
  /\ UserGoto(s, u, "once")
  /\ UNCHANGED <<fwdVars, onceVars, errVars, chanClosed, panicked>>

UserQuitsOnce(s, u) ==
  /\ upc[s][u] = "once"
  /\ EnterOnce(s, u)
  /\ UserGoto(s, u, "inOnce")
  /\ UNCHANGED <<fwdVars, errVars, chanClosed, panicked>>

\* Mutant: requestUnsubscribe is not waited for.
UserLeavesEarly(s, u) ==
  /\ \/ /\ upc[s][u] = "once" /\ once[s] = "done"
        /\ UNCHANGED once
     \/ /\ upc[s][u] = "inOnce"
        /\ once' = [once EXCEPT ![s] = "done"]
  /\ UserGoto(s, u, "closeErr")
  /\ UNCHANGED <<fwdVars, quit, unsub, errVars, chanClosed, panicked>>

\* quitWithError returns: the body is done, by this goroutine or another one.
UserLeavesOnce(s, u) ==
  /\ \/ /\ upc[s][u] = "once" /\ once[s] = "done"
        /\ UNCHANGED once
     \/ /\ upc[s][u] = "inOnce" /\ unsub[s] = "done"
        /\ once' = [once EXCEPT ![s] = "done"]
  /\ UserGoto(s, u, "closeErr")
  /\ UNCHANGED <<fwdVars, quit, unsub, errVars, chanClosed, panicked>>

\* errOnce.Do(close(sub.err)).
UserClosesErr(s, u) ==
  /\ upc[s][u] = "closeErr"
  /\ errClosed' = errClosed \cup {s}
  /\ UserGoto(s, u, "closeChan")
  /\ UNCHANGED <<fwdVars, onceVars, errCh, chanClosed, panicked>>

\* The wrapper: quitOnce.Do(close(s.channel)).
UserClosesChan(s, u) ==
  /\ upc[s][u] = "closeChan"
  /\ chanClosed' = chanClosed \cup {s}
  /\ UserGoto(s, u, "done")
  /\ UNCHANGED <<fwdVars, onceVars, errVars, panicked>>

-----------------------------------------------------------------------------

SubInit ==
  /\ fpc = [s \in Sub |-> "none"]
  /\ buf = [s \in Sub |-> <<>>] /\ rcvd = [s \in Sub |-> <<>>]
  /\ passed = [s \in Sub |-> 0]
  /\ once = [s \in Sub |-> "free"] /\ unsub = [s \in Sub |-> "idle"]
  /\ quit = {}
  /\ errCh = [s \in Sub |-> <<>>] /\ errClosed = {}
  /\ chanClosed = {} /\ panicked = {}
  /\ upc = [s \in Sub |-> [u \in User |-> "idle"]]

\* The goroutine in start.
ForwardStep(s) ==
  ForwardQuit(s) \/ ForwardQuitsOnce(s) \/ ForwardEnds(s) \/ ForwardReports(s)

\* A goroutine that has called Unsubscribe.
UserStep(s, u) ==
  \/ UserQuitsOnce(s, u) \/ UserLeavesOnce(s, u)
  \/ UserClosesErr(s, u) \/ UserClosesChan(s, u)

SubNext ==
  \E s \in Sub :
    \/ Establish(s)
    \/ passed[s] < MaxNotif /\ fpc[s] # "none" /\ Deliver(s, passed[s] + 1)
    \/ fpc[s] # "none" /\ \E err \in {"nil", "err"} : QuitByHandler(s, err)
    \/ ForwardSend(s) \/ ForwardStep(s) \/ UnsubscribeReturns(s)
    \/ \E u \in User : Unsubscribe(s, u) \/ UserStep(s, u)

SubSpec == SubInit /\ [][SubNext]_subVars

\* Goroutines run; a select of forward that always finds quit closed takes that
\* case in the end.  That the unsubscribe request returns is not assumed: its
\* context is never cancelled, and it needs dispatch and the server.
SubFairness ==
  \A s \in Sub :
    /\ SF_subVars(ForwardStep(s))
    /\ \A u \in User : WF_subVars(UserStep(s, u))

SubFairSpec == SubSpec /\ SubFairness

-----------------------------------------------------------------------------
(* Properties. *)

InUnsubscribe == {"once", "inOnce", "closeErr"}
Unsubscribed(s) == \E u \in User : upc[s][u] \in {"closeChan", "done"}
Notified(s) == rcvd[s] \o buf[s]

SubTypeOK ==
  /\ fpc \in [Sub -> {"none", "run", "stopped", "failed", "inOnce", "done"}]
  /\ buf \in [Sub -> Seq(Nat)] /\ rcvd \in [Sub -> Seq(Nat)]
  /\ passed \in [Sub -> Nat]
  /\ once \in [Sub -> {"free", "done", "forward"} \cup User]
  /\ unsub \in [Sub -> {"idle", "call", "done"}]
  /\ quit \subseteq Sub
  /\ errCh \in [Sub -> Seq({"nil", "err"})]
  /\ errClosed \subseteq Sub /\ chanClosed \subseteq Sub
  /\ panicked \subseteq Sub
  /\ upc \in [Sub -> [User -> {"idle", "closeChan", "done"} \cup InUnsubscribe]]

\* The channel err has room for the one error that is ever sent on it, and is
\* still open while a goroutine in quitOnce has an error left to send: the send
\* in quitWithError neither blocks nor panics, however Unsubscribe, an overflow
\* and the end of the connection race.
ErrSendIsSafe ==
  \A s \in Sub :
    /\ Len(errCh[s]) <= 1
    /\ once[s] \in {"free", "forward"} => errCh[s] = <<>> /\ s \notin errClosed

\* A subscription that ended without the application asking for it has told so
\* on its error channel ("The error channel receives a value when the
\* subscription has ended due to an error").
EndIsReported ==
  \A s \in Sub :
    once[s] = "done" /\ (\A u \in User : upc[s][u] = "idle") => errCh[s] # <<>>

\* Notifications reach the application in the order in which the server sent
\* them, and none is skipped until the subscription quits.
InOrder ==
  \A s \in Sub :
    /\ \A x, y \in DOMAIN Notified(s) : x < y => Notified(s)[x] < Notified(s)[y]
    /\ fpc[s] \in {"none", "run"} /\ s \notin quit =>
         Notified(s) = [x \in 1..passed[s] |-> x]

\* When any call of Unsubscribe is through with quitOnce, the server has been asked
\* to end the subscription, and the request has returned, or the handler had
\* ended it: no goroutine gets ahead of the one that makes the request.
ServerToldFirst ==
  \A s \in Sub, u \in User :
    upc[s][u] \in {"closeErr", "closeChan", "done"} => unsub[s] = "done" \/ errCh[s] # <<>>

\* After Unsubscribe has returned the application receives nothing more (the
\* test TestClientSubscribe: "received value after unsubscribe").
NothingAfterUnsubscribe ==
  [][\A s \in Sub : Unsubscribed(s) => rcvd'[s] = rcvd[s]]_subVars

\* forward never sends on the channel that Unsubscribe of the wrapper closed
\* ("It can safely be called more than once").
NoSendOnClosedChannel == panicked = {}

\* The unsubscribe request does not take for ever.  It can: DispatchReturns of
\* RpcClient, and a server that does not answer.
RequestReturns(s) == []<>(unsub[s] # "call")

\* Unsubscribe returns if the unsubscribe request does, also in goroutines that
\* wait for the one that makes it, and whether or not anybody receives from err.
UnsubscribeReturnsEventually ==
  \A s \in Sub : RequestReturns(s) =>
    \A u \in User : upc[s][u] = "once" ~> upc[s][u] = "done"

\* The goroutine of a subscription that quits ends if the unsubscribe request does:
\* start waits in quitOnce for an Unsubscribe that makes it.
ForwardTerminates ==
  \A s \in Sub : RequestReturns(s) => (s \in quit ~> fpc[s] = "done")

=============================================================================
