------------------------------ MODULE RpcClient ------------------------------
(***************************************************************************)
(* gethrpc.Client as a whole: the request path of RpcRequests and the      *)
(* subscriptions of ClientSubscription, joined where the code joins them.  *)
(* dispatch starts, feeds and ends subscriptions, and waits for them; the  *)
(* body of quitOnce sends the unsubscribe request through dispatch.        *)
(***************************************************************************)
EXTENDS RpcRequests

CONSTANTS
  Unsub,      \* [Sub -> Op]: the request of requestUnsubscribe
  User,       \* application goroutines that may call Unsubscribe
  MaxBuffer   \* maxClientSubscriptionBuffer

VARIABLES fpc, buf, passed, rcvd, once, quit, unsub, errCh, errClosed,
          chanClosed, panicked, upc

S == INSTANCE ClientSubscription

UnsubOps == {Unsub[s] : s \in Sub}

\* requestUnsubscribe is a plain call with the background context.
ASSUME ClientAssumption ==
  /\ Unsub \in [Sub -> Op \ Sub]
  /\ \A s, t \in Sub : Unsub[s] = Unsub[t] => s = t
  /\ UnsubOps \cap Deadline = {}

subs == <<fpc, buf, passed, rcvd, once, quit, unsub, errCh, errClosed, chanClosed,
          panicked, upc>>
clientVars == <<vars, subs>>

\* Subscribe has returned the subscription to the application.
Subscribed(s) == pc[s] = "done" /\ outcome[s] = "ok"

-----------------------------------------------------------------------------

\* handleResponse starts the goroutine of a new subscription.
ClientHandleResponse ==
  /\ HandleResponse
  /\ LET m == Head(todo) IN
       IF m.id \in respWait /\ Owner[m.id] \in Sub /\ m.ok
       THEN S!Establish(Owner[m.id])
       ELSE UNCHANGED subs

\* handleSubscriptionResult delivers to a subscription the handler knows.
ClientHandleNotification ==
  /\ HandleNotification
  /\ LET m == Head(todo) IN
       IF m.sub \in clientSubs THEN S!Deliver(m.sub, m.n) ELSE UNCHANGED subs

\* Mutant: the handler forgets its subscriptions without ending them.
ForgetSub(s) == QuitSub(s) /\ UNCHANGED subs

\* cancelAllRequests: dispatch waits until it gets quitOnce.
ClientQuitSub(s) ==
  /\ QuitSub(s)
  /\ S!QuitByHandler(s, IF cont = "close" THEN "nil" ELSE "err")

\* Mutant: the unsubscribe request is made without closing quit first.
QuitsAfterCall(s, u) ==
  /\ upc[s][u] = "once" /\ once[s] = "free"
  /\ once' = [once EXCEPT ![s] = u]
  /\ unsub' = [unsub EXCEPT ![s] = "call"]
  /\ S!UserGoto(s, u, "inOnce")
  /\ Start(Unsub[s])
  /\ UNCHANGED <<fpc, buf, passed, rcvd, quit, errCh, errClosed, chanClosed,
                 panicked>>

\* The body of quitOnce issues the unsubscribe request.
ClientForwardQuitsOnce(s) == S!ForwardQuitsOnce(s) /\ Start(Unsub[s])
ClientUserQuitsOnce(s, u) == S!UserQuitsOnce(s, u) /\ Start(Unsub[s])

\* ... and waits for its outcome.
ClientUnsubscribeReturns(s) ==
  /\ pc[Unsub[s]] = "done"
  /\ S!UnsubscribeReturns(s)
  /\ UNCHANGED vars

\* The application reads the channel once it has the subscription.
ClientForwardSend(s) ==
  /\ Subscribed(s)
  /\ S!ForwardSend(s)
  /\ UNCHANGED vars

ClientForwardStep(s) ==
  \/ ClientForwardQuitsOnce(s)
  \/ (S!ForwardQuit(s) \/ S!ForwardEnds(s) \/ S!ForwardReports(s))
     /\ UNCHANGED vars

ClientUnsubscribe(s, u) ==
  /\ Subscribed(s)
  /\ S!Unsubscribe(s, u)
  /\ UNCHANGED vars

ClientUserStep(s, u) ==
  \/ ClientUserQuitsOnce(s, u)
  \/ (S!UserLeavesOnce(s, u) \/ S!UserClosesErr(s, u) \/ S!UserClosesChan(s, u))
     /\ UNCHANGED vars

ClientDispatchStep ==
  \/ ClientHandleResponse \/ ClientHandleNotification
  \/ \E s \in Sub : ClientQuitSub(s)
  \/ /\ \/ Shutdown \/ CloseCodec
        \/ \E k \in Conn : DrainReadOp(k) \/ DrainReadErr(k)
     /\ UNCHANGED subs

\* Steps of the request path that touch no subscription.
RequestStep ==
  \/ \E op \in Op \ UnsubOps : Start(op) \/ Cancel(op)
  \/ \E op \in Op : CallerStep(op)
  \/ \E k \in Conn : ReadStep(k)
  \/ \E x \in Closer : DispatchClose(x) \/ CloseCall(x) \/ CloseReturn(x)
  \/ \E k \in Conn : DispatchReadOp(k) \/ DispatchReadErr(k)
  \/ \E op \in Op : DispatchReconnected(op) \/ ReqInit(op) \/ ReqTimeout(op)
  \/ ReqSent

ClientInit == Init /\ S!SubInit

ClientNext ==
  \/ RequestStep /\ UNCHANGED subs
  \/ ClientDispatchStep
  \/ \E s \in Sub :
       \/ ClientForwardSend(s) \/ ClientForwardStep(s)
       \/ ClientUnsubscribeReturns(s)
       \/ \E u \in User : ClientUnsubscribe(s, u) \/ ClientUserStep(s, u)

ClientSpec == ClientInit /\ [][ClientNext]_clientVars

\* The fairness of RpcRequests and ClientSubscription.  Here the wait for quitOnce
\* is in the model, and the server makes no calls that handler.close waits for.
ClientFairness ==
  /\ \A op \in Op :
       /\ WF_clientVars(CallerStep(op) /\ UNCHANGED subs)
       /\ SF_clientVars((ReqInit(op) \/ DispatchReconnected(op) \/ ReqTimeout(op))
                        /\ UNCHANGED subs)
  /\ SF_clientVars(ReqSent /\ UNCHANGED subs)
  /\ \A k \in Conn :
       WF_clientVars(k \in codecClosed /\ ReadFail(k) /\ UNCHANGED subs)
  /\ \A x \in Closer :
       /\ SF_clientVars(DispatchClose(x) /\ UNCHANGED subs)
       /\ WF_clientVars(CloseReturn(x) /\ UNCHANGED subs)
  /\ WF_clientVars(ClientDispatchStep)
  /\ \A s \in Sub :
       /\ SF_clientVars(ClientForwardStep(s))
       /\ WF_clientVars(ClientUnsubscribeReturns(s))
       /\ \A u \in User : WF_clientVars(ClientUserStep(s, u))

ClientFairSpec == ClientSpec /\ ClientFairness

-----------------------------------------------------------------------------
(* Properties. *)

\* A subscription that the application holds is fed by the current handler or
\* has been told to quit: it is never left behind with neither notifications
\* nor an error, whatever connection losses, reconnects and Close do.
NoZombieSubscription ==
  \A s \in Sub : Subscribed(s) => s \in clientSubs \/ s \in quit

\* The dispatch goroutine and the server meet the assumptions ClientSubscription
\* makes about its environment: a subscription is started once, is fed
\* consecutive notifications until it is told to quit, and only after it was
\* started.  All that is shown of ClientSubscription holds end to end.
SubscriptionRefined == S!SubSpec

\* "Message handling never blocks indefinitely": dispatch always gets back to
\* its select statement or quits.
DispatchReturns ==
  dpc \notin {"select", "quit"} ~> dpc \in {"select", "quit"}

\* dispatch waits for quitOnce, and the goroutine that holds it for dispatch: to
\* accept its unsubscribe request, to take its new connection, or to cancel it.
WaitsForItself ==
  /\ dpc = "quitSubs"
  /\ \E s \in clientSubs :
       /\ once[s] \notin {"free", "done"}
       /\ \/ pc[Unsub[s]] \in {"send", "offer"}
          \/ pc[Unsub[s]] = "wait" /\ lastOp = Unsub[s]

\* This is the only way for dispatch, and with it Close and the requests, to hang:
\* subscriptions that overflow, that are being ended by several goroutines or that
\* nobody reads do not block it, nor do reconnects and requests that fail.
OnlyUnsubscribeBlocks == []<>(~WaitsForItself) => DispatchReturns

\* Client.Close does not hang: once dispatch has accepted it, dispatch quits
\* ("client hangs during shutdown when Unsubscribe races with Client.Close" is
\* the defect TestClientCloseUnsubscribeRace guards against).
ShutdownCompletes == closing ~> didClose

\* A Subscribe that returned an error because its context was cancelled has
\* left no subscription behind ("The context argument cancels the RPC request
\* that sets up the subscription").
CancelledSubscribeIsInert ==
  \A s \in Sub : pc[s] = "done" /\ outcome[s] = "err" => s \notin clientSubs

=============================================================================
