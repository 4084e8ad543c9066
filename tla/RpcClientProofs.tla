-------------------------- MODULE RpcClientProofs ---------------------------
(***************************************************************************)
(* Proofs about RpcClient: the handler starts, feeds and ends subscriptions*)
(* as ClientSubscription asks of its environment.                          *)
(***************************************************************************)
EXTENDS RpcClient, RpcSubscribeProofs

-----------------------------------------------------------------------------
(* Subscriptions. *)

\* The notification of a subscription in a queue, as a number.
Count(q, s) == IF HasNote(q, s) THEN 1 ELSE 0

\* What the server has sent and the subscription was not given yet is in the
\* hands of the read loop and of dispatch.
Feed(s) ==
  /\ HasNote(todo, s) => todo = <<Notify(s, passed[s] + 1)>>
  /\ HasNote(rmsg[conn], s) => rmsg[conn] = <<Notify(s, sent[s])>>
  /\ sent[s] = passed[s] + Count(todo, s) + Count(rmsg[conn], s)

\* A subscription that is registered, or the handler's, is fed in order and without a
\* gap; one that was never accepted was given nothing.
FeedInv ==
  /\ passed \in [Sub -> Nat]
  /\ \A s \in Sub : /\ Registered(s) \/ s \in clientSubs => Feed(s)
                    /\ ~Active(s) => passed[s] = 0

\* A subscription that Subscribe is about to return, or has returned, is the
\* handler's or was told to quit.  The goroutine of a subscription is started
\* once, when the handler gets to know the subscription.
HeldInv ==
  /\ DOMAIN fpc = Sub /\ DOMAIN once = Sub /\ DOMAIN unsub = Sub
  /\ \A s \in Sub :
       /\ ~Active(s) \/ Registered(s) => fpc[s] = "none"
       /\ s \in clientSubs => fpc[s] # "none"
       /\ s \in respClosed \ opErr \/ outcome[s] = "ok" => s \in clientSubs \cup quit
       /\ once[s] # "free" \/ unsub[s] # "idle" => s \in quit
       /\ resp[s] = <<>>

\* The steps of the client that are steps of the request path.
LEMMA ClientNextNext ==
  ASSUME [ClientNext]_clientVars
  PROVE  [Next]_vars
<1>1. ASSUME NEW s \in Sub PROVE Unsub[s] \in Op
  BY ClientAssumption
<1>2. CASE RequestStep
  BY <1>2, Zenon DEF RequestStep, Next
<1>3. CASE ClientDispatchStep
  BY <1>3, Zenon DEF ClientDispatchStep, ClientHandleResponse, ClientHandleNotification,
     ClientQuitSub, DispatchStep, Next
<1>4. ASSUME NEW s \in Sub, ClientForwardSend(s) \/ ClientForwardStep(s)
                            \/ ClientUnsubscribeReturns(s)
      PROVE  UNCHANGED vars \/ Start(Unsub[s])
  BY <1>4, Zenon DEF ClientForwardSend, ClientForwardStep, ClientForwardQuitsOnce,
     ClientUnsubscribeReturns
<1>5. ASSUME NEW s \in Sub, NEW u \in User, ClientUnsubscribe(s, u) \/ ClientUserStep(s, u)
      PROVE  UNCHANGED vars \/ Start(Unsub[s])
  BY <1>5, Zenon DEF ClientUnsubscribe, ClientUserStep, ClientUserQuitsOnce
<1>6. CASE UNCHANGED clientVars
  BY <1>6 DEF clientVars
<1>7. ASSUME NEW s \in Sub, Start(Unsub[s]) PROVE Next
  BY <1>1, <1>7, Zenon DEF Next
<1> QED
  BY <1>2, <1>3, <1>4, <1>5, <1>6, <1>7, Zenon DEF ClientNext

\* The whole client makes requests as RpcRequests does: all that is proved of the
\* request path holds while subscriptions start, feed and end.
THEOREM RequestsRefined == ClientSpec => Spec
<1>1. ClientInit => Init
  BY DEF ClientInit
<1> QED
  BY <1>1, ClientNextNext, PTL DEF ClientSpec, Spec

\* A subscription stays accepted, and only one that is not is registered anew.
LEMMA ActiveNext ==
  ASSUME TypeInv, LockInv, ReaderInv, HandInv, WireInv, MoveInv, [Next]_vars, NEW s \in Sub
  PROVE  /\ Active(s) => Active(s)'
         /\ Registered(s)' => Registered(s) \/ ~Active(s)
<1>t. active \in [Conn -> SUBSET Sub] /\ conn \in Conn
  BY DEF TypeInv, TypeOK
<1>a. ASSUME UNCHANGED active PROVE Active(s) => Active(s)'
  BY <1>a DEF Active
<1>b. ASSUME respWait' \subseteq respWait PROVE Registered(s)' => Registered(s)
  BY <1>b DEF Registered, Ids
<1>1. ASSUME NEW k \in Conn, ReadStep(k) PROVE Active(s) => Active(s)'
  <2>1. ASSUME NEW i \in Id, NEW b \in BOOLEAN, ReadsAnswer(i, b) PROVE Active(s) => Active(s)'
    BY <1>t, <2>1 DEF ReadsAnswer, Active
  <2>2. ASSUME NEW q, ReadsBatch(q) PROVE UNCHANGED active
    BY <2>2 DEF ReadsBatch
  <2>3. ASSUME NEW t \in Sub, ReadsNotification(t) PROVE UNCHANGED active
    BY <2>3 DEF ReadsNotification
  <2> QED
    BY <1>1, <1>a, <2>1, <2>2, <2>3, ReadEffect
<1>2. ASSUME NEW k \in Conn, ReadStep(k) PROVE UNCHANGED respWait
  BY <1>2, ReadEffect DEF reqVars
<1>3. ASSUME NEW k \in Conn, DispatchReadOp(k) \/ DrainReadOp(k) PROVE UNCHANGED <<active, respWait>>
  BY <1>3, TakeEffect, DrainEffect
<1>4. ASSUME HandleResponse \/ HandleNotification
      PROVE  UNCHANGED active /\ respWait' \subseteq respWait
  <2>1. UNCHANGED active
    BY <1>4, HandleEffect
  <2> QED
    BY <1>4, <2>1, Zenon DEF HandleResponse, HandleNotification, reqVars
<1> QED
  BY <1>1, <1>2, <1>3, <1>4, <1>a, <1>b, MessageSteps

\* Steps of the request path by which no subscription starts, is fed or ends.
PlainStep ==
  \/ RequestStep \/ Shutdown \/ CloseCodec
  \/ \E k \in Conn : DrainReadOp(k) \/ DrainReadErr(k)
  \/ \E op \in Op : Start(op)
  \/ UNCHANGED vars

\* Steps of the goroutine of a subscription and of the application.
SubStep(s) ==
  \/ S!ForwardSend(s) \/ S!ForwardStep(s) \/ S!UnsubscribeReturns(s)
  \/ \E u \in User : S!Unsubscribe(s, u) \/ S!UserStep(s, u)

\* A step of the client is one of the three in which dispatch meets a
\* subscription, or plain on one side.
LEMMA ClientSteps ==
  ASSUME [ClientNext]_clientVars
  PROVE  \/ ClientHandleResponse \/ ClientHandleNotification
         \/ \E s \in Sub : ClientQuitSub(s)
         \/ PlainStep /\ UNCHANGED subs
         \/ PlainStep /\ \E s \in Sub : SubStep(s)
<1>1. ASSUME NEW s \in Sub PROVE Unsub[s] \in Op
  BY ClientAssumption
<1>2. CASE RequestStep /\ UNCHANGED subs
  BY <1>2, Zenon DEF PlainStep
<1>3. CASE ClientDispatchStep
  BY <1>3, Zenon DEF ClientDispatchStep, PlainStep
<1>4. ASSUME NEW s \in Sub, ClientForwardSend(s) \/ ClientForwardStep(s)
                            \/ ClientUnsubscribeReturns(s)
      PROVE  SubStep(s) /\ (UNCHANGED vars \/ Start(Unsub[s]))
  BY <1>4, Zenon DEF ClientForwardSend, ClientForwardStep, ClientForwardQuitsOnce,
     ClientUnsubscribeReturns, SubStep, S!ForwardStep
<1>5. ASSUME NEW s \in Sub, NEW u \in User, ClientUnsubscribe(s, u) \/ ClientUserStep(s, u)
      PROVE  SubStep(s) /\ (UNCHANGED vars \/ Start(Unsub[s]))
  BY <1>5, Zenon DEF ClientUnsubscribe, ClientUserStep, ClientUserQuitsOnce, SubStep, S!UserStep
<1>6. CASE UNCHANGED clientVars
  BY <1>6 DEF clientVars, PlainStep
<1>7. ASSUME NEW s \in Sub, UNCHANGED vars \/ Start(Unsub[s]) PROVE PlainStep
  BY <1>1, <1>7, Zenon DEF PlainStep
<1> QED
  BY <1>2, <1>3, <1>4, <1>5, <1>6, <1>7, Zenon DEF ClientNext

\* A plain step of the request path leaves the handler's subscriptions alone and
\* makes no Subscribe succeed that was not about to.
LEMMA PlainEffect ==
  ASSUME TypeInv, HandInv, PlainStep, \A s \in Sub : resp[s] = <<>>
  PROVE  /\ UNCHANGED clientSubs
         /\ UNCHANGED todo \/ dpc = "select"
         /\ \A s \in Sub :
              /\ s \in respClosed' \ opErr' => s \in respClosed \ opErr
              /\ outcome'[s] = "ok" => outcome[s] = "ok" \/ s \in respClosed \ opErr
              /\ resp'[s] = <<>>
<1> DEFINE Goal == /\ UNCHANGED clientSubs
                   /\ UNCHANGED todo \/ dpc = "select"
                   /\ \A s \in Sub :
                        /\ s \in respClosed' \ opErr' => s \in respClosed \ opErr
                        /\ outcome'[s] = "ok" => outcome[s] = "ok" \/ s \in respClosed \ opErr
                        /\ resp'[s] = <<>>
<1>t. outcome \in [Op -> {"none", "ok", "err"}] /\ resp \in [Op -> Seq(Id)]
  BY DEF TypeInv, TypeOK
<1>o. Sub \subseteq Op
  BY OneId
<1>a. ASSUME UNCHANGED <<clientSubs, resp, respClosed, opErr, outcome>>,
             UNCHANGED todo \/ dpc = "select"
      PROVE  Goal
  BY <1>a
<1>c. ASSUME UNCHANGED <<clientSubs, outcome>>, NEW op, CancelAllRequests(op),
             UNCHANGED todo \/ dpc = "select"
      PROVE  Goal
  BY <1>c DEF CancelAllRequests
<1> USE DEF callVars, reqVars, lockVars, connVars, readVars, dispVars, endVars
<1>1. ASSUME NEW op \in Op, Start(op) \/ Cancel(op) PROVE Goal
  BY <1>1, <1>a DEF Start, Cancel
<1>2. ASSUME NEW op \in Op, CallerStep(op) PROVE Goal
  <2>0. UNCHANGED <<clientSubs, todo, respClosed, opErr>>
    BY <1>2, Zenon DEF CallerStep, SendAborted, CheckWriteConn, Dial,
       OfferRefused, Write, Sent, WaitReceive, WaitClosed, WaitCtxDone, GiveUpClosing
  <2>1. ASSUME NEW r, outcome' = outcome \/ outcome' = [outcome EXCEPT ![op] = r],
               r = "ok" => op \notin Sub \/ op \in respClosed \ opErr,
               UNCHANGED resp
        PROVE  Goal
    BY <1>t, <1>o, <2>0, <2>1
  <2>2. CASE SendAborted(op) \/ GiveUpClosing(op)
    BY <2>1, <2>2, Zenon DEF SendAborted, GiveUpClosing, Return
  <2>3. CASE CheckWriteConn(op) \/ Dial(op) \/ OfferRefused(op) \/ Write(op) \/ WaitCtxDone(op)
    <3>1. UNCHANGED <<outcome, resp>>
      BY <2>3, Zenon DEF CheckWriteConn, Dial, OfferRefused, Write, WaitCtxDone
    <3> QED
      BY <2>0, <3>1
  <2>4. CASE Sent(op)
    <3>1. op \in Sub => Ids(op) # {}
      BY OneId
    <3>2. UNCHANGED resp
      BY <2>4 DEF Sent
    <3>3. \/ UNCHANGED outcome \/ outcome' = [outcome EXCEPT ![op] = "err"]
          \/ Ids(op) = {} /\ outcome' = [outcome EXCEPT ![op] = "ok"]
      BY <2>4, Zenon DEF Sent, Return
    <3>4. CASE UNCHANGED outcome \/ outcome' = [outcome EXCEPT ![op] = "err"]
      BY <2>1, <3>2, <3>4, Zenon
    <3>5. CASE Ids(op) = {} /\ outcome' = [outcome EXCEPT ![op] = "ok"]
      BY <2>1, <3>1, <3>2, <3>5, Zenon
    <3> QED
      BY <3>3, <3>4, <3>5
  <2>5. CASE WaitReceive(op)
    <3>1. op \notin Sub
      BY <2>5 DEF WaitReceive
    <3>2. \A s \in Sub : outcome'[s] = outcome[s] /\ resp'[s] = resp[s]
      BY <1>t, <1>o, <2>5, <3>1 DEF WaitReceive, Return
    <3> QED
      BY <2>0, <3>2
  <2>6. CASE WaitClosed(op)
    BY <2>1, <2>6 DEF WaitClosed, Return
  <2> QED
    BY <1>2, <2>2, <2>3, <2>4, <2>5, <2>6, Zenon DEF CallerStep
<1>3. ASSUME NEW k \in Conn, ReadStep(k) PROVE Goal
  <2>1. UNCHANGED <<callVars, reqVars, dispVars>>
    BY <1>3, Zenon DEF ReadStep, ReadResponse, ReadBatch, ReadNotification, ReadFail, Offer
  <2> QED
    BY <1>a, <2>1
<1>4. ASSUME NEW x \in Closer, DispatchClose(x) \/ CloseCall(x) \/ CloseReturn(x) PROVE Goal
  BY <1>a, <1>4 DEF DispatchClose, CloseCall, CloseReturn
<1>5. ASSUME NEW k \in Conn, DispatchReadOp(k) \/ DrainReadOp(k) PROVE Goal
  BY <1>a, <1>5 DEF DispatchReadOp, DrainReadOp
<1>6. ASSUME NEW k \in Conn, DispatchReadErr(k) PROVE Goal
  <2>1. UNCHANGED <<clientSubs, outcome, todo>> /\ CancelAllRequests(lastOp)
    BY <1>6 DEF DispatchReadErr
  <2> QED
    BY <1>c, <2>1
<1>7. ASSUME NEW op \in Op, DispatchReconnected(op) PROVE Goal
  <2>1. UNCHANGED <<outcome, todo>> /\ dpc = "select"
    BY <1>7 DEF DispatchReconnected
  <2>2. CASE UNCHANGED clientSubs /\ CancelAllRequests(lastOp)
    BY <1>c, <2>1, <2>2
  <2>3. CASE ~reading /\ NewConn(rd) /\ UNCHANGED <<resp, respClosed, opErr>>
    <3>1. clientSubs = {} /\ clientSubs' = {}
      BY <2>1, <2>3 DEF HandInv, NewConn
    <3> QED
      BY <1>a, <2>1, <2>3, <3>1
  <2> QED
    BY <1>7, <2>2, <2>3, Zenon DEF DispatchReconnected
<1>8. ASSUME NEW op \in Op, ReqInit(op) PROVE Goal
  BY <1>a, <1>8 DEF ReqInit
<1>9. ASSUME NEW op \in Op, ReqTimeout(op) PROVE Goal
  <2>1. UNCHANGED <<clientSubs, todo, resp, respClosed, opErr>>
        /\ outcome' = [outcome EXCEPT ![op] = "err"]
    BY <1>9, Zenon DEF ReqTimeout, Return
  <2> QED
    BY <1>t, <1>o, <2>1
<1>10. ASSUME ReqSent PROVE Goal
  BY <1>a, <1>10 DEF ReqSent
<1>11. ASSUME Shutdown PROVE Goal
  <2>1. UNCHANGED <<clientSubs, outcome, todo>>
        /\ (CancelAllRequests(NoOp) \/ UNCHANGED <<resp, respClosed, opErr>>)
    BY <1>11, Zenon DEF Shutdown
  <2> QED
    BY <1>a, <1>c, <2>1
<1>12. ASSUME CloseCodec PROVE Goal
  BY <1>a, <1>12 DEF CloseCodec
<1>13. ASSUME NEW k \in Conn, DrainReadErr(k) PROVE Goal
  <2>1. UNCHANGED <<outcome, todo, resp, respClosed, opErr>> /\ clientSubs = {}
    BY <1>13 DEF DrainReadErr, HandInv
  <2>2. UNCHANGED clientSubs \/ clientSubs' = {}
    BY <1>13, Zenon DEF DrainReadErr, NewConn
  <2> QED
    BY <1>a, <2>1, <2>2
<1>14. ASSUME UNCHANGED vars PROVE Goal
  BY <1>a, <1>14 DEF vars
<1> HIDE DEF Goal, callVars, reqVars, lockVars, connVars, readVars, dispVars, endVars
<1>15. ASSUME RequestStep PROVE Goal
  <2>1. ASSUME NEW op \in Op \ UnsubOps, Start(op) \/ Cancel(op) PROVE Goal
    BY <1>1, <2>1
  <2> QED
    BY <1>15, <2>1, <1>2, <1>3, <1>4, <1>5, <1>6, <1>7, <1>8, <1>9, <1>10, Zenon
    DEF RequestStep
<1>16. ASSUME NEW op \in Op, Start(op) PROVE Goal
  BY <1>1, <1>16
<1>17. Goal
  BY <1>5, <1>11, <1>12, <1>13, <1>14, <1>15, <1>16 DEF PlainStep
<1> QED
  BY <1>17 DEF Goal

\* What the goroutines of a subscription do to what the client relies on.
LEMMA SubEffect ==
  ASSUME NEW s \in Sub, SubStep(s), HeldInv
  PROVE  /\ UNCHANGED passed /\ quit \subseteq quit'
         /\ DOMAIN fpc' = Sub /\ DOMAIN once' = Sub /\ DOMAIN unsub' = Sub
         /\ \A t \in Sub : fpc'[t] = "none" <=> fpc[t] = "none"
         /\ \A t \in Sub : once'[t] # "free" \/ unsub'[t] # "idle" => t \in quit'
<1> USE DEF HeldInv, S!fwdVars, S!onceVars, S!errVars, S!userVars
<1>1. CASE S!ForwardSend(s) \/ S!ForwardQuit(s) \/ S!ForwardEnds(s)
  <2>1. UNCHANGED <<passed, once, quit, unsub>> /\ fpc[s] # "none"
    BY <1>1 DEF S!ForwardSend, S!ForwardQuit, S!ForwardEnds
  <2>2. UNCHANGED fpc \/ \E l \in {"stopped", "done"} : fpc' = [fpc EXCEPT ![s] = l]
    BY <1>1, Zenon DEF S!ForwardSend, S!ForwardQuit, S!ForwardEnds
  <2> QED
    BY <2>1, <2>2
<1>2. CASE S!ForwardQuitsOnce(s)
  BY <1>2 DEF S!ForwardQuitsOnce, S!EnterOnce
<1>3. CASE S!ForwardReports(s)
  BY <1>3 DEF S!ForwardReports
<1>4. CASE S!UnsubscribeReturns(s)
  BY <1>4 DEF S!UnsubscribeReturns
<1>5. ASSUME NEW u \in User, S!Unsubscribe(s, u) \/ S!UserClosesErr(s, u) \/ S!UserClosesChan(s, u)
      PROVE  UNCHANGED <<fpc, passed, once, quit, unsub>>
  BY <1>5 DEF S!Unsubscribe, S!UserClosesErr, S!UserClosesChan
<1>6. ASSUME NEW u \in User, S!UserQuitsOnce(s, u)
      PROVE  /\ UNCHANGED <<fpc, passed>> /\ quit' = quit \cup {s}
             /\ once' = [once EXCEPT ![s] = u] /\ unsub' = [unsub EXCEPT ![s] = "call"]
  BY <1>6 DEF S!UserQuitsOnce, S!EnterOnce
<1>7. ASSUME NEW u \in User, S!UserLeavesOnce(s, u)
      PROVE  /\ UNCHANGED <<fpc, passed, quit, unsub>>
             /\ \/ UNCHANGED once
                \/ unsub[s] # "idle" /\ once' = [once EXCEPT ![s] = "done"]
  BY <1>7 DEF S!UserLeavesOnce
<1>8. CASE UNCHANGED <<fpc, passed, once, quit, unsub>>
  BY <1>8
<1>9. CASE \E u \in User : S!UserQuitsOnce(s, u)
  BY <1>9, <1>6
<1>10. CASE \E u \in User : S!UserLeavesOnce(s, u)
  BY <1>10, <1>7
<1> QED
  BY <1>1, <1>2, <1>3, <1>4, <1>5, <1>8, <1>9, <1>10, Zenon
  DEF SubStep, S!ForwardStep, S!UserStep

\* The handler is given a notification only if it is the next one: a subscription
\* it knows has been given all that the server sent before.
LEMMA NextInHand ==
  ASSUME TypeInv, FeedInv, OrderInv, HandleNotification, NEW s \in Sub,
         Registered(s) \/ s \in clientSubs, HasNote(todo, s)
  PROVE  /\ Head(todo) = Notify(s, passed[s] + 1) /\ Tail(todo) = <<>>
         /\ s \in clientSubs
<1>1. s \in clientSubs
  BY DEF OrderInv
<1>2. todo = <<Notify(s, passed[s] + 1)>>
  BY <1>1 DEF FeedInv, Feed
<1>3. PICK e : e = Notify(s, passed[s] + 1)
  OBVIOUS
<1>4. Head(<<e>>) = e /\ Tail(<<e>>) = <<>>
  OBVIOUS
<1> QED
  BY <1>1, <1>2, <1>3, <1>4

\* What the server has sent is in the hands of the client or was delivered.
LEMMA FeedInvNext ==
  ASSUME TypeInv, LockInv, ReaderInv, MoveInv, HandInv, WireInv, QuietInv, OrderInv,
         FeedInv, HeldInv, [ClientNext]_clientVars
  PROVE  FeedInv'
<1>n. [Next]_vars
  BY ClientNextNext
<1>t. /\ rmsg \in [Conn -> Seq(Message)] /\ conn \in Conn /\ sent \in [Sub -> 0..MaxNotif]
      /\ passed \in [Sub -> Nat] /\ MaxNotif \in Nat /\ clientSubs \subseteq Sub
  BY RequestAssumption DEF TypeInv, TypeOK, FeedInv
<1>v. \A s \in Sub : Active(s) => Active(s)'
  BY <1>n, ActiveNext
<1>e. \A s \in Sub : ~HasNote(<<>>, s)
  BY NoteFacts
<1>r. \A s \in Sub : resp[s] = <<>>
  BY DEF HeldInv
<1>q. ASSUME NEW s \in Sub, ~Active(s)
      PROVE  passed[s] = 0 /\ sent[s] = 0 /\ ~HasNote(todo, s) /\ ~HasNote(rmsg[conn], s)
  BY <1>t, <1>q DEF FeedInv, QuietInv
\* A step that delivers nothing, and moves the messages as RpcRequests does.
<1>0. ASSUME UNCHANGED passed,
             \A s \in Sub : Registered(s)' \/ s \in clientSubs' => Feed(s)'
      PROVE  FeedInv'
  BY <1>0, <1>t, <1>v DEF FeedInv
<1>1. ASSUME ClientHandleNotification PROVE FeedInv'
  <2> DEFINE m == Head(todo)
  <2>0. /\ HandleNotification /\ UNCHANGED <<clientSubs, respWait>>
        /\ m.type = "notification"
    BY <1>1 DEF ClientHandleNotification, HandleNotification, reqVars
  <2>1. /\ todo # <<>> /\ todo \in Seq(Message) /\ todo' = Tail(todo)
        /\ UNCHANGED <<conn, rmsg, active, sent>>
    BY <2>0, HandleEffect
  <2>2. HasNote(todo, m.sub)
    BY <2>0, <2>1, NoteQueue
  <2>3. ASSUME NEW s \in Sub, Registered(s) \/ s \in clientSubs, HasNote(todo, s)
        PROVE  m = Notify(s, passed[s] + 1) /\ todo' = <<>> /\ s \in clientSubs
    BY <2>0, <2>1, <2>3, NextInHand
  <2>4. CASE m.sub \in clientSubs
    <3>1. PICK t \in Sub : t = m.sub
      BY <1>t, <2>4
    <3>2. /\ m = Notify(t, passed[t] + 1) /\ todo' = <<>>
      BY <2>2, <2>3, <2>4, <3>1
    <3>3. m.n = passed[t] + 1
      BY <3>2 DEF Notify
    <3>4. passed' = [passed EXCEPT ![t] = passed[t] + 1]
      <4>1. S!Deliver(m.sub, m.n)
        BY <1>1, <2>4 DEF ClientHandleNotification
      <4>2. passed' = [passed EXCEPT ![m.sub] = m.n]
        BY <4>1 DEF S!Deliver
      <4> QED
        BY <3>1, <3>3, <4>2, Zenon
    <3>5. Active(t) /\ HasNote(todo, t)
      BY <2>2, <3>1 DEF QuietInv
    <3>6. ASSUME NEW s \in Sub, Registered(s)' \/ s \in clientSubs' PROVE Feed(s)'
      <4>1. Registered(s) \/ s \in clientSubs
        BY <2>0, <3>6 DEF Registered, Ids
      <4>2. Feed(s)
        BY <4>1 DEF FeedInv
      <4>3. ~HasNote(todo', s) /\ rmsg'[conn'] = rmsg[conn] /\ sent'[s] = sent[s]
        BY <1>e, <2>1, <3>2, Zenon
      <4>4. CASE s = t
        <5>1. passed'[s] = passed[s] + 1 /\ HasNote(todo, s)
          BY <1>t, <3>4, <3>5, <4>4
        <5> QED
          BY <1>t, <4>2, <4>3, <5>1 DEF Feed, Count
      <4>5. CASE s # t
        <5>1. passed'[s] = passed[s]
          BY <1>t, <3>4, <4>5
        <5>2. ASSUME HasNote(todo, s) PROVE FALSE
          <6>1. m = Notify(s, passed[s] + 1)
            BY <2>3, <4>1, <5>2
          <6>2. m.sub = s
            BY <6>1 DEF Notify
          <6> QED
            BY <3>1, <4>5, <6>2
        <5> QED
          BY <1>t, <4>2, <4>3, <5>1, <5>2 DEF Feed, Count
      <4> QED
        BY <4>4, <4>5
    <3>7. passed' \in [Sub -> Nat]
      BY <1>t, <3>4
    <3>8. ASSUME NEW s \in Sub, ~Active(s)' PROVE passed'[s] = 0
      BY <1>t, <1>v, <1>q, <3>4, <3>5, <3>8
    <3> QED
      BY <3>6, <3>7, <3>8 DEF FeedInv
  <2>5. CASE m.sub \notin clientSubs
    <3>1. UNCHANGED passed
      BY <1>1, <2>5 DEF ClientHandleNotification, subs
    <3>2. ASSUME NEW s \in Sub, Registered(s)' \/ s \in clientSubs' PROVE Feed(s)'
      <4>1. Registered(s) \/ s \in clientSubs
        BY <2>0, <3>2 DEF Registered, Ids
      <4>2. ASSUME HasNote(todo, s) PROVE FALSE
        <5>1. m = Notify(s, passed[s] + 1) /\ s \in clientSubs
          BY <2>3, <4>1, <4>2
        <5>2. m.sub = s
          BY <5>1 DEF Notify
        <5> QED
          BY <2>5, <5>1, <5>2
      <4>3. ~HasNote(todo', s)
        BY <2>1, <4>2, NoteQueue
      <4>4. Feed(s)
        BY <4>1 DEF FeedInv
      <4>5. rmsg'[conn'] = rmsg[conn] /\ sent'[s] = sent[s]
        BY <2>1
      <4> QED
        BY <3>1, <4>2, <4>3, <4>4, <4>5 DEF Feed, Count
    <3> QED
      BY <1>0, <3>1, <3>2
  <2> QED
    BY <2>4, <2>5
<1>2. ASSUME ClientHandleResponse PROVE FeedInv'
  <2> DEFINE m == Head(todo)
  <2>0. HandleResponse /\ m.type = "response" /\ respWait' \subseteq respWait
    BY <1>2, Zenon DEF ClientHandleResponse, HandleResponse
  <2>1. /\ todo # <<>> /\ todo \in Seq(Message) /\ todo' = Tail(todo)
        /\ UNCHANGED <<conn, rmsg, active, sent>>
    BY <2>0, HandleEffect
  <2>2. UNCHANGED passed
    BY <1>2, Zenon DEF ClientHandleResponse, subs, S!Establish
  <2>3. ASSUME NEW s \in Sub, Registered(s)' \/ s \in clientSubs'
        PROVE  Registered(s) \/ s \in clientSubs
    <3>1. CASE Registered(s)'
      BY <2>0, <3>1 DEF Registered, Ids
    <3>2. CASE s \in clientSubs'
      <4>1. s \in clientSubs \/ (m.id \in respWait /\ Owner[m.id] = s)
        BY <2>0, <3>2, Zenon DEF HandleResponse
      <4>2. respWait \subseteq Id
        BY DEF TypeInv, TypeOK
      <4> QED
        BY <4>1, <4>2, OneId DEF Registered
    <3> QED
      BY <2>3, <3>1, <3>2
  <2>4. ASSUME NEW s \in Sub, Registered(s) \/ s \in clientSubs, HasNote(todo, s) PROVE FALSE
    <3>1. todo = <<Notify(s, passed[s] + 1)>>
      BY <2>4 DEF OrderInv, FeedInv, Feed
    <3>2. m = Notify(s, passed[s] + 1)
      <4>1. PICK e : e = Notify(s, passed[s] + 1)
        OBVIOUS
      <4> QED
        BY <3>1, <4>1
    <3> QED
      BY <2>0, <3>2 DEF Notify
  <2>5. ASSUME NEW s \in Sub, Registered(s)' \/ s \in clientSubs' PROVE Feed(s)'
    <3>1. Feed(s) /\ ~HasNote(todo, s)
      BY <2>3, <2>4, <2>5 DEF FeedInv
    <3>2. ~HasNote(todo', s)
      BY <2>1, <3>1, NoteQueue
    <3>3. rmsg'[conn'] = rmsg[conn] /\ sent'[s] = sent[s]
      BY <2>1
    <3> QED
      BY <2>2, <3>1, <3>2, <3>3 DEF Feed, Count
  <2> QED
    BY <1>0, <2>2, <2>5
<1>3. ASSUME UNCHANGED passed, UNCHANGED todo \/ dpc = "select",
             UNCHANGED clientSubs \/ \E t \in Sub : QuitSub(t)
      PROVE  FeedInv'
  <2>1. ASSUME HandleResponse \/ HandleNotification PROVE FALSE
    <3>1. dpc = "handle"
      BY <2>1, Zenon DEF HandleResponse, HandleNotification
    <3>2. todo # <<>> /\ todo \in Seq(Message) /\ todo' = Tail(todo)
      BY <2>1, HandleEffect
    <3>3. PICK n \in Nat : n = Len(todo) /\ Len(Tail(todo)) = n - 1
      BY <3>2
    <3>4. todo' # todo
      <4>1. ASSUME Tail(todo) = todo PROVE n = n - 1
        BY <3>3, <4>1, Zenon
      <4> QED
        BY <3>2, <4>1
    <3> QED
      BY <1>3, <3>1, <3>4
  <2>2. ASSUME NEW k \in Conn, ReadStep(k), NEW s \in Sub, Registered(s)' \/ s \in clientSubs'
        PROVE  Feed(s)'
    <3>0. /\ rmsg[conn] = <<>>
          /\ UNCHANGED <<respWait, conn, todo, clientSubs>>
      BY <2>2, ReadEffect DEF reqVars, connVars, dispVars
    <3>1. Feed(s) /\ ~HasNote(rmsg[conn], s)
      BY <1>e, <2>2, <3>0 DEF FeedInv, Registered, Ids
    <3>2. sent[s] = passed[s] + Count(todo, s)
      BY <1>t, <3>1 DEF Feed, Count
    <3>3. HasNote(todo, s) => todo = <<Notify(s, passed[s] + 1)>>
      BY <3>1 DEF Feed
    <3>4. ASSUME ~HasNote(rmsg'[conn], s), sent'[s] = sent[s] PROVE Feed(s)'
      BY <1>3, <1>t, <3>0, <3>2, <3>3, <3>4 DEF Feed, Count
    <3>5. ASSUME NEW i \in Id, NEW b \in BOOLEAN, ReadsAnswer(i, b) PROVE Feed(s)'
      <4>1. rmsg'[conn] = <<Respond(i, b)>> /\ sent'[s] = sent[s]
        BY <1>t, <3>5 DEF ReadsAnswer
      <4>2. ~HasNote(<<Respond(i, b)>>, s)
        BY NoteFacts, Zenon
      <4>3. ~HasNote(rmsg'[conn], s)
        BY <4>1, <4>2, Zenon
      <4> QED
        BY <3>4, <4>1, <4>3
    <3>6. ASSUME NEW q, ReadsBatch(q) PROVE Feed(s)'
      <4>1. rmsg'[conn] = q /\ sent'[s] = sent[s] /\ ~HasNote(q, s)
        BY <1>t, <3>6 DEF ReadsBatch
      <4>2. ~HasNote(rmsg'[conn], s)
        BY <4>1, Zenon
      <4> QED
        BY <3>4, <4>1, <4>2
    <3>7. ASSUME NEW t \in Sub, ReadsNotification(t) PROVE Feed(s)'
      <4>1. /\ rmsg'[conn] = <<Notify(t, sent[t] + 1)>>
            /\ sent' = [sent EXCEPT ![t] = sent[t] + 1]
        BY <1>t, <3>7 DEF ReadsNotification
      <4>2. CASE s # t
        <5>1. ~HasNote(<<Notify(t, sent[t] + 1)>>, s)
          BY <4>2, NoteFacts, Zenon
        <5>2. ~HasNote(rmsg'[conn], s)
          BY <4>1, <5>1, Zenon
        <5>3. sent'[s] = sent[s]
          BY <1>t, <4>1, <4>2
        <5> QED
          BY <3>4, <5>2, <5>3
      <4>3. CASE s = t
        <5>1. HasNote(<<Notify(s, sent[s] + 1)>>, s)
          BY NoteFacts, Zenon
        <5>2. HasNote(rmsg'[conn], s)
          BY <4>1, <4>3, <5>1, Zenon
        <5>3. sent'[s] = sent[s] + 1
          BY <1>t, <4>1, <4>3
        <5>4. rmsg'[conn] = <<Notify(s, sent'[s])>>
          BY <4>1, <4>3, <5>3
        <5> QED
          BY <1>3, <1>t, <3>0, <3>2, <3>3, <5>2, <5>3, <5>4, Zenon DEF Feed, Count
      <4> QED
        BY <4>2, <4>3
    <3>8. CASE UNCHANGED <<rmsg, sent>>
      BY <3>1, <3>4, <3>8
    <3> QED
      BY <2>2, <3>5, <3>6, <3>7, <3>8, ReadEffect
  <2>3. ASSUME NEW k \in Conn, DispatchReadOp(k), NEW s \in Sub, Registered(s)' \/ s \in clientSubs'
        PROVE  Feed(s)'
    <3>1. /\ dpc = "select" /\ todo = <<>> /\ todo' = rmsg[conn]
          /\ rmsg' = [rmsg EXCEPT ![conn] = <<>>]
          /\ UNCHANGED <<respWait, clientSubs, conn, active, sent>>
      BY <2>3, TakeEffect
    <3>2. Feed(s)
      BY <2>3, <3>1 DEF FeedInv, Registered, Ids
    <3>3. ~HasNote(todo, s) /\ rmsg'[conn'] = <<>>
      BY <1>e, <1>t, <3>1
    <3>4. ~HasNote(rmsg'[conn'], s)
      BY <1>e, <3>3, Zenon
    <3>5. sent[s] = passed[s] + Count(rmsg[conn], s)
      BY <1>t, <3>2, <3>3 DEF Feed, Count
    <3>6. CASE HasNote(rmsg[conn], s)
      <4>1. sent[s] = passed[s] + 1 /\ todo' = <<Notify(s, sent[s])>>
        BY <3>1, <3>2, <3>5, <3>6 DEF Feed, Count
      <4>2. HasNote(todo', s)
        BY <3>1, <3>6, Zenon
      <4> QED
        BY <1>3, <1>t, <3>1, <3>4, <4>1, <4>2 DEF Feed, Count
    <3>7. CASE ~HasNote(rmsg[conn], s)
      <4>1. ~HasNote(todo', s) /\ sent[s] = passed[s]
        BY <1>t, <3>1, <3>5, <3>7 DEF Count
      <4> QED
        BY <1>3, <1>t, <3>1, <3>4, <4>1 DEF Feed, Count
    <3> QED
      BY <3>6, <3>7
  <2>4. ASSUME NEW k \in Conn, DrainReadOp(k), NEW s \in Sub, Registered(s)' \/ s \in clientSubs'
        PROVE  FALSE
    BY <2>4, DrainEffect DEF Registered
  <2>5. ASSUME UNCHANGED <<rmsg, todo, active, sent>>, NEW s \in Sub,
               \A r \in Sub : Registered(r)' => ~Active(r) \/ (Registered(r) /\ UNCHANGED conn),
               \A r \in Sub : r \in clientSubs' => r \in clientSubs /\ UNCHANGED conn,
               Registered(s)' \/ s \in clientSubs'
        PROVE  Feed(s)'
    <3>1. CASE ~Active(s) /\ ~(s \in clientSubs')
      <4>1. ~Active(s)' /\ conn' \in Conn
        <5>1. (TypeInv)'
          BY <1>n, TypeInvNext
        <5> QED
          BY <2>5, <3>1, <5>1 DEF Active, TypeInv, TypeOK
      <4>2. passed'[s] = 0 /\ sent'[s] = 0 /\ ~HasNote(todo', s) /\ ~HasNote(rmsg'[conn'], s)
        BY <1>3, <2>5, <3>1, <4>1 DEF FeedInv, QuietInv
      <4> QED
        BY <4>2 DEF Feed, Count
    <3>2. CASE (Registered(s) \/ s \in clientSubs) /\ UNCHANGED conn
      BY <1>3, <2>5, <3>2, Zenon DEF FeedInv, Feed, Count
    <3> QED
      BY <2>5, <3>1, <3>2
  <2>6. \A s \in Sub : Registered(s)' \/ s \in clientSubs' => Feed(s)'
    BY <1>n, <2>1, <2>2, <2>3, <2>4, <2>5, MessageSteps
  <2> QED
    BY <1>0, <1>3, <2>6
<1>4. ASSUME NEW t \in Sub, ClientQuitSub(t) PROVE FeedInv'
  <2>1. UNCHANGED passed /\ UNCHANGED todo /\ QuitSub(t)
    BY <1>4 DEF ClientQuitSub, QuitSub, S!QuitByHandler, S!fwdVars
  <2> QED
    BY <1>3, <2>1
<1>5. ASSUME PlainStep, UNCHANGED subs \/ \E s \in Sub : SubStep(s) PROVE FeedInv'
  <2>1. UNCHANGED passed
    BY <1>5, SubEffect DEF subs
  <2>2. UNCHANGED clientSubs /\ (UNCHANGED todo \/ dpc = "select")
    BY <1>5, <1>r, PlainEffect
  <2> QED
    BY <1>3, <2>1, <2>2
<1> QED
  BY <1>1, <1>2, <1>4, <1>5, ClientSteps

\* The handler starts a subscription once, when the answer that accepts it comes,
\* and lets go of it only by telling it to quit.
LEMMA HeldInvNext ==
  ASSUME TypeInv, LockInv, ReaderInv, MoveInv, HandInv, WireInv, QuietInv, OrderInv,
         HeldInv, [ClientNext]_clientVars
  PROVE  HeldInv'
<1>n. [Next]_vars
  BY ClientNextNext
<1>t. /\ outcome \in [Op -> {"none", "ok", "err"}] /\ resp \in [Op -> Seq(Id)]
      /\ respWait \subseteq Id
  BY DEF TypeInv, TypeOK
<1>v. \A s \in Sub : ~Active(s)' => ~Active(s)
  BY <1>n, ActiveNext
<1>g. \A s \in Sub : Registered(s)' => Registered(s) \/ ~Active(s)
  BY <1>n, ActiveNext
<1>h. /\ DOMAIN fpc = Sub /\ DOMAIN once = Sub /\ DOMAIN unsub = Sub
      /\ \A s \in Sub :
           /\ ~Active(s) \/ Registered(s) => fpc[s] = "none"
           /\ s \in clientSubs => fpc[s] # "none"
           /\ s \in respClosed \ opErr \/ outcome[s] = "ok" => s \in clientSubs \cup quit
           /\ once[s] # "free" \/ unsub[s] # "idle" => s \in quit
           /\ resp[s] = <<>>
  BY DEF HeldInv
\* What is to be shown when the request path changes plainly.
<1>0. ASSUME clientSubs \subseteq clientSubs' \cup quit', quit \subseteq quit',
             clientSubs' \subseteq clientSubs,
             DOMAIN fpc' = Sub /\ DOMAIN once' = Sub /\ DOMAIN unsub' = Sub,
             \A t \in Sub : fpc'[t] = "none" <=> fpc[t] = "none",
             \A t \in Sub : once'[t] # "free" \/ unsub'[t] # "idle" => t \in quit',
             \A s \in Sub :
               /\ s \in respClosed' \ opErr' => s \in respClosed \ opErr
               /\ outcome'[s] = "ok" => outcome[s] = "ok" \/ s \in respClosed \ opErr
               /\ resp'[s] = <<>>
      PROVE  HeldInv'
  <2> SUFFICES ASSUME NEW s \in Sub
      PROVE  /\ ~Active(s)' \/ Registered(s)' => fpc'[s] = "none"
             /\ s \in clientSubs' => fpc'[s] # "none"
             /\ s \in respClosed' \ opErr' \/ outcome'[s] = "ok" => s \in clientSubs' \cup quit'
             /\ once'[s] # "free" \/ unsub'[s] # "idle" => s \in quit'
             /\ resp'[s] = <<>>
    BY <1>0, Zenon DEF HeldInv
  <2>1. ~Active(s)' \/ Registered(s)' => fpc'[s] = "none"
    BY <1>0, <1>v, <1>g, <1>h, Zenon
  <2> QED
    BY <1>0, <1>h, <2>1
<1>1. ASSUME PlainStep, UNCHANGED subs \/ \E s \in Sub : SubStep(s) PROVE HeldInv'
  <2>1. /\ UNCHANGED clientSubs
        /\ \A s \in Sub :
             /\ s \in respClosed' \ opErr' => s \in respClosed \ opErr
             /\ outcome'[s] = "ok" => outcome[s] = "ok" \/ s \in respClosed \ opErr
             /\ resp'[s] = <<>>
    BY <1>1, <1>h, PlainEffect
  <2>2. CASE UNCHANGED subs
    <3>1. UNCHANGED <<fpc, once, unsub, quit>>
      BY <2>2 DEF subs
    <3> QED
      BY <1>0, <1>h, <2>1, <3>1
  <2>3. CASE \E s \in Sub : SubStep(s)
    BY <1>0, <2>1, <2>3, SubEffect
  <2> QED
    BY <1>1, <2>2, <2>3
<1>2. ASSUME ClientHandleNotification PROVE HeldInv'
  <2>1. UNCHANGED <<clientSubs, respClosed, opErr, outcome, resp>>
    BY <1>2 DEF ClientHandleNotification, HandleNotification, Handled, reqVars, callVars
  <2>2. UNCHANGED <<once, unsub, quit>>
    BY <1>2 DEF ClientHandleNotification, subs, S!Deliver, S!onceVars
  <2>3. \/ UNCHANGED fpc
        \/ \E s : fpc[s] = "run" /\ fpc' = [fpc EXCEPT ![s] = "failed"]
    BY <1>2 DEF ClientHandleNotification, subs, S!Deliver
  <2>4. DOMAIN fpc' = Sub /\ \A t \in Sub : fpc'[t] = "none" <=> fpc[t] = "none"
    BY <1>h, <2>3
  <2> QED
    BY <1>0, <1>h, <2>1, <2>2, <2>4
<1>3. ASSUME NEW t \in Sub, ClientQuitSub(t) PROVE HeldInv'
  <2>1. /\ clientSubs' = clientSubs \ {t}
        /\ UNCHANGED <<respClosed, opErr, outcome, resp>>
    BY <1>3 DEF ClientQuitSub, QuitSub, reqVars, callVars
  <2>2. /\ UNCHANGED <<fpc, unsub>>
        /\ \/ once' = [once EXCEPT ![t] = "done"] /\ quit' = quit \cup {t}
           \/ once[t] = "done" /\ UNCHANGED <<once, quit>>
    BY <1>3 DEF ClientQuitSub, S!QuitByHandler, S!fwdVars
  <2>3. t \in quit' /\ quit \subseteq quit' /\ DOMAIN once' = Sub
    <3>1. once[t] = "done" => t \in quit
      BY <1>h, Zenon
    <3> QED
      BY <1>h, <2>2, <3>1, Zenon
  <2>4. ASSUME NEW s \in Sub, once'[s] # "free" \/ unsub'[s] # "idle" PROVE s \in quit'
    <3>1. CASE s = t
      BY <2>3, <3>1
    <3>2. CASE s # t
      <4>1. once'[s] = once[s] /\ unsub'[s] = unsub[s]
        BY <1>h, <2>2, <3>2, Zenon
      <4> QED
        BY <1>h, <2>3, <2>4, <4>1, Zenon
    <3> QED
      BY <3>1, <3>2
  <2> QED
    BY <1>0, <1>h, <2>1, <2>2, <2>3, <2>4, Zenon
<1>4. ASSUME ClientHandleResponse PROVE HeldInv'
  <2> DEFINE m == Head(todo)
  <2>0. HandleResponse /\ m.type = "response" /\ respWait' = respWait \ {m.id} /\ UNCHANGED outcome
    BY <1>4, Zenon DEF ClientHandleResponse, HandleResponse, Handled, callVars
  <2>1. todo # <<>> /\ todo \in Seq(Message) /\ UNCHANGED active
    BY <2>0, HandleEffect
  <2>2. CASE m.id \in respWait /\ Owner[m.id] \in Sub /\ m.ok
    <3>1. PICK s \in Sub : s = Owner[m.id]
      BY <2>2
    <3>2. /\ respClosed' = respClosed \cup {s} /\ clientSubs' = clientSubs \cup {s}
          /\ UNCHANGED <<opErr, resp>>
      BY <2>0, <2>2, <3>1, Zenon DEF HandleResponse
    <3>3. fpc' = [fpc EXCEPT ![s] = "run"] /\ UNCHANGED <<once, unsub, quit>>
      BY <1>4, <2>2, <3>1, Zenon DEF ClientHandleResponse, S!Establish, S!onceVars
    <3>4. Active(s)
      <4>1. Accepts(todo, Owner[m.id])
        BY <2>0, <2>1, <2>2, NoteQueue
      <4>2. Accepts(todo, s)
        BY <3>1, <4>1, Zenon
      <4> QED
        BY <4>2 DEF QuietInv
    <3>5. ~Registered(s)'
      <4>1. m.id \in Id /\ Ids(s) = {m.id}
        BY <1>t, <2>2, <3>1, OneId
      <4>2. Ids(s) \cap respWait' = {}
        BY <2>0, <4>1
      <4> QED
        BY <4>2 DEF Registered, Ids
    <3>6. Active(s)'
      BY <2>1, <3>4 DEF Active
    <3> SUFFICES ASSUME NEW r \in Sub
        PROVE  /\ ~Active(r)' \/ Registered(r)' => fpc'[r] = "none"
               /\ r \in clientSubs' => fpc'[r] # "none"
               /\ r \in respClosed' \ opErr' \/ outcome'[r] = "ok" => r \in clientSubs' \cup quit'
               /\ once'[r] # "free" \/ unsub'[r] # "idle" => r \in quit'
               /\ resp'[r] = <<>>
      BY <1>h, <3>3, Zenon DEF HeldInv
    <3>7. CASE r = s
      BY <1>h, <2>0, <3>2, <3>3, <3>5, <3>6, <3>7, Zenon
    <3>8. CASE r # s
      <4>1. fpc'[r] = fpc[r]
        BY <1>h, <3>3, <3>8, Zenon
      <4>2. ~Active(r)' \/ Registered(r)' => fpc'[r] = "none"
        BY <1>h, <1>v, <1>g, <4>1, Zenon
      <4> QED
        BY <1>h, <2>0, <3>2, <3>3, <3>8, <4>1, <4>2, Zenon
    <3> QED
      BY <3>7, <3>8, Zenon
  <2>3. CASE ~(m.id \in respWait /\ Owner[m.id] \in Sub /\ m.ok)
    <3>1. UNCHANGED <<fpc, once, unsub, quit>>
      <4>1. UNCHANGED subs
        BY <1>4, <2>3 DEF ClientHandleResponse
      <4> QED
        BY <4>1 DEF subs
    <3>2. UNCHANGED clientSubs
      BY <2>0, <2>3, Zenon DEF HandleResponse
    <3>3. \A s \in Sub : s \in respClosed' \ opErr' => s \in respClosed \ opErr
      BY <2>0, <2>3, Zenon DEF HandleResponse
    <3>4. \A s \in Sub : resp'[s] = <<>>
      <4>1. UNCHANGED resp \/ (Owner[m.id] \notin Sub /\
              resp' = [resp EXCEPT ![Owner[m.id]] = Append(resp[Owner[m.id]], m.id)])
        BY <2>0, Zenon DEF HandleResponse
      <4>2. \A s \in Sub : s \in Op
        BY OneId
      <4>3. CASE UNCHANGED resp
        BY <1>h, <4>3, Zenon
      <4>4. ASSUME Owner[m.id] \notin Sub, NEW q, NEW s \in Sub,
                   resp' = [resp EXCEPT ![Owner[m.id]] = q]
            PROVE  resp'[s] = <<>>
        <5>1. resp'[s] = resp[s]
          BY <1>t, <4>2, <4>4
        <5> QED
          BY <1>h, <5>1
      <4> QED
        BY <4>1, <4>3, <4>4, Zenon
    <3> QED
      BY <1>0, <1>h, <2>0, <3>1, <3>2, <3>3, <3>4, Zenon
  <2> QED
    BY <2>2, <2>3, Zenon
<1> QED
  BY <1>1, <1>2, <1>3, <1>4, ClientSteps

\* All that the request path keeps.
RequestInv ==
  /\ TypeInv /\ LockInv /\ ReaderInv /\ CodecInv /\ RegInv /\ ClosingInv /\ FreshInv
  /\ MoveInv /\ DialInv /\ HandInv /\ WireInv /\ QuietInv /\ OrderInv

\* Every step keeps what is known of the request path.
LEMMA RequestInvNext ==
  ASSUME RequestInv, [Next]_vars
  PROVE  RequestInv'
BY TypeInvNext, LockInvNext, ReaderInvNext, CodecInvNext, RegInvNext, ClosingInvNext,
   FreshInvNext, MoveInvNext, DialInvNext, HandInvNext, WireInvNext, QuietInvNext,
   OrderInvNext, Zenon DEF RequestInv

\* It holds when the client starts.
LEMMA RequestInvInit == Init => RequestInv
<1> SUFFICES ASSUME Init PROVE RequestInv
  OBVIOUS
<1>1. TypeInv /\ LockInv /\ ReaderInv /\ RegInv /\ ClosingInv /\ FreshInv
  BY TypeInvInit, LockInvInit, ReaderInvInit, FreshInvInit
<1>2. MoveInv /\ CodecInv
  BY DEF Init, MoveInv, CodecInv, Owned, Handover
<1>3. DialInv /\ HandInv
  BY RequestAssumption DEF Init, DialInv, HandInv, Handover
<1>4. \A s \in Sub : ~Active(s) /\ ~Registered(s) /\ ~HasNote(<<>>, s) /\ ~Accepts(<<>>, s)
  BY NoteFacts DEF Init, Active, Registered
<1>5. WireInv
  <2>1. \A k \in Conn : wire[k] = {}
    BY DEF Init
  <2>2. conn \in Conn
    BY <1>1 DEF TypeInv, TypeOK
  <2> QED
    BY <1>4, <2>1, <2>2, Zenon DEF WireInv
<1>6. QuietInv
  <2>1. todo = <<>> /\ \A k \in Conn : rmsg[k] = <<>>
    BY DEF Init
  <2>2. \A s \in Sub : sent[s] = 0
    BY DEF Init
  <2> QED
    BY <1>4, <2>1, <2>2, Zenon DEF QuietInv
<1>7. OrderInv
  BY <1>4 DEF OrderInv
<1> QED
  BY <1>1, <1>2, <1>3, <1>5, <1>6, <1>7 DEF RequestInv

\* The invariant of the whole client.
ClientInv == RequestInv /\ FeedInv /\ HeldInv

\* Every step of the client keeps it.
LEMMA ClientInvNext ==
  ASSUME ClientInv, [ClientNext]_clientVars
  PROVE  ClientInv'
<1>1. RequestInv'
  BY ClientNextNext, RequestInvNext DEF ClientInv
<1>2. FeedInv' /\ HeldInv'
  BY FeedInvNext, HeldInvNext, Zenon DEF ClientInv, RequestInv
<1> QED
  BY <1>1, <1>2 DEF ClientInv

\* It holds when the client starts.
LEMMA ClientInvInit == ClientInit => ClientInv
<1> SUFFICES ASSUME ClientInit PROVE ClientInv
  OBVIOUS
<1>1. Init /\ S!SubInit
  BY DEF ClientInit
<1>2. RequestInv
  BY <1>1, RequestInvInit
<1>3. \A s \in Sub : ~Registered(s) /\ s \notin clientSubs
  BY <1>1 DEF Init, Registered
<1>4. FeedInv
  BY <1>1, <1>3 DEF S!SubInit, FeedInv
<1>5. \A s \in Sub : s \in Op
  BY OneId
<1>6. HeldInv
  BY <1>1, <1>5 DEF Init, S!SubInit, HeldInv
<1> QED
  BY <1>2, <1>4, <1>6 DEF ClientInv

\* For every number of calls, subscriptions, connections and every order of accept,
\* notification, error, Unsubscribe and Close: a subscription that Subscribe returned
\* is the handler's, which feeds it, or was told to quit.
THEOREM NoSubscriptionLost == ClientSpec => []NoZombieSubscription
<1>1. ClientInv => NoZombieSubscription
  BY DEF ClientInv, HeldInv, NoZombieSubscription, Subscribed
<1> QED
  BY <1>1, ClientInvInit, ClientInvNext, PTL DEF ClientSpec

\* Every step of the client is a step a subscription allows.
LEMMA SubscriptionStep ==
  ASSUME ClientInv, [ClientNext]_clientVars
  PROVE  [S!SubNext]_(S!subVars)
<1> USE DEF S!fwdVars, S!onceVars, S!errVars, S!userVars
<1>1. ASSUME UNCHANGED subs PROVE UNCHANGED S!subVars
  BY <1>1 DEF subs, S!subVars
<1>2. ASSUME NEW s \in Sub, SubStep(s) PROVE S!SubNext
  BY <1>2, Zenon DEF SubStep, S!SubNext
<1>3. ASSUME NEW s \in Sub, ClientQuitSub(s) PROVE S!SubNext
  <2>1. fpc[s] # "none"
    BY <1>3 DEF ClientQuitSub, QuitSub, ClientInv, HeldInv
  <2>2. \E err \in {"nil", "err"} : S!QuitByHandler(s, err)
    BY <1>3 DEF ClientQuitSub
  <2> QED
    BY <2>1, <2>2, Zenon DEF S!SubNext
<1>4. CASE ClientHandleResponse
  <2>1. UNCHANGED subs \/ \E s \in Sub : S!Establish(s)
    BY <1>4 DEF ClientHandleResponse
  <2> QED
    BY <1>1, <2>1, Zenon DEF S!SubNext
<1>5. CASE ClientHandleNotification
  <2> DEFINE m == Head(todo)
  <2>1. CASE m.sub \in clientSubs
    <3>1. HandleNotification /\ S!Deliver(m.sub, m.n) /\ m.type = "notification"
      BY <1>5, <2>1 DEF ClientHandleNotification, HandleNotification
    <3>2. TypeInv /\ FeedInv /\ OrderInv /\ HeldInv
      BY DEF ClientInv, RequestInv
    <3>3. clientSubs \subseteq Sub
      BY <3>2 DEF TypeInv, TypeOK
    <3>4. PICK s \in Sub : s = m.sub
      BY <2>1, <3>3
    <3>5. todo # <<>> /\ todo \in Seq(Message)
      BY <3>1, <3>2, HandleEffect
    <3>6. HasNote(todo, m.sub)
      BY <3>1, <3>5, NoteQueue, Zenon
    <3>7. HasNote(todo, s)
      BY <3>4, <3>6, Zenon
    <3>8. m = Notify(s, passed[s] + 1)
      BY <2>1, <3>1, <3>2, <3>4, <3>7, NextInHand
    <3>9. m.n = passed[s] + 1
      BY <3>8 DEF Notify
    <3>10. m.n \in 1..MaxNotif
      <4>1. m \in Message
        BY <3>5
      <4> QED
        BY <3>1, <4>1 DEF Message, Response, Notification
    <3>11. passed[s] < MaxNotif
      <4>1. passed[s] \in Nat /\ MaxNotif \in Nat
        BY <3>2, RequestAssumption DEF FeedInv
      <4> QED
        BY <3>9, <3>10, <4>1
    <3>12. fpc[s] # "none"
      BY <2>1, <3>2, <3>4 DEF HeldInv
    <3>13. S!Deliver(s, passed[s] + 1)
      BY <3>1, <3>4, <3>9
    <3> QED
      BY <3>11, <3>12, <3>13, Zenon DEF S!SubNext
  <2>2. CASE m.sub \notin clientSubs
    BY <1>1, <1>5, <2>2 DEF ClientHandleNotification
  <2> QED
    BY <2>1, <2>2
<1> HIDE DEF S!fwdVars, S!onceVars, S!errVars, S!userVars
<1> QED
  BY <1>1, <1>2, <1>3, <1>4, <1>5, ClientSteps

\* What the whole client does to its subscriptions is what ClientSubscription allows:
\* requests, reconnects and Close never feed one a notification out of order, twice or
\* with a gap, so that what is proved of subscriptions alone holds in the client.
THEOREM ClientFeedsSubscriptions == ClientSpec => SubscriptionRefined
<1>1. ClientInit => S!SubInit
  BY DEF ClientInit
<1> QED
  BY <1>1, SubscriptionStep, ClientInvInit, ClientInvNext, PTL
  DEF ClientSpec, SubscriptionRefined, S!SubSpec

=============================================================================
