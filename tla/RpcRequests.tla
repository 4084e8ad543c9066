----------------------------- MODULE RpcRequests -----------------------------
(***************************************************************************)
(* The request path of gethrpc.Client over a stream transport (websocket,  *)
(* IPC, stdio): the goroutines that run CallContext, BatchCallContext,     *)
(* Notify and the request half of Subscribe, the dispatch goroutine with   *)
(* the handler of the current connection, one read goroutine for each      *)
(* connection, and the goroutines that run Client.Close.                   *)
(*                                                                         *)
(* What a subscription does once it is established belongs to              *)
(* ClientSubscription; RpcClient composes the two.  In this module alone   *)
(* deliver and quitWithError always return.                                *)
(***************************************************************************)
EXTENDS Naturals, Sequences, FiniteSets

CONSTANTS
  Op,        \* requests, each sent by a goroutine of its own
  Sub,       \* the requests that are Subscribe calls (op.sub # nil)
  Id,        \* the request ids that nextID hands out
  Owner,     \* [Id -> Op]: the request an id was issued for
  Deadline,  \* the requests whose context can be cancelled
  Closer,    \* goroutines that call Client.Close
  MaxConn,   \* bound: connections that can be established
  MaxNotif,  \* bound: notifications the server sends per subscription
  MaxBatch,  \* bound: messages in an array the server sends
  NoOp       \* nil

Ids(op) == {i \in Id : Owner[i] = op}
Size(op) == Cardinality(Ids(op))
Conn == 1..MaxConn

\* nextID never hands out an id twice, so an id has one owner.  A Subscribe
\* request has exactly one id, a Notify none, a batch as many as it likes.
ASSUME RequestAssumption ==
  /\ Sub \subseteq Op /\ Deadline \subseteq Op
  /\ NoOp \notin Op
  /\ Owner \in [Id -> Op] /\ IsFiniteSet(Id)
  /\ \A s \in Sub : \E i \in Id : Ids(s) = {i}
  /\ MaxConn \in Nat \ {0} /\ MaxNotif \in Nat /\ MaxBatch \in Nat

\* What a connection carries to the client.  The payload of an answer is its
\* id; ok tells a subscription id from an error object.
Response == [type : {"response"}, id : Id, ok : BOOLEAN]
Notification == [type : {"notification"}, sub : Sub, n : 1..MaxNotif]
Message == Response \cup Notification

VARIABLES
  pc,          \* [Op -> where the goroutine of the request is]
  ctxDone,     \* requests whose context has been cancelled
  outcome,     \* [Op -> what the call returned]
  got,         \* [Op -> Seq(Id)]: answers the caller took from op.resp
  respWait,    \* handler.respWait: the registered ids
  resp,        \* [Op -> Seq(Id)]: contents of the channel op.resp
  respClosed,  \* requests whose op.resp is closed
  opErr,       \* requests with op.err # nil
  lastOp,      \* dispatch: the request that holds the write lock
  reqSent,     \* contents of the channel reqSent, of capacity one
  writeConn,   \* Client.writeConn, 0 for nil
  nconn,       \* connections dialled so far; they are 1..nconn
  codecClosed, \* connections on which codec.Close was called
  conn,        \* dispatch: the connection of the current handler
  reading,     \* dispatch: the flag of the same name
  rd,          \* [Conn -> where the read goroutine is]
  rmsg,        \* [Conn -> Seq(Message)]: the readOp it offers
  wire,        \* [Conn -> SUBSET Id]: requests the server has to answer
  active,      \* [Conn -> SUBSET Sub]: subscriptions the server feeds
  sent,        \* [Sub -> Nat]: notifications sent so far
  dpc,         \* where dispatch is
  cont,        \* which case of the select the handler is closed for
  todo,        \* messages of the current readOp that are not handled yet
  clientSubs,  \* handler.clientSubs
  closing,     \* channel closing is closed
  didClose,    \* channel didClose is closed
  cpc          \* [Closer -> where the goroutine in Close is]

callVars == <<pc, ctxDone, outcome, got>>
reqVars  == <<respWait, resp, respClosed, opErr>>
lockVars == <<lastOp, reqSent, writeConn>>
connVars == <<nconn, codecClosed, conn, reading>>
readVars == <<rd, rmsg, wire, active, sent>>
dispVars == <<dpc, cont, todo, clientSubs>>
endVars  == <<closing, didClose, cpc>>
vars == <<callVars, reqVars, lockVars, connVars, readVars, dispVars, endVars>>

-----------------------------------------------------------------------------
(* The caller: CallContext, BatchCallContext, Notify, Subscribe. *)

Goto(op, l) == pc' = [pc EXCEPT ![op] = l]

Return(op, r) ==
  /\ Goto(op, "done")
  /\ outcome' = [outcome EXCEPT ![op] = r]

\* newMessage, and the requestOp with an empty channel; on to send.
Start(op) ==
  /\ pc[op] = "idle"
  /\ Goto(op, "send")
  /\ UNCHANGED <<ctxDone, outcome, got, reqVars, lockVars, connVars, readVars,
                 dispVars, endVars>>

\* The deadline of the context expires, or the application cancels it.
Cancel(op) ==
  /\ op \in Deadline \ ctxDone
  /\ pc[op] \notin {"idle", "done"}
  /\ ctxDone' = ctxDone \cup {op}
  /\ UNCHANGED <<pc, outcome, got, reqVars, lockVars, connVars, readVars,
                 dispVars, endVars>>

\* send: the two cases of the select that give up; ReqInit is the third.
SendAborted(op) ==
  /\ pc[op] = "send"
  /\ op \in ctxDone \/ closing
  /\ Return(op, "err")
  /\ UNCHANGED <<ctxDone, got, reqVars, lockVars, connVars, readVars,
                 dispVars, endVars>>

\* checkWriteConn.
CheckWriteConn(op) ==
  /\ pc[op] = "check"
  /\ LET dead == writeConn = 0 \/ writeConn \in codecClosed IN
       \/ dead /\ Goto(op, "dial")
       \/ writeConn # 0 /\ op \in ctxDone /\ Goto(op, "failed")
       \/ ~dead /\ op \notin ctxDone /\ Goto(op, "write")
  /\ UNCHANGED <<ctxDone, outcome, got, reqVars, lockVars, connVars, readVars,
                 dispVars, endVars>>

\* reconnect: reconnectFunc is nil or fails, or returns a new connection.
Dial(op) ==
  /\ pc[op] = "dial"
  /\ \/ Goto(op, "failed") /\ UNCHANGED nconn
     \/ /\ nconn < MaxConn
        /\ nconn' = nconn + 1
        /\ Goto(op, "offer")
  /\ UNCHANGED <<ctxDone, outcome, got, reqVars, lockVars, codecClosed, conn,
                 reading, readVars, dispVars, endVars>>

\* Mutant: the connection nobody takes is not closed.
OfferRefusedLeaks(op) ==
  /\ pc[op] = "offer"
  /\ didClose
  /\ Goto(op, "failed")
  /\ UNCHANGED <<ctxDone, outcome, got, reqVars, lockVars, connVars, readVars,
                 dispVars, endVars>>

\* reconnect: dispatch is gone, the new connection is closed again.
OfferRefused(op) ==
  /\ pc[op] = "offer"
  /\ didClose
  /\ codecClosed' = codecClosed \cup {nconn}
  /\ Goto(op, "failed")
  /\ UNCHANGED <<ctxDone, outcome, got, reqVars, lockVars, nconn, conn,
                 reading, readVars, dispVars, endVars>>

\* write: the server gets the request, or the write fails.  Either can happen
\* on a connection that the peer has already abandoned.
Write(op) ==
  /\ pc[op] = "write"
  /\ \/ /\ writeConn \notin codecClosed
        /\ wire' = [wire EXCEPT ![writeConn] = @ \cup Ids(op)]
        /\ Goto(op, "written")
        /\ UNCHANGED writeConn
     \/ /\ writeConn' = 0
        /\ Goto(op, "failed")
        /\ UNCHANGED wire
  /\ UNCHANGED <<ctxDone, outcome, got, reqVars, lastOp, reqSent, connVars, rd,
                 rmsg, active, sent, dispVars, endVars>>

\* send: reqSent <- err, the end of send; a Notify returns here.
Sent(op) ==
  /\ reqSent = "empty"
  /\ \/ pc[op] = "failed" /\ reqSent' = "err" /\ Return(op, "err")
     \/ pc[op] = "written" /\ reqSent' = "nil" /\
        IF Ids(op) = {} THEN Return(op, "ok")
                        ELSE Goto(op, "wait") /\ UNCHANGED outcome
  /\ UNCHANGED <<ctxDone, got, reqVars, lastOp, writeConn, connVars, readVars,
                 dispVars, endVars>>

\* Mutant: a batch returns with its first answer.
WaitReceiveOnce(op) ==
  /\ pc[op] = "wait"
  /\ resp[op] # <<>>
  /\ got' = [got EXCEPT ![op] = Append(@, Head(resp[op]))]
  /\ resp' = [resp EXCEPT ![op] = Tail(@)]
  /\ Return(op, IF op \in opErr THEN "err" ELSE "ok")
  /\ UNCHANGED <<ctxDone, respWait, respClosed, opErr, lockVars, connVars,
                 readVars, dispVars, endVars>>

\* wait takes an answer from op.resp and reads op.err after it.  A batch waits
\* again until it has one answer for each of its ids.
WaitReceive(op) ==
  /\ pc[op] = "wait"
  /\ resp[op] # <<>>
  /\ got' = [got EXCEPT ![op] = Append(@, Head(resp[op]))]
  /\ resp' = [resp EXCEPT ![op] = Tail(@)]
  /\ \/ op \in opErr /\ Return(op, "err")
     \/ op \notin opErr /\
        IF Len(got[op]) + 1 = Size(op) THEN Return(op, "ok")
                                       ELSE UNCHANGED <<pc, outcome>>
  /\ UNCHANGED <<ctxDone, respWait, respClosed, opErr, lockVars, connVars,
                 readVars, dispVars, endVars>>

\* Mutant: wait does not read op.err.
WaitClosedIgnoresErr(op) ==
  /\ pc[op] = "wait"
  /\ resp[op] = <<>> /\ op \in respClosed
  /\ Return(op, "ok")
  /\ UNCHANGED <<ctxDone, got, reqVars, lockVars, connVars, readVars,
                 dispVars, endVars>>

\* wait finds op.resp closed: the request was cancelled, or it is a Subscribe.
WaitClosed(op) ==
  /\ pc[op] = "wait"
  /\ resp[op] = <<>> /\ op \in respClosed
  /\ Return(op, IF op \in opErr THEN "err" ELSE "ok")
  /\ UNCHANGED <<ctxDone, got, reqVars, lockVars, connVars, readVars,
                 dispVars, endVars>>

\* wait: ctx.Done() is ready.
WaitCtxDone(op) ==
  /\ pc[op] = "wait"
  /\ op \in ctxDone
  /\ Goto(op, "giveup")
  /\ UNCHANGED <<ctxDone, outcome, got, reqVars, lockVars, connVars, readVars,
                 dispVars, endVars>>

\* Mutant: the send on reqTimeout is not in a select with closing.
GiveUpBlocks(op) == FALSE

\* wait: dispatch is quitting and does not take the timeout any more.
GiveUpClosing(op) ==
  /\ pc[op] = "giveup"
  /\ closing
  /\ Return(op, "err")
  /\ UNCHANGED <<ctxDone, got, reqVars, lockVars, connVars, readVars,
                 dispVars, endVars>>

-----------------------------------------------------------------------------
(* The server and the read goroutine of a connection. *)

Respond(i, b) == [type |-> "response", id |-> i, ok |-> b]
Notify(s, n) == [type |-> "notification", sub |-> s, n |-> n]

Offer(k, msgs) ==
  /\ rd[k] = "read" /\ k \notin codecClosed
  /\ rd' = [rd EXCEPT ![k] = "op"]
  /\ rmsg' = [rmsg EXCEPT ![k] = msgs]
  /\ UNCHANGED <<callVars, reqVars, lockVars, connVars, dispVars, endVars>>

\* read: codec.Read returns the answer to one request.  Only a Subscribe tells
\* an error answer from a result.
ReadResponse(k, i, b) ==
  /\ i \in wire[k]
  /\ b \/ Owner[i] \in Sub
  /\ wire' = [wire EXCEPT ![k] = @ \ {i}]
  /\ active' = IF b /\ Owner[i] \in Sub
               THEN [active EXCEPT ![k] = @ \cup {Owner[i]}] ELSE active
  /\ Offer(k, <<Respond(i, b)>>)
  /\ UNCHANGED sent

\* read: codec.Read returns an array of answers, in any order.
ReadBatch(k, ids) ==
  /\ \A x, y \in DOMAIN ids : ids[x] = ids[y] => x = y
  /\ \A x \in DOMAIN ids : ids[x] \in wire[k] /\ Owner[ids[x]] \notin Sub
  /\ wire' = [wire EXCEPT ![k] = @ \ {ids[x] : x \in DOMAIN ids}]
  /\ Offer(k, [x \in DOMAIN ids |-> Respond(ids[x], TRUE)])
  /\ UNCHANGED <<active, sent>>

\* read: codec.Read returns a notification of a subscription.
ReadNotification(k, s) ==
  /\ s \in active[k]
  /\ sent[s] < MaxNotif
  /\ sent' = [sent EXCEPT ![s] = @ + 1]
  /\ Offer(k, <<Notify(s, sent[s] + 1)>>)
  /\ UNCHANGED <<wire, active>>

\* read: codec.Read fails, at the latest when the codec has been closed.
ReadFail(k) ==
  /\ rd[k] = "read"
  /\ rd' = [rd EXCEPT ![k] = "err"]
  /\ UNCHANGED <<callVars, reqVars, lockVars, connVars, rmsg, wire, active,
                 sent, dispVars, endVars>>

-----------------------------------------------------------------------------
(* dispatch and the handler of the current connection. *)

\* Mutants: inflightReq is closed too, although it is moved to the next handler;
\* the requests are closed without an error; the requests are only forgotten.
CancelInflightToo(inflightReq) ==
  LET ops == {Owner[i] : i \in respWait} IN
  /\ respWait' = {}
  /\ respClosed' = respClosed \cup ops
  /\ opErr' = opErr \cup ops
  /\ UNCHANGED resp

CancelWithoutError(inflightReq) ==
  /\ respWait' = {}
  /\ respClosed' = respClosed \cup ({Owner[i] : i \in respWait} \ {inflightReq})
  /\ UNCHANGED <<resp, opErr>>

CancelForgets(inflightReq) ==
  respWait' = {} /\ UNCHANGED <<resp, respClosed, opErr>>

\* cancelAllRequests: every registered request but inflightReq is closed, and
\* all of them, inflightReq included, are removed.
CancelAllRequests(inflightReq) ==
  LET ops == {Owner[i] : i \in respWait} \ {inflightReq} IN
  /\ respWait' = {}
  /\ respClosed' = respClosed \cup ops
  /\ opErr' = opErr \cup ops
  /\ UNCHANGED resp

\* newClientConn and the new read loop, with lastOp registered again.
NewConn(rd1) ==
  /\ conn' = nconn
  /\ reading' = TRUE
  /\ rd' = [rd1 EXCEPT ![nconn] = "read"]
  /\ respWait' = Ids(lastOp)
  /\ clientSubs' = {}

\* case <-c.close, up to close(c.closing).
DispatchClose(x) ==
  /\ dpc = "select"
  /\ cpc[x] = "offer"
  /\ cpc' = [cpc EXCEPT ![x] = "wait"]
  /\ closing' = TRUE
  /\ dpc' = "closing"
  /\ UNCHANGED <<callVars, reqVars, lockVars, connVars, readVars, cont, todo,
                 clientSubs, didClose>>

\* The rest of the deferred function, up to the subscriptions.
Shutdown ==
  /\ dpc = "closing"
  /\ \/ /\ reading
        /\ CancelAllRequests(NoOp)
        /\ dpc' = "quitSubs" /\ cont' = "close"
        /\ UNCHANGED didClose
     \/ /\ ~reading
        /\ didClose' = TRUE
        /\ dpc' = "quit"
        /\ UNCHANGED <<reqVars, cont>>
  /\ UNCHANGED <<callVars, lockVars, connVars, readVars, todo, clientSubs,
                 closing, cpc>>

\* case op := <-c.readOp: the messages are handled one by one.
DispatchReadOp(k) ==
  /\ dpc = "select"
  /\ rd[k] = "op"
  /\ rd' = [rd EXCEPT ![k] = "read"]
  /\ rmsg' = [rmsg EXCEPT ![k] = <<>>]
  /\ todo' = rmsg[k]
  /\ dpc' = "handle"
  /\ UNCHANGED <<callVars, reqVars, lockVars, connVars, wire, active, sent,
                 cont, clientSubs, endVars>>

Handled ==
  /\ todo' = Tail(todo)
  /\ dpc' = IF Len(todo) = 1 THEN "select" ELSE "handle"
  /\ UNCHANGED <<callVars, lockVars, connVars, readVars, cont, endVars>>

\* Mutant: the request is passed on instead of its answer.
HandleResponseRaw ==
  /\ dpc = "handle"
  /\ Head(todo).type = "response"
  /\ LET op == Owner[Head(todo).id] IN
       resp' = [resp EXCEPT ![op] = Append(@, op)]
  /\ UNCHANGED <<respWait, respClosed, opErr, clientSubs>>
  /\ Handled

\* handleResponse.
HandleResponse ==
  /\ dpc = "handle"
  /\ Head(todo).type = "response"
  /\ LET m == Head(todo)
         op == Owner[m.id] IN
     /\ respWait' = respWait \ {m.id}
     /\ \/ /\ m.id \notin respWait              \* unsolicited
          /\ UNCHANGED <<resp, respClosed, opErr, clientSubs>>
       \/ /\ m.id \in respWait /\ op \notin Sub
          /\ Len(resp[op]) < Size(op)          \* op.resp <- msg may block
          /\ resp' = [resp EXCEPT ![op] = Append(@, m.id)]
          /\ UNCHANGED <<respClosed, opErr, clientSubs>>
       \/ /\ m.id \in respWait /\ op \in Sub
          /\ respClosed' = respClosed \cup {op}
          /\ opErr' = IF m.ok THEN opErr ELSE opErr \cup {op}
          /\ clientSubs' = IF m.ok THEN clientSubs \cup {op} ELSE clientSubs
          /\ UNCHANGED resp
  /\ Handled

\* handleSubscriptionResult.
HandleNotification ==
  /\ dpc = "handle"
  /\ Head(todo).type = "notification"
  /\ Handled
  /\ UNCHANGED <<reqVars, clientSubs>>

\* case err := <-c.readErr, up to the subscriptions of the handler.
DispatchReadErr(k) ==
  /\ dpc = "select"
  /\ rd[k] = "err"
  /\ rd' = [rd EXCEPT ![k] = "exit"]
  /\ CancelAllRequests(lastOp)
  /\ dpc' = "quitSubs" /\ cont' = "readErr"
  /\ UNCHANGED <<callVars, lockVars, connVars, rmsg, wire, active, sent, todo,
                 clientSubs, endVars>>

\* Mutant: the previous read loop is not waited for.
ReconnectedWithoutDrain(op) ==
  /\ dpc = "select"
  /\ pc[op] = "offer"
  /\ Goto(op, "write")
  /\ writeConn' = nconn
  /\ NewConn(rd)
  /\ UNCHANGED <<ctxDone, outcome, got, resp, respClosed, opErr, lastOp, reqSent,
                 nconn, codecClosed, rmsg, wire, active, sent, dpc, cont, todo,
                 endVars>>

\* case newcodec := <-c.reconnected, a rendezvous with reconnect, which stores
\* the connection in writeConn and goes on to write.
DispatchReconnected(op) ==
  /\ dpc = "select"
  /\ pc[op] = "offer"
  /\ Goto(op, "write")
  /\ writeConn' = nconn
  /\ \/ /\ reading
        /\ CancelAllRequests(lastOp)
        /\ dpc' = "quitSubs" /\ cont' = "reconnected"
        /\ UNCHANGED <<conn, reading, rd, clientSubs>>
     \/ /\ ~reading
        /\ NewConn(rd)
        /\ UNCHANGED <<resp, respClosed, opErr, dpc, cont>>
  /\ UNCHANGED <<ctxDone, outcome, got, lastOp, reqSent, nconn, codecClosed,
                 rmsg, wire, active, sent, todo, endVars>>

\* cancelAllRequests: one subscription of the handler is removed and quits.  The
\* wait for its quitOnce is in RpcClient; here it takes any time, too.
QuitSub(s) ==
  /\ dpc = "quitSubs"
  /\ s \in clientSubs
  /\ clientSubs' = clientSubs \ {s}
  /\ UNCHANGED <<callVars, reqVars, lockVars, connVars, readVars, dpc, cont,
                 todo, endVars>>

\* Mutant: clientConn.close leaves the codec open.
CodecLeftOpen ==
  /\ dpc = "quitSubs"
  /\ clientSubs = {}
  /\ \/ cont = "readErr" /\ reading' = FALSE /\ dpc' = "select"
     \/ cont # "readErr" /\ dpc' = "drain" /\ UNCHANGED reading
  /\ UNCHANGED <<callVars, reqVars, lockVars, nconn, codecClosed, conn, readVars,
                 cont, todo, clientSubs, endVars>>

\* clientConn.close: codec.Close after the rest of handler.close, which waits for
\* the goroutines that serve the server's calls (callWG).  They are in RpcServer;
\* here the wait takes any time, and Fairness does not say that it ends.
CloseCodec ==
  /\ dpc = "quitSubs"
  /\ clientSubs = {}
  /\ codecClosed' = codecClosed \cup {conn}
  /\ \/ cont = "readErr" /\ reading' = FALSE /\ dpc' = "select"
     \/ cont # "readErr" /\ dpc' = "drain" /\ UNCHANGED reading
  /\ UNCHANGED <<callVars, reqVars, lockVars, nconn, conn, readVars, cont,
                 todo, clientSubs, endVars>>

\* drainRead: a message is dropped.
DrainReadOp(k) ==
  /\ dpc = "drain"
  /\ rd[k] = "op"
  /\ rd' = [rd EXCEPT ![k] = "read"]
  /\ rmsg' = [rmsg EXCEPT ![k] = <<>>]
  /\ UNCHANGED <<callVars, reqVars, lockVars, connVars, wire, active, sent,
                 dispVars, endVars>>

\* drainRead: the read loop is over; dispatch is done, or moves to the new
\* connection.
DrainReadErr(k) ==
  /\ dpc = "drain"
  /\ rd[k] = "err"
  /\ LET rd1 == [rd EXCEPT ![k] = "exit"] IN
       \/ /\ cont = "close"
          /\ rd' = rd1
          /\ didClose' = TRUE
          /\ dpc' = "quit"
          /\ UNCHANGED <<conn, reading, respWait, clientSubs>>
       \/ /\ cont = "reconnected"
          /\ NewConn(rd1)
          /\ dpc' = "select"
          /\ UNCHANGED didClose
  /\ UNCHANGED <<callVars, resp, respClosed, opErr, lockVars, nconn,
                 codecClosed, rmsg, wire, active, sent, cont, todo, closing,
                 cpc>>

\* Mutant: reqInitLock is not set to nil.
ReqInitUnlocked(op) ==
  /\ dpc = "select"
  /\ pc[op] = "send"
  /\ Goto(op, "check")
  /\ lastOp' = op
  /\ respWait' = respWait \cup Ids(op)
  /\ UNCHANGED <<ctxDone, outcome, got, resp, respClosed, opErr, reqSent,
                 writeConn, connVars, readVars, dispVars, endVars>>

\* case op := <-reqInitLock, which is nil while a request holds the lock.
ReqInit(op) ==
  /\ dpc = "select"
  /\ lastOp = NoOp
  /\ pc[op] = "send"
  /\ Goto(op, "check")
  /\ lastOp' = op
  /\ respWait' = respWait \cup Ids(op)
  /\ UNCHANGED <<ctxDone, outcome, got, resp, respClosed, opErr, reqSent,
                 writeConn, connVars, readVars, dispVars, endVars>>

\* case err := <-c.reqSent.
ReqSent ==
  /\ dpc = "select"
  /\ reqSent # "empty"
  /\ respWait' = IF reqSent = "err" THEN respWait \ Ids(lastOp) ELSE respWait
  /\ lastOp' = NoOp
  /\ reqSent' = "empty"
  /\ UNCHANGED <<callVars, resp, respClosed, opErr, writeConn, connVars,
                 readVars, dispVars, endVars>>

\* case op := <-c.reqTimeout; the caller returns ctx.Err().
ReqTimeout(op) ==
  /\ dpc = "select"
  /\ pc[op] = "giveup"
  /\ respWait' = respWait \ Ids(op)
  /\ Return(op, "err")
  /\ UNCHANGED <<ctxDone, got, resp, respClosed, opErr, lockVars, connVars,
                 readVars, dispVars, endVars>>

-----------------------------------------------------------------------------
(* Client.Close. *)

CloseCall(x) ==
  /\ cpc[x] = "idle"
  /\ cpc' = [cpc EXCEPT ![x] = "offer"]
  /\ UNCHANGED <<callVars, reqVars, lockVars, connVars, readVars, dispVars,
                 closing, didClose>>

CloseReturn(x) ==
  /\ cpc[x] \in {"offer", "wait"}
  /\ didClose
  /\ cpc' = [cpc EXCEPT ![x] = "done"]
  /\ UNCHANGED <<callVars, reqVars, lockVars, connVars, readVars, dispVars,
                 closing, didClose>>

-----------------------------------------------------------------------------

Init ==
  /\ pc = [op \in Op |-> "idle"]
  /\ ctxDone = {}
  /\ outcome = [op \in Op |-> "none"]
  /\ got = [op \in Op |-> <<>>]
  /\ respWait = {} /\ respClosed = {} /\ opErr = {}
  /\ resp = [op \in Op |-> <<>>]
  /\ lastOp = NoOp /\ reqSent = "empty" /\ writeConn = 1
  /\ nconn = 1 /\ codecClosed = {} /\ conn = 1 /\ reading = TRUE
  /\ rd = [k \in Conn |-> IF k = 1 THEN "read" ELSE "off"]
  /\ rmsg = [k \in Conn |-> <<>>]
  /\ wire = [k \in Conn |-> {}] /\ active = [k \in Conn |-> {}]
  /\ sent = [s \in Sub |-> 0]
  /\ dpc = "select" /\ cont = "none" /\ todo = <<>> /\ clientSubs = {}
  /\ closing = FALSE /\ didClose = FALSE
  /\ cpc = [x \in Closer |-> "idle"]

\* What the goroutine of a request does by itself.
CallerStep(op) ==
  \/ SendAborted(op) \/ CheckWriteConn(op) \/ Dial(op) \/ OfferRefused(op)
  \/ Write(op) \/ Sent(op) \/ WaitReceive(op) \/ WaitClosed(op)
  \/ WaitCtxDone(op) \/ GiveUpClosing(op)

\* What the read goroutine of a connection does by itself.
ReadStep(k) ==
  \/ \E i \in Id, b \in BOOLEAN : ReadResponse(k, i, b)
  \/ \E n \in 2..MaxBatch : \E ids \in [1..n -> wire[k]] : ReadBatch(k, ids)
  \/ \E s \in Sub : ReadNotification(k, s)
  \/ ReadFail(k)

\* What dispatch does outside of its select statement.
DispatchStep ==
  \/ Shutdown
  \/ HandleResponse \/ HandleNotification
  \/ \E s \in Sub : QuitSub(s)
  \/ CloseCodec
  \/ \E k \in Conn : DrainReadOp(k) \/ DrainReadErr(k)

Next ==
  \/ \E op \in Op : Start(op) \/ Cancel(op) \/ CallerStep(op)
  \/ \E k \in Conn : ReadStep(k)
  \/ DispatchStep
  \/ \E x \in Closer : DispatchClose(x) \/ CloseCall(x) \/ CloseReturn(x)
  \/ \E k \in Conn : DispatchReadOp(k) \/ DispatchReadErr(k)
  \/ \E op \in Op : DispatchReconnected(op) \/ ReqInit(op) \/ ReqTimeout(op)
  \/ ReqSent

Spec == Init /\ [][Next]_vars

\* A goroutine that can run is run, and a select that is reached again and
\* again with a ready case picks it in the end (Go chooses among the ready cases
\* at random).  A closed codec ends its read loop.  The server owes nothing, and
\* that handler.close ends (QuitSub and CloseCodec) is not assumed.
Fairness ==
  /\ \A op \in Op :
       /\ WF_vars(CallerStep(op))
       /\ SF_vars(ReqInit(op) \/ DispatchReconnected(op) \/ ReqTimeout(op))
  /\ \A k \in Conn : WF_vars(k \in codecClosed /\ ReadFail(k))
  /\ \A x \in Closer : SF_vars(DispatchClose(x)) /\ WF_vars(CloseReturn(x))
  /\ WF_vars(dpc # "quitSubs" /\ DispatchStep)

FairSpec == Spec /\ Fairness

-----------------------------------------------------------------------------
(* Properties. *)

Live == {"read", "op", "err"}                    \* a read goroutine that runs
Locked == {"check", "dial", "offer", "write", "written", "failed"}
Queue(op) == got[op] \o resp[op]
Answered(op) == {Queue(op)[x] : x \in DOMAIN Queue(op)}

TypeOK ==
  /\ pc \in [Op -> {"idle", "send", "wait", "giveup", "done"} \cup Locked]
  /\ ctxDone \subseteq Deadline
  /\ outcome \in [Op -> {"none", "ok", "err"}]
  /\ got \in [Op -> Seq(Id)] /\ resp \in [Op -> Seq(Id)]
  /\ respWait \subseteq Id /\ respClosed \subseteq Op /\ opErr \subseteq Op
  /\ lastOp \in Op \cup {NoOp}
  /\ reqSent \in {"empty", "nil", "err"}
  /\ writeConn \in Conn \cup {0}
  /\ nconn \in Conn /\ conn \in Conn /\ codecClosed \subseteq Conn
  /\ reading \in BOOLEAN /\ closing \in BOOLEAN /\ didClose \in BOOLEAN
  /\ rd \in [Conn -> {"off", "exit"} \cup Live]
  /\ rmsg \in [Conn -> Seq(Message)] /\ todo \in Seq(Message)
  /\ wire \in [Conn -> SUBSET Id] /\ active \in [Conn -> SUBSET Sub]
  /\ sent \in [Sub -> 0..MaxNotif]
  /\ dpc \in {"select", "handle", "closing", "quitSubs", "drain", "quit"}
  /\ cont \in {"none", "readErr", "reconnected", "close"}
  /\ clientSubs \subseteq Sub
  /\ cpc \in [Closer -> {"idle", "offer", "wait", "done"}]

\* The write lock that reqInit takes and reqSent releases: a goroutine between
\* the two is the one dispatch knows as lastOp, so writeConn has one user and
\* is not nil when it is written to, the release never blocks on the full
\* channel, and the request dispatch moves to a new connection is never nil.
WriteLockHeld ==
  \A op \in Op :
    /\ pc[op] \in Locked => lastOp = op /\ reqSent = "empty"
    /\ pc[op] = "write" => writeConn # 0

\* A registered id belongs to a request whose op.resp is open and has room for
\* the answer: cancelAllRequests never closes a channel twice, handleResponse
\* never sends on a closed channel and never blocks dispatch.
RegisteredCanBeAnswered ==
  \A i \in respWait :
    /\ Owner[i] \notin respClosed
    /\ i \notin Answered(Owner[i])
    /\ Len(Queue(Owner[i])) < Size(Owner[i])

\* A call gets answers to its own ids only, each at most once, and returns
\* without an error only when it has all of them ("dispatch only sends valid
\* IDs to our channel").
AnswersMatchRequest ==
  \A op \in Op :
    /\ Answered(op) \subseteq Ids(op)
    /\ \A x, y \in DOMAIN Queue(op) : Queue(op)[x] = Queue(op)[y] => x = y
    /\ outcome[op] = "ok" /\ op \notin Sub => Len(got[op]) = Size(op)

\* A request channel that is closed without an error belongs to a Subscribe:
\* CallContext and BatchCallContext never use the nil message they would get.
ClosedMeansError == respClosed \subseteq Sub \cup opErr

\* At most one read goroutine feeds dispatch, and outside of a handover it is
\* the one of the current connection exactly when reading says so: drainRead
\* cannot wait for a loop that is gone or take the error of another one.
OneReader ==
  /\ \A k, l \in Conn : rd[k] \in Live /\ rd[l] \in Live => k = l
  /\ dpc \in {"select", "handle", "closing"} => (reading <=> rd[conn] \in Live)
  /\ dpc = "drain" => rd[conn] \in Live

\* When dispatch has quit no read goroutine is left behind, and every
\* connection ever dialled is closed unless reconnect is still holding it.
NoLeakAfterClose ==
  didClose => /\ \A k \in Conn : rd[k] \notin Live
              /\ \A k \in 1..nconn : k \in codecClosed \/
                   (k = nconn /\ \E op \in Op : pc[op] = "offer")

\* dispatch unregisters an id without answering it or closing its channel only
\* when the caller has given up or the request holds the write lock.
NeverDroppedSilently ==
  [][\A i \in respWait \ respWait' :
       \/ i \in Answered(Owner[i])'
       \/ Owner[i] \in respClosed'
       \/ pc'[Owner[i]] = "done"
       \/ Owner[i] = lastOp]_vars

\* "dispatch has accepted the request and will close the channel when it
\* quits": after dispatch is gone no caller waits on a channel that is neither
\* closed nor holds an answer.
AcceptedIsReleased ==
  didClose => \A op \in Op : pc[op] = "wait" =>
                 op \in respClosed \/ resp[op] # <<>> \/ op \in ctxDone

\* dispatch is not for ever in handler.close.  It can be: DispatchReturns of
\* RpcClient, and callbacks of the client that do not return.
HandlerCloses == []<>(dpc # "quitSubs")

\* Close returns, whatever the server and the callers do, as long as handler.close
\* does: nothing else that dispatch or Close waits for can fail to come.
CloseReturns ==
  HandlerCloses => \A x \in Closer : cpc[x] = "offer" ~> cpc[x] = "done"

\* A call whose context is cancelled returns, as long as handler.close does ("If
\* the context is canceled before the call has successfully returned, CallContext
\* returns").
CancelledReturns ==
  HandlerCloses => \A op \in Op : op \in ctxDone ~> pc[op] = "done"

\* What a goroutine in pc is doing, to someone who sees only the calls.
CallState(l) ==
  CASE l \in Locked -> "sending"
    [] l = "send" -> "called"
    [] l \in {"wait", "giveup"} -> "waiting"
    [] OTHER -> l

CallStates == [op \in Op |-> CallState(pc[op])]

Service == INSTANCE RpcService WITH
  state <- CallStates,
  received <- got,
  result <- outcome,
  closed <- closing

\* The goroutines, locks and connections of the client implement RpcService: with
\* reconnects, late answers, timeouts and Close at any time, a caller sees what it
\* would see of a client that handles one request after the other.
ServiceImplemented == Service!ServiceSpec

=============================================================================
