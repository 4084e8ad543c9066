------------------------------- MODULE RpcHttp -------------------------------
(***************************************************************************)
(* JSON-RPC over HTTP: Client.Call, BatchCall and Notify on an httpConn,   *)
(* Server.ServeHTTP, and the server of module RpcServer between them.      *)
(***************************************************************************)
EXTENDS RpcServer

CONSTANTS
  HttpRequests   \* what may be requested

\* A request: who makes it ("other": not this client), what the host handler and
\* validateRequest look at, and the body.
HttpRequest(kind, verb, host, length, query, accepted, body) ==
  [kind |-> kind, verb |-> verb, host |-> host, length |-> length, query |-> query,
   accepted |-> accepted, body |-> body]
Body(frame) == [shape |-> "frame", frame |-> frame]
NoBody(shape) == [shape |-> shape, frame |-> Frame(FALSE, <<>>)]

\* doRequest of this client.
ClientRequest(kind, msgs) ==
  HttpRequest(kind, "POST", "listed", "fits", FALSE, TRUE, Body(Frame(kind = "batch", msgs)))

\* newMessage and nextID: the ids of the messages that want an answer are valid
\* and different, and none of them is a response.
ASSUME HttpAssumption ==
  \A r \in HttpRequests :
    /\ r.kind \in {"call", "batch", "notify", "other"} /\ r.body.frame \in FrameSet
    /\ r.kind # "other" => r = ClientRequest(r.kind, r.body.frame.msgs)
    /\ r.kind \in {"call", "batch"} =>
         LET msgs == r.body.frame.msgs
         IN  \A i \in DOMAIN msgs :
               /\ hasValidID(msgs[i]) /\ ~msgs[i].answer
               /\ \A j \in DOMAIN msgs : msgs[i].id = msgs[j].id => i = j

VARIABLES
  request,   \* [Http -> the request]
  status,    \* [Http -> status of the response]
  cpc,       \* [Http -> where the caller is]
  ctxDone,   \* calls whose context is cancelled
  resp,      \* [Http -> Seq of what is in op.resp]
  got,       \* [Http -> Seq of the answers the caller took]
  result     \* [Http -> what the call returned]

clientVars == <<cpc, ctxDone, resp, got, result>>
httpVars == <<serverVars, request, status, clientVars>>

-----------------------------------------------------------------------------
(* The server side. *)

\* virtualHostHandler.ServeHTTP: requests without a host, for an address and for
\* a listed host pass.
hostAccepted(r) == r.host \in {"none", "address", "listed"}

\* validateRequest; 0 stands for an accepted request.
validateRequest(r) ==
  IF r.verb \in {"PUT", "DELETE"} THEN 405
  ELSE IF r.length = "large" THEN 413
  ELSE IF r.verb = "OPTIONS" \/ r.accepted THEN 0
  ELSE 415

\* The handlers of NewHTTPServer up to serveSingleRequest.
ServeHTTP(h) ==
  LET r == request[h]
      refuse(code) == status' = [status EXCEPT ![h] = code] /\ Goto(h, "returned")
  IN  /\ pc[h] = "arrived"
      /\ \/ ~hostAccepted(r) /\ refuse(403)
         \/ /\ hostAccepted(r)
            /\ IF r.verb = "GET" /\ r.length = "zero" /\ ~r.query THEN refuse(200)
               ELSE IF validateRequest(r) # 0 THEN refuse(validateRequest(r))
               ELSE Goto(h, "request") /\ UNCHANGED status
      /\ UNCHANGED <<codecs, stopVars, connVars, dispVars, rd, taken, callVars, request, clientVars>>

\* serveSingleRequest; what a client that is gone did not send cannot be read.
ServeBody(h) ==
  /\ \E body \in {request[h].body} \cup {NoBody("malformed") : g \in gone \cap {h}} :
       ServeSingleRequest(h, body)
  /\ status' = [status EXCEPT ![h] = 200]
  /\ UNCHANGED <<request, clientVars>>

HttpReturns(h) == SingleRequestReturns(h) /\ UNCHANGED <<request, status, clientVars>>

-----------------------------------------------------------------------------
(* The client side. *)

Returns(h, res) ==
  /\ cpc' = [cpc EXCEPT ![h] = "returned"]
  /\ result' = [result EXCEPT ![h] = res]

\* doRequest: the request is on its way.
DoRequest(h) ==
  /\ cpc[h] = "idle" /\ pc[h] = "idle"
  /\ cpc' = [cpc EXCEPT ![h] = "sent"]
  /\ Goto(h, "arrived")
  /\ UNCHANGED <<codecs, stopVars, connVars, dispVars, rd, taken, callVars,
                 request, status, ctxDone, resp, got, result>>

\* The caller's context is cancelled.
CancelContext(h) ==
  /\ cpc[h] \in {"sent", "wait"} /\ h \notin ctxDone
  /\ request[h].kind # "other"
  /\ ctxDone' = ctxDone \cup {h}
  /\ UNCHANGED <<serverVars, request, status, cpc, resp, got, result>>

\* http.Client.Do fails, since the connection breaks or the context is done.
DoFails(h) ==
  /\ cpc[h] = "sent"
  /\ gone' = gone \cup {h}
  /\ Returns(h, IF h \in ctxDone THEN "ctx" ELSE "io")
  /\ UNCHANGED <<serveVars, stopVars, closed, dispVars, rd, taken, callVars,
                 request, status, ctxDone, resp, got>>

\* The answers in the body as sendHTTP and sendBatchHTTP decode it, or <<>>
\* where decoding fails: the first wants an object and the second an array.
Decoded(h) ==
  IF out[h] = <<>> \/ out[h][1].array # (request[h].kind = "batch") THEN <<>>
  ELSE out[h][1].answers

\* Mutant: what the status says is not looked at, and an empty body is an
\* empty list of answers.
ReceiveLenient(h) ==
  /\ cpc[h] = "sent" /\ pc[h] = "returned" /\ h \notin gone
  /\ IF request[h].kind = "other" THEN Returns(h, "ok") /\ UNCHANGED resp
     ELSE /\ cpc' = [cpc EXCEPT ![h] = "wait"]
          /\ resp' = [resp EXCEPT ![h] = Decoded(h)]
          /\ UNCHANGED result
  /\ UNCHANGED <<serverVars, request, status, ctxDone, got>>

\* sendHTTP and sendBatchHTTP after Do: a status other than 2xx and a body that
\* cannot be decoded are errors; every answer goes to op.resp, which Notify
\* leaves nil, so that it would block with an answer.
Receive(h) ==
  /\ cpc[h] = "sent" /\ pc[h] = "returned" /\ h \notin gone
  /\ IF request[h].kind = "other" THEN Returns(h, "ok") /\ UNCHANGED resp
     ELSE IF status[h] # 200 \/ Decoded(h) = <<>> THEN Returns(h, "io") /\ UNCHANGED resp
     ELSE /\ request[h].kind # "notify"
          /\ cpc' = [cpc EXCEPT ![h] = "wait"]
          /\ resp' = [resp EXCEPT ![h] = Decoded(h)]
          /\ UNCHANGED result
  /\ UNCHANGED <<serverVars, request, status, ctxDone, got>>

\* requestOp.wait: both cases of the select can be ready.
WaitCancelled(h) ==
  /\ cpc[h] = "wait" /\ h \in ctxDone
  /\ Returns(h, "ctx")
  /\ UNCHANGED <<serverVars, request, status, ctxDone, resp, got>>

\* Mutant: the loop of BatchCallContext ends one answer early.
WaitAnswerShort(h) ==
  /\ cpc[h] = "wait" /\ resp[h] # <<>>
  /\ resp' = [resp EXCEPT ![h] = Tail(@)]
  /\ got' = [got EXCEPT ![h] = Append(@, Head(resp[h]))]
  /\ IF Len(got'[h]) < Len(request[h].body.frame.msgs) - 1 THEN UNCHANGED <<cpc, result>>
     ELSE Returns(h, IF request[h].kind = "call" /\ ~Head(resp[h]).ok THEN "rpc" ELSE "ok")
  /\ UNCHANGED <<serverVars, request, status, ctxDone>>

\* The answer is the element's whose id it has; the call returns with the last.
WaitAnswer(h) ==
  /\ cpc[h] = "wait" /\ resp[h] # <<>>
  /\ resp' = [resp EXCEPT ![h] = Tail(@)]
  /\ got' = [got EXCEPT ![h] = Append(@, Head(resp[h]))]
  /\ IF Len(got'[h]) < Len(request[h].body.frame.msgs) THEN UNCHANGED <<cpc, result>>
     ELSE Returns(h, IF request[h].kind = "call" /\ ~Head(resp[h]).ok THEN "rpc" ELSE "ok")
  /\ UNCHANGED <<serverVars, request, status, ctxDone>>

-----------------------------------------------------------------------------

Init ==
  /\ ServerInit
  /\ request \in [Http -> HttpRequests]
  /\ \A h \in Http : pc[h] = "absent" =>
       request[h] = CHOOSE r \in HttpRequests : TRUE
  /\ status = [h \in Http |-> 0]
  /\ cpc = [h \in Http |-> "idle"] /\ ctxDone = {}
  /\ resp = [h \in Http |-> <<>>] /\ got = [h \in Http |-> <<>>]
  /\ result = [h \in Http |-> "none"]

HttpStep(h) == ServeHTTP(h) \/ ServeBody(h) \/ HttpReturns(h)
CallerStep(h) == Receive(h) \/ WaitCancelled(h) \/ WaitAnswer(h)
Server(A) == A /\ UNCHANGED <<request, status, clientVars>>

Next ==
  \/ Server(StreamNext)
  \/ \E h \in Http :
       \/ HttpStep(h) \/ CallerStep(h)
       \/ DoRequest(h) \/ CancelContext(h) \/ DoFails(h)

Spec == Init /\ [][Next]_httpVars

\* Every goroutine that can take a step takes one in the end; Read returns once
\* the connection is closed on one side, and Do once its context is done.  Peers
\* need not send, and nobody has to call Stop.
Fairness ==
  /\ \A k \in Stream :
       /\ WF_httpVars(Server(ServeStep(k)))
       /\ WF_httpVars(Server(DispatchStep(k)))
       /\ WF_httpVars(k \in closed \cup gone /\ Server(ReadFails(k)))
       /\ \A n \in 1..MaxFrames[k] : WF_httpVars(Server(ProcStep(k, n)))
  /\ \A h \in Http :
       /\ WF_httpVars(HttpStep(h)) /\ WF_httpVars(CallerStep(h))
       /\ WF_httpVars(Server(ProcStep(h, 1)))
       /\ WF_httpVars(h \in ctxDone /\ DoFails(h))
  /\ WF_httpVars(Server(StopEach))

FairSpec == Spec /\ Fairness

-----------------------------------------------------------------------------

\* What the peer of a connection is to receive for a frame: one answer to each of
\* its calls, in their order, and none to notifications and responses.
ToAnswer(frame) ==
  {n \in DOMAIN frame.msgs : ~isNotification(frame.msgs[n]) /\ ~isResponse(frame.msgs[n])}
IsAnswered(frame) == ToAnswer(frame) # {} \/ (frame.batch /\ frame.msgs = <<>>)
RightAnswer(m, a) ==
  /\ a.id = IF hasValidID(m) THEN m.id ELSE "null"
  /\ a.ok <=> hasValidID(m) /\ m.method = "ok"
InOrder(to) == \A i, j \in DOMAIN to : i < j => to[i] < to[j]
RightReply(frame, reply) ==
  IF frame.msgs = <<>> THEN reply.answers = <<errorMessage>> /\ ~reply.array
  ELSE /\ reply.array = frame.batch
       /\ \E to \in [DOMAIN reply.answers -> ToAnswer(frame)] :
            /\ InOrder(to)
            /\ \A n \in ToAnswer(frame) : \E i \in DOMAIN to : to[i] = n
            /\ \A i \in DOMAIN to : RightAnswer(frame.msgs[to[i]], reply.answers[i])

\* Whatever the order in which the goroutines of a connection finish, a frame is
\* answered at most once, in one write with one answer for every call in the
\* order of the calls, and a frame without calls is not answered.
OneReplyPerFrame ==
  \A k \in Conn : \A i \in DOMAIN out[k] :
    LET n == out[k][i].frame
    IN  n # 0 => /\ IsAnswered(taken[k][n]) /\ RightReply(taken[k][n], out[k][i])
                 /\ \A j \in DOMAIN out[k] : out[k][j].frame = n => j = i

\* No answer is lost because the peer stopped sending: as long as the peer
\* receives and nobody stopped the server, what dispatch took is answered when
\* its goroutine is done.
AnswersDelivered ==
  \A k \in Conn : k \notin gone /\ stop = "idle" =>
    \A n \in DOMAIN proc[k] \ Running(k) :
      IsAnswered(taken[k][n]) => \E i \in DOMAIN out[k] : out[k][i].frame = n

\* When ServeCodec or ServeHTTP has returned, none of the goroutines that were
\* started for the connection is left, the codec is closed, and the server
\* does not hold it any more.
NothingLeftBehind ==
  \A k \in Conn : pc[k] = "returned" =>
    /\ Running(k) = {} /\ k \notin codecs
    /\ k \in Stream => /\ k \in closed
                       /\ dpc[k] \in {"off", "quit"} /\ rd[k] \in {"off", "exit"}

\* A call over HTTP that succeeds has one answer for every message it sent, under
\* the message's id, and it is the server's answer to that message.
HttpOwnAnswers ==
  \A h \in Http :
    LET msgs == request[h].body.frame.msgs
    IN  /\ result[h] \in {"ok", "rpc"} /\ request[h].kind \in {"call", "batch"} =>
             /\ Len(got[h]) = Len(msgs)
             /\ \A i \in DOMAIN msgs : \E j \in DOMAIN got[h] : \A k \in DOMAIN got[h] :
                  got[h][k].id = msgs[i].id <=> k = j
        /\ \A j \in DOMAIN got[h] : \E i \in DOMAIN msgs :
             got[h][j].id = msgs[i].id /\ (got[h][j].ok <=> msgs[i].method = "ok")

\* ServeCodec returns once its connection is closed by either side or cannot be
\* read any more, unless a callback is waiting for its context.
ServeCodecReturns ==
  \A k \in Stream :
    (pc[k] = "serving" /\ (k \in closed \cup gone \/ rd[k] = "err"))
      ~> (pc[k] = "returned" \/ \E n \in DOMAIN proc[k] : WaitsForContext(k, n))

\* A call over HTTP returns, unless a callback is waiting for its context.
HttpCallReturns ==
  \A h \in Http : (cpc[h] = "sent")
    ~> (cpc[h] = "returned" \/ \E n \in DOMAIN proc[h] : WaitsForContext(h, n))

\* Cancelling the context of a call over HTTP ends the call and also what the
\* server does for it, callbacks that wait for their context included.
CancelEndsBoth ==
  \A h \in Http : (h \in ctxDone) ~> (cpc[h] = "returned" /\ pc[h] = "returned")

\* server.go says of ServeCodec that it blocks until the codec is closed or the
\* server is stopped and that "in either case the codec is closed", and of Stop
\* that it "closes all codecs".
StopClosesAll ==
  stop = "done" => \A k \in codecs : k \in closed

=============================================================================
