------------------------- MODULE RpcSubscribeProofs -------------------------
(***************************************************************************)
(* Proofs about RpcRequests for RpcClient: what becomes of a Subscribe     *)
(* request, its answer and its notifications between the server and the    *)
(* handler.                                                                *)
(***************************************************************************)
EXTENDS RpcRequestsProofs

-----------------------------------------------------------------------------
(* What a subscription is fed from. *)

\* A connection that reconnect has dialled is a new one.
DialInv ==
  /\ conn <= nconn
  /\ Handover \/ (\E op \in Op : pc[op] = "offer") => conn # nconn

\* The messages dispatch has in hand, and no handler has subscriptions once its
\* connection is closed.
HandInv ==
  /\ \A k \in Conn : rd[k] # "op" => rmsg[k] = <<>>
  /\ dpc # "handle" => todo = <<>>
  /\ dpc = "drain" => clientSubs = {}
  /\ dpc \in {"select", "closing"} /\ ~reading => clientSubs = {}

\* The last message in hand.
LEMMA LastTail ==
  ASSUME NEW T, NEW q \in Seq(T), q # <<>>, Len(q) = 1
  PROVE  Tail(q) = <<>>
<1>1. Tail(q) \in Seq(T) /\ Len(Tail(q)) = 0
  OBVIOUS
<1>2. \A r \in Seq(T) : r # <<>> => Len(r) # 0
  OBVIOUS
<1> QED
  BY <1>1, <1>2, Zenon

\* Every step keeps it.
LEMMA DialInvNext ==
  ASSUME TypeInv, LockInv, CodecInv, DialInv, [Next]_vars
  PROVE  DialInv'
<1> USE DEF DialInv
<1> DEFINE Offered == \E op \in Op : pc[op] = "offer"
<1>n. conn \in Nat /\ nconn \in Nat
  BY RequestAssumption DEF TypeInv, TypeOK, Conn
<1>0. ASSUME UNCHANGED <<conn, nconn>>, Handover' \/ Offered' => Handover \/ Offered
      PROVE  DialInv'
  BY <1>0
<1>a. ASSUME UNCHANGED <<conn, nconn, dpc, cont>>,
             pc' = pc \/ \E p \in Op : \E l : pc' = [pc EXCEPT ![p] = l] /\ l # "offer"
      PROVE  DialInv'
  <2>1. Offered' => Offered
    BY <1>a DEF TypeInv, TypeOK
  <2>2. Handover' <=> Handover
    BY <1>a DEF Handover
  <2> QED
    BY <1>0, <1>a, <2>1, <2>2
<1> HIDE DEF DialInv
<1>1. ASSUME NEW op \in Op, Start(op) \/ Cancel(op) \/ CallerStep(op) PROVE DialInv'
  <2>1. CASE Dial(op) /\ nconn' = nconn + 1
    <3>1. UNCHANGED conn
      BY <2>1 DEF Dial
    <3> QED
      BY <1>n, <2>1, <3>1 DEF DialInv
  <2>2. CASE ~(Dial(op) /\ nconn' = nconn + 1)
    <3>1. UNCHANGED <<conn, nconn, dpc, cont>>
      BY <1>1, <2>2 DEF CallerStep, Start, Cancel, SendAborted, CheckWriteConn, Dial,
         OfferRefused, Write, Sent, WaitReceive, WaitClosed, WaitCtxDone, GiveUpClosing,
         connVars, dispVars
    <3>2. pc' = pc \/ \E l : pc' = [pc EXCEPT ![op] = l] /\ l # "offer"
      BY <1>1, <2>2, Zenon DEF CallerStep, Start, Cancel, SendAborted, CheckWriteConn, Dial,
         OfferRefused, Write, Sent, WaitReceive, WaitClosed, WaitCtxDone, GiveUpClosing,
         Goto, Return
    <3> QED
      BY <1>a, <3>1, <3>2
  <2> QED
    BY <2>1, <2>2
<1> USE DEF callVars, connVars, dispVars
<1>2. ASSUME NEW k \in Conn, ReadStep(k) PROVE DialInv'
  <2>1. UNCHANGED <<conn, nconn, dpc, cont, pc>>
    BY <1>2, Zenon DEF ReadStep, ReadResponse, ReadBatch, ReadNotification, ReadFail, Offer
  <2> QED
    BY <1>a, <2>1
<1>3. CASE Shutdown
  <2>1. UNCHANGED <<conn, nconn, pc>> /\ ~Handover'
    BY <1>3 DEF Shutdown, Handover
  <2> QED
    BY <1>0, <2>1
<1>4. CASE HandleResponse \/ HandleNotification
  <2>1. UNCHANGED <<conn, nconn, pc>> /\ ~Handover'
    BY <1>4, Zenon DEF HandleResponse, HandleNotification, Handled, Handover
  <2> QED
    BY <1>0, <2>1
<1>5. ASSUME NEW s \in Sub, QuitSub(s) PROVE DialInv'
  BY <1>a, <1>5 DEF QuitSub
<1>6. CASE CloseCodec
  <2>1. UNCHANGED <<conn, nconn, pc>> /\ (Handover' => Handover)
    BY <1>6 DEF CloseCodec, Handover
  <2> QED
    BY <1>0, <2>1
<1>7. ASSUME NEW k \in Conn, DrainReadOp(k) PROVE DialInv'
  BY <1>a, <1>7 DEF DrainReadOp
<1>8. ASSUME NEW k \in Conn, DrainReadErr(k) PROVE DialInv'
  <2>1. CASE cont = "close" /\ UNCHANGED conn
    <3>1. UNCHANGED <<conn, nconn, pc>> /\ ~Handover'
      BY <1>8, <2>1 DEF DrainReadErr, Handover
    <3> QED
      BY <1>0, <3>1
  <2>2. CASE cont = "reconnected" /\ conn' = nconn /\ dpc' = "select"
    <3>1. UNCHANGED <<nconn, pc, cont>> /\ Handover
      BY <1>8, <2>2 DEF DrainReadErr, Handover
    <3>2. ~Offered'
      BY <3>1 DEF CodecInv, Dialling
    <3> QED
      BY <1>n, <2>2, <3>1, <3>2 DEF DialInv, Handover
  <2> QED
    BY <1>8, <2>1, <2>2, Zenon DEF DrainReadErr, NewConn
<1>9. ASSUME NEW x \in Closer, DispatchClose(x) PROVE DialInv'
  <2>1. UNCHANGED <<conn, nconn, pc>> /\ ~Handover'
    BY <1>9 DEF DispatchClose, Handover
  <2> QED
    BY <1>0, <2>1
<1>10. ASSUME NEW x \in Closer, CloseCall(x) \/ CloseReturn(x) PROVE DialInv'
  BY <1>a, <1>10 DEF CloseCall, CloseReturn
<1>11. ASSUME NEW k \in Conn, DispatchReadOp(k) \/ DispatchReadErr(k) PROVE DialInv'
  <2>1. UNCHANGED <<conn, nconn, pc>> /\ ~Handover'
    BY <1>11 DEF DispatchReadOp, DispatchReadErr, Handover
  <2> QED
    BY <1>0, <2>1
<1>12. ASSUME NEW op \in Op, DispatchReconnected(op) PROVE DialInv'
  <2>1. pc[op] = "offer" /\ dpc = "select" /\ pc' = [pc EXCEPT ![op] = "write"] /\ UNCHANGED nconn
    BY <1>12 DEF DispatchReconnected, Goto
  <2>2. CASE UNCHANGED conn
    BY <1>0, <2>1, <2>2
  <2>3. CASE conn' = nconn /\ UNCHANGED dpc
    <3>1. \A p \in Op : pc[p] = "offer" => p = op
      BY <2>1 DEF LockInv, WriteLockHeld, Locked
    <3>2. ~Offered'
      BY <2>1, <3>1 DEF TypeInv, TypeOK
    <3> QED
      BY <1>n, <2>1, <2>3, <3>2 DEF DialInv, Handover
  <2> QED
    BY <1>12, <2>2, <2>3, Zenon DEF DispatchReconnected, NewConn
<1>13. ASSUME NEW op \in Op, ReqInit(op) \/ ReqTimeout(op) PROVE DialInv'
  BY <1>a, <1>13 DEF ReqInit, ReqTimeout, Return, Goto
<1>14. CASE ReqSent
  BY <1>a, <1>14 DEF ReqSent
<1>15. CASE UNCHANGED vars
  BY <1>a, <1>15 DEF vars
<1> QED
  BY <1>1, <1>2, <1>3, <1>4, <1>5, <1>6, <1>7, <1>8, <1>9, <1>10, <1>11, <1>12, <1>13, <1>14,
     <1>15, Zenon DEF Next, DispatchStep

\* dispatch and the read loops hold messages only where they say so.
LEMMA HandInvNext ==
  ASSUME TypeInv, ReaderInv, MoveInv, HandInv, [Next]_vars
  PROVE  HandInv'
<1> USE DEF HandInv
<1>0. ASSUME UNCHANGED <<rd, rmsg, dpc, todo, clientSubs, reading>> PROVE HandInv'
  BY <1>0
<1> USE DEF connVars, readVars, dispVars
<1>1. ASSUME NEW op \in Op, Start(op) \/ Cancel(op) \/ CallerStep(op) PROVE HandInv'
  BY <1>0, <1>1, Zenon DEF CallerStep, Start, Cancel, SendAborted, CheckWriteConn, Dial,
     OfferRefused, Write, Sent, WaitReceive, WaitClosed, WaitCtxDone, GiveUpClosing
<1>2. ASSUME NEW k \in Conn, ReadStep(k) PROVE HandInv'
  <2>1. /\ UNCHANGED <<dpc, todo, clientSubs, reading>>
        /\ \/ rd' = [rd EXCEPT ![k] = "err"] /\ UNCHANGED rmsg /\ rd[k] = "read"
           \/ rd' = [rd EXCEPT ![k] = "op"] /\ \E q : rmsg' = [rmsg EXCEPT ![k] = q]
    BY <1>2, Zenon DEF ReadStep, ReadResponse, ReadBatch, ReadNotification, ReadFail, Offer
  <2> QED
    BY <2>1 DEF TypeInv, TypeOK
<1>3. CASE Shutdown
  BY <1>3 DEF Shutdown
<1>4. CASE HandleResponse \/ HandleNotification
  <2>1. /\ dpc = "handle" /\ reading /\ UNCHANGED <<rd, rmsg, reading>>
        /\ todo' = Tail(todo) /\ dpc' = IF Len(todo) = 1 THEN "select" ELSE "handle"
    BY <1>4, Zenon DEF HandleResponse, HandleNotification, Handled, MoveInv
  <2>2. Len(todo) = 1 => Tail(todo) = <<>>
    <3> SUFFICES ASSUME Len(todo) = 1 PROVE Tail(todo) = <<>>
      OBVIOUS
    <3>1. todo \in Seq(Message) /\ todo # <<>>
      BY <2>1 DEF TypeInv, TypeOK
    <3> QED
      BY <3>1, LastTail
  <2> QED
    BY <2>1, <2>2
<1>5. ASSUME NEW s \in Sub, QuitSub(s) PROVE HandInv'
  BY <1>5 DEF QuitSub
<1>6. CASE CloseCodec
  BY <1>6 DEF CloseCodec
<1>7. ASSUME NEW k \in Conn, DrainReadOp(k) PROVE HandInv'
  BY <1>7 DEF DrainReadOp, TypeInv, TypeOK
<1>8. ASSUME NEW k \in Conn, DrainReadErr(k) PROVE HandInv'
  <2>1. k = conn /\ rd[k] = "err" /\ dpc = "drain" /\ UNCHANGED <<rmsg, todo>>
    BY <1>8 DEF DrainReadErr, ReaderInv, Live
  <2>2. \A l \in Conn : rmsg[l] = <<>>
    BY <2>1 DEF ReaderInv, Live
  <2>3. dpc' \in {"quit", "select"} /\ clientSubs' = {}
    BY <1>8, <2>1 DEF DrainReadErr, NewConn
  <2> QED
    BY <2>1, <2>2, <2>3
<1>9. ASSUME NEW x \in Closer, DispatchClose(x) PROVE HandInv'
  BY <1>9 DEF DispatchClose
<1>10. ASSUME NEW x \in Closer, CloseCall(x) \/ CloseReturn(x) PROVE HandInv'
  BY <1>0, <1>10 DEF CloseCall, CloseReturn
<1>11. ASSUME NEW k \in Conn, DispatchReadOp(k) PROVE HandInv'
  BY <1>11 DEF DispatchReadOp, TypeInv, TypeOK
<1>12. ASSUME NEW k \in Conn, DispatchReadErr(k) PROVE HandInv'
  BY <1>12 DEF DispatchReadErr, TypeInv, TypeOK
<1>13. ASSUME NEW op \in Op, DispatchReconnected(op) PROVE HandInv'
  <2>1. CASE dpc' = "quitSubs" /\ UNCHANGED <<reading, rd, clientSubs, todo, rmsg>>
    BY <1>13, <2>1 DEF DispatchReconnected
  <2>2. CASE ~reading /\ NewConn(rd) /\ UNCHANGED <<dpc, todo, rmsg>>
    <3>1. dpc = "select"
      BY <1>13 DEF DispatchReconnected
    <3>2. \A l \in Conn : rmsg[l] = <<>>
      BY <2>2, <3>1 DEF ReaderInv, Live
    <3> QED
      BY <2>2, <3>1, <3>2 DEF NewConn
  <2> QED
    BY <1>13, <2>1, <2>2, Zenon DEF DispatchReconnected
<1>14. ASSUME NEW op \in Op, ReqInit(op) \/ ReqTimeout(op) PROVE HandInv'
  BY <1>0, <1>14 DEF ReqInit, ReqTimeout
<1>15. CASE ReqSent
  BY <1>0, <1>15 DEF ReqSent
<1>16. CASE UNCHANGED vars
  BY <1>0, <1>16 DEF vars
<1> QED
  BY <1>1, <1>2, <1>3, <1>4, <1>5, <1>6, <1>7, <1>8, <1>9, <1>10, <1>11, <1>12, <1>13, <1>14,
     <1>15, <1>16, Zenon DEF Next, DispatchStep

\* The server has accepted the subscription.
Active(s) == \E k \in Conn : s \in active[k]

\* The notifications of s and the acceptance of s among messages.
HasNote(q, s) == \E x \in DOMAIN q : q[x].type = "notification" /\ q[x].sub = s
Accepts(q, s) == \E x \in DOMAIN q : q[x].type = "response" /\ Owner[q[x].id] = s /\ q[x].ok

\* A Subscribe request is answered once, and only after it was written; the one
\* that moves to a new connection has not been answered.
WireInv ==
  \A s \in Sub :
    /\ \A k, l \in Conn : \A i \in Ids(s) : i \in wire[k] /\ i \in wire[l] => k = l
    /\ \A k \in Conn : wire[k] \cap Ids(s) # {} => ~Active(s)
    /\ pc[s] \in Unsent => ~Active(s)
    /\ Handover /\ s = lastOp => ~Active(s) /\ wire[conn] \cap Ids(s) = {}

\* Nothing is heard of a subscription that the server has not accepted.
QuietInv ==
  \A s \in Sub : ~Active(s) =>
    /\ sent[s] = 0
    /\ ~HasNote(todo, s) /\ ~Accepts(todo, s)
    /\ \A k \in Conn : ~HasNote(rmsg[k], s) /\ ~Accepts(rmsg[k], s)

\* An id of the Subscribe waits for its answer; a queue is just the answer that
\* accepts it.
Registered(s) == Ids(s) \cap respWait # {}
AcceptedBy(q, s) == \E i \in Ids(s) : q = <<Respond(i, TRUE)>>

\* While a Subscribe is registered, the answer that accepts it comes before its
\* notifications.
OrderInv ==
  \A s \in Sub : Registered(s) =>
    /\ Active(s) => AcceptedBy(todo, s) \/ AcceptedBy(rmsg[conn], s)
    /\ HasNote(rmsg[conn], s) => AcceptedBy(todo, s)
    /\ ~HasNote(todo, s)


\* What a queue of at most one message holds for a subscription.
LEMMA NoteFacts ==
  ASSUME NEW s
  PROVE  /\ ~HasNote(<<>>, s) /\ ~Accepts(<<>>, s)
         /\ \A i, b : ~HasNote(<<Respond(i, b)>>, s)
         /\ \A i, b : Accepts(<<Respond(i, b)>>, s) => b /\ Owner[i] = s
         /\ \A t, n : HasNote(<<Notify(t, n)>>, s) => t = s
         /\ \A n : HasNote(<<Notify(s, n)>>, s)
         /\ \A t, n : ~Accepts(<<Notify(t, n)>>, s)
<1>1. ~HasNote(<<>>, s) /\ ~Accepts(<<>>, s)
  BY DEF HasNote, Accepts
<1>2. \A i, b : ~HasNote(<<Respond(i, b)>>, s)
  BY DEF HasNote, Respond
<1>3. \A i, b : Accepts(<<Respond(i, b)>>, s) => b /\ Owner[i] = s
  BY DEF Accepts, Respond
<1>4. \A t, n : HasNote(<<Notify(t, n)>>, s) => t = s
  BY DEF HasNote, Notify
<1>5. \A n : HasNote(<<Notify(s, n)>>, s)
  BY DEF HasNote, Notify
<1>6. \A t, n : ~Accepts(<<Notify(t, n)>>, s)
  BY DEF Accepts, Notify
<1> QED
  BY <1>1, <1>2, <1>3, <1>4, <1>5, <1>6

\* What the head and the tail of a queue hold for a subscription.
LEMMA NoteQueue ==
  ASSUME NEW q \in Seq(Message), q # <<>>, NEW s
  PROVE  /\ HasNote(Tail(q), s) => HasNote(q, s)
         /\ Accepts(Tail(q), s) => Accepts(q, s)
         /\ Head(q).type = "notification" => HasNote(q, Head(q).sub)
         /\ Head(q).type = "response" /\ Head(q).ok => Accepts(q, Owner[Head(q).id])
<1>1. Len(q) \in Nat /\ Len(q) > 0 /\ DOMAIN q = 1..Len(q) /\ Head(q) = q[1]
  OBVIOUS
<1>2. /\ DOMAIN Tail(q) = 1..(Len(q) - 1)
      /\ \A x \in 1..(Len(q) - 1) : Tail(q)[x] = q[x + 1]
  OBVIOUS
<1>3. \A x \in DOMAIN Tail(q) : x + 1 \in DOMAIN q /\ Tail(q)[x] = q[x + 1]
  BY <1>1, <1>2
<1>4. HasNote(Tail(q), s) => HasNote(q, s)
  BY <1>3 DEF HasNote
<1>5. Accepts(Tail(q), s) => Accepts(q, s)
  BY <1>3 DEF Accepts
<1>6. 1 \in DOMAIN q
  BY <1>1
<1>7. Head(q).type = "notification" => HasNote(q, Head(q).sub)
  BY <1>1, <1>6 DEF HasNote
<1>8. Head(q).type = "response" /\ Head(q).ok => Accepts(q, Owner[Head(q).id])
  BY <1>1, <1>6 DEF Accepts
<1> QED
  BY <1>4, <1>5, <1>7, <1>8

\* The id of a Subscribe request.
LEMMA OneId ==
  ASSUME NEW s \in Sub
  PROVE  /\ s \in Op
         /\ \E i \in Id : Owner[i] = s /\ Ids(s) = {i}
         /\ \A i \in Id : Owner[i] = s <=> i \in Ids(s)
<1>1. s \in Op /\ \E i \in Id : Ids(s) = {i}
  BY RequestAssumption
<1> QED
  BY <1>1 DEF Ids

\* What the read loop offers to dispatch.
ReadsAnswer(i, b) ==
  /\ i \in wire[conn]
  /\ rmsg' = [rmsg EXCEPT ![conn] = <<Respond(i, b)>>]
  /\ wire' = [wire EXCEPT ![conn] = wire[conn] \ {i}]
  /\ active' = IF b /\ Owner[i] \in Sub
               THEN [active EXCEPT ![conn] = active[conn] \cup {Owner[i]}] ELSE active
  /\ UNCHANGED sent

ReadsBatch(q) ==
  /\ \A s \in Sub : ~HasNote(q, s) /\ ~Accepts(q, s)
  /\ rmsg' = [rmsg EXCEPT ![conn] = q]
  /\ \A k \in Conn : wire'[k] \subseteq wire[k]
  /\ UNCHANGED <<active, sent>>

ReadsNotification(s) ==
  /\ s \in active[conn]
  /\ rmsg' = [rmsg EXCEPT ![conn] = <<Notify(s, sent[s] + 1)>>]
  /\ sent' = [sent EXCEPT ![s] = sent[s] + 1]
  /\ UNCHANGED <<wire, active>>

\* The read goroutine reads from the current connection, and what it holds is new.
LEMMA ReadEffect ==
  ASSUME TypeInv, ReaderInv, HandInv, NEW k \in Conn, ReadStep(k)
  PROVE  /\ rmsg[conn] = <<>>
         /\ UNCHANGED <<callVars, reqVars, lockVars, connVars, dispVars>>
         /\ \/ \E i \in Id, b \in BOOLEAN : ReadsAnswer(i, b)
            \/ \E q : ReadsBatch(q)
            \/ \E s \in Sub : ReadsNotification(s)
            \/ UNCHANGED <<rmsg, wire, active, sent>>
<1>1. rd[k] = "read" /\ UNCHANGED <<callVars, reqVars, lockVars, connVars, dispVars>>
  BY Zenon DEF ReadStep, ReadResponse, ReadBatch, ReadNotification, ReadFail, Offer
<1>2. k = conn /\ rmsg[conn] = <<>>
  BY <1>1 DEF ReaderInv, Live, HandInv
<1>3. ASSUME NEW i \in Id, NEW b \in BOOLEAN, ReadResponse(k, i, b) PROVE ReadsAnswer(i, b)
  BY <1>2, <1>3 DEF ReadResponse, Offer, ReadsAnswer
<1>4. ASSUME NEW n \in 2..MaxBatch, NEW ids \in [1..n -> wire[k]], ReadBatch(k, ids)
      PROVE  ReadsBatch([x \in DOMAIN ids |-> Respond(ids[x], TRUE)])
  <2> DEFINE q == [x \in DOMAIN ids |-> Respond(ids[x], TRUE)]
  <2>1. \A x \in DOMAIN ids : Owner[ids[x]] \notin Sub
    BY <1>4 DEF ReadBatch
  <2>2. \A x \in DOMAIN q : /\ x \in DOMAIN ids /\ q[x].type = "response"
                            /\ q[x].id = ids[x]
    BY DEF Respond
  <2>3. \A s \in Sub : ~HasNote(q, s) /\ ~Accepts(q, s)
    <3> SUFFICES ASSUME NEW s \in Sub PROVE ~HasNote(q, s) /\ ~Accepts(q, s)
      BY Zenon
    <3> HIDE DEF q
    <3>1. ~HasNote(q, s)
      BY <2>2 DEF HasNote
    <3>2. ~Accepts(q, s)
      BY <2>1, <2>2 DEF Accepts
    <3> QED
      BY <3>1, <3>2
  <2>4. rmsg' = [rmsg EXCEPT ![conn] = q] /\ UNCHANGED <<active, sent>>
    BY <1>2, <1>4 DEF ReadBatch, Offer
  <2>5. \A l \in Conn : wire'[l] \subseteq wire[l]
    BY <1>4 DEF ReadBatch, TypeInv, TypeOK
  <2> QED
    BY <2>3, <2>4, <2>5, Zenon DEF ReadsBatch
<1>5. ASSUME NEW s \in Sub, ReadNotification(k, s) PROVE ReadsNotification(s)
  BY <1>2, <1>5 DEF ReadNotification, Offer, ReadsNotification
<1>6. ASSUME ReadFail(k) PROVE UNCHANGED <<rmsg, wire, active, sent>>
  BY <1>6 DEF ReadFail
<1>7. \/ \E i \in Id, b \in BOOLEAN : ReadsAnswer(i, b)
      \/ \E q : ReadsBatch(q)
      \/ \E s \in Sub : ReadsNotification(s)
      \/ UNCHANGED <<rmsg, wire, active, sent>>
  BY <1>3, <1>4, <1>5, <1>6, Zenon DEF ReadStep
<1> QED
  BY <1>1, <1>2, <1>7

\* Subscribe requests are answered once, on the connection they were written to.
LEMMA WireInvNext ==
  ASSUME TypeInv, LockInv, ReaderInv, MoveInv, DialInv, HandInv, FreshInv, WireInv, [Next]_vars
  PROVE  WireInv'
<1> USE DEF WireInv
<1>t. /\ pc \in [Op -> {"idle", "send", "wait", "giveup", "done"} \cup Locked]
      /\ wire \in [Conn -> SUBSET Id] /\ active \in [Conn -> SUBSET Sub] /\ conn \in Conn
  BY DEF TypeInv, TypeOK
<1>0. ASSUME \A s \in Sub : /\ \A k \in Conn : wire'[k] \cap Ids(s) \subseteq wire[k]
                            /\ Active(s)' => Active(s)
                            /\ pc'[s] \in Unsent => pc[s] \in Unsent,
             Handover' => Handover /\ UNCHANGED <<lastOp, conn>>
      PROVE  WireInv'
  <2> SUFFICES ASSUME NEW s \in Sub
      PROVE  /\ \A k, l \in Conn : \A i \in Ids(s) : i \in wire'[k] /\ i \in wire'[l] => k = l
             /\ \A k \in Conn : wire'[k] \cap Ids(s) # {} => ~Active(s)'
             /\ pc'[s] \in Unsent => ~Active(s)'
             /\ Handover' /\ s = lastOp' => ~Active(s)' /\ wire'[conn'] \cap Ids(s) = {}
    BY DEF Ids
  <2>1. \A k, l \in Conn : \A i \in Ids(s) : i \in wire'[k] /\ i \in wire'[l] => k = l
    BY <1>0
  <2>2. \A k \in Conn : wire'[k] \cap Ids(s) # {} => ~Active(s)'
    BY <1>0
  <2>3. pc'[s] \in Unsent => ~Active(s)'
    BY <1>0
  <2>4. Handover' /\ s = lastOp' => ~Active(s)' /\ wire'[conn'] \cap Ids(s) = {}
    BY <1>0, <1>t
  <2> QED
    BY <2>1, <2>2, <2>3, <2>4, Zenon
<1> HIDE DEF WireInv
<1>a. ASSUME UNCHANGED <<wire, active>>, \A s \in Op : pc'[s] \in Unsent => pc[s] \in Unsent,
             Handover' => Handover /\ UNCHANGED <<lastOp, conn>>
      PROVE  WireInv'
  <2>1. \A s \in Sub : Active(s)' => Active(s)
    BY <1>a DEF Active
  <2> QED
    BY <1>0, <1>a, <2>1, OneId
<1> USE DEF callVars, reqVars, lockVars, connVars, readVars, dispVars
<1>1. ASSUME NEW op \in Op, Start(op) \/ Cancel(op) \/ CallerStep(op) PROVE WireInv'
  <2>1. UNCHANGED <<active, lastOp, conn, dpc, cont>>
    BY <1>1, Zenon DEF CallerStep, Start, Cancel, SendAborted, CheckWriteConn, Dial,
       OfferRefused, Write, Sent, WaitReceive, WaitClosed, WaitCtxDone, GiveUpClosing
  <2>2. Handover' <=> Handover
    BY <2>1 DEF Handover
  <2>3. pc' = pc \/ \E l : pc' = [pc EXCEPT ![op] = l] /\ (l \in Unsent => pc[op] \in Unsent)
    BY <1>1, Zenon DEF CallerStep, Start, Cancel, SendAborted, CheckWriteConn, Dial,
       OfferRefused, Write, Sent, WaitReceive, WaitClosed, WaitCtxDone, GiveUpClosing, Goto,
       Return, Unsent
  <2>4. \A s \in Op : pc'[s] \in Unsent => pc[s] \in Unsent
    BY <2>3, PcMoves
  <2>5. CASE UNCHANGED wire
    BY <1>a, <2>1, <2>2, <2>4, <2>5
  <2>6. CASE Write(op) /\ wire' = [wire EXCEPT ![writeConn] = wire[writeConn] \cup Ids(op)]
    <3>1. /\ pc[op] = "write" /\ pc'[op] \notin Unsent
      BY <1>t, <2>5, <2>6 DEF Write, Goto, Unsent
    <3>2. /\ \A k \in Conn : wire[k] \cap Ids(op) = {}
          /\ op = lastOp /\ writeConn # 0
      BY <3>1 DEF FreshInv, Unseen, Unsent, LockInv, WriteLockHeld, Locked
    <3>3. Handover => writeConn # conn
      BY <3>2 DEF MoveInv, DialInv
    <3>4. \A s \in Sub : Active(s)' <=> Active(s)
      BY <2>1 DEF Active
    <3>5. ASSUME NEW s \in Sub, s # op
          PROVE  \A k \in Conn : wire'[k] \cap Ids(s) \subseteq wire[k]
      <4>1. Ids(s) \cap Ids(op) = {}
        BY <3>5 DEF Ids
      <4> QED
        BY <1>t, <2>6, <4>1
    <3>6. CASE op \notin Sub
      BY <1>0, <2>1, <2>2, <2>4, <3>4, <3>5, <3>6, OneId, Zenon
    <3>7. CASE op \in Sub
      <4>1. ~Active(op)
        BY <3>1, <3>7 DEF WireInv, Unsent
      <4>2. \A k \in Conn : wire'[k] \cap Ids(op) # {} => k = writeConn
        BY <1>t, <2>6, <3>2
      <4>3. Handover => wire'[conn] \cap Ids(op) = {}
        BY <1>t, <3>3, <4>2
      <4>4. ASSUME NEW s \in Sub
            PROVE  /\ \A k, l \in Conn : \A i \in Ids(s) : i \in wire'[k] /\ i \in wire'[l] => k = l
                   /\ \A k \in Conn : wire'[k] \cap Ids(s) # {} => ~Active(s)
                   /\ pc'[s] \in Unsent => ~Active(s)
                   /\ Handover /\ s = lastOp => ~Active(s) /\ wire'[conn] \cap Ids(s) = {}
        <5>1. CASE s = op
          <6>1. \A k, l \in Conn : \A i \in Ids(s) : i \in wire'[k] /\ i \in wire'[l] => k = l
            <7> SUFFICES ASSUME NEW k \in Conn, NEW l \in Conn, NEW i \in Ids(s),
                                i \in wire'[k], i \in wire'[l]
                         PROVE  k = l
              OBVIOUS
            <7>1. wire'[k] \cap Ids(op) # {} /\ wire'[l] \cap Ids(op) # {}
              BY <5>1
            <7> QED
              BY <4>2, <7>1
          <6> QED
            BY <4>1, <4>3, <5>1, <6>1
        <5>2. CASE s # op
          <6>1. \A k \in Conn : wire'[k] \cap Ids(s) \subseteq wire[k]
            BY <3>5, <5>2
          <6>2. \A k, l \in Conn : \A i \in Ids(s) : i \in wire'[k] /\ i \in wire'[l] => k = l
            BY <6>1 DEF WireInv
          <6>3. \A k \in Conn : wire'[k] \cap Ids(s) # {} => ~Active(s)
            BY <6>1 DEF WireInv
          <6>4. pc'[s] \in Unsent => ~Active(s)
            BY <2>4, OneId DEF WireInv
          <6> QED
            BY <3>2, <5>2, <6>2, <6>3, <6>4
        <5> QED
          BY <5>1, <5>2
      <4> QED
        BY <2>1, <2>2, <3>4, <4>4, Zenon DEF WireInv, Ids
    <3> QED
      BY <3>6, <3>7
  <2> QED
    BY <1>1, <2>5, <2>6, Zenon DEF CallerStep, Start, Cancel, SendAborted, CheckWriteConn, Dial,
       OfferRefused, Write, Sent, WaitReceive, WaitClosed, WaitCtxDone, GiveUpClosing
<1>2. ASSUME NEW k \in Conn, ReadStep(k) PROVE WireInv'
  <2>1. UNCHANGED <<pc, lastOp, conn, dpc, cont>>
    BY <1>2, ReadEffect
  <2>2. Handover' <=> Handover
    BY <2>1 DEF Handover
  <2>3. ASSUME NEW i \in Id, NEW b \in BOOLEAN, ReadsAnswer(i, b) PROVE WireInv'
    <3>1. /\ i \in wire[conn] /\ wire' = [wire EXCEPT ![conn] = wire[conn] \ {i}]
          /\ \/ active' = active
             \/ /\ Owner[i] \in Sub
                /\ active' = [active EXCEPT ![conn] = active[conn] \cup {Owner[i]}]
      BY <2>3 DEF ReadsAnswer
    <3>2. \A l \in Conn : wire'[l] \subseteq wire[l] /\ (l = conn => i \notin wire'[l])
      BY <1>t, <3>1
    <3>3. CASE active' = active
      <4>1. \A s \in Sub : Active(s)' => Active(s)
        BY <3>3 DEF Active
      <4> QED
        BY <1>0, <2>1, <2>2, <3>2, <4>1
    <3>4. CASE /\ Owner[i] \in Sub
               /\ active' = [active EXCEPT ![conn] = active[conn] \cup {Owner[i]}]
      <4>1. PICK t \in Sub : t = Owner[i]
        BY <3>4
      <4>2. Ids(t) = {i}
        BY <4>1, OneId
      <4>3. \A l \in Conn : wire'[l] \cap Ids(t) = {}
        BY <1>t, <3>1, <3>2, <4>2 DEF WireInv
      <4>4. pc[t] \notin Unsent
        BY <1>t, <3>1, <4>2, OneId DEF FreshInv, Unseen
      <4>5. ~(Handover /\ t = lastOp)
        BY <3>1, <4>2 DEF WireInv
      <4>6. \A s \in Sub : s # t => (Active(s)' <=> Active(s))
        BY <1>t, <3>4, <4>1 DEF Active
      <4>7. ASSUME NEW s \in Sub
            PROVE  /\ \A j, l \in Conn : \A n \in Ids(s) : n \in wire'[j] /\ n \in wire'[l] => j = l
                   /\ \A l \in Conn : wire'[l] \cap Ids(s) # {} => ~Active(s)'
                   /\ pc[s] \in Unsent => ~Active(s)'
                   /\ Handover /\ s = lastOp => ~Active(s)' /\ wire'[conn] \cap Ids(s) = {}
        <5>1. \A j, l \in Conn : \A n \in Ids(s) : n \in wire'[j] /\ n \in wire'[l] => j = l
          BY <3>2 DEF WireInv
        <5>2. CASE s = t
          BY <1>t, <4>3, <4>4, <4>5, <5>1, <5>2
        <5>3. CASE s # t
          <6>1. Active(s)' <=> Active(s)
            BY <4>6, <5>3
          <6>2. \A l \in Conn : wire'[l] \cap Ids(s) # {} => wire[l] \cap Ids(s) # {}
            BY <3>2
          <6> QED
            BY <1>t, <5>1, <6>1, <6>2, Zenon DEF WireInv
        <5> QED
          BY <5>2, <5>3
      <4> QED
        BY <2>1, <2>2, <4>7, Zenon DEF WireInv, Ids
    <3> QED
      BY <3>1, <3>3, <3>4
  <2>4. ASSUME UNCHANGED active, \A l \in Conn : wire'[l] \subseteq wire[l] PROVE WireInv'
    <3>1. \A s \in Sub : Active(s)' => Active(s)
      BY <2>4 DEF Active
    <3> QED
      BY <1>0, <2>1, <2>2, <2>4, <3>1
  <2>5. ASSUME NEW q, ReadsBatch(q) PROVE WireInv'
    BY <2>4, <2>5 DEF ReadsBatch
  <2>6. ASSUME NEW s \in Sub, ReadsNotification(s) PROVE WireInv'
    BY <2>4, <2>6 DEF ReadsNotification
  <2>7. CASE UNCHANGED <<rmsg, wire, active, sent>>
    BY <2>4, <2>7
  <2> QED
    BY <1>2, <2>3, <2>5, <2>6, <2>7, ReadEffect
<1>3. CASE DispatchStep
  <2>1. UNCHANGED <<wire, active, pc>>
    BY <1>3, Zenon DEF DispatchStep, Shutdown, CancelAllRequests, HandleResponse,
       HandleNotification, Handled, QuitSub, CloseCodec, DrainReadOp, DrainReadErr, NewConn
  <2>2. UNCHANGED lastOp /\ (UNCHANGED conn \/ dpc' = "select")
    BY <1>3, Zenon DEF DispatchStep, Shutdown, CancelAllRequests, HandleResponse,
       HandleNotification, Handled, QuitSub, CloseCodec, DrainReadOp, DrainReadErr, NewConn
  <2>3. Handover' => Handover
    BY <1>3, Zenon DEF DispatchStep, Shutdown, CancelAllRequests, HandleResponse, Handover,
       HandleNotification, Handled, QuitSub, CloseCodec, DrainReadOp, DrainReadErr
  <2> QED
    BY <1>a, <2>1, <2>2, <2>3 DEF Handover
<1>4. ASSUME NEW x \in Closer, DispatchClose(x) \/ CloseCall(x) \/ CloseReturn(x)
      PROVE  WireInv'
  BY <1>a, <1>4 DEF DispatchClose, CloseCall, CloseReturn, Handover
<1>5. ASSUME NEW k \in Conn, DispatchReadOp(k) \/ DispatchReadErr(k) PROVE WireInv'
  BY <1>a, <1>5 DEF DispatchReadOp, DispatchReadErr, Handover
<1>6. ASSUME NEW op \in Op, DispatchReconnected(op) PROVE WireInv'
  <2>1. /\ pc[op] = "offer" /\ dpc = "select" /\ pc' = [pc EXCEPT ![op] = "write"]
        /\ UNCHANGED <<lastOp, wire, active>>
    BY <1>6 DEF DispatchReconnected, Goto
  <2>2. \A s \in Op : pc'[s] \in Unsent => pc[s] \in Unsent
    BY <2>1, PcMoves DEF Unsent
  <2>3. CASE UNCHANGED dpc
    BY <1>a, <2>1, <2>2, <2>3 DEF Handover
  <2>4. CASE UNCHANGED conn
    <3>1. op = lastOp /\ \A k \in Conn : wire[k] \cap Ids(op) = {}
      BY <2>1 DEF LockInv, WriteLockHeld, Locked, FreshInv, Unseen, Unsent
    <3>2. op \in Sub => ~Active(op)
      BY <2>1 DEF WireInv, Unsent
    <3>3. \A s \in Sub : Active(s)' <=> Active(s)
      BY <2>1 DEF Active
    <3> QED
      BY <1>t, <2>1, <2>2, <2>4, <3>1, <3>2, <3>3, OneId DEF WireInv, Ids
  <2> QED
    BY <1>6, <2>3, <2>4 DEF DispatchReconnected
<1>7. ASSUME NEW op \in Op, ReqInit(op) PROVE WireInv'
  <2>1. /\ pc[op] = "send" /\ dpc = "select" /\ pc' = [pc EXCEPT ![op] = "check"]
        /\ UNCHANGED <<wire, active, dpc>>
    BY <1>7 DEF ReqInit, Goto
  <2>2. \A s \in Op : pc'[s] \in Unsent => pc[s] \in Unsent
    BY <2>1, PcMoves DEF Unsent
  <2> QED
    BY <1>a, <2>1, <2>2 DEF Handover
<1>8. ASSUME NEW op \in Op, ReqTimeout(op) PROVE WireInv'
  <2>1. /\ dpc = "select" /\ pc' = [pc EXCEPT ![op] = "done"]
        /\ UNCHANGED <<wire, active, dpc>>
    BY <1>8 DEF ReqTimeout, Return, Goto
  <2>2. \A s \in Op : pc'[s] \in Unsent => pc[s] \in Unsent
    BY <2>1, PcMoves DEF Unsent
  <2> QED
    BY <1>a, <2>1, <2>2 DEF Handover
<1>9. CASE ReqSent
  BY <1>a, <1>9 DEF ReqSent, Handover
<1>10. CASE UNCHANGED vars
  BY <1>a, <1>10 DEF vars, Handover
<1> QED
  BY <1>1, <1>2, <1>3, <1>4, <1>5, <1>6, <1>7, <1>8, <1>9, <1>10, Zenon DEF Next

\* The steps that move messages, and what the others do to the requests and
\* subscriptions the handler knows: it gets to know requests that the server has
\* not accepted yet, and keeps the others only on the same connection.
LEMMA MessageSteps ==
  ASSUME TypeInv, LockInv, ReaderInv, WireInv, [Next]_vars
  PROVE  \/ \E k \in Conn : ReadStep(k) \/ DispatchReadOp(k) \/ DrainReadOp(k)
         \/ HandleResponse \/ HandleNotification
         \/ /\ UNCHANGED <<rmsg, todo, active, sent>>
            /\ \A s \in Sub : Registered(s)' => ~Active(s) \/ (Registered(s) /\ UNCHANGED conn)
            /\ \A s \in Sub : s \in clientSubs' => s \in clientSubs /\ UNCHANGED conn
<1> DEFINE Rest == /\ UNCHANGED <<rmsg, todo, active, sent>>
                   /\ \A s \in Sub : Registered(s)' =>
                        ~Active(s) \/ (Registered(s) /\ UNCHANGED conn)
                   /\ \A s \in Sub : s \in clientSubs' => s \in clientSubs /\ UNCHANGED conn
<1>a. ASSUME UNCHANGED <<rmsg, todo, active, sent, conn>>, clientSubs' \subseteq clientSubs,
             respWait' \subseteq respWait
      PROVE  Rest
  BY <1>a DEF Registered, Ids
<1>b. ASSUME UNCHANGED <<rmsg, todo, active, sent>>, NewConn(rd) \/ \E rd1 : NewConn(rd1),
             lastOp \in Sub => ~Active(lastOp)
      PROVE  Rest
  <2>1. \A s \in Sub : Registered(s)' => s = lastOp
    BY <1>b DEF Registered, Ids, NewConn
  <2>2. clientSubs' = {}
    BY <1>b DEF NewConn
  <2> QED
    BY <1>b, <2>1, <2>2
<1> HIDE DEF Rest
<1> USE DEF callVars, reqVars, lockVars, connVars, readVars, dispVars
<1>1. ASSUME NEW op \in Op, Start(op) \/ Cancel(op) \/ CallerStep(op) PROVE Rest
  <2>1. UNCHANGED <<rmsg, todo, active, sent, conn, clientSubs, respWait>>
    BY <1>1, Zenon DEF CallerStep, Start, Cancel, SendAborted, CheckWriteConn, Dial,
       OfferRefused, Write, Sent, WaitReceive, WaitClosed, WaitCtxDone, GiveUpClosing
  <2> QED
    BY <1>a, <2>1
<1>2. ASSUME Shutdown \/ CloseCodec PROVE Rest
  BY <1>a, <1>2 DEF Shutdown, CloseCodec, CancelAllRequests
<1>3. ASSUME NEW s \in Sub, QuitSub(s) PROVE Rest
  BY <1>a, <1>3 DEF QuitSub
<1>4. ASSUME NEW k \in Conn, DrainReadErr(k) PROVE Rest
  <2>1. UNCHANGED <<rmsg, todo, active, sent>> /\ dpc = "drain"
    BY <1>4 DEF DrainReadErr
  <2>2. CASE UNCHANGED <<conn, respWait, clientSubs>>
    BY <1>a, <2>1, <2>2
  <2>3. CASE cont = "reconnected" /\ \E rd1 : NewConn(rd1)
    <3>1. lastOp \in Sub => ~Active(lastOp)
      BY <2>1, <2>3 DEF WireInv, Handover
    <3> QED
      BY <1>b, <2>1, <2>3, <3>1
  <2> QED
    BY <1>4, <2>2, <2>3, Zenon DEF DrainReadErr
<1>5. ASSUME NEW x \in Closer, DispatchClose(x) \/ CloseCall(x) \/ CloseReturn(x) PROVE Rest
  BY <1>a, <1>5 DEF DispatchClose, CloseCall, CloseReturn
<1>6. ASSUME NEW k \in Conn, DispatchReadErr(k) PROVE Rest
  BY <1>a, <1>6, Zenon DEF DispatchReadErr, CancelAllRequests
<1>7. ASSUME NEW op \in Op, DispatchReconnected(op) PROVE Rest
  <2>1. UNCHANGED <<rmsg, todo, active, sent>> /\ pc[op] = "offer"
    BY <1>7 DEF DispatchReconnected
  <2>2. CASE UNCHANGED <<conn, clientSubs>> /\ CancelAllRequests(lastOp)
    BY <1>a, <2>1, <2>2 DEF CancelAllRequests
  <2>3. CASE NewConn(rd)
    <3>1. lastOp = op
      BY <2>1 DEF LockInv, WriteLockHeld, Locked
    <3>2. lastOp \in Sub => ~Active(lastOp)
      BY <2>1, <3>1 DEF WireInv, Unsent
    <3> QED
      BY <1>b, <2>1, <2>3, <3>2
  <2> QED
    BY <1>7, <2>2, <2>3, Zenon DEF DispatchReconnected
<1>8. ASSUME NEW op \in Op, ReqInit(op) PROVE Rest
  <2>1. /\ UNCHANGED <<rmsg, todo, active, sent, conn, clientSubs>> /\ pc[op] = "send"
        /\ respWait' = respWait \cup Ids(op)
    BY <1>8 DEF ReqInit
  <2>2. op \in Sub => ~Active(op)
    BY <2>1 DEF WireInv, Unsent
  <2>3. \A s \in Sub : Registered(s)' => s = op \/ Registered(s)
    BY <2>1 DEF Registered, Ids
  <2> QED
    BY <2>1, <2>2, <2>3 DEF Rest
<1>9. ASSUME NEW op \in Op, ReqTimeout(op) PROVE Rest
  BY <1>a, <1>9 DEF ReqTimeout
<1>10. ASSUME ReqSent PROVE Rest
  BY <1>a, <1>10 DEF ReqSent
<1>11. ASSUME UNCHANGED vars PROVE Rest
  BY <1>a, <1>11 DEF vars
<1>12. \/ \E k \in Conn : ReadStep(k) \/ DispatchReadOp(k) \/ DrainReadOp(k)
       \/ HandleResponse \/ HandleNotification \/ Rest
  BY <1>1, <1>2, <1>3, <1>4, <1>5, <1>6, <1>7, <1>8, <1>9, <1>10, <1>11, Zenon
  DEF Next, DispatchStep
<1> QED
  BY <1>12 DEF Rest

\* dispatch takes what the read loop offers.
LEMMA TakeEffect ==
  ASSUME TypeInv, ReaderInv, HandInv, NEW k \in Conn, DispatchReadOp(k)
  PROVE  /\ dpc = "select" /\ todo = <<>> /\ todo' = rmsg[conn]
         /\ rmsg' = [rmsg EXCEPT ![conn] = <<>>]
         /\ UNCHANGED <<respWait, clientSubs, conn, active, sent>>
<1>1. dpc = "select" /\ rd[k] = "op" /\ todo' = rmsg[k] /\ rmsg' = [rmsg EXCEPT ![k] = <<>>]
  BY DEF DispatchReadOp
<1>2. k = conn
  BY <1>1 DEF ReaderInv, Live
<1>3. UNCHANGED <<respWait, clientSubs, conn, active, sent>>
  BY DEF DispatchReadOp, reqVars, connVars
<1> QED
  BY <1>1, <1>2, <1>3 DEF HandInv

\* drainRead drops what was read when no request and no subscription is left.
LEMMA DrainEffect ==
  ASSUME TypeInv, ReaderInv, HandInv, MoveInv, NEW k \in Conn, DrainReadOp(k)
  PROVE  /\ clientSubs = {} /\ respWait = {}
         /\ rmsg' = [rmsg EXCEPT ![conn] = <<>>]
         /\ UNCHANGED <<respWait, clientSubs, conn, active, sent, todo>>
<1>1. dpc = "drain" /\ rd[k] = "op" /\ rmsg' = [rmsg EXCEPT ![k] = <<>>]
  BY DEF DrainReadOp
<1>2. k = conn
  BY <1>1 DEF ReaderInv, Live
<1>3. UNCHANGED <<respWait, clientSubs, conn, active, sent, todo>>
  BY DEF DrainReadOp, reqVars, connVars, dispVars
<1> QED
  BY <1>1, <1>2, <1>3 DEF HandInv, MoveInv

\* Dispatch handles the first message it has in hand.
LEMMA HandleEffect ==
  ASSUME TypeInv, HandleResponse \/ HandleNotification
  PROVE  /\ todo # <<>> /\ todo \in Seq(Message) /\ todo' = Tail(todo)
         /\ UNCHANGED <<conn, rmsg, active, sent>>
<1>1. dpc = "handle" /\ todo' = Tail(todo) /\ UNCHANGED <<conn, rmsg, active, sent>>
  BY Zenon DEF HandleResponse, HandleNotification, Handled, connVars, readVars
<1> QED
  BY <1>1 DEF TypeInv, TypeOK

\* The server sends nothing for a subscription before it accepts it.
LEMMA QuietInvNext ==
  ASSUME TypeInv, LockInv, ReaderInv, MoveInv, HandInv, WireInv, QuietInv, [Next]_vars
  PROVE  QuietInv'
<1>t. /\ active \in [Conn -> SUBSET Sub] /\ conn \in Conn /\ sent \in [Sub -> 0..MaxNotif]
      /\ rmsg \in [Conn -> Seq(Message)]
  BY DEF TypeInv, TypeOK
<1>0. ASSUME \A s \in Sub : ~Active(s)' => ~Active(s) /\ sent'[s] = sent[s],
             \A s \in Sub : ~Active(s)' =>
               /\ HasNote(todo', s) => HasNote(todo, s) \/ HasNote(rmsg[conn], s)
               /\ Accepts(todo', s) => Accepts(todo, s) \/ Accepts(rmsg[conn], s),
             NEW q, rmsg' = rmsg \/ rmsg' = [rmsg EXCEPT ![conn] = q],
             \A s \in Sub : ~Active(s)' => ~HasNote(q, s) /\ ~Accepts(q, s)
      PROVE  QuietInv'
  <2> SUFFICES ASSUME NEW s \in Sub, ~Active(s)'
      PROVE  /\ sent'[s] = 0
             /\ ~HasNote(todo', s) /\ ~Accepts(todo', s)
             /\ \A k \in Conn : ~HasNote(rmsg'[k], s) /\ ~Accepts(rmsg'[k], s)
    BY Zenon DEF QuietInv, HasNote, Accepts
  <2>1. /\ sent[s] = 0 /\ ~HasNote(todo, s) /\ ~Accepts(todo, s)
        /\ \A k \in Conn : ~HasNote(rmsg[k], s) /\ ~Accepts(rmsg[k], s)
    BY <1>0 DEF QuietInv
  <2>2. \A k \in Conn : rmsg'[k] = rmsg[k] \/ rmsg'[k] = q
    BY <1>0, <1>t
  <2>3. ~HasNote(q, s) /\ ~Accepts(q, s)
    BY <1>0
  <2>4. \A k \in Conn : ~HasNote(rmsg'[k], s) /\ ~Accepts(rmsg'[k], s)
    BY <2>1, <2>2, <2>3
  <2>5. ~HasNote(todo', s) /\ ~Accepts(todo', s)
    <3>1. /\ HasNote(todo', s) => HasNote(todo, s) \/ HasNote(rmsg[conn], s)
          /\ Accepts(todo', s) => Accepts(todo, s) \/ Accepts(rmsg[conn], s)
      BY <1>0, Zenon
    <3> QED
      BY <1>t, <2>1, <3>1, Zenon
  <2>6. sent'[s] = 0
    BY <1>0, <2>1, Zenon
  <2> QED
    BY <2>4, <2>5, <2>6
<1>e. \A s \in Sub : ~HasNote(<<>>, s) /\ ~Accepts(<<>>, s)
  BY NoteFacts
<1>a. ASSUME UNCHANGED active PROVE \A s \in Sub : Active(s)' <=> Active(s)
  BY <1>a DEF Active
<1>1. ASSUME NEW k \in Conn, ReadStep(k) PROVE QuietInv'
  <2>1. UNCHANGED todo
    BY <1>1, ReadEffect DEF dispVars
  <2>2. ASSUME NEW i \in Id, NEW b \in BOOLEAN, ReadsAnswer(i, b) PROVE QuietInv'
    <3>1. /\ rmsg' = [rmsg EXCEPT ![conn] = <<Respond(i, b)>>] /\ UNCHANGED sent
          /\ active' = IF b /\ Owner[i] \in Sub
                       THEN [active EXCEPT ![conn] = active[conn] \cup {Owner[i]}] ELSE active
      BY <2>2 DEF ReadsAnswer
    <3>2. \A s \in Sub : Active(s) => Active(s)'
      BY <1>t, <3>1 DEF Active
    <3>3. ASSUME NEW s \in Sub, b, Owner[i] = s PROVE Active(s)'
      BY <1>t, <3>1, <3>3 DEF Active
    <3>4. \A s \in Sub : ~Active(s)' => /\ ~HasNote(<<Respond(i, b)>>, s)
                                        /\ ~Accepts(<<Respond(i, b)>>, s)
      BY <3>3, NoteFacts, Zenon
    <3> QED
      BY <1>0, <2>1, <3>1, <3>2, <3>4, Zenon
  <2>3. ASSUME NEW q, ReadsBatch(q) PROVE QuietInv'
    BY <1>0, <1>a, <2>1, <2>3, Zenon DEF ReadsBatch
  <2>4. ASSUME NEW t \in Sub, ReadsNotification(t) PROVE QuietInv'
    <3>1. /\ rmsg' = [rmsg EXCEPT ![conn] = <<Notify(t, sent[t] + 1)>>]
          /\ sent' = [sent EXCEPT ![t] = sent[t] + 1] /\ UNCHANGED active /\ Active(t)
      BY <1>t, <2>4 DEF ReadsNotification, Active
    <3>2. \A s \in Sub : ~Active(s)' => ~Active(s) /\ s # t
      BY <1>a, <3>1
    <3>3. \A s \in Sub : ~Active(s)' => /\ ~HasNote(<<Notify(t, sent[t] + 1)>>, s)
                                        /\ ~Accepts(<<Notify(t, sent[t] + 1)>>, s)
      BY <3>2, NoteFacts, Zenon
    <3>4. \A s \in Sub : ~Active(s)' => sent'[s] = sent[s]
      BY <1>t, <3>1, <3>2
    <3> QED
      BY <1>0, <2>1, <3>1, <3>2, <3>3, <3>4, Zenon
  <2>5. CASE UNCHANGED <<rmsg, wire, active, sent>>
    BY <1>0, <1>a, <1>e, <2>1, <2>5
  <2> QED
    BY <1>1, <2>2, <2>3, <2>4, <2>5, ReadEffect
<1>2. ASSUME NEW k \in Conn, DispatchReadOp(k) PROVE QuietInv'
  BY <1>0, <1>a, <1>e, <1>2, TakeEffect
<1>3. ASSUME NEW k \in Conn, DrainReadOp(k) PROVE QuietInv'
  BY <1>0, <1>a, <1>e, <1>3, DrainEffect
<1>4. CASE HandleResponse \/ HandleNotification
  <2>1. \A s \in Sub : /\ HasNote(todo', s) => HasNote(todo, s)
                       /\ Accepts(todo', s) => Accepts(todo, s)
    BY <1>4, HandleEffect, NoteQueue, Zenon
  <2> QED
    BY <1>0, <1>a, <1>e, <1>4, <2>1, HandleEffect, Zenon
<1>5. CASE UNCHANGED <<rmsg, todo, active, sent>>
  BY <1>0, <1>a, <1>e, <1>5
<1> QED
  BY <1>1, <1>2, <1>3, <1>4, <1>5, MessageSteps

\* The answer that accepts a subscription is handled before its notifications.
LEMMA OrderInvNext ==
  ASSUME TypeInv, LockInv, ReaderInv, MoveInv, HandInv, WireInv, QuietInv, OrderInv, [Next]_vars
  PROVE  OrderInv'
<1>t. /\ active \in [Conn -> SUBSET Sub] /\ conn \in Conn /\ rmsg \in [Conn -> Seq(Message)]
  BY DEF TypeInv, TypeOK
<1>0. SUFFICES ASSUME NEW s \in Sub, Registered(s)'
      PROVE  /\ Active(s)' => AcceptedBy(todo', s) \/ AcceptedBy(rmsg'[conn'], s)
             /\ HasNote(rmsg'[conn'], s) => AcceptedBy(todo', s)
             /\ ~HasNote(todo', s)
  BY Zenon DEF OrderInv, AcceptedBy, HasNote, Ids
<1>i. PICK i \in Id : Owner[i] = s /\ Ids(s) = {i}
  BY OneId
<1>e. ~HasNote(<<>>, s) /\ ~AcceptedBy(<<>>, s)
  BY NoteFacts DEF AcceptedBy
<1>r. Registered(s) => /\ Active(s) => AcceptedBy(todo, s) \/ AcceptedBy(rmsg[conn], s)
                       /\ HasNote(rmsg[conn], s) => AcceptedBy(todo, s)
                       /\ ~HasNote(todo, s)
  BY DEF OrderInv
<1>a. ASSUME UNCHANGED active PROVE Active(s)' <=> Active(s)
  BY <1>a DEF Active
<1>1. ASSUME NEW k \in Conn, ReadStep(k)
      PROVE  /\ Active(s)' => AcceptedBy(todo', s) \/ AcceptedBy(rmsg'[conn'], s)
             /\ HasNote(rmsg'[conn'], s) => AcceptedBy(todo', s)
             /\ ~HasNote(todo', s)
  <2>1. UNCHANGED <<todo, conn, respWait>> /\ rmsg[conn] = <<>>
    BY <1>1, ReadEffect DEF dispVars, connVars, reqVars
  <2>2. Registered(s)
    BY <1>0, <2>1 DEF Registered, Ids
  <2>3. ~HasNote(todo, s) /\ (Active(s) => AcceptedBy(todo, s))
    BY <1>e, <1>r, <2>1, <2>2
  <2>4. ASSUME NEW n \in Id, NEW b \in BOOLEAN, ReadsAnswer(n, b)
        PROVE  /\ Active(s)' => AcceptedBy(todo, s) \/ AcceptedBy(rmsg'[conn], s)
               /\ ~HasNote(rmsg'[conn], s)
    <3>1. /\ rmsg'[conn] = <<Respond(n, b)>>
          /\ active' = IF b /\ Owner[n] \in Sub
                       THEN [active EXCEPT ![conn] = active[conn] \cup {Owner[n]}] ELSE active
      BY <1>t, <2>4 DEF ReadsAnswer
    <3>2. CASE b /\ Owner[n] = s
      <4>1. n = i
        BY <1>i, <3>2, OneId
      <4>2. AcceptedBy(rmsg'[conn], s)
        BY <1>i, <3>1, <3>2, <4>1 DEF AcceptedBy
      <4>3. ~HasNote(<<Respond(n, b)>>, s)
        BY NoteFacts, Zenon
      <4> QED
        BY <3>1, <4>2, <4>3, Zenon
    <3>3. CASE ~(b /\ Owner[n] = s)
      <4>1. Active(s)' <=> Active(s)
        BY <1>t, <3>1, <3>3, Zenon DEF Active
      <4>2. ~HasNote(<<Respond(n, b)>>, s)
        BY NoteFacts, Zenon
      <4> QED
        BY <2>3, <3>1, <4>1, <4>2, Zenon
    <3> QED
      BY <3>2, <3>3
  <2>5. ASSUME NEW q, ReadsBatch(q)
        PROVE  (Active(s)' <=> Active(s)) /\ ~HasNote(rmsg'[conn], s)
    BY <1>a, <1>t, <2>5 DEF ReadsBatch
  <2>6. ASSUME NEW t \in Sub, ReadsNotification(t)
        PROVE  (Active(s)' <=> Active(s)) /\ (HasNote(rmsg'[conn], s) => Active(s))
    <3>1. /\ rmsg'[conn] = <<Notify(t, sent[t] + 1)>> /\ UNCHANGED active /\ Active(t)
      BY <1>t, <2>6 DEF ReadsNotification, Active
    <3>2. HasNote(<<Notify(t, sent[t] + 1)>>, s) => t = s
      BY NoteFacts, Zenon
    <3>3. Active(s)' <=> Active(s)
      BY <1>a, <3>1
    <3>4. HasNote(rmsg'[conn], s) => t = s
      BY <3>1, <3>2, Zenon
    <3> QED
      BY <3>1, <3>3, <3>4
  <2>7. ASSUME UNCHANGED <<rmsg, wire, active, sent>>
        PROVE  (Active(s)' <=> Active(s)) /\ ~HasNote(rmsg'[conn], s)
    BY <1>a, <1>e, <2>1, <2>7
  <2> QED
    BY <1>1, <2>1, <2>3, <2>4, <2>5, <2>6, <2>7, ReadEffect, Zenon
<1>2. ASSUME NEW k \in Conn, DispatchReadOp(k)
      PROVE  /\ Active(s)' => AcceptedBy(todo', s) \/ AcceptedBy(rmsg'[conn'], s)
             /\ HasNote(rmsg'[conn'], s) => AcceptedBy(todo', s)
             /\ ~HasNote(todo', s)
  <2>1. /\ todo = <<>> /\ todo' = rmsg[conn] /\ rmsg'[conn] = <<>>
        /\ UNCHANGED <<respWait, conn, active>>
    BY <1>2, <1>t, TakeEffect
  <2>2. Registered(s)
    BY <1>0, <2>1 DEF Registered, Ids
  <2> QED
    BY <1>a, <1>e, <1>r, <2>1, <2>2
<1>3. ASSUME NEW k \in Conn, DrainReadOp(k) PROVE FALSE
  BY <1>0, <1>3, DrainEffect DEF Registered
<1>4. ASSUME HandleResponse \/ HandleNotification
      PROVE  /\ Active(s)' => AcceptedBy(todo', s) \/ AcceptedBy(rmsg'[conn'], s)
             /\ HasNote(rmsg'[conn'], s) => AcceptedBy(todo', s)
             /\ ~HasNote(todo', s)
  <2>1. /\ todo # <<>> /\ todo \in Seq(Message) /\ todo' = Tail(todo)
        /\ UNCHANGED <<conn, rmsg, active>>
    BY <1>4, HandleEffect
  <2>2. Registered(s) /\ ~AcceptedBy(todo, s)
    <3>1. CASE HandleResponse
      <4>1. respWait' = respWait \ {Head(todo).id}
        BY <3>1, Zenon DEF HandleResponse
      <4>2. Registered(s) /\ Head(todo).id # i
        BY <1>0, <1>i, <4>1 DEF Registered, Ids
      <4>3. ~AcceptedBy(todo, s)
        BY <1>i, <4>2 DEF AcceptedBy, Respond
      <4> QED
        BY <4>2, <4>3
    <3>2. CASE HandleNotification
      <4>1. UNCHANGED respWait /\ Head(todo).type = "notification"
        BY <3>2 DEF HandleNotification, reqVars
      <4>2. ~AcceptedBy(todo, s)
        BY <4>1 DEF AcceptedBy, Respond
      <4> QED
        BY <1>0, <4>1, <4>2 DEF Registered, Ids
    <3> QED
      BY <1>4, <3>1, <3>2
  <2>3. ~HasNote(todo', s)
    BY <1>r, <2>1, <2>2, NoteQueue, Zenon
  <2> QED
    BY <1>a, <1>r, <2>1, <2>2, <2>3, Zenon
<1>5. ASSUME UNCHANGED <<rmsg, todo, active, sent>>,
             ~Active(s) \/ (Registered(s) /\ UNCHANGED conn)
      PROVE  /\ Active(s)' => AcceptedBy(todo', s) \/ AcceptedBy(rmsg'[conn'], s)
             /\ HasNote(rmsg'[conn'], s) => AcceptedBy(todo', s)
             /\ ~HasNote(todo', s)
  <2>1. CASE ~Active(s)
    <3>1. conn' \in Conn
      BY TypeInvNext DEF TypeInv, TypeOK
    <3> QED
      BY <1>5, <1>a, <2>1, <3>1 DEF QuietInv
  <2>2. CASE Registered(s) /\ UNCHANGED conn
    BY <1>5, <1>a, <1>r, <2>2
  <2> QED
    BY <1>5, <2>1, <2>2
<1> QED
  BY <1>0, <1>1, <1>2, <1>3, <1>4, <1>5, MessageSteps, Zenon

=============================================================================
