------------------------- MODULE RpcRequestsProofs --------------------------
(***************************************************************************)
(* Proofs about RpcRequests, for any set of requests, ids, contexts and    *)
(* goroutines and any bounds: types, the write lock, the read loops, the   *)
(* connections, and requests that have no answers yet or are moved.        *)
(***************************************************************************)
EXTENDS RpcRequests, TLAPS

-----------------------------------------------------------------------------
(* Types. *)

\* TypeOK alone is not inductive: handleResponse takes the head of todo, which
\* has a type only if dispatch and the read loops do have a message in hand when
\* they say so.
TypeInv ==
  /\ TypeOK
  /\ dpc = "handle" => todo # <<>>
  /\ \A k \in Conn : rd[k] = "op" => rmsg[k] # <<>>

\* initClient creates well-typed state.
LEMMA TypeInvInit == Init => TypeInv
<1> SUFFICES ASSUME Init PROVE TypeInv
  BY Zenon
<1> USE RequestAssumption DEF Init
<1>1. 1 \in Conn /\ 0 \in 0..MaxNotif
  BY DEF Conn
<1>2. rd \in [Conn -> {"off", "exit"} \cup Live] /\ rmsg \in [Conn -> Seq(Message)]
  BY DEF Live
<1>3. got \in [Op -> Seq(Id)] /\ resp \in [Op -> Seq(Id)] /\ todo \in Seq(Message)
  OBVIOUS
<1>4. /\ wire \in [Conn -> SUBSET Id] /\ active \in [Conn -> SUBSET Sub]
      /\ sent \in [Sub -> 0..MaxNotif]
  BY <1>1, Zenon
<1> QED
  BY <1>1, <1>2, <1>3, <1>4, Zenon DEF TypeInv, TypeOK

\* The steps of a goroutine that makes a request keep the types.
LEMMA TypeInvCaller ==
  ASSUME TypeInv, NEW op \in Op, Start(op) \/ Cancel(op) \/ CallerStep(op)
  PROVE  TypeInv'
<1> USE DEF TypeInv, TypeOK, callVars, reqVars, lockVars, connVars, readVars, dispVars,
      endVars, Goto, Return
<1>1. CASE Start(op)
  BY <1>1 DEF Start
<1>2. CASE Cancel(op)
  BY <1>2 DEF Cancel
<1>3. CASE SendAborted(op)
  BY <1>3 DEF SendAborted
<1>4. CASE CheckWriteConn(op)
  <2>1. pc' \in [Op -> {"idle", "send", "wait", "giveup", "done"} \cup Locked]
    BY <1>4 DEF CheckWriteConn, Locked
  <2> QED
    BY <2>1, <1>4 DEF CheckWriteConn
<1>5. CASE Dial(op)
  <2>1. pc' \in [Op -> {"idle", "send", "wait", "giveup", "done"} \cup Locked]
    BY <1>5, Zenon DEF Dial, Locked
  <2>2. nconn' \in Conn
    BY <1>5, RequestAssumption DEF Dial, Conn
  <2> QED
    BY <2>1, <2>2, <1>5 DEF Dial
<1>6. CASE OfferRefused(op)
  BY <1>6 DEF OfferRefused, Locked
<1>7. CASE Write(op)
  <2>1. pc' \in [Op -> {"idle", "send", "wait", "giveup", "done"} \cup Locked]
    BY <1>7 DEF Write, Locked
  <2>2. Ids(op) \subseteq Id
    BY Zenon DEF Ids
  <2>3. wire' \in [Conn -> SUBSET Id] /\ writeConn' \in Conn \cup {0}
    <3>1. CASE writeConn \in Conn
      BY <3>1, <2>2, <1>7 DEF Write
    <3>2. CASE writeConn \notin Conn
      BY <3>2, <1>7 DEF Write
    <3> QED
      BY <3>1, <3>2, Zenon
  <2> QED
    BY <2>1, <2>3, <1>7 DEF Write
<1>8. CASE Sent(op)
  <2>1. pc' \in [Op -> {"idle", "send", "wait", "giveup", "done"} \cup Locked]
    BY <1>8, Zenon DEF Sent
  <2>2. outcome' \in [Op -> {"none", "ok", "err"}]
    BY <1>8, Zenon DEF Sent
  <2>3. reqSent' \in {"empty", "nil", "err"}
    BY <1>8, Zenon DEF Sent
  <2> QED
    BY <2>1, <2>2, <2>3, <1>8 DEF Sent
<1>9. CASE WaitReceive(op)
  <2>1. pc' \in [Op -> {"idle", "send", "wait", "giveup", "done"} \cup Locked]
    BY <1>9, Zenon DEF WaitReceive
  <2>2. got' \in [Op -> Seq(Id)] /\ resp' \in [Op -> Seq(Id)]
    BY <1>9 DEF WaitReceive
  <2>3. outcome' \in [Op -> {"none", "ok", "err"}]
    BY <1>9, Zenon DEF WaitReceive
  <2> QED
    BY <2>1, <2>2, <2>3, <1>9 DEF WaitReceive
<1>10. CASE WaitClosed(op)
  BY <1>10 DEF WaitClosed
<1>11. CASE WaitCtxDone(op)
  BY <1>11 DEF WaitCtxDone
<1>12. CASE GiveUpClosing(op)
  BY <1>12 DEF GiveUpClosing
<1> QED
  BY <1>1, <1>2, <1>3, <1>4, <1>5, <1>6, <1>7, <1>8, <1>9, <1>10, <1>11, <1>12, Zenon
  DEF CallerStep

\* The steps of a read loop keep the types.
LEMMA TypeInvRead ==
  ASSUME TypeInv, NEW k \in Conn, ReadStep(k)
  PROVE  TypeInv'
<1> USE DEF TypeInv, TypeOK, callVars, reqVars, lockVars, connVars, readVars, dispVars,
      endVars
<1>1. ASSUME NEW msgs \in Seq(Message), msgs # <<>>, Offer(k, msgs),
             wire' \in [Conn -> SUBSET Id], active' \in [Conn -> SUBSET Sub],
             sent' \in [Sub -> 0..MaxNotif]
      PROVE  TypeInv'
  <2>1. rd' \in [Conn -> {"off", "exit"} \cup Live] /\ rmsg' \in [Conn -> Seq(Message)]
    BY <1>1, Zenon DEF Offer, Live
  <2>2. \A l \in Conn : rd'[l] = "op" => rmsg'[l] # <<>>
    BY <1>1, Zenon DEF Offer
  <2> QED
    BY <2>1, <2>2, <1>1 DEF Offer
<1>2. ASSUME NEW i \in Id, NEW b \in BOOLEAN, ReadResponse(k, i, b)
      PROVE  TypeInv'
  <2>1. <<Respond(i, b)>> \in Seq(Message) /\ <<Respond(i, b)>> # <<>>
    BY DEF Respond, Message, Response
  <2>2. Owner[i] \in Op
    BY RequestAssumption, Zenon
  <2>3. wire' \in [Conn -> SUBSET Id] /\ active' \in [Conn -> SUBSET Sub]
    BY <1>2, Zenon DEF ReadResponse
  <2> QED
    BY <1>1, <1>2, <2>1, <2>3, Zenon DEF ReadResponse
<1>3. ASSUME NEW n \in 2..MaxBatch, NEW ids \in [1..n -> wire[k]], ReadBatch(k, ids)
      PROVE  TypeInv'
  <2> DEFINE msgs == [x \in DOMAIN ids |-> Respond(ids[x], TRUE)]
  <2>1. \A x \in 1..n : Respond(ids[x], TRUE) \in Message
    BY Zenon DEF Respond, Message, Response
  <2>2. n \in Nat /\ n >= 2 /\ DOMAIN ids = 1..n
    BY RequestAssumption
  <2>3. msgs \in Seq(Message) /\ msgs # <<>>
    <3>1. msgs \in [1..n -> Message]
      BY <2>1, <2>2, Zenon
    <3> HIDE DEF msgs
    <3>2. msgs \in Seq(Message) /\ Len(msgs) = n
      BY <3>1, <2>2
    <3> QED
      BY <3>2, <2>2
  <2>4. wire' \in [Conn -> SUBSET Id]
    BY <1>3, Zenon DEF ReadBatch
  <2> QED
    BY <1>1, <1>3, <2>3, <2>4, Zenon DEF ReadBatch
<1>4. ASSUME NEW s \in Sub, ReadNotification(k, s)
      PROVE  TypeInv'
  <2>1. sent[s] + 1 \in 1..MaxNotif /\ sent[s] + 1 \in 0..MaxNotif
    BY <1>4, RequestAssumption DEF ReadNotification
  <2>2. <<Notify(s, sent[s] + 1)>> \in Seq(Message)
    BY <2>1 DEF Notify, Message, Notification
  <2>3. <<Notify(s, sent[s] + 1)>> # <<>>
    BY Zenon
  <2>4. sent' \in [Sub -> 0..MaxNotif]
    BY <1>4, <2>1, Zenon DEF ReadNotification
  <2> QED
    BY <1>1, <1>4, <2>2, <2>3, <2>4, Zenon DEF ReadNotification
<1>5. CASE ReadFail(k)
  BY <1>5 DEF ReadFail, Live
<1> QED
  BY <1>2, <1>3, <1>4, <1>5, Zenon DEF ReadStep

\* cancelAllRequests leaves well-typed requests.
LEMMA CancelTypes ==
  ASSUME TypeOK, NEW r, CancelAllRequests(r)
  PROVE  /\ respWait' \subseteq Id /\ resp' \in [Op -> Seq(Id)]
         /\ respClosed' \subseteq Op /\ opErr' \subseteq Op
  BY RequestAssumption DEF CancelAllRequests, TypeOK

\* The end of handling one message leaves a message for the next round.
LEMMA HandledTypes ==
  ASSUME todo \in Seq(Message), todo # <<>>, Handled
  PROVE  /\ todo' \in Seq(Message)
         /\ dpc' \in {"select", "handle"}
         /\ dpc' = "handle" => todo' # <<>>
<1>1. Len(todo) \in Nat /\ Len(todo) # 0
  OBVIOUS
<1>2. Tail(todo) \in Seq(Message) /\ Len(Tail(todo)) = Len(todo) - 1
  OBVIOUS
<1>3. Tail(todo) = <<>> => Len(Tail(todo)) = 0
  <2>1. \A t : t = <<>> => Len(t) = 0
    OBVIOUS
  <2> QED
    BY <2>1, Zenon
<1>4. Len(todo) # 1 => Tail(todo) # <<>>
  <2> DEFINE n == Len(todo)
             l == Len(Tail(todo))
  <2>1. n \in Nat /\ l = n - 1 /\ (Tail(todo) = <<>> => l = 0)
    BY <1>1, <1>2, <1>3, Zenon
  <2> HIDE DEF n, l
  <2>2. n # 1 => Tail(todo) # <<>>
    BY <2>1
  <2> QED
    BY <2>2, Zenon DEF n
<1> QED
  BY <1>2, <1>4, Zenon DEF Handled

\* A message that is at hand is a message.
LEMMA HeadType ==
  ASSUME NEW T, NEW q \in Seq(T), q # <<>>
  PROVE  Head(q) \in T
  OBVIOUS

\* Every step that dispatch takes outside of its select keeps the types.
LEMMA TypeInvDispatch ==
  ASSUME TypeInv, DispatchStep
  PROVE  TypeInv'
<1> USE DEF TypeInv, TypeOK, callVars, reqVars, lockVars, connVars, readVars, dispVars,
      endVars
<1>1. CASE Shutdown
  <2>1. CASE reading
    BY <1>1, <2>1, CancelTypes, Zenon DEF Shutdown
  <2>2. CASE ~reading
    BY <1>1, <2>2, Zenon DEF Shutdown
  <2> QED
    BY <2>1, <2>2, Zenon
<1>2. CASE HandleResponse
  <2> DEFINE m == Head(todo)
             op == Owner[m.id]
  <2>1. m \in Message /\ m.type = "response"
    <3>1. todo \in Seq(Message) /\ todo # <<>>
      BY <1>2, Zenon DEF HandleResponse
    <3>2. m.type = "response"
      BY <1>2, Zenon DEF HandleResponse
    <3> QED
      BY <3>1, <3>2, HeadType, Zenon
  <2>2. m.id \in Id /\ m.ok \in BOOLEAN
    BY <2>1, Zenon DEF Message, Response, Notification
  <2>3. op \in Op
    BY <2>2, RequestAssumption, Zenon
  <2>4. /\ respWait' \subseteq Id /\ resp' \in [Op -> Seq(Id)]
        /\ respClosed' \subseteq Op /\ opErr' \subseteq Op /\ clientSubs' \subseteq Sub
    <3>1. CASE m.id \notin respWait
      BY <3>1, <1>2, Zenon DEF HandleResponse
    <3>2. CASE m.id \in respWait /\ op \notin Sub
      <4>1. /\ resp' = [resp EXCEPT ![op] = Append(@, m.id)]
            /\ respWait' = respWait \ {m.id}
            /\ UNCHANGED <<respClosed, opErr, clientSubs>>
        BY <3>2, <1>2, Zenon DEF HandleResponse
      <4> QED
        BY <4>1, <2>2, <2>3
    <3>3. CASE m.id \in respWait /\ op \in Sub
      <4>1. /\ respClosed' = respClosed \cup {op}
            /\ opErr' = IF m.ok THEN opErr ELSE opErr \cup {op}
            /\ clientSubs' = IF m.ok THEN clientSubs \cup {op} ELSE clientSubs
            /\ respWait' = respWait \ {m.id}
            /\ UNCHANGED resp
        BY <3>3, <1>2, Zenon DEF HandleResponse
      <4> QED
        BY <4>1, <3>3, <2>3, Zenon
    <3> QED
      BY <3>1, <3>2, <3>3, Zenon
  <2>5. Handled
    BY <1>2, Zenon DEF HandleResponse
  <2> QED
    BY <2>4, <2>5, HandledTypes, <1>2 DEF Handled, HandleResponse
<1>3. CASE HandleNotification
  BY <1>3, HandledTypes DEF HandleNotification, Handled
<1>4. ASSUME NEW s \in Sub, QuitSub(s) PROVE TypeInv'
  BY <1>4, Zenon DEF QuitSub
<1>5. CASE CloseCodec
  BY <1>5, Zenon DEF CloseCodec
<1>6. ASSUME NEW k \in Conn, DrainReadOp(k) PROVE TypeInv'
  BY <1>6 DEF DrainReadOp, Live
<1>7. ASSUME NEW k \in Conn, DrainReadErr(k) PROVE TypeInv'
  <2>1. Ids(lastOp) \subseteq Id
    BY Zenon DEF Ids
  <2>2. rd' \in [Conn -> {"off", "exit"} \cup Live]
    BY <1>7, Zenon DEF DrainReadErr, NewConn, Live
  <2>3. \A l \in Conn : rd'[l] = "op" => rd[l] = "op"
    BY <1>7, Zenon DEF DrainReadErr, NewConn
  <2> QED
    BY <2>1, <2>2, <2>3, <1>7, Zenon DEF DrainReadErr, NewConn
<1> QED
  BY <1>1, <1>2, <1>3, <1>4, <1>5, <1>6, <1>7, Zenon DEF DispatchStep

\* The cases of the select in dispatch, and Close, keep the types.
LEMMA TypeInvSelect ==
  ASSUME TypeInv,
         \/ \E x \in Closer : DispatchClose(x) \/ CloseCall(x) \/ CloseReturn(x)
         \/ \E k \in Conn : DispatchReadOp(k) \/ DispatchReadErr(k)
         \/ \E op \in Op : DispatchReconnected(op) \/ ReqInit(op) \/ ReqTimeout(op)
         \/ ReqSent
  PROVE  TypeInv'
<1> USE DEF TypeInv, TypeOK, callVars, reqVars, lockVars, connVars, readVars, dispVars,
      endVars
<1>1. ASSUME NEW x \in Closer, DispatchClose(x) \/ CloseCall(x) \/ CloseReturn(x)
      PROVE  TypeInv'
  <2>1. CASE DispatchClose(x)
    BY <2>1, Zenon DEF DispatchClose
  <2>2. CASE CloseCall(x)
    BY <2>2 DEF CloseCall
  <2>3. CASE CloseReturn(x)
    BY <2>3 DEF CloseReturn
  <2> QED
    BY <1>1, <2>1, <2>2, <2>3, Zenon
<1>2. ASSUME NEW k \in Conn, DispatchReadOp(k) PROVE TypeInv'
  BY <1>2 DEF DispatchReadOp, Live
<1>3. ASSUME NEW k \in Conn, DispatchReadErr(k) PROVE TypeInv'
  <2>1. CancelAllRequests(lastOp)
    BY <1>3, Zenon DEF DispatchReadErr
  <2>2. rd' \in [Conn -> {"off", "exit"} \cup Live]
    BY <1>3, Zenon DEF DispatchReadErr, Live
  <2>3. \A l \in Conn : rd'[l] = "op" => rd[l] = "op"
    BY <1>3, Zenon DEF DispatchReadErr
  <2> QED
    BY <2>1, <2>2, <2>3, <1>3, CancelTypes, Zenon DEF DispatchReadErr
<1>4. ASSUME NEW op \in Op, DispatchReconnected(op) PROVE TypeInv'
  <2>1. Ids(lastOp) \subseteq Id
    BY Zenon DEF Ids
  <2>2. pc' \in [Op -> {"idle", "send", "wait", "giveup", "done"} \cup Locked]
    BY <1>4, Zenon DEF DispatchReconnected, Goto, Locked
  <2>3. CASE reading
    BY <2>2, <2>3, <1>4, CancelTypes, Zenon DEF DispatchReconnected
  <2>4. CASE ~reading
    BY <2>1, <2>2, <2>4, <1>4, Zenon DEF DispatchReconnected, NewConn, Live
  <2> QED
    BY <2>3, <2>4, Zenon
<1>5. ASSUME NEW op \in Op, ReqInit(op) PROVE TypeInv'
  BY <1>5, Zenon DEF ReqInit, Goto, Ids, Locked
<1>6. ASSUME NEW op \in Op, ReqTimeout(op) PROVE TypeInv'
  BY <1>6, Zenon DEF ReqTimeout, Return, Goto
<1>7. CASE ReqSent
  BY <1>7, Zenon DEF ReqSent
<1> QED
  BY <1>1, <1>2, <1>3, <1>4, <1>5, <1>6, <1>7, Zenon

\* Every step of the request path keeps the types.
LEMMA TypeInvNext == TypeInv /\ [Next]_vars => TypeInv'
<1>1. TypeInv /\ UNCHANGED vars => TypeInv'
  BY DEF TypeInv, TypeOK, vars, callVars, reqVars, lockVars, connVars, readVars, dispVars,
     endVars
<1> QED
  BY <1>1, TypeInvCaller, TypeInvRead, TypeInvDispatch, TypeInvSelect, Zenon DEF Next

\* Type correctness of the request path: the state of callers, dispatch, read
\* loops and Close keeps its shape in every behaviour.
THEOREM TypeCorrect == Spec => []TypeOK
<1>1. TypeInv => TypeOK
  BY Zenon DEF TypeInv
<1> QED
  BY <1>1, TypeInvInit, TypeInvNext, PTL DEF Spec

-----------------------------------------------------------------------------
(* The write lock. *)

\* The channel reqSent is full only while dispatch still has the request as
\* lastOp: the next request does not find the release of an earlier one.
LockInv ==
  /\ WriteLockHeld
  /\ lastOp = NoOp => reqSent = "empty"

\* The write lock has one holder after every step.
LEMMA LockInvNext ==
  ASSUME TypeInv, LockInv, [Next]_vars
  PROVE  LockInv'
<1> USE RequestAssumption DEF LockInv, WriteLockHeld
<1>0. ASSUME UNCHANGED <<pc, lockVars>> PROVE LockInv'
  BY <1>0, Zenon DEF lockVars
<1>1. ASSUME NEW op \in Op, Start(op) \/ Cancel(op) \/ CallerStep(op) PROVE LockInv'
  <2> USE DEF callVars, lockVars, Goto, Return, Locked, TypeInv, TypeOK
  <2>1. CASE Start(op)
    BY <2>1, Zenon DEF Start
  <2>2. CASE Cancel(op)
    BY <2>2, Zenon DEF Cancel
  <2>3. CASE SendAborted(op)
    BY <2>3, Zenon DEF SendAborted
  <2>4. CASE CheckWriteConn(op)
    BY <2>4, Zenon DEF CheckWriteConn
  <2>5. CASE Dial(op)
    BY <2>5, Zenon DEF Dial
  <2>6. CASE OfferRefused(op)
    BY <2>6, Zenon DEF OfferRefused
  <2>7. CASE Write(op)
    BY <2>7, Zenon DEF Write
  <2>8. CASE Sent(op)
    BY <2>8 DEF Sent
  <2>9. CASE WaitReceive(op)
    BY <2>9 DEF WaitReceive
  <2>10. CASE WaitClosed(op) \/ WaitCtxDone(op) \/ GiveUpClosing(op)
    BY <2>10 DEF WaitClosed, WaitCtxDone, GiveUpClosing
  <2> QED
    BY <1>1, <2>1, <2>2, <2>3, <2>4, <2>5, <2>6, <2>7, <2>8, <2>9, <2>10, Zenon
    DEF CallerStep
<1>2. ASSUME NEW k \in Conn, ReadStep(k) PROVE LockInv'
  BY <1>0, <1>2, Zenon
  DEF ReadStep, ReadResponse, ReadBatch, ReadNotification, ReadFail, Offer, callVars
<1>3. CASE DispatchStep
  BY <1>0, <1>3, Zenon DEF DispatchStep, Shutdown, HandleResponse, HandleNotification, Handled,
     QuitSub, CloseCodec, DrainReadOp, DrainReadErr, callVars
<1>4. ASSUME NEW x \in Closer, DispatchClose(x) \/ CloseCall(x) \/ CloseReturn(x)
      PROVE  LockInv'
  BY <1>0, <1>4, Zenon DEF DispatchClose, CloseCall, CloseReturn, callVars
<1>5. ASSUME NEW k \in Conn, DispatchReadOp(k) \/ DispatchReadErr(k) PROVE LockInv'
  BY <1>0, <1>5, Zenon DEF DispatchReadOp, DispatchReadErr, callVars
<1>6. ASSUME NEW op \in Op, DispatchReconnected(op) PROVE LockInv'
  <2>1. nconn # 0
    BY DEF TypeInv, TypeOK, Conn
  <2> QED
    BY <1>6, <2>1, Zenon DEF DispatchReconnected, Goto, Locked, TypeInv, TypeOK
<1>7. ASSUME NEW op \in Op, ReqInit(op) PROVE LockInv'
  BY <1>7, Zenon DEF ReqInit, Goto, Locked, TypeInv, TypeOK
<1>8. ASSUME NEW op \in Op, ReqTimeout(op) PROVE LockInv'
  BY <1>8, Zenon DEF ReqTimeout, Goto, Return, Locked, TypeInv, TypeOK, lockVars
<1>9. CASE ReqSent
  BY <1>9, Zenon DEF ReqSent, callVars
<1>10. CASE UNCHANGED vars
  BY <1>0, <1>10, Zenon DEF vars, callVars
<1> QED
  BY <1>1, <1>2, <1>3, <1>4, <1>5, <1>6, <1>7, <1>8, <1>9, <1>10, Zenon DEF Next

\* Nobody holds the write lock in the beginning.
LEMMA LockInvInit == Init => LockInv
  BY Zenon DEF Init, LockInv, WriteLockHeld, Locked

\* Mutual exclusion of writers: however requests, timeouts, reconnects and Close
\* interleave, the goroutine between reqInit and reqSent is dispatch's lastOp, it
\* is the only one there, and it never writes to a nil connection.
THEOREM WriteLockExclusive == Spec => []WriteLockHeld
<1>1. LockInv => WriteLockHeld
  BY Zenon DEF LockInv
<1> QED
  BY <1>1, LockInvInit, LockInvNext, TypeInvInit, TypeInvNext, PTL DEF Spec

-----------------------------------------------------------------------------
(* Read goroutines and connections. *)

\* dispatch is leaving its connection for one that reconnect has given to it.
Handover == dpc \in {"quitSubs", "drain"} /\ cont = "reconnected"

\* Only the current connection has a read loop, and dispatch knows in each of its
\* states whether that loop is still there.
ReaderInv ==
  /\ \A k \in Conn : rd[k] \in Live => k = conn
  /\ dpc \in {"select", "handle", "closing"} => (reading <=> rd[conn] \in Live)
  /\ dpc = "quitSubs" => /\ cont \in {"readErr", "reconnected", "close"}
                         /\ cont = "readErr" <=> rd[conn] \notin Live
  /\ dpc = "drain" => cont \in {"reconnected", "close"} /\ rd[conn] \in Live
  /\ dpc = "quit" => rd[conn] \notin Live
  /\ didClose => dpc = "quit"

\* dispatch knows its read loop after every step.
LEMMA ReaderInvNext ==
  ASSUME TypeInv, ReaderInv, [Next]_vars
  PROVE  ReaderInv'
<1> USE DEF ReaderInv
<1>0. ASSUME UNCHANGED <<connVars, rd, dpc, cont, didClose>> PROVE ReaderInv'
  BY <1>0, Zenon DEF connVars
<1>1. ASSUME NEW op \in Op, Start(op) \/ Cancel(op) \/ CallerStep(op) PROVE ReaderInv'
  <2>1. UNCHANGED <<conn, reading, rd, dpc, cont, didClose>>
    BY <1>1, Zenon DEF Start, Cancel, CallerStep, SendAborted, CheckWriteConn, Dial, OfferRefused,
       Write, Sent, WaitReceive, WaitClosed, WaitCtxDone, GiveUpClosing, connVars,
       readVars, dispVars, endVars
  <2> QED
    BY <2>1, Zenon
<1>2. ASSUME NEW k \in Conn, ReadStep(k) PROVE ReaderInv'
  <2>1. /\ rd[k] = "read"
        /\ \E l \in Live : rd' = [rd EXCEPT ![k] = l]
        /\ UNCHANGED <<conn, reading, dpc, cont, didClose>>
    BY <1>2, Zenon DEF ReadStep, ReadResponse, ReadBatch, ReadNotification, ReadFail, Offer, Live,
       connVars, dispVars, endVars
  <2> QED
    BY <2>1, Zenon DEF Live, TypeInv, TypeOK
<1>3. CASE Shutdown
  BY <1>3 DEF Shutdown, connVars, readVars, dispVars
<1>4. CASE HandleResponse \/ HandleNotification
  <2>1. /\ UNCHANGED <<conn, reading, rd, cont, didClose>>
        /\ dpc = "handle" /\ dpc' \in {"select", "handle"}
    BY <1>4, Zenon DEF HandleResponse, HandleNotification, Handled, connVars, readVars, endVars
  <2> QED
    BY <2>1, Zenon
<1>5. ASSUME NEW s \in Sub, QuitSub(s) PROVE ReaderInv'
  BY <1>0, <1>5, Zenon DEF QuitSub, readVars, dispVars, endVars
<1>6. CASE CloseCodec
  BY <1>6, Zenon DEF CloseCodec, readVars, endVars
<1>7. ASSUME NEW k \in Conn, DrainReadOp(k) PROVE ReaderInv'
  BY <1>7, Zenon DEF DrainReadOp, connVars, dispVars, endVars, Live, TypeInv, TypeOK
<1>8. ASSUME NEW k \in Conn, DrainReadErr(k) PROVE ReaderInv'
  <2>1. k = conn
    BY <1>8, Zenon DEF DrainReadErr, Live
  <2>2. CASE cont = "close"
    BY <1>8, <2>1, <2>2, Zenon DEF DrainReadErr, Live, TypeInv, TypeOK
  <2>3. CASE cont = "reconnected"
    <3>1. \A l \in Conn : [rd EXCEPT ![k] = "exit"][l] \notin Live
      BY <2>1, Zenon DEF Live, TypeInv, TypeOK
    <3>2. /\ conn' = nconn /\ reading' = TRUE
          /\ rd' = [[rd EXCEPT ![k] = "exit"] EXCEPT ![nconn] = "read"]
          /\ dpc = "drain" /\ dpc' = "select" /\ UNCHANGED <<cont, didClose>>
      BY <1>8, <2>3, Zenon DEF DrainReadErr, NewConn
    <3> QED
      BY <3>1, <3>2, Zenon DEF Live, TypeInv, TypeOK
  <2> QED
    BY <1>8, <2>2, <2>3, Zenon DEF DrainReadErr
<1>9. ASSUME NEW x \in Closer, DispatchClose(x) \/ CloseCall(x) \/ CloseReturn(x)
      PROVE  ReaderInv'
  BY <1>9 DEF DispatchClose, CloseCall, CloseReturn, connVars, readVars, dispVars
<1>10. ASSUME NEW k \in Conn, DispatchReadOp(k) PROVE ReaderInv'
  BY <1>10, Zenon DEF DispatchReadOp, connVars, endVars, Live, TypeInv, TypeOK
<1>11. ASSUME NEW k \in Conn, DispatchReadErr(k) PROVE ReaderInv'
  BY <1>11, Zenon DEF DispatchReadErr, connVars, endVars, Live, TypeInv, TypeOK
<1>12. ASSUME NEW op \in Op, DispatchReconnected(op) PROVE ReaderInv'
  <2>1. CASE reading
    BY <1>12, <2>1, Zenon DEF DispatchReconnected, endVars
  <2>2. CASE ~reading
    <3>1. \A k \in Conn : rd[k] \notin Live
      BY <1>12, <2>2, Zenon DEF DispatchReconnected
    <3>2. /\ conn' = nconn /\ reading' = TRUE
          /\ rd' = [rd EXCEPT ![nconn] = "read"]
          /\ dpc = "select" /\ UNCHANGED <<dpc, cont, didClose>>
      BY <1>12, <2>2, Zenon DEF DispatchReconnected, NewConn, endVars
    <3> QED
      BY <3>1, <3>2, Zenon DEF Live, TypeInv, TypeOK
  <2> QED
    BY <2>1, <2>2, Zenon DEF TypeInv, TypeOK
<1>13. ASSUME NEW op \in Op, ReqInit(op) \/ ReqTimeout(op) PROVE ReaderInv'
  BY <1>0, <1>13, Zenon DEF ReqInit, ReqTimeout, readVars, dispVars, endVars
<1>14. CASE ReqSent
  BY <1>0, <1>14, Zenon DEF ReqSent, readVars, dispVars, endVars
<1>15. CASE UNCHANGED vars
  BY <1>0, <1>15, Zenon DEF vars, readVars, dispVars, endVars
<1> QED
  BY Zenon, <1>1, <1>2, <1>3, <1>4, <1>5, <1>6, <1>7, <1>8, <1>9, <1>10, <1>11, <1>12, <1>13,
     <1>14, <1>15, Zenon DEF Next, DispatchStep

\* initClient starts the read loop of the first connection.
LEMMA ReaderInvInit == Init => ReaderInv
  BY RequestAssumption DEF Init, ReaderInv, Conn, Live

\* One reader: across connection losses, reconnects that overtake the error of the
\* old read loop, and Close, dispatch is fed by at most one read goroutine and
\* drainRead always waits for one that is still there.
THEOREM SingleReader == Spec => []OneReader
<1>1. TypeInv /\ ReaderInv => OneReader
  BY Zenon DEF ReaderInv, OneReader
<1> QED
  BY <1>1, ReaderInvInit, ReaderInvNext, TypeInvInit, TypeInvNext, PTL DEF Spec

-----------------------------------------------------------------------------
(* Connections. *)

Dialling == {"check", "dial", "offer"}

\* A connection is closed, current, or on its way from reconnect to dispatch.
Owned(k) ==
  \/ k \in codecClosed
  \/ k = conn
  \/ k = nconn /\ (Handover \/ \E op \in Op : pc[op] = "offer")

\* dispatch has closed its connection once it no longer reads from it, and
\* nobody dials while dispatch moves to a connection.
CodecInv ==
  /\ Handover => \A op \in Op : pc[op] \notin Dialling
  /\ \A k \in 1..nconn : Owned(k)
  /\ dpc \in {"select", "handle", "closing"} /\ ~reading => conn \in codecClosed
  /\ dpc \in {"drain", "quit"} => conn \in codecClosed

\* Dialling, closing and handing over keep every connection in someone's care.
LEMMA CodecInvNext ==
  ASSUME TypeInv, LockInv, ReaderInv, CodecInv, [Next]_vars
  PROVE  CodecInv'
<1> USE DEF CodecInv, Owned, Handover
<1>0. ASSUME UNCHANGED <<pc, nconn, codecClosed, conn, reading, dpc, cont>>
      PROVE  CodecInv'
  BY <1>0, Zenon
<1>1. ASSUME NEW op \in Op, Start(op) \/ Cancel(op) \/ CallerStep(op) PROVE CodecInv'
  <2>0. ASSUME UNCHANGED <<nconn, codecClosed, conn, reading, dpc, cont>>,
               NEW l, pc' = [pc EXCEPT ![op] = l], l # "offer", pc[op] # "offer",
               l \in Dialling => pc[op] \in Dialling
        PROVE  CodecInv'
    BY <2>0, Zenon DEF TypeInv, TypeOK, Dialling
  <2> USE DEF Goto, Return, Dialling
  <2> USE DEF connVars, dispVars
  <2>1. CASE Start(op)
    BY <2>0, <2>1, Zenon DEF Start
  <2>2. CASE Cancel(op)
    BY <1>0, <2>2, Zenon DEF Cancel
  <2>3. CASE SendAborted(op)
    BY <2>0, <2>3, Zenon DEF SendAborted
  <2>4. CASE CheckWriteConn(op)
    BY <2>0, <2>4, Zenon DEF CheckWriteConn
  <2>5. CASE Dial(op)
    <3>1. CASE UNCHANGED nconn
      BY <2>0, <2>5, <3>1, Zenon DEF Dial
    <3>2. CASE nconn' = nconn + 1
      <4>1. /\ pc' = [pc EXCEPT ![op] = "offer"] /\ pc[op] = "dial"
            /\ UNCHANGED <<codecClosed, conn, reading, dpc, cont>>
        BY <2>5, <3>2 DEF Dial, TypeInv, TypeOK, Conn
      <4>2. ~Handover /\ \A p \in Op : pc[p] # "offer"
        BY <4>1, Zenon DEF LockInv, WriteLockHeld, Locked
      <4>3. nconn \in Nat /\ pc'[op] = "offer"
        BY <4>1 DEF TypeInv, TypeOK, Conn
      <4> QED
        BY <3>2, <4>1, <4>2, <4>3
    <3> QED
      BY <2>5, <3>1, <3>2, Zenon DEF Dial
  <2>6. CASE OfferRefused(op)
    <3>1. /\ pc' = [pc EXCEPT ![op] = "failed"]
          /\ codecClosed' = codecClosed \cup {nconn}
          /\ UNCHANGED <<nconn, conn, reading, dpc, cont>>
          /\ dpc = "quit"
      BY <2>6, Zenon DEF OfferRefused, ReaderInv
    <3> QED
      BY <3>1, Zenon
  <2>7. CASE Write(op)
    BY <2>0, <2>7, Zenon DEF Write
  <2>8. CASE Sent(op)
    BY <2>0, <2>8, Zenon DEF Sent
  <2>9. CASE WaitReceive(op)
    BY <1>0, <2>0, <2>9, Zenon DEF WaitReceive
  <2>10. CASE WaitClosed(op) \/ WaitCtxDone(op) \/ GiveUpClosing(op)
    BY <2>0, <2>10, Zenon DEF WaitClosed, WaitCtxDone, GiveUpClosing
  <2> QED
    BY <1>1, <2>1, <2>2, <2>3, <2>4, <2>5, <2>6, <2>7, <2>8, <2>9, <2>10, Zenon DEF CallerStep
<1>2. ASSUME NEW k \in Conn, ReadStep(k) PROVE CodecInv'
  BY <1>0, <1>2, Zenon DEF ReadStep, ReadResponse, ReadBatch, ReadNotification, ReadFail, Offer,
     callVars, connVars, dispVars
<1>3. CASE Shutdown
  BY <1>3, Zenon DEF Shutdown, callVars, connVars
<1>4. CASE HandleResponse \/ HandleNotification
  <2>1. /\ UNCHANGED <<pc, nconn, codecClosed, conn, reading, cont>>
        /\ dpc = "handle" /\ dpc' \in {"select", "handle"}
    BY <1>4, Zenon DEF HandleResponse, HandleNotification, Handled, callVars, connVars
  <2> QED
    BY <2>1, Zenon
<1>5. ASSUME NEW s \in Sub, QuitSub(s) PROVE CodecInv'
  BY <1>0, <1>5, Zenon DEF QuitSub, callVars, connVars
<1>6. CASE CloseCodec
  BY <1>6, Zenon DEF CloseCodec, callVars, ReaderInv
<1>7. ASSUME NEW k \in Conn, DrainReadOp(k) PROVE CodecInv'
  BY <1>0, <1>7, Zenon DEF DrainReadOp, callVars, connVars, dispVars
<1>8. ASSUME NEW k \in Conn, DrainReadErr(k) PROVE CodecInv'
  BY <1>8, Zenon DEF DrainReadErr, NewConn, callVars
<1>9. ASSUME NEW x \in Closer, DispatchClose(x) \/ CloseCall(x) \/ CloseReturn(x)
      PROVE  CodecInv'
  BY <1>9, Zenon DEF DispatchClose, CloseCall, CloseReturn, callVars, connVars, dispVars
<1>10. ASSUME NEW k \in Conn, DispatchReadOp(k) \/ DispatchReadErr(k) PROVE CodecInv'
  BY <1>10, Zenon DEF DispatchReadOp, DispatchReadErr, callVars, connVars
<1>11. ASSUME NEW op \in Op, DispatchReconnected(op) PROVE CodecInv'
  <2>1. /\ pc' = [pc EXCEPT ![op] = "write"] /\ pc[op] = "offer" /\ dpc = "select"
        /\ UNCHANGED <<nconn, codecClosed>>
    BY <1>11, Zenon DEF DispatchReconnected, Goto
  <2>2. \A p \in Op : pc'[p] \notin Dialling
    BY <2>1, Zenon DEF LockInv, WriteLockHeld, Locked, Dialling, TypeInv, TypeOK
  <2>3. CASE reading
    <3>1. dpc' = "quitSubs" /\ cont' = "reconnected" /\ UNCHANGED <<conn, reading>>
      BY <1>11, <2>3, Zenon DEF DispatchReconnected
    <3> QED
      BY <2>1, <2>2, <3>1, Zenon
  <2>4. CASE ~reading
    <3>1. conn' = nconn /\ reading' = TRUE /\ UNCHANGED <<dpc, cont>>
      BY <1>11, <2>4, Zenon DEF DispatchReconnected, NewConn
    <3> QED
      BY <2>1, <2>4, <3>1, Zenon DEF LockInv, WriteLockHeld, Locked
  <2> QED
    BY <2>3, <2>4, Zenon
<1>12. ASSUME NEW op \in Op, ReqInit(op) \/ ReqTimeout(op) PROVE CodecInv'
  <2>1. /\ UNCHANGED <<nconn, codecClosed, conn, reading, dpc, cont>>
        /\ dpc = "select"
        /\ pc[op] # "offer"
        /\ \E l \in {"check", "done"} : pc' = [pc EXCEPT ![op] = l]
    BY <1>12, Zenon DEF ReqInit, ReqTimeout, Goto, Return, connVars, dispVars
  <2> QED
    BY <2>1, Zenon DEF TypeInv, TypeOK
<1>13. CASE ReqSent
  BY <1>0, <1>13, Zenon DEF ReqSent, callVars, connVars, dispVars
<1>14. CASE UNCHANGED vars
  BY <1>0, <1>14, Zenon DEF vars, callVars, connVars, dispVars
<1> QED
  BY Zenon, <1>1, <1>2, <1>3, <1>4, <1>5, <1>6, <1>7, <1>8, <1>9, <1>10, <1>11, <1>12, <1>13,
     <1>14, Zenon DEF Next, DispatchStep

\* No leak: once dispatch has quit, no read goroutine runs, and every connection that
\* was ever dialled is closed or in the hands of a reconnect that will close it.
THEOREM NothingLeaks == Spec => []NoLeakAfterClose
<1>1. Init => CodecInv
  BY DEF Init, CodecInv, Owned, Handover
<1>2. TypeInv /\ ReaderInv /\ CodecInv => NoLeakAfterClose
  BY Zenon DEF ReaderInv, CodecInv, Owned, Handover, NoLeakAfterClose
<1> QED
  BY <1>1, <1>2, CodecInvNext, LockInvInit, LockInvNext, ReaderInvInit, ReaderInvNext,
     TypeInvInit, TypeInvNext, PTL DEF Spec

-----------------------------------------------------------------------------
(* Requests that have not been written. *)

Unsent == {"idle", "send", "check", "dial", "offer", "write"}

Carries(msgs, op) ==
  \E x \in DOMAIN msgs : msgs[x].type = "response" /\ Owner[msgs[x].id] = op

\* No answer to the request is on its way or has arrived.
Unseen(op) ==
  /\ got[op] = <<>> /\ resp[op] = <<>>
  /\ ~Carries(todo, op)
  /\ \A k \in Conn : ~Carries(rmsg[k], op) /\ wire[k] \cap Ids(op) = {}

\* A request that dispatch has not accepted is neither registered nor lastOp.
RegInv ==
  \A op \in Op :
    pc[op] \in {"idle", "send"} => op # lastOp /\ Ids(op) \cap respWait = {}

\* Requests are registered when they are accepted, and again in a reconnect.
LEMMA RegInvNext ==
  ASSUME TypeInv, RegInv, [Next]_vars
  PROVE  RegInv'
<1> USE RequestAssumption DEF RegInv
<1>0. ASSUME \A p \in Op : pc'[p] \in {"idle", "send"} => pc[p] \in {"idle", "send"},
             lastOp' \in {lastOp, NoOp},
             respWait' \subseteq respWait \/ respWait' = Ids(lastOp)
      PROVE  RegInv'
  BY <1>0, Zenon DEF Ids
<1> USE DEF reqVars, lockVars
<1>1. ASSUME NEW op \in Op, Start(op) \/ Cancel(op) \/ CallerStep(op) PROVE RegInv'
  <2>1. UNCHANGED <<lastOp, respWait>>
    BY <1>1, Zenon DEF CallerStep, Start, Cancel, SendAborted, CheckWriteConn, Dial, OfferRefused,
       Write, Sent, WaitReceive, WaitClosed, WaitCtxDone, GiveUpClosing
  <2>2. pc' = pc \/ \E l : pc' = [pc EXCEPT ![op] = l] /\ (l = "send" => pc[op] = "idle")
                              /\ l # "idle"
    BY <1>1, Zenon DEF CallerStep, Start, Cancel, SendAborted, CheckWriteConn, Dial, OfferRefused,
       Write, Sent, WaitReceive, WaitClosed, WaitCtxDone, GiveUpClosing, Goto, Return
  <2>3. \A p \in Op : pc'[p] \in {"idle", "send"} => pc[p] \in {"idle", "send"}
    BY <2>2, Zenon DEF TypeInv, TypeOK
  <2> QED
    BY <1>0, <2>1, <2>3, Zenon
<1> USE DEF callVars
<1>2. ASSUME NEW k \in Conn, ReadStep(k) PROVE RegInv'
  BY <1>0, <1>2, Zenon DEF ReadStep, ReadResponse, ReadBatch, ReadNotification, ReadFail, Offer
<1>3. CASE DispatchStep
  <2>1. UNCHANGED <<pc, lastOp>> /\ (respWait' \subseteq respWait \/ respWait' = Ids(lastOp))
    BY <1>3, Zenon DEF DispatchStep, Shutdown, CancelAllRequests, HandleResponse,
       HandleNotification, Handled, QuitSub, CloseCodec, DrainReadOp, DrainReadErr, NewConn
  <2> QED
    BY <1>0, <2>1, Zenon
<1>4. ASSUME NEW x \in Closer, DispatchClose(x) \/ CloseCall(x) \/ CloseReturn(x)
      PROVE  RegInv'
  BY <1>0, <1>4, Zenon DEF DispatchClose, CloseCall, CloseReturn
<1>5. ASSUME NEW k \in Conn, DispatchReadOp(k) \/ DispatchReadErr(k) PROVE RegInv'
  BY <1>0, <1>5, Zenon DEF DispatchReadOp, DispatchReadErr, CancelAllRequests
<1>6. ASSUME NEW op \in Op, DispatchReconnected(op) PROVE RegInv'
  <2>1. /\ pc' = [pc EXCEPT ![op] = "write"] /\ UNCHANGED lastOp
        /\ respWait' = {} \/ respWait' = Ids(lastOp)
    BY <1>6, Zenon DEF DispatchReconnected, Goto, CancelAllRequests, NewConn
  <2> QED
    BY <1>0, <2>1, Zenon DEF TypeInv, TypeOK
<1>7. ASSUME NEW op \in Op, ReqInit(op) PROVE RegInv'
  <2>1. /\ pc' = [pc EXCEPT ![op] = "check"] /\ lastOp' = op
        /\ respWait' = respWait \cup Ids(op)
    BY <1>7, Zenon DEF ReqInit, Goto
  <2>2. \A p \in Op : p # op => Ids(p) \cap Ids(op) = {}
    BY Zenon DEF Ids
  <2> QED
    BY <2>1, <2>2, Zenon DEF TypeInv, TypeOK
<1>8. ASSUME NEW op \in Op, ReqTimeout(op) PROVE RegInv'
  <2>1. /\ pc' = [pc EXCEPT ![op] = "done"] /\ UNCHANGED lastOp
        /\ respWait' = respWait \ Ids(op)
    BY <1>8, Zenon DEF ReqTimeout, Return, Goto
  <2> QED
    BY <1>0, <2>1, Zenon DEF TypeInv, TypeOK
<1>9. CASE ReqSent
  BY <1>0, <1>9, Zenon DEF ReqSent
<1>10. CASE UNCHANGED vars
  BY <1>0, <1>10, Zenon DEF vars
<1> QED
  BY <1>1, <1>2, <1>3, <1>4, <1>5, <1>6, <1>7, <1>8, <1>9, <1>10, Zenon DEF Next

\* closing is closed from the moment dispatch accepts Close.
ClosingInv ==
  closing <=> \/ dpc \in {"closing", "quit"}
              \/ dpc \in {"quitSubs", "drain"} /\ cont = "close"

\* A request that is not written has no answers, and its channel is open unless
\* Close was called.  The request that moves to a new connection has no answers
\* either: dispatch handles no message until it has moved.
FreshInv ==
  /\ \A op \in Op : pc[op] \in Unsent => Unseen(op) /\ (op \in respClosed => closing)
  /\ Handover => /\ lastOp \in Op /\ lastOp \notin respClosed
                 /\ got[lastOp] = <<>> /\ resp[lastOp] = <<>>

\* Shutdown starts with Close and is never left.
LEMMA ClosingInvNext ==
  ASSUME TypeInv, ReaderInv, ClosingInv, [Next]_vars
  PROVE  ClosingInv'
<1> USE DEF ClosingInv
<1>0. ASSUME UNCHANGED <<closing, dpc, cont>> PROVE ClosingInv'
  BY <1>0, Zenon
<1>1. ASSUME NEW op \in Op, Start(op) \/ Cancel(op) \/ CallerStep(op) PROVE ClosingInv'
  BY <1>0, <1>1, Zenon DEF CallerStep, Start, Cancel, SendAborted, CheckWriteConn, Dial,
     OfferRefused, Write, Sent, WaitReceive, WaitClosed, WaitCtxDone, GiveUpClosing,
     dispVars, endVars
<1>2. ASSUME NEW k \in Conn, ReadStep(k) PROVE ClosingInv'
  BY <1>0, <1>2, Zenon DEF ReadStep, ReadResponse, ReadBatch, ReadNotification, ReadFail, Offer,
     dispVars, endVars
<1>3. CASE Shutdown
  BY <1>3, Zenon DEF Shutdown
<1>4. CASE HandleResponse \/ HandleNotification
  <2>1. dpc = "handle" /\ dpc' \in {"select", "handle"} /\ UNCHANGED closing
    BY <1>4, Zenon DEF HandleResponse, HandleNotification, Handled, endVars
  <2> QED
    BY <2>1, Zenon
<1>5. ASSUME NEW s \in Sub, QuitSub(s) PROVE ClosingInv'
  BY <1>0, <1>5, Zenon DEF QuitSub, endVars
<1>6. CASE CloseCodec
  BY <1>6, Zenon DEF CloseCodec, endVars
<1>7. ASSUME NEW k \in Conn, DrainReadOp(k) \/ DrainReadErr(k) PROVE ClosingInv'
  BY <1>7, Zenon DEF DrainReadOp, DrainReadErr, dispVars, endVars
<1>8. ASSUME NEW x \in Closer, DispatchClose(x) \/ CloseCall(x) \/ CloseReturn(x)
      PROVE  ClosingInv'
  BY <1>8, Zenon DEF DispatchClose, CloseCall, CloseReturn, dispVars
<1>9. ASSUME NEW k \in Conn, DispatchReadOp(k) \/ DispatchReadErr(k) PROVE ClosingInv'
  BY <1>9, Zenon DEF DispatchReadOp, DispatchReadErr, endVars
<1>10. ASSUME NEW op \in Op, DispatchReconnected(op) PROVE ClosingInv'
  <2>1. /\ dpc = "select" /\ UNCHANGED closing
        /\ \/ dpc' = "select"
           \/ dpc' = "quitSubs" /\ cont' = "reconnected"
    BY <1>10, Zenon DEF DispatchReconnected, endVars
  <2> QED
    BY <2>1, Zenon
<1>11. ASSUME NEW op \in Op, ReqInit(op) \/ ReqTimeout(op) PROVE ClosingInv'
  BY <1>0, <1>11, Zenon DEF ReqInit, ReqTimeout, dispVars, endVars
<1>12. CASE ReqSent
  BY <1>0, <1>12, Zenon DEF ReqSent, dispVars, endVars
<1>13. CASE UNCHANGED vars
  BY <1>0, <1>13, Zenon DEF vars, dispVars, endVars
<1> QED
  BY <1>1, <1>2, <1>3, <1>4, <1>5, <1>6, <1>7, <1>8, <1>9, <1>10, <1>11, <1>12, <1>13, Zenon
  DEF Next, DispatchStep

\* What a step has to respect for requests to stay unseen until they are written.
LEMMA FreshFrame ==
  ASSUME FreshInv,
         \A p \in Op : pc'[p] \in Unsent =>
           /\ pc[p] \in Unsent
           /\ Unseen(p) => Unseen(p)'
           /\ p \in respClosed' => p \in respClosed \/ closing',
         closing => closing',
         Handover' => /\ Handover /\ lastOp' = lastOp
                      /\ lastOp \in respClosed' => lastOp \in respClosed
                      /\ got[lastOp] = <<>> /\ resp[lastOp] = <<>> =>
                           got'[lastOp] = <<>> /\ resp'[lastOp] = <<>>
  PROVE  FreshInv'
  BY Zenon DEF FreshInv

\* A step that touches no answers and opens no handover.
LEMMA FreshQuiet ==
  ASSUME FreshInv,
         \A p \in Op : pc'[p] \in Unsent => pc[p] \in Unsent,
         UNCHANGED <<got, resp, todo, rmsg, wire, respClosed, lastOp>>,
         closing => closing', Handover' => Handover
  PROVE  FreshInv'
<1>1. \A p \in Op : Unseen(p) => Unseen(p)'
  BY Zenon DEF Unseen
<1> QED
  BY <1>1, FreshFrame, Zenon

\* The goroutine of one request moves.
LEMMA PcMoves ==
  ASSUME TypeInv, NEW op \in Op, NEW l, pc' = [pc EXCEPT ![op] = l],
         l \in Unsent => pc[op] \in Unsent
  PROVE  \A p \in Op : pc'[p] \in Unsent => pc[p] \in Unsent
  BY Zenon DEF TypeInv, TypeOK

\* What the messages of a read operation carry, and what is left of them.
LEMMA CarriesFacts ==
  /\ \A op : ~Carries(<<>>, op)
  /\ \A op, i, b : Carries(<<Respond(i, b)>>, op) => Owner[i] = op
  /\ \A op, s, n : ~Carries(<<Notify(s, n)>>, op)
<1>1. \A op : ~Carries(<<>>, op)
  BY DEF Carries
<1>2. \A op, i, b : Carries(<<Respond(i, b)>>, op) => Owner[i] = op
  BY DEF Carries, Respond
<1>3. \A op, s, n : ~Carries(<<Notify(s, n)>>, op)
  BY DEF Carries, Notify
<1> QED
  BY <1>1, <1>2, <1>3, Zenon

\* The front of a readOp, and what is left of it when that is handled.
LEMMA CarriesQueue ==
  ASSUME NEW q \in Seq(Message), q # <<>>, NEW op
  PROVE  /\ Carries(Tail(q), op) => Carries(q, op)
         /\ Head(q).type = "response" => Carries(q, Owner[Head(q).id])
<1>1. Len(q) \in Nat /\ Len(q) > 0 /\ DOMAIN q = 1..Len(q) /\ Head(q) = q[1]
  OBVIOUS
<1>2. /\ DOMAIN Tail(q) = 1..(Len(q) - 1)
      /\ \A x \in 1..(Len(q) - 1) : Tail(q)[x] = q[x + 1]
  OBVIOUS
<1> QED
  BY <1>1, <1>2 DEF Carries

\* Steps of callers: only a write puts ids on the wire, and then it is written.
LEMMA FreshInvCaller ==
  ASSUME TypeInv, FreshInv, NEW op \in Op, Start(op) \/ Cancel(op) \/ CallerStep(op)
  PROVE  FreshInv'
<1>1. UNCHANGED <<respClosed, lastOp, todo, rmsg, closing, dpc, cont>>
  BY Zenon DEF CallerStep, Start, Cancel, SendAborted, CheckWriteConn, Dial, OfferRefused, Write,
     Sent, WaitReceive, WaitClosed, WaitCtxDone, GiveUpClosing, reqVars, lockVars,
     readVars, dispVars, endVars
<1>2. Handover' <=> Handover
  BY <1>1, Zenon DEF Handover
<1>3. CASE Write(op)
  <2>1. /\ UNCHANGED <<got, resp>>
        /\ \E l \in {"written", "failed"} : pc' = [pc EXCEPT ![op] = l]
        /\ wire' = wire \/ wire' = [wire EXCEPT ![writeConn] = @ \cup Ids(op)]
    BY <1>3, Zenon DEF Write, Goto, reqVars
  <2>2. \A p \in Op : pc'[p] \in Unsent => p # op /\ pc[p] \in Unsent
    BY <2>1, Zenon DEF TypeInv, TypeOK, Unsent
  <2>3. \A k \in Conn : wire'[k] \subseteq wire[k] \cup Ids(op)
    BY <2>1, Zenon DEF TypeInv, TypeOK
  <2>4. ASSUME NEW p \in Op, p # op, Unseen(p) PROVE Unseen(p)'
    <3>1. Ids(p) \cap Ids(op) = {}
      BY <2>4, Zenon DEF Ids
    <3>2. \A k \in Conn : wire'[k] \cap Ids(p) = {}
      BY <2>3, <2>4, <3>1, Zenon DEF Unseen
    <3> QED
      BY <1>1, <2>1, <2>4, <3>2, Zenon DEF Unseen
  <2> QED
    BY <1>1, <1>2, <2>1, <2>2, <2>4, FreshFrame, Zenon
<1>4. CASE WaitReceive(op)
  <2>1. /\ UNCHANGED wire
        /\ resp[op] # <<>> /\ pc[op] = "wait"
        /\ \A p \in Op : p # op => got'[p] = got[p] /\ resp'[p] = resp[p]
        /\ \E l \in {"wait", "done"} : pc' = [pc EXCEPT ![op] = l]
    BY <1>4, Zenon DEF WaitReceive, Return, Goto, readVars, TypeInv, TypeOK
  <2>2. \A p \in Op : pc'[p] \in Unsent => p # op /\ pc[p] \in Unsent
    BY <2>1, Zenon DEF TypeInv, TypeOK, Unsent
  <2>3. \A p \in Op : p # op /\ Unseen(p) => Unseen(p)'
    BY <1>1, <2>1, Zenon DEF Unseen
  <2>4. Handover => lastOp \in Op
    BY Zenon DEF FreshInv
  <2> QED
    BY <1>1, <1>2, <2>1, <2>2, <2>3, <2>4, FreshFrame, Zenon
<1>5. CASE ~Write(op) /\ ~WaitReceive(op)
  <2>1. UNCHANGED <<got, resp, wire>>
    BY <1>5, Zenon DEF CallerStep, Start, Cancel, SendAborted, CheckWriteConn, Dial, OfferRefused,
       Sent, WaitClosed, WaitCtxDone, GiveUpClosing, reqVars, readVars
  <2>2. pc' = pc \/ \E l : pc' = [pc EXCEPT ![op] = l] /\ (l \in Unsent => pc[op] \in Unsent)
    BY <1>5, Zenon DEF CallerStep, Start, Cancel, SendAborted, CheckWriteConn, Dial, OfferRefused,
       Sent, WaitClosed, WaitCtxDone, GiveUpClosing, Goto, Return, Unsent
  <2>3. \A p \in Op : pc'[p] \in Unsent => pc[p] \in Unsent
    BY <2>2, PcMoves, Zenon
  <2> QED
    BY <1>1, <1>2, <2>1, <2>3, FreshQuiet, Zenon
<1> QED
  BY <1>3, <1>4, <1>5, Zenon

\* Steps of read loops: the server answers only what was written.
LEMMA FreshInvRead ==
  ASSUME TypeInv, FreshInv, NEW k \in Conn, ReadStep(k)
  PROVE  FreshInv'
<1>1. UNCHANGED <<pc, got, resp, todo, respClosed, closing, dpc, cont, lastOp>>
  BY Zenon DEF ReadStep, ReadResponse, ReadBatch, ReadNotification, ReadFail, Offer, callVars,
     reqVars, lockVars, dispVars, endVars
<1>2. Handover' <=> Handover
  BY <1>1, Zenon DEF Handover
<1>0. ASSUME NEW msgs, rmsg' = rmsg \/ rmsg' = [rmsg EXCEPT ![k] = msgs],
             \A j \in Conn : wire'[j] \subseteq wire[j],
             \A op \in Op : Carries(msgs, op) => wire[k] \cap Ids(op) # {}
      PROVE  FreshInv'
  <2>1. ASSUME NEW op \in Op, Unseen(op) PROVE Unseen(op)'
    <3>1. \A j \in Conn : ~Carries(rmsg'[j], op)
      BY <1>0, <2>1, Zenon DEF Unseen, TypeInv, TypeOK
    <3>2. \A j \in Conn : wire'[j] \cap Ids(op) = {}
      BY <1>0, <2>1, Zenon DEF Unseen
    <3> QED
      BY <1>1, <2>1, <3>1, <3>2, Zenon DEF Unseen
  <2> QED
    BY <1>1, <1>2, <2>1, FreshFrame, Zenon
<1>3. ASSUME NEW i \in Id, NEW b \in BOOLEAN, ReadResponse(k, i, b) PROVE FreshInv'
  <2>1. \A op \in Op : Carries(<<Respond(i, b)>>, op) => wire[k] \cap Ids(op) # {}
    BY <1>3, CarriesFacts, Zenon DEF ReadResponse, Ids
  <2>2. \A j \in Conn : wire'[j] \subseteq wire[j]
    BY <1>3, Zenon DEF ReadResponse, TypeInv, TypeOK
  <2>3. rmsg' = [rmsg EXCEPT ![k] = <<Respond(i, b)>>]
    BY <1>3, Zenon DEF ReadResponse, Offer
  <2> QED
    BY <1>0, <2>1, <2>2, <2>3, Zenon
<1>4. ASSUME NEW n \in 2..MaxBatch, NEW ids \in [1..n -> wire[k]], ReadBatch(k, ids)
      PROVE  FreshInv'
  <2> DEFINE msgs == [x \in DOMAIN ids |-> Respond(ids[x], TRUE)]
  <2>1. \A op \in Op : Carries(msgs, op) => wire[k] \cap Ids(op) # {}
    BY Zenon DEF Carries, Respond, Ids, TypeInv, TypeOK
  <2>2. \A j \in Conn : wire'[j] \subseteq wire[j]
    BY <1>4, Zenon DEF ReadBatch, TypeInv, TypeOK
  <2>3. rmsg' = [rmsg EXCEPT ![k] = msgs]
    BY <1>4, Zenon DEF ReadBatch, Offer
  <2> HIDE DEF msgs
  <2> QED
    BY <1>0, <2>1, <2>2, <2>3, Zenon
<1>5. ASSUME NEW s \in Sub, ReadNotification(k, s) PROVE FreshInv'
  <2>1. \A op \in Op : ~Carries(<<Notify(s, sent[s] + 1)>>, op)
    BY CarriesFacts, Zenon
  <2>2. rmsg' = [rmsg EXCEPT ![k] = <<Notify(s, sent[s] + 1)>>] /\ wire' = wire
    BY <1>5, Zenon DEF ReadNotification, Offer
  <2> QED
    BY <1>0, <2>1, <2>2, Zenon
<1>6. CASE ReadFail(k)
  BY <1>1, <1>2, <1>6, FreshQuiet, Zenon DEF ReadFail
<1> QED
  BY <1>3, <1>4, <1>5, <1>6, Zenon DEF ReadStep

\* Steps of dispatch that handle messages or leave a connection: answers go to
\* requests that were written.
LEMMA FreshInvDispatch ==
  ASSUME TypeInv, ClosingInv, FreshInv, DispatchStep
  PROVE  FreshInv'
<1>0. UNCHANGED <<pc, got, wire, lastOp, closing>>
  BY Zenon DEF DispatchStep, Shutdown, CancelAllRequests, HandleResponse, HandleNotification,
     Handled, QuitSub, CloseCodec, DrainReadOp, DrainReadErr, NewConn, callVars, lockVars,
     readVars, endVars
<1>1. CASE Shutdown
  <2>1. /\ dpc = "closing" /\ UNCHANGED <<resp, todo, rmsg>>
        /\ dpc' = "quit" \/ (dpc' = "quitSubs" /\ cont' = "close")
    BY <1>1, Zenon DEF Shutdown, CancelAllRequests, reqVars, readVars
  <2>2. closing /\ ~Handover'
    BY <2>1, Zenon DEF ClosingInv, Handover
  <2>3. \A p \in Op : Unseen(p) => Unseen(p)'
    BY <1>0, <2>1, Zenon DEF Unseen
  <2> QED
    BY <1>0, <2>2, <2>3, FreshFrame, Zenon
<1>2. CASE HandleResponse
  <2>0. PICK m : m = Head(todo)
    BY Zenon
  <2>1. /\ todo \in Seq(Message) /\ todo # <<>>
        /\ m.type = "response" /\ dpc = "handle"
    BY <1>2, <2>0, Zenon DEF HandleResponse, TypeInv, TypeOK
  <2>2. PICK op : op = Owner[m.id]
    BY Zenon
  <2>3. Carries(todo, op) /\ \A q \in Op : Carries(Tail(todo), q) => Carries(todo, q)
    BY <2>0, <2>1, <2>2, CarriesQueue, Zenon
  <2>4. /\ todo' = Tail(todo) /\ dpc' \in {"select", "handle"} /\ UNCHANGED rmsg
    BY <1>2, Zenon DEF HandleResponse, Handled, readVars
  <2>5. respClosed' \subseteq respClosed \cup {op}
    BY <1>2, <2>0, <2>2, Zenon DEF HandleResponse
  <2>6. resp' = resp \/ resp' = [resp EXCEPT ![op] = Append(resp[op], m.id)]
    BY <1>2, <2>0, <2>2, Zenon DEF HandleResponse
  <2>7. \A q \in Op : q # op => resp'[q] = resp[q]
    BY <2>6, Zenon DEF TypeInv, TypeOK
  <2>8. \A q \in Op : Unseen(q) => q # op /\ Unseen(q)'
    BY <1>0, <2>3, <2>4, <2>7, Zenon DEF Unseen
  <2>9. ~Handover'
    BY <2>4, Zenon DEF Handover
  <2>10. \A q \in Op : pc[q] \in Unsent => Unseen(q)
    BY Zenon DEF FreshInv
  <2> QED
    BY <1>0, <2>5, <2>8, <2>9, <2>10, FreshFrame, Zenon
<1>3. CASE HandleNotification
  <2>1. todo \in Seq(Message) /\ todo # <<>>
    BY <1>3, Zenon DEF HandleNotification, TypeInv, TypeOK
  <2>2. \A q \in Op : Carries(Tail(todo), q) => Carries(todo, q)
    BY <2>1, CarriesQueue, Zenon
  <2>3. /\ todo' = Tail(todo) /\ dpc' \in {"select", "handle"}
        /\ UNCHANGED <<resp, rmsg, respClosed>>
    BY <1>3, Zenon DEF HandleNotification, Handled, readVars, reqVars
  <2>4. \A q \in Op : Unseen(q) => Unseen(q)'
    BY <1>0, <2>2, <2>3, Zenon DEF Unseen
  <2>5. ~Handover'
    BY <2>3, Zenon DEF Handover
  <2> QED
    BY <1>0, <2>3, <2>4, <2>5, FreshFrame, Zenon
<1>4. ASSUME NEW s \in Sub, QuitSub(s) PROVE FreshInv'
  <2>1. UNCHANGED <<resp, todo, rmsg, respClosed, dpc, cont>>
    BY <1>4, Zenon DEF QuitSub, readVars, reqVars
  <2>2. Handover' <=> Handover
    BY <2>1, Zenon DEF Handover
  <2> QED
    BY <1>0, <2>1, <2>2, FreshQuiet, Zenon
<1>5. CASE CloseCodec
  <2>1. /\ UNCHANGED <<resp, todo, rmsg, respClosed, cont>>
        /\ dpc = "quitSubs"
    BY <1>5, Zenon DEF CloseCodec, readVars, reqVars
  <2>2. Handover' => Handover
    BY <2>1, Zenon DEF Handover
  <2> QED
    BY <1>0, <2>1, <2>2, FreshQuiet, Zenon
<1>6. ASSUME NEW k \in Conn, DrainReadOp(k) \/ DrainReadErr(k) PROVE FreshInv'
  <2>1. /\ UNCHANGED <<resp, todo, respClosed, cont>> /\ dpc = "drain"
        /\ rmsg' = rmsg \/ rmsg' = [rmsg EXCEPT ![k] = <<>>]
    BY <1>6, Zenon DEF DrainReadOp, DrainReadErr, reqVars, readVars, dispVars
  <2>2. Handover' => Handover
    BY <2>1, Zenon DEF Handover
  <2>3. \A j \in Conn : rmsg'[j] = rmsg[j] \/ rmsg'[j] = <<>>
    BY <2>1, Zenon DEF TypeInv, TypeOK
  <2>4. \A p \in Op : Unseen(p) => Unseen(p)'
    BY <1>0, <2>1, <2>3, CarriesFacts, Zenon DEF Unseen
  <2> QED
    BY <1>0, <2>1, <2>2, <2>4, FreshFrame, Zenon
<1> QED
  BY <1>1, <1>2, <1>3, <1>4, <1>5, <1>6, Zenon DEF DispatchStep

\* The cases of dispatch's select.  The request that reconnects is not written
\* yet, so it moves to the new connection without answers.
LEMMA FreshInvSelect ==
  ASSUME TypeInv, LockInv, RegInv, ClosingInv, FreshInv,
         \/ \E x \in Closer : DispatchClose(x) \/ CloseCall(x) \/ CloseReturn(x)
         \/ \E k \in Conn : DispatchReadOp(k) \/ DispatchReadErr(k)
         \/ \E op \in Op : DispatchReconnected(op) \/ ReqInit(op) \/ ReqTimeout(op)
         \/ ReqSent
  PROVE  FreshInv'
<1>1. ASSUME NEW x \in Closer, DispatchClose(x) \/ CloseCall(x) \/ CloseReturn(x)
      PROVE  FreshInv'
  <2>1. /\ UNCHANGED <<pc, got, resp, todo, rmsg, wire, respClosed, lastOp, cont>>
        /\ closing => closing'
        /\ UNCHANGED dpc \/ dpc' = "closing"
    BY <1>1 DEF DispatchClose, CloseCall, CloseReturn, callVars, reqVars, lockVars,
       readVars, dispVars
  <2>2. Handover' => Handover
    BY <2>1, Zenon DEF Handover
  <2> QED
    BY <2>1, <2>2, FreshQuiet, Zenon
<1>2. ASSUME NEW k \in Conn, DispatchReadOp(k) PROVE FreshInv'
  <2>1. /\ todo' = rmsg[k] /\ dpc' = "handle"
        /\ rmsg' = [rmsg EXCEPT ![k] = <<>>]
        /\ UNCHANGED <<pc, got, resp, wire, lastOp, respClosed, closing>>
    BY <1>2, Zenon DEF DispatchReadOp, callVars, reqVars, lockVars, endVars
  <2>2. \A j \in Conn : rmsg'[j] = rmsg[j] \/ rmsg'[j] = <<>>
    BY <2>1, Zenon DEF TypeInv, TypeOK
  <2>3. \A op \in Op : Unseen(op) => Unseen(op)'
    BY <2>1, <2>2, CarriesFacts, Zenon DEF Unseen
  <2>4. ~Handover'
    BY <2>1, Zenon DEF Handover
  <2> QED
    BY <2>1, <2>3, <2>4, FreshFrame, Zenon
<1>3. ASSUME NEW p \in Op, pc[p] \in Unsent
      PROVE  p \notin {Owner[i] : i \in respWait} \ {lastOp}
  <2>1. p # lastOp => pc[p] \in {"idle", "send"}
    BY <1>3, Zenon DEF Unsent, LockInv, WriteLockHeld, Locked
  <2> QED
    BY <2>1, Zenon DEF RegInv, Ids, TypeInv, TypeOK
<1>4. ASSUME NEW k \in Conn, DispatchReadErr(k) PROVE FreshInv'
  <2>1. /\ dpc' = "quitSubs" /\ cont' = "readErr"
        /\ respClosed' = respClosed \cup ({Owner[i] : i \in respWait} \ {lastOp})
        /\ UNCHANGED <<pc, got, resp, todo, rmsg, wire, lastOp, closing>>
    BY <1>4, Zenon DEF DispatchReadErr, CancelAllRequests, callVars, lockVars, endVars
  <2>2. \A p \in Op : Unseen(p) => Unseen(p)'
    BY <2>1, Zenon DEF Unseen
  <2>3. \A p \in Op : pc[p] \in Unsent /\ p \in respClosed' => p \in respClosed
    BY <1>3, <2>1, Zenon
  <2>4. ~Handover'
    BY <2>1, Zenon DEF Handover
  <2> QED
    BY <2>1, <2>2, <2>3, <2>4, FreshFrame, Zenon
<1>5. ASSUME NEW op \in Op, DispatchReconnected(op) PROVE FreshInv'
  <2>1. /\ pc[op] = "offer" /\ pc' = [pc EXCEPT ![op] = "write"] /\ dpc = "select"
        /\ UNCHANGED <<got, resp, todo, rmsg, wire, lastOp, closing>>
    BY <1>5, Zenon DEF DispatchReconnected, Goto, CancelAllRequests, endVars
  <2>2. lastOp = op
    BY <2>1, Zenon DEF LockInv, WriteLockHeld, Locked
  <2>3. Unseen(op) /\ op \notin respClosed
    BY <2>1, Zenon DEF FreshInv, ClosingInv, Unsent
  <2>4. \A p \in Op : pc'[p] \in Unsent => pc[p] \in Unsent
    BY <2>1, PcMoves, Zenon DEF Unsent
  <2>5. \A p \in Op : Unseen(p) => Unseen(p)'
    BY <2>1, Zenon DEF Unseen
  <2>6. respClosed' \subseteq respClosed \cup ({Owner[i] : i \in respWait} \ {lastOp})
    BY <1>5, Zenon DEF DispatchReconnected, CancelAllRequests
  <2>7. \A p \in Op : pc[p] \in Unsent /\ p \in respClosed' => p \in respClosed
    BY <1>3, <2>6, Zenon
  <2>8. op \notin respClosed' /\ got'[op] = <<>> /\ resp'[op] = <<>>
    BY <2>1, <2>3, <2>7, Zenon DEF Unseen, Unsent
  <2> QED
    BY <2>1, <2>2, <2>4, <2>5, <2>7, <2>8, Zenon DEF FreshInv
<1>6. ASSUME NEW op \in Op, ReqInit(op) \/ ReqTimeout(op) PROVE FreshInv'
  <2>1. /\ dpc = "select"
        /\ \/ pc[op] = "send" /\ pc' = [pc EXCEPT ![op] = "check"]
           \/ pc' = [pc EXCEPT ![op] = "done"]
        /\ UNCHANGED <<got, resp, todo, rmsg, wire, respClosed, closing, dpc>>
    BY <1>6, Zenon DEF ReqInit, ReqTimeout, Goto, Return, reqVars, readVars, dispVars, endVars
  <2>2. \A p \in Op : pc'[p] \in Unsent => pc[p] \in Unsent
    BY <2>1, Zenon DEF Unsent, TypeInv, TypeOK
  <2>3. \A p \in Op : Unseen(p) => Unseen(p)'
    BY <2>1, Zenon DEF Unseen
  <2>4. ~Handover'
    BY <2>1, Zenon DEF Handover
  <2> QED
    BY <2>1, <2>2, <2>3, <2>4, FreshFrame, Zenon
<1>7. CASE ReqSent
  <2>1. /\ dpc' = "select"
        /\ UNCHANGED <<pc, got, resp, todo, rmsg, wire, respClosed, closing>>
    BY <1>7, Zenon DEF ReqSent, callVars, reqVars, readVars, dispVars, endVars
  <2>2. \A p \in Op : Unseen(p) => Unseen(p)'
    BY <2>1, Zenon DEF Unseen
  <2>3. ~Handover'
    BY <2>1, Zenon DEF Handover
  <2> QED
    BY <2>1, <2>2, <2>3, FreshFrame, Zenon
<1> QED
  BY <1>1, <1>2, <1>4, <1>5, <1>6, <1>7, Zenon

\* Requests start idle, unregistered and unseen, with the client open.
LEMMA FreshInvInit == Init => ClosingInv /\ RegInv /\ FreshInv
  BY RequestAssumption, CarriesFacts
  DEF Init, ClosingInv, FreshInv, RegInv, Handover, Unseen, Ids

\* Every step keeps requests unseen until they are written.
LEMMA FreshInvNext ==
  ASSUME TypeInv, LockInv, RegInv, ClosingInv, FreshInv, [Next]_vars
  PROVE  FreshInv'
<1>1. CASE UNCHANGED vars
  <2>1. UNCHANGED <<pc, got, resp, todo, rmsg, wire, respClosed, lastOp, closing, dpc, cont>>
    BY <1>1, Zenon DEF vars, callVars, reqVars, lockVars, readVars, dispVars, endVars
  <2>2. Handover' <=> Handover
    BY <2>1, Zenon DEF Handover
  <2> QED
    BY <2>1, <2>2, FreshQuiet, Zenon
<1> QED
  BY <1>1, FreshInvCaller, FreshInvRead, FreshInvDispatch, FreshInvSelect, Zenon DEF Next

-----------------------------------------------------------------------------
(* Requests that are moved to another connection. *)

\* While dispatch has no connection, the only registered request is the one that
\* dials: nothing can be written to the old connection, which is closed.  Nothing
\* is registered while a handler is closed.
MoveInv ==
  /\ writeConn \in {0, IF Handover THEN nconn ELSE conn}
  /\ dpc \in {"quitSubs", "drain"} => respWait = {}
  /\ dpc = "handle" => reading
  /\ dpc = "select" /\ ~reading => \A i \in respWait :
       /\ Owner[i] = lastOp
       /\ reqSent = "err" \/ pc[lastOp] \in {"check", "dial", "offer", "failed"}

\* Registered requests follow the connection.
LEMMA MoveInvNext ==
  ASSUME TypeInv, LockInv, ReaderInv, CodecInv, MoveInv, [Next]_vars
  PROVE  MoveInv'
<1> USE RequestAssumption DEF MoveInv, Handover
<1>0. ASSUME UNCHANGED <<pc, respWait, lockVars, conn, reading, dpc, cont>>,
             Handover => UNCHANGED nconn
      PROVE  MoveInv'
  BY <1>0, Zenon DEF lockVars
<1>1. ASSUME NEW op \in Op, Start(op) \/ Cancel(op) \/ CallerStep(op) PROVE MoveInv'
  <2> USE DEF Goto, Return, reqVars, lockVars, connVars, dispVars
  <2>0. ASSUME UNCHANGED <<respWait, writeConn, lastOp, conn, reading, dpc, cont>>,
               Handover => UNCHANGED nconn,
               UNCHANGED reqSent \/ reqSent' = "err",
               pc'[lastOp] = pc[lastOp] \/
               pc'[lastOp] \in {"check", "dial", "offer", "failed"} \/ reqSent' = "err"
        PROVE  MoveInv'
    BY <2>0, Zenon
  <2>1. ASSUME pc[op] \notin Locked, pc' = pc \/ \E l : pc' = [pc EXCEPT ![op] = l],
               UNCHANGED <<respWait, lockVars, nconn, conn, reading, dpc, cont>>
        PROVE  MoveInv'
    BY <2>1 DEF LockInv, WriteLockHeld, TypeInv, TypeOK, Locked
  <2>2. CASE Start(op)
    BY <2>1, <2>2, Zenon DEF Start, Locked
  <2>3. CASE Cancel(op)
    BY <1>0, <2>3, Zenon DEF Cancel
  <2>4. CASE SendAborted(op)
    BY <2>1, <2>4, Zenon DEF SendAborted, Locked
  <2>5. CASE CheckWriteConn(op)
    <3>1. /\ lastOp = op /\ pc[op] = "check"
          /\ UNCHANGED <<respWait, lockVars, nconn, conn, reading, dpc, cont>>
      BY <2>5, Zenon DEF CheckWriteConn, LockInv, WriteLockHeld, Locked
    <3>2. CASE pc' = [pc EXCEPT ![op] = "write"]
      <4>1. writeConn # 0 /\ writeConn \notin codecClosed
        BY <2>5, <3>1, <3>2, Zenon DEF CheckWriteConn, TypeInv, TypeOK
      <4>2. dpc = "select" => reading
        BY <4>1, Zenon DEF CodecInv
      <4> QED
        BY <3>1, <4>2, Zenon
    <3>3. CASE pc'[op] \in {"dial", "failed"}
      BY <2>0, <3>1, <3>3, Zenon
    <3> QED
      BY <2>5, <3>1, <3>2, <3>3, Zenon DEF CheckWriteConn, TypeInv, TypeOK
  <2>6. CASE Dial(op)
    <3>1. /\ lastOp = op /\ pc[op] = "dial" /\ pc'[op] \in {"offer", "failed"}
          /\ UNCHANGED <<respWait, lockVars, conn, reading, dpc, cont>>
      BY <2>6, Zenon DEF Dial, LockInv, WriteLockHeld, Locked, TypeInv, TypeOK
    <3>2. ~Handover
      BY <3>1, Zenon DEF CodecInv, Dialling
    <3> QED
      BY <2>0, <3>1, <3>2, Zenon
  <2>7. CASE OfferRefused(op)
    <3>1. /\ lastOp = op /\ pc'[op] = "failed"
          /\ UNCHANGED <<respWait, lockVars, nconn, conn, reading, dpc, cont>>
      BY <2>7, Zenon DEF OfferRefused, LockInv, WriteLockHeld, Locked, TypeInv, TypeOK
    <3> QED
      BY <2>0, <3>1, Zenon
  <2>8. CASE Write(op)
    <3>1. /\ lastOp = op /\ pc[op] = "write" /\ reqSent = "empty"
          /\ writeConn' \in {0, writeConn}
          /\ UNCHANGED <<respWait, lastOp, reqSent, nconn, conn, reading, dpc, cont>>
      BY <2>8, Zenon DEF Write, LockInv, WriteLockHeld, Locked
    <3>2. dpc = "select" /\ ~reading => respWait = {}
      BY <3>1, Zenon
    <3> QED
      BY <3>1, <3>2, Zenon
  <2>9. CASE Sent(op)
    <3>1. /\ lastOp = op /\ reqSent = "empty"
          /\ UNCHANGED <<respWait, lastOp, writeConn, nconn, conn, reading, dpc, cont>>
      BY <2>9, Zenon DEF Sent, LockInv, WriteLockHeld, Locked
    <3>2. CASE pc[op] = "failed"
      <4>1. reqSent' = "err"
        BY <2>9, <3>2, Zenon DEF Sent
      <4> QED
        BY <2>0, <3>1, <4>1, Zenon
    <3>3. CASE pc[op] = "written"
      <4>1. dpc = "select" /\ ~reading => respWait = {}
        BY <3>1, <3>3, Zenon
      <4> QED
        BY <3>1, <4>1, Zenon
    <3> QED
      BY <2>9, <3>2, <3>3, Zenon DEF Sent
  <2>10. CASE WaitReceive(op) \/ WaitClosed(op) \/ WaitCtxDone(op) \/ GiveUpClosing(op)
    <3>1. /\ pc[op] \in {"wait", "giveup"}
          /\ pc' = pc \/ \E l : pc' = [pc EXCEPT ![op] = l]
          /\ UNCHANGED <<respWait, lockVars, nconn, conn, reading, dpc, cont>>
      BY <2>10, Zenon DEF WaitReceive, WaitClosed, WaitCtxDone, GiveUpClosing
    <3> QED
      BY <2>1, <3>1, Zenon DEF Locked
  <2> QED
    BY <1>1, <2>2, <2>3, <2>4, <2>5, <2>6, <2>7, <2>8, <2>9, <2>10, Zenon DEF CallerStep
<1>2. ASSUME NEW k \in Conn, ReadStep(k) PROVE MoveInv'
  <2>1. UNCHANGED <<pc, respWait, lockVars, nconn, conn, reading, dpc, cont>>
    BY <1>2, Zenon DEF ReadStep, ReadResponse, ReadBatch, ReadNotification, ReadFail, Offer,
       callVars, reqVars, connVars, dispVars
  <2> QED
    BY <1>0, <2>1, Zenon
<1>3. CASE Shutdown
  BY <1>3, Zenon DEF Shutdown, CancelAllRequests, callVars, lockVars, connVars
<1>4. CASE HandleResponse \/ HandleNotification
  <2>1. /\ UNCHANGED <<pc, lockVars, nconn, conn, reading, cont>>
        /\ dpc = "handle" /\ dpc' \in {"select", "handle"}
    BY <1>4, Zenon DEF HandleResponse, HandleNotification, Handled, callVars, connVars
  <2>2. reading
    BY <2>1, Zenon
  <2> QED
    BY <2>1, <2>2, Zenon DEF lockVars
<1>5. ASSUME NEW s \in Sub, QuitSub(s) PROVE MoveInv'
  BY <1>0, <1>5, Zenon DEF QuitSub, callVars, reqVars, connVars
<1>6. CASE CloseCodec
  BY <1>6, Zenon DEF CloseCodec, callVars, reqVars, lockVars, ReaderInv
<1>7. ASSUME NEW k \in Conn, DrainReadOp(k) PROVE MoveInv'
  BY <1>0, <1>7, Zenon DEF DrainReadOp, callVars, reqVars, connVars, dispVars
<1>8. ASSUME NEW k \in Conn, DrainReadErr(k) PROVE MoveInv'
  BY <1>8, Zenon DEF DrainReadErr, NewConn, callVars, lockVars
<1>9. ASSUME NEW x \in Closer, DispatchClose(x) \/ CloseCall(x) \/ CloseReturn(x)
      PROVE  MoveInv'
  BY <1>9, Zenon DEF DispatchClose, CloseCall, CloseReturn, callVars, reqVars, lockVars, connVars,
     dispVars
<1>10. ASSUME NEW k \in Conn, DispatchReadOp(k) PROVE MoveInv'
  <2>1. reading
    BY <1>10, Zenon DEF DispatchReadOp, ReaderInv, Live
  <2> QED
    BY <1>10, <2>1, Zenon DEF DispatchReadOp, callVars, reqVars, lockVars, connVars
<1>11. ASSUME NEW k \in Conn, DispatchReadErr(k) PROVE MoveInv'
  BY <1>11, Zenon DEF DispatchReadErr, CancelAllRequests, callVars, lockVars, connVars
<1>12. ASSUME NEW op \in Op, DispatchReconnected(op) PROVE MoveInv'
  BY <1>12, Zenon DEF DispatchReconnected, CancelAllRequests, NewConn
<1>13. ASSUME NEW op \in Op, ReqInit(op) PROVE MoveInv'
  <2>1. /\ lastOp = NoOp /\ lastOp' = op /\ pc'[op] = "check"
        /\ respWait' = respWait \cup Ids(op) /\ dpc = "select"
        /\ UNCHANGED <<writeConn, nconn, conn, reading, dpc, cont>>
    BY <1>13, Zenon DEF ReqInit, Goto, TypeInv, TypeOK, connVars, dispVars
  <2>2. ~reading => respWait = {}
    BY <2>1 DEF TypeInv, TypeOK
  <2> QED
    BY <2>1, <2>2, Zenon DEF Ids
<1>14. ASSUME NEW op \in Op, ReqTimeout(op) PROVE MoveInv'
  <2>1. /\ pc[op] = "giveup" /\ pc' = [pc EXCEPT ![op] = "done"]
        /\ respWait' \subseteq respWait
        /\ UNCHANGED <<lockVars, nconn, conn, reading, dpc, cont>>
    BY <1>14, Zenon DEF ReqTimeout, Return, Goto, connVars, dispVars
  <2>2. ASSUME NEW i \in respWait', dpc = "select", ~reading
        PROVE  reqSent = "err" \/ pc'[lastOp] \in {"check", "dial", "offer", "failed"}
    BY <2>1, <2>2 DEF TypeInv, TypeOK
  <2> QED
    BY <2>1, <2>2, Zenon DEF lockVars
<1>15. CASE ReqSent
  <2>1. /\ respWait' = (IF reqSent = "err" THEN respWait \ Ids(lastOp) ELSE respWait)
        /\ dpc = "select" /\ reqSent # "empty"
        /\ UNCHANGED <<pc, writeConn, nconn, conn, reading, dpc, cont>>
    BY <1>15, Zenon DEF ReqSent, callVars, connVars, dispVars
  <2>2. ~reading => respWait' = {}
    <3>1. ASSUME NEW i \in respWait, ~reading PROVE reqSent = "err" /\ i \in Ids(lastOp)
      <4>1. lastOp \in Op /\ Owner[i] = lastOp /\ i \in Id
        BY <2>1, <3>1 DEF TypeInv, TypeOK
      <4>2. pc[lastOp] \notin Locked
        BY <2>1, <4>1, Zenon DEF LockInv, WriteLockHeld
      <4> QED
        BY <2>1, <3>1, <4>1, <4>2, Zenon DEF Locked, Ids
    <3> QED
      BY <2>1, <3>1, Zenon
  <2> QED
    BY <2>1, <2>2, Zenon
<1>16. CASE UNCHANGED vars
  BY <1>0, <1>16, Zenon DEF vars, callVars, reqVars, connVars, dispVars
<1> QED
  BY Zenon, <1>1, <1>2, <1>3, <1>4, <1>5, <1>6, <1>7, <1>8, <1>9, <1>10, <1>11, <1>12, <1>13,
     <1>14, <1>15, <1>16, Zenon DEF Next, DispatchStep

=============================================================================
