-------------------------- MODULE RpcServiceProofs --------------------------
(***************************************************************************)
(* Proofs about RpcRequests, concluded: each request gets its own answers, *)
(* no request is forgotten, and RpcRequests implements RpcService.         *)
(***************************************************************************)
EXTENDS RpcRequestsProofs, SequenceTheorems, FiniteSetTheorems

-----------------------------------------------------------------------------
(* A queue of which the part r has been received and the part b has not. *)

\* Appending to the part in the buffer appends to the queue.
LEMMA ConcatAppend ==
  ASSUME NEW T, NEW r \in Seq(T), NEW b \in Seq(T), NEW e \in T
  PROVE  r \o Append(b, e) = Append(r \o b, e)
<1>1. <<e>> \in Seq(T) /\ r \o b \in Seq(T)
  OBVIOUS
<1>2. Append(b, e) = b \o <<e>> /\ Append(r \o b, e) = (r \o b) \o <<e>>
  BY <1>1, AppendIsConcat
<1> QED
  BY <1>1, <1>2, ConcatAssociative

\* So an answer put into op.resp is appended to the queue of the operation.
LEMMA QueueAppend ==
  ASSUME NEW op, NEW j \in Id, got[op] \in Seq(Id), resp[op] \in Seq(Id),
         UNCHANGED got, resp'[op] = Append(resp[op], j)
  PROVE  Queue(op)' = Append(Queue(op), j) /\ Queue(op) \in Seq(Id)
<1> DEFINE r == got[op]
           b == resp[op]
<1>1. r \in Seq(Id) /\ b \in Seq(Id)
  OBVIOUS
<1> HIDE DEF r, b
<1>2. r \o Append(b, j) = Append(r \o b, j) /\ r \o b \in Seq(Id)
  BY <1>1, ConcatAppend
<1>3. Queue(op) = r \o b /\ Queue(op)' = r \o Append(b, j)
  BY Zenon DEF r, b, Queue
<1> QED
  BY <1>2, <1>3, Zenon

\* Receiving the front of the buffer leaves the queue as it is.
LEMMA ReceiveHead ==
  ASSUME NEW T, NEW r \in Seq(T), NEW b \in Seq(T), b # <<>>
  PROVE  Append(r, Head(b)) \o Tail(b) = r \o b
<1>1. /\ Head(b) \in T /\ Tail(b) \in Seq(T)
      /\ <<Head(b)>> \in Seq(T)
  OBVIOUS
<1>2. b = <<Head(b)>> \o Tail(b)
  OBVIOUS
<1>3. Append(r, Head(b)) = r \o <<Head(b)>>
  BY <1>1, AppendIsConcat
<1>4. (r \o <<Head(b)>>) \o Tail(b) = r \o (<<Head(b)>> \o Tail(b))
  <2>1. PICK x \in Seq(T), y \in Seq(T) : x = <<Head(b)>> /\ y = Tail(b)
    BY <1>1, Zenon
  <2>2. (r \o x) \o y = r \o (x \o y)
    BY <2>1, ConcatAssociative
  <2> QED
    BY <2>1, <2>2, Zenon
<1> QED
  BY <1>2, <1>3, <1>4, Zenon

\* The queue is as long as both parts together.
LEMMA ConcatDomain ==
  ASSUME NEW T, NEW r \in Seq(T), NEW b \in Seq(T)
  PROVE  /\ Len(r) \in Nat /\ Len(b) \in Nat
         /\ DOMAIN (r \o b) = 1..(Len(r) + Len(b))
<1>1. r \o b \in Seq(T) /\ Len(r \o b) = Len(r) + Len(b)
  BY ConcatProperties
<1> QED
  BY <1>1, LenProperties

-----------------------------------------------------------------------------
(* Answers. *)

Elements(q) == {q[x] : x \in DOMAIN q}
Distinct(q) == \A x, y \in DOMAIN q : q[x] = q[y] => x = y

\* The answers of a request are its own and differ, and a registered id is
\* unanswered and has an open channel.
AnswerInv ==
  /\ \A op \in Op : Elements(Queue(op)) \subseteq Ids(op) /\ Distinct(Queue(op))
  /\ \A i \in respWait : Owner[i] \notin respClosed /\ i \notin Elements(Queue(Owner[i]))

\* One more answer.
LEMMA AppendAnswer ==
  ASSUME NEW q \in Seq(Id), NEW i \in Id
  PROVE  /\ Elements(Append(q, i)) = Elements(q) \cup {i}
         /\ Distinct(q) /\ i \notin Elements(q) => Distinct(Append(q, i))
<1>1. /\ Len(q) \in Nat /\ DOMAIN q = 1..Len(q)
      /\ DOMAIN Append(q, i) = 1..(Len(q) + 1)
      /\ \A x \in 1..Len(q) : Append(q, i)[x] = q[x]
      /\ Append(q, i)[Len(q) + 1] = i
  OBVIOUS
<1>2. \A x \in 1..(Len(q) + 1) : x \in 1..Len(q) \/ x = Len(q) + 1
  BY <1>1
<1>3. 1..Len(q) \subseteq 1..(Len(q) + 1) /\ Len(q) + 1 \in 1..(Len(q) + 1)
  BY <1>1
<1>4. Elements(Append(q, i)) = Elements(q) \cup {i}
  BY <1>1, <1>2, <1>3 DEF Elements
<1>5. ASSUME Distinct(q), i \notin Elements(q) PROVE Distinct(Append(q, i))
  BY <1>1, <1>2, <1>5 DEF Elements, Distinct
<1> QED
  BY <1>4, <1>5

\* The queue of a request without answers.
LEMMA NoAnswers ==
  ASSUME NEW op, got[op] = <<>>, resp[op] = <<>>
  PROVE  Queue(op) = <<>> /\ Elements(Queue(op)) = {} /\ Distinct(Queue(op))
<1>1. <<>> \o <<>> = <<>>
  OBVIOUS
<1>2. Queue(op) = <<>>
  BY <1>1, Zenon DEF Queue
<1>3. Elements(<<>>) = {} /\ Distinct(<<>>)
  BY DEF Elements, Distinct
<1> QED
  BY <1>2, <1>3, Zenon

\* handleResponse gives a registered request the answer to one of its ids.
LEMMA AnswerInvResponse ==
  ASSUME TypeInv, AnswerInv, HandleResponse
  PROVE  AnswerInv'
<1>1. /\ todo \in Seq(Message) /\ todo # <<>> /\ Head(todo).type = "response"
  BY Zenon DEF HandleResponse, TypeInv, TypeOK
<1>2. Head(todo) \in Message
  BY <1>1, HeadType, Zenon
<1>3. PICK j \in Id : j = Head(todo).id
  BY <1>1, <1>2 DEF Message, Response, Notification
<1> DEFINE op == Owner[j]
<1>4. op \in Op
  BY <1>3, RequestAssumption
<1>5. respWait' = respWait \ {j} /\ UNCHANGED got
  BY <1>3, Zenon DEF HandleResponse, Handled, callVars
<1>6. respWait \subseteq Id /\ \A i \in Id : Owner[i] \in Op
  BY RequestAssumption DEF TypeInv, TypeOK
<1>7. CASE UNCHANGED <<resp, respClosed>>
  BY <1>5, <1>7 DEF AnswerInv, Queue
<1>8. CASE /\ j \in respWait
           /\ resp' = [resp EXCEPT ![op] = Append(@, j)]
           /\ UNCHANGED respClosed
  <2>1. /\ got[op] \in Seq(Id) /\ resp[op] \in Seq(Id)
        /\ \A p \in Op \ {op} : resp'[p] = resp[p]
        /\ resp'[op] = Append(resp[op], j)
    BY <1>4, <1>8 DEF TypeInv, TypeOK
  <2>2. Queue(op)' = Append(Queue(op), j) /\ Queue(op) \in Seq(Id)
    BY <1>5, <2>1, QueueAppend, Zenon
  <2>3. \A p \in Op \ {op} : Queue(p)' = Queue(p)
    BY <1>5, <2>1, Zenon DEF Queue
  <2>4. j \notin Elements(Queue(op)) /\ j \in Ids(op)
    BY <1>8 DEF AnswerInv, Ids
  <2>5. /\ Elements(Queue(op)') = Elements(Queue(op)) \cup {j}
        /\ Distinct(Queue(op)')
    <3>1. Distinct(Queue(op))
      BY <1>4 DEF AnswerInv
    <3> QED
      BY <2>2, <2>4, <3>1, AppendAnswer, Zenon
  <2>6. \A p \in Op : Elements(Queue(p)') \subseteq Ids(p) /\ Distinct(Queue(p)')
    BY <1>4, <2>3, <2>4, <2>5 DEF AnswerInv
  <2>7. \A i \in respWait' : Owner[i] \notin respClosed'
                             /\ i \notin Elements(Queue(Owner[i])')
    BY <1>5, <1>6, <1>8, <2>3, <2>5 DEF AnswerInv
  <2> QED
    BY <2>6, <2>7 DEF AnswerInv, Elements, Distinct
<1>9. CASE /\ j \in respWait /\ op \in Sub
           /\ respClosed' = respClosed \cup {op}
           /\ UNCHANGED resp
  <2>1. \A i \in respWait' : Owner[i] # op
    BY <1>5, <1>6, <1>9, RequestAssumption DEF Ids
  <2> QED
    BY <1>5, <1>9, <2>1 DEF AnswerInv, Queue
<1> QED
  BY <1>3, <1>7, <1>8, <1>9, Zenon DEF HandleResponse

\* A caller that takes an answer moves it within its queue.
LEMMA QueueKept ==
  ASSUME TypeInv, NEW op \in Op, WaitReceive(op), NEW p \in Op
  PROVE  Queue(p)' = Queue(p)
<1> DEFINE r == got[op]
           b == resp[op]
<1>1. r \in Seq(Id) /\ b \in Seq(Id) /\ b # <<>>
  BY DEF WaitReceive, TypeInv, TypeOK
<1>2. /\ got' = [got EXCEPT ![op] = Append(r, Head(b))]
      /\ resp' = [resp EXCEPT ![op] = Tail(b)]
  BY DEF WaitReceive
<1>3. /\ got'[op] = Append(r, Head(b)) /\ resp'[op] = Tail(b)
      /\ p # op => got'[p] = got[p] /\ resp'[p] = resp[p]
  BY <1>2 DEF TypeInv, TypeOK
<1> HIDE DEF r, b
<1>4. Append(r, Head(b)) \o Tail(b) = r \o b
  BY <1>1, ReceiveHead
<1>5. got'[op] \o resp'[op] = r \o b
  BY <1>3, <1>4, Zenon
<1> QED
  BY <1>3, <1>5, Zenon DEF Queue, r, b

\* Requests are registered only without answers, and answered only when registered.
LEMMA AnswerInvNext ==
  ASSUME TypeInv, LockInv, ClosingInv, FreshInv, AnswerInv, [Next]_vars
  PROVE  AnswerInv'
<1>a. \A i \in Id : Owner[i] \in Op
  BY RequestAssumption
<1>b. respWait \subseteq Id
  BY DEF TypeInv, TypeOK
<1>0. ASSUME \A p \in Op : Queue(p)' = Queue(p),
             respWait' \subseteq respWait,
             respWait' = {} \/ UNCHANGED respClosed
      PROVE  AnswerInv'
  BY <1>0, <1>a, <1>b DEF AnswerInv
<1>c. ASSUME UNCHANGED <<got, resp>> PROVE \A p \in Op : Queue(p)' = Queue(p)
  BY <1>c DEF Queue
<1>d. ASSUME NEW op \in Op, got[op] = <<>>, resp[op] = <<>>, op \notin respClosed,
             UNCHANGED <<got, resp, respClosed>>,
             respWait' \subseteq respWait \cup Ids(op)
      PROVE  AnswerInv'
  <2>1. Elements(Queue(op)) = {}
    BY <1>d, NoAnswers
  <2>2. \A p \in Op : Queue(p)' = Queue(p)
    BY <1>c, <1>d
  <2> QED
    BY <1>a, <1>b, <1>d, <2>1, <2>2 DEF AnswerInv, Ids
<1>1. ASSUME NEW op \in Op, WaitReceive(op) PROVE AnswerInv'
  BY <1>0, <1>1, QueueKept, Zenon DEF WaitReceive
<1> USE DEF callVars, reqVars
<1>2. ASSUME NEW op \in Op, Start(op) \/ Cancel(op) \/ CallerStep(op), ~WaitReceive(op)
      PROVE  AnswerInv'
  <2>1. UNCHANGED <<got, resp, respClosed, respWait>>
    BY <1>2 DEF CallerStep, Start, Cancel, SendAborted, CheckWriteConn, Dial, OfferRefused,
       Write, Sent, WaitClosed, WaitCtxDone, GiveUpClosing
  <2> QED
    BY <1>0, <1>c, <2>1
<1>3. ASSUME NEW k \in Conn, ReadStep(k) PROVE AnswerInv'
  <2>1. UNCHANGED <<got, resp, respClosed, respWait>>
    BY <1>3, Zenon DEF ReadStep, ReadResponse, ReadBatch, ReadNotification, ReadFail, Offer
  <2> QED
    BY <1>0, <1>c, <2>1
<1>4. CASE Shutdown
  <2>1. UNCHANGED <<got, resp>> /\ (respWait' = {} \/ UNCHANGED <<respWait, respClosed>>)
    BY <1>4 DEF Shutdown, CancelAllRequests
  <2> QED
    BY <1>0, <1>c, <2>1
<1>5. CASE HandleNotification \/ CloseCodec
  <2>1. UNCHANGED <<got, resp, respClosed, respWait>>
    BY <1>5 DEF HandleNotification, Handled, CloseCodec
  <2> QED
    BY <1>0, <1>c, <2>1
<1>6. ASSUME NEW s \in Sub, QuitSub(s) PROVE AnswerInv'
  BY <1>0, <1>c, <1>6 DEF QuitSub
<1>7. ASSUME NEW k \in Conn, DrainReadOp(k) PROVE AnswerInv'
  BY <1>0, <1>c, <1>7 DEF DrainReadOp
<1>8. ASSUME NEW k \in Conn, DrainReadErr(k) PROVE AnswerInv'
  <2>1. /\ UNCHANGED <<got, resp, respClosed>>
        /\ \/ UNCHANGED respWait
           \/ cont = "reconnected" /\ respWait' = Ids(lastOp)
    BY <1>8 DEF DrainReadErr, NewConn
  <2>2. CASE UNCHANGED respWait
    BY <1>0, <1>c, <2>1, <2>2
  <2>3. CASE cont = "reconnected" /\ respWait' = Ids(lastOp)
    <3>1. Handover
      BY <1>8, <2>3 DEF DrainReadErr, Handover
    <3>2. PICK op \in Op : op = lastOp
      BY <3>1 DEF FreshInv
    <3>3. got[op] = <<>> /\ resp[op] = <<>> /\ op \notin respClosed
      BY <3>1, <3>2 DEF FreshInv
    <3> QED
      BY <1>d, <2>1, <2>3, <3>2, <3>3
  <2> QED
    BY <2>1, <2>2, <2>3
<1>9. ASSUME NEW x \in Closer, DispatchClose(x) \/ CloseCall(x) \/ CloseReturn(x)
      PROVE  AnswerInv'
  <2>1. UNCHANGED <<got, resp, respClosed, respWait>>
    BY <1>9 DEF DispatchClose, CloseCall, CloseReturn
  <2> QED
    BY <1>0, <1>c, <2>1
<1>10. ASSUME NEW k \in Conn, DispatchReadOp(k) \/ DispatchReadErr(k) PROVE AnswerInv'
  <2>1. UNCHANGED <<got, resp>> /\ (respWait' = {} \/ UNCHANGED <<respWait, respClosed>>)
    BY <1>10 DEF DispatchReadOp, DispatchReadErr, CancelAllRequests
  <2> QED
    BY <1>0, <1>c, <2>1
<1>11. ASSUME NEW op \in Op, DispatchReconnected(op) PROVE AnswerInv'
  <2>1. /\ dpc = "select" /\ pc[op] = "offer" /\ UNCHANGED <<got, resp>>
        /\ \/ respWait' = {}
           \/ UNCHANGED respClosed /\ respWait' = Ids(lastOp)
    BY <1>11 DEF DispatchReconnected, CancelAllRequests, NewConn
  <2>2. lastOp = op
    BY <2>1 DEF LockInv, WriteLockHeld, Locked
  <2>3. Unseen(op) /\ op \notin respClosed
    BY <2>1 DEF FreshInv, ClosingInv, Unsent
  <2>4. got[op] = <<>> /\ resp[op] = <<>>
    BY <2>3 DEF Unseen
  <2> QED
    BY <1>0, <1>c, <1>d, <2>1, <2>2, <2>3, <2>4
<1>12. ASSUME NEW op \in Op, ReqInit(op) PROVE AnswerInv'
  <2>1. /\ dpc = "select" /\ pc[op] = "send" /\ UNCHANGED <<got, resp, respClosed>>
        /\ respWait' = respWait \cup Ids(op)
    BY <1>12 DEF ReqInit
  <2>2. Unseen(op) /\ op \notin respClosed
    BY <2>1 DEF FreshInv, ClosingInv, Unsent
  <2>3. got[op] = <<>> /\ resp[op] = <<>>
    BY <2>2 DEF Unseen
  <2> QED
    BY <1>d, <2>1, <2>2, <2>3
<1>13. ASSUME NEW op \in Op, ReqTimeout(op) PROVE AnswerInv'
  BY <1>0, <1>c, <1>13 DEF ReqTimeout
<1>14. CASE ReqSent
  <2>1. UNCHANGED <<got, resp, respClosed>> /\ respWait' \subseteq respWait
    BY <1>14 DEF ReqSent
  <2> QED
    BY <1>0, <1>c, <2>1
<1>15. CASE UNCHANGED vars
  BY <1>0, <1>c, <1>15 DEF vars
<1> QED
  BY <1>1, <1>2, <1>3, <1>4, <1>5, <1>6, <1>7, <1>8, <1>9, <1>10, <1>11, <1>12, <1>13,
     <1>14, <1>15, AnswerInvResponse DEF Next, DispatchStep

\* Distinct answers out of a finite set that lacks one leave room for that one.
LEMMA RoomForOne ==
  ASSUME NEW q \in Seq(Id), NEW T, IsFiniteSet(T), NEW i \in T,
         Elements(q) \subseteq T, Distinct(q), i \notin Elements(q)
  PROVE  Len(q) < Cardinality(T)
<1> DEFINE R == T \ {i}
<1>1. IsFiniteSet(R) /\ Cardinality(R) = Cardinality(T) - 1 /\ Cardinality(T) \in Nat
  BY FS_RemoveElement, FS_CardinalityType
<1>2. Len(q) \in Nat /\ DOMAIN q = 1..Len(q)
  OBVIOUS
<1>3. \A x \in 1..Len(q) : q[x] \in R
  BY <1>2 DEF Elements
<1>4. q \in [1..Len(q) -> R]
  BY <1>2, <1>3
<1>5. q \in Injection(1..Len(q), R)
  BY <1>2, <1>4 DEF Injection, IsInjective, Distinct
<1> HIDE DEF R
<1>6. Cardinality(1..Len(q)) <= Cardinality(R)
  BY <1>1, <1>5, FS_Injection
<1>7. Cardinality(1..Len(q)) = Len(q)
  BY <1>2, FS_Interval
<1> QED
  BY <1>1, <1>2, <1>6, <1>7

\* Nothing is registered in the beginning.
LEMMA AnswerInvInit == Init => AnswerInv
<1> SUFFICES ASSUME Init PROVE AnswerInv
  OBVIOUS
<1>1. \A op \in Op : got[op] = <<>> /\ resp[op] = <<>>
  BY DEF Init
<1>2. \A op \in Op : Elements(Queue(op)) = {} /\ Distinct(Queue(op))
  BY <1>1, NoAnswers
<1> QED
  BY <1>2 DEF AnswerInv, Init

\* Answers find their request: however answers, timeouts, reconnects and Close
\* interleave, dispatch never sends on a closed op.resp, never closes one twice, and
\* never blocks on a full one.
THEOREM RegisteredAnswerable == Spec => []RegisteredCanBeAnswered
<1>1. TypeInv /\ AnswerInv => RegisteredCanBeAnswered
  <2> SUFFICES ASSUME TypeInv, AnswerInv, NEW i \in respWait
               PROVE  /\ Owner[i] \notin respClosed
                      /\ i \notin Answered(Owner[i])
                      /\ Len(Queue(Owner[i])) < Size(Owner[i])
    BY DEF RegisteredCanBeAnswered
  <2>1. i \in Id /\ Owner[i] \in Op /\ i \in Ids(Owner[i])
    BY RequestAssumption DEF TypeInv, TypeOK, Ids
  <2>2. IsFiniteSet(Ids(Owner[i]))
    <3>1. Ids(Owner[i]) \in SUBSET Id
      BY DEF Ids
    <3> QED
      BY <3>1, FS_Subset, RequestAssumption
  <2>3. Queue(Owner[i]) \in Seq(Id)
    <3>1. got[Owner[i]] \in Seq(Id) /\ resp[Owner[i]] \in Seq(Id)
      BY <2>1 DEF TypeInv, TypeOK
    <3> QED
      BY <3>1 DEF Queue
  <2>4. /\ Owner[i] \notin respClosed /\ i \notin Elements(Queue(Owner[i]))
        /\ Elements(Queue(Owner[i])) \subseteq Ids(Owner[i]) /\ Distinct(Queue(Owner[i]))
    BY <2>1 DEF AnswerInv
  <2>5. Len(Queue(Owner[i])) < Cardinality(Ids(Owner[i]))
    BY <2>1, <2>2, <2>3, <2>4, RoomForOne
  <2> QED
    BY <2>4, <2>5 DEF Answered, Elements, Size
<1> QED
  BY <1>1, AnswerInvInit, AnswerInvNext, FreshInvInit, FreshInvNext, RegInvNext, ClosingInvNext,
     LockInvInit, LockInvNext, ReaderInvInit, ReaderInvNext, TypeInvInit, TypeInvNext, PTL
  DEF Spec

-----------------------------------------------------------------------------
(* Results. *)

\* A call that returned without an error has returned for good, with all of its
\* answers unless it is a Subscribe.
OutcomeInv ==
  /\ ClosedMeansError
  /\ \A op \in Op : outcome[op] = "ok" =>
       /\ pc[op] = "done"
       /\ op \notin Sub => Len(got[op]) = Size(op)

\* Without answers the caller has taken none.
LEMMA NothingTaken ==
  ASSUME NEW r \in Seq(Id), NEW b \in Seq(Id), Elements(r \o b) = {}
  PROVE  Len(r) = 0
<1>1. /\ Len(r) \in Nat /\ Len(b) \in Nat
      /\ DOMAIN (r \o b) = 1..(Len(r) + Len(b))
  BY ConcatDomain
<1>2. ASSUME 1 \in DOMAIN (r \o b) PROVE FALSE
  <2>1. (r \o b)[1] \in Elements(r \o b)
    BY <1>2, Zenon DEF Elements
  <2> QED
    BY <2>1
<1> QED
  BY <1>1, <1>2

\* Only a full set of answers, or no id at all, makes a call succeed.
LEMMA OutcomeInvNext ==
  ASSUME TypeInv, AnswerInv, OutcomeInv, [Next]_vars
  PROVE  OutcomeInv'
<1> USE DEF OutcomeInv, ClosedMeansError
<1>0. ASSUME UNCHANGED <<respClosed, opErr>>, NEW op \in Op, pc[op] # "done",
             \A p \in Op \ {op} : pc'[p] = pc[p] /\ outcome'[p] = outcome[p] /\ got'[p] = got[p],
             outcome'[op] = "ok" =>
               pc'[op] = "done" /\ (op \notin Sub => Len(got'[op]) = Size(op))
      PROVE  OutcomeInv'
  BY <1>0
<1>1. ASSUME NEW op \in Op, Start(op) \/ Cancel(op) \/ CallerStep(op) PROVE OutcomeInv'
  <2> USE DEF Goto, Return, TypeInv, TypeOK, reqVars
  <2>0. ASSUME pc[op] # "done", NEW l, pc' = [pc EXCEPT ![op] = l],
               outcome' = outcome \/ outcome' = [outcome EXCEPT ![op] = "err"],
               UNCHANGED <<got, respClosed, opErr>>
        PROVE  OutcomeInv'
    BY <1>0, <2>0
  <2>1. CASE Start(op)
    BY <2>0, <2>1 DEF Start
  <2>2. CASE Cancel(op)
    BY <2>2 DEF Cancel
  <2>3. CASE SendAborted(op)
    BY <2>0, <2>3 DEF SendAborted
  <2>4. CASE CheckWriteConn(op)
    BY <2>0, <2>4 DEF CheckWriteConn
  <2>5. CASE Dial(op)
    BY <2>0, <2>5 DEF Dial
  <2>6. CASE OfferRefused(op)
    BY <2>0, <2>6 DEF OfferRefused
  <2>7. CASE Write(op)
    BY <2>0, <2>7 DEF Write
  <2>8. CASE Sent(op)
    <3>1. CASE Ids(op) = {}
      <4>1. Size(op) = 0
        BY <3>1, FS_EmptySet DEF Size
      <4>2. Len(got[op]) = 0
        <5>1. Elements(Queue(op)) = {} /\ got[op] \in Seq(Id) /\ resp[op] \in Seq(Id)
          BY <3>1 DEF AnswerInv
        <5> QED
          BY <5>1, NothingTaken, Zenon DEF Queue
      <4>3. /\ UNCHANGED <<respClosed, opErr, got>> /\ pc[op] # "done"
            /\ pc' = [pc EXCEPT ![op] = "done"]
            /\ outcome' = [outcome EXCEPT ![op] = outcome'[op]]
        BY <2>8, <3>1 DEF Sent
      <4> QED
        BY <1>0, <4>1, <4>2, <4>3
    <3>2. CASE Ids(op) # {}
      BY <2>0, <2>8, <3>2 DEF Sent
    <3> QED
      BY <3>1, <3>2, Zenon
  <2>9. CASE WaitReceive(op)
    <3>1. /\ UNCHANGED <<respClosed, opErr>> /\ pc[op] = "wait"
          /\ \A p \in Op \ {op} : pc'[p] = pc[p] /\ outcome'[p] = outcome[p] /\ got'[p] = got[p]
          /\ got'[op] = Append(got[op], Head(resp[op]))
      BY <2>9 DEF WaitReceive
    <3>2. Len(got'[op]) = Len(got[op]) + 1
      <4>1. got[op] \in Seq(Id) /\ resp[op] \in Seq(Id) /\ resp[op] # <<>>
        BY <2>9 DEF WaitReceive
      <4>2. Head(resp[op]) \in Id
        BY <4>1
      <4>3. PICK q, h : q = got[op] /\ h = Head(resp[op])
        BY Zenon
      <4>4. Len(Append(q, h)) = Len(q) + 1
        BY <4>1, <4>2, <4>3, AppendProperties
      <4> QED
        BY <3>1, <4>3, <4>4, Zenon
    <3>3. outcome'[op] = "ok" => pc'[op] = "done" /\ Len(got[op]) + 1 = Size(op)
      BY <2>9 DEF WaitReceive
    <3> QED
      BY <1>0, <3>1, <3>2, <3>3
  <2>10. CASE WaitClosed(op)
    <3>1. /\ UNCHANGED <<respClosed, opErr, got>> /\ pc[op] = "wait" /\ op \in respClosed
          /\ pc' = [pc EXCEPT ![op] = "done"]
          /\ outcome' = [outcome EXCEPT ![op] = IF op \in opErr THEN "err" ELSE "ok"]
      BY <2>10 DEF WaitClosed
    <3> QED
      BY <1>0, <3>1
  <2>11. CASE WaitCtxDone(op) \/ GiveUpClosing(op)
    BY <2>0, <2>11 DEF WaitCtxDone, GiveUpClosing
  <2> HIDE DEF OutcomeInv, ClosedMeansError, TypeInv, TypeOK, Goto, Return
  <2> QED
    BY <1>1, <2>1, <2>2, <2>3, <2>4, <2>5, <2>6, <2>7, <2>8, <2>9, <2>10, <2>11, Zenon
    DEF CallerStep
<1> USE DEF callVars, reqVars
<1>2. ASSUME NEW k \in Conn, ReadStep(k) PROVE OutcomeInv'
  BY <1>2, Zenon DEF ReadStep, ReadResponse, ReadBatch, ReadNotification, ReadFail, Offer
<1>3. CASE DispatchStep
  <2>1. UNCHANGED <<pc, outcome, got>>
    BY <1>3, Zenon DEF DispatchStep, Shutdown, HandleResponse, HandleNotification, Handled,
       QuitSub, CloseCodec, DrainReadOp, DrainReadErr
  <2>2. ClosedMeansError'
    BY <1>3, Zenon DEF DispatchStep, Shutdown, CancelAllRequests, HandleResponse,
       HandleNotification, Handled, QuitSub, CloseCodec, DrainReadOp, DrainReadErr
  <2> QED
    BY <2>1, <2>2
<1>4. ASSUME NEW x \in Closer, DispatchClose(x) \/ CloseCall(x) \/ CloseReturn(x)
      PROVE  OutcomeInv'
  BY <1>4, Zenon DEF DispatchClose, CloseCall, CloseReturn
<1>5. ASSUME NEW k \in Conn, DispatchReadOp(k) \/ DispatchReadErr(k) PROVE OutcomeInv'
  BY <1>5, Zenon DEF DispatchReadOp, DispatchReadErr, CancelAllRequests
<1>6. ASSUME NEW op \in Op, DispatchReconnected(op) PROVE OutcomeInv'
  <2>1. /\ pc[op] = "offer" /\ pc' = [pc EXCEPT ![op] = "write"]
        /\ UNCHANGED <<outcome, got>>
    BY <1>6 DEF DispatchReconnected, Goto
  <2>2. ClosedMeansError'
    BY <1>6 DEF DispatchReconnected, CancelAllRequests
  <2> QED
    BY <2>1, <2>2 DEF TypeInv, TypeOK
<1>7. ASSUME NEW op \in Op, ReqInit(op) PROVE OutcomeInv'
  BY <1>7 DEF ReqInit, Goto, TypeInv, TypeOK
<1>8. ASSUME NEW op \in Op, ReqTimeout(op) PROVE OutcomeInv'
  BY <1>8 DEF ReqTimeout, Return, Goto, TypeInv, TypeOK
<1>9. CASE ReqSent
  BY <1>9, Zenon DEF ReqSent
<1>10. CASE UNCHANGED vars
  BY <1>10, Zenon DEF vars
<1> QED
  BY <1>1, <1>2, <1>3, <1>4, <1>5, <1>6, <1>7, <1>8, <1>9, <1>10, Zenon DEF Next

\* Each call gets its own answers, each at most once, and succeeds only with all of
\* them: no answer of another call, of an earlier connection or of a cancelled batch
\* is ever taken for a result.
THEOREM OwnAnswers == Spec => []AnswersMatchRequest
<1>1. Init => OutcomeInv
  BY DEF Init, OutcomeInv, ClosedMeansError
<1>2. AnswerInv /\ OutcomeInv => AnswersMatchRequest
  BY DEF AnswerInv, OutcomeInv, AnswersMatchRequest, Answered, Elements, Distinct
<1> QED
  BY <1>1, <1>2, OutcomeInvNext, AnswerInvInit, AnswerInvNext, FreshInvInit, FreshInvNext,
     RegInvNext, ClosingInvNext, LockInvInit, LockInvNext, ReaderInvInit, ReaderInvNext,
     TypeInvInit, TypeInvNext, PTL
  DEF Spec

\* An op.resp that is closed has its error set: a caller that finds it closed and takes
\* op.err returns an error, whatever closed it, and only a Subscribe
\* can be closed without one.
THEOREM ClosedIsError == Spec => []ClosedMeansError
<1>1. Init => OutcomeInv
  BY DEF Init, OutcomeInv, ClosedMeansError
<1>2. OutcomeInv => ClosedMeansError
  BY DEF OutcomeInv
<1> QED
  BY <1>1, <1>2, OutcomeInvNext, AnswerInvInit, AnswerInvNext, FreshInvInit, FreshInvNext,
     RegInvNext, ClosingInvNext, LockInvInit, LockInvNext, ReaderInvInit, ReaderInvNext,
     TypeInvInit, TypeInvNext, PTL
  DEF Spec

-----------------------------------------------------------------------------
(* Requests that leave the handler. *)

\* An id that a step removes is answered, its channel is closed, its caller has
\* returned, or it is the request with the write lock.
Accounted(i) ==
  \/ i \in Answered(Owner[i])'
  \/ Owner[i] \in respClosed'
  \/ pc'[Owner[i]] = "done"
  \/ Owner[i] = lastOp

\* Whatever the step, an id that it removes from respWait is accounted for.
LEMMA NothingDropped ==
  ASSUME TypeInv, MoveInv, [Next]_vars
  PROVE  \A i \in respWait \ respWait' : Accounted(i)
<1> USE RequestAssumption DEF Accounted
<1> SUFFICES ASSUME NEW i \in respWait \ respWait' PROVE Accounted(i)
  OBVIOUS
<1>0. i \in Id /\ Owner[i] \in Op
  BY DEF TypeInv, TypeOK
<1>1. ASSUME NEW inflightReq, CancelAllRequests(inflightReq), inflightReq \in {lastOp, NoOp}
      PROVE  Accounted(i)
  <2>1. Owner[i] # inflightReq => Owner[i] \in respClosed'
    BY <1>1 DEF CancelAllRequests
  <2> QED
    BY <1>0, <1>1, <2>1
<1>2. ASSUME NEW op \in Op, Start(op) \/ Cancel(op) \/ CallerStep(op) PROVE Accounted(i)
  BY <1>2, Zenon DEF CallerStep, Start, Cancel, SendAborted, CheckWriteConn, Dial, OfferRefused,
     Write, Sent, WaitReceive, WaitClosed, WaitCtxDone, GiveUpClosing, reqVars
<1>3. ASSUME NEW k \in Conn, ReadStep(k) PROVE Accounted(i)
  BY <1>3, Zenon DEF ReadStep, ReadResponse, ReadBatch, ReadNotification, ReadFail, Offer,
     reqVars
<1>4. CASE Shutdown
  BY <1>1, <1>4 DEF Shutdown, reqVars
<1>5. CASE HandleResponse
  <2> DEFINE m == Head(todo)
  <2>1. i = m.id
    BY <1>5, Zenon DEF HandleResponse
  <2>2. CASE Owner[i] \in Sub
    BY <1>5, <2>1, <2>2, Zenon DEF HandleResponse
  <2>3. CASE Owner[i] \notin Sub
    <3>1. resp' = [resp EXCEPT ![Owner[i]] = Append(@, i)] /\ UNCHANGED got
      BY <1>5, <2>1, <2>3, Zenon DEF HandleResponse, Handled, callVars
    <3>2. got[Owner[i]] \in Seq(Id) /\ resp[Owner[i]] \in Seq(Id)
      BY <1>0 DEF TypeInv, TypeOK
    <3>3. Queue(Owner[i])' = Append(Queue(Owner[i]), i)
      <4>1. resp'[Owner[i]] = Append(resp[Owner[i]], i)
        BY <1>0, <3>1 DEF TypeInv, TypeOK
      <4> QED
        BY <1>0, <3>1, <3>2, <4>1, QueueAppend, Zenon
    <3>4. Queue(Owner[i]) \in Seq(Id)
      BY <3>2 DEF Queue
    <3>5. i \in Elements(Append(Queue(Owner[i]), i))
      BY <1>0, <3>4, AppendAnswer
    <3> QED
      BY <3>3, <3>5 DEF Answered, Elements
  <2> QED
    BY <2>2, <2>3
<1>6. CASE HandleNotification
  BY <1>6 DEF HandleNotification, reqVars
<1>7. ASSUME NEW s \in Sub, QuitSub(s) PROVE Accounted(i)
  BY <1>7 DEF QuitSub, reqVars
<1>8. CASE CloseCodec
  BY <1>8 DEF CloseCodec, reqVars
<1>9. ASSUME NEW k \in Conn, DrainReadOp(k) \/ DrainReadErr(k) PROVE Accounted(i)
  <2>1. dpc = "drain"
    BY <1>9 DEF DrainReadOp, DrainReadErr
  <2> QED
    BY <2>1 DEF MoveInv
<1>10. ASSUME NEW x \in Closer, DispatchClose(x) \/ CloseCall(x) \/ CloseReturn(x)
       PROVE  Accounted(i)
  BY <1>10 DEF DispatchClose, CloseCall, CloseReturn, reqVars
<1>11. ASSUME NEW k \in Conn, DispatchReadOp(k) \/ DispatchReadErr(k) PROVE Accounted(i)
  BY <1>1, <1>11 DEF DispatchReadOp, DispatchReadErr, reqVars
<1>12. ASSUME NEW op \in Op, DispatchReconnected(op) PROVE Accounted(i)
  <2>1. CASE reading
    BY <1>1, <1>12, <2>1, Zenon DEF DispatchReconnected
  <2>2. CASE ~reading
    BY <1>12, <2>2, Zenon DEF DispatchReconnected, MoveInv
  <2> QED
    BY <2>1, <2>2
<1>13. ASSUME NEW op \in Op, ReqInit(op) PROVE Accounted(i)
  BY <1>13, Zenon DEF ReqInit
<1>14. ASSUME NEW op \in Op, ReqTimeout(op) PROVE Accounted(i)
  <2>1. i \in Ids(op) /\ pc' = [pc EXCEPT ![op] = "done"]
    BY <1>14 DEF ReqTimeout, Return, Goto
  <2> QED
    BY <2>1 DEF Ids, TypeInv, TypeOK
<1>15. CASE ReqSent
  <2>1. i \in Ids(lastOp)
    BY <1>15 DEF ReqSent
  <2> QED
    BY <2>1 DEF Ids
<1>16. CASE UNCHANGED vars
  BY <1>16 DEF vars, reqVars
<1> QED
  BY <1>2, <1>3, <1>4, <1>5, <1>6, <1>7, <1>8, <1>9, <1>10, <1>11, <1>12, <1>13, <1>14,
     <1>15, <1>16, Zenon DEF Next, DispatchStep

\* No request is forgotten: in every step of every behaviour, an id leaves the
\* handler only with its answer, with the end of its channel, with the caller that
\* gave up, or with the request that holds the write lock.
THEOREM NoRequestForgotten == Spec => NeverDroppedSilently
<1>1. Init => MoveInv /\ CodecInv
  BY DEF Init, MoveInv, CodecInv, Owned, Handover
<1>2. TypeInv /\ MoveInv /\ [Next]_vars =>
        [\A i \in respWait \ respWait' :
            \/ i \in Answered(Owner[i])'
            \/ Owner[i] \in respClosed'
            \/ pc'[Owner[i]] = "done"
            \/ Owner[i] = lastOp]_vars
  BY NothingDropped DEF Accounted
<1> QED
  BY <1>1, <1>2, MoveInvNext, CodecInvNext, LockInvInit, LockInvNext, ReaderInvInit,
     ReaderInvNext, TypeInvInit, TypeInvNext, PTL
  DEF Spec, NeverDroppedSilently

-----------------------------------------------------------------------------
(* RpcService: every step of a goroutine is a step of the service or is
   invisible to its callers. *)

\* A goroutine that moves changes the state of its own request only.
LEMMA StateMoves ==
  ASSUME TypeInv, NEW op \in Op, NEW l, Goto(op, l)
  PROVE  /\ CallStates[op] = CallState(pc[op])
         /\ CallStates' = [CallStates EXCEPT ![op] = CallState(l)]
<1>1. /\ pc' = [pc EXCEPT ![op] = l]
      /\ pc'[op] = l /\ \A p \in Op \ {op} : pc'[p] = pc[p]
  BY Zenon DEF Goto, TypeInv, TypeOK
<1>2. \A p \in Op : CallStates[p] = CallState(pc[p])
  BY Zenon DEF CallStates
<1>3. CallStates' = [p \in Op |-> CallState(pc'[p])]
  BY Zenon DEF CallStates, CallState
<1>4. \A p \in Op : CallState(pc'[p]) = IF p = op THEN CallState(l) ELSE CallStates[p]
  BY <1>1, <1>2
<1>5. CallStates = [p \in Op |-> CallStates[p]]
  BY <1>2 DEF CallStates
<1> HIDE DEF CallStates
<1> QED
  BY <1>2, <1>3, <1>4, <1>5

\* Where a goroutine can be, as its caller sees it.
LEMMA CallStateValues ==
  /\ \A l \in Locked : CallState(l) = "sending"
  /\ CallState("idle") = "idle" /\ CallState("send") = "called"
  /\ CallState("wait") = "waiting" /\ CallState("giveup") = "waiting"
  /\ CallState("done") = "done"
  BY DEF CallState, Locked

\* Nobody sends while dispatch waits for a request.
LEMMA NoSender ==
  ASSUME TypeInv, LockInv, lastOp = NoOp, NEW p \in Op
  PROVE  CallStates[p] # "sending"
<1>1. pc[p] \notin Locked
  BY RequestAssumption DEF LockInv, WriteLockHeld
<1>2. pc[p] \in {"idle", "send", "wait", "giveup", "done"}
  BY <1>1 DEF TypeInv, TypeOK
<1>3. CallState(pc[p]) # "sending"
  BY <1>2, CallStateValues
<1> QED
  BY <1>3, Zenon DEF CallStates

\* The answer at the front of op.resp is one of the request's own, and a new one.
LEMMA FrontIsNew ==
  ASSUME TypeInv, AnswerInv, NEW op \in Op, resp[op] # <<>>
  PROVE  /\ Head(resp[op]) \in Ids(op)
         /\ \A x \in DOMAIN got[op] : got[op][x] # Head(resp[op])
<1> DEFINE r == got[op]
           b == resp[op]
<1>1. r \in Seq(Id) /\ b \in Seq(Id) /\ b # <<>>
  BY DEF TypeInv, TypeOK
<1>2. Elements(r \o b) \subseteq Ids(op) /\ Distinct(r \o b)
  BY DEF AnswerInv, Queue
<1> HIDE DEF r, b
<1>3. /\ Len(r) \in Nat /\ Len(b) \in Nat /\ Len(b) >= 1
      /\ DOMAIN r = 1..Len(r)
      /\ DOMAIN (r \o b) = 1..(Len(r) + Len(b))
      /\ \A x \in 1..Len(r) : (r \o b)[x] = r[x]
      /\ (r \o b)[Len(r) + 1] = Head(b)
  BY <1>1
<1>4. /\ Len(r) + 1 \in DOMAIN (r \o b)
      /\ \A x \in DOMAIN r : x \in DOMAIN (r \o b) /\ x # Len(r) + 1
  BY <1>3
<1>5. Head(b) \in Elements(r \o b)
  BY <1>3, <1>4, Zenon DEF Elements
<1>6. \A x \in DOMAIN r : r[x] # Head(b)
  BY <1>2, <1>3, <1>4 DEF Distinct
<1> QED
  BY <1>2, <1>5, <1>6 DEF r, b

\* With as many answers as it has ids, a call has the answer to each of them.
LEMMA LastCompletes ==
  ASSUME TypeInv, AnswerInv, NEW op \in Op, resp[op] # <<>>, Len(got[op]) + 1 = Size(op)
  PROVE  LET q == Append(got[op], Head(resp[op]))
         IN  \A i \in Ids(op) : \E x \in DOMAIN q : q[x] = i
<1> DEFINE r == got[op]
           h == Head(resp[op])
           q == Append(r, h)
<1>1. r \in Seq(Id) /\ h \in Ids(op) /\ \A x \in DOMAIN r : r[x] # h
  BY FrontIsNew DEF TypeInv, TypeOK
<1>2. Elements(r) \subseteq Ids(op) /\ Distinct(r)
  <2> DEFINE b == resp[op]
  <2>1. r \in Seq(Id) /\ b \in Seq(Id)
    BY DEF TypeInv, TypeOK
  <2>2. Elements(r \o b) \subseteq Ids(op) /\ Distinct(r \o b)
    BY DEF AnswerInv, Queue
  <2> HIDE DEF r, b
  <2>3. /\ \A x \in DOMAIN r : x \in DOMAIN (r \o b) /\ (r \o b)[x] = r[x]
    BY <2>1
  <2> QED
    BY <2>2, <2>3 DEF Elements, Distinct
<1>3. Ids(op) \subseteq Id /\ IsFiniteSet(Ids(op)) /\ Cardinality(Ids(op)) \in Nat
  <2>1. Ids(op) \in SUBSET Id
    BY DEF Ids
  <2> QED
    BY <2>1, FS_Subset, FS_CardinalityType, RequestAssumption
<1>4. Len(r) + 1 = Cardinality(Ids(op))
  BY DEF Size
<1> HIDE DEF r, h
<1>5. h \notin Elements(r)
  BY <1>1 DEF Elements
<1>6. q \in Seq(Id) /\ Len(q) = Cardinality(Ids(op))
  BY <1>1, <1>3, <1>4
<1>7. Elements(q) \subseteq Ids(op) /\ Distinct(q)
  BY <1>1, <1>2, <1>3, <1>5, AppendAnswer
<1> HIDE DEF q
<1>8. ASSUME NEW i \in Ids(op), i \notin Elements(q) PROVE FALSE
  <2>1. Len(q) < Cardinality(Ids(op))
    BY <1>3, <1>6, <1>7, <1>8, RoomForOne
  <2> QED
    BY <1>3, <1>6, <2>1
<1>9. \A i \in Ids(op) : \E x \in DOMAIN q : q[x] = i
  BY <1>8 DEF Elements
<1> QED
  BY <1>9 DEF q, r, h

\* What a goroutine that makes a request does is a step of the service.
LEMMA CallerImplements ==
  ASSUME TypeInv, AnswerInv, ClosedMeansError,
         NEW op \in Op, Start(op) \/ Cancel(op) \/ CallerStep(op)
  PROVE  [Service!ServiceNext]_(Service!serviceVars)
<1> DEFINE Step == [Service!ServiceNext]_(Service!serviceVars)
<1>0. ASSUME UNCHANGED <<pc, got, outcome, closing>> PROVE Step
  <2>1. UNCHANGED CallStates
    BY <1>0 DEF CallStates
  <2> QED
    BY <1>0, <2>1 DEF Service!serviceVars
<1>a. ASSUME NEW l \in Locked, Goto(op, l), pc[op] \in Locked, UNCHANGED <<got, outcome, closing>>
      PROVE  Step
  <2>1. CallStates[op] = "sending" /\ CallStates' = [CallStates EXCEPT ![op] = "sending"]
    BY <1>a, StateMoves, CallStateValues
  <2>2. CallStates' = CallStates
    BY <2>1, Zenon DEF CallStates
  <2> QED
    BY <1>a, <2>2 DEF Service!serviceVars
<1>b. ASSUME NEW r \in {"ok", "err"}, Return(op, r), UNCHANGED <<got, closing>>,
             pc[op] \notin {"idle", "done"},
             \/ r = "err"
             \/ pc[op] \in Locked /\ Ids(op) = {}
             \/ pc[op] \in {"wait", "giveup"} /\ op \in Sub
      PROVE  Step
  <2>1. Goto(op, "done") /\ outcome' = [outcome EXCEPT ![op] = r]
    BY <1>b DEF Return
  <2>2. /\ CallStates[op] = CallState(pc[op])
        /\ CallStates' = [CallStates EXCEPT ![op] = "done"]
    BY <2>1, StateMoves, CallStateValues
  <2>3. pc[op] \in {"send", "wait", "giveup"} \cup Locked
    BY <1>b DEF TypeInv, TypeOK
  <2>4. CallStates[op] \in {"called", "sending", "waiting"}
    BY <2>2, <2>3, CallStateValues
  <2>5. \/ r = "err"
        \/ r = "ok" /\ CallStates[op] = "sending" /\ Service!OwnIds(op) = {}
        \/ r = "ok" /\ CallStates[op] = "waiting" /\ op \in Sub
    BY <1>b, <2>2, CallStateValues DEF Service!OwnIds, Ids
  <2>6. Service!ReturnAlone(op, r)
    BY <1>b, <2>1, <2>2, <2>4, <2>5
    DEF Service!ReturnAlone, Service!Finish, Service!Becomes
  <2> QED
    BY <2>6, Zenon DEF Service!ServiceNext
<1> USE DEF endVars
<1>1. CASE Start(op)
  <2>1. /\ pc[op] = "idle" /\ Goto(op, "send") /\ UNCHANGED <<got, outcome, closing>>
    BY <1>1 DEF Start
  <2>2. CallStates[op] = "idle" /\ CallStates' = [CallStates EXCEPT ![op] = "called"]
    BY <2>1, StateMoves, CallStateValues
  <2>3. Service!Call(op)
    BY <2>1, <2>2 DEF Service!Call, Service!Becomes
  <2> QED
    BY <2>3, Zenon DEF Service!ServiceNext
<1>2. CASE Cancel(op)
  BY <1>0, <1>2 DEF Cancel
<1>3. CASE SendAborted(op)
  BY <1>b, <1>3 DEF SendAborted
<1>4. CASE CheckWriteConn(op)
  <2>1. \E l \in Locked : Goto(op, l)
    BY <1>4, Zenon DEF CheckWriteConn, Locked
  <2>2. pc[op] \in Locked /\ UNCHANGED <<got, outcome, closing>>
    BY <1>4 DEF CheckWriteConn, Locked
  <2> QED
    BY <1>a, <2>1, <2>2
<1>5. CASE Dial(op)
  <2>1. \E l \in Locked : Goto(op, l)
    BY <1>5, Zenon DEF Dial, Locked
  <2>2. pc[op] \in Locked /\ UNCHANGED <<got, outcome, closing>>
    BY <1>5 DEF Dial, Locked
  <2> QED
    BY <1>a, <2>1, <2>2
<1>6. CASE OfferRefused(op)
  <2>1. /\ "failed" \in Locked /\ pc[op] \in Locked /\ Goto(op, "failed")
        /\ UNCHANGED <<got, outcome, closing>>
    BY <1>6 DEF OfferRefused, Locked
  <2> QED
    BY <1>a, <2>1
<1>7. CASE Write(op)
  <2>1. \E l \in Locked : Goto(op, l)
    BY <1>7, Zenon DEF Write, Locked
  <2>2. pc[op] \in Locked /\ UNCHANGED <<got, outcome, closing>>
    BY <1>7 DEF Write, Locked
  <2> QED
    BY <1>a, <2>1, <2>2
<1>8. CASE Sent(op)
  <2>1. pc[op] \in Locked /\ pc[op] \notin {"idle", "done"} /\ UNCHANGED <<got, closing>>
    BY <1>8 DEF Sent, Locked
  <2>2. CASE Return(op, "err")
    BY <1>b, <2>1, <2>2
  <2>3. CASE Ids(op) = {} /\ Return(op, "ok")
    BY <1>b, <2>1, <2>3
  <2>4. CASE Goto(op, "wait") /\ UNCHANGED outcome
    <3>1. CallStates[op] = "sending" /\ CallStates' = [CallStates EXCEPT ![op] = "waiting"]
      BY <2>1, <2>4, StateMoves, CallStateValues
    <3>2. Service!AwaitAnswers(op)
      BY <2>1, <2>4, <3>1 DEF Service!AwaitAnswers, Service!Becomes
    <3> QED
      BY <3>2, Zenon DEF Service!ServiceNext
  <2> QED
    BY <1>8, <2>2, <2>3, <2>4, Zenon DEF Sent
<1>9. CASE WaitReceive(op)
  <2> DEFINE i == Head(resp[op])
  <2>1. /\ pc[op] = "wait" /\ resp[op] # <<>> /\ UNCHANGED closing
        /\ got' = [got EXCEPT ![op] = Append(@, i)]
    BY <1>9 DEF WaitReceive
  <2>2. i \in Ids(op) /\ \A x \in DOMAIN got[op] : got[op][x] # i
    BY <2>1, FrontIsNew
  <2>3. i \in Service!OwnIds(op) /\ i \in Id
    BY <2>2 DEF Service!OwnIds, Ids
  <2>4. CallStates[op] = "waiting"
    BY <2>1, CallStateValues DEF CallStates
  <2>5. ASSUME Return(op, "err") \/ Return(op, "ok")
        PROVE  CallStates' = [CallStates EXCEPT ![op] = "done"]
    BY <2>5, StateMoves, CallStateValues DEF Return
  <2>6. CASE Return(op, "err")
    <3>1. Service!Finish(op, "err")
      BY <2>5, <2>6 DEF Service!Finish, Service!Becomes, Return
    <3>2. Service!Receive(op, i)
      BY <2>1, <2>2, <2>3, <2>4, <3>1, Zenon DEF Service!Receive
    <3> QED
      BY <2>3, <3>2, Zenon DEF Service!ServiceNext
  <2>7. CASE Len(got[op]) + 1 = Size(op) /\ Return(op, "ok")
    <3>1. Service!Finish(op, "ok")
      BY <2>5, <2>7 DEF Service!Finish, Service!Becomes, Return
    <3>2. got'[op] = Append(got[op], i)
      BY <2>1 DEF TypeInv, TypeOK
    <3>3. Service!Complete(op, got'[op])
      BY <2>1, <2>7, <3>2, LastCompletes, Zenon DEF Service!Complete, Service!OwnIds, Ids
    <3>4. Service!Receive(op, i)
      BY <2>1, <2>2, <2>3, <2>4, <3>1, <3>3, Zenon DEF Service!Receive
    <3> QED
      BY <2>3, <3>4, Zenon DEF Service!ServiceNext
  <2>8. CASE UNCHANGED <<pc, outcome>>
    <3>1. UNCHANGED <<CallStates, outcome>>
      BY <2>8 DEF CallStates
    <3>2. Service!Receive(op, i)
      BY <2>1, <2>2, <2>3, <2>4, <3>1, Zenon DEF Service!Receive
    <3> QED
      BY <2>3, <3>2, Zenon DEF Service!ServiceNext
  <2> HIDE DEF i
  <2> QED
    BY <1>9, <2>6, <2>7, <2>8, Zenon DEF WaitReceive
<1>10. CASE WaitClosed(op)
  <2>1. /\ pc[op] = "wait" /\ op \in respClosed /\ UNCHANGED <<got, closing>>
        /\ Return(op, IF op \in opErr THEN "err" ELSE "ok")
    BY <1>10, Zenon DEF WaitClosed
  <2>2. op \in opErr \/ op \in Sub
    BY <2>1 DEF ClosedMeansError
  <2>3. CASE op \in opErr
    BY <1>b, <2>1, <2>3
  <2>4. CASE op \notin opErr
    BY <1>b, <2>1, <2>2, <2>4
  <2> QED
    BY <2>3, <2>4
<1>11. CASE WaitCtxDone(op)
  <2>1. /\ pc[op] = "wait" /\ Goto(op, "giveup") /\ UNCHANGED <<got, outcome, closing>>
    BY <1>11 DEF WaitCtxDone
  <2>2. CallStates[op] = "waiting" /\ CallStates' = [CallStates EXCEPT ![op] = "waiting"]
    BY <2>1, StateMoves, CallStateValues
  <2>3. CallStates' = CallStates
    BY <2>2, Zenon DEF CallStates
  <2> QED
    BY <2>1, <2>3 DEF Service!serviceVars
<1>12. CASE GiveUpClosing(op)
  BY <1>b, <1>12 DEF GiveUpClosing
<1> HIDE DEF Step
<1> QED
  BY <1>1, <1>2, <1>3, <1>4, <1>5, <1>6, <1>7, <1>8, <1>9, <1>10, <1>11, <1>12, Zenon
  DEF CallerStep, Step

\* Each step of the client is a step of the service, or none.
LEMMA StepImplements ==
  ASSUME TypeInv, LockInv, ClosingInv, AnswerInv, ClosedMeansError, [Next]_vars
  PROVE  [Service!ServiceNext]_(Service!serviceVars)
<1> DEFINE Step == [Service!ServiceNext]_(Service!serviceVars)
<1>0. ASSUME UNCHANGED <<pc, got, outcome, closing>> PROVE Step
  <2>1. UNCHANGED CallStates
    BY <1>0 DEF CallStates
  <2> QED
    BY <1>0, <2>1 DEF Service!serviceVars
<1> HIDE DEF Step
<1> USE DEF callVars, endVars
<1>1. ASSUME NEW op \in Op, Start(op) \/ Cancel(op) \/ CallerStep(op) PROVE Step
  BY <1>1, CallerImplements DEF Step
<1>2. ASSUME NEW k \in Conn, ReadStep(k) PROVE Step
  BY <1>0, <1>2, Zenon DEF ReadStep, ReadResponse, ReadBatch, ReadNotification, ReadFail,
     Offer
<1>3. ASSUME DispatchStep PROVE Step
  <2>1. UNCHANGED <<pc, got, outcome, closing>>
    BY <1>3, Zenon DEF DispatchStep, Shutdown, HandleResponse, HandleNotification, Handled,
       QuitSub, CloseCodec, DrainReadOp, DrainReadErr
  <2> QED
    BY <1>0, <2>1
<1>4. ASSUME NEW x \in Closer, DispatchClose(x) PROVE Step
  <2>1. ~closing /\ closing' = TRUE /\ UNCHANGED <<pc, got, outcome>>
    BY <1>4 DEF DispatchClose, ClosingInv
  <2>2. UNCHANGED CallStates
    BY <2>1 DEF CallStates
  <2>3. Service!CloseService
    BY <2>1, <2>2 DEF Service!CloseService
  <2> QED
    BY <2>3, Zenon DEF Step, Service!ServiceNext
<1>5. ASSUME NEW x \in Closer, CloseCall(x) \/ CloseReturn(x) PROVE Step
  BY <1>0, <1>5, Zenon DEF CloseCall, CloseReturn
<1>6. ASSUME NEW k \in Conn, DispatchReadOp(k) \/ DispatchReadErr(k) PROVE Step
  BY <1>0, <1>6, Zenon DEF DispatchReadOp, DispatchReadErr
<1>7. ASSUME NEW op \in Op, DispatchReconnected(op) PROVE Step
  <2>1. /\ pc[op] = "offer" /\ Goto(op, "write") /\ UNCHANGED <<got, outcome, closing>>
    BY <1>7 DEF DispatchReconnected
  <2>2. CallStates[op] = "sending" /\ CallStates' = [CallStates EXCEPT ![op] = "sending"]
    BY <2>1, StateMoves, CallStateValues DEF Locked
  <2>3. CallStates' = CallStates
    BY <2>2, Zenon DEF CallStates
  <2> QED
    BY <2>1, <2>3 DEF Step, Service!serviceVars
<1>8. ASSUME NEW op \in Op, ReqInit(op) PROVE Step
  <2>1. /\ dpc = "select" /\ lastOp = NoOp /\ pc[op] = "send" /\ Goto(op, "check")
        /\ UNCHANGED <<got, outcome, closing>>
    BY <1>8 DEF ReqInit
  <2>2. CallStates[op] = "called" /\ CallStates' = [CallStates EXCEPT ![op] = "sending"]
    BY <2>1, StateMoves, CallStateValues DEF Locked
  <2>3. ~closing /\ \A p \in Op : CallStates[p] # "sending"
    BY <2>1, NoSender DEF ClosingInv
  <2>4. Service!Accept(op)
    BY <2>1, <2>2, <2>3 DEF Service!Accept, Service!Becomes
  <2> QED
    BY <2>4, Zenon DEF Step, Service!ServiceNext
<1>9. ASSUME NEW op \in Op, ReqTimeout(op) PROVE Step
  <2>1. /\ pc[op] = "giveup" /\ Goto(op, "done")
        /\ outcome' = [outcome EXCEPT ![op] = "err"] /\ UNCHANGED <<got, closing>>
    BY <1>9 DEF ReqTimeout, Return
  <2>2. CallStates[op] = "waiting" /\ CallStates' = [CallStates EXCEPT ![op] = "done"]
    BY <2>1, StateMoves, CallStateValues
  <2>3. Service!ReturnAlone(op, "err")
    BY <2>1, <2>2 DEF Service!ReturnAlone, Service!Finish, Service!Becomes
  <2> QED
    BY <2>3, Zenon DEF Step, Service!ServiceNext
<1>10. ASSUME ReqSent PROVE Step
  BY <1>0, <1>10 DEF ReqSent
<1>11. ASSUME UNCHANGED vars PROVE Step
  BY <1>0, <1>11 DEF vars
<1>12. Step
  BY <1>1, <1>2, <1>3, <1>4, <1>5, <1>6, <1>7, <1>8, <1>9, <1>10, <1>11, Zenon DEF Next
<1> QED
  BY <1>12 DEF Step

\* For any requests and connections the client implements the service: what callers
\* see of dispatch, its lock, reconnects, late answers, timeouts and Close is a
\* client that takes one request after the other and hands out each answer once.
THEOREM ClientImplementsService == Spec => ServiceImplemented
<1>1. Init => Service!ServiceInit
  <2> SUFFICES ASSUME Init PROVE Service!ServiceInit
    OBVIOUS
  <2>1. \A op \in Op : CallState(pc[op]) = "idle"
    BY CallStateValues DEF Init
  <2>2. CallStates = [op \in Op |-> "idle"]
    BY <2>1 DEF CallStates
  <2> QED
    BY <2>2 DEF Init, Service!ServiceInit
<1>2. OutcomeInv => ClosedMeansError
  BY DEF OutcomeInv
<1>3. Init => OutcomeInv
  BY DEF Init, OutcomeInv, ClosedMeansError
<1> QED
  BY <1>1, <1>2, <1>3, StepImplements, OutcomeInvNext, AnswerInvInit, AnswerInvNext,
     FreshInvInit, FreshInvNext, RegInvNext, ClosingInvNext, LockInvInit, LockInvNext,
     ReaderInvInit, ReaderInvNext, TypeInvInit, TypeInvNext, PTL
  DEF Spec, ServiceImplemented, Service!ServiceSpec

=============================================================================
