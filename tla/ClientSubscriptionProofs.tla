----------------------- MODULE ClientSubscriptionProofs -----------------------
(***************************************************************************)
(* Proofs about ClientSubscription, for any number of subscriptions and of  *)
(* goroutines in Unsubscribe and any buffer size.                          *)
(***************************************************************************)
EXTENDS ClientSubscription, SequenceTheorems, TLAPS

\* A step that one subscription takes, as SubNext has it.
Deliveries(s) == passed[s] < MaxNotif /\ fpc[s] # "none" /\ Deliver(s, passed[s] + 1)
HandlerQuits(s) == fpc[s] # "none" /\ \E err \in {"nil", "err"} : QuitByHandler(s, err)

\* Updating a function at one point keeps its range.
LEMMA UpdateType ==
  ASSUME NEW D, NEW R, NEW f \in [D -> R], NEW d, NEW r \in R
  PROVE  [f EXCEPT ![d] = r] \in [D -> R]
  BY Zenon

\* Every step of a subscription keeps the types.
LEMMA SubTypeNext ==
  ASSUME SubTypeOK, [SubNext]_subVars
  PROVE  SubTypeOK'
<1> USE SubscriptionAssumption DEF SubTypeOK, subVars, fwdVars, onceVars, errVars, userVars,
      InUnsubscribe
<1>1. ASSUME NEW s \in Sub, Establish(s) PROVE SubTypeOK'
  BY <1>1 DEF Establish
<1>2. ASSUME NEW s \in Sub, Deliveries(s) PROVE SubTypeOK'
  <2>1. passed[s] + 1 \in Nat
    OBVIOUS
  <2>2. buf' \in [Sub -> Seq(Nat)]
    <3>1. \/ buf' = [buf EXCEPT ![s] = Append(buf[s], passed[s] + 1)]
          \/ buf' = [buf EXCEPT ![s] = <<>>]
          \/ buf' = buf
      BY <1>2 DEF Deliveries, Deliver
    <3>2. buf[s] \in Seq(Nat) /\ Append(buf[s], passed[s] + 1) \in Seq(Nat)
      BY <2>1
    <3>3. <<>> \in Seq(Nat)
      OBVIOUS
    <3> QED
      BY <3>1, <3>2, <3>3, Zenon
  <2>3. fpc' \in [Sub -> {"none", "run", "stopped", "failed", "inOnce", "done"}]
    BY <1>2, Zenon DEF Deliveries, Deliver
  <2> QED
    BY <1>2, <2>1, <2>2, <2>3, Zenon DEF Deliveries, Deliver
<1>3. ASSUME NEW s \in Sub, HandlerQuits(s) PROVE SubTypeOK'
  <2>1. PICK err \in {"nil", "err"} : QuitByHandler(s, err)
    BY <1>3 DEF HandlerQuits
  <2>2. CASE once[s] = "free"
    <3>1. errCh[s] \in Seq({"nil", "err"})
      OBVIOUS
    <3>2. Append(errCh[s], err) \in Seq({"nil", "err"})
      BY <2>1, <3>1
    <3>3. errCh' \in [Sub -> Seq({"nil", "err"})]
      <4>1. errCh' = [errCh EXCEPT ![s] = Append(errCh[s], err)]
        BY <2>1, <2>2 DEF QuitByHandler
      <4> QED
        BY <3>2, <4>1, UpdateType, Zenon
    <3>4. once' \in [Sub -> {"free", "done", "forward"} \cup User] /\ quit' \subseteq Sub
      BY <2>1, <2>2, Zenon DEF QuitByHandler
    <3> QED
      BY <2>1, <3>3, <3>4 DEF QuitByHandler
  <2>3. CASE once[s] = "done"
    BY <2>1, <2>3 DEF QuitByHandler
  <2> QED
    BY <2>1, <2>2, <2>3 DEF QuitByHandler
<1>4. ASSUME NEW s \in Sub, ForwardSend(s) PROVE SubTypeOK'
  <2>1. buf[s] \in Seq(Nat) /\ rcvd[s] \in Seq(Nat) /\ buf[s] # <<>>
    BY <1>4 DEF ForwardSend
  <2>2. Tail(buf[s]) \in Seq(Nat) /\ Append(rcvd[s], Head(buf[s])) \in Seq(Nat)
    BY <2>1
  <2>3. CASE s \notin chanClosed
    <3>1. rcvd' \in [Sub -> Seq(Nat)] /\ buf' \in [Sub -> Seq(Nat)]
      <4>1. /\ rcvd' = [rcvd EXCEPT ![s] = Append(rcvd[s], Head(buf[s]))]
            /\ buf' = [buf EXCEPT ![s] = Tail(buf[s])]
        BY <1>4, <2>3 DEF ForwardSend
      <4> QED
        BY <2>2, <4>1, UpdateType, Zenon
    <3>2. UNCHANGED <<fpc, passed, onceVars, errVars, userVars>>
      BY <1>4, <2>3 DEF ForwardSend
    <3> QED
      BY <3>1, <3>2, Zenon
  <2>4. CASE s \in chanClosed
    <3>1. buf' = [buf EXCEPT ![s] = <<>>] /\ fpc' = [fpc EXCEPT ![s] = "done"]
      BY <1>4, <2>4 DEF ForwardSend
    <3>2. buf' \in [Sub -> Seq(Nat)]
      BY <3>1
    <3>3. fpc' \in [Sub -> {"none", "run", "stopped", "failed", "inOnce", "done"}]
      BY <3>1
    <3>4. panicked' \subseteq Sub /\ UNCHANGED <<rcvd, passed, onceVars, errVars, chanClosed, upc>>
      BY <1>4, <2>4 DEF ForwardSend
    <3> QED
      BY <3>2, <3>3, <3>4
  <2> QED
    BY <2>3, <2>4, Zenon
<1>5. ASSUME NEW s \in Sub, ForwardStep(s) PROVE SubTypeOK'
  <2>1. CASE ForwardQuit(s)
    BY <2>1 DEF ForwardQuit
  <2>2. CASE ForwardQuitsOnce(s)
    BY <2>2 DEF ForwardQuitsOnce, EnterOnce
  <2>3. CASE ForwardEnds(s)
    BY <2>3 DEF ForwardEnds
  <2>4. CASE ForwardReports(s)
    BY <2>4 DEF ForwardReports
  <2> QED
    BY <1>5, <2>1, <2>2, <2>3, <2>4, Zenon DEF ForwardStep
<1>6. ASSUME NEW s \in Sub, UnsubscribeReturns(s) PROVE SubTypeOK'
  BY <1>6 DEF UnsubscribeReturns
<1>7. ASSUME NEW s \in Sub, NEW u \in User, Unsubscribe(s, u) \/ UserStep(s, u)
      PROVE  SubTypeOK'
  <2> USE DEF UserGoto
  <2>1. CASE Unsubscribe(s, u)
    BY <2>1 DEF Unsubscribe
  <2>2. CASE UserQuitsOnce(s, u)
    BY <2>2 DEF UserQuitsOnce, EnterOnce
  <2>3. CASE UserLeavesOnce(s, u)
    BY <2>3 DEF UserLeavesOnce
  <2>4. CASE UserClosesErr(s, u)
    BY <2>4 DEF UserClosesErr
  <2>5. CASE UserClosesChan(s, u)
    BY <2>5 DEF UserClosesChan
  <2> QED
    BY <1>7, <2>1, <2>2, <2>3, <2>4, <2>5, Zenon DEF UserStep
<1>8. CASE UNCHANGED subVars
  BY <1>8
<1> QED
  BY <1>1, <1>2, <1>3, <1>4, <1>5, <1>6, <1>7, <1>8, Zenon DEF SubNext, Deliveries, HandlerQuits

\* newClientSubscription creates well-typed state.
LEMMA SubTypeInit == SubInit => SubTypeOK
  BY DEF SubInit, SubTypeOK

\* Type correctness of a subscription.
THEOREM SubTypeCorrect == SubSpec => []SubTypeOK
  BY SubTypeInit, SubTypeNext, PTL DEF SubSpec

-----------------------------------------------------------------------------
(* quitOnce and the error channel. *)

\* The state of quitOnce says who is in its body.
OnceIsExclusive ==
  \A s \in Sub :
    /\ fpc[s] = "inOnce" <=> once[s] = "forward"
    /\ \A u \in User : upc[s][u] = "inOnce" <=> once[s] = u

\* The state of quitOnce says who is in its body, and a goroutine gets as far as
\* closing the error channel only when the body has been run.
OnceInv ==
  /\ OnceIsExclusive
  /\ ErrSendIsSafe
  /\ EndIsReported
  /\ \A s \in Sub :
       /\ fpc[s] = "none" => once[s] = "free" /\ \A u \in User : upc[s][u] = "idle"
       /\ s \in errClosed => once[s] = "done"
       /\ \A u \in User : upc[s][u] \in {"closeErr", "closeChan", "done"} => once[s] = "done"

\* The first value sent on an empty channel.
LEMMA AppendToEmpty == \A q, e : q = <<>> => Append(q, e) = <<e>>
  OBVIOUS

\* quitOnce, the error channel and the goroutines stay consistent in every step.
LEMMA OnceInvNext ==
  ASSUME SubTypeOK, OnceInv, [SubNext]_subVars
  PROVE  OnceInv'
<1> USE SubscriptionAssumption DEF OnceInv, OnceIsExclusive, ErrSendIsSafe, EndIsReported,
      fwdVars, onceVars, errVars, userVars
<1>0. ASSUME UNCHANGED <<once, errVars, upc>>,
             \A s \in Sub : /\ fpc'[s] = "inOnce" <=> fpc[s] = "inOnce"
                            /\ fpc'[s] = "none" => fpc[s] = "none"
      PROVE  OnceInv'
  BY <1>0
<1>1. ASSUME NEW s \in Sub, Establish(s) PROVE OnceInv'
  BY <1>0, <1>1 DEF Establish, SubTypeOK
<1>2. ASSUME NEW s \in Sub, Deliveries(s) PROVE OnceInv'
  BY <1>0, <1>2 DEF Deliveries, Deliver, SubTypeOK
<1>3. ASSUME NEW s \in Sub, HandlerQuits(s) PROVE OnceInv'
  <2>1. PICK err \in {"nil", "err"} : QuitByHandler(s, err)
    BY <1>3 DEF HandlerQuits
  <2>2. CASE once[s] = "free"
    <3>1. errCh[s] = <<>> /\ Append(errCh[s], err) = <<err>> /\ fpc[s] # "none"
      BY <1>3, <2>2, AppendToEmpty DEF HandlerQuits
    <3>2. errCh' = [errCh EXCEPT ![s] = <<err>>] /\ once' = [once EXCEPT ![s] = "done"]
      BY <2>1, <2>2, <3>1 DEF QuitByHandler
    <3>3. UNCHANGED <<fpc, errClosed, upc>>
      BY <2>1 DEF QuitByHandler
    <3>4. Len(<<err>>) <= 1 /\ <<err>> # <<>>
      OBVIOUS
    <3> QED
      BY <2>2, <3>1, <3>2, <3>3, <3>4 DEF SubTypeOK
  <2>3. CASE once[s] = "done"
    BY <1>0, <2>1, <2>3 DEF QuitByHandler
  <2> QED
    BY <2>1, <2>2, <2>3 DEF QuitByHandler
<1>4. ASSUME NEW s \in Sub, ForwardSend(s) PROVE OnceInv'
  BY <1>0, <1>4 DEF ForwardSend, SubTypeOK
<1>5. ASSUME NEW s \in Sub, ForwardQuit(s) \/ ForwardEnds(s) PROVE OnceInv'
  BY <1>0, <1>5 DEF ForwardQuit, ForwardEnds, SubTypeOK
<1>6. ASSUME NEW s \in Sub, ForwardQuitsOnce(s) PROVE OnceInv'
  BY <1>6 DEF ForwardQuitsOnce, EnterOnce, SubTypeOK
<1>7. ASSUME NEW s \in Sub, ForwardReports(s) PROVE OnceInv'
  <2>1. once[s] = "forward" /\ errCh[s] = <<>> /\ Append(errCh[s], "err") = <<"err">>
    BY <1>7, AppendToEmpty DEF ForwardReports
  <2>2. /\ errCh' = [errCh EXCEPT ![s] = <<"err">>] /\ once' = [once EXCEPT ![s] = "done"]
        /\ fpc' = [fpc EXCEPT ![s] = "done"]
    BY <1>7, <2>1 DEF ForwardReports
  <2>3. UNCHANGED <<errClosed, upc>>
    BY <1>7 DEF ForwardReports
  <2>4. Len(<<"err">>) <= 1 /\ <<"err">> # <<>>
    OBVIOUS
  <2> QED
    BY <2>1, <2>2, <2>3, <2>4 DEF SubTypeOK
<1>8. ASSUME NEW s \in Sub, UnsubscribeReturns(s) PROVE OnceInv'
  BY <1>0, <1>8 DEF UnsubscribeReturns
<1>9. ASSUME NEW s \in Sub, NEW u \in User, Unsubscribe(s, u) \/ UserStep(s, u)
      PROVE  OnceInv'
  <2> USE DEF UserGoto, SubTypeOK
  <2>1. CASE Unsubscribe(s, u)
    BY <2>1 DEF Unsubscribe
  <2>2. CASE UserQuitsOnce(s, u)
    <3>1. /\ once[s] = "free" /\ upc[s][u] = "once"
          /\ once' = [once EXCEPT ![s] = u] /\ upc' = [upc EXCEPT ![s][u] = "inOnce"]
          /\ UNCHANGED <<fpc, errVars>>
      BY <2>2 DEF UserQuitsOnce, EnterOnce
    <3>2. OnceIsExclusive'
      BY <3>1
    <3>3. ErrSendIsSafe' /\ EndIsReported'
      BY <3>1
    <3>4. fpc[s] # "none"
      BY <3>1
    <3> QED
      BY <3>1, <3>2, <3>3, <3>4
  <2>3. CASE UserLeavesOnce(s, u)
    BY <2>3 DEF UserLeavesOnce
  <2>4. CASE UserClosesErr(s, u)
    BY <2>4 DEF UserClosesErr
  <2>5. CASE UserClosesChan(s, u)
    BY <2>5 DEF UserClosesChan
  <2> QED
    BY <1>9, <2>1, <2>2, <2>3, <2>4, <2>5 DEF UserStep
<1>10. CASE UNCHANGED subVars
  BY <1>0, <1>10 DEF subVars
<1> QED
  BY <1>1, <1>2, <1>3, <1>4, <1>5, <1>6, <1>7, <1>8, <1>9, <1>10
  DEF SubNext, ForwardStep, Deliveries, HandlerQuits

\* quitOnce is free and nothing has been sent in the beginning.
LEMMA OnceInvInit == SubInit => OnceInv
  BY SubscriptionAssumption
  DEF SubInit, OnceInv, OnceIsExclusive, ErrSendIsSafe, EndIsReported

\* However Unsubscribe, an overflow and the end of the connection race, the error
\* channel gets at most one value, while it is open and has room for it.
THEOREM ErrorChannelSafe == SubSpec => []ErrSendIsSafe
<1>1. OnceInv => ErrSendIsSafe
  BY DEF OnceInv
<1> QED
  BY <1>1, OnceInvInit, OnceInvNext, SubTypeInit, SubTypeNext, PTL DEF SubSpec

\* A subscription that ended although nobody called Unsubscribe has its reason in
\* the error channel.
THEOREM EndReported == SubSpec => []EndIsReported
<1>1. OnceInv => EndIsReported
  BY DEF OnceInv
<1> QED
  BY <1>1, OnceInvInit, OnceInvNext, SubTypeInit, SubTypeNext, PTL DEF SubSpec

\* Whoever ran the body of quitOnce has waited for the unsubscribe request, or was
\* the handler, which says why.
ToldInv == \A s \in Sub : once[s] = "done" => unsub[s] = "done" \/ errCh[s] # <<>>

\* quitOnce is done only when the server was told or the handler ended it.
LEMMA ToldInvNext ==
  ASSUME SubTypeOK, OnceInv, ToldInv, [SubNext]_subVars
  PROVE  ToldInv'
<1> USE SubscriptionAssumption DEF ToldInv, fwdVars, onceVars, errVars, userVars
<1>0. ASSUME UNCHANGED <<once, unsub, errCh>> PROVE ToldInv'
  BY <1>0, Zenon
<1>1. ASSUME NEW s \in Sub, Establish(s) \/ Deliveries(s) \/ ForwardSend(s) PROVE ToldInv'
  <2>1. UNCHANGED <<once, unsub, errCh>>
    BY <1>1, Zenon DEF Establish, Deliveries, Deliver, ForwardSend
  <2> QED
    BY <1>0, <2>1, Zenon
<1>2. ASSUME NEW s \in Sub, HandlerQuits(s) PROVE ToldInv'
  <2>1. PICK err \in {"nil", "err"} : QuitByHandler(s, err)
    BY <1>2 DEF HandlerQuits
  <2>2. CASE once[s] = "free"
    <3>1. errCh[s] = <<>> /\ Append(errCh[s], err) = <<err>>
      BY <2>2, AppendToEmpty DEF OnceInv, ErrSendIsSafe
    <3>2. errCh' = [errCh EXCEPT ![s] = <<err>>] /\ once' = [once EXCEPT ![s] = "done"]
      BY <2>1, <2>2, <3>1 DEF QuitByHandler
    <3>3. UNCHANGED unsub
      BY <2>1 DEF QuitByHandler
    <3>4. <<err>> # <<>>
      OBVIOUS
    <3> QED
      BY <3>2, <3>3, <3>4 DEF SubTypeOK
  <2>3. CASE once[s] = "done"
    BY <1>0, <2>1, <2>3 DEF QuitByHandler
  <2> QED
    BY <2>1, <2>2, <2>3 DEF QuitByHandler
<1>3. ASSUME NEW s \in Sub, ForwardQuit(s) \/ ForwardEnds(s) PROVE ToldInv'
  <2>1. UNCHANGED <<once, unsub, errCh>>
    BY <1>3, Zenon DEF ForwardQuit, ForwardEnds
  <2> QED
    BY <1>0, <2>1, Zenon
<1>4. ASSUME NEW s \in Sub, ForwardQuitsOnce(s) PROVE ToldInv'
  BY <1>4 DEF ForwardQuitsOnce, EnterOnce, SubTypeOK
<1>5. ASSUME NEW s \in Sub, ForwardReports(s) PROVE ToldInv'
  <2>1. unsub[s] = "done" /\ UNCHANGED unsub /\ once' = [once EXCEPT ![s] = "done"]
    BY <1>5 DEF ForwardReports
  <2>2. \A t \in Sub \ {s} : once'[t] = once[t] /\ errCh'[t] = errCh[t]
    BY <1>5 DEF ForwardReports, SubTypeOK
  <2> QED
    BY <2>1, <2>2, Zenon
<1>6. ASSUME NEW s \in Sub, UnsubscribeReturns(s) PROVE ToldInv'
  BY <1>6 DEF UnsubscribeReturns, SubTypeOK
<1>7. ASSUME NEW s \in Sub, NEW u \in User, Unsubscribe(s, u) \/ UserStep(s, u)
      PROVE  ToldInv'
  <2>1. CASE Unsubscribe(s, u) \/ UserClosesErr(s, u) \/ UserClosesChan(s, u)
    <3>1. UNCHANGED <<once, unsub, errCh>>
      BY <2>1, Zenon DEF Unsubscribe, UserClosesErr, UserClosesChan
    <3> QED
      BY <1>0, <3>1, Zenon
  <2>2. CASE UserQuitsOnce(s, u)
    BY <2>2 DEF UserQuitsOnce, EnterOnce, SubTypeOK
  <2>3. CASE UserLeavesOnce(s, u)
    BY <2>3 DEF UserLeavesOnce, SubTypeOK
  <2> QED
    BY <1>7, <2>1, <2>2, <2>3, Zenon DEF UserStep
<1>8. CASE UNCHANGED subVars
  BY <1>0, <1>8 DEF subVars
<1> QED
  BY <1>1, <1>2, <1>3, <1>4, <1>5, <1>6, <1>7, <1>8
  DEF SubNext, ForwardStep, Deliveries, HandlerQuits

\* Nobody has run the body of quitOnce in the beginning.
LEMMA ToldInvInit == SubInit => ToldInv
  BY DEF SubInit, ToldInv

\* However many goroutines call Unsubscribe, and whoever else ends the subscription,
\* none of the calls is through with quitOnce before the unsubscribe request has
\* returned, unless the handler ended the subscription.
THEOREM UnsubscribeToldServer == SubSpec => []ServerToldFirst
<1>1. OnceInv /\ ToldInv => ServerToldFirst
  BY DEF OnceInv, ToldInv, ServerToldFirst
<1> QED
  BY <1>1, OnceInvInit, OnceInvNext, ToldInvInit, ToldInvNext, SubTypeInit, SubTypeNext, PTL
  DEF SubSpec

-----------------------------------------------------------------------------
(* The order of notifications. *)

\* q is increasing and holds nothing that was not passed to deliver yet.
Increasing(q, last) ==
  /\ \A x \in 1..Len(q) : q[x] <= last
  /\ \A x, y \in 1..Len(q) : x < y => q[x] < q[y]

\* q holds everything that was passed to deliver.
Complete(q, last) == Len(q) = last /\ \A x \in 1..Len(q) : q[x] = x

OrderInv ==
  \A s \in Sub :
    /\ Increasing(Notified(s), passed[s])
    /\ fpc[s] \in {"none", "run"} /\ s \notin quit => Complete(Notified(s), passed[s])

\* A later notification may follow, and the next one completes.
LEMMA OrderAppend ==
  ASSUME NEW q \in Seq(Nat), NEW last \in Nat, Increasing(q, last)
  PROVE  /\ Increasing(q, last + 1)
         /\ Increasing(Append(q, last + 1), last + 1)
         /\ Complete(q, last) => Complete(Append(q, last + 1), last + 1)
<1>1. /\ Len(q) \in Nat /\ Len(Append(q, last + 1)) = Len(q) + 1
      /\ \A x \in 1..Len(q) : Append(q, last + 1)[x] = q[x] /\ q[x] \in Nat
      /\ Append(q, last + 1)[Len(q) + 1] = last + 1
  OBVIOUS
<1>2. Increasing(q, last + 1)
  BY <1>1 DEF Increasing
<1>3. Increasing(Append(q, last + 1), last + 1)
  <2> DEFINE a == Append(q, last + 1)
             n == Len(q)
  <2>1. /\ n \in Nat /\ Len(a) = n + 1 /\ a[n + 1] = last + 1
        /\ \A x \in 1..n : a[x] = q[x] /\ q[x] \in Nat /\ q[x] <= last
        /\ \A x, y \in 1..n : x < y => q[x] < q[y]
    BY <1>1 DEF Increasing
  <2> HIDE DEF a, n
  <2>2. \A x \in 1..(n + 1) : x \in 1..n \/ x = n + 1
    BY <2>1
  <2>3. \A x \in 1..(n + 1) : a[x] <= last + 1
    BY <2>1, <2>2
  <2>4. \A x, y \in 1..(n + 1) : x < y => x \in 1..n /\ (y \in 1..n \/ y = n + 1)
    BY <2>1
  <2>5. \A x, y \in 1..(n + 1) : x < y => a[x] < a[y]
    <3>1. \A x \in 1..n : a[x] < last + 1
      BY <2>1
    <3> QED
      BY <2>1, <2>4, <3>1, Zenon
  <2>6. Increasing(a, last + 1)
    BY <2>1, <2>3, <2>5, Zenon DEF Increasing
  <2> QED
    BY <2>6 DEF a
<1>4. Complete(q, last) => Complete(Append(q, last + 1), last + 1)
  BY <1>1 DEF Complete
<1> QED
  BY <1>2, <1>3, <1>4

\* What has been received stays in order when the buffer is emptied.
LEMMA OrderPrefix ==
  ASSUME NEW r \in Seq(Nat), NEW b \in Seq(Nat), NEW last \in Nat,
         Increasing(r \o b, last)
  PROVE  Increasing(r \o <<>>, last)
<1>1. r \o <<>> = r
  BY ConcatEmptySeq
<1>2. /\ Len(r) \in Nat /\ Len(b) \in Nat /\ Len(r \o b) = Len(r) + Len(b)
      /\ \A x \in 1..Len(r) : (r \o b)[x] = r[x]
  OBVIOUS
<1>3. Increasing(r, last)
  <2>1. PICK q : q = r \o b
    BY Zenon
  <2>2. /\ \A x \in 1..Len(r) : x \in 1..Len(q)
        /\ \A x \in 1..Len(r) : q[x] = r[x]
    BY <1>2, <2>1
  <2>3. Increasing(q, last)
    BY <2>1, Zenon
  <2> QED
    BY <2>2, <2>3, Zenon DEF Increasing
<1> QED
  BY <1>1, <1>3

\* Queues are joined in any order.
LEMMA Associative ==
  \A a, b, c \in Seq(Nat) : (a \o b) \o c = a \o (b \o c)
  BY ConcatAssociative

\* Of a queue the part r has been received and the part b is still buffered:
\* appending to b appends to the queue, and receiving the front of b leaves the
\* queue as it is.
LEMMA Queues ==
  \A r, b \in Seq(Nat) :
    /\ \A e \in Nat : r \o Append(b, e) = Append(r \o b, e)
    /\ b # <<>> => Append(r, Head(b)) \o Tail(b) = r \o b
<1> SUFFICES ASSUME NEW r \in Seq(Nat), NEW b \in Seq(Nat)
             PROVE  /\ \A e \in Nat : r \o Append(b, e) = Append(r \o b, e)
                    /\ b # <<>> => Append(r, Head(b)) \o Tail(b) = r \o b
  BY Zenon
<1>1. ASSUME NEW e \in Nat PROVE r \o Append(b, e) = Append(r \o b, e)
  <2>1. <<e>> \in Seq(Nat) /\ r \o b \in Seq(Nat)
    OBVIOUS
  <2>2. Append(b, e) = b \o <<e>> /\ Append(r \o b, e) = (r \o b) \o <<e>>
    BY <2>1, AppendIsConcat
  <2> QED
    BY <2>1, <2>2, Associative
<1>2. ASSUME b # <<>> PROVE Append(r, Head(b)) \o Tail(b) = r \o b
  <2>1. Head(b) \in Nat /\ Tail(b) \in Seq(Nat) /\ <<Head(b)>> \in Seq(Nat)
    BY <1>2
  <2>2. b = <<Head(b)>> \o Tail(b)
    BY <1>2
  <2>3. Append(r, Head(b)) = r \o <<Head(b)>>
    BY <2>1, AppendIsConcat
  <2>4. (r \o <<Head(b)>>) \o Tail(b) = r \o (<<Head(b)>> \o Tail(b))
    <3>1. PICK x \in Seq(Nat), y \in Seq(Nat) : x = <<Head(b)>> /\ y = Tail(b)
      BY <2>1, Zenon
    <3>2. (r \o x) \o y = r \o (x \o y)
      BY <3>1, Associative
    <3> QED
      BY <3>1, <3>2, Zenon
  <2> QED
    BY <2>2, <2>3, <2>4, Zenon
<1> QED
  BY <1>1, <1>2, Zenon

\* deliver, forward and the end of a subscription keep the order of the queue.
LEMMA OrderInvNext ==
  ASSUME SubTypeOK, OrderInv, [SubNext]_subVars
  PROVE  OrderInv'
<1> USE DEF Notified, fwdVars, onceVars, errVars, userVars
<1>0. ASSUME UNCHANGED <<buf, rcvd, passed>>, quit \subseteq quit',
             \A s \in Sub : fpc'[s] \in {"none", "run"} => fpc[s] \in {"none", "run"}
      PROVE  OrderInv'
  BY <1>0 DEF OrderInv
\* Only subscription s changes its queue, and it stays in order.
<1>1. ASSUME NEW s \in Sub, quit \subseteq quit',
             \A t \in Sub \ {s} : /\ buf'[t] = buf[t] /\ rcvd'[t] = rcvd[t]
                                 /\ passed'[t] = passed[t] /\ fpc'[t] = fpc[t],
             Increasing(rcvd'[s] \o buf'[s], passed'[s]),
             fpc'[s] \in {"none", "run"} /\ s \notin quit' =>
               Complete(rcvd'[s] \o buf'[s], passed'[s])
      PROVE  OrderInv'
  BY <1>1 DEF OrderInv
<1>2. ASSUME NEW s \in Sub, Establish(s) PROVE OrderInv'
  BY <1>0, <1>2 DEF Establish, SubTypeOK
<1>3. ASSUME NEW s \in Sub, Deliveries(s) PROVE OrderInv'
  <2> DEFINE n == passed[s]
  <2>1. /\ n \in Nat /\ rcvd[s] \in Seq(Nat) /\ buf[s] \in Seq(Nat) /\ n + 1 \in Nat
        /\ rcvd[s] \o buf[s] \in Seq(Nat)
        /\ Increasing(rcvd[s] \o buf[s], n)
    BY DEF SubTypeOK, OrderInv
  <2>2. /\ Increasing(rcvd[s] \o buf[s], n + 1)
        /\ Increasing(Append(rcvd[s] \o buf[s], n + 1), n + 1)
        /\ Complete(rcvd[s] \o buf[s], n) => Complete(Append(rcvd[s] \o buf[s], n + 1), n + 1)
    BY <2>1, OrderAppend, Zenon
  <2>3. rcvd[s] \o Append(buf[s], n + 1) = Append(rcvd[s] \o buf[s], n + 1)
    BY <2>1, Queues, Zenon
  <2>4. Increasing(rcvd[s] \o <<>>, n + 1)
    BY <2>1, <2>2, OrderPrefix
  <2>5. /\ passed' = [passed EXCEPT ![s] = n + 1]
        /\ UNCHANGED <<rcvd, quit>>
        /\ \/ fpc[s] = "run" /\ buf' = [buf EXCEPT ![s] = Append(buf[s], n + 1)] /\ fpc' = fpc
           \/ buf' = [buf EXCEPT ![s] = <<>>] /\ fpc' = [fpc EXCEPT ![s] = "failed"]
           \/ s \in quit /\ UNCHANGED <<buf, fpc>>
    BY <1>3 DEF Deliveries, Deliver
  <2> HIDE DEF n
  <2>6. passed'[s] = n + 1 /\ \A t \in Sub \ {s} : passed'[t] = passed[t]
    BY <2>5 DEF SubTypeOK
  <2>7. CASE fpc[s] = "run" /\ buf' = [buf EXCEPT ![s] = Append(buf[s], n + 1)] /\ fpc' = fpc
    <3>1. buf'[s] = Append(buf[s], n + 1) /\ \A t \in Sub \ {s} : buf'[t] = buf[t]
      BY <2>7 DEF SubTypeOK
    <3>2. s \notin quit => Complete(rcvd[s] \o buf[s], n)
      BY <2>7 DEF OrderInv, n
    <3>3. rcvd'[s] \o buf'[s] = Append(rcvd[s] \o buf[s], n + 1)
      BY <2>3, <2>5, <3>1, Zenon
    <3>4. /\ Increasing(rcvd'[s] \o buf'[s], passed'[s])
          /\ s \notin quit => Complete(rcvd'[s] \o buf'[s], passed'[s])
      BY <2>2, <2>6, <3>2, <3>3, Zenon
    <3> QED
      BY <1>1, <2>5, <2>6, <2>7, <3>1, <3>4
  <2>8. CASE buf' = [buf EXCEPT ![s] = <<>>] /\ fpc' = [fpc EXCEPT ![s] = "failed"]
    <3>1. /\ buf'[s] = <<>> /\ fpc'[s] = "failed"
          /\ \A t \in Sub \ {s} : buf'[t] = buf[t] /\ fpc'[t] = fpc[t]
      BY <2>8 DEF SubTypeOK
    <3> QED
      BY <1>1, <2>4, <2>5, <2>6, <3>1, Zenon
  <2>9. CASE s \in quit /\ UNCHANGED <<buf, fpc>>
    BY <1>1, <2>2, <2>5, <2>6, <2>9
  <2> QED
    BY <2>5, <2>7, <2>8, <2>9
<1>4. ASSUME NEW s \in Sub, HandlerQuits(s) PROVE OrderInv'
  BY <1>0, <1>4 DEF HandlerQuits, QuitByHandler
<1>5. ASSUME NEW s \in Sub, ForwardSend(s) PROVE OrderInv'
  <2>1. /\ passed[s] \in Nat /\ rcvd[s] \in Seq(Nat) /\ buf[s] \in Seq(Nat)
        /\ Increasing(rcvd[s] \o buf[s], passed[s])
    BY DEF SubTypeOK, OrderInv
  <2>2. CASE s \notin chanClosed
    <3>1. /\ fpc[s] = "run" /\ buf[s] # <<>> /\ UNCHANGED <<fpc, passed, quit>>
          /\ rcvd' = [rcvd EXCEPT ![s] = Append(rcvd[s], Head(buf[s]))]
          /\ buf' = [buf EXCEPT ![s] = Tail(buf[s])]
      BY <1>5, <2>2 DEF ForwardSend
    <3>2. /\ rcvd'[s] = Append(rcvd[s], Head(buf[s])) /\ buf'[s] = Tail(buf[s])
          /\ \A t \in Sub \ {s} : buf'[t] = buf[t] /\ rcvd'[t] = rcvd[t]
      BY <3>1 DEF SubTypeOK
    <3>3. rcvd'[s] \o buf'[s] = rcvd[s] \o buf[s]
      BY <2>1, <3>1, <3>2, Queues, Zenon
    <3>4. s \notin quit => Complete(rcvd[s] \o buf[s], passed[s])
      BY <3>1 DEF OrderInv
    <3> QED
      BY <1>1, <2>1, <3>1, <3>2, <3>3, <3>4, Zenon
  <2>3. CASE s \in chanClosed
    <3>1. /\ UNCHANGED <<passed, quit, rcvd>>
          /\ buf' = [buf EXCEPT ![s] = <<>>] /\ fpc' = [fpc EXCEPT ![s] = "done"]
      BY <1>5, <2>3 DEF ForwardSend
    <3>2. /\ buf'[s] = <<>> /\ fpc'[s] = "done"
          /\ \A t \in Sub \ {s} : buf'[t] = buf[t] /\ fpc'[t] = fpc[t]
      BY <3>1 DEF SubTypeOK
    <3>3. Increasing(rcvd[s] \o <<>>, passed[s])
      BY <2>1, OrderPrefix
    <3> QED
      BY <1>1, <3>1, <3>2, <3>3, Zenon
  <2> QED
    BY <2>2, <2>3
<1>6. ASSUME NEW s \in Sub, ForwardQuit(s) PROVE OrderInv'
  <2>1. /\ UNCHANGED <<passed, quit, rcvd>>
        /\ buf' = [buf EXCEPT ![s] = <<>>] /\ fpc' = [fpc EXCEPT ![s] = "stopped"]
    BY <1>6 DEF ForwardQuit
  <2>2. /\ buf'[s] = <<>> /\ fpc'[s] = "stopped"
        /\ \A t \in Sub \ {s} : buf'[t] = buf[t] /\ fpc'[t] = fpc[t]
    BY <2>1 DEF SubTypeOK
  <2>3. Increasing(rcvd[s] \o <<>>, passed[s])
    BY OrderPrefix DEF SubTypeOK, OrderInv
  <2> QED
    BY <1>1, <2>1, <2>2, <2>3, Zenon
<1>7. ASSUME NEW s \in Sub, ForwardQuitsOnce(s) \/ ForwardEnds(s) \/ ForwardReports(s)
      PROVE  OrderInv'
  BY <1>0, <1>7 DEF ForwardQuitsOnce, ForwardEnds, ForwardReports, EnterOnce, SubTypeOK
<1>8. ASSUME NEW s \in Sub, UnsubscribeReturns(s) PROVE OrderInv'
  BY <1>0, <1>8 DEF UnsubscribeReturns
<1>9. ASSUME NEW s \in Sub, NEW u \in User, Unsubscribe(s, u) \/ UserStep(s, u)
      PROVE  OrderInv'
  BY <1>0, <1>9 DEF Unsubscribe, UserStep, UserQuitsOnce, EnterOnce, UserLeavesOnce,
     UserClosesErr, UserClosesChan
<1>10. CASE UNCHANGED subVars
  BY <1>0, <1>10 DEF subVars
<1> QED
  BY <1>2, <1>3, <1>4, <1>5, <1>6, <1>7, <1>8, <1>9, <1>10
  DEF SubNext, ForwardStep, Deliveries, HandlerQuits

\* The queues are empty in the beginning.
LEMMA OrderInvInit == SubInit => OrderInv
<1> SUFFICES ASSUME SubInit PROVE OrderInv
  OBVIOUS
<1>1. \A s \in Sub : rcvd[s] \o buf[s] = <<>> /\ passed[s] = 0
  <2>1. \A s \in Sub : rcvd[s] = <<>> /\ buf[s] = <<>> /\ passed[s] = 0
    BY Zenon DEF SubInit
  <2>2. <<>> \o <<>> = <<>>
    OBVIOUS
  <2> QED
    BY <2>1, <2>2, Zenon
<1>2. Increasing(<<>>, 0) /\ Complete(<<>>, 0)
  BY DEF Increasing, Complete
<1> QED
  BY <1>1, <1>2, Zenon DEF OrderInv, Notified

\* In-order delivery without gaps: what the application received, followed by what
\* is still buffered, is increasing, and is all that deliver was given as long as
\* the subscription has not quit.
THEOREM DeliveredInOrder == SubSpec => []InOrder
<1>1. SubTypeOK /\ OrderInv => InOrder
  <2> SUFFICES ASSUME SubTypeOK, OrderInv, NEW s \in Sub
               PROVE  /\ \A x, y \in DOMAIN Notified(s) :
                            x < y => Notified(s)[x] < Notified(s)[y]
                      /\ fpc[s] \in {"none", "run"} /\ s \notin quit =>
                           Notified(s) = [x \in 1..passed[s] |-> x]
    BY Zenon DEF InOrder
  <2>1. Notified(s) \in Seq(Nat) /\ passed[s] \in Nat
    BY DEF SubTypeOK, Notified
  <2>2. DOMAIN Notified(s) = 1..Len(Notified(s))
    BY <2>1
  <2>3. \A x, y \in DOMAIN Notified(s) : x < y => Notified(s)[x] < Notified(s)[y]
    BY <2>2 DEF OrderInv, Increasing
  <2>4. ASSUME Complete(Notified(s), passed[s])
        PROVE  Notified(s) = [x \in 1..passed[s] |-> x]
    BY <2>1, <2>2, <2>4 DEF Complete
  <2> QED
    BY <2>3, <2>4 DEF OrderInv
<1> QED
  BY <1>1, OrderInvInit, OrderInvNext, SubTypeInit, SubTypeNext, PTL DEF SubSpec

=============================================================================
