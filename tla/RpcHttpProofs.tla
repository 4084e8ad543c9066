--------------------------- MODULE RpcHttpProofs ----------------------------
(***************************************************************************)
(* Proofs about RpcHttp and the RpcServer it extends, for any connections, *)
(* frames and requests.                                                    *)
(***************************************************************************)
EXTENDS RpcHttp, WellFoundedInduction, TLAPS

-----------------------------------------------------------------------------
(* Sequences. *)

\* Two sequences with the same elements in the same places are equal.
LEMMA SameSeq ==
  ASSUME NEW T, NEW s \in Seq(T), NEW t \in Seq(T), Len(s) = Len(t),
         \A i \in 1..Len(s) : s[i] = t[i]
  PROVE  s = t
OBVIOUS

\* What the operators on sequences return.
LEMMA ElementSeq ==
  ASSUME NEW T, NEW s \in Seq(T), NEW n \in 1..Len(s)
  PROVE  s[n] \in T
OBVIOUS

\* Append.
LEMMA AppendSeq ==
  ASSUME NEW T, NEW s \in Seq(T), NEW e \in T
  PROVE  /\ Append(s, e) \in Seq(T) /\ Append(s, e) # <<>>
         /\ Len(Append(s, e)) = Len(s) + 1 /\ Append(s, e)[Len(s) + 1] = e
         /\ \A i \in 1..Len(s) : Append(s, e)[i] = s[i]
OBVIOUS

\* Assignment to an element.
LEMMA ExceptSeq ==
  ASSUME NEW T, NEW s \in Seq(T), NEW n \in 1..Len(s), NEW e \in T
  PROVE  /\ [s EXCEPT ![n] = e] \in Seq(T) /\ Len([s EXCEPT ![n] = e]) = Len(s)
         /\ \A i \in 1..Len(s) : [s EXCEPT ![n] = e][i] = IF i = n THEN e ELSE s[i]
OBVIOUS

\* Head and Tail.
LEMMA TailSeq ==
  ASSUME NEW T, NEW s \in Seq(T), s # <<>>
  PROVE  /\ Head(s) \in T /\ Tail(s) \in Seq(T)
         /\ Len(Tail(s)) = Len(s) - 1 /\ \A i \in 1..Len(Tail(s)) : Tail(s)[i] = s[i + 1]
OBVIOUS

\* Concatenation.
LEMMA ConcatSeq ==
  ASSUME NEW T, NEW s \in Seq(T), NEW t \in Seq(T)
  PROVE  /\ s \o t \in Seq(T) /\ Len(s \o t) = Len(s) + Len(t)
         /\ \A i \in 1..(Len(s) + Len(t)) :
              (s \o t)[i] = IF i <= Len(s) THEN s[i] ELSE t[i - Len(s)]
OBVIOUS

\* Concatenation with the empty sequence.
LEMMA EmptySeq ==
  ASSUME NEW T, NEW s \in Seq(T)
  PROVE  s \o <<>> = s /\ <<>> \o s = s
<1>1. /\ s \o <<>> \in Seq(T) /\ <<>> \o s \in Seq(T)
      /\ Len(s \o <<>>) = Len(s) /\ Len(<<>> \o s) = Len(s)
  BY ConcatSeq
<1>2. \A i \in 1..Len(s) : (s \o <<>>)[i] = s[i] /\ (<<>> \o s)[i] = s[i]
  OBVIOUS
<1> QED
  BY <1>1, <1>2, SameSeq, Zenon

\* Receiving the front of the buffer leaves the queue as it is.
LEMMA ReceiveHead ==
  ASSUME NEW T, NEW r \in Seq(T), NEW b \in Seq(T), b # <<>>
  PROVE  Append(r, Head(b)) \o Tail(b) = r \o b
<1>1. PICK a, t : a = Append(r, Head(b)) /\ t = Tail(b)
  BY Zenon
<1>2. /\ t \in Seq(T) /\ Len(t) = Len(b) - 1 /\ \A i \in 1..(Len(b) - 1) : t[i] = b[i + 1]
      /\ Len(b) \in Nat /\ Len(b) > 0 /\ Len(r) \in Nat
  BY <1>1
<1>3. /\ a \in Seq(T) /\ Len(a) = Len(r) + 1
      /\ a[Len(r) + 1] = b[1] /\ \A i \in 1..Len(r) : a[i] = r[i]
  BY <1>1
<1>4. /\ a \o t \in Seq(T) /\ r \o b \in Seq(T)
      /\ Len(a \o t) = Len(a) + Len(t) /\ Len(r \o b) = Len(r) + Len(b)
      /\ \A i \in 1..(Len(a) + Len(t)) : (a \o t)[i] = IF i <= Len(a) THEN a[i] ELSE t[i - Len(a)]
      /\ \A i \in 1..(Len(r) + Len(b)) : (r \o b)[i] = IF i <= Len(r) THEN r[i] ELSE b[i - Len(r)]
  BY <1>2, <1>3, ConcatSeq, Zenon
<1>5. Len(a \o t) = Len(r \o b)
  BY <1>2, <1>3, <1>4
<1>6. ASSUME NEW i \in 1..Len(r \o b) PROVE (a \o t)[i] = (r \o b)[i]
  <2>1. i \in 1..(Len(a) + Len(t)) /\ i \in 1..(Len(r) + Len(b))
    BY <1>4, <1>5, Zenon
  <2>2. /\ (a \o t)[i] = IF i <= Len(a) THEN a[i] ELSE t[i - Len(a)]
        /\ (r \o b)[i] = IF i <= Len(r) THEN r[i] ELSE b[i - Len(r)]
    BY <1>4, <2>1, Zenon
  <2>3. CASE i <= Len(r)
    BY <1>2, <1>3, <2>1, <2>2, <2>3
  <2>4. CASE i = Len(r) + 1
    BY <1>2, <1>3, <2>2, <2>4
  <2>5. CASE i > Len(r) + 1
    <3>1. i - Len(a) \in 1..(Len(b) - 1) /\ i - Len(r) = (i - Len(a)) + 1
      BY <1>2, <1>3, <2>1, <2>5
    <3>2. t[i - Len(a)] = b[i - Len(r)]
      BY <1>2, <3>1, Zenon
    <3> QED
      BY <1>2, <1>3, <2>1, <2>2, <2>5, <3>2
  <2>6. i <= Len(r) \/ i = Len(r) + 1 \/ i > Len(r) + 1
    BY <1>2, <2>1
  <2> QED
    BY <2>3, <2>4, <2>5, <2>6, Zenon
<1> QED
  BY <1>1, <1>4, <1>5, <1>6, SameSeq, Zenon


\* Induction, for a set in place of a predicate: a number below N that T does not
\* have would have a least one.
LEMMA CountUp ==
  ASSUME NEW N \in Nat, NEW T, 0 \in T, \A n \in 0..(N - 1) : n \in T => n + 1 \in T
  PROVE  \A n \in 0..N : n \in T
<1> DEFINE M == (0..N) \ T
<1>1. SUFFICES ASSUME M # {} PROVE FALSE
  BY Zenon
<1>2. M \subseteq Nat
  OBVIOUS
<1>a. IsWellFoundedOn(OpToRel(<, Nat), Nat)
  BY NatLessThanWellFounded, Zenon
<1>3. PICK n \in M : \A m \in M : ~(<<m, n>> \in OpToRel(<, Nat))
  <2> HIDE DEF M
  <2> QED
    BY <1>1, <1>2, <1>a, WFMin, Zenon
<1>4. n \in 0..N /\ n \notin T /\ \A m \in M : ~(m < n)
  BY <1>2, <1>3, Zenon DEF OpToRel
<1>5. n - 1 \in 0..(N - 1) /\ n - 1 \notin M
  BY <1>4
<1> QED
  BY <1>4, <1>5

\* An increasing function on 1..m takes a value of at least m.
LEMMA Increasing ==
  ASSUME NEW m \in Nat, NEW n \in Nat, NEW to \in [1..m -> 1..n], InOrder(to)
  PROVE  m <= n
<1> DEFINE T == {i \in 0..m : i = 0 \/ i <= to[i]}
<1>1. 0 \in T
  OBVIOUS
<1>2. ASSUME NEW i \in 0..(m - 1), i \in T PROVE i + 1 \in T
  <2>1. i + 1 \in 1..m /\ to[i + 1] \in 1..n
    OBVIOUS
  <2>2. CASE i = 0
    BY <2>1, <2>2
  <2>3. CASE i # 0
    <3>1. i \in 1..m /\ to[i] \in 1..n /\ i <= to[i]
      BY <1>2, <2>3
    <3>2. to[i] < to[i + 1]
      BY <2>1, <3>1 DEF InOrder
    <3> QED
      BY <2>1, <3>1, <3>2
  <2> QED
    BY <2>2, <2>3, Zenon
<1>3. m \in T
  <2> HIDE DEF T
  <2>1. \A i \in 0..m : i \in T
    BY <1>1, <1>2, CountUp, Zenon
  <2> QED
    BY <2>1
<1>4. m # 0 => to[m] \in 1..n
  OBVIOUS
<1> QED
  BY <1>3, <1>4

\* An increasing function from 1..m onto 1..n pairs them off.
LEMMA IncreasingOnto ==
  ASSUME NEW m \in Nat, NEW n \in Nat, NEW to \in [1..m -> 1..n], InOrder(to),
         \A k \in 1..n : \E i \in 1..m : to[i] = k
  PROVE  m = n
<1> DEFINE back == [k \in 1..n |-> CHOOSE i \in 1..m : to[i] = k]
<1>1. \A k \in 1..n : back[k] \in 1..m /\ to[back[k]] = k
  BY Zenon
<1>2. back \in [1..n -> 1..m]
  BY <1>1, Zenon
<1> HIDE DEF back
<1>3. ASSUME NEW k \in 1..n, NEW l \in 1..n, k < l PROVE back[k] < back[l]
  <2>1. CASE back[l] < back[k]
    <3>1. to[back[l]] < to[back[k]]
      BY <1>1, <2>1, Zenon DEF InOrder
    <3> QED
      BY <1>1, <1>3, <3>1
  <2>2. CASE back[l] = back[k]
    BY <1>1, <1>3, <2>2
  <2> QED
    BY <1>1, <2>1, <2>2
<1>4. InOrder(back)
  BY <1>2, <1>3, Zenon DEF InOrder
<1>5. m <= n
  BY Increasing, Zenon
<1>6. n <= m
  BY <1>2, <1>4, Increasing, Zenon
<1> QED
  BY <1>5, <1>6

\* The loop of handleBatch: CallsUpTo is a function that satisfies its definition.
LEMMA CallsUpToLoop ==
  ASSUME NEW msgs, Len(msgs) \in Nat
  PROVE  /\ CallsUpTo(msgs)[0] = <<>>
         /\ \A n \in 1..Len(msgs) :
              CallsUpTo(msgs)[n] = IF handleImmediate(msgs[n]) THEN CallsUpTo(msgs)[n - 1]
                                   ELSE Append(CallsUpTo(msgs)[n - 1], msgs[n])
<1> DEFINE body(f, n) == IF n = 0 THEN <<>>
                         ELSE IF handleImmediate(msgs[n]) THEN f[n - 1]
                         ELSE Append(f[n - 1], msgs[n])
           exists(n) == \E f : f = [m \in 0..n |-> body(f, m)]
           T == {n \in 0..Len(msgs) : exists(n)}
<1>1. 0 \in T
  <2>1. [m \in 0..0 |-> <<>>] = [m \in 0..0 |-> body([k \in 0..0 |-> <<>>], m)]
    OBVIOUS
  <2>2. exists(0)
    BY <2>1, Zenon
  <2> QED
    BY <2>2
<1>2. ASSUME NEW n \in 0..(Len(msgs) - 1), n \in T PROVE n + 1 \in T
  <2>1. PICK f : f = [m \in 0..n |-> body(f, m)]
    BY <1>2, Zenon
  <2> DEFINE g == [m \in 0..(n + 1) |-> IF m = n + 1 THEN body(f, n + 1) ELSE f[m]]
  <2>2. \A m \in 0..(n + 1) : body(g, m) = body(f, m)
    OBVIOUS
  <2>3. \A m \in 0..(n + 1) : g[m] = body(f, m)
    <3>1. \A m \in 0..n : f[m] = body(f, m)
      BY <2>1, Zenon
    <3> QED
      BY <3>1
  <2>4. g = [m \in 0..(n + 1) |-> body(g, m)]
    BY <2>2, <2>3, Zenon
  <2> HIDE DEF g
  <2>5. exists(n + 1)
    BY <2>4, Zenon
  <2> QED
    BY <2>5
<1>3. exists(Len(msgs))
  <2>1. \A n \in 0..Len(msgs) : n \in T
    <3> HIDE DEF T
    <3> QED
      BY <1>1, <1>2, CountUp, Zenon
  <2> QED
    BY <2>1
<1>4. CallsUpTo(msgs) = [n \in 0..Len(msgs) |-> body(CallsUpTo(msgs), n)]
  BY <1>3, Zenon DEF CallsUpTo
<1>5. \A n \in 0..Len(msgs) : CallsUpTo(msgs)[n] = body(CallsUpTo(msgs), n)
  BY <1>4, Zenon
<1> QED
  BY <1>5

\* to shows which messages of the frame the elements of calls are: the ones to
\* answer among the first n, in their order.
Picks(to, calls, frame, n) ==
  /\ to \in [DOMAIN calls -> {i \in ToAnswer(frame) : i <= n}]
  /\ InOrder(to)
  /\ \A i \in ToAnswer(frame) : i <= n => \E j \in DOMAIN to : to[j] = i
  /\ \A j \in DOMAIN to : calls[j] = frame.msgs[to[j]]

\* The calls of a frame are its messages that are to be answered, in their order.
LEMMA CallsOfFrame ==
  ASSUME NEW frame \in FrameSet
  PROVE  /\ Calls(frame) \in Seq(Messages)
         /\ \E to : Picks(to, Calls(frame), frame, Len(frame.msgs))
<1> DEFINE msgs == frame.msgs
           c == CallsUpTo(msgs)
           T == {n \in 0..Len(msgs) : c[n] \in Seq(Messages) /\ \E to : Picks(to, c[n], frame, n)}
<1>0. msgs \in Seq(Messages) /\ Len(msgs) \in Nat /\ DOMAIN msgs = 1..Len(msgs)
  BY DEF FrameSet
<1>1. 0 \in T
  <2>1. c[0] = <<>> /\ <<>> \in Seq(Messages)
    BY <1>0, CallsUpToLoop
  <2>2. Picks(<<>>, <<>>, frame, 0)
    BY <1>0 DEF Picks, InOrder, ToAnswer
  <2>3. 0 \in 0..Len(msgs) /\ c[0] \in Seq(Messages) /\ \E to : Picks(to, c[0], frame, 0)
    BY <1>0, <2>1, <2>2
  <2> HIDE DEF c
  <2> QED
    BY <2>3, Zenon
<1>2. ASSUME NEW n \in 0..(Len(msgs) - 1), n \in T PROVE n + 1 \in T
  <2> DEFINE m == msgs[n + 1]
  <2>1. c[n] \in Seq(Messages) /\ n \in Nat /\ n + 1 \in 1..Len(msgs) /\ m \in Messages
    BY <1>0, <1>2
  <2>2. c[n + 1] = IF handleImmediate(m) THEN c[n] ELSE Append(c[n], m)
    BY <1>0, <2>1, CallsUpToLoop
  <2>3. PICK to : Picks(to, c[n], frame, n)
    BY <1>2, Zenon
  <2>4. n + 1 \in ToAnswer(frame) <=> ~handleImmediate(m)
    BY <1>0, <2>1, Zenon DEF ToAnswer, handleImmediate
  <2>5. \A i \in ToAnswer(frame) : i \in Nat /\ (i <= n + 1 <=> i <= n \/ i = n + 1)
    BY <1>0, <2>1 DEF ToAnswer
  <2> HIDE DEF c, m
  <2>6. CASE handleImmediate(m)
    <3>1. Picks(to, c[n], frame, n + 1)
      BY <2>3, <2>4, <2>5, <2>6, Zenon DEF Picks
    <3> QED
      BY <2>1, <2>2, <2>6, <3>1
  <2>7. CASE ~handleImmediate(m)
    <3> DEFINE d == Append(c[n], m)
               nx == Len(c[n]) + 1
               tt == [j \in 1..nx |-> IF j = nx THEN n + 1 ELSE to[j]]
    <3>1. /\ d \in Seq(Messages) /\ DOMAIN d = 1..nx /\ d[nx] = m
          /\ DOMAIN c[n] = 1..Len(c[n]) /\ Len(c[n]) \in Nat
          /\ \A j \in 1..Len(c[n]) : d[j] = c[n][j]
      BY <2>1
    <3>a. /\ nx \in 1..nx
          /\ \A j \in 1..nx : j \in Nat /\ (j = nx \/ j \in 1..Len(c[n]))
          /\ \A j \in 1..Len(c[n]) : j < nx /\ j \in 1..nx
      BY <3>1
    <3>2. /\ tt[nx] = n + 1
          /\ \A j \in 1..Len(c[n]) : tt[j] = to[j]
          /\ DOMAIN tt = 1..nx
      BY <3>1
    <3>3. /\ DOMAIN to = 1..Len(c[n])
          /\ \A j \in 1..Len(c[n]) : to[j] \in ToAnswer(frame) /\ to[j] <= n
          /\ \A i, j \in 1..Len(c[n]) : i < j => to[i] < to[j]
          /\ \A i \in ToAnswer(frame) : i <= n => \E j \in 1..Len(c[n]) : to[j] = i
          /\ \A j \in 1..Len(c[n]) : c[n][j] = frame.msgs[to[j]]
      BY <2>3, <3>1, Zenon DEF Picks, InOrder
    <3> HIDE DEF d
    <3>4. tt \in [DOMAIN d -> {i \in ToAnswer(frame) : i <= n + 1}]
      BY <2>1, <2>4, <2>5, <2>7, <3>1, <3>3
    <3> HIDE DEF tt, nx
    <3>5. InOrder(tt)
      BY <2>1, <2>5, <3>a, <3>2, <3>3 DEF InOrder
    <3>6. \A i \in ToAnswer(frame) : i <= n + 1 => \E j \in DOMAIN tt : tt[j] = i
      BY <2>5, <3>a, <3>2, <3>3, Zenon
    <3>7. \A j \in DOMAIN tt : d[j] = frame.msgs[tt[j]]
      BY <3>1, <3>a, <3>2, <3>3, Zenon DEF m
    <3>8. Picks(tt, d, frame, n + 1)
      BY <3>4, <3>5, <3>6, <3>7, Zenon DEF Picks
    <3>9. c[n + 1] = d
      BY <2>2, <2>7, Zenon DEF d
    <3>10. c[n + 1] \in Seq(Messages) /\ \E j : Picks(j, c[n + 1], frame, n + 1)
      BY <3>1, <3>8, <3>9, Zenon
    <3> QED
      BY <2>1, <3>10
  <2> QED
    BY <2>6, <2>7, Zenon
<1>3. \A n \in 0..Len(msgs) : n \in T
  <2> HIDE DEF T
  <2> QED
    BY <1>0, <1>1, <1>2, CountUp, Zenon
<1> QED
  BY <1>0, <1>3 DEF Calls

-----------------------------------------------------------------------------
(* What a goroutine of startCallProc does with a frame. *)

\* Answers, call goroutines and writes.
AnswerSet == [id : STRING \cup {"null"}, ok : BOOLEAN]
ProcSet ==
  [st : {"run", "done"}, calls : Seq(Messages), answers : Seq(AnswerSet), array : BOOLEAN]
ReplySet == [frame : Nat, array : BOOLEAN, answers : Seq(AnswerSet)]

\* A goroutine that runs has answered the first calls of its frame and has the
\* others before it.
Serves(p, frame) ==
  /\ p.array = frame.batch /\ Calls(frame) # <<>>
  /\ Len(p.answers) + Len(p.calls) = Len(Calls(frame))
  /\ \A i \in 1..Len(p.answers) : p.answers[i] = handleCallMsg(Calls(frame)[i])
  /\ \A i \in 1..Len(p.calls) : p.calls[i] = Calls(frame)[Len(p.answers) + i]
RefusesEmpty(p, frame) ==
  /\ frame.batch /\ frame.msgs = <<>>
  /\ p.calls = <<>> /\ p.answers = <<errorMessage>> /\ ~p.array
ProcInv(p, frame) == p.st = "run" => Serves(p, frame) \/ RefusesEmpty(p, frame)

\* handleCallMsg gives the right answer, and one at all, unless the message is a
\* notification.
LEMMA CallAnswered ==
  ASSUME NEW m \in Messages
  PROVE  /\ handleCallMsg(m) \in AnswerSet
         /\ ~isNotification(m) => /\ RightAnswer(m, handleCallMsg(m))
                                  /\ handleCallMsg(m) # noAnswer
<1>0. CASE isNotification(m)
  <2>1. handleCallMsg(m) = [id |-> m.id, ok |-> FALSE]
    BY <1>0, Zenon DEF handleCallMsg, isNotification, noAnswer, Answer
  <2>2. m.id \in STRING
    BY Zenon DEF Messages
  <2>3. handleCallMsg(m) \in AnswerSet
    BY <2>1, <2>2 DEF AnswerSet
  <2> QED
    BY <1>0, <2>3, Zenon
<1>1. CASE ~isNotification(m) /\ hasValidID(m) /\ m.method = "ok"
  <2>1. handleCallMsg(m) = [id |-> m.id, ok |-> TRUE]
    BY <1>1, Zenon DEF handleCallMsg, handleCall, runMethod, call, callback, Answer, isCall
  <2> QED
    BY <1>1, <2>1 DEF Messages, AnswerSet, RightAnswer, noAnswer, Answer
<1>2. CASE ~isNotification(m) /\ hasValidID(m) /\ m.method # "ok"
  <2>1. handleCallMsg(m) = [id |-> m.id, ok |-> FALSE]
    BY <1>2, Zenon DEF handleCallMsg, handleCall, runMethod, call, Answer
  <2>2. m.id # "none"
    BY <1>2 DEF hasValidID
  <2> QED
    BY <1>2, <2>1, <2>2 DEF Messages, AnswerSet, RightAnswer, noAnswer, Answer
<1>3. CASE ~isNotification(m) /\ ~hasValidID(m)
  <2>1. handleCallMsg(m) = [id |-> "null", ok |-> FALSE]
    BY <1>3, Zenon DEF handleCallMsg, errorMessage, Answer, isCall
  <2> QED
    BY <1>3, <2>1 DEF Messages, AnswerSet, RightAnswer, noAnswer, Answer
<1> QED
  BY <1>0, <1>1, <1>2, <1>3, Zenon

\* No call of a frame is a notification.
LEMMA CallsAreCalls ==
  ASSUME NEW frame \in FrameSet, NEW i \in DOMAIN Calls(frame)
  PROVE  ~isNotification(Calls(frame)[i])
<1>1. PICK to : Picks(to, Calls(frame), frame, Len(frame.msgs))
  BY CallsOfFrame, Zenon
<1>2. to[i] \in ToAnswer(frame) /\ Calls(frame)[i] = frame.msgs[to[i]]
  BY <1>1 DEF Picks
<1> QED
  BY <1>2, Zenon DEF ToAnswer

\* A frame has calls exactly when something in it is to be answered.
LEMMA CallsToAnswer ==
  ASSUME NEW frame \in FrameSet
  PROVE  /\ Calls(frame) \in Seq(Messages)
         /\ Calls(frame) # <<>> <=> ToAnswer(frame) # {}
         /\ Calls(frame) # <<>> => frame.msgs # <<>>
<1>1. Calls(frame) \in Seq(Messages)
  BY CallsOfFrame, Zenon
<1>2. PICK to : Picks(to, Calls(frame), frame, Len(frame.msgs))
  BY CallsOfFrame, Zenon
<1>3. /\ DOMAIN Calls(frame) = 1..Len(Calls(frame)) /\ Len(Calls(frame)) \in Nat
      /\ Calls(frame) # <<>> <=> Len(Calls(frame)) # 0
  BY <1>1
<1>4. /\ frame.msgs \in Seq(Messages)
      /\ \A n \in ToAnswer(frame) : n \in 1..Len(frame.msgs)
  BY DEF FrameSet, ToAnswer
<1>5. Calls(frame) # <<>> => ToAnswer(frame) # {}
  <2>1. ASSUME Calls(frame) # <<>> PROVE to[1] \in ToAnswer(frame)
    BY <1>2, <1>3, <2>1 DEF Picks
  <2> QED
    BY <2>1, Zenon
<1>6. ToAnswer(frame) # {} => Calls(frame) # <<>>
  <2>1. ASSUME NEW n \in ToAnswer(frame) PROVE DOMAIN Calls(frame) # {}
    <3>1. n <= Len(frame.msgs)
      BY <1>4
    <3> QED
      BY <1>2, <3>1, Zenon DEF Picks
  <2> QED
    BY <1>3, <2>1
<1>7. ToAnswer(frame) # {} => frame.msgs # <<>>
  BY <1>4
<1> QED
  BY <1>1, <1>5, <1>6, <1>7, Zenon

\* handleMsg and handleBatch start a goroutine for a frame unless nothing in it is
\* to be answered.
LEMMA FrameHandled ==
  ASSUME NEW frame \in FrameSet
  PROVE  /\ HandleFrame(frame) \in ProcSet /\ ProcInv(HandleFrame(frame), frame)
         /\ HandleFrame(frame).st = "done" => ~IsAnswered(frame)
<1>a. errorMessage \in AnswerSet
  BY Zenon DEF errorMessage, Answer, AnswerSet
<1>0. /\ Calls(frame) \in Seq(Messages) /\ <<>> \in Seq(Messages) /\ <<>> \in Seq(AnswerSet)
      /\ frame.batch \in BOOLEAN /\ <<errorMessage>> \in Seq(AnswerSet)
  BY <1>a, CallsToAnswer DEF FrameSet
<1>1. CASE frame.batch /\ frame.msgs = <<>>
  BY <1>0, <1>1, Zenon DEF HandleFrame, CallProc, ProcSet, ProcInv, RefusesEmpty
<1>2. CASE ~(frame.batch /\ frame.msgs = <<>>) /\ Calls(frame) = <<>>
  <2>1. HandleFrame(frame) = NoProc
    BY <1>2, Zenon DEF HandleFrame
  <2> QED
    BY <1>0, <1>2, <2>1, CallsToAnswer DEF NoProc, ProcSet, ProcInv, IsAnswered
<1>3. CASE ~(frame.batch /\ frame.msgs = <<>>) /\ Calls(frame) # <<>>
  <2>1. HandleFrame(frame) = CallProc(Calls(frame), <<>>, frame.batch)
    BY <1>3, Zenon DEF HandleFrame
  <2>2. Serves(CallProc(Calls(frame), <<>>, frame.batch), frame)
    BY <1>0, <1>3 DEF CallProc, Serves
  <2> QED
    BY <1>0, <2>1, <2>2 DEF CallProc, ProcSet, ProcInv
<1> QED
  BY <1>1, <1>2, <1>3, Zenon

\* The goroutine after handleCallMsg of its next call.
AfterCall(p) ==
  [p EXCEPT !.calls = Tail(p.calls),
            !.answers = withAnswer(p.answers, handleCallMsg(Head(p.calls)))]

\* Answering the next call keeps to the frame.
LEMMA CallServed ==
  ASSUME NEW frame \in FrameSet, NEW p \in ProcSet, ProcInv(p, frame),
         p.st = "run", p.calls # <<>>
  PROVE  AfterCall(p) \in ProcSet /\ ProcInv(AfterCall(p), frame)
<1>0. PICK c, calls, answers : c = Calls(frame) /\ calls = p.calls /\ answers = p.answers
  BY Zenon
<1>1. /\ calls \in Seq(Messages) /\ answers \in Seq(AnswerSet) /\ c \in Seq(Messages)
      /\ Serves(p, frame) /\ calls # <<>>
  BY <1>0, CallsToAnswer, Zenon DEF ProcSet, ProcInv, RefusesEmpty
<1>2. /\ Len(answers) + Len(calls) = Len(c)
      /\ \A i \in 1..Len(answers) : answers[i] = handleCallMsg(c[i])
      /\ \A i \in 1..Len(calls) : calls[i] = c[Len(answers) + i]
  BY <1>0, <1>1, Zenon DEF Serves
<1>3. PICK m, t : m = Head(calls) /\ t = Tail(calls)
  BY Zenon
<1>4. /\ m \in Messages /\ t \in Seq(Messages) /\ Len(t) = Len(calls) - 1
      /\ \A i \in 1..Len(t) : t[i] = calls[i + 1]
      /\ m = calls[1]
  BY <1>1, <1>3, TailSeq
<1>5. PICK a : a = handleCallMsg(m)
  BY Zenon
<1>6. PICK q : q = withAnswer(answers, a)
  BY Zenon
<1>6a. q = Append(answers, a)
  <2>1. Len(answers) + 1 \in DOMAIN c /\ m = c[Len(answers) + 1]
    BY <1>1, <1>2, <1>4
  <2>2. ~isNotification(m)
    BY <1>0, <2>1, CallsAreCalls, Zenon
  <2> QED
    BY <1>4, <1>5, <1>6, <2>2, CallAnswered, Zenon DEF withAnswer
<1>7. /\ q \in Seq(AnswerSet) /\ Len(q) = Len(answers) + 1
      /\ \A i \in 1..Len(answers) : q[i] = answers[i]
      /\ q[Len(answers) + 1] = a
  BY <1>1, <1>4, <1>5, <1>6a, CallAnswered, AppendSeq
<1>8. Len(calls) \in Nat \ {0} /\ Len(answers) \in Nat /\ Len(t) \in Nat
  BY <1>1, <1>4
<1>9. \A i \in 1..Len(q) : q[i] = handleCallMsg(c[i])
  <2>1. \A i \in 1..Len(q) : i = Len(answers) + 1 \/ i \in 1..Len(answers)
    BY <1>7, <1>8
  <2>2. m = c[Len(answers) + 1]
    BY <1>2, <1>4, <1>8
  <2> QED
    BY <1>2, <1>5, <1>7, <2>1, <2>2, Zenon
<1>10. \A i \in 1..Len(t) : t[i] = c[Len(q) + i]
  <2>1. \A i \in 1..Len(t) : /\ t[i] = calls[i + 1] /\ i + 1 \in 1..Len(calls)
                             /\ Len(q) + i = Len(answers) + (i + 1)
    BY <1>4, <1>7, <1>8
  <2> QED
    BY <1>2, <2>1, Zenon
<1>11. Len(q) + Len(t) = Len(c)
  <2>1. Len(q) = Len(answers) + 1 /\ Len(t) = Len(calls) - 1 /\ Len(answers) + Len(calls) = Len(c)
    BY <1>2, <1>4, <1>7, Zenon
  <2> QED
    BY <1>8, <2>1
<1>12. /\ AfterCall(p).calls = t /\ AfterCall(p).answers = q
       /\ AfterCall(p).array = p.array /\ AfterCall(p) \in ProcSet
  BY <1>0, <1>3, <1>4, <1>5, <1>6, <1>7, Zenon DEF AfterCall, ProcSet
<1>13. Serves(AfterCall(p), frame)
  BY <1>0, <1>1, <1>9, <1>10, <1>11, <1>12, Zenon DEF Serves
<1> QED
  BY <1>12, <1>13, Zenon DEF ProcInv

\* When no call is left, the answers are what the peer is to receive.
LEMMA AllServed ==
  ASSUME NEW frame \in FrameSet, NEW p \in ProcSet, ProcInv(p, frame), NEW n,
         p.st = "run", p.calls = <<>>
  PROVE  /\ IsAnswered(frame) /\ RightReply(frame, Reply(n, p.array, p.answers))
         /\ p.answers # <<>>
<1>1. CASE RefusesEmpty(p, frame)
  <2>1. p.answers # <<>>
    BY <1>1 DEF RefusesEmpty
  <2> QED
    BY <1>1, <2>1, Zenon DEF RefusesEmpty, IsAnswered, RightReply, Reply
<1>2. CASE Serves(p, frame)
  <2>1. /\ ToAnswer(frame) # {} /\ frame.msgs # <<>> /\ Calls(frame) \in Seq(Messages)
        /\ p.answers \in Seq(AnswerSet)
    BY <1>2, CallsToAnswer, Zenon DEF Serves, ProcSet
  <2>2. /\ DOMAIN p.answers = DOMAIN Calls(frame) /\ DOMAIN p.answers = 1..Len(p.answers)
        /\ \A i \in DOMAIN p.answers :
             p.answers[i] = handleCallMsg(Calls(frame)[i]) /\ Calls(frame)[i] \in Messages
    BY <1>2, <2>1 DEF Serves
  <2>3. PICK to : Picks(to, Calls(frame), frame, Len(frame.msgs))
    BY CallsOfFrame, Zenon
  <2>4. \A i \in ToAnswer(frame) : i <= Len(frame.msgs)
    BY DEF ToAnswer, FrameSet
  <2>5. /\ to \in [DOMAIN p.answers -> ToAnswer(frame)] /\ InOrder(to)
        /\ \A i \in ToAnswer(frame) : \E j \in DOMAIN to : to[j] = i
    BY <2>2, <2>3, <2>4, Zenon DEF Picks
  <2>6. \A i \in DOMAIN to : RightAnswer(frame.msgs[to[i]], p.answers[i])
    <3> SUFFICES ASSUME NEW i \in DOMAIN to
                 PROVE  RightAnswer(frame.msgs[to[i]], p.answers[i])
      OBVIOUS
    <3>1. i \in DOMAIN p.answers /\ i \in DOMAIN Calls(frame)
      BY <2>2, <2>5, Zenon
    <3>2. p.answers[i] = handleCallMsg(Calls(frame)[i]) /\ Calls(frame)[i] \in Messages
      BY <2>2, <3>1, Zenon
    <3>3. ~isNotification(Calls(frame)[i])
      BY <3>1, CallsAreCalls, Zenon
    <3>4. Calls(frame)[i] = frame.msgs[to[i]]
      BY <2>3, Zenon DEF Picks
    <3>5. RightAnswer(Calls(frame)[i], handleCallMsg(Calls(frame)[i]))
      BY <3>2, <3>3, CallAnswered, Zenon
    <3> QED
      BY <3>2, <3>4, <3>5, Zenon
  <2>7. p.array = frame.batch
    BY <1>2, Zenon DEF Serves
  <2>8. p.answers # <<>>
    <3>1. Len(p.answers) = Len(Calls(frame)) /\ Calls(frame) # <<>>
      BY <1>2, <2>1 DEF Serves
    <3> QED
      BY <2>1, <3>1
  <2> QED
    BY <2>1, <2>5, <2>6, <2>7, <2>8, Zenon DEF IsAnswered, RightReply, Reply
<1> QED
  BY <1>1, <1>2, Zenon DEF ProcInv

-----------------------------------------------------------------------------
(* Types. *)

\* Where the goroutines of the server are.
ControlTypes ==
  /\ run \in BOOLEAN /\ stop \in {"idle", "each", "done"}
  /\ codecs \subseteq Stream /\ closed \subseteq Conn /\ gone \subseteq Conn
  /\ pc \in [Conn -> {"absent", "idle", "checked", "serving", "close", "returned",
                      "arrived", "request", "closing"}]
  /\ dpc \in [Stream -> {"off", "select", "wait", "drain", "quit"}]
  /\ cont \in [Stream -> {"none", "readErr", "close"}] /\ reading \in [Stream -> BOOLEAN]
  /\ rd \in [Stream -> {"off", "read", "op", "err", "exit"}]

\* What they carry.
DataTypes ==
  /\ taken \in [Conn -> Seq(FrameSet)]
  /\ proc \in [Conn -> Seq(ProcSet)] /\ out \in [Conn -> Seq(ReplySet)]
  /\ \A k \in Stream : rd[k] = "op" => taken[k] # <<>>

\* The callers over HTTP.
CallerTypes ==
  /\ request \in [Http -> HttpRequests] /\ status \in [Http -> Nat]
  /\ cpc \in [Http -> {"idle", "sent", "wait", "returned"}]
  /\ resp \in [Http -> Seq(AnswerSet)] /\ got \in [Http -> Seq(AnswerSet)]
  /\ result \in [Http -> {"none", "ok", "rpc", "io", "ctx"}]

\* The types of all of them.
TypeInv == ControlTypes /\ DataTypes /\ CallerTypes

\* A connection is a stream or an HTTP request.
LEMMA Conns ==
  /\ Stream \subseteq Conn /\ Http \subseteq Conn /\ Stream \cap Http = {}
  /\ \A k \in Conn : k \in Stream \/ k \in Http
BY ServerAssumption, Zenon DEF Conn

\* What the two steps of a call goroutine do.
LEMMA ServeCallEffect ==
  ASSUME TypeInv, NEW k \in Conn, NEW n, ServeCall(k, n)
  PROVE  /\ n \in 1..Len(proc[k]) /\ DOMAIN proc[k] = 1..Len(proc[k])
         /\ proc[k] \in Seq(ProcSet) /\ proc[k][n] \in ProcSet
         /\ proc[k][n].st = "run" /\ proc[k][n].calls # <<>>
         /\ proc' = [proc EXCEPT ![k] = [proc[k] EXCEPT ![n] = AfterCall(proc[k][n])]]
<1>1. proc \in [Conn -> Seq(ProcSet)] /\ proc[k] \in Seq(ProcSet)
  BY Zenon DEF TypeInv, DataTypes
<1>2. n \in DOMAIN proc[k] /\ proc[k][n].st = "run" /\ proc[k][n].calls # <<>>
  BY Zenon DEF ServeCall, Running
<1>3. proc' = [proc EXCEPT ![k] = [proc[k] EXCEPT ![n] = AfterCall(proc[k][n])]]
  BY <1>1, Zenon DEF ServeCall, AfterCall
<1> QED
  BY <1>1, <1>2, <1>3

\* A call goroutine after its write.
Finished(p) == [p EXCEPT !.st = "done"]

\* The write of a call goroutine ends it.
LEMMA WriteAnswersEffect ==
  ASSUME TypeInv, NEW k \in Conn, NEW n, WriteAnswers(k, n)
  PROVE  /\ n \in 1..Len(proc[k]) /\ DOMAIN proc[k] = 1..Len(proc[k])
         /\ proc[k] \in Seq(ProcSet) /\ proc[k][n] \in ProcSet
         /\ proc[k][n].st = "run" /\ proc[k][n].calls = <<>>
         /\ proc' = [proc EXCEPT ![k] = [proc[k] EXCEPT ![n] = Finished(proc[k][n])]]
         /\ IF proc[k][n].answers = <<>> THEN UNCHANGED out
            ELSE Written(k, Reply(n, proc[k][n].array, proc[k][n].answers))
         /\ Reply(n, proc[k][n].array, proc[k][n].answers) \in ReplySet
<1>1. proc \in [Conn -> Seq(ProcSet)] /\ proc[k] \in Seq(ProcSet)
  BY Zenon DEF TypeInv, DataTypes
<1>2. n \in DOMAIN proc[k] /\ proc[k][n].st = "run" /\ proc[k][n].calls = <<>>
  BY Zenon DEF WriteAnswers, Running
<1>3. proc' = [proc EXCEPT ![k] = [proc[k] EXCEPT ![n] = Finished(proc[k][n])]]
  BY <1>1, Zenon DEF WriteAnswers, Finished
<1>4. IF proc[k][n].answers = <<>> THEN UNCHANGED out
      ELSE Written(k, Reply(n, proc[k][n].array, proc[k][n].answers))
  BY Zenon DEF WriteAnswers
<1>5. n \in 1..Len(proc[k]) /\ DOMAIN proc[k] = 1..Len(proc[k]) /\ proc[k][n] \in ProcSet
  BY <1>1, <1>2
<1>6. Reply(n, proc[k][n].array, proc[k][n].answers) \in ReplySet
  BY <1>5 DEF Reply, ReplySet, ProcSet
<1> QED
  BY <1>1, <1>2, <1>3, <1>4, <1>5, <1>6, Zenon

\* A call that is served leaves a call goroutine.
LEMMA AfterCallType ==
  ASSUME NEW p \in ProcSet, p.calls # <<>>
  PROVE  AfterCall(p) \in ProcSet
<1>1. p.calls \in Seq(Messages) /\ p.answers \in Seq(AnswerSet)
  BY Zenon DEF ProcSet
<1>2. Tail(p.calls) \in Seq(Messages) /\ handleCallMsg(Head(p.calls)) \in AnswerSet
  BY <1>1, CallAnswered
<1>3. withAnswer(p.answers, handleCallMsg(Head(p.calls))) \in Seq(AnswerSet)
  BY <1>1, <1>2 DEF withAnswer
<1> QED
  BY <1>2, <1>3, Zenon DEF AfterCall, ProcSet

\* What is written for a frame that cannot be parsed is a reply.
LEMMA ParseErrorType == ParseError \in ReplySet
<1>1. errorMessage \in AnswerSet
  BY Zenon DEF errorMessage, Answer, AnswerSet
<1>2. <<errorMessage>> \in Seq(AnswerSet)
  BY <1>1
<1> QED
  BY <1>2, Zenon DEF ParseError, Reply, ReplySet

\* What is written to a connection is appended to it or lost.
LEMMA WrittenType ==
  ASSUME TypeInv, NEW k \in Conn, NEW reply \in ReplySet, Written(k, reply)
  PROVE  out' \in [Conn -> Seq(ReplySet)]
<1>1. Append(out[k], reply) \in Seq(ReplySet)
  BY DEF TypeInv, DataTypes
<1> QED
  BY <1>1, Zenon DEF Written, TypeInv, DataTypes

\* The steps of a call goroutine keep the types.
LEMMA ProcStepTypes ==
  ASSUME TypeInv, NEW k \in Conn, NEW n, ServeCall(k, n) \/ WriteAnswers(k, n)
  PROVE  DataTypes'
<1>1. CASE ServeCall(k, n)
  <2>1. AfterCall(proc[k][n]) \in ProcSet
    BY <1>1, ServeCallEffect, AfterCallType, Zenon
  <2>2. [proc[k] EXCEPT ![n] = AfterCall(proc[k][n])] \in Seq(ProcSet)
    BY <1>1, <2>1, ServeCallEffect, ExceptSeq, Zenon
  <2>3. proc' = [proc EXCEPT ![k] = [proc[k] EXCEPT ![n] = AfterCall(proc[k][n])]]
    BY <1>1, ServeCallEffect, Zenon
  <2>4. UNCHANGED <<taken, out, rd>>
    BY <1>1, Zenon DEF ServeCall
  <2> QED
    BY <2>2, <2>3, <2>4, Zenon DEF TypeInv, DataTypes
<1>2. CASE WriteAnswers(k, n)
  <2>0. /\ proc[k][n] \in ProcSet
        /\ Reply(n, proc[k][n].array, proc[k][n].answers) \in ReplySet
        /\ UNCHANGED out \/ Written(k, Reply(n, proc[k][n].array, proc[k][n].answers))
    BY <1>2, WriteAnswersEffect, Zenon
  <2>1. Finished(proc[k][n]) \in ProcSet
    BY <2>0, Zenon DEF Finished, ProcSet
  <2>2. [proc[k] EXCEPT ![n] = Finished(proc[k][n])] \in Seq(ProcSet)
    BY <1>2, <2>1, WriteAnswersEffect, ExceptSeq, Zenon
  <2>3. proc' = [proc EXCEPT ![k] = [proc[k] EXCEPT ![n] = Finished(proc[k][n])]]
    BY <1>2, WriteAnswersEffect, Zenon
  <2>4. UNCHANGED <<taken, rd>>
    BY <1>2, Zenon DEF WriteAnswers
  <2>5. out' \in [Conn -> Seq(ReplySet)]
    BY <2>0, WrittenType, Zenon DEF TypeInv, DataTypes
  <2> QED
    BY <2>2, <2>3, <2>4, <2>5, Zenon DEF TypeInv, DataTypes
<1> QED
  BY <1>1, <1>2, Zenon

\* The server's steps keep the types of what is read and written.
LEMMA DataTypesNext ==
  ASSUME TypeInv, [Next]_httpVars
  PROVE  DataTypes'
<1> USE Conns DEF TypeInv
<1>0. ASSUME UNCHANGED <<taken, proc, out>>,
             UNCHANGED rd \/ \E k \in Stream : \E l \in {"read", "err", "exit"} :
                                rd' = [rd EXCEPT ![k] = l]
      PROVE  DataTypes'
  BY <1>0, Zenon DEF DataTypes, ControlTypes
<1>1. ASSUME NEW k \in Stream, NEW frame \in Frames[k], ReadFrame(k, frame) PROVE DataTypes'
  <2>1. frame \in FrameSet
    BY ServerAssumption, Zenon
  <2>2. Append(taken[k], frame) \in Seq(FrameSet) /\ Append(taken[k], frame) # <<>>
    <3>1. taken[k] \in Seq(FrameSet)
      BY Zenon DEF DataTypes
    <3> QED
      BY <2>1, <3>1, AppendSeq
  <2>3. UNCHANGED <<proc, out>> /\ taken' = [taken EXCEPT ![k] = Append(taken[k], frame)]
        /\ rd' = [rd EXCEPT ![k] = "op"]
    BY <1>1, Zenon DEF ReadFrame, callVars
  <2> QED
    BY <2>2, <2>3, Zenon DEF DataTypes, ControlTypes
<1>2. ASSUME NEW k \in Stream, ReadFails(k) PROVE DataTypes'
  <2>1. UNCHANGED <<taken, proc>> /\ rd' = [rd EXCEPT ![k] = "err"]
    BY <1>2, Zenon DEF ReadFails
  <2>2. out' \in [Conn -> Seq(ReplySet)]
    BY <1>2, WrittenType, ParseErrorType, Zenon DEF ReadFails, DataTypes
  <2> QED
    BY <2>1, <2>2, Zenon DEF DataTypes, ControlTypes
<1>3. ASSUME NEW k \in Stream, ServeCodec(k) \/ ServeStep(k) \/ PeerLeaves(k) PROVE DataTypes'
  BY <1>0, <1>3, Zenon DEF ServeCodec, ServeStep, AddCodec, CodecClosed, ServeReturns, PeerLeaves,
     callVars
<1>4. CASE StopSwap \/ StopEach
  BY <1>0, <1>4, Zenon DEF StopSwap, StopEach, callVars
<1>5. ASSUME NEW k \in Stream, DispatchReadOp(k) PROVE DataTypes'
  <2>1. taken[k] \in Seq(FrameSet) /\ proc[k] \in Seq(ProcSet) /\ taken[k] # <<>>
    BY <1>5, Zenon DEF DataTypes, DispatchReadOp
  <2>2. taken[k][Len(taken[k])] \in FrameSet
    BY <2>1
  <2>3. Append(proc[k], HandleFrame(taken[k][Len(taken[k])])) \in Seq(ProcSet)
    BY <2>1, <2>2, FrameHandled
  <2>4. UNCHANGED <<taken, out>> /\ rd' = [rd EXCEPT ![k] = "read"]
        /\ proc' = [proc EXCEPT ![k] = Append(proc[k], HandleFrame(taken[k][Len(taken[k])]))]
    BY <1>5, Zenon DEF DispatchReadOp
  <2> QED
    BY <2>3, <2>4, Zenon DEF DataTypes, ControlTypes
<1>6. ASSUME NEW k \in Stream, DrainRead(k) PROVE DataTypes'
  <2>1. CASE UNCHANGED proc
    BY <1>0, <1>6, <2>1, Zenon DEF DrainRead
  <2>2. CASE proc' = [proc EXCEPT ![k] = Append(@, NoProc)]
    <3>1. NoProc \in ProcSet
      BY DEF NoProc, ProcSet
    <3>2. Append(proc[k], NoProc) \in Seq(ProcSet)
      BY <3>1 DEF DataTypes
    <3>3. UNCHANGED <<taken, out>> /\ \E l \in {"read", "exit"} : rd' = [rd EXCEPT ![k] = l]
      BY <1>6, Zenon DEF DrainRead
    <3> QED
      BY <2>2, <3>2, <3>3, Zenon DEF DataTypes, ControlTypes
  <2> QED
    BY <1>6, <2>1, <2>2, Zenon DEF DrainRead
<1>7. ASSUME NEW k \in Stream, DispatchReadErr(k) \/ DispatchClose(k) \/ HandlerClose(k)
      PROVE  DataTypes'
  BY <1>0, <1>7, Zenon DEF DispatchReadErr, DispatchClose, HandlerClose, callVars
<1>8. ASSUME NEW h \in Http, ServeBody(h) PROVE DataTypes'
  <2>0. PICK body \in {request[h].body, NoBody("malformed")} : ServeSingleRequest(h, body)
    BY <1>8, Zenon DEF ServeBody
  <2>1. UNCHANGED rd
    BY <2>0, Zenon DEF ServeSingleRequest
  <2>2. CASE UNCHANGED <<taken, proc, out>>
    BY <1>0, <2>1, <2>2, Zenon
  <2>3. CASE Written(h, ParseError) /\ UNCHANGED <<taken, proc>>
    BY <2>1, <2>3, WrittenType, ParseErrorType, Zenon DEF DataTypes
  <2>4. CASE /\ taken' = [taken EXCEPT ![h] = <<body.frame>>]
             /\ proc' = [proc EXCEPT ![h] = <<HandleFrame(body.frame)>>]
             /\ UNCHANGED out
    <3>1. body.frame \in FrameSet
      <4>1. CASE body = request[h].body
        BY <4>1, HttpAssumption, Zenon DEF CallerTypes
      <4>2. CASE body = NoBody("malformed")
        BY <4>2 DEF NoBody, Frame, FrameSet
      <4> QED
        BY <2>0, <4>1, <4>2, Zenon
    <3>2. <<body.frame>> \in Seq(FrameSet) /\ <<HandleFrame(body.frame)>> \in Seq(ProcSet)
      BY <3>1, FrameHandled
    <3> QED
      BY <2>1, <2>4, <3>2, Zenon DEF DataTypes
  <2> QED
    BY <2>0, <2>2, <2>3, <2>4, Zenon DEF ServeSingleRequest
<1>9. ASSUME NEW h \in Http, ServeHTTP(h) \/ HttpReturns(h) \/ CallerStep(h) \/ DoRequest(h)
                             \/ CancelContext(h) \/ DoFails(h)
      PROVE  DataTypes'
  <2>1. UNCHANGED <<taken, proc, out, rd>>
    BY <1>9, Zenon DEF ServeHTTP, HttpReturns, SingleRequestReturns, CallerStep, Receive,
       WaitCancelled, WaitAnswer, DoRequest, CancelContext, DoFails, callVars, serverVars
  <2> QED
    BY <1>0, <2>1, Zenon
<1>10. CASE UNCHANGED httpVars
  BY <1>0, <1>10, Zenon DEF httpVars, serverVars, callVars
<1> QED
  BY <1>1, <1>2, <1>3, <1>4, <1>5, <1>6, <1>7, <1>8, <1>9, <1>10, ProcStepTypes, Zenon
  DEF Next, Server, StreamNext, DispatchStep, ProcStep, HttpStep

\* The goroutines are where they can be.
LEMMA ControlTypesNext ==
  ASSUME TypeInv, [Next]_httpVars
  PROVE  ControlTypes'
<1> USE Conns DEF TypeInv, ControlTypes
<1> USE DEF serveVars, stopVars, connVars, dispVars
<1>0. ASSUME UNCHANGED <<serveVars, stopVars, connVars, dispVars, rd>> PROVE ControlTypes'
  BY <1>0, Zenon
<1>1. ASSUME NEW k \in Stream,
             (\E frame \in Frames[k] : ReadFrame(k, frame)) \/ ReadFails(k) \/ DispatchReadOp(k)
      PROVE  ControlTypes'
  BY <1>1 DEF ReadFrame, ReadFails, DispatchReadOp
<1>2. ASSUME NEW k \in Conn, NEW n, ServeCall(k, n) \/ WriteAnswers(k, n) PROVE ControlTypes'
  BY <1>0, <1>2, Zenon DEF ServeCall, WriteAnswers
<1>3. ASSUME NEW k \in Stream, ServeCodec(k) PROVE ControlTypes'
  BY <1>3, Zenon DEF ServeCodec, Goto
<1>4. ASSUME NEW k \in Stream, AddCodec(k) PROVE ControlTypes'
  BY <1>4, Zenon DEF AddCodec, Goto
<1>5. ASSUME NEW k \in Stream, CodecClosed(k) \/ ServeReturns(k) PROVE ControlTypes'
  BY <1>5, Zenon DEF CodecClosed, ServeReturns, Goto
<1>6. ASSUME NEW k \in Stream, PeerLeaves(k) PROVE ControlTypes'
  BY <1>6, Zenon DEF PeerLeaves
<1>7. CASE StopSwap \/ StopEach
  <2>1. \A visited \in EachVisits(codecs) : visited \subseteq codecs
    BY DEF EachVisits
  <2>2. closed' \subseteq Conn /\ stop' \in {"each", "done"} /\ run' \in BOOLEAN
        /\ UNCHANGED <<serveVars, gone, dispVars, rd>>
    BY <1>7, <2>1, Zenon DEF StopSwap, StopEach
  <2> QED
    BY <2>2, Zenon
<1>8. ASSUME NEW k \in Stream, DispatchReadErr(k) PROVE ControlTypes'
  BY <1>8, Zenon DEF DispatchReadErr
<1>9. ASSUME NEW k \in Stream, DispatchClose(k) \/ DrainRead(k) PROVE ControlTypes'
  BY <1>9 DEF DispatchClose, DrainRead
<1>10. ASSUME NEW k \in Stream, HandlerClose(k) PROVE ControlTypes'
  BY <1>10, Zenon DEF HandlerClose
<1>11. ASSUME NEW h \in Http, ServeHTTP(h) PROVE ControlTypes'
  <2>1. \E l \in {"returned", "request"} : pc' = [pc EXCEPT ![h] = l]
    BY <1>11, Zenon DEF ServeHTTP, Goto
  <2>2. UNCHANGED <<codecs, stopVars, connVars, dispVars, rd>>
    BY <1>11, Zenon DEF ServeHTTP
  <2> QED
    BY <2>1, <2>2
<1>12. ASSUME NEW h \in Http, ServeBody(h) \/ HttpReturns(h) \/ DoRequest(h) PROVE ControlTypes'
  BY <1>12 DEF ServeBody, ServeSingleRequest, HttpReturns, SingleRequestReturns, DoRequest, Goto
<1>13. ASSUME NEW h \in Http, DoFails(h) PROVE ControlTypes'
  BY <1>13, Zenon DEF DoFails
<1>14. ASSUME NEW h \in Http, CallerStep(h) \/ CancelContext(h) PROVE ControlTypes'
  <2>1. UNCHANGED serverVars
    BY <1>14, Zenon DEF CallerStep, Receive, WaitCancelled, WaitAnswer, CancelContext
  <2> QED
    BY <1>0, <2>1, Zenon DEF serverVars
<1>15. CASE UNCHANGED httpVars
  BY <1>0, <1>15, Zenon DEF httpVars, serverVars
<1> QED
  BY Zenon, <1>1, <1>2, <1>3, <1>4, <1>5, <1>6, <1>7, <1>8, <1>9, <1>10, <1>11, <1>12, <1>13, <1>14,
     <1>15, Zenon
  DEF Next, Server, StreamNext, ServeStep, DispatchStep, ProcStep, HttpStep

\* What a caller has keeps its type.
LEMMA CallerTypesNext ==
  ASSUME TypeInv, [Next]_httpVars
  PROVE  CallerTypes'
<1> USE Conns DEF TypeInv, CallerTypes
<1>0. ASSUME UNCHANGED <<request, clientVars>>,
             UNCHANGED status \/ \E h \in Http : \E code \in Nat :
                                    status' = [status EXCEPT ![h] = code]
      PROVE  CallerTypes'
  <2>1. status' \in [Http -> Nat]
    BY <1>0, Zenon
  <2> QED
    BY <1>0, <2>1, Zenon DEF clientVars
<1>1. ASSUME UNCHANGED <<request, status, clientVars>> PROVE CallerTypes'
  BY <1>0, <1>1, Zenon
<1>2. ASSUME NEW h \in Http, ServeHTTP(h) PROVE CallerTypes'
  <2>1. UNCHANGED <<request, clientVars>>
    BY <1>2, Zenon DEF ServeHTTP
  <2>2. validateRequest(request[h]) \in {405, 413, 415, 0}
    BY DEF validateRequest
  <2>3. UNCHANGED status \/ \E code \in {403, 200, 405, 413, 415} :
                              status' = [status EXCEPT ![h] = code]
    BY <1>2, <2>2 DEF ServeHTTP
  <2> QED
    BY <1>0, <2>1, <2>3
<1>3. ASSUME NEW h \in Http, ServeBody(h) PROVE CallerTypes'
  <2>1. UNCHANGED <<request, clientVars>> /\ status' = [status EXCEPT ![h] = 200]
    BY <1>3, Zenon DEF ServeBody
  <2>2. 200 \in Nat
    OBVIOUS
  <2> QED
    BY <1>0, <2>1, <2>2, Zenon
<1>4. ASSUME NEW h \in Http, HttpReturns(h) PROVE CallerTypes'
  BY <1>1, <1>4, Zenon DEF HttpReturns
<1>5. ASSUME NEW h \in Http, DoRequest(h) \/ CancelContext(h) PROVE CallerTypes'
  BY <1>5, Zenon DEF DoRequest, CancelContext
<1>6. ASSUME NEW h \in Http, DoFails(h) \/ WaitCancelled(h) PROVE CallerTypes'
  BY <1>6, Zenon DEF DoFails, WaitCancelled, Returns
<1>7. ASSUME NEW h \in Http, Receive(h) PROVE CallerTypes'
  <2>1. Decoded(h) \in Seq(AnswerSet)
    <3>1. CASE out[h] = <<>> \/ out[h][1].array # (request[h].kind = "batch")
      BY <3>1 DEF Decoded
    <3>2. CASE out[h] # <<>> /\ out[h][1].array = (request[h].kind = "batch")
      <4>1. out[h] \in Seq(ReplySet)
        BY Zenon DEF DataTypes
      <4>2. out[h][1] \in ReplySet
        BY <3>2, <4>1
      <4> QED
        BY <3>2, <4>2, Zenon DEF Decoded, ReplySet
    <3> QED
      BY <3>1, <3>2, Zenon
  <2>2. CASE \E res \in {"ok", "io"} : Returns(h, res) /\ UNCHANGED resp
    BY <1>7, <2>2 DEF Receive, Returns
  <2>3. CASE /\ cpc' = [cpc EXCEPT ![h] = "wait"]
             /\ resp' = [resp EXCEPT ![h] = Decoded(h)]
             /\ UNCHANGED result
    BY <1>7, <2>1, <2>3, Zenon DEF Receive
  <2> QED
    BY <1>7, <2>2, <2>3, Zenon DEF Receive
<1>8. ASSUME NEW h \in Http, WaitAnswer(h) PROVE CallerTypes'
  <2>1. resp[h] \in Seq(AnswerSet) /\ got[h] \in Seq(AnswerSet) /\ resp[h] # <<>>
    BY <1>8, Zenon DEF WaitAnswer
  <2>2. Tail(resp[h]) \in Seq(AnswerSet) /\ Append(got[h], Head(resp[h])) \in Seq(AnswerSet)
    BY <2>1
  <2>3. /\ resp' = [resp EXCEPT ![h] = Tail(resp[h])]
        /\ got' = [got EXCEPT ![h] = Append(got[h], Head(resp[h]))]
        /\ UNCHANGED <<request, status>>
        /\ \/ UNCHANGED <<cpc, result>>
           \/ \E res \in {"ok", "rpc"} : Returns(h, res)
    BY <1>8, Zenon DEF WaitAnswer
  <2> QED
    BY <2>2, <2>3, Zenon DEF Returns
<1>9. CASE UNCHANGED httpVars
  BY <1>1, <1>9, Zenon DEF httpVars
<1> QED
  BY <1>1, <1>2, <1>3, <1>4, <1>5, <1>6, <1>7, <1>8, <1>9, Zenon
  DEF Next, Server, HttpStep, CallerStep

\* Every step keeps the types.
LEMMA TypeInvNext ==
  ASSUME TypeInv, [Next]_httpVars
  PROVE  TypeInv'
BY ControlTypesNext, DataTypesNext, CallerTypesNext, Zenon DEF TypeInv

\* They hold when the server starts.
LEMMA TypeInvInit == Init => TypeInv
<1> SUFFICES ASSUME Init PROVE TypeInv
  BY Zenon
<1>1. ControlTypes
  BY Conns, ServerAssumption, Zenon DEF Init, ServerInit, ControlTypes
<1>2. DataTypes
  BY Conns DEF Init, ServerInit, DataTypes
<1>3. CallerTypes
  BY DEF Init, CallerTypes
<1> QED
  BY <1>1, <1>2, <1>3, Zenon DEF TypeInv

-----------------------------------------------------------------------------
(* Where the goroutines of a connection are. *)

\* Dispatch has closed the handler of a stream.
HandlerClosed(k) == dpc[k] \in {"drain", "quit"} \/ (dpc[k] = "select" /\ ~reading[k])

\* ServeCodec, dispatch and the read goroutine of a stream: the codec of a handler that
\* is closed is closed, its call goroutines are done, and only drainRead still waits
\* for the read goroutine.
StreamInv(k) ==
  /\ pc[k] \in {"absent", "idle", "checked", "serving", "close", "returned"}
  /\ pc[k] \in {"absent", "idle", "checked"} => dpc[k] = "off"
  /\ k \in codecs => pc[k] \in {"serving", "close"}
  /\ pc[k] = "close" => k \in closed
  /\ pc[k] = "returned" => k \in closed /\ dpc[k] \in {"off", "quit"}
  /\ dpc[k] = "off" => rd[k] = "off" /\ proc[k] = <<>>
  /\ dpc[k] = "wait" => \/ cont[k] = "readErr" /\ rd[k] = "exit"
                        \/ cont[k] = "close" /\ k \in closed
  /\ dpc[k] = "drain" => k \in closed
  /\ HandlerClosed(k) => Running(k) = {}
  /\ HandlerClosed(k) /\ dpc[k] # "drain" => rd[k] = "exit"
  /\ stop = "idle" /\ k \in closed => rd[k] = "exit" /\ Running(k) = {}

\* serveSingleRequest: it takes nothing before it reads, and returns with its call
\* goroutine done.
HttpInv(h) ==
  /\ pc[h] \in {"absent", "idle", "arrived", "request", "closing", "returned"}
  /\ pc[h] \notin {"closing", "returned"} => taken[h] = <<>> /\ proc[h] = <<>> /\ out[h] = <<>>
  /\ pc[h] = "returned" => Running(h) = {}
  /\ h \in closed => pc[h] = "returned"

\* Both, for all connections.
ControlInv ==
  /\ stop = "idle" => run
  /\ \A k \in Stream : StreamInv(k)
  /\ \A h \in Http : HttpInv(h)

\* A step that touches nothing of a stream keeps its StreamInv.
LEMMA StreamFrame ==
  ASSUME NEW k \in Stream, StreamInv(k),
         pc'[k] = pc[k], dpc'[k] = dpc[k], cont'[k] = cont[k], reading'[k] = reading[k],
         rd'[k] = rd[k], proc'[k] = proc[k], k \in codecs' <=> k \in codecs,
         k \in closed' <=> k \in closed, stop' = "idle" => stop = "idle"
  PROVE  StreamInv(k)'
BY Zenon DEF StreamInv, HandlerClosed, Running

\* A step that touches nothing of an HTTP request keeps its HttpInv.
LEMMA HttpFrame ==
  ASSUME NEW h \in Http, HttpInv(h),
         pc'[h] = pc[h], taken'[h] = taken[h], proc'[h] = proc[h], out'[h] = out[h],
         h \in closed' <=> h \in closed
  PROVE  HttpInv(h)'
BY Zenon DEF HttpInv, Running

\* Every step keeps the order in which a connection is served and closed.
LEMMA ControlInvNext ==
  ASSUME TypeInv, ControlInv, [Next]_httpVars
  PROVE  ControlInv'
<1> USE Conns DEF ControlInv
<1> USE DEF serveVars, stopVars, connVars, dispVars, callVars
<1>t. ControlTypes /\ DataTypes
  BY Zenon DEF TypeInv
<1>0. ASSUME UNCHANGED <<pc, codecs, stopVars, closed, dispVars, rd, taken, callVars>>
      PROVE  ControlInv'
  BY <1>0, StreamFrame, HttpFrame, Zenon
<1>1. ASSUME NEW k \in Stream, StreamInv(k)', UNCHANGED <<run, stop>>,
             \A s \in Stream \ {k} :
               /\ pc'[s] = pc[s] /\ dpc'[s] = dpc[s] /\ cont'[s] = cont[s]
               /\ reading'[s] = reading[s] /\ rd'[s] = rd[s] /\ proc'[s] = proc[s]
               /\ s \in codecs' <=> s \in codecs
               /\ s \in closed' <=> s \in closed,
             \A h \in Http :
               /\ pc'[h] = pc[h] /\ taken'[h] = taken[h] /\ proc'[h] = proc[h]
               /\ out'[h] = out[h] /\ (h \in closed' <=> h \in closed)
      PROVE  ControlInv'
  <2>1. \A s \in Stream : StreamInv(s)'
    BY <1>1, StreamFrame, Zenon
  <2>2. \A h \in Http : HttpInv(h)'
    BY <1>1, HttpFrame, Zenon
  <2> QED
    BY <1>1, <2>1, <2>2, Zenon
<1>2. ASSUME NEW h \in Http, HttpInv(h)', UNCHANGED <<stopVars, codecs, dispVars, rd>>,
             \A c \in Conn \ {h} :
               /\ pc'[c] = pc[c] /\ taken'[c] = taken[c] /\ proc'[c] = proc[c]
               /\ out'[c] = out[c] /\ (c \in closed' <=> c \in closed)
      PROVE  ControlInv'
  <2>1. \A s \in Stream : StreamInv(s)'
    BY <1>2, StreamFrame, Zenon
  <2>2. \A g \in Http : HttpInv(g)'
    BY <1>2, HttpFrame, Zenon
  <2> QED
    BY <1>2, <2>1, <2>2, Zenon
<1>3. ASSUME NEW k \in Stream, ServeCodec(k) PROVE ControlInv'
  <2>1. StreamInv(k)'
    BY <1>3, <1>t DEF ServeCodec, Goto, StreamInv, HandlerClosed, Running, ControlTypes
  <2> QED
    BY <1>1, <1>3, <1>t, <2>1 DEF ServeCodec, Goto, ControlTypes
<1>4. ASSUME NEW k \in Stream, AddCodec(k) PROVE ControlInv'
  <2>1. StreamInv(k)'
    BY <1>4, <1>t, Zenon DEF AddCodec, Goto, StreamInv, HandlerClosed, Running, ControlTypes
  <2> QED
    BY <1>1, <1>4, <1>t, <2>1, Zenon DEF AddCodec, Goto, ControlTypes
<1>5. ASSUME NEW k \in Stream, CodecClosed(k) PROVE ControlInv'
  <2>1. StreamInv(k)'
    BY <1>5, <1>t DEF CodecClosed, Goto, StreamInv, HandlerClosed, Running, ControlTypes
  <2> QED
    BY <1>1, <1>5, <1>t, <2>1, Zenon DEF CodecClosed, Goto, ControlTypes
<1>6. ASSUME NEW k \in Stream, ServeReturns(k) PROVE ControlInv'
  <2>1. StreamInv(k)'
    BY <1>6, <1>t DEF ServeReturns, Goto, StreamInv, HandlerClosed, Running, ControlTypes
  <2> QED
    BY <1>1, <1>6, <1>t, <2>1, Zenon DEF ServeReturns, Goto, ControlTypes
<1>7. ASSUME NEW k \in Stream, PeerLeaves(k) PROVE ControlInv'
  BY <1>0, <1>7, Zenon DEF PeerLeaves
<1>8. CASE StopSwap
  <2>1. UNCHANGED <<pc, codecs, closed, dispVars, rd, taken, callVars>> /\ stop' = "each"
    BY <1>8, Zenon DEF StopSwap
  <2> QED
    BY <2>1, StreamFrame, HttpFrame, Zenon
<1>9. CASE StopEach
  <2>1. PICK visited \in EachVisits(codecs) : closed' = closed \cup visited
    BY <1>9, Zenon DEF StopEach
  <2>2. visited \subseteq codecs
    BY Zenon DEF EachVisits
  <2>3. UNCHANGED <<pc, codecs, dispVars, rd, taken, callVars>> /\ stop' = "done"
    BY <1>9, Zenon DEF StopEach
  <2>4. ASSUME NEW s \in Stream PROVE StreamInv(s)'
    BY <2>1, <2>3, Zenon DEF StreamInv, HandlerClosed, Running
  <2>5. ASSUME NEW h \in Http PROVE HttpInv(h)'
    BY <1>t, <2>1, <2>2, <2>3, HttpFrame, Zenon DEF ControlTypes
  <2> QED
    BY <2>3, <2>4, <2>5, Zenon
<1>10. ASSUME NEW k \in Stream, NEW frame, ReadFrame(k, frame) PROVE ControlInv'
  <2>1. StreamInv(k)'
    BY <1>10, <1>t DEF ReadFrame, StreamInv, HandlerClosed, Running, ControlTypes
  <2>2. \A c \in Conn \ {k} : taken'[c] = taken[c]
    BY <1>10, <1>t, Zenon DEF ReadFrame, DataTypes
  <2> QED
    BY <1>1, <1>10, <1>t, <2>1, <2>2, Zenon DEF ReadFrame, ControlTypes
<1>11. ASSUME NEW k \in Stream, ReadFails(k) PROVE ControlInv'
  <2>1. StreamInv(k)'
    BY <1>11, <1>t DEF ReadFails, StreamInv, HandlerClosed, Running, ControlTypes
  <2>2. \A c \in Conn \ {k} : out'[c] = out[c]
    BY <1>11, <1>t, Zenon DEF ReadFails, Written, DataTypes
  <2> QED
    BY <1>1, <1>11, <1>t, <2>1, <2>2, Zenon DEF ReadFails, ControlTypes
<1>12. ASSUME NEW k \in Stream, DispatchReadOp(k) PROVE ControlInv'
  <2>1. /\ dpc[k] = "select" /\ rd[k] = "op" /\ rd'[k] = "read"
        /\ UNCHANGED <<pc, codecs, closed, dispVars, stop>>
    BY <1>12, <1>t, Zenon DEF DispatchReadOp, ControlTypes
  <2>2. StreamInv(k)'
    BY <2>1, Zenon DEF StreamInv, HandlerClosed
  <2>3. \A c \in Conn \ {k} : proc'[c] = proc[c]
    BY <1>12, <1>t, Zenon DEF DispatchReadOp, DataTypes
  <2> QED
    BY <1>1, <1>12, <1>t, <2>2, <2>3, Zenon DEF DispatchReadOp, ControlTypes
<1>13. ASSUME NEW k \in Stream, DispatchReadErr(k) PROVE ControlInv'
  <2>1. StreamInv(k)'
    BY <1>13, <1>t, Zenon DEF DispatchReadErr, StreamInv, HandlerClosed, Running, ControlTypes
  <2> QED
    BY <1>1, <1>13, <1>t, <2>1, Zenon DEF DispatchReadErr, ControlTypes
<1>14. ASSUME NEW k \in Stream, DispatchClose(k) PROVE ControlInv'
  <2>1. StreamInv(k)'
    BY <1>14, <1>t DEF DispatchClose, StreamInv, HandlerClosed, Running, ControlTypes
  <2> QED
    BY <1>1, <1>14, <1>t, <2>1, Zenon DEF DispatchClose, ControlTypes
<1>15. ASSUME NEW k \in Stream, HandlerClose(k) PROVE ControlInv'
  <2>1. StreamInv(k)'
    BY <1>15, <1>t DEF HandlerClose, StreamInv, HandlerClosed, Running, ControlTypes
  <2> QED
    BY <1>1, <1>15, <1>t, <2>1 DEF HandlerClose, ControlTypes
<1>16. ASSUME NEW k \in Stream, DrainRead(k) PROVE ControlInv'
  <2>1. CASE rd[k] = "err"
    <3>1. StreamInv(k)'
      BY <1>16, <1>t, <2>1 DEF DrainRead, StreamInv, HandlerClosed, Running, ControlTypes
    <3> QED
      BY <1>1, <1>16, <1>t, <2>1, <3>1, Zenon DEF DrainRead, ControlTypes
  <2>2. CASE rd[k] = "op"
    <3>1. /\ dpc[k] = "drain" /\ rd'[k] = "read"
          /\ UNCHANGED <<pc, codecs, closed, dispVars, stop>>
          /\ proc' = [proc EXCEPT ![k] = Append(proc[k], NoProc)]
      BY <1>16, <1>t, <2>2, Zenon DEF DrainRead, ControlTypes
    <3>2. Running(k)' = Running(k)
      <4>a. NoProc \in ProcSet
        BY DEF NoProc, ProcSet
      <4>1. /\ proc[k] \in Seq(ProcSet) /\ NoProc \in ProcSet
            /\ proc'[k] = Append(proc[k], NoProc)
        BY <1>t, <3>1, <4>a, Zenon DEF DataTypes
      <4>2. /\ DOMAIN proc'[k] = 1..(Len(proc[k]) + 1) /\ DOMAIN proc[k] = 1..Len(proc[k])
            /\ Len(proc[k]) \in Nat /\ proc'[k][Len(proc[k]) + 1] = NoProc
            /\ \A n \in DOMAIN proc[k] : proc'[k][n] = proc[k][n]
        BY <4>1
      <4>3. \A n \in DOMAIN proc'[k] : n \in DOMAIN proc[k] \/ n = Len(proc[k]) + 1
        BY <4>2
      <4>4. NoProc.st # "run"
        BY Zenon DEF NoProc
      <4>5. \A n \in DOMAIN proc[k] : n \in DOMAIN proc'[k]
        BY <4>2
      <4> QED
        BY <4>2, <4>3, <4>4, <4>5, Zenon DEF Running
    <3>3. StreamInv(k)'
      BY <2>2, <3>1, <3>2, Zenon DEF StreamInv, HandlerClosed
    <3>4. \A c \in Conn \ {k} : proc'[c] = proc[c]
      BY <1>t, <3>1, Zenon DEF DataTypes
    <3> QED
      BY <1>1, <1>16, <1>t, <2>2, <3>3, <3>4 DEF DrainRead, ControlTypes
  <2> QED
    BY <1>16, <2>1, <2>2, Zenon DEF DrainRead
<1>17. ASSUME NEW k \in Conn, NEW n, ServeCall(k, n) \/ WriteAnswers(k, n) PROVE ControlInv'
  <2>a. /\ n \in Running(k)
        /\ UNCHANGED <<pc, codecs, stopVars, closed, dispVars, rd, taken>>
    BY <1>17, Zenon DEF ServeCall, WriteAnswers
  <2>1. /\ n \in Running(k) /\ proc[k] # <<>>
        /\ UNCHANGED <<pc, codecs, stopVars, closed, dispVars, rd, taken>>
    BY <2>a DEF Running
  <2>2. \A c \in Conn \ {k} : proc'[c] = proc[c] /\ out'[c] = out[c]
    BY <1>17, <1>t, Zenon DEF ServeCall, WriteAnswers, Written, DataTypes
  <2>3. CASE k \in Stream
    <3>1. StreamInv(k)'
      BY <2>1, <2>3, Zenon DEF StreamInv, HandlerClosed
    <3> QED
      BY <1>1, <2>1, <2>2, <2>3, <3>1, Zenon
  <2>4. CASE k \in Http
    <3>1. HttpInv(k)'
      BY <2>1, <2>4, Zenon DEF HttpInv
    <3> QED
      BY <1>2, <2>1, <2>2, <2>4, <3>1, Zenon
  <2> QED
    BY <2>3, <2>4, Zenon
<1>18. ASSUME NEW h \in Http, ServeHTTP(h) PROVE ControlInv'
  <2>1. /\ pc[h] = "arrived" /\ \E l \in {"returned", "request"} : pc' = [pc EXCEPT ![h] = l]
        /\ UNCHANGED <<codecs, stopVars, connVars, dispVars, rd, taken, callVars>>
    BY <1>18, Zenon DEF ServeHTTP, Goto
  <2>2. HttpInv(h)'
    BY <1>t, <2>1 DEF HttpInv, Running, ControlTypes
  <2> QED
    BY <1>2, <1>t, <2>1, <2>2, Zenon DEF ControlTypes
<1>19. ASSUME NEW h \in Http, ServeBody(h) PROVE ControlInv'
  <2>1. PICK body : ServeSingleRequest(h, body)
    BY <1>19, Zenon DEF ServeBody
  <2>2. HttpInv(h)'
    <3>1. CASE pc' = [pc EXCEPT ![h] = "closing"] /\ UNCHANGED closed
      BY <1>t, <2>1, <3>1, Zenon DEF ServeSingleRequest, HttpInv, ControlTypes
    <3>2. CASE pc' = [pc EXCEPT ![h] = "returned"] /\ UNCHANGED <<taken, proc, out>>
      BY <1>t, <2>1, <3>2 DEF ServeSingleRequest, HttpInv, Running, ControlTypes
    <3> QED
      BY <2>1, <3>1, <3>2, Zenon DEF ServeSingleRequest, Goto
  <2>3. \A c \in Conn \ {h} :
          /\ pc'[c] = pc[c] /\ taken'[c] = taken[c] /\ proc'[c] = proc[c]
          /\ out'[c] = out[c] /\ (c \in closed' <=> c \in closed)
    BY <1>t, <2>1 DEF ServeSingleRequest, Goto, Written, ControlTypes, DataTypes
  <2> QED
    BY <1>2, <2>1, <2>2, <2>3, Zenon DEF ServeSingleRequest
<1>20. ASSUME NEW h \in Http, HttpReturns(h) PROVE ControlInv'
  <2>1. HttpInv(h)'
    BY <1>20, <1>t, Zenon DEF HttpReturns, SingleRequestReturns, Goto, HttpInv, Running, ControlTypes
  <2> QED
    BY <1>2, <1>20, <1>t, <2>1, Zenon DEF HttpReturns, SingleRequestReturns, Goto, ControlTypes
<1>21. ASSUME NEW h \in Http, DoRequest(h) PROVE ControlInv'
  <2>1. HttpInv(h)'
    BY <1>21, <1>t, Zenon DEF DoRequest, Goto, HttpInv, Running, ControlTypes
  <2> QED
    BY <1>2, <1>21, <1>t, <2>1, Zenon DEF DoRequest, Goto, ControlTypes
<1>22. ASSUME NEW h \in Http, DoFails(h) PROVE ControlInv'
  BY <1>0, <1>22, Zenon DEF DoFails
<1>23. ASSUME NEW h \in Http, CallerStep(h) \/ CancelContext(h) PROVE ControlInv'
  <2>1. UNCHANGED serverVars
    BY <1>23, Zenon DEF CallerStep, Receive, WaitCancelled, WaitAnswer, CancelContext
  <2> QED
    BY <1>0, <2>1, Zenon DEF serverVars
<1>24. CASE UNCHANGED httpVars
  BY <1>0, <1>24, Zenon DEF httpVars, serverVars
<1> QED
  BY Zenon, <1>3, <1>4, <1>5, <1>6, <1>7, <1>8, <1>9, <1>10, <1>11, <1>12, <1>13, <1>14, <1>15,
     <1>16, <1>17, <1>18, <1>19, <1>20, <1>21, <1>22, <1>23, <1>24, Zenon
  DEF Next, Server, StreamNext, ServeStep, DispatchStep, ProcStep, HttpStep

\* No connection is served when the server starts.
LEMMA ControlInvInit == Init => ControlInv
<1> SUFFICES ASSUME Init PROVE ControlInv
  BY Zenon
<1>1. ASSUME NEW k \in Stream PROVE StreamInv(k)
  BY Conns, Zenon DEF Init, ServerInit, StreamInv, HandlerClosed, Running
<1>2. ASSUME NEW h \in Http PROVE HttpInv(h)
  BY Conns, Zenon DEF Init, ServerInit, HttpInv, Running
<1> QED
  BY <1>1, <1>2, Zenon DEF ControlInv, Init, ServerInit

\* When ServeCodec or ServeHTTP returns, nothing of the connection is left behind.
THEOREM ServerLeavesNothing == Spec => []NothingLeftBehind
<1>1. TypeInv /\ ControlInv => NothingLeftBehind
  <2> SUFFICES ASSUME TypeInv, ControlInv, NEW k \in Conn, pc[k] = "returned"
      PROVE  /\ Running(k) = {} /\ k \notin codecs
             /\ k \in Stream => /\ k \in closed
                                /\ dpc[k] \in {"off", "quit"} /\ rd[k] \in {"off", "exit"}
    BY Zenon DEF NothingLeftBehind
  <2>1. CASE k \in Stream
    BY <2>1 DEF ControlInv, StreamInv, HandlerClosed, Running
  <2>2. CASE k \in Http
    BY <2>2, Conns, Zenon DEF ControlInv, HttpInv, TypeInv, ControlTypes
  <2> QED
    BY <2>1, <2>2, Conns, Zenon
<1> QED
  BY <1>1, TypeInvInit, TypeInvNext, ControlInvInit, ControlInvNext, PTL DEF Spec

-----------------------------------------------------------------------------
(* Frames, goroutines and replies. *)

\* The frame that dispatch has not taken yet.
Offered(k) == k \in Stream /\ rd[k] = "op"

\* Dispatch has a goroutine for every frame it took, and each serves its own frame.
FramesInv(k) ==
  /\ Len(taken[k]) = IF Offered(k) THEN Len(proc[k]) + 1 ELSE Len(proc[k])
  /\ \A n \in DOMAIN proc[k] : ProcInv(proc[k][n], taken[k][n])

\* A reply was written once, by a goroutine that is done, and is right; while the peer
\* receives and nobody stops the server, a goroutine that is done has written it.
RepliesInv(k) ==
  /\ \A i \in DOMAIN out[k] :
       LET n == out[k][i].frame
       IN  n # 0 => /\ n \in DOMAIN proc[k] /\ proc[k][n].st = "done"
                    /\ IsAnswered(taken[k][n]) /\ RightReply(taken[k][n], out[k][i])
                    /\ \A j \in DOMAIN out[k] : out[k][j].frame = n => j = i
  /\ k \notin gone /\ stop = "idle" => \A n \in DOMAIN proc[k] :
       proc[k][n].st = "done" /\ IsAnswered(taken[k][n])
         => \E i \in DOMAIN out[k] : out[k][i].frame = n

\* Both, for all connections.
ReplyInv == \A k \in Conn : FramesInv(k) /\ RepliesInv(k)

\* A step that writes nothing to a connection and leaves its goroutines and the frames
\* they serve alone keeps what is known of the replies.
LEMMA RepliesFrame ==
  ASSUME NEW k \in Conn, RepliesInv(k),
         \A n \in DOMAIN proc[k] : taken'[k][n] = taken[k][n],
         proc'[k] = proc[k], out'[k] = out[k],
         gone \subseteq gone', stop' = "idle" => stop = "idle"
  PROVE  RepliesInv(k)'
<1>1. ASSUME NEW i \in DOMAIN out'[k], out'[k][i].frame # 0
      PROVE  /\ out'[k][i].frame \in DOMAIN proc'[k]
             /\ proc'[k][out'[k][i].frame].st = "done"
             /\ IsAnswered(taken'[k][out'[k][i].frame])
             /\ RightReply(taken'[k][out'[k][i].frame], out'[k][i])
             /\ \A j \in DOMAIN out'[k] : out'[k][j].frame = out'[k][i].frame => j = i
  <2>1. PICK n : n = out[k][i].frame
    BY Zenon
  <2>2. /\ n \in DOMAIN proc[k] /\ proc[k][n].st = "done"
        /\ IsAnswered(taken[k][n]) /\ RightReply(taken[k][n], out[k][i])
        /\ \A j \in DOMAIN out[k] : out[k][j].frame = n => j = i
    BY <1>1, <2>1, Zenon DEF RepliesInv
  <2> QED
    BY <2>1, <2>2, Zenon
<1>2. ASSUME k \notin gone', stop' = "idle", NEW n \in DOMAIN proc'[k],
             proc'[k][n].st = "done", IsAnswered(taken'[k][n])
      PROVE  \E i \in DOMAIN out'[k] : out'[k][i].frame = n
  <2>1. /\ k \notin gone /\ stop = "idle" /\ n \in DOMAIN proc[k]
        /\ proc[k][n].st = "done" /\ IsAnswered(taken[k][n])
    BY <1>2, Zenon
  <2>2. \E i \in DOMAIN out[k] : out[k][i].frame = n
    BY <2>1, Zenon DEF RepliesInv
  <2> QED
    BY <2>2, Zenon
<1> QED
  BY <1>1, <1>2, Zenon DEF RepliesInv

\* A step that touches nothing of a connection keeps both.
LEMMA ReplyFrame ==
  ASSUME NEW k \in Conn, FramesInv(k), RepliesInv(k),
         taken'[k] = taken[k], proc'[k] = proc[k], out'[k] = out[k],
         Offered(k)' <=> Offered(k), gone \subseteq gone', stop' = "idle" => stop = "idle"
  PROVE  FramesInv(k)' /\ RepliesInv(k)'
<1>1. FramesInv(k)'
  BY Zenon DEF FramesInv
<1>2. RepliesInv(k)'
  BY RepliesFrame, Zenon
<1> QED
  BY <1>1, <1>2, Zenon

\* The goroutines of a connection as a sequence.
LEMMA Procs ==
  ASSUME TypeInv, NEW k \in Conn, FramesInv(k)
  PROVE  /\ proc[k] \in Seq(ProcSet) /\ Len(proc[k]) \in Nat
         /\ DOMAIN proc[k] = 1..Len(proc[k])
         /\ taken[k] \in Seq(FrameSet) /\ Len(taken[k]) \in Nat
         /\ Len(proc[k]) <= Len(taken[k])
         /\ \A n \in DOMAIN proc[k] :
              /\ proc[k][n] \in ProcSet /\ taken[k][n] \in FrameSet
              /\ ProcInv(proc[k][n], taken[k][n])
         /\ out[k] \in Seq(ReplySet) /\ Len(out[k]) \in Nat /\ DOMAIN out[k] = 1..Len(out[k])
<1>1. /\ proc[k] \in Seq(ProcSet) /\ taken[k] \in Seq(FrameSet) /\ out[k] \in Seq(ReplySet)
  BY Zenon DEF TypeInv, DataTypes
<1>2. /\ Len(proc[k]) \in Nat /\ DOMAIN proc[k] = 1..Len(proc[k]) /\ Len(taken[k]) \in Nat
      /\ Len(out[k]) \in Nat /\ DOMAIN out[k] = 1..Len(out[k])
  BY <1>1
<1>3. Len(proc[k]) <= Len(taken[k])
  BY <1>2 DEF FramesInv
<1>4. \A n \in DOMAIN proc[k] : n \in 1..Len(proc[k]) /\ n \in 1..Len(taken[k])
  BY <1>2, <1>3
<1>5. \A n \in DOMAIN proc[k] : proc[k][n] \in ProcSet /\ taken[k][n] \in FrameSet
  BY <1>1, <1>4, ElementSeq, Zenon
<1> QED
  BY <1>1, <1>2, <1>3, <1>5, Zenon DEF FramesInv

\* Dispatch takes the frame that was offered.
LEMMA FrameTaken ==
  ASSUME TypeInv, NEW k \in Conn, FramesInv(k), RepliesInv(k), Offered(k), ~Offered(k)',
         NEW p \in ProcSet, proc'[k] = Append(proc[k], p), taken'[k] = taken[k],
         out'[k] = out[k], UNCHANGED <<gone, stop>>,
         ProcInv(p, taken[k][Len(taken[k])]),
         k \notin gone /\ stop = "idle" /\ p.st = "done" => ~IsAnswered(taken[k][Len(taken[k])])
  PROVE  FramesInv(k)' /\ RepliesInv(k)'
<1>1. PICK len : len = Len(proc[k])
  BY Zenon
<1>2. /\ len \in Nat /\ DOMAIN proc[k] = 1..len /\ Len(taken[k]) = len + 1
  BY <1>1, Procs, Zenon DEF FramesInv
<1>3. /\ Len(proc'[k]) = len + 1 /\ DOMAIN proc'[k] = 1..(len + 1)
      /\ proc'[k][len + 1] = p
      /\ \A n \in 1..len : proc'[k][n] = proc[k][n]
  <2>1. Append(proc[k], p) \in Seq(ProcSet) /\ Len(Append(proc[k], p)) = len + 1
    BY <1>1, Procs, AppendSeq
  <2>2. DOMAIN Append(proc[k], p) = 1..(len + 1)
    BY <2>1
  <2>3. proc[k] \in Seq(ProcSet)
    BY Procs, Zenon
  <2>4. /\ Append(proc[k], p)[len + 1] = p
        /\ \A n \in 1..len : Append(proc[k], p)[n] = proc[k][n]
    <3>1. PICK s : s = proc[k] /\ s \in Seq(ProcSet)
      BY <2>3, Zenon
    <3>2. /\ Append(s, p)[Len(s) + 1] = p
          /\ \A n \in 1..Len(s) : Append(s, p)[n] = s[n]
      BY <3>1, AppendSeq
    <3> QED
      BY <1>1, <3>1, <3>2, Zenon
  <2> QED
    BY <2>1, <2>2, <2>4, Zenon
<1>4. \A n \in 1..(len + 1) : n = len + 1 \/ n \in 1..len
  BY <1>2
<1>5. \A n \in 1..len : n \in 1..(len + 1) /\ n # len + 1
  BY <1>2
<1>6. FramesInv(k)'
  BY <1>2, <1>3, <1>4, Zenon DEF FramesInv
<1>7. ASSUME NEW i \in DOMAIN out'[k], out'[k][i].frame # 0
      PROVE  /\ out'[k][i].frame \in DOMAIN proc'[k]
             /\ proc'[k][out'[k][i].frame].st = "done"
             /\ IsAnswered(taken'[k][out'[k][i].frame])
             /\ RightReply(taken'[k][out'[k][i].frame], out'[k][i])
             /\ \A j \in DOMAIN out'[k] : out'[k][j].frame = out'[k][i].frame => j = i
  <2>1. PICK n : n = out[k][i].frame
    BY Zenon
  <2>2. /\ n \in DOMAIN proc[k] /\ proc[k][n].st = "done"
        /\ IsAnswered(taken[k][n]) /\ RightReply(taken[k][n], out[k][i])
        /\ \A j \in DOMAIN out[k] : out[k][j].frame = n => j = i
    BY <1>7, <2>1, Zenon DEF RepliesInv
  <2>3. n \in DOMAIN proc'[k] /\ proc'[k][n] = proc[k][n]
    BY <1>2, <1>3, <1>5, <2>2, Zenon
  <2> QED
    BY <2>1, <2>2, <2>3, Zenon
<1>8. ASSUME k \notin gone', stop' = "idle", NEW n \in DOMAIN proc'[k],
             proc'[k][n].st = "done", IsAnswered(taken'[k][n])
      PROVE  \E i \in DOMAIN out'[k] : out'[k][i].frame = n
  <2>1. k \notin gone /\ stop = "idle" /\ IsAnswered(taken[k][n])
    BY <1>8, Zenon
  <2>2. n = len + 1 \/ n \in 1..len
    BY <1>3, <1>4, Zenon
  <2>3. n # len + 1
    BY <1>2, <1>3, <1>8, <2>1, Zenon
  <2>4. n \in DOMAIN proc[k] /\ proc[k][n].st = "done"
    BY <1>2, <1>3, <1>8, <2>2, <2>3, Zenon
  <2>5. \E i \in DOMAIN out[k] : out[k][i].frame = n
    BY <2>1, <2>4, Zenon DEF RepliesInv
  <2> QED
    BY <2>5, Zenon
<1>9. RepliesInv(k)'
  BY <1>7, <1>8, Zenon DEF RepliesInv
<1> QED
  BY <1>6, <1>9, Zenon

\* A goroutine changes its own element.
LEMMA ProcUpdated ==
  ASSUME TypeInv, NEW k \in Conn, FramesInv(k), NEW n \in DOMAIN proc[k], NEW p,
         p \in ProcSet, proc' = [proc EXCEPT ![k] = [proc[k] EXCEPT ![n] = p]]
  PROVE  /\ Len(proc'[k]) = Len(proc[k]) /\ DOMAIN proc'[k] = DOMAIN proc[k]
         /\ proc'[k][n] = p
         /\ \A m \in DOMAIN proc[k] : m # n => proc'[k][m] = proc[k][m]
<1>1. proc'[k] = [proc[k] EXCEPT ![n] = p]
  BY Zenon DEF TypeInv, DataTypes
<1>2. n \in 1..Len(proc[k]) /\ proc[k] \in Seq(ProcSet)
  BY Procs, Zenon
<1>3. [proc[k] EXCEPT ![n] = p] \in Seq(ProcSet) /\ Len([proc[k] EXCEPT ![n] = p]) = Len(proc[k])
  BY <1>2, ExceptSeq, Zenon
<1> QED
  BY <1>1, <1>2, <1>3, Zenon

\* The answer to the next call is kept for the reply.
LEMMA ReplyServeCall ==
  ASSUME TypeInv, NEW k \in Conn, NEW n, FramesInv(k), RepliesInv(k), ServeCall(k, n)
  PROVE  FramesInv(k)' /\ RepliesInv(k)'
<1>0. PICK p : p = AfterCall(proc[k][n])
  BY Zenon
<1>1. /\ n \in DOMAIN proc[k] /\ proc[k][n].st = "run" /\ proc[k][n].calls # <<>>
      /\ proc[k][n] \in ProcSet
      /\ proc' = [proc EXCEPT ![k] = [proc[k] EXCEPT ![n] = p]]
  BY <1>0, ServeCallEffect, Zenon
<1>2. p \in ProcSet /\ ProcInv(p, taken[k][n])
  BY <1>0, <1>1, Procs, CallServed, Zenon
<1>3. p.st = "run"
  BY <1>0, <1>1, Zenon DEF AfterCall, ProcSet
<1>4. /\ Len(proc'[k]) = Len(proc[k]) /\ DOMAIN proc'[k] = DOMAIN proc[k] /\ proc'[k][n] = p
      /\ \A m \in DOMAIN proc[k] : m # n => proc'[k][m] = proc[k][m]
  <2>1. /\ n \in DOMAIN proc[k] /\ p \in ProcSet
        /\ proc' = [proc EXCEPT ![k] = [proc[k] EXCEPT ![n] = p]]
    BY <1>1, <1>2, Zenon
  <2> QED
    BY <2>1, ProcUpdated, Zenon
<1>5. UNCHANGED <<taken, out, rd, gone, stop>>
  BY Zenon DEF ServeCall, stopVars, connVars
<1>6. FramesInv(k)'
  BY <1>2, <1>4, <1>5, Zenon DEF FramesInv, Offered
<1>7. RepliesInv(k)'
  BY <1>1, <1>3, <1>4, <1>5 DEF RepliesInv
<1> QED
  BY <1>6, <1>7, Zenon

\* The goroutine writes its reply, once, unless the connection is closed or gone.
LEMMA ReplyWriteAnswers ==
  ASSUME TypeInv, NEW k \in Conn, NEW n, FramesInv(k), RepliesInv(k), WriteAnswers(k, n),
         k \in closed => stop # "idle"
  PROVE  FramesInv(k)' /\ RepliesInv(k)'
<1> DEFINE p == Finished(proc[k][n])
<1>1. /\ n \in DOMAIN proc[k] /\ proc[k][n].st = "run" /\ proc[k][n].calls = <<>>
      /\ proc[k][n] \in ProcSet /\ n \in Nat /\ n # 0
      /\ proc' = [proc EXCEPT ![k] = [proc[k] EXCEPT ![n] = p]]
  BY WriteAnswersEffect
<1>2. PICK reply : reply = Reply(n, proc[k][n].array, proc[k][n].answers)
  BY Zenon
<1>3. /\ IsAnswered(taken[k][n]) /\ RightReply(taken[k][n], reply)
      /\ Written(k, reply) /\ reply \in ReplySet /\ reply.frame = n
  <2>1. /\ IsAnswered(taken[k][n]) /\ RightReply(taken[k][n], reply)
        /\ proc[k][n].answers # <<>>
    BY <1>1, <1>2, Procs, AllServed, Zenon
  <2> QED
    BY <1>2, <2>1, WriteAnswersEffect, Zenon DEF Reply
<1>4. p \in ProcSet /\ p.st = "done"
  BY <1>1, Zenon DEF Finished, ProcSet
<1> HIDE DEF p
<1>5. /\ Len(proc'[k]) = Len(proc[k]) /\ DOMAIN proc'[k] = DOMAIN proc[k] /\ proc'[k][n] = p
      /\ \A m \in DOMAIN proc[k] : m # n => proc'[k][m] = proc[k][m]
  <2>1. /\ n \in DOMAIN proc[k] /\ p \in ProcSet
        /\ proc' = [proc EXCEPT ![k] = [proc[k] EXCEPT ![n] = p]]
    BY <1>1, <1>4, Zenon
  <2> QED
    BY <2>1, ProcUpdated, Zenon
<1>6. UNCHANGED <<taken, rd, gone, stop>>
  BY Zenon DEF WriteAnswers, stopVars, connVars
<1>7. FramesInv(k)'
  BY <1>4, <1>5, <1>6, Zenon DEF FramesInv, Offered, ProcInv
<1>8. ASSUME NEW i \in DOMAIN out[k], out[k][i].frame # 0
      PROVE  out[k][i].frame # n
  BY <1>1, <1>8, Zenon DEF RepliesInv
<1>9. CASE k \in gone \cup closed
  <2>1. out' = out
    BY <1>3, <1>9, Zenon DEF Written
  <2>2. ~(k \notin gone' /\ stop' = "idle")
    BY <1>6, <1>9, Zenon
  <2> QED
    BY <1>5, <1>6, <1>7, <1>4, <2>1, <2>2, Zenon DEF RepliesInv
<1>10. CASE k \notin gone \cup closed
  <2>1. PICK len : len = Len(out[k])
    BY Zenon
  <2>2. len \in Nat /\ DOMAIN out[k] = 1..len /\ out[k] \in Seq(ReplySet)
    BY <2>1, Procs, Zenon
  <2>3. out'[k] = Append(out[k], reply)
    BY <1>3, <1>10, Zenon DEF Written, TypeInv, DataTypes
  <2>4. /\ DOMAIN out'[k] = 1..(len + 1) /\ out'[k][len + 1] = reply
        /\ \A i \in 1..len : out'[k][i] = out[k][i]
    <3>1. Append(out[k], reply) \in Seq(ReplySet) /\ Len(Append(out[k], reply)) = len + 1
      BY <1>3, <2>1, <2>2, AppendSeq, Zenon
    <3>2. DOMAIN Append(out[k], reply) = 1..(len + 1)
      BY <3>1
    <3> QED
      BY <1>3, <2>1, <2>2, <2>3, <3>2, AppendSeq
  <2>5. \A i \in 1..(len + 1) : i = len + 1 \/ i \in 1..len
    BY <2>2
  <2>6. len + 1 \in 1..(len + 1) /\ \A i \in 1..len : i \in 1..(len + 1)
    BY <2>2
  <2>7. ASSUME NEW i \in DOMAIN out'[k], out'[k][i].frame # 0
        PROVE  LET m == out'[k][i].frame
               IN  /\ m \in DOMAIN proc'[k] /\ proc'[k][m].st = "done"
                   /\ IsAnswered(taken'[k][m]) /\ RightReply(taken'[k][m], out'[k][i])
                   /\ \A j \in DOMAIN out'[k] : out'[k][j].frame = m => j = i
    <3>1. CASE i = len + 1
      BY <1>1, <1>3, <1>4, <1>5, <1>6, <1>8, <2>2, <2>4, <2>5, <3>1
    <3>2. CASE i \in 1..len
      <4>1. out'[k][i] = out[k][i] /\ out[k][i].frame # n /\ i \in DOMAIN out[k]
        BY <1>8, <2>2, <2>4, <2>7, <3>2, Zenon
      <4>2. PICK m : m = out[k][i].frame
        BY Zenon
      <4>3. /\ m # 0 /\ m # n /\ m \in DOMAIN proc[k] /\ proc[k][m].st = "done"
            /\ IsAnswered(taken[k][m]) /\ RightReply(taken[k][m], out[k][i])
            /\ \A j \in DOMAIN out[k] : out[k][j].frame = m => j = i
        BY <2>7, <4>1, <4>2, Zenon DEF RepliesInv
      <4>4. \A j \in DOMAIN out'[k] : out'[k][j].frame = m => j = i
        BY <1>3, <2>2, <2>4, <2>5, <4>3, Zenon
      <4> QED
        BY <1>5, <1>6, <4>1, <4>2, <4>3, <4>4, Zenon
    <3> QED
      BY <2>4, <2>5, <2>7, <3>1, <3>2, Zenon
  <2>8. ASSUME k \notin gone', stop' = "idle", NEW m \in DOMAIN proc'[k],
               proc'[k][m].st = "done", IsAnswered(taken'[k][m])
        PROVE  \E i \in DOMAIN out'[k] : out'[k][i].frame = m
    <3>1. CASE m = n
      BY <1>3, <2>4, <2>6, <3>1, Zenon
    <3>2. CASE m # n
      <4>1. PICK i \in DOMAIN out[k] : out[k][i].frame = m
        BY <1>5, <1>6, <2>8, <3>2, Zenon DEF RepliesInv
      <4> QED
        BY <2>2, <2>4, <2>6, <4>1, Zenon
    <3> QED
      BY <3>1, <3>2, Zenon
  <2> QED
    BY <1>7, <2>7, <2>8, Zenon DEF RepliesInv
<1> QED
  BY <1>9, <1>10, Zenon

\* An answer to what could not be parsed is no reply to a frame.
LEMMA ReplyParseError ==
  ASSUME TypeInv, NEW k \in Conn, FramesInv(k), RepliesInv(k),
         Written(k, ParseError) \/ UNCHANGED out, taken'[k] = taken[k], proc'[k] = proc[k],
         Offered(k)' <=> Offered(k), UNCHANGED <<gone, stop>>
  PROVE  FramesInv(k)' /\ RepliesInv(k)'
<1>1. CASE out'[k] = out[k]
  BY <1>1, ReplyFrame, Zenon
<1>2. CASE out'[k] # out[k]
  <2>1. out'[k] = Append(out[k], ParseError)
    BY <1>2, Zenon DEF Written, TypeInv, DataTypes
  <2>2. PICK len : len = Len(out[k])
    BY Zenon
  <2>3. len \in Nat /\ DOMAIN out[k] = 1..len /\ out[k] \in Seq(ReplySet)
    BY <2>2, Procs, Zenon
  <2>4. /\ DOMAIN out'[k] = 1..(len + 1) /\ out'[k][len + 1] = ParseError
        /\ \A i \in 1..len : out'[k][i] = out[k][i]
    <3>1. /\ Append(out[k], ParseError) \in Seq(ReplySet)
          /\ Len(Append(out[k], ParseError)) = len + 1
      BY <2>2, <2>3, AppendSeq, ParseErrorType
    <3>2. DOMAIN Append(out[k], ParseError) = 1..(len + 1)
      BY <3>1
    <3> QED
      BY <2>1, <2>2, <2>3, <3>2, AppendSeq, ParseErrorType
  <2>5. \A i \in 1..(len + 1) : i = len + 1 \/ i \in 1..len
    BY <2>3
  <2>6. \A i \in 1..len : i \in 1..(len + 1)
    BY <2>3
  <2>7. ParseError.frame = 0
    BY Zenon DEF ParseError, Reply
  <2>8. FramesInv(k)'
    BY Zenon DEF FramesInv
  <2>9. ASSUME NEW i \in DOMAIN out'[k], out'[k][i].frame # 0
        PROVE  LET m == out'[k][i].frame
               IN  /\ m \in DOMAIN proc'[k] /\ proc'[k][m].st = "done"
                   /\ IsAnswered(taken'[k][m]) /\ RightReply(taken'[k][m], out'[k][i])
                   /\ \A j \in DOMAIN out'[k] : out'[k][j].frame = m => j = i
    <3>1. i \in 1..len /\ i \in DOMAIN out[k] /\ out'[k][i] = out[k][i]
      BY <2>3, <2>4, <2>5, <2>7, <2>9, Zenon
    <3>2. PICK m : m = out[k][i].frame
      BY Zenon
    <3>3. /\ m # 0 /\ m \in DOMAIN proc[k] /\ proc[k][m].st = "done"
          /\ IsAnswered(taken[k][m]) /\ RightReply(taken[k][m], out[k][i])
          /\ \A j \in DOMAIN out[k] : out[k][j].frame = m => j = i
      BY <2>9, <3>1, <3>2, Zenon DEF RepliesInv
    <3>4. \A j \in DOMAIN out'[k] : out'[k][j].frame = m => j = i
      BY <2>3, <2>4, <2>5, <2>7, <3>3, Zenon
    <3> QED
      BY <3>1, <3>2, <3>3, <3>4, Zenon
  <2>10. ASSUME k \notin gone', stop' = "idle", NEW m \in DOMAIN proc'[k],
                proc'[k][m].st = "done", IsAnswered(taken'[k][m])
         PROVE  \E i \in DOMAIN out'[k] : out'[k][i].frame = m
    <3>1. PICK i \in DOMAIN out[k] : out[k][i].frame = m
      BY <2>10, Zenon DEF RepliesInv
    <3> QED
      BY <2>3, <2>4, <2>6, <3>1, Zenon
  <2>11. RepliesInv(k)'
    BY <2>9, <2>10, Zenon DEF RepliesInv
  <2> QED
    BY <2>8, <2>11, Zenon
<1> QED
  BY <1>1, <1>2, Zenon

\* Every step keeps replies and frames together.
LEMMA ReplyInvNext ==
  ASSUME TypeInv, ControlInv, ReplyInv, [Next]_httpVars
  PROVE  ReplyInv'
<1> USE Conns DEF ReplyInv
<1> USE DEF stopVars, connVars, dispVars, callVars
<1>t. ControlTypes /\ DataTypes
  BY Zenon DEF TypeInv
<1>0. ASSUME UNCHANGED <<taken, proc, out>>, gone \subseteq gone',
             stop' = "idle" => stop = "idle",
             \A k \in Stream : rd'[k] = "op" <=> rd[k] = "op"
      PROVE  ReplyInv'
  <2>1. \A k \in Conn : Offered(k)' <=> Offered(k)
    BY <1>0, Zenon DEF Offered
  <2> QED
    BY <1>0, <2>1, ReplyFrame, Zenon
<1>1. ASSUME NEW k \in Conn, FramesInv(k)', RepliesInv(k)', UNCHANGED <<gone, stop>>,
             \A c \in Conn \ {k} : /\ taken'[c] = taken[c] /\ proc'[c] = proc[c]
                                   /\ out'[c] = out[c] /\ (Offered(c)' <=> Offered(c))
      PROVE  ReplyInv'
  BY <1>1, ReplyFrame, Zenon
<1>2. ASSUME NEW k \in Stream, NEW frame \in Frames[k], ReadFrame(k, frame) PROVE ReplyInv'
  <2>1. /\ rd[k] = "read" /\ rd' = [rd EXCEPT ![k] = "op"]
        /\ taken' = [taken EXCEPT ![k] = Append(taken[k], frame)]
        /\ UNCHANGED <<proc, out, gone, stop>>
    BY <1>2, Zenon DEF ReadFrame
  <2>2. frame \in FrameSet
    BY ServerAssumption, Zenon
  <2>3. ~Offered(k) /\ Offered(k)' /\ \A c \in Conn \ {k} : Offered(c)' <=> Offered(c)
    BY <1>t, <2>1, Zenon DEF Offered, ControlTypes
  <2>4. /\ Len(taken[k]) = Len(proc[k]) /\ Len(proc[k]) \in Nat
        /\ DOMAIN proc[k] = 1..Len(proc[k]) /\ taken[k] \in Seq(FrameSet)
    BY <2>3, Procs, Zenon DEF FramesInv
  <2>5. taken'[k] = Append(taken[k], frame)
    BY <1>t, <2>1, Zenon DEF DataTypes
  <2>6. /\ Len(taken'[k]) = Len(proc[k]) + 1
        /\ \A n \in DOMAIN proc[k] : taken'[k][n] = taken[k][n]
    BY <2>2, <2>4, <2>5, AppendSeq
  <2>7. FramesInv(k)'
    BY <2>1, <2>3, <2>6, Zenon DEF FramesInv
  <2>8. RepliesInv(k)'
    BY <2>1, <2>6, RepliesFrame, Zenon
  <2>9. \A c \in Conn \ {k} : taken'[c] = taken[c]
    BY <1>t, <2>1, Zenon DEF DataTypes
  <2> QED
    BY <1>1, <2>1, <2>3, <2>7, <2>8, <2>9, Zenon
<1>3. ASSUME NEW k \in Stream, ReadFails(k) PROVE ReplyInv'
  <2>1. /\ Written(k, ParseError) \/ UNCHANGED out
        /\ UNCHANGED <<taken, proc, gone, stop>>
        /\ rd[k] = "read" /\ rd' = [rd EXCEPT ![k] = "err"]
    BY <1>3, Zenon DEF ReadFails
  <2>2. \A c \in Conn : Offered(c)' <=> Offered(c)
    BY <1>t, <2>1, Zenon DEF Offered, ControlTypes
  <2>3. FramesInv(k)' /\ RepliesInv(k)'
    BY <2>1, <2>2, ReplyParseError, Zenon
  <2>4. \A c \in Conn \ {k} : out'[c] = out[c]
    BY <1>t, <2>1, Zenon DEF Written, DataTypes
  <2> QED
    BY <1>1, <2>1, <2>2, <2>3, <2>4, Zenon
<1>4. ASSUME NEW k \in Stream, DispatchReadOp(k) PROVE ReplyInv'
  <2> DEFINE frame == taken[k][Len(taken[k])]
  <2>1. /\ rd[k] = "op" /\ rd' = [rd EXCEPT ![k] = "read"]
        /\ proc' = [proc EXCEPT ![k] = Append(proc[k], HandleFrame(frame))]
        /\ UNCHANGED <<taken, out, gone, stop>>
    BY <1>4, Zenon DEF DispatchReadOp
  <2>2. Offered(k) /\ ~Offered(k)' /\ \A c \in Conn \ {k} : Offered(c)' <=> Offered(c)
    BY <1>t, <2>1, Zenon DEF Offered, ControlTypes
  <2>3. frame \in FrameSet
    <3>1. taken[k] \in Seq(FrameSet) /\ taken[k] # <<>>
      BY <1>t, <2>1, Zenon DEF DataTypes
    <3> QED
      BY <3>1
  <2>4. /\ HandleFrame(frame) \in ProcSet /\ ProcInv(HandleFrame(frame), frame)
        /\ HandleFrame(frame).st = "done" => ~IsAnswered(frame)
    BY <2>3, FrameHandled, Zenon
  <2>5. proc'[k] = Append(proc[k], HandleFrame(frame)) /\ \A c \in Conn \ {k} : proc'[c] = proc[c]
    BY <1>t, <2>1, Zenon DEF DataTypes
  <2>6. FramesInv(k)' /\ RepliesInv(k)'
    BY <2>1, <2>2, <2>4, <2>5, FrameTaken, Zenon
  <2> QED
    BY <1>1, <2>1, <2>2, <2>5, <2>6, Zenon
<1>5. ASSUME NEW k \in Stream, DrainRead(k) PROVE ReplyInv'
  <2>1. CASE rd[k] = "err"
    <3>1. /\ rd' = [rd EXCEPT ![k] = "exit"] /\ UNCHANGED <<taken, proc, out, gone, stop>>
      BY <1>5, <2>1, Zenon DEF DrainRead
    <3> QED
      BY <1>0, <1>t, <2>1, <3>1, Zenon DEF ControlTypes
  <2>2. CASE rd[k] = "op"
    <3> DEFINE frame == taken[k][Len(taken[k])]
    <3>1. /\ rd' = [rd EXCEPT ![k] = "read"] /\ dpc[k] = "drain"
          /\ proc' = [proc EXCEPT ![k] = Append(proc[k], NoProc)]
          /\ UNCHANGED <<taken, out, gone, stop>>
      BY <1>5, <2>2, Zenon DEF DrainRead
    <3>2. Offered(k) /\ ~Offered(k)' /\ \A c \in Conn \ {k} : Offered(c)' <=> Offered(c)
      BY <1>t, <2>2, <3>1, Zenon DEF Offered, ControlTypes
    <3>3. NoProc \in ProcSet /\ ProcInv(NoProc, frame)
      BY DEF NoProc, ProcSet, ProcInv
    <3>4. stop # "idle"
      BY <2>2, <3>1, Zenon DEF ControlInv, StreamInv
    <3>5. proc'[k] = Append(proc[k], NoProc) /\ \A c \in Conn \ {k} : proc'[c] = proc[c]
      BY <1>t, <3>1, Zenon DEF DataTypes
    <3>6. FramesInv(k)' /\ RepliesInv(k)'
      BY <3>1, <3>2, <3>3, <3>4, <3>5, FrameTaken, Zenon
    <3> QED
      BY <1>1, <3>1, <3>2, <3>5, <3>6, Zenon
  <2> QED
    BY <1>5, <2>1, <2>2, Zenon DEF DrainRead
<1>6. ASSUME NEW k \in Conn, NEW n, ServeCall(k, n) \/ WriteAnswers(k, n) PROVE ReplyInv'
  <2>1. UNCHANGED <<taken, gone, stop>> /\ n \in Running(k)
        /\ \A c \in Conn : Offered(c)' <=> Offered(c)
    BY <1>6, Zenon DEF ServeCall, WriteAnswers, Offered
  <2>2. \A c \in Conn \ {k} : proc'[c] = proc[c] /\ out'[c] = out[c]
    BY <1>6, <1>t, Zenon DEF ServeCall, WriteAnswers, Written, DataTypes
  <2>3. k \in closed => stop # "idle"
    BY <2>1, Zenon DEF ControlInv, StreamInv, HttpInv
  <2>4. FramesInv(k)' /\ RepliesInv(k)'
    BY <1>6, <2>3, ReplyServeCall, ReplyWriteAnswers, Zenon
  <2> QED
    BY <1>1, <2>1, <2>2, <2>4, Zenon
<1>7. ASSUME NEW k \in Stream, ServeCodec(k) \/ ServeStep(k) \/ PeerLeaves(k) PROVE ReplyInv'
  <2>1. /\ UNCHANGED <<taken, proc, out, stop>> /\ gone \subseteq gone'
        /\ UNCHANGED rd \/ rd' = [rd EXCEPT ![k] = "read"]
    BY <1>7, Zenon DEF ServeCodec, ServeStep, AddCodec, CodecClosed, ServeReturns, PeerLeaves
  <2>2. rd' # rd => rd[k] = "off"
    BY <1>7, Zenon DEF ServeCodec, ServeStep, AddCodec, CodecClosed, ServeReturns, PeerLeaves,
       ControlInv, StreamInv
  <2> QED
    BY <1>0, <1>t, <2>1, <2>2, Zenon DEF ControlTypes
<1>8. CASE StopSwap \/ StopEach
  <2>1. UNCHANGED <<taken, proc, out, gone, rd>> /\ stop' # "idle"
    BY <1>8, Zenon DEF StopSwap, StopEach
  <2> QED
    BY <1>0, <2>1, Zenon
<1>9. ASSUME NEW k \in Stream, DispatchReadErr(k) \/ DispatchClose(k) \/ HandlerClose(k)
      PROVE  ReplyInv'
  <2>1. /\ UNCHANGED <<taken, proc, out, gone, stop>>
        /\ UNCHANGED rd \/ (rd[k] = "err" /\ rd' = [rd EXCEPT ![k] = "exit"])
    BY <1>9, Zenon DEF DispatchReadErr, DispatchClose, HandlerClose
  <2> QED
    BY <1>0, <1>t, <2>1, Zenon DEF ControlTypes
<1>10. ASSUME NEW h \in Http, ServeBody(h) PROVE ReplyInv'
  <2>0. PICK body \in {request[h].body, NoBody("malformed")} : ServeSingleRequest(h, body)
    BY <1>10, Zenon DEF ServeBody
  <2>1. UNCHANGED <<rd, gone, stop>> /\ pc[h] = "request"
        /\ \A c \in Conn : Offered(c)' <=> Offered(c)
    BY <2>0, Zenon DEF ServeSingleRequest, Offered
  <2>2. taken[h] = <<>> /\ proc[h] = <<>> /\ out[h] = <<>>
    BY <2>1, Zenon DEF ControlInv, HttpInv
  <2>3. \A c \in Conn \ {h} : taken'[c] = taken[c] /\ proc'[c] = proc[c] /\ out'[c] = out[c]
    BY <1>t, <2>0, Zenon DEF ServeSingleRequest, Written, DataTypes
  <2>4. CASE (Written(h, ParseError) \/ UNCHANGED out) /\ UNCHANGED <<taken, proc>>
    BY <1>1, <2>1, <2>3, <2>4, ReplyParseError, Zenon
  <2>5. CASE /\ body.shape = "frame"
             /\ taken' = [taken EXCEPT ![h] = <<body.frame>>]
             /\ proc' = [proc EXCEPT ![h] = <<HandleFrame(body.frame)>>]
             /\ UNCHANGED out
    <3>1. body.frame \in FrameSet
      <4>1. CASE body = request[h].body
        BY <4>1, HttpAssumption, Zenon DEF TypeInv, CallerTypes
      <4>2. CASE body = NoBody("malformed")
        BY <4>2 DEF NoBody, Frame, FrameSet
      <4> QED
        BY <2>0, <4>1, <4>2, Zenon
    <3>2. PICK p : p = HandleFrame(body.frame)
      BY Zenon
    <3>3. p \in ProcSet /\ ProcInv(p, body.frame) /\ (p.st = "done" => ~IsAnswered(body.frame))
      BY <3>1, <3>2, FrameHandled, Zenon
    <3>4. taken'[h] = <<body.frame>> /\ proc'[h] = <<p>> /\ out'[h] = <<>> /\ ~Offered(h)'
      BY <1>t, <2>2, <2>5, <3>2, Zenon DEF DataTypes, Offered
    <3>5. FramesInv(h)'
      BY <3>3, <3>4 DEF FramesInv
    <3>6. RepliesInv(h)'
      <4>1. /\ DOMAIN out'[h] = {} /\ DOMAIN proc'[h] = {1}
            /\ proc'[h][1] = p /\ taken'[h][1] = body.frame
        BY <3>4
      <4>2. ASSUME NEW n \in DOMAIN proc'[h], proc'[h][n].st = "done"
            PROVE  ~IsAnswered(taken'[h][n])
        BY <3>3, <4>1, <4>2, Zenon
      <4> QED
        BY <4>1, <4>2, Zenon DEF RepliesInv
    <3> QED
      BY <1>1, <2>1, <2>3, <3>5, <3>6, Zenon
  <2> QED
    BY <2>0, <2>4, <2>5, Zenon DEF ServeSingleRequest
<1>11. ASSUME NEW h \in Http, ServeHTTP(h) \/ HttpReturns(h) \/ CallerStep(h) \/ DoRequest(h)
                              \/ CancelContext(h) \/ DoFails(h)
       PROVE  ReplyInv'
  <2>1. UNCHANGED <<taken, proc, out, rd, stop>>
    BY <1>11, Zenon DEF ServeHTTP, HttpReturns, SingleRequestReturns, CallerStep, Receive,
       WaitCancelled, WaitAnswer, DoRequest, CancelContext, DoFails, serverVars
  <2>2. gone \subseteq gone'
    BY <1>11, Zenon DEF ServeHTTP, HttpReturns, SingleRequestReturns, CallerStep, Receive,
       WaitCancelled, WaitAnswer, DoRequest, CancelContext, DoFails, serverVars
  <2> QED
    BY <1>0, <2>1, <2>2, Zenon
<1>12. CASE UNCHANGED httpVars
  BY <1>0, <1>12, Zenon DEF httpVars, serverVars
<1> QED
  BY <1>2, <1>3, <1>4, <1>5, <1>6, <1>7, <1>8, <1>9, <1>10, <1>11, <1>12, Zenon
  DEF Next, Server, StreamNext, DispatchStep, ProcStep, HttpStep

\* There are no frames when the server starts.
LEMMA ReplyInvInit == Init => ReplyInv
<1> SUFFICES ASSUME Init, NEW k \in Conn PROVE FramesInv(k) /\ RepliesInv(k)
  BY Zenon DEF ReplyInv
<1>1. taken[k] = <<>> /\ proc[k] = <<>> /\ out[k] = <<>> /\ ~Offered(k)
  BY DEF Init, ServerInit, Offered
<1>2. Len(taken[k]) = Len(proc[k]) /\ DOMAIN proc[k] = {} /\ DOMAIN out[k] = {}
  BY <1>1
<1>3. FramesInv(k)
  BY <1>1, <1>2, Zenon DEF FramesInv
<1>4. RepliesInv(k)
  BY <1>2, Zenon DEF RepliesInv
<1> QED
  BY <1>3, <1>4, Zenon

\* Whatever the order in which the goroutines finish, a frame is answered at most
\* once, with all of its answers in order.
THEOREM FrameAnsweredOnce == Spec => []OneReplyPerFrame
<1>1. ReplyInv => OneReplyPerFrame
  BY Zenon DEF ReplyInv, RepliesInv, OneReplyPerFrame
<1> QED
  BY <1>1, TypeInvInit, TypeInvNext, ControlInvInit, ControlInvNext, ReplyInvInit,
     ReplyInvNext, PTL DEF Spec

\* Until somebody calls Stop, no answer is lost on a connection whose peer receives.
THEOREM NoAnswerLost == Spec => []AnswersDelivered
<1>1. TypeInv /\ ReplyInv => AnswersDelivered
  <2> SUFFICES ASSUME TypeInv, ReplyInv, NEW k \in Conn, k \notin gone, stop = "idle",
                      NEW n \in DOMAIN proc[k] \ Running(k), IsAnswered(taken[k][n])
      PROVE  \E i \in DOMAIN out[k] : out[k][i].frame = n
    BY Zenon DEF AnswersDelivered
  <2>1. proc[k][n] \in ProcSet
    BY Procs, Zenon DEF ReplyInv
  <2>2. proc[k][n].st = "done"
    BY <2>1, Zenon DEF Running, ProcSet
  <2> QED
    BY <2>2, Zenon DEF ReplyInv, RepliesInv
<1> QED
  BY <1>1, TypeInvInit, TypeInvNext, ControlInvInit, ControlInvNext, ReplyInvInit,
     ReplyInvNext, PTL DEF Spec

-----------------------------------------------------------------------------
(* The caller. *)

\* The answers are the answers to the messages, one to each.
Answers(q, msgs) ==
  /\ Len(q) = Len(msgs)
  /\ \E to \in [DOMAIN q -> DOMAIN msgs] :
       /\ \A i, j \in DOMAIN q : to[i] = to[j] => i = j
       /\ \A n \in DOMAIN msgs : \E i \in DOMAIN q : to[i] = n
       /\ \A i \in DOMAIN q : /\ q[i].id = msgs[to[i]].id
                              /\ q[i].ok <=> msgs[to[i]].method = "ok"

CallerInv(h) ==
  LET r == request[h]
      q == got[h] \o resp[h]
  IN  /\ \A n \in DOMAIN taken[h] : taken[h][n] = r.body.frame
      /\ r.kind # "other" => \A i \in DOMAIN out[h] : out[h][i].frame # 0
      /\ cpc[h] \in {"idle", "sent"} => got[h] = <<>> /\ resp[h] = <<>>
      /\ cpc[h] # "returned" => result[h] = "none"
      /\ cpc[h] = "wait" => r.kind \in {"call", "batch"} /\ q # <<>>
      /\ q # <<>> => r.kind \in {"call", "batch"} /\ Answers(q, r.body.frame.msgs)
      /\ result[h] \in {"ok", "rpc"} /\ r.kind \in {"call", "batch"} =>
           q # <<>> /\ resp[h] = <<>>

ClientInv == \A h \in Http : CallerInv(h)

\* A step that touches nothing of a caller keeps its CallerInv.
LEMMA CallerFrame ==
  ASSUME NEW h \in Http, CallerInv(h), request'[h] = request[h], cpc'[h] = cpc[h],
         resp'[h] = resp[h], got'[h] = got[h], result'[h] = result[h],
         taken'[h] = taken[h], out'[h] = out[h]
  PROVE  CallerInv(h)'
BY Zenon DEF CallerInv

\* What sendHTTP and sendBatchHTTP decode are the answers to what was sent.
LEMMA DecodedAnswers ==
  ASSUME TypeInv, ReplyInv, NEW h \in Http, CallerInv(h),
         request[h].kind \in {"call", "batch"}, Decoded(h) # <<>>
  PROVE  Answers(Decoded(h), request[h].body.frame.msgs)
<1> USE Conns
<1>1. PICK frame, reply : frame = request[h].body.frame /\ reply = out[h][1]
  BY Zenon
<1>2. PICK msgs : msgs = frame.msgs
  BY Zenon
<1>3. /\ out[h] # <<>> /\ Decoded(h) = reply.answers
      /\ reply.array = (request[h].kind = "batch")
  BY <1>1, Zenon DEF Decoded
<1>4. /\ request[h] \in HttpRequests /\ frame \in FrameSet
      /\ request[h] = ClientRequest(request[h].kind, frame.msgs)
      /\ \A i \in DOMAIN msgs : hasValidID(msgs[i]) /\ ~msgs[i].answer
  <2>1. request[h] \in HttpRequests
    BY Zenon DEF TypeInv, CallerTypes
  <2> QED
    BY <1>1, <1>2, <2>1, HttpAssumption, Zenon
<1>5. frame.batch <=> request[h].kind = "batch"
  <2>1. request[h].body = Body(Frame(request[h].kind = "batch", frame.msgs))
    BY <1>4 DEF ClientRequest, HttpRequest
  <2>2. CASE request[h].kind = "batch"
    <3>1. request[h].body = Body(Frame(TRUE, frame.msgs))
      BY <2>1, <2>2, Zenon
    <3> QED
      BY <1>1, <2>2, <3>1 DEF Body, Frame
  <2>3. CASE request[h].kind # "batch"
    <3>1. request[h].body = Body(Frame(FALSE, frame.msgs))
      BY <2>1, <2>3, Zenon
    <3> QED
      BY <1>1, <2>3, <3>1 DEF Body, Frame
  <2> QED
    BY <2>2, <2>3, Zenon
<1>6. /\ 1 \in DOMAIN out[h] /\ reply \in ReplySet
  BY <1>1, <1>3, Procs DEF ReplyInv
<1>7. reply.frame # 0
  BY <1>1, <1>6, Zenon DEF CallerInv
<1>8. IsAnswered(frame) /\ RightReply(frame, reply)
  <2>1. /\ reply.frame \in DOMAIN proc[h] /\ IsAnswered(taken[h][reply.frame])
        /\ RightReply(taken[h][reply.frame], reply)
    BY <1>1, <1>6, <1>7, Zenon DEF ReplyInv, RepliesInv
  <2>2. reply.frame \in DOMAIN taken[h]
    BY <2>1, Procs DEF ReplyInv
  <2>3. taken[h][reply.frame] = frame
    BY <1>1, <2>2, Zenon DEF CallerInv
  <2> QED
    BY <2>1, <2>3, Zenon
<1>9. msgs \in Seq(Messages) /\ DOMAIN msgs = 1..Len(msgs) /\ Len(msgs) \in Nat
  BY <1>2, <1>4 DEF FrameSet
<1>10. ToAnswer(frame) = DOMAIN msgs
  BY <1>2, <1>4, Zenon DEF ToAnswer, isNotification, isResponse, hasValidID
<1>11. frame.msgs # <<>>
  <2>1. ASSUME frame.msgs = <<>> PROVE FALSE
    <3>1. frame.batch /\ ~reply.array
      BY <1>2, <1>8, <1>9, <1>10, <2>1 DEF IsAnswered, RightReply
    <3> QED
      BY <1>3, <1>5, <3>1, Zenon
  <2> QED
    BY <2>1, Zenon
<1>12. PICK to \in [DOMAIN reply.answers -> DOMAIN msgs] :
         /\ InOrder(to)
         /\ \A n \in DOMAIN msgs : \E i \in DOMAIN to : to[i] = n
         /\ \A i \in DOMAIN to : RightAnswer(msgs[to[i]], reply.answers[i])
  BY <1>2, <1>8, <1>10, <1>11, Zenon DEF RightReply
<1>13. /\ DOMAIN to = DOMAIN reply.answers /\ DOMAIN reply.answers = 1..Len(reply.answers)
       /\ Len(reply.answers) \in Nat
  BY <1>6, <1>12 DEF ReplySet
<1>14. \A i, j \in DOMAIN to : to[i] = to[j] => i = j
  <2> SUFFICES ASSUME NEW i \in DOMAIN to, NEW j \in DOMAIN to, i # j PROVE to[i] # to[j]
    BY Zenon
  <2>1. i \in Nat /\ j \in Nat
    BY <1>13
  <2>2. to[i] \in Nat /\ to[j] \in Nat
    BY <1>9, <1>12
  <2>3. i < j \/ j < i
    BY <2>1
  <2>4. to[i] < to[j] \/ to[j] < to[i]
    BY <1>12, <2>3, Zenon DEF InOrder
  <2> QED
    BY <2>2, <2>4
<1>15. Len(reply.answers) = Len(msgs)
  <2>1. to \in [1..Len(reply.answers) -> 1..Len(msgs)]
    BY <1>9, <1>12, <1>13, Zenon
  <2>2. \A n \in 1..Len(msgs) : \E i \in 1..Len(reply.answers) : to[i] = n
    BY <1>9, <1>12, <1>13, Zenon
  <2> QED
    BY <1>9, <1>12, <1>13, <2>1, <2>2, IncreasingOnto, Zenon
<1>16. \A i \in DOMAIN reply.answers :
         /\ reply.answers[i].id = msgs[to[i]].id
         /\ reply.answers[i].ok <=> msgs[to[i]].method = "ok"
  <2> SUFFICES ASSUME NEW i \in DOMAIN reply.answers
      PROVE  /\ reply.answers[i].id = msgs[to[i]].id
             /\ reply.answers[i].ok <=> msgs[to[i]].method = "ok"
    BY Zenon
  <2>1. RightAnswer(msgs[to[i]], reply.answers[i]) /\ hasValidID(msgs[to[i]])
    BY <1>4, <1>12, <1>13, Zenon
  <2> QED
    BY <2>1, Zenon DEF RightAnswer
<1>17. Answers(reply.answers, msgs)
  <2>1. \A n \in DOMAIN msgs : \E i \in DOMAIN reply.answers : to[i] = n
    BY <1>12, <1>13, Zenon
  <2>2. \A i, j \in DOMAIN reply.answers : to[i] = to[j] => i = j
    BY <1>13, <1>14, Zenon
  <2> QED
    BY <1>12, <1>15, <1>16, <2>1, <2>2, Zenon DEF Answers
<1> QED
  BY <1>1, <1>2, <1>3, <1>17, Zenon

\* Every step keeps what a caller has together with what it asked.
LEMMA ClientInvNext ==
  ASSUME TypeInv, ControlInv, ReplyInv, ClientInv, [Next]_httpVars
  PROVE  ClientInv'
<1> USE Conns DEF ClientInv
<1> USE DEF clientVars, callVars, stopVars
<1>t. ControlTypes /\ DataTypes /\ CallerTypes
  BY Zenon DEF TypeInv
<1>0. ASSUME UNCHANGED <<request, cpc, resp, got, result>>,
             \A h \in Http : taken'[h] = taken[h] /\ out'[h] = out[h]
      PROVE  ClientInv'
  BY <1>0, CallerFrame, Zenon
<1>1. ASSUME NEW h \in Http, CallerInv(h)', UNCHANGED <<taken, out, request>>,
             \A c \in Http \ {h} : /\ cpc'[c] = cpc[c] /\ resp'[c] = resp[c]
                                   /\ got'[c] = got[c] /\ result'[c] = result[c]
      PROVE  ClientInv'
  <2>1. ASSUME NEW c \in Http \ {h} PROVE CallerInv(c)'
    BY <1>1, <2>1, CallerFrame, Zenon
  <2> QED
    BY <1>1, <2>1, Zenon
<1>2. ASSUME NEW h \in Http, CallerInv(h)', UNCHANGED <<request, cpc, resp, got, result>>,
             \A c \in Http \ {h} : taken'[c] = taken[c] /\ out'[c] = out[c]
      PROVE  ClientInv'
  BY <1>2, CallerFrame, Zenon
<1>3. ASSUME NEW k \in Stream, NEW frame, ReadFrame(k, frame),
             UNCHANGED <<request, status, clientVars>>
      PROVE  ClientInv'
  <2>1. UNCHANGED out /\ \A h \in Http : taken'[h] = taken[h]
    BY <1>3, <1>t, Zenon DEF ReadFrame, DataTypes
  <2> QED
    BY <1>0, <1>3, <2>1, Zenon
<1>4. ASSUME NEW k \in Stream, ReadFails(k), UNCHANGED <<request, status, clientVars>>
      PROVE  ClientInv'
  <2>1. UNCHANGED taken /\ \A h \in Http : out'[h] = out[h]
    BY <1>4, <1>t, Zenon DEF ReadFails, Written, DataTypes
  <2> QED
    BY <1>0, <1>4, <2>1, Zenon
<1>5. ASSUME NEW k \in Conn, NEW n, WriteAnswers(k, n),
             UNCHANGED <<request, status, clientVars>>
      PROVE  ClientInv'
  <2>1. PICK reply : reply = Reply(n, proc[k][n].array, proc[k][n].answers)
    BY Zenon
  <2>2. /\ reply \in ReplySet /\ reply.frame # 0
        /\ UNCHANGED out \/ Written(k, reply)
        /\ UNCHANGED taken
    <3>1. /\ Reply(n, proc[k][n].array, proc[k][n].answers) \in ReplySet
          /\ UNCHANGED out \/ Written(k, Reply(n, proc[k][n].array, proc[k][n].answers))
          /\ n \in 1..Len(proc[k]) /\ proc[k] \in Seq(ProcSet)
      BY <1>5, WriteAnswersEffect, Zenon
    <3>2. n # 0
      BY <3>1
    <3>3. reply.frame = n
      BY <2>1, Zenon DEF Reply
    <3>4. UNCHANGED taken
      BY <1>5, Zenon DEF WriteAnswers
    <3> QED
      BY <2>1, <3>1, <3>2, <3>3, <3>4, Zenon
  <2>3. \A c \in Conn \ {k} : out'[c] = out[c]
    BY <1>t, <2>2, Zenon DEF Written, DataTypes
  <2>4. CASE k \in Stream
    BY <1>0, <1>5, <2>2, <2>3, <2>4, Zenon
  <2>5. CASE k \in Http
    <3>1. \A i \in DOMAIN out'[k] : out'[k][i].frame = 0 =>
            \E j \in DOMAIN out[k] : out[k][j].frame = 0
      <4>1. CASE out'[k] = out[k]
        BY <4>1, Zenon
      <4>2. CASE out'[k] = Append(out[k], reply)
        <5>1. out[k] \in Seq(ReplySet)
          BY <1>t, Zenon DEF DataTypes
        <5> QED
          BY <2>2, <4>2, <5>1
      <4> QED
        BY <1>t, <2>2, <4>1, <4>2, Zenon DEF Written, DataTypes
    <3>2. CallerInv(k)'
      BY <1>5, <2>2, <2>5, <3>1, Zenon DEF CallerInv
    <3> QED
      BY <1>2, <1>5, <2>2, <2>3, <2>5, <3>2, Zenon
  <2> QED
    BY <2>4, <2>5, Zenon
<1>6. ASSUME NEW k \in Conn, NEW n, ServeCall(k, n), UNCHANGED <<request, status, clientVars>>
      PROVE  ClientInv'
  BY <1>0, <1>6, Zenon DEF ServeCall
<1>7. ASSUME NEW k \in Stream, UNCHANGED <<request, status, clientVars>>,
             \/ ServeCodec(k) \/ ServeStep(k) \/ PeerLeaves(k) \/ DispatchReadOp(k)
             \/ DispatchReadErr(k) \/ DispatchClose(k) \/ HandlerClose(k) \/ DrainRead(k)
      PROVE  ClientInv'
  <2>1. UNCHANGED <<taken, out>>
    BY <1>7, Zenon DEF ServeCodec, ServeStep, AddCodec, CodecClosed, ServeReturns, PeerLeaves,
       DispatchReadOp, DispatchReadErr, DispatchClose, HandlerClose, DrainRead
  <2> QED
    BY <1>0, <1>7, <2>1, Zenon
<1>8. ASSUME StopSwap \/ StopEach, UNCHANGED <<request, status, clientVars>> PROVE ClientInv'
  BY <1>0, <1>8, Zenon DEF StopSwap, StopEach
<1>9. ASSUME NEW h \in Http, ServeHTTP(h) \/ HttpReturns(h) PROVE ClientInv'
  BY <1>0, <1>9, Zenon DEF ServeHTTP, HttpReturns, SingleRequestReturns
<1>10. ASSUME NEW h \in Http, ServeBody(h) PROVE ClientInv'
  <2>a. NoBody("malformed").shape = "malformed"
    BY Zenon DEF NoBody
  <2>0. PICK body \in {request[h].body} \cup {NoBody("malformed") : g \in gone \cap {h}} :
          ServeSingleRequest(h, body)
    BY <1>10, Zenon DEF ServeBody
  <2>1. UNCHANGED <<request, cpc, resp, got, result>> /\ pc[h] = "request"
    BY <1>10, <2>0, Zenon DEF ServeBody, ServeSingleRequest
  <2>2. taken[h] = <<>> /\ out[h] = <<>>
    BY <2>1, Zenon DEF ControlInv, HttpInv
  <2>3. \A c \in Http \ {h} : taken'[c] = taken[c] /\ out'[c] = out[c]
    BY <1>t, <2>0, Zenon DEF ServeSingleRequest, Written, DataTypes
  <2>4. request[h].kind # "other" => request[h].body.shape = "frame"
    <3>1. request[h] \in HttpRequests
      BY <1>t, Zenon DEF CallerTypes
    <3> QED
      BY <3>1, HttpAssumption DEF ClientRequest, HttpRequest, Body
  <2>5. request[h].kind # "other" => out'[h] = <<>>
    <3>1. CASE body = request[h].body
      BY <2>0, <2>2, <2>4, <3>1, Zenon DEF ServeSingleRequest
    <3>2. CASE h \in gone
      BY <2>0, <2>2, <3>2, Zenon DEF ServeSingleRequest, Written
    <3> QED
      BY <2>0, <3>1, <3>2, Zenon
  <2>6. \A n \in DOMAIN taken'[h] : taken'[h][n] = request[h].body.frame
    <3>1. CASE taken' = taken
      BY <2>2, <3>1
    <3>2. CASE taken' = [taken EXCEPT ![h] = <<body.frame>>] /\ body.shape = "frame"
      <4>1. body = request[h].body
        <5>1. body # NoBody("malformed")
          BY <2>a, <3>2, Zenon
        <5> QED
          BY <2>0, <5>1, Zenon
      <4> QED
        BY <1>t, <3>2, <4>1 DEF DataTypes
    <3> QED
      BY <2>0, <3>1, <3>2, Zenon DEF ServeSingleRequest
  <2>7. CallerInv(h)'
    <3>1. request[h].kind # "other" => \A i \in DOMAIN out'[h] : out'[h][i].frame # 0
      BY <2>5
    <3> QED
      BY <2>1, <2>6, <3>1, Zenon DEF CallerInv
  <2> QED
    BY <1>2, <2>1, <2>3, <2>7, Zenon
<1>11. ASSUME NEW h \in Http, DoRequest(h) \/ CancelContext(h) PROVE ClientInv'
  <2>1. CallerInv(h)'
    <3>1. /\ UNCHANGED <<taken, out, request, resp, got, result>>
          /\ cpc'[h] = cpc[h] \/ (cpc[h] = "idle" /\ cpc'[h] = "sent")
      BY <1>11, <1>t, Zenon DEF DoRequest, CancelContext, serverVars, CallerTypes
    <3> QED
      BY <3>1, Zenon DEF CallerInv
  <2> QED
    BY <1>1, <1>11, <1>t, <2>1, Zenon DEF DoRequest, CancelContext, serverVars, CallerTypes
<1>12. ASSUME NEW h \in Http, DoFails(h) \/ WaitCancelled(h) PROVE ClientInv'
  <2>1. /\ cpc' = [cpc EXCEPT ![h] = "returned"]
        /\ \E res \in {"ctx", "io"} : result' = [result EXCEPT ![h] = res]
        /\ UNCHANGED <<taken, out, request, resp, got>>
    BY <1>12, Zenon DEF DoFails, WaitCancelled, Returns, serverVars
  <2>2. CallerInv(h)'
    BY <1>t, <2>1, Zenon DEF CallerInv, CallerTypes
  <2> QED
    BY <1>1, <1>t, <2>1, <2>2, Zenon DEF CallerTypes
<1>13. ASSUME NEW h \in Http, Receive(h) PROVE ClientInv'
  <2>0. /\ cpc[h] = "sent" /\ UNCHANGED <<taken, out, request, got>>
        /\ got[h] = <<>> /\ resp[h] = <<>>
    BY <1>13, Zenon DEF Receive, serverVars, CallerInv
  <2>1. CASE Returns(h, "ok") /\ request[h].kind = "other" /\ UNCHANGED resp
    <3>1. CallerInv(h)'
      BY <1>t, <2>0, <2>1, Zenon DEF Returns, CallerInv, CallerTypes
    <3> QED
      BY <1>1, <1>t, <2>0, <2>1, <3>1, Zenon DEF Returns, CallerTypes
  <2>2. CASE Returns(h, "io") /\ UNCHANGED resp
    <3>1. CallerInv(h)'
      BY <1>t, <2>0, <2>2, Zenon DEF Returns, CallerInv, CallerTypes
    <3> QED
      BY <1>1, <1>t, <2>0, <2>2, <3>1, Zenon DEF Returns, CallerTypes
  <2>3. CASE /\ request[h].kind \notin {"other", "notify"} /\ Decoded(h) # <<>>
             /\ cpc' = [cpc EXCEPT ![h] = "wait"]
             /\ resp' = [resp EXCEPT ![h] = Decoded(h)]
             /\ UNCHANGED result
    <3>1. request[h].kind \in {"call", "batch"}
      BY <1>t, <2>3, HttpAssumption, Zenon DEF CallerTypes
    <3>2. Answers(Decoded(h), request[h].body.frame.msgs)
      BY <2>3, <3>1, DecodedAnswers, Zenon
    <3>3. /\ got'[h] = <<>> /\ resp'[h] = Decoded(h) /\ cpc'[h] = "wait" /\ result'[h] = "none"
      BY <1>t, <2>0, <2>3, Zenon DEF CallerTypes, CallerInv
    <3>4. Decoded(h) \in Seq(AnswerSet)
      BY <3>3, CallerTypesNext DEF CallerTypes
    <3>5. got'[h] \o resp'[h] = Decoded(h)
      BY <3>3, <3>4, EmptySeq, Zenon
    <3>6. CallerInv(h)'
      BY <2>0, <2>3, <3>1, <3>2, <3>3, <3>5, Zenon DEF CallerInv
    <3> QED
      BY <1>1, <1>t, <2>0, <2>3, <3>6, Zenon DEF CallerTypes
  <2> QED
    BY <1>13, <2>1, <2>2, <2>3, Zenon DEF Receive
<1>14. ASSUME NEW h \in Http, WaitAnswer(h) PROVE ClientInv'
  <2> DEFINE msgs == request[h].body.frame.msgs
  <2>1. /\ cpc[h] = "wait" /\ resp[h] # <<>> /\ UNCHANGED <<taken, out, request>>
        /\ resp' = [resp EXCEPT ![h] = Tail(resp[h])]
        /\ got' = [got EXCEPT ![h] = Append(got[h], Head(resp[h]))]
        /\ IF Len(got'[h]) < Len(msgs) THEN UNCHANGED <<cpc, result>>
           ELSE \E res \in {"ok", "rpc"} : Returns(h, res)
    BY <1>14, Zenon DEF WaitAnswer, serverVars
  <2>2. resp[h] \in Seq(AnswerSet) /\ got[h] \in Seq(AnswerSet)
    BY <1>t, Zenon DEF CallerTypes
  <2>3. resp'[h] = Tail(resp[h]) /\ got'[h] = Append(got[h], Head(resp[h]))
    BY <1>t, <2>1, Zenon DEF CallerTypes
  <2>4. got'[h] \o resp'[h] = got[h] \o resp[h]
    BY <2>1, <2>2, <2>3, ReceiveHead, Zenon
  <2>5. /\ request[h].kind \in {"call", "batch"} /\ got[h] \o resp[h] # <<>>
        /\ Answers(got[h] \o resp[h], msgs) /\ result[h] = "none"
    BY <2>1, Zenon DEF CallerInv
  <2>6. CASE Len(got'[h]) < Len(msgs)
    <3>1. UNCHANGED <<cpc, result>>
      BY <2>1, <2>6, Zenon
    <3>2. CallerInv(h)'
      BY <2>1, <2>4, <2>5, <3>1, Zenon DEF CallerInv
    <3> QED
      BY <1>1, <1>t, <2>1, <3>1, <3>2, Zenon DEF CallerTypes
  <2>7. CASE ~(Len(got'[h]) < Len(msgs))
    <3>1. /\ cpc' = [cpc EXCEPT ![h] = "returned"]
          /\ \E res \in {"ok", "rpc"} : result' = [result EXCEPT ![h] = res]
      BY <2>1, <2>7, Zenon DEF Returns
    <3>2. resp'[h] = <<>>
      <4>1. got'[h] \in Seq(AnswerSet) /\ resp'[h] \in Seq(AnswerSet)
        BY CallerTypesNext, Zenon DEF CallerTypes
      <4>2. Len(got'[h] \o resp'[h]) = Len(msgs)
        BY <2>4, <2>5, Zenon DEF Answers
      <4>3. /\ Len(got'[h]) \in Nat /\ Len(resp'[h]) \in Nat
            /\ Len(got'[h] \o resp'[h]) = Len(got'[h]) + Len(resp'[h])
        BY <4>1
      <4>4. Len(resp'[h]) = 0
        <5>1. PICK a, b : a = Len(got'[h]) /\ b = Len(resp'[h])
          BY Zenon
        <5>2. a \in Nat /\ b \in Nat /\ ~(a < a + b)
          BY <2>7, <4>2, <4>3, <5>1, Zenon
        <5>3. b = 0
          BY <5>2
        <5> QED
          BY <5>1, <5>3, Zenon
      <4> QED
        BY <4>1, <4>4
    <3>3. CallerInv(h)'
      BY <1>t, <2>1, <2>4, <2>5, <3>1, <3>2, Zenon DEF CallerInv, CallerTypes
    <3> QED
      BY <1>1, <1>t, <2>1, <3>1, <3>3, Zenon DEF CallerTypes
  <2> QED
    BY <2>6, <2>7, Zenon
<1>15. CASE UNCHANGED httpVars
  BY <1>0, <1>15, Zenon DEF httpVars, serverVars
<1> QED
  BY <1>3, <1>4, <1>5, <1>6, <1>7, <1>8, <1>9, <1>10, <1>11, <1>12, <1>13, <1>14, <1>15, Zenon
  DEF Next, Server, StreamNext, DispatchStep, ProcStep, HttpStep, CallerStep

\* Nobody has called when the server starts.
LEMMA ClientInvInit == Init => ClientInv
<1> SUFFICES ASSUME Init, NEW h \in Http PROVE CallerInv(h)
  BY Zenon DEF ClientInv
<1>1. /\ taken[h] = <<>> /\ out[h] = <<>> /\ got[h] = <<>> /\ resp[h] = <<>>
      /\ cpc[h] = "idle" /\ result[h] = "none"
  BY Conns, Zenon DEF Init, ServerInit
<1>2. got[h] \o resp[h] = <<>>
  BY <1>1
<1>3. DOMAIN taken[h] = {} /\ DOMAIN out[h] = {}
  BY <1>1
<1>4. result[h] \notin {"ok", "rpc"} /\ cpc[h] # "wait"
  BY <1>1
<1> QED
  BY <1>1, <1>2, <1>3, <1>4, Zenon DEF CallerInv

\* Calls over HTTP have their own answers.
THEOREM HttpCallAnswered == Spec => []HttpOwnAnswers
<1>1. TypeInv /\ ClientInv => HttpOwnAnswers
  <2> SUFFICES ASSUME TypeInv, ClientInv, NEW h \in Http
      PROVE  LET msgs == request[h].body.frame.msgs
             IN  /\ result[h] \in {"ok", "rpc"} /\ request[h].kind \in {"call", "batch"} =>
                      /\ Len(got[h]) = Len(msgs)
                      /\ \A i \in DOMAIN msgs : \E j \in DOMAIN got[h] : \A k \in DOMAIN got[h] :
                           got[h][k].id = msgs[i].id <=> k = j
                 /\ \A j \in DOMAIN got[h] : \E i \in DOMAIN msgs :
                      got[h][j].id = msgs[i].id /\ (got[h][j].ok <=> msgs[i].method = "ok")
    BY Zenon DEF HttpOwnAnswers
  <2> DEFINE msgs == request[h].body.frame.msgs
             g == got[h]
  <2>1. PICK q : q = g \o resp[h]
    BY Zenon
  <2>2. g \in Seq(AnswerSet) /\ resp[h] \in Seq(AnswerSet)
    BY <2>1, Zenon DEF TypeInv, CallerTypes
  <2>4. q # <<>> => request[h].kind \in {"call", "batch"} /\ Answers(q, msgs)
    BY <2>1, Zenon DEF ClientInv, CallerInv
  <2>7. result[h] \in {"ok", "rpc"} /\ request[h].kind \in {"call", "batch"} =>
          q # <<>> /\ resp[h] = <<>>
    BY <2>1, Zenon DEF ClientInv, CallerInv
  <2>8. request[h].kind \in {"call", "batch"} =>
          \A i, j \in DOMAIN msgs : msgs[i].id = msgs[j].id => i = j
    <3>1. request[h] \in HttpRequests
      BY Zenon DEF TypeInv, CallerTypes
    <3> QED
      BY <3>1, HttpAssumption, Zenon
  <2> HIDE DEF msgs, g
  <2>3. /\ DOMAIN g \subseteq DOMAIN q /\ \A j \in DOMAIN g : q[j] = g[j]
        /\ g # <<>> => q # <<>>
    <3>1. PICK r \in Seq(AnswerSet) : r = resp[h]
      BY <2>2, Zenon
    <3>2. /\ q \in Seq(AnswerSet) /\ Len(q) = Len(g) + Len(r)
          /\ \A j \in 1..(Len(g) + Len(r)) :
               q[j] = IF j <= Len(g) THEN g[j] ELSE r[j - Len(g)]
      BY <2>1, <2>2, <3>1, ConcatSeq, Zenon
    <3>3. /\ Len(g) \in Nat /\ Len(r) \in Nat
          /\ DOMAIN g = 1..Len(g) /\ DOMAIN q = 1..Len(q)
      BY <2>2, <3>2
    <3>4. DOMAIN g \subseteq DOMAIN q
      BY <3>2, <3>3
    <3>5. g # <<>> => q # <<>>
      <4>1. g # <<>> => Len(g) # 0
        BY <2>2
      <4>2. Len(g) # 0 => Len(q) # 0
        BY <3>2, <3>3
      <4>3. Len(q) # 0 => q # <<>>
        OBVIOUS
      <4> QED
        BY <4>1, <4>2, <4>3, Zenon
    <3> QED
      BY <2>2, <3>2, <3>3, <3>4, <3>5
  <2>5. ASSUME NEW j \in DOMAIN g
        PROVE  \E i \in DOMAIN msgs : g[j].id = msgs[i].id /\ (g[j].ok <=> msgs[i].method = "ok")
    <3>1. Answers(q, msgs)
      BY <2>2, <2>3, <2>4
    <3> QED
      BY <2>3, <3>1 DEF Answers
  <2>6. ASSUME result[h] \in {"ok", "rpc"}, request[h].kind \in {"call", "batch"}
        PROVE  /\ Len(g) = Len(msgs)
               /\ \A i \in DOMAIN msgs : \E j \in DOMAIN g : \A k \in DOMAIN g :
                    g[k].id = msgs[i].id <=> k = j
    <3>1. q = g /\ Answers(g, msgs)
      <4>1. q # <<>> /\ resp[h] = <<>>
        BY <2>6, <2>7, Zenon
      <4>2. q = g
        BY <2>1, <2>2, <4>1
      <4> QED
        BY <2>4, <4>1, <4>2, Zenon
    <3>2. PICK to \in [DOMAIN g -> DOMAIN msgs] :
            /\ \A i, j \in DOMAIN g : to[i] = to[j] => i = j
            /\ \A n \in DOMAIN msgs : \E i \in DOMAIN g : to[i] = n
            /\ \A i \in DOMAIN g : g[i].id = msgs[to[i]].id
      BY <3>1 DEF Answers
    <3>3. \A i, j \in DOMAIN msgs : msgs[i].id = msgs[j].id => i = j
      BY <2>6, <2>8, Zenon
    <3>4. ASSUME NEW i \in DOMAIN msgs
          PROVE  \E j \in DOMAIN g : \A k \in DOMAIN g : g[k].id = msgs[i].id <=> k = j
      <4>1. PICK n \in DOMAIN g : to[n] = i
        BY <3>2, Zenon
      <4>2. \A k \in DOMAIN g : g[k].id = msgs[i].id <=> k = n
        BY <3>2, <3>3, <4>1
      <4> QED
        BY <4>1, <4>2, Zenon
    <3> QED
      BY <3>1, <3>4, Zenon DEF Answers
  <2> QED
    BY <2>5, <2>6, Zenon DEF msgs, g
<1> QED
  BY <1>1, TypeInvInit, TypeInvNext, ControlInvInit, ControlInvNext, ReplyInvInit,
     ReplyInvNext, ClientInvInit, ClientInvNext, PTL DEF Spec

=============================================================================
