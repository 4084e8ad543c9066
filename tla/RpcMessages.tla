----------------------------- MODULE RpcMessages -----------------------------
(***************************************************************************)
(* JSON-RPC messages as gethrpc sorts and answers them.  A frame is what   *)
(* one codec.Read returns: a message, or a batch of messages.              *)
(***************************************************************************)
EXTENDS Naturals, Sequences

\* An id is "none" when the message has none, "bad" for an object or an array,
\* "null" for null, and any other value otherwise.  A method stands for what its
\* callback does: "" is no method, "ok" returns a result, "err" an error (or it
\* panics), "ctx" waits until its context is cancelled, and "unknown" is not
\* registered or cannot take the arguments.
Methods == {"", "ok", "err", "ctx", "unknown"}
Messages == [id : STRING, method : Methods, answer : BOOLEAN]
Message(id, method) == [id |-> id, method |-> method, answer |-> FALSE]
ResponseTo(id) == [id |-> id, method |-> "", answer |-> TRUE]

hasValidID(m) == m.id \notin {"none", "bad"}
isNotification(m) == m.id = "none" /\ m.method # ""
isCall(m) == hasValidID(m) /\ m.method # ""
isResponse(m) == hasValidID(m) /\ m.method = "" /\ m.answer

Answer(id, ok) == [id |-> id, ok |-> ok]

\* errorMessage
errorMessage == Answer("null", FALSE)

\* serviceRegistry.callback: the method is registered; parsePositionalArguments:
\* its callback takes the arguments.
callback(method) == method \in {"ok", "err", "ctx"}

\* callback.call: a callback that panics has returned an error.
call(method) == method = "ok"

\* runMethod
runMethod(m) == Answer(m.id, call(m.method))

\* handleCall
handleCall(m) == IF callback(m.method) THEN runMethod(m) ELSE Answer(m.id, FALSE)

\* nil in the place of an answer.
noAnswer == Answer("none", FALSE)

\* handleCallMsg.  handleImmediate leaves it no notification.
handleCallMsg(m) ==
  IF isNotification(m) THEN noAnswer
  ELSE IF isCall(m) THEN handleCall(m)
  ELSE IF hasValidID(m) THEN Answer(m.id, FALSE)
  ELSE errorMessage

\* Mutant: responses are left to handleCallMsg.
handleImmediateNotifications(m) == isNotification(m)

\* handleImmediate: notifications are taken for results of subscriptions, and
\* responses for answers to requests of this side.
handleImmediate(m) == isNotification(m) \/ isResponse(m)

\* parseMessage: the messages of a frame, and whether they came as an array.  The
\* JSON value null, for which the pointer to the message becomes nil, is left out.
FrameSet == [batch : BOOLEAN, msgs : Seq(Messages)]
Frame(batch, msgs) == [batch |-> batch, msgs |-> msgs]

\* The loop of handleBatch: what handleImmediate leaves of the first n messages.
CallsUpTo(msgs) ==
  LET upTo[n \in 0..Len(msgs)] ==
        IF n = 0 THEN <<>>
        ELSE IF handleImmediate(msgs[n]) THEN upTo[n - 1]
        ELSE Append(upTo[n - 1], msgs[n])
  IN  upTo

\* The calls of a frame.
Calls(frame) == CallsUpTo(frame.msgs)[Len(frame.msgs)]

=============================================================================
