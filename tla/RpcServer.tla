------------------------------ MODULE RpcServer ------------------------------
(***************************************************************************)
(* gethrpc.Server: a goroutine in ServeCodec, a dispatch goroutine with    *)
(* its handler and a read goroutine for each connection, one goroutine for *)
(* each frame with calls, HTTP requests in serveSingleRequest, and Stop.   *)
(* The client inside of ServeCodec makes no requests of its own here.      *)
(***************************************************************************)
EXTENDS RpcMessages, FiniteSets

CONSTANTS
  Stream,      \* connections that ServeCodec serves
  Http,        \* requests that ServeHTTP serves
  Mixes,       \* which of them exist together
  Frames,      \* [Stream -> frames its peer may send]
  MaxFrames    \* bound: [Stream -> frames that are read from it]

ASSUME ServerAssumption ==
  /\ Stream \cap Http = {} /\ MaxFrames \in [Stream -> Nat \ {0}]
  /\ Frames \in [Stream -> SUBSET FrameSet]
  /\ \A mix \in Mixes : mix \subseteq Stream \cup Http

Conn == Stream \cup Http

VARIABLES
  run,       \* Server.run
  codecs,    \* Server.codecs
  stop,      \* where the goroutine in Stop is
  pc,        \* [Conn -> where ServeCodec or ServeHTTP is]
  closed,    \* codecs that are closed
  gone,      \* peers that receive nothing any more: a write to them fails
  dpc,       \* [Stream -> where dispatch is]
  cont,      \* [Stream -> why dispatch closes the handler]
  reading,   \* [Stream -> the flag of dispatch]
  rd,        \* [Stream -> where the read goroutine is]
  taken,     \* [Conn -> Seq of the frames codec.Read returned]
  proc,      \* [Conn -> Seq of the call goroutines, one for each frame]
  out,       \* [Conn -> Seq of what was written]
  root       \* connections with a cancelled rootCtx

serveVars == <<pc, codecs>>
stopVars  == <<run, stop>>
connVars  == <<closed, gone>>
dispVars  == <<dpc, cont, reading>>
callVars  == <<proc, out, root>>
serverVars == <<serveVars, stopVars, connVars, dispVars, rd, taken, callVars>>

Goto(k, l) == pc' = [pc EXCEPT ![k] = l]

-----------------------------------------------------------------------------
(* The handler: call goroutines. *)

\* A goroutine of startCallProc: the calls it has still to serve, the answers so
\* far, and whether they are written as an array.
NoProc == [st |-> "done", calls |-> <<>>, answers |-> <<>>, array |-> FALSE]
CallProc(calls, answers, array) ==
  [st |-> "run", calls |-> calls, answers |-> answers, array |-> array]

\* handleMsg and handleBatch: an empty batch is answered with an error, also on a
\* goroutine; a frame without calls needs none.
HandleFrame(frame) ==
  IF frame.batch /\ frame.msgs = <<>> THEN CallProc(<<>>, <<errorMessage>>, FALSE)
  ELSE IF Calls(frame) = <<>> THEN NoProc
  ELSE CallProc(Calls(frame), <<>>, frame.batch)

\* callWG
Running(k) == {n \in DOMAIN proc[k] : proc[k][n].st = "run"}

\* Mutant: the handler's context does not derive from the request's.
CancelledByRoot(k) == k \in root

\* The context of a call: of the HTTP request, or only of the handler.
Cancelled(k) == k \in root \/ (k \in Http /\ k \in gone)

\* What is written to a connection: the frame it answers (0: one that could not
\* be parsed) and the answers.
Reply(n, array, answers) == [frame |-> n, array |-> array, answers |-> answers]
ParseError == Reply(0, FALSE, <<errorMessage>>)

\* codec.Write.  It holds encMu from its first to its last byte, so that it is one
\* step for all that write to the connection.
Written(k, reply) ==
  out' = IF k \in gone \cup closed THEN out ELSE [out EXCEPT ![k] = Append(@, reply)]

\* The next call of the goroutine waits for its context.
WaitsForContext(k, n) ==
  /\ n \in Running(k) /\ proc[k][n].calls # <<>>
  /\ LET m == Head(proc[k][n].calls)
     IN  (isCall(m) \/ isNotification(m)) /\ m.method = "ctx"

\* The answers with one more, unless it is nil.
withAnswer(answers, a) == IF a = noAnswer THEN answers ELSE Append(answers, a)

\* handleCallMsg of the next call of the goroutine.
ServeCall(k, n) ==
  LET p == proc[k][n]
      m == Head(p.calls)
  IN  /\ n \in Running(k) /\ p.calls # <<>>
      /\ WaitsForContext(k, n) => Cancelled(k)
      /\ proc' = [proc EXCEPT ![k][n] = [p EXCEPT !.calls = Tail(@),
                                                  !.answers = withAnswer(@, handleCallMsg(m))]]
      /\ UNCHANGED <<serveVars, stopVars, connVars, dispVars, rd, taken, out, root>>

\* All calls are served: the answers, if there are any, are written at once, if
\* that still works.
WriteAnswers(k, n) ==
  LET p == proc[k][n]
  IN  /\ n \in Running(k) /\ p.calls = <<>>
      /\ proc' = [proc EXCEPT ![k][n].st = "done"]
      /\ IF p.answers = <<>> THEN UNCHANGED out ELSE Written(k, Reply(n, p.array, p.answers))
      /\ UNCHANGED <<serveVars, stopVars, connVars, dispVars, rd, taken, root>>

-----------------------------------------------------------------------------
(* ServeCodec and Stop. *)

\* The connection is accepted; "Don't serve if server is stopped".
ServeCodec(k) ==
  /\ pc[k] = "idle" /\ k \in Stream
  /\ IF run THEN Goto(k, "checked") /\ UNCHANGED closed
            ELSE Goto(k, "returned") /\ closed' = closed \cup {k}
  /\ UNCHANGED <<codecs, stopVars, gone, dispVars, rd, taken, callVars>>

\* codecs.Add and initClient, with its dispatch and read goroutines.
AddCodec(k) ==
  /\ pc[k] = "checked" /\ k \in Stream
  /\ Goto(k, "serving")
  /\ codecs' = codecs \cup {k}
  /\ dpc' = [dpc EXCEPT ![k] = "select"]
  /\ reading' = [reading EXCEPT ![k] = TRUE]
  /\ rd' = [rd EXCEPT ![k] = "read"]
  /\ UNCHANGED <<stopVars, connVars, cont, taken, callVars>>

\* <-codec.Closed(); c.Close() offers to close.
CodecClosed(k) ==
  /\ pc[k] = "serving" /\ k \in Stream /\ k \in closed
  /\ Goto(k, "close")
  /\ UNCHANGED <<codecs, stopVars, connVars, dispVars, rd, taken, callVars>>

\* Client.Close returns, then ServeCodec, with codecs.Remove and codec.Close.
ServeReturns(k) ==
  /\ pc[k] = "close" /\ k \in Stream /\ dpc[k] = "quit"
  /\ Goto(k, "returned")
  /\ codecs' = codecs \ {k}
  /\ closed' = closed \cup {k}
  /\ UNCHANGED <<stopVars, gone, dispVars, rd, taken, callVars>>

\* Stop: CompareAndSwap of run.
StopSwap ==
  /\ stop = "idle"
  /\ run' = FALSE
  /\ stop' = "each"
  /\ UNCHANGED <<serveVars, connVars, dispVars, rd, taken, callVars>>

\* Set.Each, under the lock of the set, ends with the first element for which its
\* argument returns true: the elements it visits.
EachVisits(S) == IF S = {} THEN {{}} ELSE {{x} : x \in S}

StopEach ==
  /\ stop = "each"
  /\ \E visited \in EachVisits(codecs) : closed' = closed \cup visited
  /\ stop' = "done"
  /\ UNCHANGED <<run, serveVars, gone, dispVars, rd, taken, callVars>>

-----------------------------------------------------------------------------
(* dispatch and the read goroutine of a stream. *)

\* codec.Read returns a frame; after Close it can be one that was buffered.
ReadFrame(k, frame) ==
  /\ k \in Stream /\ rd[k] = "read"
  /\ Len(taken[k]) < MaxFrames[k]
  /\ rd' = [rd EXCEPT ![k] = "op"]
  /\ taken' = [taken EXCEPT ![k] = Append(@, frame)]
  /\ UNCHANGED <<serveVars, stopVars, connVars, dispVars, callVars>>

\* The peer of a stream closes its side of the connection.
PeerLeaves(k) ==
  /\ k \in Stream \ gone /\ pc[k] \notin {"idle", "absent"}
  /\ gone' = gone \cup {k}
  /\ UNCHANGED <<serveVars, stopVars, closed, dispVars, rd, taken, callVars>>

\* codec.Read fails: the peer stopped sending or the codec is closed, or what was
\* read is no JSON, which is answered.
ReadFails(k) ==
  /\ k \in Stream /\ rd[k] = "read"
  /\ rd' = [rd EXCEPT ![k] = "err"]
  /\ Written(k, ParseError) \/ UNCHANGED out
  /\ UNCHANGED <<serveVars, stopVars, connVars, dispVars, taken, proc, root>>

\* case op := <-c.readOp
DispatchReadOp(k) ==
  /\ k \in Stream /\ dpc[k] = "select" /\ rd[k] = "op"
  /\ rd' = [rd EXCEPT ![k] = "read"]
  /\ proc' = [proc EXCEPT ![k] = Append(@, HandleFrame(taken[k][Len(taken[k])]))]
  /\ UNCHANGED <<serveVars, stopVars, connVars, dispVars, taken, out, root>>

\* case err := <-c.readErr; the handler is closed.
DispatchReadErr(k) ==
  /\ k \in Stream /\ dpc[k] = "select" /\ rd[k] = "err"
  /\ rd' = [rd EXCEPT ![k] = "exit"]
  /\ dpc' = [dpc EXCEPT ![k] = "wait"]
  /\ cont' = [cont EXCEPT ![k] = "readErr"]
  /\ UNCHANGED <<serveVars, stopVars, connVars, reading, taken, callVars>>

\* case <-c.close, and the deferred function.
DispatchClose(k) ==
  /\ k \in Stream /\ dpc[k] = "select" /\ pc[k] = "close"
  /\ dpc' = [dpc EXCEPT ![k] = IF reading[k] THEN "wait" ELSE "quit"]
  /\ cont' = [cont EXCEPT ![k] = "close"]
  /\ UNCHANGED <<serveVars, stopVars, connVars, reading, rd, taken, callVars>>

\* Mutant: the call goroutines are not waited for.
HandlerCloseAtOnce(k) ==
  /\ k \in Stream /\ dpc[k] = "wait"
  /\ root' = root \cup {k}
  /\ closed' = closed \cup {k}
  /\ \/ cont[k] = "readErr" /\ dpc' = [dpc EXCEPT ![k] = "select"]
                            /\ reading' = [reading EXCEPT ![k] = FALSE]
     \/ cont[k] = "close" /\ dpc' = [dpc EXCEPT ![k] = "drain"] /\ UNCHANGED reading
  /\ UNCHANGED <<serveVars, stopVars, gone, cont, rd, taken, proc, out>>

\* Mutant: the read goroutine is not waited for.
HandlerCloseNoDrain(k) ==
  /\ k \in Stream /\ dpc[k] = "wait" /\ Running(k) = {}
  /\ root' = root \cup {k}
  /\ closed' = closed \cup {k}
  /\ \/ cont[k] = "readErr" /\ dpc' = [dpc EXCEPT ![k] = "select"]
                            /\ reading' = [reading EXCEPT ![k] = FALSE]
     \/ cont[k] = "close" /\ dpc' = [dpc EXCEPT ![k] = "quit"] /\ UNCHANGED reading
  /\ UNCHANGED <<serveVars, stopVars, gone, cont, rd, taken, proc, out>>

\* Mutant: the codec is not closed after a read error.
HandlerCloseKeepsCodec(k) ==
  /\ k \in Stream /\ dpc[k] = "wait" /\ Running(k) = {}
  /\ root' = root \cup {k}
  /\ \/ cont[k] = "readErr" /\ dpc' = [dpc EXCEPT ![k] = "select"]
                            /\ reading' = [reading EXCEPT ![k] = FALSE]
     \/ cont[k] = "close" /\ dpc' = [dpc EXCEPT ![k] = "drain"] /\ UNCHANGED reading
  /\ UNCHANGED <<serveVars, stopVars, connVars, cont, rd, taken, proc, out>>

\* handler.close: callWG.Wait and then cancelRoot; the codec is closed after it.
HandlerClose(k) ==
  /\ k \in Stream /\ dpc[k] = "wait" /\ Running(k) = {}
  /\ root' = root \cup {k}
  /\ closed' = closed \cup {k}
  /\ \/ cont[k] = "readErr" /\ dpc' = [dpc EXCEPT ![k] = "select"]
                            /\ reading' = [reading EXCEPT ![k] = FALSE]
     \/ cont[k] = "close" /\ dpc' = [dpc EXCEPT ![k] = "drain"] /\ UNCHANGED reading
  /\ UNCHANGED <<serveVars, stopVars, gone, cont, rd, taken, proc, out>>

\* drainRead drops what was read and ends with the read loop.
DrainRead(k) ==
  /\ k \in Stream /\ dpc[k] = "drain"
  /\ \/ rd[k] = "op" /\ rd' = [rd EXCEPT ![k] = "read"] /\ UNCHANGED dpc
        /\ proc' = [proc EXCEPT ![k] = Append(@, NoProc)]
     \/ rd[k] = "err" /\ rd' = [rd EXCEPT ![k] = "exit"]
        /\ dpc' = [dpc EXCEPT ![k] = "quit"]
        /\ UNCHANGED proc
  /\ UNCHANGED <<serveVars, stopVars, connVars, cont, reading, taken, out, root>>

-----------------------------------------------------------------------------
(* serveSingleRequest. *)

\* A stopped server reads nothing; otherwise the body is read, and one that
\* cannot be parsed is answered at once, unless it is empty.
ServeSingleRequest(h, body) ==
  /\ pc[h] = "request" /\ h \in Http
  /\ \/ ~run /\ Goto(h, "returned") /\ closed' = closed \cup {h}
        /\ UNCHANGED <<taken, proc, out>>
     \/ /\ run /\ Goto(h, "closing") /\ UNCHANGED closed
        /\ \/ body.shape = "empty" /\ UNCHANGED <<taken, proc, out>>
           \/ body.shape = "malformed" /\ Written(h, ParseError) /\ UNCHANGED <<taken, proc>>
           \/ /\ body.shape = "frame"
              /\ taken' = [taken EXCEPT ![h] = <<body.frame>>]
              /\ proc' = [proc EXCEPT ![h] = <<HandleFrame(body.frame)>>]
              /\ UNCHANGED out
  /\ UNCHANGED <<codecs, stopVars, gone, dispVars, rd, root>>

\* The deferred handler.close and codec.Close.
SingleRequestReturns(h) ==
  /\ pc[h] = "closing" /\ h \in Http /\ Running(h) = {}
  /\ Goto(h, "returned")
  /\ root' = root \cup {h}
  /\ closed' = closed \cup {h}
  /\ UNCHANGED <<codecs, stopVars, gone, dispVars, rd, taken, proc, out>>

-----------------------------------------------------------------------------

ServerInit ==
  /\ run = TRUE /\ stop = "idle" /\ codecs = {}
  /\ \E mix \in Mixes : pc = [k \in Conn |-> IF k \in mix THEN "idle" ELSE "absent"]
  /\ closed = {} /\ gone = {} /\ root = {}
  /\ dpc = [k \in Stream |-> "off"] /\ cont = [k \in Stream |-> "none"]
  /\ reading = [k \in Stream |-> FALSE]
  /\ rd = [k \in Stream |-> "off"]
  /\ taken = [k \in Conn |-> <<>>]
  /\ proc = [k \in Conn |-> <<>>] /\ out = [k \in Conn |-> <<>>]

\* What the goroutines of a connection do by themselves.
ServeStep(k) == AddCodec(k) \/ CodecClosed(k) \/ ServeReturns(k)
ProcStep(k, n) == n \in DOMAIN proc[k] /\ (ServeCall(k, n) \/ WriteAnswers(k, n))
DispatchStep(k) ==
  DispatchReadOp(k) \/ DispatchReadErr(k) \/ DispatchClose(k) \/ HandlerClose(k) \/ DrainRead(k)

StreamNext ==
  \/ StopSwap \/ StopEach
  \/ \E k \in Stream :
       \/ ServeCodec(k) \/ ServeStep(k) \/ DispatchStep(k)
       \/ PeerLeaves(k) \/ ReadFails(k)
       \/ \E frame \in Frames[k] : ReadFrame(k, frame)
  \/ \E k \in Conn : \E n \in DOMAIN proc[k] : ProcStep(k, n)

=============================================================================
