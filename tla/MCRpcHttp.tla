------------------------------ MODULE MCRpcHttp ------------------------------
EXTENDS RpcHttp, TLC

CONSTANTS k1, k2, k3, h1

\* One stream with two frames, two streams with one, a request.
MCMixes == {{k1}, {k2, k3}, {h1}}
MCMaxFrames == (k1 :> 2) @@ (k2 :> 1) @@ (k3 :> 1)

\* A batch with every kind of message, an empty batch, a single call, one that
\* waits for its context, and a notification.
MixedBatch == Frame(TRUE, <<Message("1", "ok"), Message("none", "ok"), ResponseTo("7"),
                            Message("bad", "ok"), Message("2", "err")>>)
SingleCall == Frame(FALSE, <<Message("3", "ok")>>)
ContextCall == Frame(FALSE, <<Message("null", "ctx")>>)
Notification == Frame(FALSE, <<Message("none", "err")>>)

MCFrames ==
  (k1 :> {MixedBatch, Frame(TRUE, <<>>), SingleCall, ContextCall, Notification})
  @@ (k2 :> {SingleCall}) @@ (k3 :> {ContextCall})

MCHttpRequests ==
  { ClientRequest("call", <<Message("1", "ok")>>),
    ClientRequest("call", <<Message("1", "err")>>),
    ClientRequest("call", <<Message("1", "ctx")>>),
    ClientRequest("call", <<Message("1", "")>>),
    ClientRequest("batch", <<Message("1", "ok"), Message("2", "unknown"), Message("3", "ok")>>),
    ClientRequest("batch", <<Message("1", "ok"), Message("2", "ctx")>>),
    ClientRequest("batch", <<>>),
    ClientRequest("notify", <<Message("none", "ok")>>),
    HttpRequest("other", "GET", "none", "zero", FALSE, FALSE, NoBody("empty")),
    HttpRequest("other", "GET", "none", "zero", TRUE, FALSE, NoBody("empty")),
    HttpRequest("other", "GET", "other", "zero", FALSE, FALSE, NoBody("empty")),
    HttpRequest("other", "PUT", "listed", "fits", FALSE, TRUE, NoBody("malformed")),
    HttpRequest("other", "POST", "listed", "large", FALSE, TRUE, NoBody("malformed")),
    HttpRequest("other", "POST", "listed", "fits", FALSE, FALSE, NoBody("malformed")),
    HttpRequest("other", "POST", "address", "fits", FALSE, TRUE, NoBody("malformed")),
    HttpRequest("other", "OPTIONS", "listed", "zero", FALSE, FALSE, NoBody("empty")) }

=============================================================================
