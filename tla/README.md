# A TLA+ verification of go-substrate-rpc-client

The repository is a Go client for Substrate nodes.  This directory holds TLA+
models of it, TLC configurations that check them on small instances, and proofs
checked by TLAPS.

## Inventory

| Part | Source | State | Operations |
|---|---|---|---|
| RPC client | `gethrpc/client.go`, `gethrpc/handler.go` | channels between callers and `dispatch`, `respWait`, `lastOp`, `writeConn`, `reading` | `Call`, `BatchCall`, `Notify`, `Subscribe`, `Close`, the cases of `dispatch`, `read`, `drainRead`, `reconnect` |
| Client subscription | `gethrpc/subscription.go` and the `subscribe_*.go` wrappers of `rpc/` | `quitOnce`, `quit`, `err`, `in`, the buffer of `forward`, the channel of the application | `deliver`, `forward`, `quitWithError`, `Unsubscribe` |
| Server | `gethrpc/handler.go`, `service.go`, `server.go` | `run`, `codecs`, the call goroutines of each connection and their contexts | `handleMsg`, `handleBatch`, `ServeCodec`, `serveSingleRequest`, `Stop` |
| HTTP transport | `gethrpc/http.go` | none between requests | `sendHTTP`, `sendBatchHTTP`, `ServeHTTP` |
| Stream transports | `gethrpc/websocket.go`, `ipc.go`, `stdio.go`, `inproc.go`, `json.go` | a connection | dial, read, write, close |
| High-level client | `client/`, `rpc/` | none | one method per RPC |
| Retrievers | `registry/exec`, `registry/retriever` | metadata and registry of the last runtime seen | `ExecWithFallback`, `GetEvents`, `GetExtrinsics`, `updateInternalState` |
| Registry | `registry/factory.go`, `registry/parser` | decoders built so far, recursive decoders to connect | `Create*Registry`, `Parse*` |
| SCALE codec | `scale/codec.go`, `types/codec` | reader position | `Encode`, `Decode`, compact integers, options |
| Types | `types/` | a global `SerDeOptions` | encodings of enums, metadata V4 to V14, extrinsics, storage keys, events |
| Hashing and keys | `hash`, `xxhash`, `signature`, `config` | none | pure functions |

What makes the code hard is concentrated in `gethrpc`: goroutines that meet in
`select` statements, a write lock made of two channels, connections that are
replaced while requests are in flight, contexts that expire at any point,
`sync.Once` bodies that block, and shutdown racing with all of it.  The
correctness that a user relies on: a call gets its own answer or an error, it
does return, a subscription delivers in order and says when it ends, and `Close`
works.

## Modules

| Module | Models |
|---|---|
| `RpcRequests` | callers, `dispatch`, read loops, `Close` over a stream transport |
| `ClientSubscription` | one goroutine per subscription, `Unsubscribe`, the wrapper's channel |
| `RpcClient` | both together: `dispatch` starts, feeds and ends subscriptions, the body of `quitOnce` makes a request |
| `RpcService` | what the client promises to its callers; abstract, implemented by `RpcRequests` |
| `RpcMessages` | kinds of messages, the answer to each |
| `RpcServer` | `Server`, with the dispatch, read loop and call goroutines of each connection it serves |
| `RpcHttp` | the client and the server of the HTTP transport, over `RpcServer` |
| `RegistryFactory` | construction of the registries, the decoders, the parsers |
| `RegistryMeaning` | reference: what metadata means, without any storage |
| `MCRpcRequests`, `MCClientSubscription`, `MCRpcClient`, `MCRpcHttp`, `MCRegistryFactory` | constants for TLC |
| `RpcRequestsProofs`, `RpcServiceProofs` | proofs about `RpcRequests`: locks, readers and connections; answers, and the refinement of `RpcService` |
| `RpcSubscribeProofs`, `RpcClientProofs` | proofs about `RpcClient`: what the request path does with a Subscribe; the two components together |
| `ClientSubscriptionProofs` | proofs about `ClientSubscription` |
| `RpcHttpProofs` | proofs about `RpcServer` and `RpcHttp` |
| `Retriever`, `MCRetriever`, `RetrieverProofs` | event and extrinsic retrievers with the retry executor |
| `ScaleCompact`, `ScaleCompactProofs` | compact integers |
| `NumberCodec`, `MCNumberCodec` | `UCompact`, `U128`, `U256`, `I128`, `I256` |
| `ScaleTypes`, `Scale` | `Encode` and `Decode` by type |
| `XcmTypes`, `MetadataTypes`, `RuntimeTypes` | what the methods of 142 structs read and write |
| `TypeCodec`, `MCTypeCodec` | values of these types sent through a stream |

### RpcRequests

One element of `Op` is one call of `CallContext` (one id), `BatchCallContext`
(several ids), `Notify` (none) or `Subscribe` (one id, member of `Sub`), run by a
goroutine of its own; `pc[op]` is its place: `send` (the select in `send`),
`check`, `dial`, `offer` (`checkWriteConn` and the two halves of `reconnect`),
`write`, `written` or `failed` (before `reqSent <- err`), `wait`, `giveup` (the
send on `reqTimeout`), `done`.  `dpc` is the place of `dispatch`: `select`,
`handle` (messages of a `readOp` left in `todo`), `closing`, `quitSubs` and
`drain` (inside `conn.close` and `drainRead`; `cont` says for which case), `quit`.
A rendezvous on an unbuffered channel is one action of both sides.  `reqSent` has
capacity one and is a variable.  Connections are numbered in the order in which
they are dialled.  The server answers each request it got at most once, at any
time or never; codec reads and writes fail at any time.  Go's `select` chooses
at random among the ready cases, so each case is a disjunct.

The payload of a message is its id.  Only for `Subscribe` an error answer differs
from a result, because only there it changes the state of the client.

In `quitSubs`, `dispatch` is in `handler.close`: it waits for the `quitOnce` of each
subscription and then for `callWG`, the calls that the peer makes to the client.  Both
may take any time, and neither is assumed to end; what waits for whom in `quitOnce` is in
`RpcClient`.

### RpcService

The interface as a caller sees it: a request is idle, called, being sent (one at a
time), waiting, done; it receives answers to its own ids, each once, succeeds only
with all of them, receives nothing after it has returned, and none is accepted after
`Close`.  There is no connection, lock, `dispatch` or reconnect.  `RpcRequests`
implements it under the mapping `Service`: the state of a request is read off its
`pc`, the rest are variables of the same meaning.

### ClientSubscription

`fpc[s]` is the place of the goroutine in `start`, `upc[s][u]` that of a goroutine
in `Unsubscribe`, `once[s]` the state of `quitOnce` (`free`, `done`, or the
goroutine that runs its body: others wait for it).  Notification number *n* is the
value *n*.  Decoding may fail at each notification.  On its own the module leaves
`dispatch` and the server open: they deliver, end the subscription and answer the
unsubscribe request at any time or never.

### RpcClient

`RpcClient` extends `RpcRequests` and instantiates `ClientSubscription`.  The joint
actions are where the code couples the two: `handleResponse` starts a subscription,
`handleSubscriptionResult` delivers, `cancelAllRequests` waits for `quitOnce`, and
the body of `quitOnce` starts the request `Unsub[s]`, which needs `dispatch`.

### RpcMessages, RpcServer, RpcHttp

`RpcMessages` has the messages (id, method) and what `handleImmediate`,
`handleCallMsg` and the functions below them answer; `noAnswer` is the nil that
`handleCallMsg` returns for a notification, which `handleBatch` leaves out of the
answers (`withAnswer`).  A method is what a callback can do: `ok`, `err`, `ctx` (return
when the context is done), or be unknown.

In `RpcServer`, `pc[k]` is the place of `ServeCodec` or `serveSingleRequest` for the
connection `k`, `dpc` and `rd` those of its `dispatch` and its read loop, and
`proc[k][n]` the goroutine that `startCallProc` starts for frame `n`.  `ServeCodec`
checks `run` and adds its codec in two steps, as the code does.  `Stop` is the swap of
`run` and then the iteration over `codecs`; the set of the library ends it when the
callback returns true (`EachVisits`).  A write is one step, as `jsonCodec.Write` holds
`encMu`: that two replies do not mix is taken from the lock and not shown.  A peer sends frames, sends something that is
not JSON, stops sending, or leaves.

`RpcHttp` adds `ServeHTTP` with its checks (host, a GET with neither body nor query,
method, length, content type), and
the caller: `doRequest`, decoding of the body, `wait`.  The context of a call may end
at any time; the server's side of the request then has a context that is done, too.

### RegistryFactory, RegistryMeaning

A registry maps ids to fields with decoders.  The state is the factory's two storages
and the last registry of each kind, with the metadata it was made of: a factory is
used again, for other metadata and after failures.  `getFieldDecoder` and the
functions it calls thread the storages through in the order of the code, and return
an error where the code does.  Decoders are values; one that the code shares by
pointer is found in the storage, and `resolveRecursiveDecoders` connects a
`RecursiveDecoder` with what is stored for its type.  Decoding goes over bytes and
uses `Scale` for primitive types.

`RegistryMeaning` decodes by walking the type graph of the metadata, with no storage
and no decoders, to values with the tag of a variant and the bits of a bit sequence, which
it takes from the bytes itself.  The properties compare the two.  `Returned` says what of
such a value the code gives back: a variant with fields loses its tag
(`registry/factory.go:699`), and a bit sequence its length, so that the bits that fill the
last byte are returned with the others.  Two encodings that are legal are `Refused` by the
code: a bit sequence of length zero (`types/bitvec.go:91`), and `Compact<()>`, whose
`ValueDecoder[any]` accepts no stream; for them the properties ask for an error.  Overrides
apply to fields, not to items of vectors, arrays and tuples, and both definitions have this
from the code.  Primitive types are decoded by `Scale` in both.  Names of fields are left
out.

### Retriever

A call has two stages, fetch and parse, each an `ExecWithFallback`.  Metadata and
registries are represented by their runtime; `Parses` says which registry parses
the data of which block, and may say that a wrong one does.  A fetch, the metadata
and the creation of a registry fail at any time.  A retriever has no lock and is
modelled as used by one goroutine; the sleep between tries has no effect.

### SCALE

`Scale` goes by the type as the code does.  A type with methods has a table: the
fields, and separately what `Decode` reads and what `Encode` writes, so that the two
can disagree.  Numbers and hashes are their bytes on the wire; what turns a `big.Int`
into bytes is in `NumberCodec`.  Decoding gets the value the variable held before,
because `Decode` methods set flags and clear none.  `TypeCodec` sends sample values
one after the other through one variable; the stream may end early, and a newer
node may send a tag that is unknown.

## Runs

| Run | Instance | Shows |
|---|---|---|
| `requests` | a batch of two with a deadline and a notification, or a Subscribe alone; one `Close`, two connections, arrays of two answers | type correctness, the write lock, registered requests can be answered, answers belong to their call, one reader, no leak after `Close`, no request is dropped silently; `RpcService` is implemented; `Close` and a cancelled call return, as long as `handler.close` does |
| `request_lost` | one call | **violated**: a caller is left waiting (below) |
| `subscription` | one subscription, two goroutines in `Unsubscribe`, four notifications, a buffer of two | error channel, order; nobody gets past `quitOnce` before the server has been told; `Unsubscribe` returns and `forward` ends, as long as the unsubscribe request returns |
| `send_on_closed_channel` | the same | **violated** (below) |
| `client` | a subscription and its unsubscribe request, one `Close`, two connections, two notifications | a subscription the application holds is never a zombie; the client implements `ClientSubscription` (its environment is really as assumed there); nothing keeps `dispatch` for ever except the deadlock of `dispatch_stuck` and its variants (`OnlyUnsubscribeBlocks`) |
| `dispatch_stuck` | the same | **violated** (below) |
| `retriever` | four blocks, two runtimes, both kinds of retriever, sixteen choices of options | metadata and registry agree; calls return, whatever fails; an outdated registry alone never refuses a block |
| `numbers` | one and two bytes at the limits of the range, compact integers at the limits of each mode | round trip, shortest form, refusal out of range |
| `types` | 141 types, two messages; the first cut anywhere or with an unknown tag for the types whose `Decode` drops no error | round trip of every variant and field, into a variable that has been used; truncation is an error |
| `server` | a stream with two frames (mixed batch, empty batch, call, a call that waits for its context, notification, not JSON), or two streams with one, or an HTTP request (16 kinds); `Stop` at any time | one reply per frame, complete and in order; no answer is lost because the peer stopped sending; nothing outlives `ServeCodec`; a call over HTTP gets its own answers; `ServeCodec` and calls return; cancelling a call ends both sides |
| `server_stop` | the same | **violated** (below) |
| `factory` | four runtimes (recursive through a slice and through itself, mutually recursive with an override, two that must be refused), three kinds of registry, in every order | a registry decodes as its own metadata says; it is created exactly if the metadata can be decoded; no decoder is left unconnected; blocks are parsed event by event |

The bounds: two connections are enough for a reconnect that overtakes the read
error of the old connection and for one that follows it; two ids in a batch for a
batch that is answered in part; a buffer of one or two for the overflow.
Sample values vary a type to depth 1: each variant and each field is taken, and
below that a first value; two messages are enough for a flag that survives.  The
number codecs are the same for each number of bytes, so that small ones are used.
Subscriptions share no state except through `dispatch`, so one is enough there; the
interplay with other requests is in `client`, and in `requests` a constraint
(`SubscribeAlone`) keeps the two apart: it only stops requests from being started, which
nothing waits for.  Connections of a server share only
`run` and `codecs`: two streams are enough for `Stop`, and two frames of one stream
for call goroutines that overtake each other.  HTTP requests share nothing else with
streams, so that the two are explored in separate initial states.  A factory keeps
nothing but its storages, and four runtimes with the same type numbers for different
types are enough to find one in the place of another.
Deadlock is not checked, as every goroutine ends after `Close`.

Fairness.  A goroutine that can move is scheduled (weak fairness for callers,
`dispatch` outside its `select` and outside `handler.close`, `Unsubscribe`).  A case of a `select` that is ready
again and again is chosen in the end, because Go picks at random (strong fairness
for the rendezvous with `dispatch` and for the cases of `forward`).  A read loop
whose codec is closed fails.  A goroutine in a retriever runs.  So do the
goroutines of the server (weak fairness); a read of a served connection returns once
one of its sides is closed, a callback returns unless it waits for its context, and
`Do` returns when its context is done, as net/http says.  Nothing is assumed of the
peer or the node, of contexts, of the application, or that `Stop` is called.  So two waits
may be for ever: `handler.close` for `quitOnce` and `callWG`, and the body of `quitOnce`
for the answer to its request.  The liveness properties of `requests` and `subscription`
are conditions on them: if `dispatch` leaves `handler.close` whenever it is there
(`HandlerCloses`), or the request returns (`RequestReturns`), everything else comes to its
end.  `OnlyUnsubscribeBlocks` then says, of the two together, when `dispatch` does not
leave.

### What is violated

1. `request_lost`: the connection fails after the caller has written and before
   `dispatch` has received its `reqSent`.  `conn.close(err, lastOp)` spares `lastOp`
   although no reconnect will move it; the caller waits for ever, `Close` included.
2. `dispatch_stuck`: `Unsubscribe` is in `quitOnce` and waits in `send` for
   `dispatch`; `dispatch` handles a read error and waits for `quitOnce`.
3. `send_on_closed_channel`: the wrappers close the channel while `forward` may
   still send.
4. `server_stop`: `Stop` runs between the check of `run` in `ServeCodec` and
   `codecs.Add`, and the codec stays open.  With two codecs it also closes only one,
   because the callback given to `Each` returns true.

TLC found more with the same modules.  They are not kept as runs; each is
repeated by checking the property named here alone.

- `UnsignedOutOfRangeRefused` (the instance of `numbers`): `BigIntToUintBytes` compares
  with `>`, so that 2^bits passes and the copy panics; its comment promises an
  error.
- `TruncationDetected` with `Types` and `Faulty` set to a type with a slice: the error
  of `DecodeUintCompact` is dropped in `scale/codec.go:425`, and a nil pointer is used.
- `ShutdownCompletes` (the instance of `dispatch_stuck` with `Op = {c1, s1, q1}`,
  `Closer = {x1}`, `MaxConn = 2`): the unsubscribe request is in `reconnect` because an
  earlier write failed, and `Close` is accepted.  `reconnect` waits for `didClose`,
  `dispatch` for `quitOnce`.  Without a failed write shutdown completes, as the test of
  this race in the repository expects.
- `CancelledSubscribeIsInert` (the instance of `client` with `Closer = {}` and
  `MaxConn = 1`): the context of `Subscribe`
  ends when its answer has been handled; the caller gets an error and the
  subscription lives on.
- `NothingAfterUnsubscribe` (the instance of `subscription`, `User = {u1}` and
  `MaxNotif = 2` suffice): `forward` chooses
  between a closed `quit` and a ready receiver at random.
- `TruncationDetected` with `Types` and `Faulty` set to `WithOption`: `DecodeOption`
  drops the error of its first read, and a stream that ends there holds an empty
  option.
- `TruncationDetected` with both set to `WithDroppedError`: `JunctionV1.Decode` returns nil
  when the `NetworkID` of a variant cannot be read.
- `UnknownVariantRefused` with both set to `WithoutDefault` and `NewTags = {200}`:
  `NetworkID.Decode` has no default case, and an unknown tag is a success with no
  flag set.
- `RoundTrip` with `Types` set to `Version`: `RuntimeVersion` neither writes nor reads
  `TransactionVersion`.

Two things the server properties leave room for.  `handler.close` waits for the call
goroutines before it cancels their context, so that a callback on a stream that waits
for its context keeps `ServeCodec` from returning, after `Stop` too; over HTTP the
context of the request ends it (`CancelEndsBoth`).  And `Notify` over HTTP always ends
with an error: the server answers a notification with an empty body, and the client
decodes it.

## Proofs

The theorems hold for any number of requests, ids, connections, subscriptions,
goroutines, frames and messages, under the assumptions the modules name, which TLC
evaluates on its instances: ids have one owner, a subscription request has one id
(`RequestAssumption`); goroutines are not confused with the states of `quitOnce`
(`SubscriptionAssumption`); `requestUnsubscribe` is a plain call with no deadline, one
for each subscription (`ClientAssumption`); a peer sends frames (`ServerAssumption`); the
client of the HTTP transport numbers its messages with `nextID`, so that their ids are
valid and differ (`HttpAssumption`; requests of other HTTP clients are arbitrary).

`RpcRequestsProofs`
- `TypeCorrect`.  `TypeOK` needs to know that a message is at hand where one is
  taken (`TypeInv`).
- `WriteLockExclusive`.  Needs that `reqSent` is empty while nobody holds the lock
  (`LockInv`), or the release of an earlier request would be taken for this one's.
- `SingleReader`.  `ReaderInv` says for each state of `dispatch` whether the read
  loop of its connection is still there.
- `NothingLeaks`.  `CodecInv` names the owner of each connection that is still open:
  `dispatch`, or the one goroutine that is dialling.

`RpcServiceProofs`
- `RegisteredAnswerable`.  That an id is registered only while its channel is open
  and has room rests on what happens before a request is written: until then it is
  *unseen*, no answer to it is on a wire, in a read loop, in the hands of `dispatch`
  or in its channel (`FreshInv`).  This is what makes it safe to register `lastOp`
  again on a new connection.  `FreshInv` needs the write lock, that a request that
  has not been accepted is not registered (`RegInv`), and that channels of unsent
  requests are closed only by `Close` (`ClosingInv`).  `AnswerInv` adds that the
  answers of a call are its own and differ; the room in the channel then follows by
  counting.
- `OwnAnswers`.  `OutcomeInv`: only a full set of answers, or no id at all, makes a
  call succeed.
- `ClosedIsError`, from the same invariant.
- `NoRequestForgotten`, the action property `NeverDroppedSilently`.  `NothingDropped` has
  one case per action; it needs `MoveInv`: while `dispatch` has no connection, only the
  request that dials is registered, so that a new handler loses no other.
- `ClientImplementsService`: every behaviour of `RpcRequests` is one of `RpcService`
  under the mapping `Service`.  `StepImplements` has one case per action; the steps of
  callers are in `CallerImplements`, all others stutter except for the `Close` that is
  accepted.  It uses the inductive invariants above: the write lock for "one at a time"
  (`NoSender`), `AnswerInv` for "its own, each once" (`FrontIsNew`), `OutcomeInv` and
  counting for "succeeds only with all" (`LastCompletes`).

`RpcSubscribeProofs`, `RpcClientProofs`
- `RequestsRefined`: the whole client makes requests as `RpcRequests` does, so that the
  theorems above hold of it.
- `NoSubscriptionLost` and `ClientFeedsSubscriptions`.  The second shows that the client
  implements `ClientSubscription` (the refinement `SubscriptionRefined`), so that
  `DeliveredInOrder` and the other theorems of that module hold end to end.  The hard
  part is that notifications are numbered by the server and counted by the subscription:
  `FeedInv` says that the two numbers differ by what the read loop and `dispatch` have in
  hand.  For that the answer that accepts a Subscribe must come before its first
  notification (`OrderInv`), nothing may be heard of a subscription that was not accepted
  (`QuietInv`), and a Subscribe that moves to a new connection must not have been accepted
  on the old one (`WireInv`, with `DialInv` and `HandInv` for the handover).  `HeldInv` is
  the invariant for `NoZombieSubscription`: a Subscribe that is about to succeed has
  started its goroutine, and the handler has it or has told it to quit.

`RpcHttpProofs`
- `ServerLeavesNothing`.  `ControlInv` says for each place of `ServeCodec`, `dispatch` and
  `serveSingleRequest` which of the other goroutines may still be there: a handler that is
  closed has no call goroutine (`callWG`), and only `drainRead` still waits for the read
  loop.
- `FrameAnsweredOnce`, `NoAnswerLost`.  `ProcInv`: a call goroutine has answered the first
  calls of its frame and has the others before it.  `FramesInv` and `RepliesInv` relate the
  frames, their goroutines and what was written.  That the loop of `handleBatch` leaves
  exactly the calls that want an answer, in their order, is an induction over the messages
  (`CallsOfFrame`).  The library's induction theorems cannot be used, so `CountUp` states
  induction for a set, from the fact that `<` is well-founded.
- `HttpCallAnswered`.  `CallerInv`: what the caller decoded is a rearrangement of the answers
  to its messages.  That `sendHTTP` and `sendBatchHTTP` accept no other body is
  `DecodedAnswers`; it rests on `FrameAnsweredOnce` and on `IncreasingOnto` (an increasing
  map onto all messages leaves none out and takes none twice).

`ClientSubscriptionProofs`
- `SubTypeCorrect`, `ErrorChannelSafe`, `EndReported`.  One inductive invariant,
  `OnceInv`: who is in the body of `quitOnce`, and that nobody gets past it before it has
  been run.
- `UnsubscribeToldServer`: no `Unsubscribe` gets past `quitOnce` before the unsubscribe
  request has returned, unless the subscription had ended with an error.  `ToldInv` adds
  to `OnceInv` what holds of the request and the error once the body has been run.
- `DeliveredInOrder`.  `OrderInv` states order and completeness by index, and
  that nothing in the queue is newer than the last notification delivered.

`RetrieverProofs`
- `RetrieverTypeCorrect`, `MetaRegistryAgree`.
- `RetriesSound`: `RetryBounded` and `RefusedByOwnRuntime`.  `RetryInv` ties the
  executions to the retry counter, and says that a retry of the parser follows a
  refresh.  It rests on `RetrieverAssumption`: parsing has `updateInternalState` as
  its fallback in both retrievers.

`ScaleCompactProofs`
- `CompactSelfDelimiting`, `CompactRoundTrip` for every number below 2^30.  Larger
  ones are model-checked: their digits would need an induction.

Only model-checked are: liveness, which is outside of the prover's reach; the tables of
types (`TypeCodec`) and the registry factory (`RegistryMeaning`), whose definitions are
recursive operators; and `NumberCodec`, whose digits of any length need an induction over
the number.

## Not modelled

- Dialling, framing and the text of JSON (I/O and formatting), CORS, compression and
  timeouts of net/http, logging.
- The JSON value null as a message, for which `parseMessage` makes a nil pointer
  (`gethrpc/json.go:236`).
- Calls that the peer of a client makes to it: in `RpcRequests` and `RpcClient` they are
  only the wait for `callWG`; `RpcServer` models how calls are served.
- Registration of services by reflection.  The `Notifier` and the subscriptions of the
  server: `handleSubscribe` is commented out in `handleCall`, and nothing else makes a
  notifier.
- In `Scale`: pointers, negative compact integers, lengths of slices from 2^64 on, the kinds of Go types that the codec
  refuses, and the types whose methods compute (`Address`, `ExtrinsicEra`, `Extrinsic`,
  `SignedCommitment`, `Moment`, `OptionBool`, the bits of a democracy vote, the version
  switch of `Metadata`).  They are conversions of one value each, without state.
- Lookups in metadata, signing payloads and storage keys: functions without state over
  encodings that are modelled, and over cryptography, which is not.
- The generic accessors to decoded fields, and cycles of types through items alone,
  which no Rust type has and on which the factory would not end.
- Environment lookups, generated mocks, and the structs of `types/events.go`, which have
  no behaviour.
- Request ids are unique in the model; in the code the counter has 32 bits.
