------------------------------ MODULE Retriever ------------------------------
(***************************************************************************)
(* eventRetriever and extrinsicRetriever of package registry/retriever,    *)
(* with the RetryableExecutor of registry/exec that both are built on.     *)
(*                                                                         *)
(* A call fetches the data of a block and then parses it with the registry *)
(* the retriever holds.  Each of the two stages is an ExecWithFallback; a  *)
(* fallback moves the retriever to the runtime of the block, except that   *)
(* extrinsicRetriever does nothing in the fallback of its fetch.  There is *)
(* no lock: a retriever belongs to one goroutine.                          *)
(***************************************************************************)
EXTENDS Naturals

CONSTANTS
  Block,          \* block hashes
  Runtime,        \* runtimes; metadata and a registry belong to each
  RuntimeOf,      \* the runtime a block was made with
  Parses,         \* pairs <<b, r>>: data of b is parsed by the registry of r
  Config          \* kinds of retriever with the options of their executors:
                  \* refreshes, the stages whose fallback is
                  \* updateInternalState; per stage, retryCount, the argument
                  \* of WithMaxRetryCount, and onFallbackErr

Stage == {"fetch", "parse"}

ASSUME RetrieverAssumption ==
  /\ RuntimeOf \in [Block -> Runtime]
  /\ Parses \subseteq Block \X Runtime
  /\ Config \subseteq [refreshes : {{"parse"}, Stage},
                       retryCount : [Stage -> Nat],
                       onFallbackErr : [Stage -> BOOLEAN]]

VARIABLES
  conf,     \* what the retriever was made with
  pc,       \* "new", "idle", "exec", "fallback" or "failed" (no retriever)
  block,    \* the argument of GetEvents or GetExtrinsics
  stage,    \* the executor that runs
  tries,    \* its retryCount
  meta,     \* retriever.meta, by its runtime
  reg,      \* retriever.eventRegistry or callRegistry, by its runtime
  outcome,  \* what the last call returned: "ok" or the stage that failed
  nexec,    \* history: execFn calls of the running executor
  fresh     \* history: how the last fallback of the executor ended

vars == <<conf, pc, block, stage, tries, meta, reg, outcome, nexec, fresh>>

TypeOK ==
  /\ conf \in Config
  /\ pc \in {"new", "idle", "exec", "fallback", "failed"}
  /\ pc \in {"exec", "fallback"} => block \in Block
  /\ pc \in {"idle", "exec", "fallback"} => meta \in Runtime /\ reg \in Runtime
  /\ stage \in Stage
  /\ tries \in Nat /\ nexec \in Nat
  /\ outcome \in Stage \cup {"none", "ok"}
  /\ fresh \in {"none", "ok", "failed"}

Init ==
  /\ conf \in Config
  /\ pc = "new"
  /\ block = "none" /\ meta = "none" /\ reg = "none"
  /\ stage = "fetch" /\ tries = 0 /\ nexec = 0
  /\ outcome = "none" /\ fresh = "none"

-----------------------------------------------------------------------------

defaultMaxRetryCount == 3

\* Mutant: zero is taken literally.
MaxRetryLiteral(s) == conf.retryCount[s]

\* WithMaxRetryCount: zero stands for the default.
MaxRetry(s) ==
  IF conf.retryCount[s] = 0 THEN defaultMaxRetryCount ELSE conf.retryCount[s]

\* Mutant: the metadata is stored before the registry is created.
UpdateInternalStateEager(r, res) ==
  /\ meta' = IF res = "metadata" THEN meta ELSE r
  /\ reg' = IF res = "ok" THEN r ELSE reg

\* updateInternalState: the metadata of runtime r is fetched and a registry is
\* created.  Either may fail (res); both are stored when neither does.
UpdateInternalState(r, res) ==
  IF res = "ok" THEN meta' = r /\ reg' = r ELSE UNCHANGED <<meta, reg>>

Update == {"metadata", "registry", "ok"}

\* NewEventRetriever, NewExtrinsicRetriever: the latest runtime, or an error.
New ==
  /\ pc = "new"
  /\ \E r \in Runtime, res \in Update :
       /\ UpdateInternalState(r, res)
       /\ pc' = IF res = "ok" THEN "idle" ELSE "failed"
  /\ UNCHANGED <<conf, block, stage, tries, outcome, nexec, fresh>>

\* GetEvents, GetExtrinsics up to the first execFn.
Get(b) ==
  /\ pc = "idle"
  /\ pc' = "exec"
  /\ block' = b
  /\ stage' = "fetch" /\ tries' = 0 /\ nexec' = 0
  /\ outcome' = "none" /\ fresh' = "none"
  /\ UNCHANGED <<conf, meta, reg>>

\* The block or its storage is fetched: the second executor starts.
FetchOk ==
  /\ pc = "exec" /\ stage = "fetch"
  /\ stage' = "parse" /\ tries' = 0 /\ nexec' = 0 /\ fresh' = "none"
  /\ UNCHANGED <<conf, pc, block, meta, reg, outcome>>

\* History only: execFn has run once more.  The count stops above the bound of
\* RetryBounded, which is then violated.
OneMore == IF nexec > MaxRetry(stage) + 1 THEN nexec ELSE nexec + 1

\* The parser succeeds with the registry at hand: the call returns.
ParseOk ==
  /\ pc = "exec" /\ stage = "parse"
  /\ <<block, reg>> \in Parses
  /\ pc' = "idle" /\ outcome' = "ok" /\ nexec' = OneMore
  /\ UNCHANGED <<conf, block, stage, tries, meta, reg, fresh>>

\* ExecWithFallback: execFn fails.  A fetch can always fail (network, storage
\* key); the outcome of parsing depends on the block and the registry only.
ExecErr ==
  /\ pc = "exec"
  /\ stage = "parse" => <<block, reg>> \notin Parses
  /\ nexec' = OneMore
  /\ IF tries = MaxRetry(stage)
       THEN pc' = "idle" /\ outcome' = stage
       ELSE pc' = "fallback" /\ UNCHANGED outcome
  /\ UNCHANGED <<conf, block, stage, tries, meta, reg, fresh>>

\* Mutant: tries are not counted.
AfterFallbackUncounted(ok) ==
  /\ fresh' = IF ok THEN "ok" ELSE "failed"
  /\ IF ok \/ conf.onFallbackErr[stage]
       THEN pc' = "exec" /\ UNCHANGED <<tries, outcome>>
       ELSE pc' = "idle" /\ outcome' = stage /\ UNCHANGED tries

\* fallbackFn, with the end of an iteration of ExecWithFallback.
AfterFallback(ok) ==
  /\ fresh' = IF ok THEN "ok" ELSE "failed"
  /\ IF ok \/ conf.onFallbackErr[stage]
       THEN pc' = "exec" /\ tries' = tries + 1 /\ UNCHANGED outcome
       ELSE pc' = "idle" /\ outcome' = stage /\ UNCHANGED tries

Refresh ==
  /\ pc = "fallback" /\ stage \in conf.refreshes
  /\ \E res \in Update :
       UpdateInternalState(RuntimeOf[block], res) /\ AfterFallback(res = "ok")
  /\ UNCHANGED <<conf, block, stage, nexec>>

\* The fallback of extrinsicRetriever for a block that was not fetched.
NoRefresh ==
  /\ pc = "fallback" /\ stage \notin conf.refreshes
  /\ AfterFallback(TRUE)
  /\ UNCHANGED <<conf, block, stage, meta, reg, nexec>>

Next ==
  \/ New
  \/ \E b \in Block : Get(b)
  \/ FetchOk \/ ParseOk \/ ExecErr
  \/ Refresh \/ NoRefresh

\* The goroutine runs; nothing forces the application to call.
Fairness == WF_vars(FetchOk \/ ParseOk \/ ExecErr \/ Refresh \/ NoRefresh)

Spec == Init /\ [][Next]_vars
FairSpec == Spec /\ Fairness

-----------------------------------------------------------------------------

\* The metadata, which makes the storage key, and the registry, which decodes
\* what is stored there, are of one runtime, whatever failed in between
\* (updateInternalState stores both or none).
MetaMatchesRegistry == meta = reg

\* An executor runs execFn once and once more per retry, never more often
\* (ExecWithFallback compares before it counts).
RetryBounded == nexec <= MaxRetry(stage) + 1

\* A block is refused as not parsable only after the registry of its own
\* runtime was tried, or could not be had: an outdated registry alone never
\* makes GetEvents or GetExtrinsics fail, also with a retry count of zero.
RefusedByOwnRuntime ==
  outcome = "parse" =>
    fresh = "failed" \/ (reg = RuntimeOf[block] /\ <<block, reg>> \notin Parses)

\* The inductive form of the two properties above: executions are counted by
\* tries, and a retry of the parser comes after a refresh.
RetryInv ==
  /\ pc \in {"new", "failed"} => outcome = "none" /\ nexec = 0
  /\ pc = "exec" => nexec = tries /\ tries <= MaxRetry(stage)
  /\ pc = "fallback" => nexec = tries + 1 /\ tries < MaxRetry(stage)
  /\ pc \in {"exec", "fallback"} => outcome = "none"
  /\ pc = "exec" /\ stage = "parse" /\ tries > 0 =>
       fresh = "failed" \/ reg = RuntimeOf[block]
  /\ RetryBounded
  /\ RefusedByOwnRuntime

\* Every call returns, whatever fails and however often.
CallReturns == pc = "exec" ~> pc = "idle"

=============================================================================
