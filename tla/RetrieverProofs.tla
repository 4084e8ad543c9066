--------------------------- MODULE RetrieverProofs ---------------------------
(***************************************************************************)
(* Safety of Retriever for any blocks, runtimes and retry counts.          *)
(***************************************************************************)
EXTENDS Retriever, TLAPS

\* A retry count is a number and, as zero stands for the default, positive.
LEMMA MaxRetryPositive ==
  ASSUME TypeOK, NEW s \in Stage
  PROVE  MaxRetry(s) \in Nat \ {0}
BY RetrieverAssumption DEF TypeOK, MaxRetry, defaultMaxRetryCount

\* Each step of a retriever keeps its state well typed.
LEMMA RetrieverTypeNext == TypeOK /\ [Next]_vars => TypeOK'
<1> SUFFICES ASSUME TypeOK, [Next]_vars PROVE TypeOK'
  OBVIOUS
<1> USE RetrieverAssumption DEF TypeOK, Stage
<1>1. CASE New
  BY <1>1 DEF New, UpdateInternalState, Update
<1>2. ASSUME NEW b \in Block, Get(b) PROVE TypeOK'
  BY <1>2 DEF Get
<1>3. CASE FetchOk
  BY <1>3 DEF FetchOk
<1>4. CASE ParseOk
  BY <1>4 DEF ParseOk, OneMore
<1>5. CASE ExecErr
  BY <1>5 DEF ExecErr, OneMore
<1>6. CASE Refresh
  BY <1>6 DEF Refresh, UpdateInternalState, AfterFallback, Update
<1>7. CASE NoRefresh
  BY <1>7 DEF NoRefresh, AfterFallback
<1>8. CASE UNCHANGED vars
  BY <1>8 DEF vars
<1> QED
  BY <1>1, <1>2, <1>3, <1>4, <1>5, <1>6, <1>7, <1>8 DEF Next

\* The state of a retriever is always well typed.
THEOREM RetrieverTypeCorrect == Spec => []TypeOK
<1>1. Init => TypeOK
  BY DEF Init, TypeOK, Stage
<1> QED
  BY <1>1, RetrieverTypeNext, PTL DEF Spec

\* Metadata and registry are of one runtime: updateInternalState stores both
\* or none.
THEOREM MetaRegistryAgree == Spec => []MetaMatchesRegistry
<1>1. Init => MetaMatchesRegistry
  BY DEF Init, MetaMatchesRegistry
<1>2. MetaMatchesRegistry /\ [Next]_vars => MetaMatchesRegistry'
  <2> SUFFICES ASSUME MetaMatchesRegistry, [Next]_vars PROVE MetaMatchesRegistry'
    OBVIOUS
  <2> USE DEF MetaMatchesRegistry
  <2>1. CASE New
    BY <2>1 DEF New, UpdateInternalState
  <2>2. CASE Refresh
    BY <2>2 DEF Refresh, UpdateInternalState
  <2>3. CASE UNCHANGED <<meta, reg>>
    BY <2>3
  <2> QED
    BY <2>1, <2>2, <2>3
       DEF Next, vars, Get, FetchOk, ParseOk, ExecErr, NoRefresh
<1> QED
  BY <1>1, <1>2, PTL DEF Spec

\* Each step keeps the count of executions and what is known of a retry.
LEMMA RetryInvNext == TypeOK /\ RetryInv /\ [Next]_vars => RetryInv'
<1> SUFFICES ASSUME TypeOK, RetryInv, [Next]_vars PROVE RetryInv'
  OBVIOUS
<1> DEFINE M(s) == MaxRetry(s)
<1>a. M(stage) \in Nat \ {0} /\ M("fetch") \in Nat \ {0} /\ M("parse") \in Nat \ {0}
  BY MaxRetryPositive DEF TypeOK, Stage
<1>b. conf' = conf
  BY DEF Next, vars, New, Get, FetchOk, ParseOk, ExecErr, Refresh, NoRefresh
<1>c. M(stage)' = M(stage')
  BY <1>b DEF MaxRetry
<1> HIDE DEF M
<1>d. RetryInv' <=>
        /\ pc' \in {"new", "failed"} => outcome' = "none" /\ nexec' = 0
        /\ pc' = "exec" => nexec' = tries' /\ tries' <= M(stage')
        /\ pc' = "fallback" => nexec' = tries' + 1 /\ tries' < M(stage')
        /\ pc' \in {"exec", "fallback"} => outcome' = "none"
        /\ pc' = "exec" /\ stage' = "parse" /\ tries' > 0 =>
             fresh' = "failed" \/ reg' = RuntimeOf[block']
        /\ nexec' <= M(stage') + 1
        /\ RefusedByOwnRuntime'
  BY <1>c DEF M, RetryInv, RetryBounded
<1>e. /\ pc = "exec" => nexec = tries /\ tries <= M(stage)
      /\ pc = "fallback" => nexec = tries + 1 /\ tries < M(stage)
      /\ nexec <= M(stage) + 1
  BY DEF M, RetryInv, RetryBounded
<1> USE <1>a, <1>d, <1>e DEF TypeOK, Stage, RetryInv, RefusedByOwnRuntime
<1>1. CASE New
  BY <1>1 DEF New
<1>2. ASSUME NEW b \in Block, Get(b) PROVE RetryInv'
  BY <1>2 DEF Get
<1>3. CASE FetchOk
  BY <1>3 DEF FetchOk
<1>4. CASE ParseOk
  BY <1>4 DEF ParseOk, OneMore, M
<1>5. CASE ExecErr
  BY <1>5 DEF ExecErr, OneMore, M
<1>6. CASE Refresh
  BY <1>6 DEF Refresh, UpdateInternalState, AfterFallback, Update
<1>7. CASE NoRefresh
  BY <1>7, RetrieverAssumption DEF NoRefresh, AfterFallback
<1>8. CASE UNCHANGED vars
  BY <1>8 DEF vars
<1> QED
  BY <1>1, <1>2, <1>3, <1>4, <1>5, <1>6, <1>7, <1>8 DEF Next

\* execFn runs once and once more per retry at most, and a block is refused
\* only with the registry of its own runtime, or when that cannot be had.
THEOREM RetriesSound == Spec => [](RetryBounded /\ RefusedByOwnRuntime)
<1>1. Init => TypeOK /\ RetryInv
  BY MaxRetryPositive
     DEF Init, TypeOK, Stage, RetryInv, RetryBounded, RefusedByOwnRuntime
<1>2. RetryInv => RetryBounded /\ RefusedByOwnRuntime
  BY DEF RetryInv
<1> QED
  BY <1>1, <1>2, RetrieverTypeNext, RetryInvNext, PTL DEF Spec

=============================================================================
