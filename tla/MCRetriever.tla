----------------------------- MODULE MCRetriever -----------------------------
EXTENDS Retriever

\* b3 has a type that no registry decodes; b1 is parsed, wrongly or not, by
\* the registry of the other runtime too.
MCRuntimeOf == [b \in Block |-> IF b \in {"b1", "b4"} THEN "r1" ELSE "r2"]
MCParses == {<<"b1", "r1">>, <<"b1", "r2">>, <<"b2", "r2">>, <<"b4", "r1">>}

\* Both retrievers; zero, one and more retries; with and without a retry
\* after a failed fallback.
MCConfig ==
  [refreshes : {{"parse"}, Stage},
   retryCount : {[fetch |-> 0, parse |-> 1], [fetch |-> 5, parse |-> 0]},
   onFallbackErr : [Stage -> BOOLEAN]]

=============================================================================
