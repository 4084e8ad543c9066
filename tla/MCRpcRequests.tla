--------------------------- MODULE MCRpcRequests ---------------------------
(* RpcRequests for TLC: a call, a batch of two, a notification and, when      *)
(* Sub is not empty, a Subscribe.                                             *)
EXTENDS RpcRequests, TLC

CONSTANTS c1, b1, n1, s1

MCId == {<<c1, 1>>, <<b1, 1>>, <<b1, 2>>, <<s1, 1>>}
IdsIssued == {i \in MCId : i[1] \in Op}
OwnerOf == [i \in IdsIssued |-> i[1]]

\* A Subscribe is looked at alone, apart from the other requests: RpcClient has
\* the interplay.  A request that is not started changes nothing for the others.
SubscribeAlone ==
  \A op \in Op, s \in Sub : op # s => pc[op] = "idle" \/ pc[s] = "idle"

=============================================================================
