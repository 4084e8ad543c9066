---------------------------- MODULE MCRpcClient ----------------------------
(* RpcClient for TLC: a subscription with its unsubscribe request and,        *)
(* where Op has it, a call.                                                   *)
EXTENDS RpcClient, TLC

CONSTANTS c1, s1, q1

OneEach == {<<op, 1>> : op \in Op}
OwnerOf == [i \in OneEach |-> i[1]]
UnsubOf == [s \in Sub |-> q1]

=============================================================================
