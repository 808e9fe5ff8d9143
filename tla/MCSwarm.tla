------------------------------ MODULE MCSwarm ------------------------------
(* A small instance of a node: two callers, one of which calls again, so    *)
(* that its first call can be over while its query goes on, and a channel   *)
(* smaller than that, so that the sender waits for room.                    *)
EXTENDS Swarm

CONSTANTS c1, c2

MCCallers == {c1, c2}

MCMaxCalls == [c \in MCCallers |-> IF c = c1 THEN 2 ELSE 1]

AllOps == {"PutLocal", "PutRemote", "StartProviding", "Get", "GetProviders",
           "GetClosestPeers", "RequestVerification"}
=============================================================================
