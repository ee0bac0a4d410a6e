---------------------------- MODULE MCTaskQueue ----------------------------
(* Three ids, one of them with a payload that does not decode, and two     *)
(* priorities for two permits: claims compete, leases run out and budgets  *)
(* are used up.                                                            *)
EXTENDS TaskQueue

CONSTANTS t1, t2, t3

MCTasks == {t1, t2, t3}
MCMalformed == {t3}
MCPolicies == {2}
MCPriorities == {0, 10}
=============================================================================
