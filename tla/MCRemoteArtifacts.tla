-------------------------- MODULE MCRemoteArtifacts --------------------------
(* Two tasks, each attempted up to twice, and up to two crashes: a second   *)
(* attempt meets what the first left, and one task's sweep the other's.     *)
EXTENDS RemoteArtifacts

CONSTANTS t1, t2

MCTasks == {t1, t2}
AllFailures == {"response", "sweep", "journal", "rerun"}
ResponseLost == {"response"}
SweepFails == {"sweep"}
Reruns == {"rerun"}
=============================================================================
