---------------------------- MODULE TaskAttempts ----------------------------
(***************************************************************************)
(* How often the table's rows are handed to a worker.  retry_count does    *)
(* not tell: a start-up, an expired lease and a release hand a row out     *)
(* again without spending a retry.  Two counters that no code reads are    *)
(* kept beside TaskTable; every step is one of its own, with the counters. *)
(***************************************************************************)
EXTENDS TaskTable

CONSTANT RunCap     \* bound: how often one row may be claimed

ASSUME RunAssumption == RunCap \in Nat

VARIABLES
    runs,       \* how often the row was handed to a worker since it was made
    unspent     \* how many of those attempts ended without spending a retry

counts == <<runs, unspent>>

AttemptsInit == Init /\ runs = [t \in Tasks |-> 0] /\ unspent = [t \in Tasks |-> 0]

(* The attempts under way on the rows of S end and no retry is spent. *)
EndUnspent(S) ==
    unspent' = [t \in Tasks |-> IF t \in S /\ Is(t, "running") THEN unspent[t] + 1
                                                             ELSE unspent[t]]

(* Claiming a row that is still running takes over an expired lease. *)
Attempt(t) ==
    /\ Claim(t)
    /\ runs[t] < RunCap
    /\ runs' = [runs EXCEPT ![t] = @ + 1]
    /\ EndUnspent({t})

Release(t) == ReleaseWithoutRetry(t) /\ EndUnspent({t}) /\ UNCHANGED runs

Restart == RecoverAbandoned /\ EndUnspent(Tasks) /\ UNCHANGED runs

(* A row that is enqueued again after it was deleted is a new row. *)
Purge(S) ==
    /\ PurgeTasks(S)
    /\ runs' = [t \in Tasks |-> IF t \in S THEN 0 ELSE runs[t]]
    /\ unspent' = [t \in Tasks |-> IF t \in S THEN 0 ELSE unspent[t]]

(* The other operations hand no row out and give no attempt back. *)
Uncounted(t) ==
    \/ \E max \in RetryPolicies : Enqueue(t, max)
    \/ RejectPayload(t)
    \/ Heartbeat(t)
    \/ Complete(t)
    \/ CompleteFromReceipt(t)
    \/ Fail(t)
    \/ FailTerminal(t)
    \/ FailLocalPreflight(t)

AttemptsNext ==
    \/ \E t \in Tasks : Attempt(t) \/ Release(t) \/ (Uncounted(t) /\ UNCHANGED counts)
    \/ \E S \in SUBSET Tasks : Purge(S) \/ (Expire(S) /\ UNCHANGED counts)
    \/ Restart

AttemptsSpec == AttemptsInit /\ [][AttemptsNext]_<<task, counts>>

-----------------------------------------------------------------------------
(* A row is handed to a worker at most as often as its retry policy allows,  *)
(* and once more for each time an attempt was given back without a retry: by *)
(* a start-up, an expired lease or a release.  No order of claims, failures, *)
(* restarts, expiries, releases and calls on the same id adds another, not   *)
(* even for a row that is closed in the middle of an attempt.                *)
AttemptsBudgeted ==
    \A t \in Tasks : Present(t) => runs[t] <= task[t].max + unspent[t]

(* Why: as long as a row can run, every attempt handed out is a retry spent, *)
(* one given back, or the one under way.                                     *)
AttemptsAccounted ==
    \A t \in Tasks :
        /\ Is(t, "pending") => runs[t] = task[t].retry + unspent[t]
        /\ Is(t, "running") => runs[t] = task[t].retry + unspent[t] + 1
        /\ ~Present(t) => runs[t] = 0 /\ unspent[t] = 0
=============================================================================
