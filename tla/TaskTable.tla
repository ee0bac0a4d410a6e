----------------------------- MODULE TaskTable -----------------------------
(***************************************************************************)
(* What the durable task queue promises its callers: one row per task id,  *)
(* moved by the operations of vt-pipeline's TaskQueue.  Time is abstract   *)
(* here (a lease is live or has expired); TaskQueue refines this module    *)
(* with the clock, the claim order and the worker permits.                 *)
(*                                                                         *)
(* No operation names the claim it belongs to: a row is addressed by its   *)
(* id alone, so every operation is open to every caller at any time.       *)
(***************************************************************************)
EXTENDS Naturals

CONSTANTS
    Tasks,          \* the stable task ids
    RetryPolicies,  \* the values of max_retries a caller may ask for
    RetryCap        \* bound: fail_terminal keeps counting past max_retries

ASSUME RetryAssumption ==
    /\ RetryPolicies \subseteq Nat \ {0}
    /\ RetryCap \in Nat

VARIABLE task

Status == {"absent", "pending", "running", "completed", "failed"}

Lease == {"none", "live", "expired"}

Row == [status : Status, retry : Nat, max : RetryPolicies \cup {0}, lease : Lease]

NoRow == [status |-> "absent", retry |-> 0, max |-> 0, lease |-> "none"]

Pending(max) == [status |-> "pending", retry |-> 0, max |-> max, lease |-> "none"]

(* The database may hold rows that an earlier version of the app left. *)
Init == task \in [Tasks -> {NoRow} \cup {Pending(max) : max \in RetryPolicies}]

(* The status and the lease always change together. *)
Move(t, status, retry, lease) ==
    task' = [task EXCEPT ![t] = [status |-> status, retry |-> retry, max |-> @.max,
                                 lease |-> lease]]

Is(t, status) == task[t].status = status

Present(t) == task[t].status # "absent"

(* A mutant: an abandoned claim is never taken over. *)
Claimable_PendingOnly(t) == Is(t, "pending")

Claimable(t) == Is(t, "pending") \/ (Is(t, "running") /\ task[t].lease = "expired")

-----------------------------------------------------------------------------
(* INSERT ... ON CONFLICT(id) DO NOTHING: a row that is there already wins, *)
(* and the call succeeds only if it carries the same retry policy.          *)
Enqueue(t, max) ==
    IF Present(t)
    THEN task[t].max = max /\ UNCHANGED task
    ELSE task' = [task EXCEPT ![t] = Pending(max)]

Claim(t) == Claimable(t) /\ Move(t, "running", task[t].retry, "live")

(* A row whose payload this version cannot decode fails as it is claimed. *)
RejectPayload(t) ==
    Claimable(t) /\ Move(t, "failed", task[t].retry + 1, "none")

Heartbeat(t) == Is(t, "running") /\ Move(t, "running", task[t].retry, "live")

Complete(t) == Is(t, "running") /\ Move(t, "completed", task[t].retry, "none")

CompleteFromReceipt(t) ==
    Present(t) /\ Move(t, "completed", task[t].retry, "none")

(* A mutant: a release does not ask who holds the row. *)
ReleaseWithoutRetry_Any(t) ==
    Present(t) /\ Move(t, "pending", task[t].retry, "none")

ReleaseWithoutRetry(t) ==
    Is(t, "running") /\ Move(t, "pending", task[t].retry, "none")

(* A mutant: one attempt too many. *)
Fail_OneMore(t) ==
    /\ Is(t, "running")
    /\ Move(t, IF task[t].retry + 1 > task[t].max THEN "failed" ELSE "pending",
            task[t].retry + 1, "none")

Fail(t) ==
    /\ Is(t, "running")
    /\ Move(t, IF task[t].retry + 1 >= task[t].max THEN "failed" ELSE "pending",
            task[t].retry + 1, "none")

FailTerminal(t) ==
    /\ Present(t)
    /\ task[t].retry < RetryCap
    /\ Move(t, "failed", task[t].retry + 1, "none")

FailLocalPreflight(t) ==
    Is(t, "running") /\ Move(t, "failed", task[t].retry, "none")

PurgeTasks(S) == task' = [t \in Tasks |-> IF t \in S THEN NoRow ELSE task[t]]

(* Once per process start, under the data directory's owner lock. *)
RecoverAbandoned ==
    task' = [t \in Tasks |->
               IF Is(t, "running")
               THEN [status |-> "pending", retry |-> task[t].retry,
                     max |-> task[t].max, lease |-> "none"]
               ELSE task[t]]

(* Time passes: the leases of a set of running rows run out together. *)
Expire(S) ==
    /\ \A t \in S : Is(t, "running")
    /\ task' = [t \in Tasks |->
                  IF t \in S THEN [task[t] EXCEPT !.lease = "expired"] ELSE task[t]]

Next ==
    \/ \E t \in Tasks :
         \/ \E max \in RetryPolicies : Enqueue(t, max)
         \/ Claim(t)
         \/ RejectPayload(t)
         \/ Heartbeat(t)
         \/ Complete(t)
         \/ CompleteFromReceipt(t)
         \/ ReleaseWithoutRetry(t)
         \/ Fail(t)
         \/ FailTerminal(t)
         \/ FailLocalPreflight(t)
    \/ \E S \in SUBSET Tasks : PurgeTasks(S) \/ Expire(S)
    \/ RecoverAbandoned

Spec == Init /\ [][Next]_task

-----------------------------------------------------------------------------
(* Every row has the columns that the operations of the queue write. *)
TypeOK == task \in [Tasks -> Row]

(* fail() closes a row as soon as its retries are spent, so a row that waits *)
(* or runs has spent fewer than its policy, and only a running row carries a *)
(* lease.  What this means for the attempts is TaskAttempts' to say.         *)
BudgetRemains ==
    \A t \in Tasks :
        /\ (Is(t, "pending") \/ Is(t, "running")) => task[t].retry < task[t].max
        /\ Is(t, "running") <=> task[t].lease # "none"

(* A task that reached a terminal row is never handed to a worker again.    *)
(* Its row can only be deleted, be closed from a durable provider result,   *)
(* or be failed.                                                            *)
TerminalNeverReclaimed ==
    [][\A t \in Tasks :
          (Is(t, "completed") \/ Is(t, "failed"))
             => task'[t].status \in {"completed", "failed", "absent"}]_task
=============================================================================
