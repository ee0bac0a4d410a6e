----------------------------- MODULE TaskQueue -----------------------------
(***************************************************************************)
(* vt-pipeline's TaskQueue over tasks.db: leases are deadlines on a clock, *)
(* claim_next takes the oldest row of the highest priority, a claim holds  *)
(* one of the queue's permits until the claimed Task value is dropped, and *)
(* rows written by another version may carry a payload that does not       *)
(* decode.  Every operation is one SQLite transaction under one lock.      *)
(***************************************************************************)
EXTENDS Naturals, FiniteSets

CONSTANTS
    Tasks, RetryPolicies, RetryCap,
    Malformed,   \* ids whose stored payload does not decode
    Priorities,  \* the TaskPriority values in use
    Permits,     \* the semaphore's permits
    LeaseTicks,  \* lease length, in clock ticks
    MaxNow       \* bound: the clock stops here

ASSUME QueueAssumption ==
    /\ RetryPolicies \subseteq Nat \ {0}
    /\ RetryCap \in Nat
    /\ Malformed \subseteq Tasks
    /\ Priorities \subseteq Nat
    /\ Priorities # {}
    /\ Permits \in Nat \ {0}
    /\ LeaseTicks \in Nat \ {0}
    /\ MaxNow \in Nat

VARIABLES
    row,      \* the rows of the tasks table
    now,      \* the wall clock
    permits   \* free permits of the process's semaphore

vars == <<row, now, permits>>

QueueStatus == {"absent", "pending", "running", "completed", "failed"}

(* deadline is lease_expires_at_ms and beat last_heartbeat_at_ms, both NULL *)
(* (here 0) unless the row is running.                                      *)
QueueRow == [status : QueueStatus, retry : Nat, max : RetryPolicies \cup {0},
             prio : Nat, created : Nat, deadline : Nat, beat : Nat]

NoQueueRow == [status |-> "absent", retry |-> 0, max |-> 0,
               prio |-> 0, created |-> 0, deadline |-> 0, beat |-> 0]

NewRow(max, prio) == [status |-> "pending", retry |-> 0, max |-> max,
                      prio |-> prio, created |-> now, deadline |-> 0, beat |-> 0]

Init ==
    /\ now = 0
    /\ permits = Permits
    /\ row \in [Tasks -> {NoQueueRow} \cup
                         {NewRow(max, prio) : max \in RetryPolicies, prio \in Priorities}]

Has(t, status) == row[t].status = status

Stored(t) == row[t].status # "absent"

(* A mutant: a lease is due although its owner still beats. *)
Due_AnyLease(t) == Has(t, "pending") \/ Has(t, "running")

(* status = 'pending' OR (status = 'running' AND lease_expires_at_ms <= now) *)
Due(t) == Has(t, "pending") \/ (Has(t, "running") /\ row[t].deadline <= now)

(* ORDER BY priority DESC, created_at ASC LIMIT 1 *)
First(t) ==
    /\ Due(t)
    /\ \A u \in Tasks :
          Due(u) => \/ row[u].prio < row[t].prio
                    \/ row[u].prio = row[t].prio /\ row[t].created <= row[u].created

SetRow(t, status, retry, deadline, beat) ==
    row' = [row EXCEPT ![t] = [@ EXCEPT !.status = status, !.retry = retry,
                                        !.deadline = deadline, !.beat = beat]]

Leased(t) == SetRow(t, "running", row[t].retry, now + LeaseTicks, now)

Unleased(t, status, retry) == SetRow(t, status, retry, 0, 0)

-----------------------------------------------------------------------------
(* A mutant: INSERT OR REPLACE. *)
enqueue_Replace(t, max, prio) ==
    /\ t \notin Malformed
    /\ row' = [row EXCEPT ![t] = NewRow(max, prio)]
    /\ UNCHANGED <<now, permits>>

enqueue(t, max, prio) ==
    /\ t \notin Malformed
    /\ IF Stored(t)
       THEN row[t].max = max /\ UNCHANGED row
       ELSE row' = [row EXCEPT ![t] = NewRow(max, prio)]
    /\ UNCHANGED <<now, permits>>

(* claim_next drains undecodable rows at the head of the queue before it    *)
(* leases the first decodable one.                                          *)
claim_next(t) ==
    /\ permits > 0
    /\ First(t)
    /\ IF t \in Malformed
       THEN Unleased(t, "failed", row[t].retry + 1) /\ UNCHANGED permits
       ELSE Leased(t) /\ permits' = permits - 1
    /\ UNCHANGED now

claim_by_id(t) ==
    /\ permits > 0
    /\ t \notin Malformed
    /\ Due(t)
    /\ Leased(t)
    /\ permits' = permits - 1
    /\ UNCHANGED now

heartbeat(t) ==
    Has(t, "running") /\ Leased(t) /\ UNCHANGED <<now, permits>>

complete(t) ==
    /\ Has(t, "running")
    /\ Unleased(t, "completed", row[t].retry)
    /\ UNCHANGED <<now, permits>>

complete_from_durable_provider_receipt(t) ==
    /\ Stored(t)
    /\ Unleased(t, "completed", row[t].retry)
    /\ UNCHANGED <<now, permits>>

release_without_retry(t) ==
    /\ Has(t, "running")
    /\ Unleased(t, "pending", row[t].retry)
    /\ UNCHANGED <<now, permits>>

fail(t) ==
    /\ Has(t, "running")
    /\ Unleased(t, IF row[t].retry + 1 >= row[t].max THEN "failed" ELSE "pending",
                row[t].retry + 1)
    /\ UNCHANGED <<now, permits>>

fail_terminal(t) ==
    /\ Stored(t)
    /\ row[t].retry < RetryCap
    /\ Unleased(t, "failed", row[t].retry + 1)
    /\ UNCHANGED <<now, permits>>

fail_local_preflight(t) ==
    /\ Has(t, "running")
    /\ Unleased(t, "failed", row[t].retry)
    /\ UNCHANGED <<now, permits>>

(* purge_task deletes one row, purge_session the rows of one session. *)
purge(S) ==
    /\ row' = [t \in Tasks |-> IF t \in S THEN NoQueueRow ELSE row[t]]
    /\ UNCHANGED <<now, permits>>

(* A mutant: a permit is given back twice. *)
drop_task_Twice == permits < Permits /\ permits' = permits + 2 /\ UNCHANGED <<row, now>>

(* Dropping a claimed Task gives its permit back, whatever became of the row. *)
drop_task == permits < Permits /\ permits' = permits + 1 /\ UNCHANGED <<row, now>>

(* A new process: its semaphore is full and it recovers the leases of the   *)
(* process that died.                                                       *)
recover_abandoned_tasks ==
    /\ permits' = Permits
    /\ row' = [t \in Tasks |->
                 IF Has(t, "running")
                 THEN [row[t] EXCEPT !.status = "pending", !.deadline = 0, !.beat = 0]
                 ELSE row[t]]
    /\ UNCHANGED now

Tick == now < MaxNow /\ now' = now + 1 /\ UNCHANGED <<row, permits>>

Next ==
    \/ \E t \in Tasks :
         \/ \E max \in RetryPolicies, prio \in Priorities : enqueue(t, max, prio)
         \/ claim_next(t)
         \/ claim_by_id(t)
         \/ heartbeat(t)
         \/ complete(t)
         \/ complete_from_durable_provider_receipt(t)
         \/ release_without_retry(t)
         \/ fail(t)
         \/ fail_terminal(t)
         \/ fail_local_preflight(t)
         \/ purge({t})
    \/ drop_task
    \/ recover_abandoned_tasks
    \/ Tick

Spec == Init /\ [][Next]_vars

-----------------------------------------------------------------------------
(* Rows are well formed, and claims and dropped tasks never leave the      *)
(* semaphore with more permits than it was made with.                      *)
TypeOK ==
    /\ row \in [Tasks -> QueueRow]
    /\ now \in Nat
    /\ permits \in 0..Permits

(* A running row's deadline is its last heartbeat plus the lease, whoever   *)
(* wrote it last; no other row has one.  claim_next and heartbeat compute   *)
(* the pair separately, and takeover relies on their agreeing.              *)
LeaseFollowsBeat ==
    \A t \in Tasks :
        /\ Has(t, "running") => row[t].deadline = row[t].beat + LeaseTicks
        /\ ~Has(t, "running") => row[t].deadline = 0 /\ row[t].beat = 0

(* A second worker is handed a running task only after a whole lease without *)
(* a heartbeat from the first (a step that takes a permit is a claim).       *)
NoEarlyTakeover ==
    [][\A t \in Tasks :
          (permits' < permits /\ Has(t, "running") /\ row'[t] # row[t])
             => now >= row[t].beat + LeaseTicks]_vars

(* The queue implements TaskTable: a lease is live until its deadline. *)
TableRow(t) ==
    [status |-> row[t].status,
     retry  |-> row[t].retry,
     max    |-> row[t].max,
     lease  |-> IF row[t].status # "running" THEN "none"
                ELSE IF row[t].deadline <= now THEN "expired" ELSE "live"]

TableRows == [t \in Tasks |-> TableRow(t)]

Table == INSTANCE TaskTable WITH task <- TableRows

(* The clocked, prioritised queue only ever does what TaskTable allows. *)
ImplementsTable == Table!Spec
=============================================================================
