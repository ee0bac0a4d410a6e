-------------------------- MODULE TaskQueueProofs --------------------------
(* The lease discipline of the queue, and that it implements TaskTable.    *)
EXTENDS TaskQueue, TLAPS

(* What the one UPDATE behind every row operation does to the table. *)
LEMMA SetRowFields ==
  ASSUME TypeOK, NEW t \in Tasks, NEW status, NEW retry, NEW deadline, NEW beat,
         SetRow(t, status, retry, deadline, beat)
  PROVE  /\ row'[t].status = status
         /\ row'[t].retry = retry
         /\ row'[t].max = row[t].max
         /\ row'[t].deadline = deadline
         /\ row'[t].beat = beat
         /\ \A u \in Tasks \ {t} : row'[u] = row[u]
<1>1. row'[t] = [row[t] EXCEPT !.status = status, !.retry = retry,
                               !.deadline = deadline, !.beat = beat]
  BY DEF SetRow, TypeOK
<1>2. \A u \in Tasks \ {t} : row'[u] = row[u]
  BY DEF SetRow, TypeOK
<1>3. row[t] \in QueueRow
  BY DEF TypeOK
<1> QED BY <1>1, <1>2, <1>3 DEF QueueRow

(* The operations that move one row, as the UPDATE each of them runs. *)
RowStep(t) ==
    \/ claim_next(t) \/ claim_by_id(t) \/ heartbeat(t) \/ complete(t)
    \/ complete_from_durable_provider_receipt(t) \/ release_without_retry(t) \/ fail(t)
    \/ fail_terminal(t) \/ fail_local_preflight(t)

(* Each of them leases the row or clears its lease columns. *)
LEMMA RowStepMoves ==
  ASSUME TypeOK, NEW t \in Tasks, RowStep(t)
  PROVE  \/ Leased(t)
         \/ \E status \in {"pending", "completed", "failed"}, retry \in Nat :
               Unleased(t, status, retry)
<1>1. row[t].retry \in Nat /\ row[t].retry + 1 \in Nat
  BY DEF TypeOK, QueueRow
<1> QED
  BY <1>1 DEF RowStep, claim_next, claim_by_id, heartbeat, complete,
     complete_from_durable_provider_receipt, release_without_retry, fail, fail_terminal,
     fail_local_preflight

(* The rows, the clock and the permits keep their types. *)
THEOREM TypeCorrect == Spec => []TypeOK
<1>1. Init => TypeOK
  BY QueueAssumption DEF Init, TypeOK, QueueRow, NoQueueRow, NewRow, QueueStatus
<1>2. TypeOK /\ [Next]_vars => TypeOK'
  <2> SUFFICES ASSUME TypeOK, [Next]_vars PROVE TypeOK'
    OBVIOUS
  <2>1. ASSUME NEW t \in Tasks, NEW max \in RetryPolicies, NEW prio \in Priorities,
               enqueue(t, max, prio)
        PROVE TypeOK'
    <3>1. NewRow(max, prio) \in QueueRow
      BY QueueAssumption DEF NewRow, QueueRow, QueueStatus, TypeOK
    <3> QED BY <2>1, <3>1 DEF enqueue, TypeOK
  <2>2. ASSUME NEW t \in Tasks, RowStep(t) PROVE TypeOK'
    <3>1. PICK status \in QueueStatus, retry \in Nat, deadline \in Nat, beat \in Nat :
            SetRow(t, status, retry, deadline, beat)
      BY <2>2, RowStepMoves, QueueAssumption
         DEF Leased, Unleased, QueueStatus, TypeOK, QueueRow
    <3>2. row' \in [Tasks -> QueueRow]
      BY <3>1 DEF SetRow, TypeOK, QueueRow
    <3>3. now' = now
      BY <2>2 DEF RowStep, claim_next, claim_by_id, heartbeat, complete,
         complete_from_durable_provider_receipt, release_without_retry, fail,
         fail_terminal, fail_local_preflight
    <3>4. permits' = permits \/ (permits > 0 /\ permits' = permits - 1)
      BY <2>2 DEF RowStep, claim_next, claim_by_id, heartbeat, complete,
         complete_from_durable_provider_receipt, release_without_retry, fail,
         fail_terminal, fail_local_preflight
    <3> QED BY <3>2, <3>3, <3>4, QueueAssumption DEF TypeOK
  <2>3. ASSUME NEW t \in Tasks, purge({t}) PROVE TypeOK'
    BY <2>3 DEF purge, TypeOK, QueueRow, NoQueueRow, QueueStatus
  <2>4. CASE drop_task
    BY <2>4, QueueAssumption DEF drop_task, TypeOK
  <2>5. CASE recover_abandoned_tasks
    <3>1. \A t \in Tasks :
            [row[t] EXCEPT !.status = "pending", !.deadline = 0, !.beat = 0] \in QueueRow
      BY DEF TypeOK, QueueRow, QueueStatus
    <3>2. \A t \in Tasks : row[t] \in QueueRow
      BY DEF TypeOK
    <3>3. row' \in [Tasks -> QueueRow]
      BY <2>5, <3>1, <3>2 DEF recover_abandoned_tasks
    <3>4. permits' = Permits /\ now' = now
      BY <2>5 DEF recover_abandoned_tasks
    <3>5. Permits \in 0..Permits
      BY QueueAssumption
    <3> QED BY <3>3, <3>4, <3>5 DEF TypeOK
  <2>6. CASE Tick
    BY <2>6 DEF Tick, TypeOK
  <2>7. CASE UNCHANGED vars
    BY <2>7 DEF vars, TypeOK
  <2> QED BY <2>1, <2>2, <2>3, <2>4, <2>5, <2>6, <2>7 DEF Next, RowStep
<1> QED BY <1>1, <1>2, PTL DEF Spec

(* Whoever wrote a running row last, its deadline is its heartbeat plus the *)
(* lease, and no other row carries either.                                  *)
THEOREM LeaseInvariant == Spec => []LeaseFollowsBeat
<1>1. Init => LeaseFollowsBeat
  BY DEF Init, LeaseFollowsBeat, NoQueueRow, NewRow, Has
<1>2. TypeOK /\ LeaseFollowsBeat /\ [Next]_vars => LeaseFollowsBeat'
  <2> SUFFICES ASSUME TypeOK, LeaseFollowsBeat, [Next]_vars PROVE LeaseFollowsBeat'
    OBVIOUS
  <2> USE DEF LeaseFollowsBeat, Has
  <2>1. ASSUME NEW t \in Tasks, NEW max \in RetryPolicies, NEW prio \in Priorities,
               enqueue(t, max, prio)
        PROVE LeaseFollowsBeat'
    BY <2>1 DEF enqueue, TypeOK, NewRow
  <2>2. ASSUME NEW t \in Tasks, RowStep(t) PROVE LeaseFollowsBeat'
    <3>1. CASE Leased(t)
      BY <3>1, SetRowFields DEF Leased
    <3>2. ASSUME NEW status \in {"pending", "completed", "failed"}, NEW retry \in Nat,
                 Unleased(t, status, retry)
          PROVE LeaseFollowsBeat'
      BY <3>2, SetRowFields DEF Unleased
    <3> QED BY <2>2, <3>1, <3>2, RowStepMoves
  <2>3. ASSUME NEW t \in Tasks, purge({t}) PROVE LeaseFollowsBeat'
    BY <2>3 DEF purge, TypeOK, NoQueueRow
  <2>4. CASE recover_abandoned_tasks
    BY <2>4 DEF recover_abandoned_tasks, TypeOK, QueueRow
  <2>5. CASE drop_task \/ Tick \/ UNCHANGED vars
    BY <2>5 DEF drop_task, Tick, vars
  <2> QED BY <2>1, <2>2, <2>3, <2>4, <2>5 DEF Next, RowStep
<1> QED BY <1>1, <1>2, TypeCorrect, PTL DEF Spec

(* A claim takes a running row over only when its holder has not beaten for *)
(* a whole lease.                                                           *)
THEOREM TakeoverIsLate == Spec => NoEarlyTakeover
<1>1. TypeOK /\ LeaseFollowsBeat /\ [Next]_vars =>
        [\A t \in Tasks : (permits' < permits /\ Has(t, "running") /\ row'[t] # row[t])
             => now >= row[t].beat + LeaseTicks]_vars
  <2> SUFFICES ASSUME TypeOK, LeaseFollowsBeat, Next, permits' < permits, NEW u \in Tasks,
                      Has(u, "running"), row'[u] # row[u]
               PROVE now >= row[u].beat + LeaseTicks
    OBVIOUS
  <2>1. PICK t \in Tasks : claim_next(t) \/ claim_by_id(t)
    <3>1. permits \in Nat /\ permits <= Permits /\ Permits \in Nat
      BY QueueAssumption DEF TypeOK
    <3>2. permits' # permits
      BY <3>1
    <3>3. permits' # permits + 1 /\ permits' # Permits
      BY <3>1
    <3> QED
      BY <3>2, <3>3 DEF Next, enqueue, heartbeat, complete,
         complete_from_durable_provider_receipt, release_without_retry, fail,
         fail_terminal, fail_local_preflight, purge, Tick, drop_task,
         recover_abandoned_tasks
  <2>2. u = t
    BY <2>1, SetRowFields DEF claim_next, claim_by_id, Leased, Unleased
  <2>3. Due(u)
    BY <2>1, <2>2 DEF claim_next, claim_by_id, First
  <2>4. row[u].deadline <= now
    BY <2>3 DEF Due, Has
  <2> QED BY <2>4 DEF LeaseFollowsBeat
<1> QED BY <1>1, TypeCorrect, LeaseInvariant, PTL DEF Spec, NoEarlyTakeover

-----------------------------------------------------------------------------
(* The refinement: the UPDATE behind a row operation is Table's Move. *)
LEMMA MoveRefines ==
  ASSUME TypeOK, NEW t \in Tasks, NEW status, NEW retry, NEW deadline, NEW beat, NEW lease,
         SetRow(t, status, retry, deadline, beat), now' = now,
         lease = IF status # "running" THEN "none"
                 ELSE IF deadline <= now THEN "expired" ELSE "live"
  PROVE  Table!Move(t, status, retry, lease)
<1>1. TableRow(t)' = [status |-> status, retry |-> retry, max |-> row[t].max, lease |-> lease]
  BY SetRowFields DEF TableRow
<1>2. \A u \in Tasks \ {t} : TableRow(u)' = TableRow(u)
  BY SetRowFields DEF TableRow
<1>3. TableRows[t].max = row[t].max
  BY DEF TableRows, TableRow
<1>4. TableRows' = [u \in Tasks |-> TableRow(u)']
  BY DEF TableRows
<1> QED BY <1>1, <1>2, <1>3, <1>4 DEF Table!Move, TableRows

(* The fields of a mapped row. *)
LEMMA TableRowFields ==
  ASSUME NEW t \in Tasks
  PROVE  /\ TableRows[t].status = row[t].status
         /\ TableRows[t].retry = row[t].retry
         /\ TableRows[t].max = row[t].max
         /\ TableRows[t].lease = IF row[t].status # "running" THEN "none"
                                 ELSE IF row[t].deadline <= now THEN "expired" ELSE "live"
BY DEF TableRows, TableRow

(* A row is due in the queue exactly when it is claimable in the table. *)
LEMMA DueIsClaimable ==
  ASSUME NEW t \in Tasks, Due(t)
  PROVE  Table!Claimable(t)
BY TableRowFields DEF Due, Has, Table!Claimable, Table!Is

(* Leasing a row gives it a live lease in the table, and clearing the lease *)
(* columns gives it none.                                                   *)
LEMMA LeaseRefines ==
  ASSUME TypeOK, NEW t \in Tasks, now' = now
  PROVE  /\ Leased(t) => Table!Move(t, "running", TableRows[t].retry, "live")
         /\ \A status \in {"pending", "completed", "failed"}, retry \in Nat :
              Unleased(t, status, retry) => Table!Move(t, status, retry, "none")
<1>1. ASSUME Leased(t) PROVE Table!Move(t, "running", TableRows[t].retry, "live")
  <2>1. ~(now + LeaseTicks <= now)
    BY QueueAssumption DEF TypeOK
  <2> QED BY <1>1, <2>1, MoveRefines, TableRowFields DEF Leased
<1>2. ASSUME NEW status \in {"pending", "completed", "failed"}, NEW retry \in Nat,
             Unleased(t, status, retry)
      PROVE  Table!Move(t, status, retry, "none")
  BY <1>2, MoveRefines DEF Unleased
<1> QED BY <1>1, <1>2

(* Every step of the clocked queue is a step of the table, or changes none  *)
(* of its rows: claim order, permits and the clock add no behaviour.        *)
THEOREM QueueImplementsTable == Spec => ImplementsTable
<1>1. Init => Table!Init
  <2> SUFFICES ASSUME Init PROVE TableRows \in [Tasks -> {Table!NoRow} \cup
                                   {Table!Pending(max) : max \in RetryPolicies}]
    BY DEF Table!Init
  <2>1. ASSUME NEW t \in Tasks
        PROVE  TableRow(t) \in {Table!NoRow} \cup {Table!Pending(max) : max \in RetryPolicies}
    <3>1. CASE row[t] = NoQueueRow
      BY <3>1 DEF TableRow, NoQueueRow, Table!NoRow
    <3>2. ASSUME NEW max \in RetryPolicies, NEW prio \in Priorities, row[t] = NewRow(max, prio)
          PROVE  TableRow(t) = Table!Pending(max)
      BY <3>2 DEF TableRow, NewRow, Table!Pending
    <3> QED BY <3>1, <3>2 DEF Init
  <2> QED BY <2>1 DEF TableRows
<1>2. TypeOK /\ [Next]_vars => [Table!Next]_TableRows
  <2> SUFFICES ASSUME TypeOK, [Next]_vars PROVE Table!Next \/ TableRows' = TableRows
    OBVIOUS
  <2>1. ASSUME NEW t \in Tasks, NEW max \in RetryPolicies, NEW prio \in Priorities,
               enqueue(t, max, prio)
        PROVE  Table!Enqueue(t, max)
    <3>1. CASE Stored(t)
      <4>1. row' = row /\ now' = now /\ row[t].max = max
        BY <2>1, <3>1 DEF enqueue
      <4>2. TableRows' = TableRows
        BY <4>1 DEF TableRows, TableRow
      <4>3. Table!Present(t)
        BY <3>1, TableRowFields DEF Stored, Table!Present
      <4> QED BY <4>1, <4>2, <4>3, TableRowFields DEF Table!Enqueue
    <3>2. CASE ~Stored(t)
      <4>1. row' = [row EXCEPT ![t] = NewRow(max, prio)] /\ now' = now
        BY <2>1, <3>2 DEF enqueue
      <4>2. TableRow(t)' = Table!Pending(max)
        BY <4>1 DEF TableRow, NewRow, Table!Pending, TypeOK
      <4>3. \A u \in Tasks \ {t} : TableRow(u)' = TableRow(u)
        BY <4>1 DEF TableRow, TypeOK
      <4>4. TableRows' = [u \in Tasks |-> TableRow(u)']
        BY DEF TableRows
      <4>5. TableRows' = [TableRows EXCEPT ![t] = Table!Pending(max)]
        BY <4>2, <4>3, <4>4 DEF TableRows
      <4>6. ~Table!Present(t)
        BY <3>2, TableRowFields DEF Stored, Table!Present
      <4> QED BY <4>5, <4>6 DEF Table!Enqueue
    <3> QED BY <3>1, <3>2
  <2>2. ASSUME NEW t \in Tasks, RowStep(t) PROVE Table!Next
    <3>1. now' = now
      BY <2>2 DEF RowStep, claim_next, claim_by_id, heartbeat, complete,
         complete_from_durable_provider_receipt, release_without_retry, fail,
         fail_terminal, fail_local_preflight
    <3>2. row[t].retry \in Nat /\ row[t].retry + 1 \in Nat /\ TableRows[t].retry = row[t].retry
      BY TableRowFields DEF TypeOK, QueueRow
    <3>3. CASE claim_next(t)
      BY <3>1, <3>2, <3>3, LeaseRefines, DueIsClaimable
         DEF claim_next, First, Table!Next, Table!Claim, Table!RejectPayload
    <3>4. CASE claim_by_id(t)
      BY <3>1, <3>4, LeaseRefines, DueIsClaimable DEF claim_by_id, Table!Next, Table!Claim
    <3>5. CASE heartbeat(t)
      <4>1. Table!Heartbeat(t)
        BY <3>1, <3>5, LeaseRefines, TableRowFields DEF heartbeat, Has, Table!Heartbeat, Table!Is
      <4> QED BY <4>1 DEF Table!Next
    <3>6. CASE complete(t)
      <4>1. Table!Complete(t)
        BY <3>1, <3>2, <3>6, LeaseRefines, TableRowFields
           DEF complete, Has, Table!Complete, Table!Is
      <4> QED BY <4>1 DEF Table!Next
    <3>7. CASE complete_from_durable_provider_receipt(t)
      <4>1. Table!CompleteFromReceipt(t)
        BY <3>1, <3>2, <3>7, LeaseRefines, TableRowFields
           DEF complete_from_durable_provider_receipt, Stored, Table!CompleteFromReceipt,
               Table!Present
      <4> QED BY <4>1 DEF Table!Next
    <3>8. CASE release_without_retry(t)
      <4>1. Table!ReleaseWithoutRetry(t)
        BY <3>1, <3>2, <3>8, LeaseRefines, TableRowFields
           DEF release_without_retry, Has, Table!ReleaseWithoutRetry, Table!Is
      <4> QED BY <4>1 DEF Table!Next
    <3>9. CASE fail(t)
      <4>1. Table!Fail(t)
        BY <3>1, <3>2, <3>9, LeaseRefines, TableRowFields DEF fail, Has, Table!Fail, Table!Is
      <4> QED BY <4>1 DEF Table!Next
    <3>10. CASE fail_terminal(t)
      <4>1. Table!FailTerminal(t)
        BY <3>1, <3>2, <3>10, LeaseRefines, TableRowFields
           DEF fail_terminal, Stored, Table!FailTerminal, Table!Present
      <4> QED BY <4>1 DEF Table!Next
    <3>11. CASE fail_local_preflight(t)
      <4>1. Table!FailLocalPreflight(t)
        BY <3>1, <3>2, <3>11, LeaseRefines, TableRowFields
           DEF fail_local_preflight, Has, Table!FailLocalPreflight, Table!Is
      <4> QED BY <4>1 DEF Table!Next
    <3> QED BY <2>2, <3>3, <3>4, <3>5, <3>6, <3>7, <3>8, <3>9, <3>10, <3>11 DEF RowStep
  <2>3. ASSUME NEW t \in Tasks, purge({t}) PROVE Table!PurgeTasks({t})
    <3>1. TableRow(t)' = Table!NoRow
      BY <2>3 DEF purge, TableRow, NoQueueRow, Table!NoRow
    <3>2. \A u \in Tasks \ {t} : TableRow(u)' = TableRow(u)
      BY <2>3 DEF purge, TableRow
    <3>3. TableRows' = [u \in Tasks |-> TableRow(u)']
      BY DEF TableRows
    <3> QED BY <3>1, <3>2, <3>3 DEF Table!PurgeTasks, TableRows
  <2>4. CASE recover_abandoned_tasks
    <3>1. ASSUME NEW t \in Tasks
          PROVE  TableRow(t)' = IF Table!Is(t, "running")
                                THEN [status |-> "pending", retry |-> TableRows[t].retry,
                                      max |-> TableRows[t].max, lease |-> "none"]
                                ELSE TableRows[t]
      <4>1. row[t] \in QueueRow /\ now' = now /\ TableRows[t] = TableRow(t)
        BY <2>4 DEF TypeOK, recover_abandoned_tasks, TableRows
      <4>2. CASE Has(t, "running")
        <5>1. row'[t] = [row[t] EXCEPT !.status = "pending", !.deadline = 0, !.beat = 0]
          BY <2>4, <4>2 DEF recover_abandoned_tasks
        <5>2. TableRow(t)' = [status |-> "pending", retry |-> row[t].retry,
                              max |-> row[t].max, lease |-> "none"]
          BY <4>1, <5>1 DEF TableRow, QueueRow
        <5> QED BY <4>2, <5>2, TableRowFields DEF Has, Table!Is
      <4>3. CASE ~Has(t, "running")
        BY <2>4, <4>1, <4>3, TableRowFields DEF recover_abandoned_tasks, TableRow, Has, Table!Is
      <4> QED BY <4>2, <4>3
    <3>2. TableRows' = [u \in Tasks |-> TableRow(u)']
      BY DEF TableRows
    <3> QED BY <3>1, <3>2 DEF Table!RecoverAbandoned, Table!Next
  <2>5. CASE drop_task \/ UNCHANGED vars
    BY <2>5 DEF drop_task, vars, TableRows, TableRow
  <2>6. CASE Tick
    <3> DEFINE S == {t \in Tasks : Has(t, "running") /\ row[t].deadline <= now'}
    <3>1. \A t \in S : Table!Is(t, "running")
      BY TableRowFields DEF Has, Table!Is
    <3>2. ASSUME NEW t \in Tasks
          PROVE  TableRow(t)' = IF t \in S THEN [TableRows[t] EXCEPT !.lease = "expired"]
                                ELSE TableRows[t]
      <4>1. row' = row /\ now' = now + 1 /\ now \in Nat /\ row[t].deadline \in Nat
        BY <2>6 DEF Tick, TypeOK, QueueRow
      <4>2. PICK l : TableRows[t] = [status |-> row[t].status, retry |-> row[t].retry,
                                    max |-> row[t].max, lease |-> l]
        BY DEF TableRows, TableRow
      <4>3. CASE t \in S
        BY <4>1, <4>2, <4>3 DEF TableRow, Has
      <4>4. CASE t \notin S
        <5>1. row[t].status = "running" => ~(row[t].deadline <= now') /\ ~(row[t].deadline <= now)
          BY <4>1, <4>4 DEF Has
        <5> QED BY <4>1, <4>4, <5>1 DEF TableRow, TableRows
      <4> QED BY <4>3, <4>4
    <3>3. TableRows' = [u \in Tasks |-> TableRow(u)']
      BY DEF TableRows
    <3>4. Table!Expire(S)
      BY <3>1, <3>2, <3>3 DEF Table!Expire
    <3> QED BY <3>4 DEF Table!Next
  <2>7. ASSUME NEW t \in Tasks, NEW max \in RetryPolicies, Table!Enqueue(t, max) PROVE Table!Next
    BY <2>7 DEF Table!Next
  <2>8. ASSUME NEW t \in Tasks, Table!PurgeTasks({t}) PROVE Table!Next
    BY <2>8 DEF Table!Next
  <2> QED BY <2>1, <2>2, <2>3, <2>4, <2>5, <2>6, <2>7, <2>8 DEF Next, RowStep
<1> QED BY <1>1, <1>2, TypeCorrect, PTL DEF Spec, ImplementsTable, Table!Spec
=============================================================================
