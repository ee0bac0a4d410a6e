-------------------------- MODULE TaskTableProofs --------------------------
(* The task table, and how often its rows are attempted, for any set of     *)
(* tasks, any retry policies and any bounds.                                *)
EXTENDS TaskAttempts, TLAPS

(* Every operation keeps the rows well formed. *)
THEOREM TypeCorrect == Spec => []TypeOK
<1>1. Init => TypeOK
  BY RetryAssumption DEF Init, TypeOK, Row, NoRow, Pending, Status, Lease
<1>2. TypeOK /\ [Next]_task => TypeOK'
  <2> SUFFICES ASSUME TypeOK, [Next]_task PROVE TypeOK'
    OBVIOUS
  <2> USE DEF TypeOK, Row, Status, Lease
  <2>1. ASSUME NEW t \in Tasks, NEW max \in RetryPolicies, Enqueue(t, max) PROVE TypeOK'
    BY <2>1, RetryAssumption DEF Enqueue, Pending
  <2>2. ASSUME NEW t \in Tasks,
               \/ Claim(t) \/ RejectPayload(t) \/ Heartbeat(t) \/ Complete(t)
               \/ CompleteFromReceipt(t) \/ ReleaseWithoutRetry(t) \/ Fail(t)
               \/ FailTerminal(t) \/ FailLocalPreflight(t)
        PROVE TypeOK'
    <3>1. PICK status \in Status, retry \in Nat, lease \in Lease : Move(t, status, retry, lease)
      BY <2>2 DEF Claim, RejectPayload, Heartbeat, Complete, CompleteFromReceipt,
                  ReleaseWithoutRetry, Fail, FailTerminal, FailLocalPreflight
    <3> QED BY <3>1 DEF Move
  <2>3. ASSUME NEW S \in SUBSET Tasks, PurgeTasks(S) \/ Expire(S) PROVE TypeOK'
    BY <2>3 DEF PurgeTasks, Expire, NoRow
  <2>4. CASE RecoverAbandoned
    BY <2>4 DEF RecoverAbandoned
  <2>5. CASE UNCHANGED task
    BY <2>5
  <2> QED BY <2>1, <2>2, <2>3, <2>4, <2>5 DEF Next
<1> QED BY <1>1, <1>2, PTL DEF Spec

(* What the one UPDATE behind every row operation does to the table. *)
LEMMA MoveRow ==
  ASSUME TypeOK, NEW t \in Tasks, NEW status, NEW retry, NEW lease,
         Move(t, status, retry, lease)
  PROVE  /\ task'[t].status = status
         /\ task'[t].retry = retry
         /\ task'[t].max = task[t].max
         /\ task'[t].lease = lease
         /\ \A u \in Tasks \ {t} : task'[u] = task[u]
BY DEF Move, TypeOK

(* Every retry policy is a number. *)
LEMMA MaxIsNat == TypeOK => \A t \in Tasks : task[t].max \in Nat
<1>1. RetryPolicies \cup {0} \subseteq Nat
  BY RetryAssumption
<1> QED BY <1>1 DEF TypeOK, Row

(* A row that waits or runs has spent fewer retries than its policy allows.  *)
LEMMA BudgetInvariant == Spec => []BudgetRemains
<1>1. Init => BudgetRemains
  BY RetryAssumption DEF Init, BudgetRemains, NoRow, Pending, Is
<1>2. TypeOK /\ BudgetRemains /\ [Next]_task => BudgetRemains'
  <2> SUFFICES ASSUME TypeOK, BudgetRemains, [Next]_task PROVE BudgetRemains'
    OBVIOUS
  <2> USE DEF TypeOK, BudgetRemains, Row, Status, Lease, Is
  <2>1. ASSUME NEW t \in Tasks, NEW max \in RetryPolicies, Enqueue(t, max)
        PROVE BudgetRemains'
    BY <2>1, RetryAssumption DEF Enqueue, Pending
  <2>2. ASSUME NEW t \in Tasks, Claim(t) \/ Heartbeat(t) PROVE BudgetRemains'
    BY <2>2 DEF Claim, Heartbeat, Claimable, Move
  <2>3. ASSUME NEW t \in Tasks,
               \/ RejectPayload(t) \/ Complete(t) \/ CompleteFromReceipt(t)
               \/ FailTerminal(t) \/ FailLocalPreflight(t)
        PROVE BudgetRemains'
    <3>1. PICK status \in {"completed", "failed"}, retry \in Nat :
            Move(t, status, retry, "none")
      BY <2>3 DEF RejectPayload, Complete, CompleteFromReceipt, FailTerminal,
                  FailLocalPreflight
    <3> QED BY <3>1, MoveRow
  <2>4. ASSUME NEW t \in Tasks, ReleaseWithoutRetry(t) PROVE BudgetRemains'
    BY <2>4 DEF ReleaseWithoutRetry, Move
  <2>5. ASSUME NEW t \in Tasks, Fail(t) PROVE BudgetRemains'
    <3> DEFINE outcome == IF task[t].retry + 1 >= task[t].max THEN "failed" ELSE "pending"
    <3>1. Move(t, outcome, task[t].retry + 1, "none")
      BY <2>5 DEF Fail
    <3>2. outcome = "failed" \/ (outcome = "pending" /\ task[t].retry + 1 < task[t].max)
      BY MaxIsNat
    <3> HIDE DEF outcome
    <3> QED BY <3>1, <3>2, MoveRow
  <2>6. ASSUME NEW S \in SUBSET Tasks, PurgeTasks(S) \/ Expire(S) PROVE BudgetRemains'
    BY <2>6 DEF PurgeTasks, Expire, NoRow
  <2>7. CASE RecoverAbandoned
    BY <2>7 DEF RecoverAbandoned
  <2>8. CASE UNCHANGED task
    BY <2>8
  <2> QED BY <2>1, <2>2, <2>3, <2>4, <2>5, <2>6, <2>7, <2>8 DEF Next
<1> QED BY <1>1, <1>2, TypeCorrect, PTL DEF Spec

(* A terminal row is never handed to a worker again: no caller's operation, *)
(* in any order, leads out of completed and failed except to deletion.      *)
THEOREM TerminalIsFinal == Spec => TerminalNeverReclaimed
<1>1. TypeOK /\ [Next]_task =>
        [\A t \in Tasks : (Is(t, "completed") \/ Is(t, "failed"))
             => task'[t].status \in {"completed", "failed", "absent"}]_task
  <2> SUFFICES ASSUME TypeOK, Next, NEW u \in Tasks, Is(u, "completed") \/ Is(u, "failed")
               PROVE task'[u].status \in {"completed", "failed", "absent"}
    OBVIOUS
  <2> USE DEF TypeOK, Row, Status, Lease, Is
  <2>1. ASSUME NEW t \in Tasks, NEW max \in RetryPolicies, Enqueue(t, max)
        PROVE task'[u].status \in {"completed", "failed", "absent"}
    BY <2>1 DEF Enqueue, Present, Pending
  <2>2. ASSUME NEW t \in Tasks,
               \/ Claim(t) \/ RejectPayload(t) \/ Heartbeat(t) \/ Complete(t)
               \/ CompleteFromReceipt(t) \/ ReleaseWithoutRetry(t) \/ Fail(t)
               \/ FailTerminal(t) \/ FailLocalPreflight(t)
        PROVE task'[u].status \in {"completed", "failed", "absent"}
    <3>1. CASE CompleteFromReceipt(t) \/ FailTerminal(t)
      <4>1. PICK status \in {"completed", "failed"}, retry \in Nat :
                 Move(t, status, retry, "none")
        BY <3>1 DEF CompleteFromReceipt, FailTerminal
      <4>2. u = t \/ task'[u] = task[u]
        BY <4>1, MoveRow
      <4> QED BY <4>1, <4>2, MoveRow
    <3>2. CASE Claimable(t) \/ Is(t, "running")
      <4>1. u # t
        BY <3>2 DEF Claimable
      <4> QED
        BY <2>2, <3>2, <4>1, MoveRow DEF Claimable, Claim, RejectPayload, Heartbeat,
           Complete, CompleteFromReceipt, ReleaseWithoutRetry, Fail, FailTerminal,
           FailLocalPreflight
    <3> QED
      BY <2>2, <3>1, <3>2 DEF Claim, RejectPayload, Heartbeat, Complete,
         ReleaseWithoutRetry, Fail, FailLocalPreflight
  <2>3. ASSUME NEW S \in SUBSET Tasks, PurgeTasks(S) \/ Expire(S)
        PROVE task'[u].status \in {"completed", "failed", "absent"}
    BY <2>3 DEF PurgeTasks, Expire, NoRow
  <2>4. CASE RecoverAbandoned
    BY <2>4 DEF RecoverAbandoned
  <2> QED BY <2>1, <2>2, <2>3, <2>4 DEF Next
<1> QED BY <1>1, TypeCorrect, PTL DEF Spec, TerminalNeverReclaimed
-----------------------------------------------------------------------------
(* The counters only watch: every step with them is a step of the table.     *)
LEMMA Watched == AttemptsNext => Next
BY DEF AttemptsNext, Attempt, Release, Uncounted, Purge, Restart, Next

LEMMA AttemptsImplement == AttemptsSpec => Spec
<1>1. AttemptsInit => Init
  BY DEF AttemptsInit
<1>2. [AttemptsNext]_<<task, counts>> => [Next]_task
  BY Watched
<1> QED BY <1>1, <1>2, PTL DEF AttemptsSpec, Spec

CountsOK == runs \in [Tasks -> Nat] /\ unspent \in [Tasks -> Nat]

(* Terminal rows keep the counts they were closed with, so the budget itself *)
(* is part of what has to be inductive.                                      *)
CountInv == CountsOK /\ AttemptsAccounted /\ AttemptsBudgeted

(* An operation that moves one row and counts nothing: an attempt that goes  *)
(* on is as it was, one that is failed spends a retry, one that is closed    *)
(* was within the budget.                                                    *)
LEMMA UncountedKeeps ==
  ASSUME TypeOK, TypeOK', BudgetRemains, CountInv, UNCHANGED counts,
         NEW t \in Tasks, Uncounted(t)
  PROVE  CountInv'
<1> USE DEF CountInv, CountsOK, counts
<1>1. CountsOK'
  OBVIOUS
<1>2. CASE \E max \in RetryPolicies : Enqueue(t, max)
  <2>1. PICK max \in RetryPolicies : Enqueue(t, max)
    BY <1>2
  <2>2. CASE Present(t)
    <3>1. UNCHANGED task
      BY <2>1, <2>2 DEF Enqueue
    <3> QED BY <3>1 DEF AttemptsAccounted, AttemptsBudgeted, Is, Present
  <2>3. CASE ~Present(t)
    <3>1. task' = [task EXCEPT ![t] = Pending(max)]
      BY <2>1, <2>3 DEF Enqueue
    <3>2. task'[t] = Pending(max) /\ \A u \in Tasks \ {t} : task'[u] = task[u]
      BY <3>1 DEF TypeOK
    <3>3. runs[t] = 0 /\ unspent[t] = 0
      BY <2>3 DEF AttemptsAccounted
    <3>4. max \in Nat
      BY RetryAssumption
    <3> QED
      BY <3>2, <3>3, <3>4, Zenon, SMT DEF AttemptsAccounted, AttemptsBudgeted, Is, Present, Pending
  <2> QED BY <2>2, <2>3
<1>3. ASSUME ~\E max \in RetryPolicies : Enqueue(t, max)  PROVE CountInv'
  <2>1. Present(t)
    BY <1>3 DEF Uncounted, RejectPayload, Claimable, Heartbeat, Complete,
       CompleteFromReceipt, Fail, FailTerminal, FailLocalPreflight, Is, Present
  <2>2. /\ task[t].retry \in Nat /\ task[t].max \in Nat
        /\ runs[t] \in Nat /\ unspent[t] \in Nat
        /\ task[t].status \in Status
    BY MaxIsNat DEF TypeOK, Row
  <2>3. runs[t] <= task[t].max + unspent[t]
    BY <2>1 DEF AttemptsBudgeted
  <2>4. \A u \in Tasks \ {t} : task'[u] = task[u]
    <3>1. PICK status, retry, lease : Move(t, status, retry, lease)
      BY <1>3 DEF Uncounted, RejectPayload, Heartbeat, Complete, CompleteFromReceipt,
         Fail, FailTerminal, FailLocalPreflight
    <3> QED BY <3>1, MoveRow
  <2>5. /\ task'[t].max = task[t].max
        /\ \/ task'[t].status \in {"completed", "failed"}
           \/ /\ task'[t].status = "pending" /\ Is(t, "running")
              /\ task'[t].retry = task[t].retry + 1
           \/ /\ task'[t].status = "running" /\ Is(t, "running")
              /\ task'[t].retry = task[t].retry
    <3>1. CASE Heartbeat(t)
      BY <3>1, MoveRow DEF Heartbeat
    <3>2. CASE Fail(t)
      <4>1. PICK status \in {"failed", "pending"} : Move(t, status, task[t].retry + 1, "none")
        BY <3>2 DEF Fail
      <4> QED BY <3>2, <4>1, MoveRow DEF Fail
    <3>3. CASE RejectPayload(t) \/ Complete(t) \/ CompleteFromReceipt(t)
                 \/ FailTerminal(t) \/ FailLocalPreflight(t)
      <4>1. PICK status \in {"completed", "failed"}, retry \in Nat :
                 Move(t, status, retry, "none")
        BY <3>3, <2>2 DEF RejectPayload, Complete, CompleteFromReceipt, FailTerminal,
           FailLocalPreflight
      <4> QED BY <4>1, MoveRow
    <3> QED BY <1>3, <3>1, <3>2, <3>3 DEF Uncounted
  <2>6. AttemptsAccounted'
    <3>1. \A u \in Tasks \ {t} :
             /\ Is(u, "pending")' => runs'[u] = task'[u].retry + unspent'[u]
             /\ Is(u, "running")' => runs'[u] = task'[u].retry + unspent'[u] + 1
             /\ ~Present(u)' => runs'[u] = 0 /\ unspent'[u] = 0
      BY <2>4 DEF AttemptsAccounted, Is, Present
    <3>2. Is(t, "running") => runs[t] = task[t].retry + unspent[t] + 1
      BY DEF AttemptsAccounted
    <3>3. /\ Is(t, "pending")' => runs'[t] = task'[t].retry + unspent'[t]
          /\ Is(t, "running")' => runs'[t] = task'[t].retry + unspent'[t] + 1
          /\ ~Present(t)' => runs'[t] = 0 /\ unspent'[t] = 0
      BY <2>2, <2>5, <3>2 DEF Is, Present
    <3> QED BY <3>1, <3>3 DEF AttemptsAccounted
  <2>7. AttemptsBudgeted'
    <3>1. ASSUME NEW u \in Tasks, Present(u)'  PROVE runs'[u] <= task'[u].max + unspent'[u]
      BY <2>3, <2>4, <2>5, <3>1 DEF AttemptsBudgeted, Present
    <3> QED BY <3>1 DEF AttemptsBudgeted
  <2> QED BY <1>1, <2>6, <2>7
<1> QED BY <1>2, <1>3

(* Ending attempts without a retry on the rows of S moves the count of each  *)
(* from the attempt under way to those given back.                           *)
LEMMA GivenBack ==
  ASSUME TypeOK, TypeOK', BudgetRemains, CountInv, UNCHANGED runs,
         NEW S \in SUBSET Tasks, EndUnspent(S),
         \A t \in Tasks : \/ task'[t] = task[t] /\ (t \in S => ~Is(t, "running"))
                          \/ /\ t \in S /\ Is(t, "running") /\ task'[t].status = "pending"
                             /\ task'[t].retry = task[t].retry /\ task'[t].max = task[t].max
  PROVE  CountInv'
<1>1. CountsOK'
  BY DEF CountInv, CountsOK, EndUnspent
<1>2. ASSUME NEW t \in Tasks
      PROVE  /\ Is(t, "pending")' => runs'[t] = task'[t].retry + unspent'[t]
             /\ Is(t, "running")' => runs'[t] = task'[t].retry + unspent'[t] + 1
             /\ ~Present(t)' => runs'[t] = 0 /\ unspent'[t] = 0
             /\ Present(t)' => runs'[t] <= task'[t].max + unspent'[t]
  <2>1. /\ task[t].retry \in Nat /\ task[t].max \in Nat
        /\ runs[t] \in Nat /\ unspent[t] \in Nat
    BY MaxIsNat DEF TypeOK, Row, CountInv, CountsOK
  <2>2. CASE task'[t] = task[t] /\ (t \in S => ~Is(t, "running"))
    <3>1. runs'[t] = runs[t] /\ unspent'[t] = unspent[t]
      BY <2>2 DEF EndUnspent
    <3> QED
      BY <2>2, <3>1 DEF CountInv, AttemptsAccounted, AttemptsBudgeted, Is, Present
  <2>3. CASE t \in S /\ Is(t, "running") /\ task'[t].status = "pending"
             /\ task'[t].retry = task[t].retry /\ task'[t].max = task[t].max
    <3>1. runs'[t] = runs[t] /\ unspent'[t] = unspent[t] + 1
      BY <2>3 DEF EndUnspent
    <3>2. runs[t] = task[t].retry + unspent[t] + 1 /\ task[t].retry < task[t].max
      BY <2>3 DEF CountInv, AttemptsAccounted, BudgetRemains
    <3> QED
      BY <2>1, <2>3, <3>1, <3>2 DEF Is, Present
  <2> QED BY <2>2, <2>3
<1> QED BY <1>1, <1>2 DEF CountInv, AttemptsAccounted, AttemptsBudgeted

(* A row is handed to a worker at most as often as its policy allows, plus   *)
(* once for every start-up, expired lease or release that gave an attempt    *)
(* back: for any tasks, any policies and any number of attempts.             *)
THEOREM AttemptsAreBudgeted == AttemptsSpec => []AttemptsBudgeted
<1>1. AttemptsInit => CountInv
  <2> SUFFICES ASSUME AttemptsInit  PROVE CountInv
    OBVIOUS
  <2>1. CountsOK /\ \A t \in Tasks : runs[t] = 0 /\ unspent[t] = 0
    BY DEF AttemptsInit, CountsOK
  <2>2. \A t \in Tasks : task[t].retry = 0 /\ ~Is(t, "running") /\ task[t].max \in Nat
    <3>1. \A t \in Tasks : task[t] \in {NoRow} \cup {Pending(max) : max \in RetryPolicies}
      BY DEF AttemptsInit, Init
    <3>2. \A row \in {NoRow} \cup {Pending(max) : max \in RetryPolicies} :
             row.retry = 0 /\ row.status # "running" /\ row.max \in Nat
      BY RetryAssumption DEF NoRow, Pending
    <3> QED BY <3>1, <3>2 DEF Is
  <2> QED BY <2>1, <2>2 DEF CountInv, AttemptsAccounted, AttemptsBudgeted
<1>2. TypeOK /\ TypeOK' /\ BudgetRemains /\ CountInv /\ [AttemptsNext]_<<task, counts>> => CountInv'
  <2> SUFFICES ASSUME TypeOK, TypeOK', BudgetRemains, CountInv,
                      [AttemptsNext]_<<task, counts>>
               PROVE  CountInv'
    OBVIOUS
  <2>1. ASSUME NEW t \in Tasks, Attempt(t)  PROVE CountInv'
    <3>1. /\ task'[t].status = "running" /\ task'[t].retry = task[t].retry
          /\ task'[t].max = task[t].max
          /\ \A u \in Tasks \ {t} : task'[u] = task[u]
      BY <2>1, MoveRow DEF Attempt, Claim
    <3>2. /\ runs' = [runs EXCEPT ![t] = @ + 1]
          /\ unspent'[t] = IF Is(t, "running") THEN unspent[t] + 1 ELSE unspent[t]
          /\ \A u \in Tasks \ {t} : unspent'[u] = unspent[u]
      BY <2>1 DEF Attempt, EndUnspent
    <3>3. CountsOK'
      BY <2>1, <3>2 DEF CountInv, CountsOK, Attempt, EndUnspent
    <3>4. /\ task[t].retry \in Nat /\ task[t].max \in Nat
          /\ runs[t] \in Nat /\ unspent[t] \in Nat
          /\ runs'[t] = runs[t] + 1
          /\ \A u \in Tasks \ {t} : runs'[u] = runs[u]
      BY <3>2, MaxIsNat DEF TypeOK, Row, CountInv, CountsOK
    <3>5. /\ Is(t, "pending") => runs[t] = task[t].retry + unspent[t]
          /\ Is(t, "running") => runs[t] = task[t].retry + unspent[t] + 1
          /\ Is(t, "pending") \/ Is(t, "running")
          /\ task[t].retry < task[t].max
      BY <2>1 DEF Attempt, Claim, Claimable, CountInv, AttemptsAccounted, BudgetRemains
    <3>6. runs'[t] = task'[t].retry + unspent'[t] + 1 /\ runs'[t] <= task'[t].max + unspent'[t]
      BY <3>1, <3>2, <3>4, <3>5 DEF Is
    <3>7. AttemptsAccounted'
      BY <3>1, <3>2, <3>4, <3>6 DEF CountInv, AttemptsAccounted, Is, Present
    <3>8. AttemptsBudgeted'
      BY <3>1, <3>2, <3>4, <3>6 DEF CountInv, AttemptsBudgeted, Present
    <3> QED BY <3>3, <3>7, <3>8 DEF CountInv
  <2>2. ASSUME NEW t \in Tasks, Release(t)  PROVE CountInv'
    <3>1. /\ Is(t, "running") /\ task'[t].status = "pending"
          /\ task'[t].retry = task[t].retry /\ task'[t].max = task[t].max
          /\ \A u \in Tasks \ {t} : task'[u] = task[u]
      BY <2>2, MoveRow DEF Release, ReleaseWithoutRetry
    <3> QED BY <2>2, <3>1, GivenBack DEF Release
  <2>3. ASSUME NEW t \in Tasks, Uncounted(t), UNCHANGED counts  PROVE CountInv'
    BY <2>3, UncountedKeeps
  <2>4. ASSUME NEW S \in SUBSET Tasks, Purge(S)  PROVE CountInv'
    BY <2>4 DEF Purge, PurgeTasks, NoRow, CountInv, CountsOK, AttemptsAccounted,
       AttemptsBudgeted, Is, Present
  <2>5. ASSUME NEW S \in SUBSET Tasks, Expire(S), UNCHANGED counts  PROVE CountInv'
    <3>1. \A t \in Tasks : /\ task'[t].status = task[t].status
                           /\ task'[t].retry = task[t].retry
                           /\ task'[t].max = task[t].max
      BY <2>5 DEF Expire, TypeOK, Row
    <3> QED
      BY <2>5, <3>1 DEF counts, CountInv, CountsOK, AttemptsAccounted, AttemptsBudgeted,
         Is, Present
  <2>6. CASE Restart
    <3>1. \A t \in Tasks :
             \/ task'[t] = task[t] /\ ~Is(t, "running")
             \/ /\ Is(t, "running") /\ task'[t].status = "pending"
                /\ task'[t].retry = task[t].retry /\ task'[t].max = task[t].max
      BY <2>6 DEF Restart, RecoverAbandoned
    <3> QED BY <2>6, <3>1, GivenBack DEF Restart
  <2>7. CASE UNCHANGED <<task, counts>>
    BY <2>7 DEF counts, CountInv, CountsOK, AttemptsAccounted, AttemptsBudgeted, Is, Present
  <2> QED BY <2>1, <2>2, <2>3, <2>4, <2>5, <2>6, <2>7 DEF AttemptsNext
<1>3. CountInv => AttemptsBudgeted
  BY DEF CountInv
<1> QED
  BY <1>1, <1>2, <1>3, AttemptsImplement, TypeCorrect, BudgetInvariant, PTL DEF AttemptsSpec
=============================================================================
