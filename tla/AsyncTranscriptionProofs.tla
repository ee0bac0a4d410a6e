---------------------- MODULE AsyncTranscriptionProofs ----------------------
(* Type correctness of the composed system, and that no interleaving of the *)
(* worker, the gate holder, start-up and crashes loses a recording.         *)
EXTENDS AsyncTranscription, TLAPS

Rows == [Sessions -> Q!Row]

(* Every queue operation the system uses keeps the rows well formed. *)
LEMMA MoveTyped ==
  ASSUME task \in Rows, NEW s, NEW status \in Q!Status, NEW retry \in Nat,
         NEW lease \in Q!Lease, Q!Move(s, status, retry, lease)
  PROVE  task' \in Rows
BY DEF Rows, Q!Move, Q!Row

(* Each row operation keeps the rows of tasks.db well formed... *)
LEMMA QueueTyped ==
  ASSUME task \in Rows, NEW s \in Sessions
  PROVE  /\ \A max \in {1, 3} : Q!Enqueue(s, max) => task' \in Rows
         /\ Q!Claim(s) => task' \in Rows
         /\ Q!Heartbeat(s) => task' \in Rows
         /\ Q!Complete(s) => task' \in Rows
         /\ Q!CompleteFromReceipt(s) => task' \in Rows
         /\ Q!ReleaseWithoutRetry(s) => task' \in Rows
         /\ Q!Fail(s) => task' \in Rows
         /\ Q!FailLocalPreflight(s) => task' \in Rows
         /\ Q!Move(s, "failed", task[s].retry, "none") => task' \in Rows
<1>1. task[s].retry \in Nat /\ task[s].retry + 1 \in Nat
  BY DEF Rows, Q!Row
<1>2. \A max \in {1, 3} : Q!Enqueue(s, max) => task' \in Rows
  BY DEF Q!Enqueue, Q!Pending, Rows, Q!Row, Q!Status, Q!Lease
<1>3. {"pending", "running", "completed", "failed"} \subseteq Q!Status
      /\ {"none", "live"} \subseteq Q!Lease
  BY DEF Q!Status, Q!Lease
<1> QED
  BY <1>1, <1>2, <1>3, MoveTyped
     DEF Q!Claim, Q!Heartbeat, Q!Complete, Q!CompleteFromReceipt, Q!ReleaseWithoutRetry,
         Q!Fail, Q!FailLocalPreflight

(* ... and so does each operation on several rows. *)
LEMMA TableTyped ==
  ASSUME task \in Rows
  PROVE  /\ \A S : Q!PurgeTasks(S) => task' \in Rows
         /\ \A S : Q!Expire(S) => task' \in Rows
         /\ Q!RecoverAbandoned => task' \in Rows
BY DEF Rows, Q!Row, Q!PurgeTasks, Q!Expire, Q!RecoverAbandoned, Q!NoRow, Q!Status, Q!Lease

-----------------------------------------------------------------------------
(* The parts of the type invariant, each with what its own steps need.  The *)
(* worker has a session once it is past the scan, and the gate holder       *)
(* whenever there is one.                                                   *)
Busy == OwnedPc \cup {"quarantine_run", "credential", "register", "reconcile"}

WorkerOK == w \in Worker /\ (w.pc \in Busy => w.s \in Sessions)

(* The ways the worker moves keep it well formed. *)
LEMMA WorkerGoes ==
  ASSUME WorkerOK
  PROVE  /\ GoIdle => WorkerOK'
         /\ \A pc \in FreePc \cup OwnedPc : w.s \in Sessions /\ Goto(pc) => WorkerOK'
         /\ \A pc \in FreePc \cup OwnedPc, res \in {"none", "ok", "local", "error"} :
              w.s \in Sessions /\ w' = [w EXCEPT !.pc = pc, !.res = res] => WorkerOK'
<1>1. ASSUME GoIdle PROVE WorkerOK'
  BY <1>1 DEF GoIdle, WorkerOK, Worker, Busy, FreePc, OwnedPc, IdleWorker
<1>2. ASSUME NEW pc \in FreePc \cup OwnedPc, w.s \in Sessions, Goto(pc) PROVE WorkerOK'
  BY <1>2 DEF Goto, WorkerOK, Worker
<1>3. ASSUME NEW pc \in FreePc \cup OwnedPc, NEW res \in {"none", "ok", "local", "error"},
             w.s \in Sessions, w' = [w EXCEPT !.pc = pc, !.res = res]
      PROVE WorkerOK'
  BY <1>3 DEF WorkerOK, Worker
<1> QED BY <1>1, <1>2, <1>3

(* The worker, step by step; every other step leaves it alone or resets it. *)
LEMMA WorkerStep ==
  ASSUME WorkerOK, [Next]_vars
  PROVE  WorkerOK'
<1> USE DEF FreePc, OwnedPc
<1>0. w.pc \in Busy => w.s \in Sessions
  BY DEF WorkerOK
<1>1. CASE WSweep
  BY <1>1 DEF WSweep, At, GoIdle, WorkerOK, Worker, Busy, IdleWorker
<1>2. CASE WScan
  <2> DEFINE listed == {s \in Sessions : InFlight(s) /\ ~Tombstoned(s)}
             C == {s \in listed : receipt[s] = "corrupt"}
             S == {s \in listed : receipt[s] = "valid"}
  <2>1. C \subseteq Sessions /\ S \subseteq Sessions
    OBVIOUS
  <2>2. w' = [w EXCEPT !.pc = "quarantine", !.corrupt = C, !.scan = S]
    BY <1>2 DEF WScan
  <2> HIDE DEF C, S
  <2>3. w' \in Worker /\ w'.pc = "quarantine"
    BY <2>1, <2>2 DEF WorkerOK, Worker
  <2> QED BY <2>3 DEF WorkerOK, Busy
<1>3. CASE WQuarantineTask
  BY <1>3 DEF WQuarantineTask, At, WorkerOK, Worker, Busy, IdleWorker
<1>4. CASE WQuarantineRun
  BY <1>4 DEF WQuarantineRun, At, WorkerOK, Worker, Busy, IdleWorker
<1>5. CASE WQuarantined
  BY <1>5 DEF WQuarantined, At, Goto, WorkerOK, Worker, Busy, IdleWorker
<1>6. CASE WReceipt
  BY <1>6 DEF WReceipt, At, WorkerOK, Worker, Busy, IdleWorker
<1>7. CASE WReceiptsDone
  BY <1>7 DEF WReceiptsDone, At, Goto, WorkerOK, Worker, Busy, IdleWorker
<1>8. CASE WClaimNext
  <2>1. CASE GoIdle
    BY <2>1, WorkerGoes
  <2>2. ASSUME NEW s \in Sessions, w' = [IdleWorker EXCEPT !.pc = "credential", !.s = s]
        PROVE WorkerOK'
    BY <2>2 DEF WorkerOK, Worker, IdleWorker
  <2> QED BY <1>8, <2>1, <2>2 DEF WClaimNext
<1>9. CASE WCredential
  BY <1>0, <1>9, WorkerGoes DEF WCredential, At, Busy
<1>10. CASE WRegister
  BY <1>0, <1>10, WorkerGoes DEF WRegister, At, Busy
<1>11. CASE WGateStop
  BY <1>0, <1>11, WorkerGoes DEF WGateStop, Busy
<1>12. CASE WGatePass
  <2>1. DOMAIN AfterGate \subseteq OwnedPc
        /\ \A pc \in DOMAIN AfterGate : AfterGate[pc] \in FreePc \cup OwnedPc
    BY DEF AfterGate
  <2>2. GoIdle \/ \E pc \in FreePc \cup OwnedPc : Goto(pc)
    BY <1>12, <2>1 DEF WGatePass
  <2>3. w.s \in Sessions
    BY <1>0, <1>12, <2>1 DEF WGatePass, Busy
  <2> QED BY <2>2, <2>3, WorkerGoes
<1>13. CASE WVerify
  BY <1>0, <1>13, WorkerGoes DEF WVerify, At, Busy
<1>14. CASE WReject
  BY <1>0, <1>14, WorkerGoes DEF WReject, At, Busy
<1>15. CASE WCloseFailed
  BY <1>0, <1>15, WorkerGoes DEF WCloseFailed, At, Busy
<1>16. CASE WDispatch
  BY <1>0, <1>16, WorkerGoes DEF WDispatch, At, Busy
<1>17. CASE WProviderOk
  BY <1>0, <1>17, WorkerGoes DEF WProviderOk, At, Busy
<1>18. CASE WProviderError
  BY <1>0, <1>18, WorkerGoes DEF WProviderError, At, Busy
<1>19. CASE WIndex
  BY <1>0, <1>19, WorkerGoes DEF WIndex, At, Busy
<1>20. CASE WJoin
  BY <1>0, <1>20, WorkerGoes DEF WJoin, At, Busy
<1>21. CASE WFinalize
  BY <1>0, <1>21, WorkerGoes DEF WFinalize, At, Busy
<1>22. CASE WComplete
  BY <1>0, <1>22, WorkerGoes DEF WComplete, At, Busy
<1>23. CASE WClose
  BY <1>0, <1>23, WorkerGoes DEF WClose, At, Busy
<1>24. CASE WProject
  BY <1>0, <1>24, WorkerGoes DEF WProject, At, begin_projection, GoDone, Busy
<1>25. CASE WLoro
  BY <1>0, <1>25, WorkerGoes DEF WLoro, At, write_document, Busy
<1>26. CASE WSettle
  BY <1>0, <1>26, WorkerGoes DEF WSettle, At, settle_projection, GoDone, Busy
<1>27. CASE WFailure
  BY <1>0, <1>27, WorkerGoes DEF WFailure, At, Busy
<1>28. CASE WReconcile
  BY <1>0, <1>28, WorkerGoes DEF WReconcile, At, Busy
<1>29. CASE WCloseReceipt
  BY <1>0, <1>29, WorkerGoes DEF WCloseReceipt, At, Busy
<1>30. CASE WReindex
  BY <1>0, <1>30, WorkerGoes DEF WReindex, At, Busy
<1>31. CASE SNextStage
  BY <1>31 DEF SNextStage, WorkerOK, Worker, Busy, IdleWorker
<1>32. CASE Crash
  BY <1>32 DEF Crash, WorkerOK, Worker, Busy, IdleWorker
<1>33. CASE WHeartbeat \/ User \/ Gate_Step \/ UNCHANGED vars
  BY <1>33 DEF WorkerOK, WHeartbeat, User, Gate_Step, vars, GReserve, GEnqueue, GMark,
     GReceipt, GTaskFound, GTaskRebuild, GTaskLost, GPromote, GDecide, GIndex, GPrivacy,
     GCloseTask, GCloseRun, GProject, GLoro, GSettle, GStop, GWait, GWaitTimeout, GPhase,
     GFault, GPhaseFault, GRecord, GFinish, GRequest, GRetryProjection, GPurge
<1>34. CASE Restart \/ LoseTasksDb \/ ToggleKey
  BY <1>34 DEF WorkerOK, Restart, LoseTasksDb, ToggleKey
<1>35. ASSUME NEW s \in Sessions, SPurge(s) \/ SSearch(s) \/ STask(s) \/ SProjection(s)
                            \/ ExpireLease(s) \/ CorruptReceipt(s)
      PROVE  WorkerOK'
  BY <1>35 DEF WorkerOK, SPurge, SSearch, STask, SProjection, ExpireLease, CorruptReceipt
<1>36. CASE WFault
  BY <1>36, WorkerGoes DEF WFault
<1> QED
  BY <1>36, <1>1, <1>2, <1>3, <1>4, <1>5, <1>6, <1>7, <1>8, <1>9, <1>10, <1>11, <1>12, <1>13,
     <1>14, <1>15, <1>16, <1>17, <1>18, <1>19, <1>20, <1>21, <1>22, <1>23, <1>24, <1>25,
     <1>26, <1>27, <1>28, <1>29, <1>30, <1>31, <1>32, <1>33, <1>34, <1>35 DEF Next,
     Worker_Next, Startup_Step, Environment

(* The main database's columns.  Each transaction keeps them in their sets. *)
RunOK ==
    /\ async \in [Sessions -> AsyncState]
    /\ prov \in [Sessions -> BOOLEAN]
    /\ receipt \in [Sessions -> {"none", "valid", "corrupt"}]
    /\ search \in [Sessions -> SearchState]
    /\ proj \in [Sessions -> ProjState]

(* Each transaction of the capture store keeps the columns in their sets. *)
LEMMA Transactions ==
  ASSUME RunOK, NEW s
  PROVE  /\ mark_async_task_enqueued(s) => async' \in [Sessions -> AsyncState]
         /\ \A ok : mark_async_task_terminal(s, ok) => RunOK'
         /\ commit_async_provider_success(s) => RunOK'
         /\ project_search(s) => RunOK'
         /\ purge_session_artifacts(s) => RunOK'
<1> USE DEF RunOK
<1>1. mark_async_task_enqueued(s) => async' \in [Sessions -> AsyncState]
  BY DEF mark_async_task_enqueued, AsyncState
<1>2. ASSUME NEW ok, mark_async_task_terminal(s, ok) PROVE RunOK'
  BY <1>2 DEF mark_async_task_terminal, AsyncState, ProjState
<1>3. commit_async_provider_success(s) => RunOK'
  BY DEF commit_async_provider_success, SearchState
<1>4. project_search(s) => RunOK'
  BY DEF project_search, SearchState
<1>5. purge_session_artifacts(s) => RunOK'
  BY DEF purge_session_artifacts, AsyncState, SearchState, ProjState
<1> QED BY <1>1, <1>2, <1>3, <1>4, <1>5

(* The columns, step by step. *)
LEMMA RunStep ==
  ASSUME RunOK, [Next]_vars
  PROVE  RunOK'
<1>0. ASSUME UNCHANGED runVars PROVE RunOK'
  BY <1>0 DEF RunOK, runVars
<1>1. CASE WQuarantineRun
  BY <1>0, <1>1, Transactions DEF WQuarantineRun
<1>2. CASE WCloseFailed
  BY <1>0, <1>2, Transactions DEF WCloseFailed
<1>3. CASE WProviderOk
  BY <1>0, <1>3, Transactions DEF WProviderOk
<1>4. CASE WIndex
  BY <1>0, <1>4, Transactions DEF WIndex
<1>5. CASE WClose
  BY <1>0, <1>5, Transactions DEF WClose
<1>6. CASE WSettle
  BY <1>6 DEF WSettle, settle_projection, RunOK, ProjState
<1>7. CASE WCloseReceipt
  BY <1>0, <1>7, Transactions DEF WCloseReceipt
<1>8. CASE WReindex
  BY <1>0, <1>8, Transactions DEF WReindex
<1>9. CASE GTaskLost
  BY <1>0, <1>9, Transactions DEF GTaskLost
<1>10. CASE GDecide
  BY <1>0, <1>10, Transactions DEF GDecide
<1>11. CASE GIndex
  BY <1>0, <1>11, Transactions DEF GIndex
<1>12. CASE GCloseRun
  BY <1>0, <1>12, Transactions DEF GCloseRun
<1>13. CASE GSettle
  BY <1>13 DEF GSettle, settle_projection, RunOK, ProjState
<1>14. CASE WVerify
  BY <1>14, Transactions DEF WVerify, RunOK
<1>15. CASE GMark
  BY <1>15, Transactions DEF GMark, RunOK
<1>16. CASE GPromote
  BY <1>16, Transactions DEF GPromote, RunOK
<1>17. CASE WQuarantineTask
  <2>1. PICK s \in w.corrupt :
          search' = [search EXCEPT ![s] = IF @ \in {"pending", "failed"} THEN "failed" ELSE @]
    BY <1>17 DEF WQuarantineTask
  <2>2. UNCHANGED <<async, prov, receipt, proj>>
    BY <1>17 DEF WQuarantineTask
  <2> QED BY <2>1, <2>2 DEF RunOK, SearchState
<1>18. CASE GPhase
  BY <1>0, <1>18, Transactions DEF GPhase
<1>19. CASE WDispatch
  BY <1>19 DEF WDispatch, RunOK, AsyncState, SearchState, ProjState
<1>20. CASE WProject
  BY <1>20 DEF WProject, begin_projection, RunOK, AsyncState, SearchState, ProjState
<1>21. CASE GReserve
  BY <1>21 DEF GReserve, RunOK, AsyncState, SearchState, ProjState
<1>22. CASE GProject
  BY <1>22 DEF GProject, begin_projection, RunOK, AsyncState, SearchState, ProjState
<1>23. CASE Restart
  BY <1>23 DEF Restart, recover_unfinished_runs, RunOK, AsyncState, SearchState, ProjState
<1>24. ASSUME NEW s \in Sessions, GRequest(s) PROVE RunOK'
  BY <1>24 DEF GRequest, RunOK, AsyncState, SearchState, ProjState
<1>25. ASSUME NEW s \in Sessions, GRetryProjection(s) PROVE RunOK'
  BY <1>25 DEF GRetryProjection, RunOK, AsyncState, SearchState, ProjState
<1>26. ASSUME NEW s \in Sessions, SSearch(s) PROVE RunOK'
  BY <1>26, Transactions DEF SSearch, RunOK, AsyncState, SearchState, ProjState
<1>27. ASSUME NEW s \in Sessions, CorruptReceipt(s) PROVE RunOK'
  BY <1>27 DEF CorruptReceipt, RunOK, AsyncState, SearchState, ProjState
<1>28. CASE \/ WSweep \/ WScan \/ WQuarantined \/ WReceipt \/ WReceiptsDone
            \/ WClaimNext \/ WCredential \/ WRegister \/ WGateStop \/ WGatePass
            \/ WReject \/ WProviderError \/ WJoin \/ WFinalize \/ WComplete \/ WLoro
            \/ WFailure \/ WReconcile \/ WFault \/ WHeartbeat
  BY <1>0, <1>28 DEF WSweep, WScan, WQuarantined, WReceipt, WReceiptsDone, WClaimNext,
     WCredential, WRegister, WGateStop, WGatePass, WReject, WProviderError, WJoin,
     WFinalize, WComplete, WLoro, WFailure, WReconcile, WFault, WHeartbeat
<1>29. CASE \/ GEnqueue \/ GReceipt \/ GTaskFound \/ GTaskRebuild \/ GPrivacy
            \/ GCloseTask \/ GLoro \/ GStop \/ GWait \/ GWaitTimeout \/ GFault \/ GPhaseFault
            \/ GRecord \/ GFinish \/ SNextStage \/ Crash \/ LoseTasksDb \/ ToggleKey
  BY <1>0, <1>29 DEF GEnqueue, GReceipt, GTaskFound, GTaskRebuild, GPrivacy, GCloseTask,
     GLoro, GStop, GWait, GWaitTimeout, GFault, GPhaseFault, GRecord, GFinish, SNextStage, Crash,
     LoseTasksDb, ToggleKey
<1>30. ASSUME NEW s \in Sessions,
             \/ GPurge(s) \/ SPurge(s) \/ STask(s) \/ SProjection(s) \/ ExpireLease(s)
      PROVE  RunOK'
  BY <1>0, <1>30 DEF GPurge, SPurge, STask, SProjection, ExpireLease
<1>31. CASE UNCHANGED vars
  BY <1>0, <1>31 DEF vars
<1> QED
  BY <1>1, <1>2, <1>3, <1>4, <1>5, <1>6, <1>7, <1>8, <1>9, <1>10, <1>11, <1>12, <1>13,
     <1>14, <1>15, <1>16, <1>17, <1>18, <1>19, <1>20, <1>21, <1>22, <1>23, <1>24, <1>25,
     <1>26, <1>27, <1>28, <1>29, <1>30, <1>31 DEF Next, Worker_Next, User, Gate_Step,
     Startup_Step, Environment

(* The files: the source audio and the Notebook document. *)
FileOK == audio \in [Sessions -> BOOLEAN] /\ doc \in [Sessions -> BOOLEAN]

(* The files, step by step. *)
LEMMA FileStep ==
  ASSUME FileOK, [Next]_vars
  PROVE  FileOK'
<1>0. ASSUME UNCHANGED audio, UNCHANGED doc PROVE FileOK'
  BY <1>0 DEF FileOK
<1>1. CASE WFinalize
  BY <1>1 DEF WFinalize, destroyed, FileOK
<1>2. CASE GPrivacy
  BY <1>2 DEF GPrivacy, destroyed, FileOK
<1>3. CASE WLoro
  BY <1>3 DEF WLoro, write_document, FileOK
<1>4. CASE GLoro
  BY <1>4 DEF GLoro, write_document, FileOK
<1>5. CASE GPhase
  BY <1>5 DEF GPhase, FileOK
<1>6. CASE \/ WSweep \/ WScan \/ WQuarantineTask \/ WQuarantineRun \/ WQuarantined
           \/ WReceipt \/ WReceiptsDone \/ WClaimNext \/ WCredential \/ WRegister
           \/ WGateStop \/ WGatePass \/ WVerify \/ WReject \/ WCloseFailed \/ WDispatch
           \/ WProviderOk \/ WProviderError \/ WIndex \/ WJoin \/ WComplete \/ WClose
           \/ WProject \/ WSettle \/ WFailure \/ WReconcile \/ WCloseReceipt
           \/ WReindex \/ WFault \/ WHeartbeat
  BY <1>0, <1>6 DEF WSweep, WScan, WQuarantineTask, WQuarantineRun, WQuarantined,
     WReceipt, WReceiptsDone, WClaimNext, WCredential, WRegister, WGateStop, WGatePass,
     WVerify, WReject, WCloseFailed, WDispatch, WProviderOk, WProviderError, WIndex,
     WJoin, WComplete, WClose, WProject, WSettle, WFailure, WReconcile, WCloseReceipt,
     WReindex, WFault, WHeartbeat, fileVars
<1>7. CASE \/ GReserve \/ GEnqueue \/ GMark \/ GReceipt \/ GTaskFound \/ GTaskRebuild
           \/ GTaskLost \/ GPromote \/ GDecide \/ GIndex \/ GCloseTask \/ GCloseRun
           \/ GProject \/ GSettle \/ GStop \/ GWait \/ GWaitTimeout \/ GFault \/ GPhaseFault
           \/ GRecord \/ GFinish \/ Restart \/ SNextStage \/ Crash \/ LoseTasksDb
           \/ ToggleKey
  BY <1>0, <1>7 DEF GReserve, GEnqueue, GMark, GReceipt, GTaskFound, GTaskRebuild,
     GTaskLost, GPromote, GDecide, GIndex, GCloseTask, GCloseRun, GProject, GSettle,
     GStop, GWait, GWaitTimeout, GFault, GPhaseFault, GRecord, GFinish, Restart, SNextStage,
     Crash, LoseTasksDb, ToggleKey, fileVars
<1>8. ASSUME NEW s \in Sessions,
             \/ GRequest(s) \/ GRetryProjection(s) \/ GPurge(s) \/ SPurge(s)
             \/ SSearch(s) \/ STask(s) \/ SProjection(s) \/ ExpireLease(s)
             \/ CorruptReceipt(s)
      PROVE  FileOK'
  BY <1>0, <1>8 DEF GRequest, GRetryProjection, GPurge, SPurge, SSearch, STask,
     SProjection, ExpireLease, CorruptReceipt, fileVars
<1>9. CASE UNCHANGED vars
  BY <1>0, <1>9 DEF vars, fileVars
<1> QED
  BY <1>1, <1>2, <1>3, <1>4, <1>5, <1>6, <1>7, <1>8, <1>9 DEF Next, Worker_Next, User,
     Gate_Step, Startup_Step, Environment

(* The gate holder. *)
GateOK == g \in Gate /\ (g.pc # "free" => g.s \in Sessions)

(* The ways the gate holder moves keep it well formed. *)
LEMMA GateGoes ==
  ASSUME GateOK
  PROVE  /\ Release => GateOK'
         /\ \A pc \in GatePc : g.s \in Sessions /\ GGoto(pc) => GateOK'
         /\ \A s \in Sessions, pc \in GatePc :
              g' = [FreeGate EXCEPT !.pc = pc, !.s = s] => GateOK'
         /\ \A s \in Sessions, seen \in AsyncState : Ensure(s, seen) => GateOK'
<1> USE DEF GateOK, Gate
<1>1. Release => GateOK'
  BY DEF Release, FreeGate, GatePc, AsyncState, Q!Status
<1>2. ASSUME NEW pc \in GatePc, g.s \in Sessions, GGoto(pc) PROVE GateOK'
  BY <1>2 DEF GGoto
<1>3. ASSUME NEW s \in Sessions, NEW pc \in GatePc, g' = [FreeGate EXCEPT !.pc = pc, !.s = s]
      PROVE  GateOK'
  BY <1>3 DEF FreeGate, AsyncState, Q!Status
<1>4. ASSUME NEW s \in Sessions, NEW seen \in AsyncState, Ensure(s, seen) PROVE GateOK'
  <2>1. CASE seen = "pending"
    BY <1>4, <2>1 DEF Ensure, FreeGate, GatePc, Q!Status
  <2>2. CASE seen \in {"reserved", "enqueued"}
    BY <1>4, <2>2 DEF Ensure, FreeGate, GatePc, Q!Status
  <2>3. CASE seen \notin {"pending", "reserved", "enqueued"}
    BY <1>4, <2>3 DEF Ensure, FreeGate, GatePc, Q!Status
  <2> QED BY <2>1, <2>2, <2>3
<1> QED BY <1>1, <1>2, <1>3, <1>4

(* tasks.db.  Only rows the worker or the gate holder has named are moved. *)
LEMMA RowStep ==
  ASSUME task \in Rows, WorkerOK, GateOK, [Next]_vars
  PROVE  task' \in Rows
<1>0. ASSUME UNCHANGED task PROVE task' \in Rows
  BY <1>0
<1> DEFINE Owned == w.pc \in Busy => w.s \in Sessions
           Gated == g.pc # "free" => g.s \in Sessions
<1>a. Owned /\ Gated
  BY DEF WorkerOK, GateOK
<1>1. CASE WQuarantineTask
  BY <1>0, <1>a, <1>1, QueueTyped DEF WQuarantineTask, At, WorkerOK, Worker
<1>2. CASE WReceipt
  BY <1>0, <1>a, <1>2, QueueTyped DEF WReceipt, At, WorkerOK, Worker
<1>3. CASE WClaimNext
  BY <1>0, <1>a, <1>3, QueueTyped DEF WClaimNext, At
<1>4. CASE WCredential
  BY <1>0, <1>a, <1>4, QueueTyped DEF WCredential, At, Busy, OwnedPc
<1>5. CASE WRegister
  BY <1>0, <1>a, <1>5, TableTyped DEF WRegister, At, Busy, OwnedPc
<1>6. CASE WGateStop
  BY <1>0, <1>a, <1>6, TableTyped DEF WGateStop, Busy, OwnedPc
<1>7. CASE WReject
  BY <1>0, <1>a, <1>7, QueueTyped DEF WReject, At, Busy, OwnedPc
<1>8. CASE WComplete
  BY <1>0, <1>a, <1>8, QueueTyped DEF WComplete, At, Busy, OwnedPc
<1>9. CASE WFailure
  BY <1>0, <1>a, <1>9, QueueTyped DEF WFailure, At, Busy, OwnedPc
<1>10. CASE WCloseReceipt
  BY <1>0, <1>a, <1>10, TableTyped DEF WCloseReceipt, At, Busy, OwnedPc
<1>11. CASE WHeartbeat
  BY <1>0, <1>a, <1>11, QueueTyped DEF WHeartbeat, Busy, OwnedPc, HandlerPc
<1>12. CASE GEnqueue
  BY <1>0, <1>a, <1>12, QueueTyped DEF GEnqueue, Holding
<1>13. CASE GTaskRebuild
  BY <1>0, <1>a, <1>13, QueueTyped DEF GTaskRebuild, Holding
<1>14. CASE GCloseTask
  BY <1>0, <1>a, <1>14, QueueTyped DEF GCloseTask, Holding
<1>15. CASE GPhase
  BY <1>0, <1>a, <1>15, TableTyped DEF GPhase, Holding
<1>16. ASSUME NEW s \in Sessions, ExpireLease(s) PROVE task' \in Rows
  BY <1>0, <1>a, <1>16, TableTyped DEF ExpireLease
<1>17. CASE Restart
  BY <1>0, <1>a, <1>17, TableTyped DEF Restart
<1>18. CASE LoseTasksDb
  BY <1>0, <1>a, <1>18, TableTyped DEF LoseTasksDb
<1>19. CASE \/ WSweep \/ WScan \/ WQuarantineRun \/ WQuarantined \/ WReceiptsDone
            \/ WGatePass \/ WVerify \/ WCloseFailed \/ WDispatch \/ WProviderOk
            \/ WProviderError \/ WIndex \/ WJoin \/ WFinalize \/ WClose \/ WProject
            \/ WLoro \/ WSettle \/ WReconcile \/ WReindex \/ WFault
  BY <1>0, <1>19 DEF WSweep, WScan, WQuarantineRun, WQuarantined, WReceiptsDone,
     WGatePass, WVerify, WCloseFailed, WDispatch, WProviderOk, WProviderError, WIndex,
     WJoin, WFinalize, WClose, WProject, WLoro, WSettle, WReconcile, WReindex,
     WFault
<1>20. CASE \/ GReserve \/ GMark \/ GReceipt \/ GTaskFound \/ GTaskLost \/ GPromote
            \/ GDecide \/ GIndex \/ GPrivacy \/ GCloseRun \/ GProject \/ GLoro
            \/ GSettle \/ GStop \/ GWait \/ GWaitTimeout \/ GFault \/ GPhaseFault \/ GRecord
            \/ GFinish \/ SNextStage \/ Crash \/ ToggleKey
  BY <1>0, <1>20 DEF GReserve, GMark, GReceipt, GTaskFound, GTaskLost, GPromote, GDecide,
     GIndex, GPrivacy, GCloseRun, GProject, GLoro, GSettle, GStop, GWait, GWaitTimeout,
     GFault, GPhaseFault, GRecord, GFinish, SNextStage, Crash, ToggleKey
<1>21. ASSUME NEW s \in Sessions,
             \/ GRequest(s) \/ GRetryProjection(s) \/ GPurge(s) \/ SPurge(s)
             \/ SSearch(s) \/ STask(s) \/ SProjection(s) \/ CorruptReceipt(s)
      PROVE  task' \in Rows
  BY <1>0, <1>21 DEF GRequest, GRetryProjection, GPurge, SPurge, SSearch, STask,
     SProjection, CorruptReceipt
<1>22. CASE UNCHANGED vars
  BY <1>0, <1>22 DEF vars
<1> QED
  BY <1>1, <1>2, <1>3, <1>4, <1>5, <1>6, <1>7, <1>8, <1>9, <1>10, <1>11, <1>12, <1>13,
     <1>14, <1>15, <1>16, <1>17, <1>18, <1>19, <1>20, <1>21, <1>22 DEF Next, Worker_Next,
     User, Gate_Step, Startup_Step, Environment

(* The process life cycle and the registry. *)
LifeOK == proc \in Stage /\ todo \subseteq Sessions /\ blocked \subseteq Sessions /\ key \in BOOLEAN

(* The life cycle, step by step. *)
LEMMA LifeStep ==
  ASSUME LifeOK, GateOK, [Next]_vars
  PROVE  LifeOK'
<1>0. ASSUME UNCHANGED <<proc, todo, blocked, key>> PROVE LifeOK'
  BY <1>0 DEF LifeOK
<1>1. CASE GEnqueue
  BY <1>1 DEF GEnqueue, Holding, Abort, LifeOK, Stage
<1>2. CASE GMark
  BY <1>2 DEF GMark, Holding, Abort, LifeOK, Stage
<1>3. CASE GTaskRebuild
  BY <1>3 DEF GTaskRebuild, Holding, Abort, LifeOK, Stage
<1>4. CASE GTaskLost
  BY <1>4 DEF GTaskLost, Holding, Abort, LifeOK, Stage
<1>5. CASE GPromote
  BY <1>5 DEF GPromote, Holding, Abort, LifeOK, Stage
<1>6. CASE GDecide
  BY <1>6 DEF GDecide, Holding, Abort, LifeOK, Stage
<1>7. CASE GStop
  BY <1>7 DEF GStop, Holding, LifeOK, Stage, GateOK
<1>8. ASSUME NEW s \in Sessions, SPurge(s) PROVE LifeOK'
  BY <1>8 DEF SPurge, LifeOK, Stage
<1>9. ASSUME NEW s \in Sessions, SSearch(s) PROVE LifeOK'
  BY <1>9 DEF SSearch, LifeOK, Stage
<1>10. ASSUME NEW s \in Sessions, STask(s) PROVE LifeOK'
  BY <1>10 DEF STask, LifeOK, Stage
<1>11. ASSUME NEW s \in Sessions, SProjection(s) PROVE LifeOK'
  BY <1>11 DEF SProjection, LifeOK, Stage
<1>12. CASE Restart
  BY <1>12 DEF Restart, LifeOK, Stage
<1>13. CASE SNextStage
  BY <1>13 DEF SNextStage, LifeOK, Stage
<1>14. CASE Crash
  BY <1>14 DEF Crash, LifeOK, Stage
<1>15. CASE ToggleKey
  BY <1>15 DEF ToggleKey, LifeOK, Stage
<1>16. CASE \/ WSweep \/ WScan \/ WQuarantineTask \/ WQuarantineRun \/ WQuarantined
            \/ WReceipt \/ WReceiptsDone \/ WClaimNext \/ WCredential \/ WRegister
            \/ WGateStop \/ WGatePass \/ WVerify \/ WReject \/ WCloseFailed
            \/ WDispatch \/ WProviderOk \/ WProviderError \/ WIndex \/ WJoin
            \/ WFinalize \/ WComplete \/ WClose \/ WProject \/ WLoro \/ WSettle
            \/ WFailure \/ WReconcile \/ WCloseReceipt \/ WReindex \/ WFault \/ WHeartbeat
  BY <1>0, <1>16 DEF WSweep, WScan, WQuarantineTask, WQuarantineRun, WQuarantined,
     WReceipt, WReceiptsDone, WClaimNext, WCredential, WRegister, WGateStop, WGatePass,
     WVerify, WReject, WCloseFailed, WDispatch, WProviderOk, WProviderError, WIndex,
     WJoin, WFinalize, WComplete, WClose, WProject, WLoro, WSettle, WFailure, WReconcile,
     WCloseReceipt, WReindex, WFault, WHeartbeat, lifeVars
<1>17. CASE \/ GReserve \/ GReceipt \/ GTaskFound \/ GIndex \/ GPrivacy \/ GCloseTask
            \/ GCloseRun \/ GProject \/ GLoro \/ GSettle \/ GWait \/ GWaitTimeout
            \/ GPhase \/ GPhaseFault \/ GRecord \/ GFinish \/ LoseTasksDb
  BY <1>0, <1>17 DEF GReserve, GReceipt, GTaskFound, GIndex, GPrivacy, GCloseTask,
     GCloseRun, GProject, GLoro, GSettle, GWait, GWaitTimeout, GPhase, GPhaseFault,
     GRecord, GFinish, LoseTasksDb, lifeVars
<1>18. ASSUME NEW s \in Sessions,
             \/ GRequest(s) \/ GRetryProjection(s) \/ GPurge(s) \/ ExpireLease(s)
             \/ CorruptReceipt(s)
      PROVE  LifeOK'
  BY <1>0, <1>18 DEF GRequest, GRetryProjection, GPurge, ExpireLease, CorruptReceipt,
     lifeVars
<1>19. CASE UNCHANGED vars
  BY <1>0, <1>19 DEF vars, lifeVars
<1>20. CASE GFault
  BY <1>20 DEF GFault, Holding, Abort, LifeOK, Stage
<1> QED
  BY <1>20, <1>1, <1>2, <1>3, <1>4, <1>5, <1>6, <1>7, <1>8, <1>9, <1>10, <1>11, <1>12, <1>13,
     <1>14, <1>15, <1>16, <1>17, <1>18, <1>19 DEF Next, Worker_Next, User, Gate_Step,
     Startup_Step, Environment

(* The counters stay within their bounds. *)
HistOK ==
    attempts \in [Sessions -> 0..AttemptCap] /\ crashes \in 0..MaxCrashes /\ faults \in 0..MaxFaults

(* The counters, step by step. *)
LEMMA HistStep ==
  ASSUME HistOK, [Next]_vars
  PROVE  HistOK'
<1>0. ASSUME UNCHANGED attempts, UNCHANGED crashes, NoFault \/ Fault PROVE HistOK'
  BY <1>0, AsyncAssumption DEF HistOK, NoFault, Fault
<1>1. CASE WDispatch
  <2>1. \/ attempts' = attempts
        \/ attempts[w.s] < AttemptCap /\ attempts' = [attempts EXCEPT ![w.s] = @ + 1]
    BY <1>1 DEF WDispatch
  <2>2. UNCHANGED <<crashes, faults>>
    BY <1>1 DEF WDispatch
  <2>3. attempts' \in [Sessions -> 0..AttemptCap]
    BY <2>1, AsyncAssumption DEF HistOK
  <2> QED BY <2>2, <2>3 DEF HistOK
<1>2. CASE Crash
  BY <1>2, AsyncAssumption DEF Crash, HistOK
<1>3. CASE WGateStop
  BY <1>0, <1>3 DEF WGateStop
<1>4. CASE WVerify
  BY <1>0, <1>4 DEF WVerify
<1>5. CASE WIndex
  BY <1>0, <1>5 DEF WIndex, project_search
<1>6. CASE WFinalize
  BY <1>0, <1>6 DEF WFinalize
<1>7. CASE WLoro
  BY <1>0, <1>7 DEF WLoro, write_document
<1>8. CASE WFailure
  BY <1>0, <1>8 DEF WFailure
<1>9. CASE WReindex
  BY <1>0, <1>9 DEF WReindex, project_search
<1>10. CASE GEnqueue
  BY <1>0, <1>10 DEF GEnqueue
<1>11. CASE GTaskRebuild
  BY <1>0, <1>11 DEF GTaskRebuild
<1>12. CASE GTaskLost
  BY <1>0, <1>12 DEF GTaskLost
<1>13. CASE GIndex
  BY <1>0, <1>13 DEF GIndex, project_search
<1>14. CASE GPrivacy
  BY <1>0, <1>14 DEF GPrivacy
<1>15. CASE GLoro
  BY <1>0, <1>15 DEF GLoro, write_document
<1>16. CASE GStop
  BY <1>0, <1>16 DEF GStop
<1>17. CASE GPhaseFault
  BY <1>0, <1>17 DEF GPhaseFault
<1>18. ASSUME NEW s \in Sessions, SSearch(s) PROVE HistOK'
  BY <1>0, <1>18 DEF SSearch, project_search
<1>19. ASSUME NEW s \in Sessions, CorruptReceipt(s) PROVE HistOK'
  BY <1>0, <1>19 DEF CorruptReceipt
<1>20. CASE LoseTasksDb
  BY <1>0, <1>20 DEF LoseTasksDb
<1>21. CASE \/ WSweep \/ WScan \/ WQuarantineTask \/ WQuarantineRun \/ WQuarantined
            \/ WReceipt \/ WReceiptsDone \/ WClaimNext \/ WCredential \/ WRegister
            \/ WGatePass \/ WReject \/ WCloseFailed \/ WProviderOk \/ WProviderError
            \/ WJoin \/ WComplete \/ WClose \/ WProject \/ WReconcile
            \/ WCloseReceipt \/ WHeartbeat
  BY <1>0, <1>21 DEF WSweep, WScan, WQuarantineTask, WQuarantineRun, WQuarantined,
     WReceipt, WReceiptsDone, WClaimNext, WCredential, WRegister, WGatePass, WReject,
     WCloseFailed, WProviderOk, WProviderError, WJoin, WComplete, WClose, WProject,
     WReconcile, WCloseReceipt, WHeartbeat, histVars, NoFault
<1>22. CASE \/ GReserve \/ GMark \/ GReceipt \/ GTaskFound \/ GPromote \/ GDecide
            \/ GCloseTask \/ GCloseRun \/ GProject \/ GWait \/ GWaitTimeout
            \/ GPhase \/ GRecord \/ GFinish \/ Restart \/ SNextStage \/ ToggleKey
  BY <1>0, <1>22 DEF GReserve, GMark, GReceipt, GTaskFound, GPromote, GDecide, GCloseTask,
     GCloseRun, GProject, GWait, GWaitTimeout, GPhase, GRecord, GFinish, Restart,
     SNextStage, ToggleKey, histVars, NoFault
<1>23. ASSUME NEW s \in Sessions,
             \/ GRequest(s) \/ GRetryProjection(s) \/ GPurge(s) \/ SPurge(s)
             \/ STask(s) \/ SProjection(s) \/ ExpireLease(s)
      PROVE  HistOK'
  BY <1>0, <1>23 DEF GRequest, GRetryProjection, GPurge, SPurge, STask, SProjection,
     ExpireLease, histVars, NoFault
<1>24. CASE UNCHANGED vars
  BY <1>0, <1>24 DEF vars, histVars, NoFault
<1>25. CASE WFault
  BY <1>0, <1>25 DEF WFault
<1>26. CASE GFault
  BY <1>0, <1>26 DEF GFault
<1>27. CASE WSettle
  BY <1>0, <1>27 DEF WSettle, settle_projection
<1>28. CASE GSettle
  BY <1>0, <1>28 DEF GSettle, settle_projection
<1> QED
  BY <1>25, <1>26, <1>27, <1>28, <1>1, <1>2, <1>3, <1>4, <1>5, <1>6, <1>7, <1>8, <1>9, <1>10, <1>11, <1>12, <1>13,
     <1>14, <1>15, <1>16, <1>17, <1>18, <1>19, <1>20, <1>21, <1>22, <1>23, <1>24 DEF Next,
     Worker_Next, User, Gate_Step, Startup_Step, Environment

(* The gate holder, step by step. *)
LEMMA GateStep ==
  ASSUME GateOK, RunOK, task \in Rows, LifeOK, [Next]_vars
  PROVE  GateOK'
<1>0. ASSUME UNCHANGED g PROVE GateOK'
  BY <1>0 DEF GateOK
<1>a. g.pc # "free" => g.s \in Sessions
  BY DEF GateOK
<1> USE DEF GatePc
<1>1. CASE GReserve
  BY <1>a, GateGoes, <1>1 DEF GReserve, Holding
<1>2. CASE GEnqueue
  BY <1>a, GateGoes, <1>2 DEF GEnqueue, Holding, Abort
<1>3. CASE GMark
  BY <1>a, GateGoes, <1>3 DEF GMark, Holding, Abort
<1>4. CASE GReceipt
  <2>1. CASE Release
    BY <2>1, GateGoes
  <2>2. CASE g' = [g EXCEPT !.pc = "task", !.rcpt = receipt[g.s] = "valid"]
    BY <1>a, <1>4, <2>2 DEF GReceipt, Holding, GateOK, Gate
  <2> QED BY <1>4, <2>1, <2>2 DEF GReceipt
<1>5. CASE GTaskFound
  BY <1>a, GateGoes, <1>5 DEF GTaskFound, Holding, GateOK, Gate, Rows, Q!Row, Q!Status
<1>6. CASE GTaskRebuild
  BY <1>a, GateGoes, <1>6 DEF GTaskRebuild, Holding, Abort, GateOK, Gate, Rows, Q!Row,
     Q!Status
<1>7. CASE GTaskLost
  BY <1>a, GateGoes, <1>7 DEF GTaskLost, Holding, Abort
<1>8. CASE GPromote
  BY <1>a, GateGoes, <1>8 DEF GPromote, Holding, Abort
<1>9. CASE GDecide
  BY <1>a, GateGoes, <1>9 DEF GDecide, Holding, Abort
<1>10. CASE GIndex
  BY <1>a, GateGoes, <1>10 DEF GIndex, Holding
<1>11. CASE GPrivacy
  BY <1>a, GateGoes, <1>11 DEF GPrivacy, Holding
<1>12. CASE GCloseTask
  BY <1>a, GateGoes, <1>12 DEF GCloseTask, Holding
<1>13. CASE GCloseRun
  BY <1>a, GateGoes, <1>13 DEF GCloseRun, Holding
<1>14. CASE GProject
  BY <1>a, GateGoes, <1>14 DEF GProject, Holding, begin_projection
<1>15. CASE GLoro
  BY <1>a, GateGoes, <1>15 DEF GLoro, Holding, write_document
<1>16. CASE GSettle
  BY <1>a, GateGoes, <1>16 DEF GSettle, Holding, settle_projection
<1>17. CASE GStop
  BY <1>a, GateGoes, <1>17 DEF GStop, Holding
<1>18. CASE GWait
  BY <1>a, GateGoes, <1>18 DEF GWait, Holding
<1>19. CASE GWaitTimeout
  BY <1>a, GateGoes, <1>19 DEF GWaitTimeout, Holding
<1>20. CASE GPhase
  BY <1>a, GateGoes, <1>20 DEF GPhase, Holding
<1>21. CASE GPhaseFault
  BY <1>a, GateGoes, <1>21 DEF GPhaseFault, Holding
<1>22. CASE GRecord
  BY <1>a, GateGoes, <1>22 DEF GRecord, Holding
<1>23. CASE GFinish
  BY <1>a, GateGoes, <1>23 DEF GFinish, Holding
<1>24. ASSUME NEW s \in Sessions, GRequest(s) PROVE GateOK'
  BY <1>a, GateGoes, RunStep, <1>24 DEF GRequest, RunOK
<1>25. ASSUME NEW s \in Sessions, GRetryProjection(s) PROVE GateOK'
  BY <1>a, GateGoes, <1>25 DEF GRetryProjection
<1>26. ASSUME NEW s \in Sessions, GPurge(s) PROVE GateOK'
  BY <1>a, GateGoes, <1>26 DEF GPurge
<1>27. ASSUME NEW s \in Sessions, SPurge(s) PROVE GateOK'
  BY <1>a, GateGoes, <1>27 DEF SPurge
<1>28. ASSUME NEW s \in Sessions, STask(s) PROVE GateOK'
  BY <1>a, GateGoes, <1>0, <1>28 DEF STask, RunOK
<1>29. ASSUME NEW s \in Sessions, SProjection(s) PROVE GateOK'
  BY <1>a, GateGoes, <1>0, <1>29 DEF SProjection
<1>30. CASE Crash
  BY <1>a, GateGoes, <1>30 DEF Crash, Release
<1>31. CASE \/ WSweep \/ WScan \/ WQuarantineTask \/ WQuarantineRun \/ WQuarantined
            \/ WReceipt \/ WReceiptsDone \/ WClaimNext \/ WCredential \/ WRegister
            \/ WGateStop \/ WGatePass \/ WVerify \/ WReject \/ WCloseFailed
            \/ WDispatch \/ WProviderOk \/ WProviderError \/ WIndex \/ WJoin
            \/ WFinalize \/ WComplete \/ WClose \/ WProject \/ WLoro \/ WSettle
            \/ WFailure \/ WReconcile \/ WCloseReceipt \/ WReindex \/ WFault \/ WHeartbeat
  BY <1>0, <1>31 DEF WSweep, WScan, WQuarantineTask, WQuarantineRun, WQuarantined,
     WReceipt, WReceiptsDone, WClaimNext, WCredential, WRegister, WGateStop, WGatePass,
     WVerify, WReject, WCloseFailed, WDispatch, WProviderOk, WProviderError, WIndex,
     WJoin, WFinalize, WComplete, WClose, WProject, WLoro, WSettle, WFailure, WReconcile,
     WCloseReceipt, WReindex, WFault, WHeartbeat, lifeVars
<1>32. CASE \/ Restart \/ SNextStage \/ LoseTasksDb \/ ToggleKey
  BY <1>0, <1>32 DEF Restart, SNextStage, LoseTasksDb, ToggleKey, lifeVars
<1>33. ASSUME NEW s \in Sessions,
             \/ SSearch(s) \/ ExpireLease(s) \/ CorruptReceipt(s)
      PROVE  GateOK'
  BY <1>0, <1>33 DEF SSearch, ExpireLease, CorruptReceipt, lifeVars
<1>34. CASE UNCHANGED vars
  BY <1>0, <1>34 DEF vars, lifeVars
<1>35. CASE GFault
  BY <1>35, GateGoes DEF GFault, Abort
<1> QED
  BY <1>35, <1>1, <1>2, <1>3, <1>4, <1>5, <1>6, <1>7, <1>8, <1>9, <1>10, <1>11, <1>12, <1>13,
     <1>14, <1>15, <1>16, <1>17, <1>18, <1>19, <1>20, <1>21, <1>22, <1>23, <1>24, <1>25,
     <1>26, <1>27, <1>28, <1>29, <1>30, <1>31, <1>32, <1>33, <1>34 DEF Next, Worker_Next,
     User, Gate_Step, Startup_Step, Environment

-----------------------------------------------------------------------------
(* Delete Forever's own invariant.  A holder in the purge sequence has a     *)
(* tombstone, a job past the deletion of the main-database rows has no run   *)
(* row, and start-up visits each unfinished job once.  A run row that is     *)
(* gone stays gone because only a pending run is ever reserved.              *)
Purging == {"stop", "wait", "phase", "record"}

PurgeOK ==
    /\ purge \in [Sessions -> Phase]
    /\ proc = "down" => g.pc = "free"
    /\ g.pc \in Purging => Tombstoned(g.s)
    /\ g.pc = "record" => purge[g.s] # "purge_receipts_removed"
    /\ proc = "purges" =>
          \A s \in todo : Tombstoned(s) /\ (g.pc # "free" => g.s # s)

GoneRuns ==
    /\ g.pc = "reserve" => async[g.s] = "pending"
    /\ \A s \in Sessions :
          purge[s] \in {"main_database_removed", "purge_receipts_removed"}
              => async[s] = "erased"
    /\ g.pc = "record" /\ purge[g.s] = "external_artifacts_removed"
          => async[g.s] = "erased"

(* A holder outside the purge sequence does not disturb it. *)
LEMMA HolderGoes ==
  ASSUME PurgeOK, GateOK, UNCHANGED <<purge, todo>>
  PROVE  /\ Release /\ proc' \in {proc, "down"} => PurgeOK'
         /\ \A pc \in GatePc \ Purging : g.pc # "free" /\ GGoto(pc) /\ proc' = proc => PurgeOK'
<1> USE DEF PurgeOK, Tombstoned
<1>1. ASSUME Release, proc' \in {proc, "down"} PROVE PurgeOK'
  BY <1>1 DEF Release, FreeGate, Purging
<1>2. ASSUME NEW pc \in GatePc \ Purging, g.pc # "free", GGoto(pc), proc' = proc PROVE PurgeOK'
  <2>1. g'.pc = pc /\ g'.s = g.s
    BY <1>2 DEF GGoto, GateOK, Gate
  <2> QED BY <1>2, <2>1 DEF Purging
<1> QED BY <1>1, <1>2

(* Where ensure_post_stop_async_task_for_run leads. *)
LEMMA EnsureGoes ==
  ASSUME NEW s \in Sessions, NEW seen, Ensure(s, seen)
  PROVE  /\ g'.pc \in {"free", "reserve", "receipt"}
         /\ g'.pc # "free" => g'.s = s
         /\ g'.pc = "reserve" => seen = "pending"
         /\ g'.pc = "receipt" => seen \in {"reserved", "enqueued"}
<1>1. CASE seen = "pending"
  BY <1>1 DEF Ensure, FreeGate
<1>2. CASE seen \in {"reserved", "enqueued"}
  BY <1>2 DEF Ensure, FreeGate
<1>3. CASE seen \notin {"pending", "reserved", "enqueued"}
  BY <1>3 DEF Ensure, FreeGate
<1> QED BY <1>1, <1>2, <1>3

(* The purge sequence, step by step. *)
LEMMA PurgeStep ==
  ASSUME PurgeOK, GateOK, LifeOK, [Next]_vars
  PROVE  PurgeOK'
<1>0. ASSUME UNCHANGED <<purge, proc, todo, g>> PROVE PurgeOK'
  BY <1>0 DEF PurgeOK, Tombstoned
<1> USE DEF GatePc, Purging
<1>1. CASE GReserve
  BY <1>1, HolderGoes DEF GReserve, lifeVars, Holding
<1>2. CASE GEnqueue
  BY <1>2, HolderGoes DEF GEnqueue, lifeVars, Holding, Abort
<1>3. CASE GMark
  BY <1>3, HolderGoes DEF GMark, lifeVars, Holding, Abort
<1>4. CASE GTaskLost
  BY <1>4, HolderGoes DEF GTaskLost, lifeVars, Holding, Abort
<1>5. CASE GPromote
  BY <1>5, HolderGoes DEF GPromote, lifeVars, Holding, Abort
<1>6. CASE GDecide
  BY <1>6, HolderGoes DEF GDecide, lifeVars, Holding, Abort
<1>7. CASE GIndex
  BY <1>7, HolderGoes DEF GIndex, lifeVars, Holding
<1>8. CASE GPrivacy
  BY <1>8, HolderGoes DEF GPrivacy, lifeVars, Holding
<1>9. CASE GCloseTask
  BY <1>9, HolderGoes DEF GCloseTask, lifeVars, Holding
<1>10. CASE GCloseRun
  BY <1>10, HolderGoes DEF GCloseRun, lifeVars, Holding
<1>11. CASE GProject
  BY <1>11, HolderGoes DEF GProject, lifeVars, Holding, begin_projection
<1>12. CASE GLoro
  BY <1>12, HolderGoes DEF GLoro, lifeVars, Holding, write_document
<1>13. CASE GSettle
  BY <1>13, HolderGoes DEF GSettle, lifeVars, Holding, settle_projection
<1>14. CASE GWaitTimeout
  BY <1>14, HolderGoes DEF GWaitTimeout, lifeVars, Holding
<1>15. CASE GPhaseFault
  BY <1>15, HolderGoes DEF GPhaseFault, lifeVars, Holding
<1>16. CASE GReceipt
  <2>1. \/ Release /\ UNCHANGED <<purge, todo>> /\ proc' \in {proc, "down"}
        \/ g'.pc \in GatePc \ Purging /\ g'.s = g.s /\ UNCHANGED <<purge, proc, todo>>
    BY <1>16 DEF GReceipt, lifeVars, GateOK, Gate, Holding
  <2>2. g.pc # "free"
    BY <1>16 DEF GReceipt, Holding
  <2> QED BY <2>1, <2>2, HolderGoes DEF PurgeOK, Tombstoned
<1>17. CASE GTaskFound
  <2>1. \/ Release /\ UNCHANGED <<purge, todo>> /\ proc' \in {proc, "down"}
        \/ g'.pc \in GatePc \ Purging /\ g'.s = g.s /\ UNCHANGED <<purge, proc, todo>>
    BY <1>17 DEF GTaskFound, lifeVars, GateOK, Gate, Holding
  <2>2. g.pc # "free"
    BY <1>17 DEF GTaskFound, Holding
  <2> QED BY <2>1, <2>2, HolderGoes DEF PurgeOK, Tombstoned
<1>18. CASE GTaskRebuild
  <2>1. \/ Release /\ UNCHANGED <<purge, todo>> /\ proc' \in {proc, "down"}
        \/ g'.pc \in GatePc \ Purging /\ g'.s = g.s /\ UNCHANGED <<purge, proc, todo>>
    BY <1>18 DEF GTaskRebuild, lifeVars, GateOK, Gate, Holding, Abort
  <2>2. g.pc # "free"
    BY <1>18 DEF GTaskRebuild, Holding
  <2> QED BY <2>1, <2>2, HolderGoes DEF PurgeOK, Tombstoned
<1>19. CASE GStop
  BY <1>19, HolderGoes DEF GStop, Holding, GGoto, GateOK, Gate, PurgeOK, Tombstoned
<1>20. CASE GWait
  BY <1>20 DEF GWait, Holding, GGoto, GateOK, Gate, PurgeOK, Tombstoned, Phase, lifeVars
<1>21. CASE GPhase
  BY <1>21 DEF GPhase, Holding, GGoto, GateOK, Gate, PurgeOK, Tombstoned, lifeVars
<1>22. CASE GRecord
  <2>1. purge[g.s] \in DOMAIN PhaseAfter
    BY <1>22 DEF GRecord, Holding, GateOK, PurgeOK, Tombstoned, Phase, PhaseAfter
  <2>2. \A phase \in DOMAIN PhaseAfter : PhaseAfter[phase] \in Phase \ {"none"}
    BY DEF PhaseAfter, Phase
  <2>3. g.s \in Sessions /\ g'.pc = "phase" /\ g'.s = g.s
    BY <1>22 DEF GRecord, Holding, GGoto, GateOK, Gate
  <2>4. purge' \in [Sessions -> Phase] /\ purge'[g.s] # "none"
        /\ \A s \in Sessions \ {g.s} : purge'[s] = purge[s]
    BY <1>22, <2>1, <2>2, <2>3 DEF GRecord, PurgeOK
  <2> QED BY <1>22, <2>3, <2>4 DEF GRecord, Holding, PurgeOK, Tombstoned, lifeVars, LifeOK
<1>23. CASE GFinish
  BY <1>23 DEF GFinish, Holding, Release, FreeGate, GateOK, PurgeOK, Tombstoned, Phase,
     lifeVars, LifeOK
<1>24. ASSUME NEW s \in Sessions, GRequest(s) PROVE PurgeOK'
  BY <1>24, EnsureGoes DEF GRequest, PurgeOK, Tombstoned, lifeVars
<1>25. ASSUME NEW s \in Sessions, GRetryProjection(s) PROVE PurgeOK'
  BY <1>0, <1>25 DEF GRetryProjection, FreeGate, PurgeOK, Tombstoned, Phase, lifeVars,
     LifeOK
<1>26. ASSUME NEW s \in Sessions, GPurge(s) PROVE PurgeOK'
  BY <1>0, <1>26 DEF GPurge, FreeGate, PurgeOK, Tombstoned, Phase, lifeVars, LifeOK
<1>27. ASSUME NEW s \in Sessions, SPurge(s) PROVE PurgeOK'
  BY <1>0, <1>27 DEF SPurge, FreeGate, PurgeOK, Tombstoned, Phase, lifeVars, LifeOK
<1>28. ASSUME NEW s \in Sessions, SProjection(s) PROVE PurgeOK'
  BY <1>0, <1>28 DEF SProjection, FreeGate, PurgeOK, Tombstoned, Phase, lifeVars, LifeOK
<1>29. ASSUME NEW s \in Sessions, STask(s) PROVE PurgeOK'
  BY <1>29, EnsureGoes DEF STask, PurgeOK, Tombstoned
<1>30. ASSUME NEW s \in Sessions, SSearch(s) PROVE PurgeOK'
  BY <1>30 DEF SSearch, PurgeOK, Tombstoned
<1>31. CASE Restart
  BY <1>31 DEF Restart, FreeGate, PurgeOK, Tombstoned, LifeOK
<1>32. CASE SNextStage
  BY <1>32 DEF SNextStage, FreeGate, PurgeOK, Tombstoned, LifeOK
<1>33. CASE Crash
  BY <1>33 DEF Crash, FreeGate, PurgeOK, Tombstoned, LifeOK
<1>34. CASE \/ WSweep \/ WScan \/ WQuarantineTask \/ WQuarantineRun \/ WQuarantined
            \/ WReceipt \/ WReceiptsDone \/ WClaimNext \/ WCredential \/ WRegister
            \/ WGateStop \/ WGatePass \/ WVerify \/ WReject \/ WCloseFailed
            \/ WDispatch \/ WProviderOk \/ WProviderError \/ WIndex \/ WJoin
            \/ WFinalize \/ WComplete \/ WClose \/ WProject \/ WLoro \/ WSettle
            \/ WFailure \/ WReconcile \/ WCloseReceipt \/ WReindex \/ WFault \/ WHeartbeat
  BY <1>0, <1>34 DEF WSweep, WScan, WQuarantineTask, WQuarantineRun, WQuarantined,
     WReceipt, WReceiptsDone, WClaimNext, WCredential, WRegister, WGateStop, WGatePass,
     WVerify, WReject, WCloseFailed, WDispatch, WProviderOk, WProviderError, WIndex,
     WJoin, WFinalize, WComplete, WClose, WProject, WLoro, WSettle, WFailure, WReconcile,
     WCloseReceipt, WReindex, WFault, WHeartbeat, lifeVars
<1>35. CASE \/ LoseTasksDb \/ ToggleKey
  BY <1>0, <1>35 DEF LoseTasksDb, ToggleKey, lifeVars
<1>36. ASSUME NEW s \in Sessions,
             \/ ExpireLease(s) \/ CorruptReceipt(s)
      PROVE  PurgeOK'
  BY <1>0, <1>36 DEF ExpireLease, CorruptReceipt, lifeVars
<1>37. CASE UNCHANGED vars
  BY <1>0, <1>37 DEF vars, lifeVars
<1>38. CASE GFault
  BY <1>38, HolderGoes DEF GFault, Abort
<1> QED
  BY <1>38, <1>1, <1>2, <1>3, <1>4, <1>5, <1>6, <1>7, <1>8, <1>9, <1>10, <1>11, <1>12, <1>13,
     <1>14, <1>15, <1>16, <1>17, <1>18, <1>19, <1>20, <1>21, <1>22, <1>23, <1>24, <1>25,
     <1>26, <1>27, <1>28, <1>29, <1>30, <1>31, <1>32, <1>33, <1>34, <1>35, <1>36, <1>37
     DEF Next, Worker_Next, User, Gate_Step, Startup_Step, Environment

(* A pending run is moved only by its reservation, and an erased one never. *)
Kept == \A s \in Sessions : async[s] \in {"pending", "erased"} => async'[s] = async[s]

(* Marking a run touches only a reserved or enqueued one. *)
LEMMA MarksKeep ==
  ASSUME RunOK, NEW x
  PROVE  /\ mark_async_task_enqueued(x) => Kept
         /\ \A ok : mark_async_task_terminal(x, ok) => Kept
<1>1. mark_async_task_enqueued(x) => Kept
  BY DEF mark_async_task_enqueued, MayMarkEnqueued, InFlight, Kept, RunOK
<1>2. ASSUME NEW ok, mark_async_task_terminal(x, ok) PROVE Kept
  BY <1>2 DEF mark_async_task_terminal, MayMarkTerminal, Kept, RunOK
<1> QED BY <1>1, <1>2

(* The worker moves neither pending nor erased runs. *)
LEMMA WorkerKeeps ==
  ASSUME RunOK, Worker_Next
  PROVE  Kept /\ UNCHANGED <<purge, g>>
<1>0. ASSUME UNCHANGED async PROVE Kept
  BY <1>0 DEF Kept
<1>1. UNCHANGED <<purge, g>>
  BY DEF Worker_Next, WSweep, WScan, WQuarantineTask, WQuarantineRun, WQuarantined,
     WReceipt, WReceiptsDone, WClaimNext, WCredential, WRegister, WGateStop, WGatePass,
     WVerify, WReject, WCloseFailed, WDispatch, WProviderOk, WProviderError, WIndex,
     WJoin, WFinalize, WComplete, WClose, WProject, WLoro, WSettle, WFailure, WReconcile,
     WCloseReceipt, WReindex, WFault
<1>2. CASE WQuarantineRun
  BY <1>0, <1>2, MarksKeep DEF WQuarantineRun, runVars
<1>3. CASE WVerify
  BY <1>0, <1>3, MarksKeep DEF WVerify, runVars
<1>4. CASE WCloseFailed
  BY <1>0, <1>4, MarksKeep DEF WCloseFailed, runVars
<1>5. CASE WClose
  BY <1>0, <1>5, MarksKeep DEF WClose, runVars
<1>6. CASE WCloseReceipt
  BY <1>0, <1>6, MarksKeep DEF WCloseReceipt, runVars
<1>7. CASE \/ WSweep \/ WScan \/ WQuarantineTask \/ WQuarantined \/ WReceipt
           \/ WReceiptsDone \/ WClaimNext \/ WCredential \/ WRegister \/ WGateStop
           \/ WGatePass \/ WReject \/ WDispatch \/ WProviderOk \/ WProviderError
           \/ WIndex \/ WJoin \/ WFinalize \/ WComplete \/ WProject \/ WLoro \/ WSettle
           \/ WFailure \/ WReconcile \/ WReindex \/ WFault
  BY <1>0, <1>7 DEF runVars, WSweep, WScan, WQuarantineTask, WQuarantined, WReceipt,
     WReceiptsDone, WClaimNext, WCredential, WRegister, WGateStop, WGatePass, WReject,
     WDispatch, WProviderOk, WProviderError, WIndex, WJoin, WFinalize, WComplete,
     WProject, WLoro, WSettle, WFailure, WReconcile, WReindex, WFault, begin_projection,
     commit_async_provider_success, project_search, settle_projection
<1> QED
  BY <1>1, <1>2, <1>3, <1>4, <1>5, <1>6, <1>7 DEF Worker_Next

(* Steps that keep runs and phases keep the order between them. *)
LEMMA GoneStays ==
  ASSUME GoneRuns, GateOK, Kept, UNCHANGED purge
  PROVE  /\ UNCHANGED g => GoneRuns'
         /\ Release => GoneRuns'
         /\ \A pc \in GatePc \ {"reserve", "record"} : GGoto(pc) => GoneRuns'
         /\ g'.pc \notin {"reserve", "record"} => GoneRuns'
<1> USE DEF GoneRuns, Kept
<1>1. g'.pc \notin {"reserve", "record"} => GoneRuns'
  OBVIOUS
<1>2. UNCHANGED g => GoneRuns'
  BY DEF GateOK
<1>3. Release => GoneRuns'
  BY <1>1 DEF Release, FreeGate
<1>4. ASSUME NEW pc \in GatePc \ {"reserve", "record"}, GGoto(pc) PROVE GoneRuns'
  BY <1>1, <1>4 DEF GGoto, GateOK, Gate
<1> QED BY <1>1, <1>2, <1>3, <1>4

(* The order of purge phases and run rows, step by step. *)
LEMMA GoneStep ==
  ASSUME GoneRuns, PurgeOK, GateOK, RunOK, [Next]_vars
  PROVE  GoneRuns'
<1>0. ASSUME UNCHANGED async PROVE Kept
  BY <1>0 DEF Kept
<1> USE DEF GatePc
<1>1. CASE Worker_Next
  BY <1>1, WorkerKeeps, GoneStays
<1>2. CASE GEnqueue
  BY <1>0, <1>2, GoneStays DEF GEnqueue, Abort, runVars
<1>3. CASE GMark
  BY <1>0, <1>3, GoneStays, MarksKeep DEF GMark, Abort
<1>4. CASE GReceipt
  BY <1>0, <1>4, GoneStays DEF GReceipt, runVars, GateOK, Gate
<1>5. CASE GTaskFound
  BY <1>0, <1>5, GoneStays DEF GTaskFound, runVars, GateOK, Gate
<1>6. CASE GTaskRebuild
  <2>1. Release \/ g' = [g EXCEPT !.pc = "promote", !.status = "pending"]
    BY <1>6 DEF GTaskRebuild, Abort
  <2>2. UNCHANGED <<async, purge>>
    BY <1>6 DEF GTaskRebuild, runVars
  <2>3. CASE Release
    BY <1>0, <2>2, <2>3, GoneStays
  <2>4. CASE g' = [g EXCEPT !.pc = "promote", !.status = "pending"]
    BY <1>0, <2>2, <2>4, GoneStays DEF GateOK, Gate
  <2> QED BY <2>1, <2>3, <2>4
<1>7. CASE GTaskLost
  BY <1>0, <1>7, GoneStays, MarksKeep DEF GTaskLost, Abort, runVars
<1>8. CASE GPromote
  BY <1>0, <1>8, GoneStays, MarksKeep DEF GPromote, Abort
<1>9. CASE GDecide
  BY <1>0, <1>9, GoneStays, MarksKeep DEF GDecide, Abort, runVars
<1>10. CASE GIndex
  BY <1>0, <1>10, GoneStays DEF GIndex, project_search
<1>11. CASE GPrivacy
  BY <1>0, <1>11, GoneStays DEF GPrivacy, runVars
<1>12. CASE GCloseTask
  BY <1>0, <1>12, GoneStays DEF GCloseTask, runVars
<1>13. CASE GCloseRun
  BY <1>0, <1>13, GoneStays, MarksKeep DEF GCloseRun
<1>14. CASE GProject
  BY <1>0, <1>14, GoneStays DEF GProject, begin_projection
<1>15. CASE GLoro
  BY <1>0, <1>15, GoneStays DEF GLoro, write_document, runVars
<1>16. CASE GSettle
  BY <1>0, <1>16, GoneStays DEF GSettle, settle_projection
<1>17. CASE GStop
  BY <1>0, <1>17, GoneStays DEF GStop, runVars
<1>18. CASE GWaitTimeout
  BY <1>0, <1>18, GoneStays DEF GWaitTimeout, runVars
<1>19. CASE GPhaseFault
  BY <1>0, <1>19, GoneStays DEF GPhaseFault, runVars
<1>20. CASE GReserve
  BY <1>20 DEF GReserve, Holding, GGoto, GateOK, Gate, GoneRuns, RunOK
<1>21. CASE GWait
  BY <1>21 DEF GWait, Holding, GGoto, GateOK, Gate, GoneRuns, PurgeOK, runVars
<1>22. CASE GPhase
  <2>1. g'.pc = "record" /\ g'.s = g.s /\ g.s \in Sessions /\ purge' = purge
    BY <1>22 DEF GPhase, Holding, GGoto, GateOK, Gate
  <2>2. CASE purge[g.s] = "external_artifacts_removed"
    BY <1>22, <2>1, <2>2 DEF GPhase, purge_session_artifacts, GoneRuns, RunOK
  <2>3. CASE purge[g.s] # "external_artifacts_removed"
    BY <1>22, <2>1, <2>3 DEF GPhase, GoneRuns, runVars
  <2> QED BY <2>2, <2>3
<1>23. CASE GRecord
  <2>1. g'.pc = "phase" /\ g'.s = g.s /\ g.s \in Sessions /\ async' = async /\ g.pc = "record"
    BY <1>23 DEF GRecord, Holding, GGoto, GateOK, Gate, runVars
  <2>2. purge[g.s] \in DOMAIN PhaseAfter
    BY <2>1 DEF GateOK, PurgeOK, Tombstoned, Phase, PhaseAfter, Purging
  <2>3. /\ purge'[g.s] = "main_database_removed" => purge[g.s] = "external_artifacts_removed"
        /\ purge'[g.s] = "purge_receipts_removed" => purge[g.s] = "main_database_removed"
    BY <1>23, <2>1, <2>2 DEF GRecord, PurgeOK, PhaseAfter
  <2>4. \A s \in Sessions \ {g.s} : purge'[s] = purge[s]
    BY <1>23 DEF GRecord, PurgeOK
  <2> QED BY <2>1, <2>3, <2>4 DEF GoneRuns
<1>24. CASE GFinish
  BY <1>24 DEF GFinish, Holding, Release, FreeGate, GoneRuns, PurgeOK, runVars
<1>25. ASSUME NEW s \in Sessions, GRequest(s) PROVE GoneRuns'
  <2>1. Kept /\ UNCHANGED purge /\ Ensure(s, async'[s])
    BY <1>25 DEF GRequest, Kept, RunOK
  <2>2. g'.pc # "record" /\ (g'.pc = "reserve" => async'[g'.s] = "pending")
    BY <2>1, EnsureGoes
  <2> QED BY <2>1, <2>2 DEF GoneRuns, Kept
<1>26. ASSUME NEW s \in Sessions, STask(s) PROVE GoneRuns'
  <2>1. Kept /\ UNCHANGED <<purge, async>> /\ (UNCHANGED g \/ Ensure(s, async[s]))
    BY <1>0, <1>26 DEF STask, runVars
  <2>2. CASE UNCHANGED g
    BY <2>1, <2>2, GoneStays
  <2>3. CASE Ensure(s, async[s])
    BY <2>1, <2>3, EnsureGoes DEF GoneRuns
  <2> QED BY <2>1, <2>2, <2>3
<1>27. ASSUME NEW s \in Sessions, GPurge(s) PROVE GoneRuns'
  BY <1>27 DEF GPurge, FreeGate, GoneRuns, PurgeOK, runVars
<1>28. ASSUME NEW s \in Sessions, GRetryProjection(s) \/ SPurge(s) \/ SProjection(s) PROVE GoneRuns'
  BY <1>0, <1>28, GoneStays DEF GRetryProjection, SPurge, SProjection, FreeGate, runVars
<1>29. ASSUME NEW s \in Sessions, SSearch(s) \/ ExpireLease(s) \/ CorruptReceipt(s) PROVE GoneRuns'
  BY <1>0, <1>29, GoneStays DEF SSearch, project_search, ExpireLease, CorruptReceipt, runVars
<1>30. CASE Restart \/ SNextStage \/ LoseTasksDb \/ ToggleKey \/ WHeartbeat \/ UNCHANGED vars
  BY <1>0, <1>30, GoneStays DEF Restart, SNextStage, LoseTasksDb, ToggleKey, WHeartbeat,
     runVars, vars
<1>31. CASE Crash
  BY <1>0, <1>31, GoneStays DEF Crash, FreeGate, runVars
<1>32. CASE GFault
  BY <1>0, <1>32, GoneStays DEF GFault, Abort, runVars
<1> QED
  BY <1>32, <1>1, <1>2, <1>3, <1>4, <1>5, <1>6, <1>7, <1>8, <1>9, <1>10, <1>11, <1>12, <1>13,
     <1>14, <1>15, <1>16, <1>17, <1>18, <1>19, <1>20, <1>21, <1>22, <1>23, <1>24, <1>25,
     <1>26, <1>27, <1>28, <1>29, <1>30, <1>31 DEF Next, User, Gate_Step, Startup_Step,
     Environment

-----------------------------------------------------------------------------
Typed ==
    /\ RunOK /\ FileOK /\ task \in Rows /\ LifeOK
    /\ WorkerOK /\ GateOK /\ HistOK /\ PurgeOK

(* All the parts together are an inductive invariant. *)
LEMMA TypedInductive ==
  /\ Init => Typed
  /\ Typed /\ [Next]_vars => Typed'
<1>1. ASSUME Init PROVE Typed
  <2>1. RunOK /\ FileOK /\ LifeOK /\ HistOK
    BY <1>1, AsyncAssumption DEF Init, RunOK, FileOK, LifeOK, HistOK, AsyncState, SearchState,
       ProjState, Stage
  <2>2. task \in Rows
    BY <1>1 DEF Init, Rows, Q!Row, Q!NoRow, Q!Status, Q!Lease
  <2>3. WorkerOK
    BY <1>1 DEF Init, WorkerOK, Worker, IdleWorker, Busy, FreePc, OwnedPc
  <2>4. GateOK
    BY <1>1 DEF Init, GateOK, Gate, FreeGate, GatePc, AsyncState, Q!Status
  <2>5. PurgeOK
    BY <1>1 DEF Init, PurgeOK, Phase, FreeGate, Purging
  <2> QED BY <2>1, <2>2, <2>3, <2>4, <2>5 DEF Typed
<1>2. ASSUME Typed, [Next]_vars PROVE Typed'
  BY <1>2, RunStep, FileStep, RowStep, LifeStep, WorkerStep, GateStep, HistStep, PurgeStep
     DEF Typed
<1> QED BY <1>1, <1>2

(* The whole state stays well formed: the columns of both databases, the    *)
(* worker, the gate holder, the start-up stages and the purge phases.       *)
THEOREM TypeCorrect == Spec => []TypeOK
<1>1. Typed => TypeOK
  BY DEF Typed, RunOK, FileOK, Rows, LifeOK, WorkerOK, GateOK, HistOK, PurgeOK, TypeOK
<1> QED BY <1>1, TypedInductive, PTL DEF Spec

-----------------------------------------------------------------------------
(* What entitles a step to let the audio go. *)
Safe(s) == receipt[s] # "none" \/ Tombstoned(s) \/ async[s] = "erased"

(* The worker finalizes only a success, and a success has its receipt... *)
WorkerBacked ==
    /\ w.pc = "finalize" => w.res = "ok"
    /\ w.pc \in FreePc => w.res # "ok"
    /\ w.res = "ok" => \A s \in Sessions : w.s = s => Safe(s)

(* ... and recovery destroys audio only after it has read the receipt. *)
GateBacked == g.pc = "privacy" => Safe(g.s)

(* Whatever entitles it stays: a receipt is dropped only with its run, and a *)
(* tombstone only after its run.                                             *)
LEMMA SafeStays ==
  ASSUME Typed, GoneRuns, [Next]_vars, NEW s \in Sessions, Safe(s)
  PROVE  Safe(s)'
<1> USE DEF Typed
<1>0. ASSUME UNCHANGED <<receipt, purge, async>> PROVE Safe(s)'
  BY <1>0 DEF Safe, Tombstoned
<1>a. ASSUME UNCHANGED <<receipt, purge>>, Kept PROVE Safe(s)'
  BY <1>a DEF Safe, Tombstoned, Kept
<1>1. CASE WQuarantineRun
  BY <1>0, <1>a, <1>1, MarksKeep DEF WQuarantineRun, mark_async_task_terminal, runVars
<1>2. CASE WVerify
  BY <1>0, <1>a, <1>2, MarksKeep DEF WVerify, mark_async_task_terminal, runVars
<1>3. CASE WCloseFailed
  BY <1>0, <1>a, <1>3, MarksKeep DEF WCloseFailed, mark_async_task_terminal, runVars
<1>4. CASE WClose
  BY <1>0, <1>a, <1>4, MarksKeep DEF WClose, mark_async_task_terminal, runVars
<1>5. CASE WCloseReceipt
  BY <1>0, <1>a, <1>5, MarksKeep DEF WCloseReceipt, mark_async_task_terminal, runVars
<1>6. CASE GMark
  BY <1>0, <1>a, <1>6, MarksKeep DEF GMark, mark_async_task_terminal, runVars
<1>7. CASE GTaskLost
  BY <1>0, <1>a, <1>7, MarksKeep DEF GTaskLost, mark_async_task_terminal, runVars
<1>8. CASE GPromote
  BY <1>0, <1>a, <1>8, MarksKeep DEF GPromote, mark_async_task_terminal, runVars
<1>9. CASE GDecide
  BY <1>0, <1>a, <1>9, MarksKeep DEF GDecide, mark_async_task_terminal, runVars
<1>10. CASE GCloseRun
  BY <1>0, <1>a, <1>10, MarksKeep DEF GCloseRun, mark_async_task_terminal, runVars
<1>11. CASE WProviderOk
  BY <1>0, <1>11 DEF WProviderOk, commit_async_provider_success, RunOK, Safe, Tombstoned, runVars
<1>12. CASE GReserve
  BY <1>12 DEF GReserve, Holding, GoneRuns, RunOK, Safe, Tombstoned
<1>13. CASE GWait
  BY <1>13 DEF GWait, PurgeOK, Safe, Tombstoned, runVars
<1>14. CASE GPhase
  <2>1. CASE purge[g.s] = "external_artifacts_removed"
    BY <1>14, <2>1 DEF GPhase, purge_session_artifacts, RunOK, Safe, Tombstoned
  <2>2. CASE purge[g.s] # "external_artifacts_removed"
    BY <1>0, <1>14, <2>2 DEF GPhase, runVars
  <2> QED BY <2>1, <2>2
<1>15. CASE GRecord
  <2>1. g.s \in Sessions /\ g'.pc \in Purging /\ g'.s = g.s
    BY <1>15 DEF GRecord, Holding, GGoto, GateOK, Gate, Purging
  <2>2. Tombstoned(g.s)'
    BY <2>1, PurgeStep DEF PurgeOK, Tombstoned
  <2> QED BY <1>15, <2>1, <2>2 DEF GRecord, PurgeOK, Safe, Tombstoned, runVars
<1>16. CASE GFinish
  BY <1>16 DEF GFinish, Holding, GoneRuns, PurgeOK, Safe, Tombstoned, runVars
<1>17. ASSUME NEW x \in Sessions, GRequest(x) PROVE Safe(s)'
  BY <1>17 DEF GRequest, RunOK, Safe, Tombstoned
<1>18. ASSUME NEW x \in Sessions, GPurge(x) PROVE Safe(s)'
  BY <1>18 DEF GPurge, PurgeOK, Safe, Tombstoned, runVars
<1>19. ASSUME NEW x \in Sessions, CorruptReceipt(x) PROVE Safe(s)'
  BY <1>19 DEF CorruptReceipt, RunOK, Safe, Tombstoned
<1>20. CASE \/ WSweep \/ WScan \/ WQuarantineTask \/ WQuarantined \/ WReceipt
            \/ WReceiptsDone \/ WClaimNext \/ WCredential \/ WRegister \/ WGateStop
            \/ WGatePass \/ WReject \/ WDispatch \/ WProviderError \/ WIndex \/ WJoin
            \/ WFinalize \/ WComplete \/ WProject \/ WLoro \/ WSettle \/ WFailure
            \/ WReconcile \/ WReindex \/ WFault \/ WHeartbeat
  BY <1>0, <1>20 DEF WSweep, WScan, WQuarantineTask, WQuarantined, WReceipt,
     WReceiptsDone, WClaimNext, WCredential, WRegister, WGateStop, WGatePass, WReject,
     WDispatch, WProviderError, WIndex, WJoin, WFinalize, WComplete, WProject, WLoro,
     WSettle, WFailure, WReconcile, WReindex, WFault, WHeartbeat, runVars, project_search,
     begin_projection, settle_projection
<1>21. CASE \/ GEnqueue \/ GReceipt \/ GTaskFound \/ GTaskRebuild \/ GIndex \/ GPrivacy
            \/ GCloseTask \/ GProject \/ GLoro \/ GSettle \/ GStop \/ GWaitTimeout
            \/ GFault \/ GPhaseFault \/ Restart \/ SNextStage \/ Crash \/ LoseTasksDb
            \/ ToggleKey
  BY <1>0, <1>21 DEF GEnqueue, GReceipt, GTaskFound, GTaskRebuild, GIndex, GPrivacy,
     GCloseTask, GProject, GLoro, GSettle, GStop, GWaitTimeout, GFault, GPhaseFault, Restart,
     SNextStage, Crash, LoseTasksDb, ToggleKey, runVars, project_search, begin_projection,
     settle_projection
<1>22. ASSUME NEW x \in Sessions,
             \/ GRetryProjection(x) \/ SPurge(x) \/ SSearch(x) \/ STask(x)
             \/ SProjection(x) \/ ExpireLease(x)
      PROVE  Safe(s)'
  BY <1>0, <1>22 DEF GRetryProjection, SPurge, SSearch, STask, SProjection, ExpireLease,
     runVars, project_search, begin_projection, settle_projection
<1>23. CASE UNCHANGED vars
  BY <1>0, <1>23 DEF vars, runVars
<1> QED
  BY <1>1, <1>2, <1>3, <1>4, <1>5, <1>6, <1>7, <1>8, <1>9, <1>10, <1>11, <1>12, <1>13,
     <1>14, <1>15, <1>16, <1>17, <1>18, <1>19, <1>20, <1>21, <1>22, <1>23 DEF Next,
     Worker_Next, User, Gate_Step, Startup_Step, Environment

(* The ways the worker moves carry its entitlement along. *)
LEMMA WorkerCarries ==
  ASSUME WorkerOK, WorkerBacked, \A s \in Sessions : Safe(s) => Safe(s)'
  PROVE  /\ UNCHANGED w => WorkerBacked'
         /\ GoIdle => WorkerBacked'
         /\ \A pc \in OwnedPc \ {"finalize"} : Goto(pc) => WorkerBacked'
         /\ \A pc \in FreePc : w.pc \in FreePc /\ Goto(pc) => WorkerBacked'
         /\ w'.res # "ok" /\ w'.pc # "finalize" => WorkerBacked'
<1> USE DEF WorkerBacked
<1>1. UNCHANGED w => WorkerBacked'
  OBVIOUS
<1>2. w'.res # "ok" /\ w'.pc # "finalize" => WorkerBacked'
  OBVIOUS
<1>3. GoIdle => WorkerBacked'
  BY <1>2 DEF GoIdle, IdleWorker
<1>4. ASSUME NEW pc \in OwnedPc \ {"finalize"}, Goto(pc) PROVE WorkerBacked'
  <2>1. w'.pc = pc /\ w'.s = w.s /\ w'.res = w.res /\ pc \notin FreePc
    BY <1>4 DEF Goto, WorkerOK, Worker, OwnedPc, FreePc
  <2> QED BY <1>4, <2>1
<1>5. ASSUME NEW pc \in FreePc, w.pc \in FreePc, Goto(pc) PROVE WorkerBacked'
  <2>1. w'.pc = pc /\ w'.s = w.s /\ w'.res = w.res /\ pc # "finalize"
    BY <1>5 DEF Goto, WorkerOK, Worker, FreePc
  <2> QED BY <1>5, <2>1
<1> QED BY <1>1, <1>2, <1>3, <1>4, <1>5

(* The worker's entitlement, step by step. *)
LEMMA WorkerBackedStep ==
  ASSUME Typed, GoneRuns, WorkerBacked, [Next]_vars
  PROVE  WorkerBacked'
<1>0. \A s \in Sessions : Safe(s) => Safe(s)'
  BY SafeStays
<1>a. WorkerOK /\ w \in Worker
  BY DEF Typed, WorkerOK
<1> USE <1>0, <1>a, WorkerCarries DEF FreePc, OwnedPc
<1>1. CASE WSweep
  BY <1>1 DEF WSweep, At
<1>2. CASE WScan
  <2>1. w'.res = w.res /\ w'.pc # "finalize"
    BY <1>2 DEF WScan, Worker
  <2>2. w.res # "ok"
    BY <1>2 DEF WScan, At, WorkerBacked
  <2> QED BY <2>1, <2>2
<1>3. CASE WQuarantineTask
  <2>1. w'.res = w.res /\ w'.pc # "finalize"
    BY <1>3 DEF WQuarantineTask, Worker
  <2>2. w.res # "ok"
    BY <1>3 DEF WQuarantineTask, At, WorkerBacked
  <2> QED BY <2>1, <2>2
<1>4. CASE WQuarantineRun
  <2>1. w'.res = w.res /\ w'.pc # "finalize"
    BY <1>4 DEF WQuarantineRun, Worker
  <2>2. w.res # "ok"
    BY <1>4 DEF WQuarantineRun, At, WorkerBacked
  <2> QED BY <2>1, <2>2
<1>5. CASE WQuarantined
  BY <1>5 DEF WQuarantined, At
<1>6. CASE WReceipt
  <2>1. w'.res \in {"none", w.res} /\ w'.pc # "finalize"
    BY <1>6 DEF WReceipt, At, Worker, IdleWorker
  <2>2. w.res # "ok"
    BY <1>6 DEF WReceipt, At, WorkerBacked
  <2> QED BY <2>1, <2>2
<1>7. CASE WReceiptsDone
  BY <1>7 DEF WReceiptsDone, At
<1>8. CASE WClaimNext
  BY <1>8 DEF WClaimNext, IdleWorker
<1>9. CASE WCredential
  BY <1>9 DEF WCredential, At
<1>10. CASE WRegister
  BY <1>10 DEF WRegister, At
<1>11. CASE WGateStop
  BY <1>11 DEF WGateStop
<1>12. CASE WGatePass
  <2>1. CASE w.pc = "gate3" /\ w.res = "ok"
    <3>1. Goto("finalize")
      BY <1>12, <2>1 DEF WGatePass, AfterGate
    <3>2. w'.pc = "finalize" /\ w'.s = w.s /\ w'.res = w.res
      BY <3>1 DEF Goto, Worker
    <3> QED BY <2>1, <3>2 DEF WorkerBacked
  <2>2. CASE ~(w.pc = "gate3" /\ w.res = "ok")
    <3>1. \A pc \in DOMAIN AfterGate \ {"gate3", "gate_done"} :
            AfterGate[pc] \in OwnedPc \ {"finalize"}
      BY DEF AfterGate
    <3>2. GoIdle \/ \E pc \in OwnedPc \ {"finalize"} : Goto(pc)
      BY <1>12, <2>2, <3>1 DEF WGatePass
    <3> QED BY <3>2
  <2> QED BY <2>1, <2>2
<1>13. CASE WVerify
  BY <1>13 DEF WVerify, At
<1>14. CASE WReject
  BY <1>14 DEF WReject, At
<1>15. CASE WCloseFailed
  BY <1>15 DEF WCloseFailed, At
<1>16. CASE WDispatch
  <2>1. CASE receipt[w.s] = "valid"
    <3>1. w'.pc = "index" /\ w'.res = "ok" /\ w'.s = w.s
      <4>1. w' = [w EXCEPT !.pc = "index", !.res = "ok"]
        BY <1>16, <2>1 DEF WDispatch
      <4> QED BY <4>1 DEF Worker
    <3>2. \A s \in Sessions : w.s = s => Safe(s)
      BY <2>1 DEF Safe
    <3> QED BY <3>1, <3>2 DEF WorkerBacked
  <2>2. CASE receipt[w.s] # "valid"
    <3>1. Goto("provider") \/ (w'.pc = "joined" /\ w'.res # "ok")
      BY <1>16, <2>2 DEF WDispatch, Worker
    <3> QED BY <3>1
  <2> QED BY <2>1, <2>2
<1>17. CASE WProviderOk
  <2>1. CASE w.s \notin blocked /\ MayCommitReceipt(w.s)
    <3>1. w'.pc = "index" /\ w'.res = "ok" /\ w'.s = w.s
      BY <1>17, <2>1 DEF WProviderOk, Worker
    <3>2. \A s \in Sessions : w.s = s => Safe(s)'
      BY <1>17, <2>1 DEF WProviderOk, commit_async_provider_success, Safe, Typed, RunOK
    <3> QED BY <3>1, <3>2 DEF WorkerBacked
  <2>2. CASE ~(w.s \notin blocked /\ MayCommitReceipt(w.s))
    <3>1. w'.pc = "joined" /\ w'.res = "error"
      BY <1>17, <2>2 DEF WProviderOk, Worker
    <3> QED BY <3>1
  <2> QED BY <2>1, <2>2
<1>18. CASE WProviderError
  <2>1. w'.pc = "joined" /\ w'.res = "error"
    BY <1>18 DEF WProviderError, Worker
  <2> QED BY <2>1
<1>19. CASE WIndex
  BY <1>19 DEF WIndex, At
<1>20. CASE WJoin
  BY <1>20 DEF WJoin, At
<1>21. CASE WFinalize
  BY <1>21 DEF WFinalize, At
<1>22. CASE WComplete
  BY <1>22 DEF WComplete, At
<1>23. CASE WClose
  BY <1>23 DEF WClose, At
<1>24. CASE WProject
  BY <1>24 DEF WProject, At, begin_projection, GoDone
<1>25. CASE WLoro
  BY <1>25 DEF WLoro, At, write_document
<1>26. CASE WSettle
  BY <1>26 DEF WSettle, At, settle_projection, GoDone
<1>27. CASE WFailure
  BY <1>27 DEF WFailure, At
<1>28. CASE WReconcile
  BY <1>28 DEF WReconcile, At
<1>29. CASE WCloseReceipt
  BY <1>29 DEF WCloseReceipt, At
<1>30. CASE WReindex
  BY <1>30 DEF WReindex, At
<1>31. CASE WHeartbeat \/ User \/ Gate_Step \/ UNCHANGED vars
  BY <1>31 DEF WHeartbeat, User, Gate_Step, vars, GReserve, GEnqueue, GMark, GReceipt,
     GTaskFound, GTaskRebuild, GTaskLost, GPromote, GDecide, GIndex, GPrivacy, GCloseTask,
     GCloseRun, GProject, GLoro, GSettle, GStop, GWait, GWaitTimeout, GPhase, GFault, GPhaseFault,
     GRecord, GFinish, GRequest, GRetryProjection, GPurge
<1>32. CASE SNextStage \/ Crash
  BY <1>32 DEF SNextStage, Crash, GoIdle, IdleWorker
<1>33. CASE Restart \/ LoseTasksDb \/ ToggleKey
  BY <1>33 DEF Restart, LoseTasksDb, ToggleKey
<1>34. ASSUME NEW s \in Sessions,
             \/ SPurge(s) \/ SSearch(s) \/ STask(s) \/ SProjection(s) \/ ExpireLease(s)
             \/ CorruptReceipt(s)
      PROVE  WorkerBacked'
  BY <1>34 DEF SPurge, SSearch, STask, SProjection, ExpireLease, CorruptReceipt
<1>35. CASE WFault
  BY <1>35 DEF WFault
<1> QED
  BY <1>35, <1>1, <1>2, <1>3, <1>4, <1>5, <1>6, <1>7, <1>8, <1>9, <1>10, <1>11, <1>12, <1>13,
     <1>14, <1>15, <1>16, <1>17, <1>18, <1>19, <1>20, <1>21, <1>22, <1>23, <1>24, <1>25,
     <1>26, <1>27, <1>28, <1>29, <1>30, <1>31, <1>32, <1>33, <1>34 DEF Next, Worker_Next,
     Startup_Step, Environment

(* The gate holder's entitlement, step by step. *)
LEMMA GateBackedStep ==
  ASSUME Typed, GoneRuns, GateBacked, [Next]_vars
  PROVE  GateBacked'
<1>0. ASSUME UNCHANGED g PROVE GateBacked'
  BY <1>0, SafeStays DEF GateBacked, Typed, GateOK
<1>a. Release => GateBacked'
  BY DEF Release, FreeGate, GateBacked
<1>b. \A pc \in GatePc \ {"privacy"} : GGoto(pc) => GateBacked'
  BY DEF GGoto, GateBacked, Typed, GateOK, Gate
<1> USE DEF GatePc
<1>1. CASE GReserve
  BY <1>a, <1>b, <1>1 DEF GReserve
<1>2. CASE GEnqueue
  BY <1>a, <1>b, <1>2 DEF GEnqueue, Abort
<1>3. CASE GMark
  BY <1>a, <1>b, <1>3 DEF GMark, Abort
<1>4. CASE GReceipt
  <2>1. Release \/ g'.pc = "task"
    BY <1>4 DEF GReceipt, Abort, Typed, GateOK, Gate
  <2> QED BY <1>a, <2>1 DEF GateBacked
<1>5. CASE GTaskFound
  <2>1. Release \/ g'.pc = "promote"
    BY <1>5 DEF GTaskFound, Abort, Typed, GateOK, Gate
  <2> QED BY <1>a, <2>1 DEF GateBacked
<1>6. CASE GTaskRebuild
  <2>1. Release \/ g'.pc = "promote"
    BY <1>6 DEF GTaskRebuild, Abort, Typed, GateOK, Gate
  <2> QED BY <1>a, <2>1 DEF GateBacked
<1>7. CASE GTaskLost
  BY <1>a, <1>b, <1>7 DEF GTaskLost, Abort
<1>8. CASE GPromote
  BY <1>a, <1>b, <1>8 DEF GPromote, Abort
<1>9. CASE GDecide
  BY <1>a, <1>b, <1>9 DEF GDecide, Abort
<1>10. CASE GIndex
  <2>1. CASE receipt[g.s] = "valid"
    <3>1. g'.s = g.s /\ g.s \in Sessions
      BY <1>10, <2>1 DEF GIndex, Holding, GGoto, Typed, GateOK, Gate
    <3> QED BY <2>1, <3>1, SafeStays DEF GateBacked, Safe
  <2>2. CASE receipt[g.s] # "valid"
    BY <1>a, <1>10, <2>2 DEF GIndex
  <2> QED BY <2>1, <2>2
<1>11. CASE GPrivacy
  BY <1>a, <1>b, <1>11 DEF GPrivacy
<1>12. CASE GCloseTask
  BY <1>a, <1>b, <1>12 DEF GCloseTask
<1>13. CASE GCloseRun
  BY <1>a, <1>b, <1>13 DEF GCloseRun
<1>14. CASE GProject
  BY <1>a, <1>b, <1>14 DEF GProject, begin_projection
<1>15. CASE GLoro
  BY <1>a, <1>b, <1>15 DEF GLoro, write_document
<1>16. CASE GSettle
  BY <1>a, <1>b, <1>16 DEF GSettle, settle_projection
<1>17. CASE GStop
  BY <1>a, <1>b, <1>17 DEF GStop
<1>18. CASE GWait
  BY <1>a, <1>b, <1>18 DEF GWait
<1>19. CASE GWaitTimeout
  BY <1>a, <1>b, <1>19 DEF GWaitTimeout
<1>20. CASE GPhase
  BY <1>a, <1>b, <1>20 DEF GPhase
<1>21. CASE GPhaseFault
  BY <1>a, <1>b, <1>21 DEF GPhaseFault
<1>22. CASE GRecord
  BY <1>a, <1>b, <1>22 DEF GRecord
<1>23. CASE GFinish
  BY <1>a, <1>b, <1>23 DEF GFinish
<1>24. ASSUME NEW s \in Sessions, GRequest(s) \/ STask(s) PROVE GateBacked'
  BY <1>0, <1>24, EnsureGoes DEF GRequest, STask, GateBacked
<1>25. ASSUME NEW s \in Sessions,
             GRetryProjection(s) \/ GPurge(s) \/ SPurge(s) \/ SProjection(s)
      PROVE  GateBacked'
  BY <1>0, <1>25 DEF GRetryProjection, GPurge, SPurge, SProjection, FreeGate, GateBacked
<1>26. CASE Crash
  BY <1>a, <1>26 DEF Crash, Release
<1>27. CASE WHeartbeat \/ Worker_Next
  BY <1>0, <1>27 DEF Worker_Next, WSweep, WScan, WQuarantineTask, WQuarantineRun,
     WQuarantined, WReceipt, WReceiptsDone, WClaimNext, WCredential, WRegister, WGateStop,
     WGatePass, WVerify, WReject, WCloseFailed, WDispatch, WProviderOk, WProviderError,
     WIndex, WJoin, WFinalize, WComplete, WClose, WProject, WLoro, WSettle, WFailure,
     WReconcile, WCloseReceipt, WReindex, WFault, WHeartbeat
<1>28. CASE Restart \/ SNextStage \/ LoseTasksDb \/ ToggleKey \/ UNCHANGED vars
  BY <1>0, <1>28 DEF Restart, SNextStage, LoseTasksDb, ToggleKey, vars
<1>29. ASSUME NEW s \in Sessions, SSearch(s) \/ ExpireLease(s) \/ CorruptReceipt(s)
      PROVE  GateBacked'
  BY <1>0, <1>29 DEF SSearch, ExpireLease, CorruptReceipt
<1>30. CASE GFault
  BY <1>a, <1>30 DEF GFault, Abort
<1> QED
  BY <1>30, <1>1, <1>2, <1>3, <1>4, <1>5, <1>6, <1>7, <1>8, <1>9, <1>10, <1>11, <1>12, <1>13,
     <1>14, <1>15, <1>16, <1>17, <1>18, <1>19, <1>20, <1>21, <1>22, <1>23, <1>24, <1>25,
     <1>26, <1>27, <1>28, <1>29 DEF Next, User, Gate_Step, Startup_Step, Environment


(* Only three steps let audio go, and each of them is entitled to. *)
LEMMA LossStep ==
  ASSUME Typed, GoneRuns, WorkerBacked, GateBacked, NothingLost, [Next]_vars
  PROVE  NothingLost'
<1>0. \A s \in Sessions : Safe(s) => Safe(s)'
  BY SafeStays
<1>1. SUFFICES ASSUME NEW s \in Sessions, ~audio'[s] PROVE Safe(s)'
  BY DEF NothingLost, Safe
<1>2. CASE ~audio[s]
  BY <1>0, <1>2 DEF NothingLost, Safe
<1>3. ASSUME audio[s], ~Safe(s) PROVE FALSE
  <2>1. CASE WFinalize
    <3>1. w.s = s => Safe(s)
      BY <2>1 DEF WFinalize, At, WorkerBacked
    <3> QED BY <1>1, <1>3, <2>1, <3>1 DEF WFinalize, destroyed, Typed, FileOK
  <2>2. CASE GPrivacy
    <3>1. g.s = s => Safe(s)
      BY <2>2 DEF GPrivacy, Holding, GateBacked
    <3> QED BY <1>1, <1>3, <2>2, <3>1 DEF GPrivacy, destroyed, Typed, FileOK
  <2>3. CASE GPhase
    <3>1. g.s = s => Safe(s)
      BY <2>3 DEF GPhase, Holding, Typed, PurgeOK, Purging, Safe
    <3> QED BY <1>1, <1>3, <2>3, <3>1 DEF GPhase, Typed, FileOK
  <2>4. audio' # audio
    BY <1>1, <1>3
  <2>5. ~(WSweep \/ WScan \/ WQuarantineTask \/ WQuarantineRun \/ WQuarantined
        \/ WReceipt \/ WReceiptsDone \/ WClaimNext \/ WCredential \/ WRegister
        \/ WGateStop \/ WGatePass \/ WVerify \/ WReject \/ WCloseFailed \/ WDispatch
        \/ WProviderOk \/ WProviderError \/ WIndex \/ WJoin \/ WComplete \/ WClose
        \/ WProject \/ WLoro \/ WSettle \/ WFailure \/ WReconcile \/ WCloseReceipt
        \/ WReindex \/ WFault \/ WHeartbeat)
    BY <2>4 DEF fileVars, WSweep, WScan, WQuarantineTask, WQuarantineRun, WQuarantined,
       WReceipt, WReceiptsDone, WClaimNext, WCredential, WRegister, WGateStop, WGatePass,
       WVerify, WReject, WCloseFailed, WDispatch, WProviderOk, WProviderError, WIndex,
       WJoin, WComplete, WClose, WProject, WLoro, WSettle, WFailure, WReconcile,
       WCloseReceipt, WReindex, WFault, WHeartbeat
  <2>6. ~(GReserve \/ GEnqueue \/ GMark \/ GReceipt \/ GTaskFound \/ GTaskRebuild
        \/ GTaskLost \/ GPromote \/ GDecide \/ GIndex \/ GCloseTask \/ GCloseRun
        \/ GProject \/ GLoro \/ GSettle \/ GStop \/ GWait \/ GWaitTimeout
        \/ GFault \/ GPhaseFault \/ GRecord \/ GFinish \/ Restart \/ SNextStage \/ Crash
        \/ LoseTasksDb \/ ToggleKey)
    BY <2>4 DEF fileVars, GReserve, GEnqueue, GMark, GReceipt, GTaskFound, GTaskRebuild,
       GTaskLost, GPromote, GDecide, GIndex, GCloseTask, GCloseRun, GProject, GLoro,
       GSettle, GStop, GWait, GWaitTimeout, GFault, GPhaseFault, GRecord, GFinish, Restart,
       SNextStage, Crash, LoseTasksDb, ToggleKey
  <2>7. ASSUME NEW x \in Sessions,
               \/ GRequest(x) \/ GRetryProjection(x) \/ GPurge(x) \/ SPurge(x)
               \/ SSearch(x) \/ STask(x) \/ SProjection(x) \/ ExpireLease(x)
               \/ CorruptReceipt(x)
        PROVE  FALSE
    BY <2>4, <2>7 DEF fileVars, GRequest, GRetryProjection, GPurge, SPurge, SSearch,
       STask, SProjection, ExpireLease, CorruptReceipt
  <2>8. ~UNCHANGED vars
    BY <2>4 DEF vars, fileVars
  <2> QED
    BY <2>1, <2>2, <2>3, <2>5, <2>6, <2>7, <2>8
       DEF Next, Worker_Next, User, Gate_Step, Startup_Step, Environment
<1> QED BY <1>0, <1>2, <1>3, <1>1 DEF Typed, FileOK

(* enforce_privacy_after_task destroys a recording only when its transcript *)
(* is durable or its owner is deleting it, for any number of sessions,      *)
(* crashes and faults: the inductive invariant is Typed, GoneRuns,          *)
(* WorkerBacked, GateBacked and NothingLost together.                       *)
THEOREM RecordingKept == Spec => []NothingLost
<1> DEFINE Inv == Typed /\ GoneRuns /\ WorkerBacked /\ GateBacked /\ NothingLost
<1>1. Init => Inv
  <2> SUFFICES ASSUME Init PROVE Inv
    OBVIOUS
  <2>1. Typed
    BY TypedInductive
  <2>2. GoneRuns /\ GateBacked /\ NothingLost
    BY DEF Init, GoneRuns, GateBacked, NothingLost, FreeGate
  <2>3. WorkerBacked
    BY DEF Init, WorkerBacked, IdleWorker, FreePc
  <2> QED BY <2>1, <2>2, <2>3
<1>2. Inv /\ [Next]_vars => Inv'
  <2> SUFFICES ASSUME Inv, [Next]_vars PROVE Inv'
    OBVIOUS
  <2>1. Typed'
    BY TypedInductive
  <2>2. GoneRuns'
    BY GoneStep DEF Typed
  <2>3. WorkerBacked'
    BY WorkerBackedStep
  <2>4. GateBacked'
    BY GateBackedStep
  <2>5. NothingLost'
    BY LossStep
  <2> QED BY <2>1, <2>2, <2>3, <2>4, <2>5
<1> QED BY <1>1, <1>2, PTL DEF Spec

-----------------------------------------------------------------------------
(* What the worker, the gate holder, start-up and Delete Forever may rely on  *)
(* between two commits: a value read earlier is used later only where nothing *)
(* that ran in between can have made it wrong.  WInv collects these facts     *)
(* position by position (what the worker's and the gate holder's next step    *)
(* presupposes of the run, the receipt, the row and the purge phase); it is   *)
(* inductive, and one projector, accounted uploads, wanted uploads and an     *)
(* erasure that holds follow from it.                                         *)

(* Being deleted, or deleted.                                                *)
Gone(s) == Tombstoned(s) \/ async[s] = "erased"

Ended(s) == task[s].status \in {"completed", "failed"}

Works(pcs, s) == w.s = s /\ w.pc \in pcs
Gates(pcs, s) == g.s = s /\ g.pc \in pcs

HasNoResult(s) == ~Safe(s)

(* Outside a running process the worker is at rest, and only deleted sessions *)
(* are blocked.                                                               *)
Quiet ==
    /\ proc # "running" => w = IdleWorker
    /\ \A s \in blocked : Gone(s)

(* What the gate holder has read stays true while it holds the gate.          *)
EnsurePc == {"reserve", "enqueue", "mark", "receipt", "task", "promote", "decide", "index",
             "privacy", "close_task", "close_run"}
ProjectPc == {"loro", "settle", "unsettle"}

GateReads(s) ==
    /\ Gates(EnsurePc \cup ProjectPc, s) => ~Gone(s)
    /\ Gates({"project"}, s) => ~Tombstoned(s)
    /\ Gates({"task", "promote", "decide"}, s) /\ g.rcpt => receipt[s] # "none"
    /\ Gates({"index", "privacy", "close_task", "close_run"}, s) => receipt[s] # "none"
    /\ Gates({"promote", "decide"}, s) /\ g.status \in {"completed", "failed"} => Ended(s)

(* The row of a session without a result is held by the worker that claimed   *)
(* it, and carries the one attempt that was authorized.                       *)
HolderPc == {"credential", "register", "gate1", "verify", "reject", "gate2", "dispatch",
             "provider", "index", "joined", "gate3", "failure"}

RowHeld(s) ==
    HasNoResult(s) =>
        /\ Works(HolderPc, s) => Q!Is(s, "running")
        /\ Q!Present(s) => task[s].max = 1
        /\ Works({"index"}, s) => FALSE
        /\ Works({"joined", "gate3", "failure"}, s) => w.res \in {"local", "error"}

Spent(s) ==
    \/ ~HasNoResult(s)
    \/ Ended(s)
    \/ Works({"provider", "joined", "gate3", "failure"}, s)

Accounted(s) ==
    \/ attempts[s] <= crashes + faults
    \/ attempts[s] <= 1 + crashes + faults /\ Spent(s)

Wanted(s) ==
    faults = 0 /\ HasNoResult(s) /\ Works({"gate2", "dispatch"}, s) => async[s] = "enqueued"

(* Only a completed run has a projection... *)
Projectable(s) == proj[s] # "none" => async[s] = "completed"

(* ... whose state is the lock. *)
Locked(s) ==
    /\ Gates(ProjectPc, s) => proj[s] = "projecting" /\ ~Works(ProjectPc, s)
    /\ Works(ProjectPc, s) /\ ~Gone(s) => proj[s] = "projecting"
    /\ proc # "down" /\ ~Gone(s) /\ proj[s] = "projecting" =>
          Works(ProjectPc, s) \/ Gates(ProjectPc, s) \/ faults > 0

(* Delete Forever *)
HandlersStopped == {"task_handlers_stopped", "loro_removed", "tasks_removed", "external_artifacts_removed", "main_database_removed", "purge_receipts_removed"}
LoroRemoved == HandlersStopped \ {"task_handlers_stopped"}
TasksRemoved == LoroRemoved \ {"loro_removed"}
ArtifactsRemoved == TasksRemoved \ {"tasks_removed"}

Past(phases, s) == purge[s] \in phases \/ Erased(s)

(* the effect is durable before its phase *)
Doing(phase, s) == Gates({"record"}, s) /\ purge[s] = phase

Removed(s) ==
    /\ Gates({"wait", "phase", "record"}, s) => s \in blocked
    /\ Gates({"phase", "record"}, s) => ~Registered(s)
    /\ Gates({"phase", "record"}, s) => purge[s] # "prepared"
    /\ Past(HandlersStopped, s) /\ Registered(s) => w.pc \in {"gate1", "gate_close"}
    /\ Past(LoroRemoved, s) \/ Doing("task_handlers_stopped", s) => ~doc[s]
    /\ Past(TasksRemoved, s) \/ Doing("loro_removed", s) =>
         /\ ~Q!Present(s) /\ ~Registered(s)
         /\ Works({"credential", "register", "reconcile"}, s) => s \in blocked
    /\ Past(ArtifactsRemoved, s) \/ Doing("tasks_removed", s) => ~audio[s]
    /\ async[s] = "erased" => receipt[s] = "none"

WInv ==
    /\ Typed /\ GoneRuns /\ Quiet
    /\ \A s \in Sessions :
         /\ GateReads(s) /\ RowHeld(s) /\ Wanted(s) /\ Accounted(s)
         /\ Projectable(s) /\ Locked(s) /\ Removed(s)

(* A session that is being deleted is deleted in the end, and only the user's
   call starts it. *)
LEMMA GoneMoves ==
  ASSUME Typed, GoneRuns, [Next]_vars, NEW s \in Sessions
  PROVE  /\ (Gone(s) => Gone(s)')
         /\ (Gone(s)' /\ ~Gone(s) => g'.pc = "stop" /\ g'.s = s)
<1> DEFINE Goal == (Gone(s) => Gone(s)') /\ (Gone(s)' /\ ~Gone(s) => g'.pc = "stop" /\ g'.s = s)
<1> SUFFICES Goal
  OBVIOUS
<1> USE DEF Typed
<1>0. UNCHANGED <<async, purge>> => Goal
  BY DEF Gone, Tombstoned
<1>a. (async'[s] = "erased" <=> async[s] = "erased") /\ purge'[s] = purge[s] => Goal
  BY DEF Gone, Tombstoned
<1>1. CASE WQuarantineRun
  BY <1>1, <1>0, <1>a DEF WQuarantineRun, mark_async_task_terminal,
     mark_async_task_enqueued, MayMarkTerminal, MayMarkEnqueued, InFlight, runVars,
     fileVars, lifeVars, histVars, RunOK
<1>2. CASE WVerify
  BY <1>2, <1>0, <1>a DEF WVerify, mark_async_task_terminal, mark_async_task_enqueued,
     MayMarkTerminal, MayMarkEnqueued, InFlight, runVars, fileVars, lifeVars, histVars,
     RunOK
<1>3. CASE WCloseFailed
  BY <1>3, <1>0, <1>a DEF WCloseFailed, mark_async_task_terminal, mark_async_task_enqueued,
     MayMarkTerminal, MayMarkEnqueued, InFlight, runVars, fileVars, lifeVars, histVars,
     RunOK
<1>4. CASE WClose
  BY <1>4, <1>0, <1>a DEF WClose, mark_async_task_terminal, mark_async_task_enqueued,
     MayMarkTerminal, MayMarkEnqueued, InFlight, runVars, fileVars, lifeVars, histVars,
     RunOK
<1>5. CASE WCloseReceipt
  BY <1>5, <1>0, <1>a DEF WCloseReceipt, mark_async_task_terminal, mark_async_task_enqueued,
     MayMarkTerminal, MayMarkEnqueued, InFlight, runVars, fileVars, lifeVars, histVars,
     RunOK
<1>6. CASE GMark
  BY <1>6, <1>0, <1>a DEF GMark, mark_async_task_terminal, mark_async_task_enqueued,
     MayMarkTerminal, MayMarkEnqueued, InFlight, runVars, fileVars, lifeVars, histVars,
     RunOK
<1>7. CASE GTaskLost
  BY <1>7, <1>0, <1>a DEF GTaskLost, mark_async_task_terminal, mark_async_task_enqueued,
     MayMarkTerminal, MayMarkEnqueued, InFlight, runVars, fileVars, lifeVars, histVars,
     RunOK
<1>8. CASE GPromote
  BY <1>8, <1>0, <1>a DEF GPromote, mark_async_task_terminal, mark_async_task_enqueued,
     MayMarkTerminal, MayMarkEnqueued, InFlight, runVars, fileVars, lifeVars, histVars,
     RunOK
<1>9. CASE GDecide
  BY <1>9, <1>0, <1>a DEF GDecide, mark_async_task_terminal, mark_async_task_enqueued,
     MayMarkTerminal, MayMarkEnqueued, InFlight, runVars, fileVars, lifeVars, histVars,
     RunOK
<1>10. CASE GCloseRun
  BY <1>10, <1>0, <1>a DEF GCloseRun, mark_async_task_terminal, mark_async_task_enqueued,
     MayMarkTerminal, MayMarkEnqueued, InFlight, runVars, fileVars, lifeVars, histVars,
     RunOK
<1>11. CASE GReserve
  BY <1>11, <1>a DEF GReserve, Holding, GoneRuns, RunOK
<1>12. CASE GWait
  BY <1>12 DEF GWait, Gone, Tombstoned, PurgeOK, Purging, runVars, fileVars, lifeVars,
     histVars
<1>13. CASE GPhase
  BY <1>13 DEF GPhase, Gone, Tombstoned, PurgeOK, Purging, Holding, purge_session_artifacts,
     RunOK, runVars, fileVars, lifeVars, histVars
<1>14. CASE GRecord
  <2>1. g.s \in Sessions /\ Tombstoned(g.s) /\ g'.pc \in Purging /\ g'.s = g.s
    BY <1>14 DEF GRecord, Holding, GGoto, GateOK, Gate, Purging, PurgeOK
  <2>2. Tombstoned(g.s)'
    BY <2>1, PurgeStep DEF PurgeOK, Tombstoned
  <2> QED BY <1>14, <2>1, <2>2 DEF GRecord, PurgeOK, Gone, Tombstoned, runVars
<1>15. CASE GFinish
  BY <1>15 DEF GFinish, Holding, GoneRuns, PurgeOK, Gone, Tombstoned, Purging, runVars
<1>16. ASSUME NEW x \in Sessions, GRequest(x) PROVE Goal
  BY <1>16, <1>a DEF GRequest, RunOK
<1>17. ASSUME NEW x \in Sessions, GPurge(x) PROVE Goal
  BY <1>17 DEF GPurge, PurgeOK, Gone, Tombstoned, FreeGate, runVars
<1>18. CASE \/ WSweep \/ WScan \/ WQuarantineTask \/ WQuarantined \/ WReceipt \/ WReceiptsDone
           \/ WClaimNext \/ WCredential \/ WRegister \/ WGateStop \/ WGatePass \/ WReject
           \/ WDispatch \/ WProviderOk \/ WProviderError \/ WIndex \/ WJoin \/ WFinalize
           \/ WComplete \/ WProject \/ WLoro \/ WSettle \/ WFailure \/ WReconcile
           \/ WReindex \/ WFault \/ WHeartbeat
  BY <1>18, <1>0 DEF WSweep, WScan, WQuarantineTask, WQuarantined, WReceipt, WReceiptsDone,
     WClaimNext, WCredential, WRegister, WGateStop, WGatePass, WReject, WDispatch,
     WProviderOk, WProviderError, WIndex, WJoin, WFinalize, WComplete, WProject, WLoro,
     WSettle, WFailure, WReconcile, WReindex, WFault, WHeartbeat, runVars, fileVars,
     lifeVars, histVars, project_search, begin_projection, settle_projection,
     write_document, Release, commit_async_provider_success, recover_unfinished_runs
<1>19. CASE \/ GEnqueue \/ GReceipt \/ GTaskFound \/ GTaskRebuild \/ GIndex \/ GPrivacy \/ GCloseTask
           \/ GFault \/ GProject \/ GLoro \/ GSettle \/ GStop \/ GWaitTimeout
           \/ GPhaseFault \/ Restart \/ SNextStage \/ Crash \/ LoseTasksDb \/ ToggleKey
  BY <1>19, <1>0 DEF GEnqueue, GReceipt, GTaskFound, GTaskRebuild, GIndex, GPrivacy,
     GCloseTask, GFault, GProject, GLoro, GSettle, GStop, GWaitTimeout, GPhaseFault,
     Restart, SNextStage, Crash, LoseTasksDb, ToggleKey, runVars, fileVars, lifeVars,
     histVars, project_search, begin_projection, settle_projection, write_document, Release,
     commit_async_provider_success, recover_unfinished_runs
<1>20. ASSUME NEW x \in Sessions,
             \/ GRetryProjection(x) \/ SPurge(x) \/ SSearch(x) \/ STask(x)
             \/ SProjection(x) \/ ExpireLease(x) \/ CorruptReceipt(x)
      PROVE Goal
  BY <1>20, <1>0 DEF GRetryProjection, SPurge, SSearch, STask, SProjection, ExpireLease,
     CorruptReceipt, runVars, fileVars, lifeVars, histVars, project_search,
     begin_projection, settle_projection, write_document, Release,
     commit_async_provider_success, recover_unfinished_runs
<1>21. CASE UNCHANGED vars
  BY <1>21, <1>0 DEF vars, runVars, fileVars, lifeVars, histVars
<1> QED
  BY <1>1, <1>2, <1>3, <1>4, <1>5, <1>6, <1>7, <1>8, <1>9, <1>10, <1>11, <1>12, <1>13,
     <1>14, <1>15, <1>16, <1>17, <1>18, <1>19, <1>20, <1>21 DEF Next, Worker_Next, User,
     Gate_Step, Startup_Step, Environment

(* The worker rests until start-up has ended, and whoever is blocked is being
   deleted. *)
LEMMA QuietStep ==
  ASSUME Typed, GoneRuns, Quiet, [Next]_vars
  PROVE  Quiet'
<1>g. \A s \in Sessions : Gone(s) => Gone(s)'
  BY GoneMoves
<1>b. blocked \subseteq Sessions
  BY DEF Typed, LifeOK
<1>0. UNCHANGED <<w, blocked, proc>> => Quiet'
  BY <1>g, <1>b DEF Quiet
<1>a. proc = "running" /\ UNCHANGED <<blocked, proc>> => Quiet'
  BY <1>g, <1>b DEF Quiet
<1>c. UNCHANGED <<w, blocked>> /\ proc # "running" => Quiet'
  BY <1>g, <1>b DEF Quiet
<1>1. CASE \/ WSweep \/ WScan \/ WQuarantineTask \/ WQuarantineRun \/ WQuarantined \/ WReceipt
           \/ WReceiptsDone \/ WClaimNext \/ WCredential \/ WRegister \/ WGateStop
           \/ WGatePass \/ WVerify \/ WReject \/ WCloseFailed \/ WDispatch \/ WProviderOk
           \/ WProviderError \/ WIndex \/ WJoin \/ WFinalize \/ WComplete \/ WClose
           \/ WProject \/ WLoro \/ WSettle \/ WFailure \/ WReconcile \/ WCloseReceipt
           \/ WReindex \/ WFault \/ WHeartbeat
  BY <1>1, <1>0, <1>a DEF WSweep, WScan, WQuarantineTask, WQuarantineRun, WQuarantined,
     WReceipt, WReceiptsDone, WClaimNext, WCredential, WRegister, WGateStop, WGatePass,
     WVerify, WReject, WCloseFailed, WDispatch, WProviderOk, WProviderError, WIndex, WJoin,
     WFinalize, WComplete, WClose, WProject, WLoro, WSettle, WFailure, WReconcile,
     WCloseReceipt, WReindex, WFault, WHeartbeat, At, lifeVars
<1>2. CASE \/ GEnqueue \/ GMark \/ GTaskRebuild \/ GTaskLost \/ GPromote \/ GDecide \/ GFault
  BY <1>2, <1>0, <1>c DEF GEnqueue, GMark, GTaskRebuild, GTaskLost, GPromote, GDecide,
     GFault, Abort, Starting
<1>3. CASE GStop
  BY <1>3, <1>g, <1>b DEF GStop, Quiet, Holding, PurgeOK, Purging, Gone, Tombstoned, Typed
<1>4. CASE \/ Restart \/ Crash
  BY <1>4 DEF Restart, Crash, Quiet
<1>5. CASE SNextStage
  BY <1>5, <1>g, <1>b DEF SNextStage, Quiet
<1>6. CASE \/ GReserve \/ GReceipt \/ GTaskFound \/ GIndex \/ GPrivacy \/ GCloseTask \/ GCloseRun
           \/ GProject \/ GLoro \/ GSettle \/ GWait \/ GWaitTimeout \/ GPhase
           \/ GPhaseFault \/ GRecord \/ GFinish \/ LoseTasksDb \/ ToggleKey
  BY <1>6, <1>0 DEF GReserve, GReceipt, GTaskFound, GIndex, GPrivacy, GCloseTask, GCloseRun,
     GProject, GLoro, GSettle, GWait, GWaitTimeout, GPhase, GPhaseFault, GRecord, GFinish,
     LoseTasksDb, ToggleKey, lifeVars
<1>7. ASSUME NEW x \in Sessions,
             \/ GRequest(x) \/ GRetryProjection(x) \/ GPurge(x) \/ SPurge(x) \/ SSearch(x)
             \/ STask(x) \/ SProjection(x) \/ ExpireLease(x) \/ CorruptReceipt(x)
      PROVE Quiet'
  BY <1>7, <1>0 DEF GRequest, GRetryProjection, GPurge, SPurge, SSearch, STask, SProjection,
     ExpireLease, CorruptReceipt, lifeVars
<1>8. CASE UNCHANGED vars
  BY <1>8, <1>0 DEF vars, runVars, fileVars, lifeVars, histVars
<1> QED
  BY <1>1, <1>2, <1>3, <1>4, <1>5, <1>6, <1>7, <1>8 DEF Next, Worker_Next, User, Gate_Step,
     Startup_Step, Environment

(* A row that has ended stays ended until Delete Forever takes it or tasks.db
   is lost. *)
LEMMA EndedStays ==
  ASSUME Typed, Quiet, [Next]_vars, NEW s \in Sessions, Ended(s)
  PROVE  Ended(s)' \/ Gone(s) \/ (proc = "down" /\ faults' = faults + 1)
<1> DEFINE Goal == Ended(s)' \/ Gone(s) \/ (proc = "down" /\ faults' = faults + 1)
<1> SUFFICES Goal
  OBVIOUS
<1> USE DEF Ended, Q!Is, Q!Present, Q!Claimable
<1>t. task \in Rows
  BY DEF Typed
<1>0. UNCHANGED task => Goal
  OBVIOUS
<1>m. ASSUME NEW x \in Sessions, NEW status, NEW retry, NEW lease,
             Q!Move(x, status, retry, lease), x # s \/ status = "completed"
      PROVE  Goal
  BY <1>m, <1>t DEF Q!Move, Rows
<1>1. CASE WQuarantineTask
  BY <1>1, <1>0, <1>m DEF WQuarantineTask, Typed, WorkerOK, Worker
<1>2. CASE \/ WReceipt \/ WClaimNext
  BY <1>2, <1>0, <1>m DEF WReceipt, WClaimNext, Q!Claim, Typed, WorkerOK, Worker
<1>3. CASE WCredential
  BY <1>3, <1>0, <1>m DEF WCredential, Q!ReleaseWithoutRetry, Typed, WorkerOK, Busy, At
<1>4. CASE WRegister
  BY <1>4, <1>0 DEF WRegister, Q!PurgeTasks, Quiet, Typed, WorkerOK, Busy, At
<1>5. CASE WGateStop
  BY <1>5, <1>0 DEF WGateStop, Q!PurgeTasks, Gone
<1>6. CASE \/ WReject \/ WComplete \/ WFailure
  BY <1>6, <1>0, <1>m DEF WReject, WComplete, WFailure, Q!FailLocalPreflight, Q!Fail,
     Q!Complete, Typed, WorkerOK, Busy, At, OwnedPc, GateOK, Holding
<1>7. CASE WCloseReceipt
  BY <1>7, <1>0 DEF WCloseReceipt, Q!PurgeTasks, Gone, Typed, WorkerOK, Busy, At, OwnedPc,
     GateOK, Holding
<1>8. CASE WHeartbeat
  BY <1>8, <1>m DEF WHeartbeat, Q!Heartbeat, HandlerPc, Typed, WorkerOK, Busy, At, OwnedPc,
     GateOK, Holding
<1>9. CASE \/ GEnqueue \/ GTaskRebuild
  BY <1>9, <1>0, <1>t DEF GEnqueue, GTaskRebuild, Q!Enqueue, Rows, Typed, WorkerOK, Busy,
     At, OwnedPc, GateOK, Holding
<1>10. CASE GCloseTask
  BY <1>10, <1>0, <1>m DEF GCloseTask, Q!CompleteFromReceipt, Typed, WorkerOK, Busy, At,
     OwnedPc, GateOK, Holding
<1>11. CASE GPhase
  BY <1>11, <1>0 DEF GPhase, Q!PurgeTasks, Gone, PurgeOK, Purging, Typed, WorkerOK, Busy,
     At, OwnedPc, GateOK, Holding
<1>12. CASE Restart
  BY <1>12 DEF Restart, Q!RecoverAbandoned
<1>13. CASE LoseTasksDb
  BY <1>13 DEF LoseTasksDb, Fault
<1>14. ASSUME NEW x \in Sessions, ExpireLease(x) PROVE Goal
  BY <1>14, <1>t DEF ExpireLease, Q!Expire, Rows
<1>15. CASE \/ WSweep \/ WScan \/ WQuarantineRun \/ WQuarantined \/ WReceiptsDone \/ WGatePass
           \/ WVerify \/ WCloseFailed \/ WDispatch \/ WProviderOk \/ WProviderError
           \/ WIndex \/ WJoin \/ WFinalize \/ WClose \/ WProject \/ WLoro \/ WSettle
           \/ WReconcile \/ WReindex \/ WFault
  BY <1>15, <1>0 DEF WSweep, WScan, WQuarantineRun, WQuarantined, WReceiptsDone, WGatePass,
     WVerify, WCloseFailed, WDispatch, WProviderOk, WProviderError, WIndex, WJoin,
     WFinalize, WClose, WProject, WLoro, WSettle, WReconcile, WReindex, WFault
<1>16. CASE \/ GReserve \/ GMark \/ GReceipt \/ GTaskFound \/ GTaskLost \/ GPromote \/ GDecide
           \/ GIndex \/ GPrivacy \/ GCloseRun \/ GFault \/ GProject \/ GLoro \/ GSettle
           \/ GStop \/ GWait \/ GWaitTimeout \/ GPhaseFault \/ GRecord \/ GFinish
           \/ SNextStage \/ Crash \/ ToggleKey
  BY <1>16, <1>0 DEF GReserve, GMark, GReceipt, GTaskFound, GTaskLost, GPromote, GDecide,
     GIndex, GPrivacy, GCloseRun, GFault, GProject, GLoro, GSettle, GStop, GWait,
     GWaitTimeout, GPhaseFault, GRecord, GFinish, SNextStage, Crash, ToggleKey
<1>17. ASSUME NEW x \in Sessions,
             \/ GRequest(x) \/ GRetryProjection(x) \/ GPurge(x) \/ SPurge(x) \/ SSearch(x)
             \/ STask(x) \/ SProjection(x) \/ CorruptReceipt(x)
      PROVE Goal
  BY <1>17, <1>0 DEF GRequest, GRetryProjection, GPurge, SPurge, SSearch, STask,
     SProjection, CorruptReceipt
<1>18. CASE UNCHANGED vars
  BY <1>18, <1>0 DEF vars, runVars, fileVars, lifeVars, histVars
<1> QED
  BY <1>1, <1>2, <1>3, <1>4, <1>5, <1>6, <1>7, <1>8, <1>9, <1>10, <1>11, <1>12, <1>13,
     <1>14, <1>15, <1>16, <1>17, <1>18 DEF Next, Worker_Next, User, Gate_Step, Startup_Step,
     Environment

(* What the gate holder has read stays true, step by step. *)
LEMMA GateReadsStep ==
  ASSUME Typed, GoneRuns, Quiet, [Next]_vars, NEW s \in Sessions, GateReads(s), Projectable(s)
  PROVE  GateReads(s)'
<1>t. g \in Gate /\ (g.pc # "free" => g.s \in Sessions) /\ (proc = "down" => g.pc = "free")
  BY DEF Typed, GateOK, PurgeOK
<1>n. ~Gone(s) /\ g'.pc # "stop" => ~Gone(s)'
  BY GoneMoves
<1>r. receipt[s] # "none" /\ ~Gone(s)' => receipt'[s] # "none"
  BY SafeStays DEF Safe, Gone
<1>e. Ended(s) /\ ~Gone(s) /\ proc # "down" => Ended(s)'
  BY EndedStays
<1> USE DEF Gates, EnsurePc, ProjectPc
<1>0. UNCHANGED <<g, purge>> => GateReads(s)'
  BY <1>t, <1>n, <1>r, <1>e DEF GateReads, Tombstoned
<1>f. g'.pc \notin EnsurePc \cup ProjectPc \cup {"project"} => GateReads(s)'
  BY DEF GateReads
<1>l. Release => GateReads(s)'
  BY <1>f DEF Release, FreeGate
<1>h. ASSUME NEW pc \in GatePc, GGoto(pc)
      PROVE  g'.pc = pc /\ g'.s = g.s /\ g'.rcpt = g.rcpt /\ g'.status = g.status
  BY <1>h, <1>t DEF GGoto, Gate
<1>1. CASE \/ WSweep \/ WScan \/ WQuarantineTask \/ WQuarantineRun \/ WQuarantined \/ WReceipt
           \/ WReceiptsDone \/ WClaimNext \/ WCredential \/ WRegister \/ WGateStop
           \/ WGatePass \/ WVerify \/ WReject \/ WCloseFailed \/ WDispatch \/ WProviderOk
           \/ WProviderError \/ WIndex \/ WJoin \/ WFinalize \/ WComplete \/ WClose
           \/ WProject \/ WLoro \/ WSettle \/ WFailure \/ WReconcile \/ WCloseReceipt
           \/ WReindex \/ WFault
  BY <1>1, <1>0, WorkerKeeps DEF Worker_Next, Typed
<1>2. CASE \/ WHeartbeat \/ Restart \/ ToggleKey \/ LoseTasksDb
  BY <1>2, <1>0 DEF WHeartbeat, Restart, ToggleKey, LoseTasksDb
<1>3. ASSUME NEW x \in Sessions,
             \/ SSearch(x) \/ ExpireLease(x) \/ CorruptReceipt(x)
      PROVE GateReads(s)'
  BY <1>3, <1>0 DEF SSearch, ExpireLease, CorruptReceipt
<1>4. CASE SNextStage
  BY <1>4, <1>0 DEF SNextStage
<1>5. CASE Crash
  BY <1>5, <1>f DEF Crash, FreeGate
<1>6. ASSUME NEW x \in Sessions,
             \/ GRequest(x) \/ STask(x)
      PROVE GateReads(s)'
  <2>1. ASSUME NEW seen, Ensure(x, seen), seen # "erased" => ~Gone(x)
        PROVE  GateReads(s)'
    <3>1. \/ g'.pc = "free"
          \/ g'.pc \in {"reserve", "receipt"} /\ g'.s = x /\ seen # "erased"
      <4>1. /\ g'.pc \in {"free", "reserve", "receipt"}
            /\ g'.pc # "free" => g'.s = x
            /\ g'.pc = "reserve" => seen = "pending"
            /\ g'.pc = "receipt" => seen \in {"reserved", "enqueued"}
        BY <2>1, EnsureGoes, Zenon
      <4> QED BY <4>1
    <3>2. CASE g'.pc = "free"
      BY <3>2, <1>f
    <3>3. CASE g'.pc \in {"reserve", "receipt"} /\ g'.s = x /\ seen # "erased"
      <4>1. x = s => ~Gone(s)'
        BY <1>n, <2>1, <3>3
      <4> QED BY <3>3, <4>1 DEF GateReads
    <3> QED BY <3>1, <3>2, <3>3
  <2>2. CASE GRequest(x)
    <3>1. Ensure(x, async'[x]) /\ ~Gone(x)
      BY <2>2 DEF GRequest, Gone
    <3> QED BY <2>1, <3>1
  <2>3. CASE STask(x)
    <3>1. CASE Tombstoned(x)
      <4>1. UNCHANGED <<g, purge>>
        BY <2>3, <3>1 DEF STask
      <4> QED BY <1>0, <4>1
    <3>2. CASE ~Tombstoned(x)
      <4>1. Ensure(x, async[x])
        BY <2>3, <3>2 DEF STask
      <4>2. async[x] # "erased" => ~Gone(x)
        BY <3>2 DEF Gone
      <4> QED BY <2>1, <4>1, <4>2
    <3> QED BY <3>1, <3>2
  <2> QED BY <1>6, <2>2, <2>3
<1>7. ASSUME NEW x \in Sessions,
             \/ GRetryProjection(x) \/ SProjection(x) \/ GPurge(x) \/ SPurge(x)
      PROVE GateReads(s)'
  BY <1>7, <1>t, <1>n DEF GRetryProjection, SProjection, GPurge, SPurge, GateReads,
     FreeGate, Gone, Tombstoned, RunOK, Typed, runVars
<1>8. CASE GReserve
  BY <1>8, <1>t, <1>n, <1>r, <1>e, <1>h, <1>l DEF GReserve, Holding, GateReads, GatePc,
     Tombstoned
<1>9. CASE GEnqueue
  BY <1>9, <1>t, <1>n, <1>r, <1>e, <1>h, <1>l DEF GEnqueue, Holding, GateReads, GatePc,
     Tombstoned, Abort
<1>10. CASE GMark
  BY <1>10, <1>t, <1>n, <1>r, <1>e, <1>h, <1>l DEF GMark, Holding, GateReads, GatePc,
     Tombstoned, Abort
<1>11. CASE GReceipt
  BY <1>11, <1>t, <1>n, <1>r, <1>e, <1>h, <1>l DEF GReceipt, Holding, GateReads, GatePc,
     Tombstoned, Gate
<1>12. CASE GTaskFound
  BY <1>12, <1>t, <1>n, <1>r, <1>e, <1>h, <1>l DEF GTaskFound, Holding, GateReads, GatePc,
     Tombstoned, Gate, Ended
<1>13. CASE GTaskRebuild
  BY <1>13, <1>t, <1>n, <1>r, <1>e, <1>h, <1>l DEF GTaskRebuild, Holding, GateReads, GatePc,
     Tombstoned, Gate, Abort
<1>14. CASE GTaskLost
  BY <1>14, <1>t, <1>n, <1>r, <1>e, <1>h, <1>l DEF GTaskLost, Holding, GateReads, GatePc,
     Tombstoned, Abort
<1>15. CASE GPromote
  BY <1>15, <1>t, <1>n, <1>r, <1>e, <1>h, <1>l DEF GPromote, Holding, GateReads, GatePc,
     Tombstoned, Abort
<1>16. CASE GDecide
  BY <1>16, <1>t, <1>n, <1>r, <1>e, <1>h, <1>l DEF GDecide, Holding, GateReads, GatePc,
     Tombstoned, Abort
<1>17. CASE GIndex
  BY <1>17, <1>t, <1>n, <1>r, <1>e, <1>h, <1>l DEF GIndex, Holding, GateReads, GatePc,
     Tombstoned
<1>18. CASE \/ GPrivacy \/ GCloseTask \/ GCloseRun
  BY <1>18, <1>t, <1>n, <1>r, <1>e, <1>h, <1>l DEF GPrivacy, GCloseTask, GCloseRun, Holding,
     GateReads, GatePc, Tombstoned
<1>19. CASE \/ GFault \/ GWaitTimeout \/ GPhaseFault \/ GFinish
  BY <1>19, <1>l DEF GFault, GWaitTimeout, GPhaseFault, GFinish, Abort
<1>20. CASE GProject
  BY <1>20, <1>t, <1>n, <1>r, <1>e, <1>h, <1>l DEF GProject, Holding, GateReads,
     GatePc, Tombstoned, begin_projection, Projectable, Gone
<1>21. CASE GLoro
  BY <1>21, <1>t, <1>n, <1>r, <1>e, <1>h, <1>l DEF GLoro, Holding, GateReads, GatePc,
     Tombstoned, write_document
<1>22. CASE GSettle
  BY <1>22, <1>t, <1>n, <1>r, <1>e, <1>h, <1>l DEF GSettle, Holding, GateReads, GatePc,
     Tombstoned, settle_projection
<1>23. CASE \/ GStop \/ GWait \/ GPhase \/ GRecord
  BY <1>23, <1>f, <1>h, <1>l DEF GStop, GWait, GPhase, GRecord, GatePc
<1>24. CASE UNCHANGED vars
  BY <1>24, <1>0 DEF vars, runVars, fileVars, lifeVars, histVars
<1> QED
  BY <1>1, <1>2, <1>3, <1>4, <1>5, <1>6, <1>7, <1>8, <1>9, <1>10, <1>11, <1>12, <1>13,
     <1>14, <1>15, <1>16, <1>17, <1>18, <1>19, <1>20, <1>21, <1>22, <1>23, <1>24 DEF Next,
     Worker_Next, User, Gate_Step, Startup_Step, Environment

(* Only a completed run is ever projected: each transaction that moves the run
   or its projection respects the other. *)
LEMMA ProjectableStep ==
  ASSUME Typed, GoneRuns, [Next]_vars, NEW s \in Sessions, Projectable(s)
  PROVE  Projectable(s)'
<1>0. UNCHANGED <<async, proj>> => Projectable(s)'
  BY DEF Projectable
<1>e. \A x : mark_async_task_enqueued(x) /\ UNCHANGED proj => Projectable(s)'
  BY DEF mark_async_task_enqueued, MayMarkEnqueued, InFlight, Projectable, Typed, RunOK
<1>m. \A x, ok : mark_async_task_terminal(x, ok) => Projectable(s)'
  BY DEF mark_async_task_terminal, MayMarkTerminal, Projectable, Typed, RunOK
<1>1. CASE WQuarantineRun
  BY <1>1, <1>0, <1>e, <1>m DEF WQuarantineRun, runVars
<1>2. CASE WVerify
  BY <1>2, <1>0, <1>e, <1>m DEF WVerify, runVars
<1>3. CASE WCloseFailed
  BY <1>3, <1>0, <1>e, <1>m DEF WCloseFailed, runVars
<1>4. CASE WClose
  BY <1>4, <1>0, <1>e, <1>m DEF WClose, runVars
<1>5. CASE WCloseReceipt
  BY <1>5, <1>0, <1>e, <1>m DEF WCloseReceipt, runVars
<1>6. CASE GMark
  BY <1>6, <1>0, <1>e, <1>m DEF GMark, runVars
<1>7. CASE GTaskLost
  BY <1>7, <1>0, <1>e, <1>m DEF GTaskLost, runVars
<1>8. CASE GPromote
  BY <1>8, <1>0, <1>e, <1>m DEF GPromote, runVars
<1>9. CASE GDecide
  BY <1>9, <1>0, <1>e, <1>m DEF GDecide, runVars
<1>10. CASE GCloseRun
  BY <1>10, <1>0, <1>e, <1>m DEF GCloseRun, runVars
<1>11. CASE \/ WSettle \/ GSettle
  BY <1>11, <1>0 DEF WSettle, GSettle, settle_projection, Projectable, Typed, RunOK
<1>12. CASE \/ WProject \/ GProject
  BY <1>12, <1>0 DEF WProject, GProject, begin_projection, Projectable, Typed, RunOK
<1>13. CASE GReserve
  BY <1>13 DEF GReserve, Projectable, Typed, RunOK, GoneRuns, Holding
<1>14. CASE GPhase
  BY <1>14, <1>0 DEF GPhase, purge_session_artifacts, Projectable, Typed, RunOK, runVars
<1>15. CASE Restart
  BY <1>15 DEF Restart, recover_unfinished_runs, Projectable
<1>16. ASSUME NEW x \in Sessions,
             \/ GRequest(x) \/ GRetryProjection(x)
      PROVE Projectable(s)'
  BY <1>16, <1>0 DEF GRequest, GRetryProjection, Projectable, Typed, RunOK
<1>17. CASE \/ WSweep \/ WScan \/ WQuarantineTask \/ WQuarantined \/ WReceipt \/ WReceiptsDone
           \/ WClaimNext \/ WCredential \/ WRegister \/ WGateStop \/ WGatePass \/ WReject
           \/ WDispatch \/ WProviderOk \/ WProviderError \/ WIndex \/ WJoin \/ WFinalize
           \/ WComplete \/ WLoro \/ WFailure \/ WReconcile \/ WReindex \/ WFault
           \/ WHeartbeat
  BY <1>17, <1>0 DEF WSweep, WScan, WQuarantineTask, WQuarantined, WReceipt, WReceiptsDone,
     WClaimNext, WCredential, WRegister, WGateStop, WGatePass, WReject, WDispatch,
     WProviderOk, WProviderError, WIndex, WJoin, WFinalize, WComplete, WLoro, WFailure,
     WReconcile, WReindex, WFault, WHeartbeat, runVars, project_search,
     commit_async_provider_success
<1>18. CASE \/ GEnqueue \/ GReceipt \/ GTaskFound \/ GTaskRebuild \/ GIndex \/ GPrivacy \/ GCloseTask
           \/ GFault \/ GLoro \/ GStop \/ GWait \/ GWaitTimeout \/ GPhaseFault \/ GRecord
           \/ GFinish \/ SNextStage \/ Crash \/ LoseTasksDb \/ ToggleKey
  BY <1>18, <1>0 DEF GEnqueue, GReceipt, GTaskFound, GTaskRebuild, GIndex, GPrivacy,
     GCloseTask, GFault, GLoro, GStop, GWait, GWaitTimeout, GPhaseFault, GRecord, GFinish,
     SNextStage, Crash, LoseTasksDb, ToggleKey, runVars, project_search,
     commit_async_provider_success
<1>19. ASSUME NEW x \in Sessions,
             \/ GPurge(x) \/ SPurge(x) \/ SSearch(x) \/ STask(x) \/ SProjection(x)
             \/ ExpireLease(x) \/ CorruptReceipt(x)
      PROVE Projectable(s)'
  BY <1>19, <1>0 DEF GPurge, SPurge, SSearch, STask, SProjection, ExpireLease,
     CorruptReceipt, runVars, project_search, commit_async_provider_success
<1>20. CASE UNCHANGED vars
  BY <1>20, <1>0 DEF vars, runVars, fileVars, lifeVars, histVars
<1> QED
  BY <1>1, <1>2, <1>3, <1>4, <1>5, <1>6, <1>7, <1>8, <1>9, <1>10, <1>11, <1>12, <1>13,
     <1>14, <1>15, <1>16, <1>17, <1>18, <1>19, <1>20 DEF Next, Worker_Next, User, Gate_Step,
     Startup_Step, Environment

(* Faults and crashes only add up. *)
LEMMA CountersGrow ==
  ASSUME Typed, [Next]_vars
  PROVE  /\ faults' \in Nat /\ crashes' \in Nat /\ faults \in Nat /\ crashes \in Nat
         /\ faults' >= faults /\ crashes' >= crashes
<1>t. faults \in Nat /\ crashes \in Nat /\ faults' \in Nat /\ crashes' \in Nat
  BY TypedInductive, AsyncAssumption DEF Typed, HistOK
<1> DEFINE Goal == faults' >= faults /\ crashes' >= crashes
<1> SUFFICES Goal
  BY <1>t
<1>0. UNCHANGED <<faults, crashes>> => Goal
  BY <1>t
<1>f. UNCHANGED crashes /\ (NoFault \/ Fault) => Goal
  BY <1>t DEF NoFault, Fault
<1>1. CASE Crash
  BY <1>1, <1>t DEF Crash
<1>2. CASE \/ WGateStop \/ WVerify \/ WIndex \/ WFinalize \/ WLoro \/ WSettle \/ WFailure \/ WReindex
           \/ WFault \/ GEnqueue \/ GTaskRebuild \/ GTaskLost \/ GIndex \/ GPrivacy
           \/ GFault \/ GLoro \/ GSettle \/ GStop \/ GPhaseFault \/ LoseTasksDb
  BY <1>2, <1>f DEF WGateStop, WVerify, WIndex, WFinalize, WLoro, WSettle, WFailure,
     WReindex, WFault, GEnqueue, GTaskRebuild, GTaskLost, GIndex, GPrivacy, GFault, GLoro,
     GSettle, GStop, GPhaseFault, LoseTasksDb, project_search, write_document,
     settle_projection
<1>3. ASSUME NEW x \in Sessions,
             \/ SSearch(x) \/ CorruptReceipt(x)
      PROVE Goal
  BY <1>3, <1>f DEF SSearch, CorruptReceipt, project_search, write_document,
     settle_projection
<1>4. CASE \/ WSweep \/ WScan \/ WQuarantineTask \/ WQuarantineRun \/ WQuarantined \/ WReceipt
           \/ WReceiptsDone \/ WClaimNext \/ WCredential \/ WRegister \/ WGatePass
           \/ WReject \/ WCloseFailed \/ WDispatch \/ WProviderOk \/ WProviderError
           \/ WJoin \/ WComplete \/ WClose \/ WProject \/ WReconcile \/ WCloseReceipt
           \/ WHeartbeat
  BY <1>4, <1>0 DEF WSweep, WScan, WQuarantineTask, WQuarantineRun, WQuarantined, WReceipt,
     WReceiptsDone, WClaimNext, WCredential, WRegister, WGatePass, WReject, WCloseFailed,
     WDispatch, WProviderOk, WProviderError, WJoin, WComplete, WClose, WProject, WReconcile,
     WCloseReceipt, WHeartbeat, histVars
<1>5. CASE \/ GReserve \/ GMark \/ GReceipt \/ GTaskFound \/ GPromote \/ GDecide \/ GCloseTask
           \/ GCloseRun \/ GProject \/ GWait \/ GWaitTimeout \/ GPhase \/ GRecord
           \/ GFinish \/ Restart \/ SNextStage \/ ToggleKey
  BY <1>5, <1>0 DEF GReserve, GMark, GReceipt, GTaskFound, GPromote, GDecide, GCloseTask,
     GCloseRun, GProject, GWait, GWaitTimeout, GPhase, GRecord, GFinish, Restart,
     SNextStage, ToggleKey, histVars
<1>6. ASSUME NEW x \in Sessions,
             \/ GRequest(x) \/ GRetryProjection(x) \/ GPurge(x) \/ SPurge(x) \/ STask(x)
             \/ SProjection(x) \/ ExpireLease(x)
      PROVE Goal
  BY <1>6, <1>0 DEF GRequest, GRetryProjection, GPurge, SPurge, STask, SProjection,
     ExpireLease, histVars
<1>7. CASE UNCHANGED vars
  BY <1>7, <1>0 DEF vars, runVars, fileVars, lifeVars, histVars
<1> QED
  BY <1>1, <1>2, <1>3, <1>4, <1>5, <1>6, <1>7 DEF Next, Worker_Next, User, Gate_Step,
     Startup_Step, Environment

(* The projection state is a lock, step by step: a claim is taken only from
   pending, and whoever holds one finds it in place. *)
LEMMA LockedStep ==
  ASSUME Typed, GoneRuns, Quiet, [Next]_vars, NEW s \in Sessions,
         GateReads(s), Projectable(s), Locked(s)
  PROVE  Locked(s)'
<1>t. /\ w \in Worker /\ g \in Gate /\ (proc = "down" => g.pc = "free")
      /\ proj \in [Sessions -> ProjState] /\ async \in [Sessions -> AsyncState]
  BY DEF Typed, WorkerOK, GateOK, PurgeOK, RunOK
<1>n. Gone(s) => Gone(s)'
  BY GoneMoves
<1>u. faults > 0 => faults' > 0
  BY CountersGrow
<1>v. Fault => faults' > 0
  BY CountersGrow DEF Fault
<1> DEFINE W == Works(ProjectPc, s)
<1> DEFINE G == Gates(ProjectPc, s)
<1>0. (W' <=> W) /\ (G' <=> G) /\ proj'[s] = proj[s] /\ (proc' # "down" => proc # "down")
        => Locked(s)'
  BY <1>n, <1>u DEF Locked
<1> USE DEF Gates, Works, ProjectPc
<1>w. UNCHANGED w => (W' <=> W)
  OBVIOUS
<1>g. UNCHANGED g => (G' <=> G)
  OBVIOUS
<1>i. GoIdle => ~W'
  BY DEF GoIdle, IdleWorker
<1>j. \A pc \in FreePc \cup OwnedPc : Goto(pc) => w'.pc = pc /\ w'.s = w.s
  BY <1>t DEF Goto, Worker
<1>l. Release => ~G'
  BY DEF Release, FreeGate
<1>h. \A pc \in GatePc : GGoto(pc) => g'.pc = pc /\ g'.s = g.s
  BY <1>t DEF GGoto, Gate
<1>1. CASE \/ WSweep \/ WQuarantined \/ WReceiptsDone
  BY <1>1, <1>t, <1>0, <1>g, <1>i, <1>j DEF WSweep, WQuarantined, WReceiptsDone, At, FreePc,
     OwnedPc, runVars, lifeVars
<1>2. CASE WReconcile
  BY <1>2, <1>t, <1>0, <1>g, <1>i, <1>j DEF WReconcile, At, FreePc, OwnedPc, runVars,
     lifeVars
<1>3. CASE \/ WCredential \/ WRegister
  BY <1>3, <1>t, <1>0, <1>g, <1>i, <1>j DEF WCredential, WRegister, At, FreePc, OwnedPc,
     runVars, lifeVars
<1>4. CASE \/ WReject \/ WComplete
  BY <1>4, <1>t, <1>0, <1>g, <1>i, <1>j DEF WReject, WComplete, At, FreePc, OwnedPc,
     runVars, lifeVars
<1>5. CASE WFault
  BY <1>5, <1>t, <1>0, <1>g, <1>i, <1>j DEF WFault, At, FreePc, OwnedPc, runVars, lifeVars
<1>6. CASE \/ WScan \/ WQuarantineTask \/ WReceipt \/ WClaimNext
  BY <1>6, <1>t, <1>0, <1>g, <1>i, <1>j DEF WScan, WQuarantineTask, WReceipt, WClaimNext,
     At, FreePc, OwnedPc, runVars, lifeVars, Worker, IdleWorker
<1>7. CASE \/ WGateStop \/ WGatePass
  BY <1>7, <1>t, <1>0, <1>g, <1>i, <1>j DEF WGateStop, WGatePass, At, FreePc, OwnedPc,
     runVars, lifeVars, AfterGate
<1>8. CASE WDispatch
  <2>1. w'.pc \in {"index", "joined", "provider"} /\ w.pc = "dispatch"
    BY <1>8, <1>t, <1>j DEF WDispatch, At, Worker, FreePc, OwnedPc
  <2> QED BY <1>8, <2>1, <1>0, <1>g DEF WDispatch, lifeVars
<1>9. CASE WProviderOk
  BY <1>9, <1>t, <1>0, <1>g, <1>i, <1>j DEF WProviderOk, At, FreePc, OwnedPc, runVars,
     lifeVars, Worker, commit_async_provider_success
<1>10. CASE WProviderError
  BY <1>10, <1>t, <1>0, <1>g, <1>i, <1>j DEF WProviderError, At, FreePc, OwnedPc, runVars,
     lifeVars, Worker, commit_async_provider_success
<1>11. CASE \/ WIndex \/ WReindex
  BY <1>11, <1>t, <1>0, <1>g, <1>i, <1>j DEF WIndex, WReindex, At, FreePc, OwnedPc, runVars,
     lifeVars, project_search
<1>12. CASE \/ WJoin \/ WFinalize \/ WFailure
  BY <1>12, <1>t, <1>0, <1>g, <1>i, <1>j DEF WJoin, WFinalize, WFailure, At, FreePc,
     OwnedPc, runVars, lifeVars
<1>13. CASE WVerify
  BY <1>13, <1>t, <1>0, <1>g, <1>i, <1>j DEF WVerify, At, FreePc, OwnedPc, runVars, lifeVars
<1>14. CASE WQuarantineRun
  BY <1>14, <1>t, <1>0, <1>g, <1>i, <1>j, <1>n DEF WQuarantineRun, At, FreePc, OwnedPc,
     runVars, lifeVars, Worker, mark_async_task_terminal, MayMarkTerminal, Projectable,
     Locked
<1>15. CASE WCloseFailed
  BY <1>15, <1>t, <1>0, <1>g, <1>i, <1>j, <1>n DEF WCloseFailed, At, FreePc, OwnedPc,
     runVars, lifeVars, Worker, mark_async_task_terminal, MayMarkTerminal, Projectable,
     Locked
<1>16. CASE WClose
  BY <1>16, <1>t, <1>0, <1>g, <1>i, <1>j, <1>n DEF WClose, At, FreePc, OwnedPc, runVars,
     lifeVars, Worker, mark_async_task_terminal, MayMarkTerminal, Projectable, Locked
<1>17. CASE WCloseReceipt
  BY <1>17, <1>t, <1>0, <1>g, <1>i, <1>j, <1>n DEF WCloseReceipt, At, FreePc, OwnedPc,
     runVars, lifeVars, Worker, mark_async_task_terminal, MayMarkTerminal, Projectable,
     Locked
<1>18. CASE WProject
  BY <1>18, <1>t, <1>0, <1>g, <1>i, <1>j, <1>n, <1>u, <1>v DEF WProject, At, FreePc,
     OwnedPc, runVars, lifeVars, begin_projection, GoDone, Locked
<1>19. CASE WLoro
  BY <1>19, <1>t, <1>0, <1>g, <1>i, <1>j, <1>n, <1>u, <1>v DEF WLoro, At, FreePc, OwnedPc,
     runVars, lifeVars, write_document, Locked
<1>20. CASE WSettle
  BY <1>20, <1>t, <1>0, <1>g, <1>i, <1>j, <1>n, <1>u, <1>v DEF WSettle, At, FreePc, OwnedPc,
     runVars, lifeVars, settle_projection, GoDone, Locked
<1>21. CASE \/ GReserve \/ GReceipt \/ GTaskFound \/ GPrivacy \/ GCloseTask
  BY <1>21, <1>t, <1>0, <1>w, <1>h, <1>l DEF GReserve, GReceipt, GTaskFound, GPrivacy,
     GCloseTask, Holding, GatePc, runVars, lifeVars, Gate
<1>22. CASE \/ GEnqueue \/ GMark \/ GTaskRebuild \/ GPromote \/ GFault
  BY <1>22, <1>t, <1>0, <1>w, <1>h, <1>l DEF GEnqueue, GMark, GTaskRebuild, GPromote,
     GFault, Holding, GatePc, runVars, lifeVars, Gate, Abort, Starting
<1>23. CASE \/ GTaskLost \/ GDecide
  BY <1>23, <1>t, <1>0, <1>w, <1>h, <1>l, <1>n DEF GTaskLost, GDecide, Holding, GatePc,
     runVars, lifeVars, Abort, Starting, mark_async_task_terminal, MayMarkTerminal,
     Projectable, Locked
<1>24. CASE GCloseRun
  BY <1>24, <1>t, <1>0, <1>w, <1>h, <1>l, <1>n DEF GCloseRun, Holding, GatePc, runVars,
     lifeVars, mark_async_task_terminal, MayMarkTerminal, Projectable, Locked
<1>25. CASE GIndex
  BY <1>25, <1>t, <1>0, <1>w, <1>h, <1>l DEF GIndex, Holding, GatePc, runVars, lifeVars,
     project_search
<1>26. CASE GProject
  BY <1>26, <1>t, <1>0, <1>w, <1>h, <1>l, <1>n, <1>u DEF GProject, Holding, GatePc, runVars,
     lifeVars, begin_projection, GateReads, Gone, Projectable, Locked
<1>27. CASE GLoro
  BY <1>27, <1>t, <1>0, <1>w, <1>h, <1>l, <1>n, <1>u DEF GLoro, Holding, GatePc, runVars,
     lifeVars, write_document, Locked
<1>28. CASE GSettle
  BY <1>28, <1>t, <1>0, <1>w, <1>h, <1>l, <1>n, <1>u, <1>v DEF GSettle, Holding, GatePc,
     runVars, lifeVars, settle_projection, Locked
<1>29. CASE \/ GStop \/ GWait \/ GWaitTimeout \/ GPhaseFault \/ GRecord \/ GFinish
  BY <1>29, <1>t, <1>0, <1>w, <1>h, <1>l DEF GStop, GWait, GWaitTimeout, GPhaseFault,
     GRecord, GFinish, Holding, GatePc, runVars, lifeVars
<1>30. CASE GPhase
  BY <1>30, <1>t, <1>0, <1>w, <1>h, <1>l, <1>n, <1>u DEF GPhase, Holding, GatePc, runVars,
     lifeVars, purge_session_artifacts, Gone, Locked
<1>31. ASSUME NEW x \in Sessions,
             \/ GRequest(x) \/ STask(x)
      PROVE Locked(s)'
  BY <1>31, <1>t, <1>0, <1>w, <1>h, <1>l, <1>g DEF GRequest, STask, Holding, GatePc,
     runVars, lifeVars, Ensure, FreeGate
<1>32. ASSUME NEW x \in Sessions, GRetryProjection(x) PROVE Locked(s)'
  BY <1>32, <1>t, <1>0, <1>w, <1>h, <1>l, <1>n, <1>u DEF GRetryProjection, Holding, GatePc,
     runVars, lifeVars, FreeGate, Locked, Gone
<1>33. ASSUME NEW x \in Sessions,
             \/ GPurge(x) \/ SPurge(x) \/ SProjection(x)
      PROVE Locked(s)'
  BY <1>33, <1>t, <1>0, <1>w, <1>h, <1>l, <1>g DEF GPurge, SPurge, SProjection, Holding,
     GatePc, runVars, lifeVars, FreeGate
<1>34. CASE Restart
  BY <1>34, <1>t, <1>n, <1>u DEF Restart, Locked, Quiet, IdleWorker, recover_unfinished_runs
<1>35. CASE SNextStage
  BY <1>35, <1>0, <1>g, <1>w DEF SNextStage, Quiet, IdleWorker, runVars
<1>36. CASE Crash
  BY <1>36 DEF Crash, Locked, IdleWorker, FreeGate
<1>37. CASE \/ LoseTasksDb \/ ToggleKey \/ WHeartbeat
  BY <1>37, <1>0, <1>w, <1>g DEF LoseTasksDb, ToggleKey, WHeartbeat, runVars, lifeVars
<1>38. ASSUME NEW x \in Sessions,
             \/ SSearch(x) \/ ExpireLease(x) \/ CorruptReceipt(x)
      PROVE Locked(s)'
  BY <1>38, <1>0, <1>w, <1>g DEF SSearch, ExpireLease, CorruptReceipt, runVars, lifeVars,
     project_search
<1>39. CASE UNCHANGED vars
  BY <1>39, <1>0 DEF vars, runVars, fileVars, lifeVars, histVars
<1> QED
  BY <1>1, <1>2, <1>3, <1>4, <1>5, <1>6, <1>7, <1>8, <1>9, <1>10, <1>11, <1>12, <1>13,
     <1>14, <1>15, <1>16, <1>17, <1>18, <1>19, <1>20, <1>21, <1>22, <1>23, <1>24, <1>25,
     <1>26, <1>27, <1>28, <1>29, <1>30, <1>31, <1>32, <1>33, <1>34, <1>35, <1>36, <1>37,
     <1>38, <1>39 DEF Next, Worker_Next, User, Gate_Step, Startup_Step, Environment

(* The row of a session without a result, step by step: only its own worker
   moves it while it works, and it is only ever inserted with one attempt. *)
LEMMA RowHeldStep ==
  ASSUME Typed, GoneRuns, Quiet, [Next]_vars, NEW s \in Sessions,
         GateReads(s), RowHeld(s)
  PROVE  RowHeld(s)'
<1> DEFINE Body ==
     /\ Works(HolderPc, s) => task[s].status = "running"
     /\ task[s].status # "absent" => task[s].max = 1
     /\ ~Works({"index"}, s)
     /\ Works({"joined", "gate3", "failure"}, s) => w.res \in {"local", "error"}
<1>a. RowHeld(s) <=> (HasNoResult(s) => Body)
  BY DEF RowHeld, Q!Is, Q!Present
<1>b. RowHeld(s)' <=> (HasNoResult(s)' => Body')
  BY DEF RowHeld, Q!Is, Q!Present
<1> SUFFICES ASSUME ~Safe(s)' PROVE Body'
  BY <1>b DEF HasNoResult
<1>s. ~Safe(s) /\ Body
  BY <1>a, SafeStays DEF HasNoResult
<1>t. /\ w \in Worker /\ (w.pc \in Busy => w.s \in Sessions)
      /\ g \in Gate /\ (g.pc # "free" => g.s \in Sessions) /\ task \in Rows
  BY DEF Typed, WorkerOK, GateOK
<1> USE DEF Works, HolderPc, Q!Is, Q!Present, Q!Claimable
<1>k. UNCHANGED w /\ task'[s].status = task[s].status /\ task'[s].max = task[s].max => Body'
  BY <1>s
<1>0. UNCHANGED <<w, task>> => Body'
  BY <1>k
<1>m. ASSUME NEW x \in Sessions, NEW status, NEW retry, NEW lease, Q!Move(x, status, retry, lease)
      PROVE  /\ task'[s].max = task[s].max
             /\ x = s => task'[s].status = status
             /\ x # s => task'[s].status = task[s].status
  BY <1>m, <1>t DEF Q!Move, Rows, Q!Row
<1>p. ASSUME NEW S, Q!PurgeTasks(S)
      PROVE  (s \notin S /\ task'[s] = task[s]) \/ (s \in S /\ task'[s].status = "absent")
  BY <1>p DEF Q!PurgeTasks, Q!NoRow
<1>i. GoIdle /\ (task'[s].status # "absent" => task'[s].max = 1) => Body'
  BY DEF GoIdle, IdleWorker
<1>j. \A pc \in FreePc \cup OwnedPc : Goto(pc) => w'.pc = pc /\ w'.s = w.s /\ w'.res = w.res
  BY <1>t DEF Goto, Worker
<1>1. CASE \/ WSweep \/ WQuarantined \/ WReceiptsDone
  BY <1>1, <1>s, <1>t, <1>i, <1>j DEF WSweep, WQuarantined, WReceiptsDone, At, FreePc,
     OwnedPc
<1>2. CASE WScan
  BY <1>2, <1>s, <1>t, <1>i, <1>j DEF WScan, At, FreePc, OwnedPc, Worker
<1>3. CASE WQuarantineTask
  BY <1>3, <1>s, <1>t, <1>i, <1>j, <1>m DEF WQuarantineTask, At, FreePc, OwnedPc, Worker
<1>4. CASE WQuarantineRun
  BY <1>4, <1>s, <1>t, <1>i, <1>j DEF WQuarantineRun, At, FreePc, OwnedPc, Worker
<1>5. CASE WReceipt
  <2>1. PICK x \in w.scan :
          \/ w'.pc = "reconcile" /\ UNCHANGED task
          \/ Q!Claim(x) /\ w'.pc = "register" /\ w'.s = x
          \/ w'.pc = w.pc /\ w'.s = w.s /\ UNCHANGED task
    BY <1>5, <1>t DEF WReceipt, IdleWorker, Worker
  <2>2. x \in Sessions /\ w.pc = "receipts"
    BY <1>5, <1>t DEF WReceipt, At, Worker
  <2> QED BY <2>1, <2>2, <1>s, <1>m DEF Q!Claim
<1>6. CASE WClaimNext
  <2>1. CASE GoIdle /\ UNCHANGED task
    BY <2>1, <1>s, <1>i
  <2>2. ASSUME NEW x \in Sessions, Q!Claim(x),
               w' = [IdleWorker EXCEPT !.pc = "credential", !.s = x]
        PROVE  Body'
    <3>1. w'.pc = "credential" /\ w'.s = x
      BY <2>2 DEF IdleWorker
    <3>2. task[x].status # "absent" /\ Q!Move(x, "running", task[x].retry, "live")
      BY <2>2 DEF Q!Claim
    <3>3. /\ task'[s].max = task[s].max
          /\ x = s => task'[s].status = "running"
          /\ x # s => task'[s].status = task[s].status
      BY <3>2, <1>m
    <3> QED BY <1>s, <3>1, <3>2, <3>3
  <2> QED BY <1>6, <2>1, <2>2 DEF WClaimNext
<1>7. CASE WCredential
  BY <1>7, <1>s, <1>t, <1>i, <1>j, <1>m DEF WCredential, At, FreePc, OwnedPc, Busy,
     Q!ReleaseWithoutRetry
<1>8. CASE WRegister
  BY <1>8, <1>s, <1>t, <1>i, <1>j, <1>p DEF WRegister, At, FreePc, OwnedPc
<1>9. CASE WGateStop
  BY <1>9, <1>s, <1>t, <1>i, <1>j, <1>p DEF WGateStop, At, FreePc, OwnedPc
<1>10. CASE WGatePass
  BY <1>10, <1>s, <1>t, <1>i, <1>j DEF WGatePass, At, FreePc, OwnedPc, AfterGate
<1>11. CASE WVerify
  BY <1>11, <1>s, <1>t, <1>i, <1>j DEF WVerify, At, FreePc, OwnedPc
<1>12. CASE WJoin
  BY <1>12, <1>s, <1>t, <1>i, <1>j DEF WJoin, At, FreePc, OwnedPc
<1>13. CASE WCloseFailed
  BY <1>13, <1>s, <1>t, <1>i, <1>j DEF WCloseFailed, At, FreePc, OwnedPc
<1>14. CASE WLoro
  BY <1>14, <1>s, <1>t, <1>i, <1>j DEF WLoro, At, FreePc, OwnedPc, write_document
<1>15. CASE WClose
  <2>1. w.pc = "close" /\ UNCHANGED task
    BY <1>15 DEF WClose, At
  <2>2. GoIdle \/ Goto("gate4")
    BY <1>15, Zenon DEF WClose
  <2> QED BY <2>1, <2>2, <1>s, <1>i, <1>j DEF OwnedPc
<1>16. CASE WCloseReceipt
  <2>1. w.pc = "close_receipt" /\ (UNCHANGED task \/ Q!PurgeTasks({w.s}))
    BY <1>16, Zenon DEF WCloseReceipt, At
  <2>2. GoIdle \/ Goto("gate_index")
    BY <1>16, Zenon DEF WCloseReceipt
  <2> QED BY <2>1, <2>2, <1>s, <1>i, <1>j, <1>p DEF OwnedPc
<1>17. CASE WReject
  BY <1>17, <1>s, <1>t, <1>i, <1>j, <1>m DEF WReject, At, FreePc, OwnedPc, Busy,
     Q!FailLocalPreflight
<1>18. CASE WDispatch
  <2>1. w.pc = "dispatch" /\ w'.s = w.s /\ UNCHANGED task
    BY <1>18, <1>t, <1>j DEF WDispatch, At, Worker, FreePc, OwnedPc
  <2>2. \/ w'.pc = "index" /\ receipt[w.s] = "valid"
        \/ w'.pc = "joined" /\ w'.res \in {"local", "error"}
        \/ w'.pc = "provider"
    BY <1>18, <1>t, <1>j DEF WDispatch, At, Worker, FreePc, OwnedPc
  <2> QED BY <2>1, <2>2, <1>s DEF Safe
<1>19. CASE WProviderOk
  <2>1. w.pc = "provider" /\ w.s \in Sessions /\ UNCHANGED task
    BY <1>19, <1>t DEF WProviderOk, At, Busy, OwnedPc
  <2>2. \/ w' = [w EXCEPT !.pc = "index", !.res = "ok"] /\ commit_async_provider_success(w.s)
        \/ w' = [w EXCEPT !.pc = "joined", !.res = "error"]
    BY <1>19, Zenon DEF WProviderOk
  <2>3. CASE w' = [w EXCEPT !.pc = "index", !.res = "ok"] /\ commit_async_provider_success(w.s)
    <3>1. receipt' = [receipt EXCEPT ![w.s] = "valid"]
      BY <2>3 DEF commit_async_provider_success
    <3>2. receipt'[w.s] = "valid"
      BY <2>1, <3>1 DEF Typed, RunOK
    <3>3. w.s # s /\ w'.s = w.s
      BY <1>t, <2>3, <3>2 DEF Worker, Safe
    <3> QED BY <1>s, <2>1, <3>3
  <2>4. CASE w' = [w EXCEPT !.pc = "joined", !.res = "error"]
    <3>1. w'.pc = "joined" /\ w'.s = w.s /\ w'.res = "error"
      BY <1>t, <2>4 DEF Worker
    <3> QED BY <1>s, <2>1, <3>1
  <2> QED BY <2>2, <2>3, <2>4
<1>20. CASE WProviderError
  BY <1>20, <1>s, <1>t, <1>i, <1>j DEF WProviderError, At, FreePc, OwnedPc, Worker
<1>21. CASE \/ WIndex \/ WReindex
  BY <1>21, <1>s, <1>t, <1>i, <1>j DEF WIndex, WReindex, At, FreePc, OwnedPc, project_search
<1>22. CASE WFinalize
  BY <1>22, <1>s, <1>t, <1>i, <1>j DEF WFinalize, At, FreePc, OwnedPc
<1>23. CASE WComplete
  BY <1>23, <1>s, <1>t, <1>i, <1>j, <1>m DEF WComplete, At, FreePc, OwnedPc, Busy,
     Q!Complete
<1>24. CASE WProject
  BY <1>24, <1>s, <1>t, <1>i, <1>j DEF WProject, At, FreePc, OwnedPc, begin_projection,
     GoDone
<1>25. CASE WSettle
  BY <1>25, <1>s, <1>t, <1>i, <1>j DEF WSettle, At, FreePc, OwnedPc, settle_projection,
     GoDone
<1>26. CASE WFailure
  BY <1>26, <1>s, <1>t, <1>i, <1>j, <1>m DEF WFailure, At, FreePc, OwnedPc, Busy,
     Q!FailLocalPreflight, Q!Fail
<1>27. CASE \/ WReconcile \/ WFault
  BY <1>27, <1>s, <1>t, <1>i, <1>j DEF WReconcile, WFault, At, FreePc, OwnedPc
<1>28. CASE WHeartbeat
  BY <1>28, <1>s, <1>t, <1>m, <1>k DEF WHeartbeat, At, FreePc, OwnedPc, Busy, HandlerPc,
     Q!Heartbeat
<1>29. CASE GEnqueue
  BY <1>29, <1>s, <1>t, <1>0 DEF GEnqueue, Holding, Q!Enqueue, Q!Pending, Rows
<1>30. CASE GTaskRebuild
  BY <1>30, <1>s, <1>t, <1>0, <1>k DEF GTaskRebuild, Holding, Q!Enqueue, Rows, GateReads,
     Gates, Safe, EnsurePc
<1>31. CASE GCloseTask
  BY <1>31, <1>s, <1>t, <1>0, <1>k, <1>m DEF GCloseTask, Holding, Q!CompleteFromReceipt,
     GateReads, Gates, Safe, EnsurePc
<1>32. CASE GPhase
  BY <1>32, <1>s, <1>t, <1>0, <1>k, <1>p DEF GPhase, Holding, Typed, PurgeOK, Purging, Safe
<1>33. CASE Restart
  BY <1>33, <1>s DEF Restart, Q!RecoverAbandoned, Quiet, IdleWorker
<1>34. CASE SNextStage
  BY <1>34, <1>s, <1>0 DEF SNextStage, IdleWorker
<1>35. CASE Crash
  BY <1>35, <1>s DEF Crash, IdleWorker
<1>36. CASE LoseTasksDb
  BY <1>36, <1>s, <1>p DEF LoseTasksDb, Quiet, IdleWorker
<1>37. ASSUME NEW x \in Sessions, ExpireLease(x) PROVE Body'
  BY <1>37, <1>k, <1>t DEF ExpireLease, Q!Expire, Rows, Q!Row
<1>38. CASE \/ GReserve \/ GMark \/ GReceipt \/ GTaskFound \/ GTaskLost \/ GPromote \/ GDecide
           \/ GIndex \/ GPrivacy \/ GCloseRun \/ GFault \/ GProject \/ GLoro \/ GSettle
           \/ GStop \/ GWait \/ GWaitTimeout \/ GPhaseFault \/ GRecord \/ GFinish
           \/ ToggleKey
  BY <1>38, <1>0 DEF GReserve, GMark, GReceipt, GTaskFound, GTaskLost, GPromote, GDecide,
     GIndex, GPrivacy, GCloseRun, GFault, GProject, GLoro, GSettle, GStop, GWait,
     GWaitTimeout, GPhaseFault, GRecord, GFinish, ToggleKey
<1>39. ASSUME NEW x \in Sessions,
             \/ GRequest(x) \/ GRetryProjection(x) \/ GPurge(x) \/ SPurge(x) \/ SSearch(x)
             \/ STask(x) \/ SProjection(x) \/ CorruptReceipt(x)
      PROVE Body'
  BY <1>39, <1>0 DEF GRequest, GRetryProjection, GPurge, SPurge, SSearch, STask,
     SProjection, CorruptReceipt
<1>40. CASE UNCHANGED vars
  BY <1>40, <1>0 DEF vars, runVars, fileVars, lifeVars, histVars
<1> QED
  BY <1>1, <1>2, <1>3, <1>4, <1>5, <1>6, <1>7, <1>8, <1>9, <1>10, <1>11, <1>12, <1>13,
     <1>14, <1>15, <1>16, <1>17, <1>18, <1>19, <1>20, <1>21, <1>22, <1>23, <1>24, <1>25,
     <1>26, <1>27, <1>28, <1>29, <1>30, <1>31, <1>32, <1>33, <1>34, <1>35, <1>36, <1>37,
     <1>38, <1>39, <1>40 DEF Next, Worker_Next, User, Gate_Step, Startup_Step, Environment

(* While every local read and write works, nothing moves the run of a session
   whose worker is about to call the provider. *)
LEMMA WantedStep ==
  ASSUME Typed, GoneRuns, Quiet, [Next]_vars, NEW s \in Sessions,
         GateReads(s), RowHeld(s), Wanted(s)
  PROVE  Wanted(s)'
<1> SUFFICES ASSUME faults' = 0, ~Safe(s)', Works({"gate2", "dispatch"}, s)'
              PROVE  async'[s] = "enqueued"
  BY DEF Wanted, HasNoResult
<1>z. faults = 0 /\ ~Fault
  BY CountersGrow DEF Fault
<1>s. ~Safe(s)
  BY SafeStays
<1>r. Works({"gate2", "dispatch"}, s) => async[s] = "enqueued" /\ task[s].status = "running"
  BY <1>z, <1>s DEF Wanted, RowHeld, HasNoResult, Works, HolderPc, Q!Is
<1>t. /\ w \in Worker /\ (w.pc \in Busy => w.s \in Sessions)
      /\ g \in Gate /\ (g.pc # "free" => g.s \in Sessions)
      /\ async \in [Sessions -> AsyncState]
  BY DEF Typed, WorkerOK, GateOK, RunOK
<1> USE DEF Works
<1>0. UNCHANGED <<w, async>> => async'[s] = "enqueued"
  BY <1>r
<1>g. UNCHANGED w /\ async'[s] = async[s] => async'[s] = "enqueued"
  BY <1>r
<1>i. ~GoIdle
  BY DEF GoIdle, IdleWorker
<1>j. \A pc \in FreePc \cup OwnedPc : Goto(pc) => w'.pc = pc /\ w'.s = w.s
  BY <1>t DEF Goto, Worker
<1>1. CASE \/ WSweep \/ WQuarantined \/ WReceiptsDone
  BY <1>1, <1>t, <1>i, <1>j DEF WSweep, WQuarantined, WReceiptsDone, At, FreePc, OwnedPc
<1>2. CASE \/ WCredential \/ WRegister
  BY <1>2, <1>t, <1>i, <1>j DEF WCredential, WRegister, At, FreePc, OwnedPc
<1>3. CASE WGateStop
  BY <1>3, <1>t, <1>i, <1>j DEF WGateStop, At, FreePc, OwnedPc
<1>4. CASE \/ WReject \/ WComplete
  BY <1>4, <1>t, <1>i, <1>j DEF WReject, WComplete, At, FreePc, OwnedPc
<1>5. CASE \/ WReconcile \/ WFault
  BY <1>5, <1>t, <1>i, <1>j DEF WReconcile, WFault, At, FreePc, OwnedPc
<1>6. CASE \/ WJoin \/ WFinalize
  BY <1>6, <1>t, <1>i, <1>j DEF WJoin, WFinalize, At, FreePc, OwnedPc
<1>7. CASE WFailure
  BY <1>7, <1>t, <1>i, <1>j DEF WFailure, At, FreePc, OwnedPc
<1>8. CASE WCloseFailed
  BY <1>8, <1>t, <1>i, <1>j DEF WCloseFailed, At, FreePc, OwnedPc
<1>9. CASE \/ WScan \/ WQuarantineTask \/ WQuarantineRun
  BY <1>9, <1>t, <1>i, <1>j DEF WScan, WQuarantineTask, WQuarantineRun, At, FreePc, OwnedPc,
     Worker
<1>10. CASE \/ WReceipt \/ WClaimNext
  BY <1>10, <1>t, <1>i, <1>j DEF WReceipt, WClaimNext, At, FreePc, OwnedPc, Worker,
     IdleWorker
<1>11. CASE WGatePass
  BY <1>11, <1>t, <1>i, <1>j, <1>r DEF WGatePass, At, FreePc, OwnedPc, AfterGate, runVars
<1>12. CASE WVerify
  BY <1>12, <1>t, <1>i, <1>j, <1>s, <1>z DEF WVerify, At, FreePc, OwnedPc, VerifyOk,
     mark_async_task_enqueued, MayMarkEnqueued, Safe, Busy
<1>13. CASE WDispatch
  <2>1. w'.pc \in {"index", "joined", "provider"}
    BY <1>13, <1>t, <1>j DEF WDispatch, At, Worker, FreePc, OwnedPc
  <2> QED BY <2>1
<1>14. CASE \/ WProviderOk \/ WProviderError
  BY <1>14, <1>t, <1>i, <1>j DEF WProviderOk, WProviderError, At, FreePc, OwnedPc, Worker
<1>15. CASE \/ WIndex \/ WReindex
  BY <1>15, <1>t, <1>i, <1>j DEF WIndex, WReindex, At, FreePc, OwnedPc, project_search
<1>16. CASE WProject
  BY <1>16, <1>t, <1>i, <1>j DEF WProject, At, FreePc, OwnedPc, begin_projection, GoDone
<1>17. CASE WLoro
  BY <1>17, <1>t, <1>i, <1>j DEF WLoro, At, FreePc, OwnedPc, write_document
<1>18. CASE WSettle
  BY <1>18, <1>t, <1>i, <1>j DEF WSettle, At, FreePc, OwnedPc, settle_projection, GoDone
<1>19. CASE WClose
  <2>1. GoIdle \/ Goto("gate4")
    BY <1>19, Zenon DEF WClose
  <2> QED BY <2>1, <1>i, <1>j DEF OwnedPc
<1>20. CASE WCloseReceipt
  <2>1. GoIdle \/ Goto("gate_index")
    BY <1>20, Zenon DEF WCloseReceipt
  <2> QED BY <2>1, <1>i, <1>j DEF OwnedPc
<1>21. CASE GReserve
  BY <1>21, <1>t, <1>0, <1>g, <1>r, <1>s, <1>z DEF GReserve, Holding, runVars, GoneRuns
<1>22. CASE \/ GMark \/ GPromote
  BY <1>22, <1>t, <1>0, <1>g, <1>r, <1>s, <1>z DEF GMark, GPromote, Holding, runVars,
     mark_async_task_enqueued
<1>23. CASE GTaskLost
  BY <1>23, <1>t, <1>0, <1>g, <1>r, <1>s, <1>z DEF GTaskLost, Holding, runVars,
     mark_async_task_terminal, Q!Present
<1>24. CASE GDecide
  BY <1>24, <1>t, <1>0, <1>g, <1>r, <1>s, <1>z DEF GDecide, Holding, runVars,
     mark_async_task_terminal, DecideCloses, GateReads, Gates, Ended
<1>25. CASE GCloseRun
  BY <1>25, <1>t, <1>0, <1>g, <1>r, <1>s, <1>z DEF GCloseRun, Holding, runVars,
     mark_async_task_terminal, GateReads, Gates, Safe
<1>26. CASE GPhase
  BY <1>26, <1>t, <1>0, <1>g, <1>r, <1>s, <1>z DEF GPhase, Holding, runVars,
     purge_session_artifacts, Typed, PurgeOK, Purging, Safe
<1>27. ASSUME NEW x \in Sessions, GRequest(x) PROVE async'[s] = "enqueued"
  BY <1>27, <1>t, <1>0, <1>g, <1>r, <1>s, <1>z DEF GRequest, Holding, runVars
<1>28. CASE Restart
  BY <1>28, <1>t DEF Restart, Quiet, IdleWorker
<1>29. CASE SNextStage
  BY <1>29, <1>0 DEF SNextStage, IdleWorker, runVars
<1>30. CASE Crash
  BY <1>30, <1>t DEF Crash, IdleWorker
<1>31. CASE \/ GFault \/ LoseTasksDb
  BY <1>31, <1>z DEF GFault, LoseTasksDb
<1>32. CASE WHeartbeat
  BY <1>32, <1>0 DEF WHeartbeat, runVars, begin_projection, settle_projection,
     project_search
<1>33. CASE \/ GEnqueue \/ GReceipt \/ GTaskFound \/ GTaskRebuild \/ GIndex \/ GPrivacy \/ GCloseTask
           \/ GProject \/ GLoro \/ GSettle \/ GStop \/ GWait \/ GWaitTimeout \/ GPhaseFault
           \/ GRecord \/ GFinish \/ ToggleKey
  BY <1>33, <1>0 DEF GEnqueue, GReceipt, GTaskFound, GTaskRebuild, GIndex, GPrivacy,
     GCloseTask, GProject, GLoro, GSettle, GStop, GWait, GWaitTimeout, GPhaseFault, GRecord,
     GFinish, ToggleKey, runVars, begin_projection, settle_projection, project_search
<1>34. ASSUME NEW x \in Sessions,
             \/ GRetryProjection(x) \/ GPurge(x) \/ SPurge(x) \/ SSearch(x) \/ STask(x)
             \/ SProjection(x) \/ ExpireLease(x) \/ CorruptReceipt(x)
      PROVE async'[s] = "enqueued"
  BY <1>34, <1>0 DEF GRetryProjection, GPurge, SPurge, SSearch, STask, SProjection,
     ExpireLease, CorruptReceipt, runVars, begin_projection, settle_projection,
     project_search
<1>35. CASE UNCHANGED vars
  BY <1>35, <1>0 DEF vars, runVars, fileVars, lifeVars, histVars
<1> QED
  BY <1>1, <1>2, <1>3, <1>4, <1>5, <1>6, <1>7, <1>8, <1>9, <1>10, <1>11, <1>12, <1>13,
     <1>14, <1>15, <1>16, <1>17, <1>18, <1>19, <1>20, <1>21, <1>22, <1>23, <1>24, <1>25,
     <1>26, <1>27, <1>28, <1>29, <1>30, <1>31, <1>32, <1>33, <1>34, <1>35 DEF Next,
     Worker_Next, User, Gate_Step, Startup_Step, Environment

(* An upload is made only when the attempt is still there to spend, or after a
   crash or a local error has interrupted the worker. *)
LEMMA AccountedStep ==
  ASSUME Typed, GoneRuns, Quiet, [Next]_vars, NEW s \in Sessions,
         GateReads(s), RowHeld(s), Accounted(s)
  PROVE  Accounted(s)'
<1> DEFINE InUse == {"provider", "joined", "gate3", "failure"}
<1> DEFINE Slack == faults' = faults + 1 \/ crashes' = crashes + 1
<1> DEFINE Goal == /\ attempts'[s] = attempts[s]
                   /\ Works(InUse, s) /\ ~Safe(s) =>
                        Works(InUse, s)' \/ Ended(s)' \/ Safe(s)' \/ Slack
<1>c. /\ faults' \in Nat /\ crashes' \in Nat /\ faults \in Nat /\ crashes \in Nat
      /\ faults' >= faults /\ crashes' >= crashes
  BY CountersGrow
<1>n. attempts \in [Sessions -> 0..AttemptCap] /\ attempts[s] \in Nat
  BY AsyncAssumption DEF Typed, HistOK
<1>s. Safe(s) => Safe(s)'
  BY SafeStays
<1>e. Ended(s) => Ended(s)' \/ Safe(s) \/ Slack
  BY EndedStays DEF Safe, Gone
<1>y. Goal => Accounted(s)'
  BY <1>c, <1>n, <1>s, <1>e DEF Accounted, Spent, HasNoResult
<1>t. w \in Worker /\ (w.pc \in Busy => w.s \in Sessions) /\ task \in Rows
  BY DEF Typed, WorkerOK
<1>h. Works(InUse, s) /\ ~Safe(s) =>
        /\ task[s].status = "running" /\ task[s].max = 1 /\ task[s].retry \in Nat
        /\ (w.pc # "provider" => w.res \in {"local", "error"})
  BY <1>t DEF RowHeld, HasNoResult, Works, HolderPc, Q!Is, Q!Present, Rows, Q!Row
<1> USE DEF Works
<1>0. UNCHANGED <<w, attempts>> => Goal
  OBVIOUS
<1>j. \A pc \in FreePc \cup OwnedPc : Goto(pc) => w'.pc = pc /\ w'.s = w.s
  BY <1>t DEF Goto, Worker
<1>w. w.pc \notin InUse /\ UNCHANGED attempts => Goal
  OBVIOUS
<1>1. CASE WDispatch
  <2>1. w.pc = "dispatch" /\ UNCHANGED <<faults, crashes>>
    BY <1>1 DEF WDispatch, At
  <2>2. CASE UNCHANGED attempts
    BY <2>1, <2>2, <1>w, <1>y
  <2>3. CASE /\ receipt[w.s] = "none" /\ MayClaimProvenance(w.s)
             /\ attempts' = [attempts EXCEPT ![w.s] = attempts[w.s] + 1] /\ Goto("provider")
    <3>1. CASE w.s # s
      BY <2>1, <2>3, <3>1, <1>n, <1>y
    <3>2. CASE w.s = s
      <4>1. ~Safe(s)
        BY <2>3, <3>2 DEF MayClaimProvenance, Safe
      <4>2. task[s].status = "running"
        BY <2>1, <3>2, <4>1 DEF RowHeld, HasNoResult, HolderPc, Q!Is
      <4>3. attempts[s] <= crashes + faults
        BY <2>1, <4>1, <4>2 DEF Accounted, Spent, HasNoResult, Ended
      <4>7. attempts'[s] = attempts[s] + 1
        BY <2>3, <3>2, <1>n, AsyncAssumption
      <4>8. w'.pc = "provider" /\ w'.s = s
        BY <2>3, <3>2, <1>j DEF OwnedPc
      <4>4. attempts'[s] = attempts[s] + 1 /\ Works({"provider", "joined", "gate3", "failure"}, s)'
        BY <4>7, <4>8
      <4>5. Spent(s)'
        BY <4>4 DEF Spent
      <4>6. attempts'[s] <= 1 + crashes' + faults'
        BY <2>1, <4>3, <4>4, <1>n, <1>c
      <4> QED BY <4>5, <4>6 DEF Accounted
    <3> QED BY <3>1, <3>2
  <2>4. receipt[w.s] \in {"none", "valid", "corrupt"}
    BY <2>1, <1>t DEF Typed, RunOK, Busy, OwnedPc
  <2>5. UNCHANGED attempts \/ attempts' = [attempts EXCEPT ![w.s] = attempts[w.s] + 1]
    BY <1>1 DEF WDispatch
  <2>6. UNCHANGED attempts \/ MayClaimProvenance(w.s)
    BY <1>1 DEF WDispatch
  <2>7. UNCHANGED attempts \/ Goto("provider")
    BY <1>1 DEF WDispatch
  <2>8. UNCHANGED attempts \/ receipt[w.s] \notin {"valid", "corrupt"}
    BY <1>1 DEF WDispatch
  <2> QED BY <2>2, <2>3, <2>4, <2>5, <2>6, <2>7, <2>8
<1>2. CASE \/ WSweep \/ WScan \/ WQuarantineTask \/ WQuarantineRun \/ WQuarantined \/ WReceipt
           \/ WReceiptsDone \/ WClaimNext \/ WCredential \/ WRegister
  BY <1>2, <1>y, <1>w DEF WSweep, WScan, WQuarantineTask, WQuarantineRun, WQuarantined,
     WReceipt, WReceiptsDone, WClaimNext, WCredential, WRegister, At, histVars
<1>3. CASE \/ WVerify \/ WReject \/ WCloseFailed \/ WIndex \/ WFinalize \/ WComplete \/ WClose
  BY <1>3, <1>y, <1>w DEF WVerify, WReject, WCloseFailed, WIndex, WFinalize, WComplete,
     WClose, At, histVars
<1>4. CASE \/ WProject \/ WLoro \/ WSettle \/ WReconcile \/ WCloseReceipt \/ WReindex
  BY <1>4, <1>y, <1>w DEF WProject, WLoro, WSettle, WReconcile, WCloseReceipt, WReindex, At,
     histVars, write_document
<1>5. CASE \/ WProviderOk \/ WProviderError
  BY <1>5, <1>y, <1>t DEF WProviderOk, WProviderError, At, histVars, Worker,
     commit_async_provider_success, Safe, Typed, RunOK, Busy, OwnedPc
<1>6. CASE WJoin
  BY <1>6, <1>y, <1>j, <1>s DEF WJoin, At, histVars, Quiet, Gone, Safe, OwnedPc
<1>7. CASE WGatePass
  BY <1>7, <1>y, <1>j, <1>w, <1>h DEF WGatePass, AfterGate, histVars, OwnedPc
<1>8. CASE WGateStop
  BY <1>8, <1>y, <1>w, <1>h, <1>s DEF WGateStop, AfterGate, Quiet, Gone, Safe, Fault,
     Q!Present
<1>9. CASE WFailure
  <2> SUFFICES ASSUME Works(InUse, s), ~Safe(s)
               PROVE  Ended(s)' \/ Slack
    BY <1>9, <1>y DEF WFailure
  <2>1. CASE Fault
    BY <2>1 DEF Fault
  <2>2. CASE ~Fault
    <3>1. receipt[s] = "none"
      BY DEF Safe
    <3>2. (w.res = "local" /\ Q!FailLocalPreflight(s)) \/ Q!Fail(s)
      BY <1>9, <2>2, <3>1, <1>h DEF WFailure, At, Q!Is
    <3> QED BY <3>2, <1>h, <1>t DEF Q!FailLocalPreflight, Q!Fail, Q!Move, Ended, Rows
  <2> QED BY <2>1, <2>2
<1>10. CASE WFault
  BY <1>10, <1>y, <1>w DEF WFault, Fault
<1>11. CASE Restart
  BY <1>11, <1>y, <1>w DEF Restart, Quiet, IdleWorker, histVars
<1>12. CASE SNextStage
  BY <1>12, <1>y, <1>w, <1>0 DEF SNextStage, Quiet, IdleWorker, histVars
<1>13. CASE Crash
  BY <1>13, <1>y DEF Crash
<1>14. CASE WHeartbeat
  BY <1>14, <1>y, <1>0 DEF WHeartbeat, histVars
<1>15. CASE \/ GReserve \/ GEnqueue \/ GMark \/ GReceipt \/ GTaskFound \/ GTaskRebuild \/ GTaskLost
           \/ GPromote \/ GDecide \/ GIndex \/ GPrivacy \/ GCloseTask \/ GCloseRun
           \/ GFault \/ GProject \/ GLoro \/ GSettle \/ GStop \/ GWait \/ GWaitTimeout
           \/ GPhase \/ GPhaseFault \/ GRecord \/ GFinish \/ LoseTasksDb \/ ToggleKey
  BY <1>15, <1>y, <1>0 DEF GReserve, GEnqueue, GMark, GReceipt, GTaskFound, GTaskRebuild,
     GTaskLost, GPromote, GDecide, GIndex, GPrivacy, GCloseTask, GCloseRun, GFault,
     GProject, GLoro, GSettle, GStop, GWait, GWaitTimeout, GPhase, GPhaseFault, GRecord,
     GFinish, LoseTasksDb, ToggleKey, histVars
<1>16. ASSUME NEW x \in Sessions,
             \/ GRequest(x) \/ GRetryProjection(x) \/ GPurge(x) \/ SPurge(x) \/ SSearch(x)
             \/ STask(x) \/ SProjection(x) \/ ExpireLease(x) \/ CorruptReceipt(x)
      PROVE Accounted(s)'
  BY <1>16, <1>y, <1>0 DEF GRequest, GRetryProjection, GPurge, SPurge, SSearch, STask,
     SProjection, ExpireLease, CorruptReceipt, histVars
<1>17. CASE UNCHANGED vars
  BY <1>y, <1>17, <1>0 DEF vars, runVars, fileVars, lifeVars, histVars
<1> QED
  BY <1>1, <1>2, <1>3, <1>4, <1>5, <1>6, <1>7, <1>8, <1>9, <1>10, <1>11, <1>12, <1>13,
     <1>14, <1>15, <1>16, <1>17 DEF Next, Worker_Next, User, Gate_Step, Startup_Step,
     Environment

(* Only the dispatch of a task calls the provider. *)
LEMMA OnlyDispatchUploads ==
  ASSUME Typed, [Next]_vars, NEW s \in Sessions, attempts'[s] # attempts[s]
  PROVE  w.pc = "dispatch" /\ w.s = s /\ MayClaimProvenance(s) /\ receipt[s] = "none"
<1> DEFINE Goal == w.pc = "dispatch" /\ w.s = s /\ MayClaimProvenance(s) /\ receipt[s] = "none"
<1> SUFFICES Goal
  OBVIOUS
<1>0. UNCHANGED attempts => Goal
  OBVIOUS
<1>1. CASE WDispatch
  <2>1. w.pc = "dispatch" /\ w.s \in Sessions
    BY <1>1 DEF WDispatch, At, Typed, WorkerOK, Busy, OwnedPc
  <2>2. attempts' = [attempts EXCEPT ![w.s] = attempts[w.s] + 1]
    BY <1>1 DEF WDispatch
  <2>3. w.s = s
    BY <2>2 DEF Typed, HistOK
  <2>4. MayClaimProvenance(w.s)
    BY <1>1 DEF WDispatch
  <2>5. receipt[w.s] \notin {"valid", "corrupt"}
    BY <1>1 DEF WDispatch
  <2> QED BY <2>1, <2>3, <2>4, <2>5 DEF Typed, RunOK
<1>2. CASE \/ WSweep \/ WScan \/ WQuarantineTask \/ WQuarantineRun \/ WQuarantined \/ WReceipt
           \/ WReceiptsDone \/ WClaimNext \/ WCredential \/ WRegister \/ WGateStop
           \/ WGatePass \/ WVerify \/ WReject \/ WCloseFailed \/ WProviderOk
           \/ WProviderError \/ WIndex \/ WJoin \/ WFinalize \/ WComplete \/ WClose
           \/ WProject \/ WLoro \/ WSettle \/ WFailure \/ WReconcile \/ WCloseReceipt
           \/ WReindex \/ WFault \/ WHeartbeat
  BY <1>2, <1>0 DEF WSweep, WScan, WQuarantineTask, WQuarantineRun, WQuarantined, WReceipt,
     WReceiptsDone, WClaimNext, WCredential, WRegister, WGateStop, WGatePass, WVerify,
     WReject, WCloseFailed, WProviderOk, WProviderError, WIndex, WJoin, WFinalize,
     WComplete, WClose, WProject, WLoro, WSettle, WFailure, WReconcile, WCloseReceipt,
     WReindex, WFault, WHeartbeat, histVars, write_document
<1>3. CASE \/ GReserve \/ GEnqueue \/ GMark \/ GReceipt \/ GTaskFound \/ GTaskRebuild \/ GTaskLost
           \/ GPromote \/ GDecide \/ GIndex \/ GPrivacy \/ GCloseTask \/ GCloseRun
           \/ GFault \/ GProject \/ GLoro \/ GSettle \/ GStop \/ GWait \/ GWaitTimeout
           \/ GPhase \/ GPhaseFault \/ GRecord \/ GFinish \/ Restart \/ SNextStage \/ Crash
           \/ LoseTasksDb \/ ToggleKey
  BY <1>3, <1>0 DEF GReserve, GEnqueue, GMark, GReceipt, GTaskFound, GTaskRebuild,
     GTaskLost, GPromote, GDecide, GIndex, GPrivacy, GCloseTask, GCloseRun, GFault,
     GProject, GLoro, GSettle, GStop, GWait, GWaitTimeout, GPhase, GPhaseFault, GRecord,
     GFinish, Restart, SNextStage, Crash, LoseTasksDb, ToggleKey, histVars, write_document
<1>4. ASSUME NEW x \in Sessions,
             \/ GRequest(x) \/ GRetryProjection(x) \/ GPurge(x) \/ SPurge(x) \/ SSearch(x)
             \/ STask(x) \/ SProjection(x) \/ ExpireLease(x) \/ CorruptReceipt(x)
      PROVE Goal
  BY <1>4, <1>0 DEF GRequest, GRetryProjection, GPurge, SPurge, SSearch, STask, SProjection,
     ExpireLease, CorruptReceipt, histVars, write_document
<1>5. CASE UNCHANGED vars
  BY <1>5, <1>0 DEF vars, runVars, fileVars, lifeVars, histVars
<1> QED
  BY <1>1, <1>2, <1>3, <1>4, <1>5 DEF Next, Worker_Next, User, Gate_Step, Startup_Step,
     Environment

(* The worker registers for a session only from its claim or its completed row,
   and passes the purge gate only while the session is not being deleted. *)
LEMMA WorkerReach ==
  ASSUME Typed, Worker_Next \/ WHeartbeat, NEW s \in Sessions
  PROVE  /\ Registered(s)' =>
              \/ Registered(s)
              \/ /\ s \notin blocked
                 /\ \/ Works({"register"}, s) /\ w'.pc = "gate1"
                    \/ Works({"reconcile"}, s) /\ w'.pc = "gate_close"
         /\ Registered(s)' /\ Works({"gate1", "gate_close"}, s) =>
              w'.pc = w.pc \/ (~Tombstoned(s) /\ Q!Present(s))
         /\ Works({"credential", "register", "reconcile"}, s)' =>
              Works({"credential"}, s) \/ Q!Present(s)
<1> DEFINE Enter == \/ Works({"register"}, s) /\ w'.pc = "gate1"
                    \/ Works({"reconcile"}, s) /\ w'.pc = "gate_close"
<1> DEFINE A == Registered(s)' => Registered(s) \/ (s \notin blocked /\ Enter)
<1> DEFINE B == Registered(s)' /\ Works({"gate1", "gate_close"}, s) =>
                  w'.pc = w.pc \/ (~Tombstoned(s) /\ Q!Present(s))
<1> DEFINE C == Works({"credential", "register", "reconcile"}, s)' =>
                  Works({"credential"}, s) \/ Q!Present(s)
<1> SUFFICES A /\ B /\ C
  OBVIOUS
<1>t. w \in Worker
  BY DEF Typed, WorkerOK
<1> USE DEF Works, Registered
<1>i. GoIdle => A /\ B /\ C
  BY DEF GoIdle, IdleWorker, OwnedPc
<1>j. ASSUME NEW pc \in FreePc \cup OwnedPc, Goto(pc)
      PROVE  w'.pc = pc /\ w'.s = w.s
  BY <1>j, <1>t DEF Goto, Worker
<1>k. w'.s = w.s /\ w.pc \in OwnedPc \ {"gate1", "gate_close"} /\ w'.pc \in OwnedPc
        => A /\ B /\ C
  BY DEF OwnedPc
<1>f. w'.pc \in FreePc \ {"credential", "register", "reconcile"} => A /\ B /\ C
  BY DEF OwnedPc, FreePc
<1>0. UNCHANGED w /\ w.pc \notin {"credential", "register", "reconcile"} => A /\ B /\ C
  OBVIOUS
<1>1. CASE \/ WSweep \/ WQuarantined \/ WReceiptsDone
  BY <1>1, <1>i, <1>j, <1>f DEF WSweep, WQuarantined, WReceiptsDone, At, OwnedPc, FreePc
<1>2. CASE \/ WScan \/ WQuarantineTask \/ WQuarantineRun
  BY <1>2, <1>t, <1>f DEF WScan, WQuarantineTask, WQuarantineRun, At, OwnedPc, FreePc,
     Worker
<1>3. CASE WReceipt
  <2>1. PICK x \in w.scan :
          \/ (Q!Is(x, "completed") \/ Q!Claimable(x)) /\ w'.pc \in {"reconcile", "register"} /\ w'.s = x
          \/ w'.pc = w.pc
    BY <1>3, <1>t DEF WReceipt, IdleWorker, Worker, Q!Claim
  <2>2. w.pc = "receipts"
    BY <1>3 DEF WReceipt, At
  <2> QED BY <2>1, <2>2 DEF Q!Is, Q!Claimable, Q!Present, OwnedPc
<1>4. CASE WClaimNext
  <2>1. GoIdle \/ \E x \in Sessions : Q!Claimable(x) /\ w'.pc = "credential" /\ w'.s = x
    BY <1>4, <1>t DEF WClaimNext, IdleWorker, Q!Claim
  <2> QED BY <2>1, <1>i DEF Q!Is, Q!Claimable, Q!Present, OwnedPc
<1>5. CASE WCredential
  BY <1>5, <1>i, <1>j DEF WCredential, At, OwnedPc, FreePc
<1>6. CASE WRegister
  BY <1>6, <1>i, <1>j DEF WRegister, At, OwnedPc, FreePc
<1>7. CASE WReconcile
  BY <1>7, <1>i, <1>j DEF WReconcile, At, OwnedPc, FreePc
<1>8. CASE WGateStop
  BY <1>8, <1>i DEF WGateStop
<1>9. CASE WGatePass
  BY <1>9, <1>i, <1>j DEF WGatePass, At, OwnedPc, FreePc, AfterGate
<1>10. CASE WVerify
  BY <1>10, <1>i, <1>j, <1>k DEF WVerify, At, OwnedPc, FreePc
<1>11. CASE WReject
  BY <1>11, <1>i, <1>j, <1>k DEF WReject, At, OwnedPc, FreePc
<1>12. CASE WJoin
  BY <1>12, <1>i, <1>j, <1>k DEF WJoin, At, OwnedPc, FreePc
<1>13. CASE WFinalize
  BY <1>13, <1>i, <1>j, <1>k DEF WFinalize, At, OwnedPc, FreePc
<1>14. CASE WComplete
  BY <1>14, <1>i, <1>j, <1>k DEF WComplete, At, OwnedPc, FreePc
<1>15. CASE WFailure
  BY <1>15, <1>i, <1>j, <1>k DEF WFailure, At, OwnedPc, FreePc
<1>16. CASE \/ WCloseFailed \/ WFault
  BY <1>16, <1>i DEF WCloseFailed, WFault
<1>17. CASE WDispatch
  <2>1. w'.pc \in {"index", "joined", "provider"} /\ w'.s = w.s /\ w.pc = "dispatch"
    BY <1>17, <1>t, <1>j DEF WDispatch, At, Worker, FreePc, OwnedPc
  <2> QED BY <2>1, <1>k DEF OwnedPc
<1>18. CASE \/ WProviderOk \/ WProviderError
  <2>1. w.pc = "provider"
    BY <1>18 DEF WProviderOk, WProviderError, At
  <2>2. \/ w' = [w EXCEPT !.pc = "index", !.res = "ok"]
        \/ w' = [w EXCEPT !.pc = "joined", !.res = "error"]
    BY <1>18, Zenon DEF WProviderOk, WProviderError
  <2>3. w'.s = w.s /\ w'.pc \in {"index", "joined"}
    BY <1>t, <2>2 DEF Worker
  <2> QED BY <1>k, <2>1, <2>3 DEF OwnedPc
<1>19. CASE \/ WIndex \/ WReindex
  BY <1>19, <1>j, <1>k DEF WIndex, WReindex, At, OwnedPc, FreePc
<1>20. CASE WProject
  BY <1>20, <1>i, <1>j, <1>k DEF WProject, At, OwnedPc, FreePc, begin_projection, GoDone
<1>21. CASE WLoro
  BY <1>21, <1>j, <1>k DEF WLoro, At, OwnedPc, FreePc, write_document
<1>22. CASE WSettle
  BY <1>22, <1>i, <1>j, <1>k DEF WSettle, At, OwnedPc, FreePc, settle_projection, GoDone
<1>23. CASE WClose
  <2>1. GoIdle \/ Goto("gate4")
    BY <1>23, Zenon DEF WClose
  <2>2. w.pc = "close"
    BY <1>23 DEF WClose, At
  <2> QED BY <2>1, <2>2, <1>i, <1>j, <1>k DEF OwnedPc
<1>24. CASE WCloseReceipt
  <2>1. GoIdle \/ Goto("gate_index")
    BY <1>24, Zenon DEF WCloseReceipt
  <2>2. w.pc = "close_receipt"
    BY <1>24 DEF WCloseReceipt, At
  <2> QED BY <2>1, <2>2, <1>i, <1>j, <1>k DEF OwnedPc
<1>25. CASE WHeartbeat
  BY <1>25, <1>0 DEF WHeartbeat, HandlerPc
<1> QED
  BY <1>1, <1>2, <1>3, <1>4, <1>5, <1>6, <1>7, <1>8, <1>9, <1>10, <1>11, <1>12, <1>13,
     <1>14, <1>15, <1>16, <1>17, <1>18, <1>19, <1>20, <1>21, <1>22, <1>23, <1>24, <1>25 DEF
     Worker_Next

(* What the worker's steps do to the session's data: nothing that is gone comes
   back, except the document, which it writes while it is registered, and the
   receipt of an enqueued run. *)
LEMMA WorkerTouches ==
  ASSUME Typed, Worker_Next \/ WHeartbeat, NEW s \in Sessions
  PROVE  /\ doc'[s] => doc[s] \/ Works({"loro"}, s)
         /\ Q!Present(s)' => Q!Present(s)
         /\ audio'[s] => audio[s]
         /\ receipt'[s] # "none" => receipt[s] # "none" \/ async[s] = "enqueued"
<1> DEFINE A == doc'[s] => doc[s] \/ Works({"loro"}, s)
<1> DEFINE B == Q!Present(s)' => Q!Present(s)
<1> DEFINE C == audio'[s] => audio[s]
<1> DEFINE D == receipt'[s] # "none" => receipt[s] # "none" \/ async[s] = "enqueued"
<1> SUFFICES A /\ B /\ C /\ D
  OBVIOUS
<1>t. /\ w \in Worker /\ (w.pc \in Busy => w.s \in Sessions)
      /\ task \in Rows /\ receipt \in [Sessions -> {"none", "valid", "corrupt"}]
      /\ audio \in [Sessions -> BOOLEAN] /\ doc \in [Sessions -> BOOLEAN]
  BY DEF Typed, WorkerOK, RunOK, FileOK
<1> USE DEF Works
<1>m. ASSUME NEW x, NEW status, NEW retry, NEW lease, Q!Move(x, status, retry, lease), Q!Present(x)
      PROVE  B
  BY <1>m, <1>t DEF Q!Move, Q!Present, Rows
<1>p. ASSUME NEW S, Q!PurgeTasks(S) PROVE B
  BY <1>p DEF Q!PurgeTasks, Q!NoRow, Q!Present
<1>b. UNCHANGED task => B
  BY DEF Q!Present
<1>a. UNCHANGED doc => A
  OBVIOUS
<1>c. UNCHANGED audio => C
  OBVIOUS
<1>d. UNCHANGED receipt => D
  OBVIOUS
<1>0. UNCHANGED <<doc, audio, receipt>> => A /\ C /\ D
  OBVIOUS
<1>q. \A x : Q!Is(x, "running") \/ Q!Claimable(x) => Q!Present(x)
  BY DEF Q!Is, Q!Claimable, Q!Present
<1>1. CASE WQuarantineTask
  BY <1>1, <1>0, <1>m, <1>b, <1>q DEF WQuarantineTask, fileVars, runVars
<1>2. CASE \/ WReceipt \/ WClaimNext
  BY <1>2, <1>0, <1>m, <1>b, <1>q DEF WReceipt, WClaimNext, fileVars, runVars, Q!Claim
<1>3. CASE \/ WCredential \/ WRegister
  BY <1>3, <1>0, <1>m, <1>b, <1>q, <1>p DEF WCredential, WRegister, fileVars, runVars,
     Q!ReleaseWithoutRetry
<1>4. CASE WGateStop
  BY <1>4, <1>0, <1>m, <1>b, <1>q, <1>p DEF WGateStop, fileVars, runVars
<1>5. CASE \/ WReject \/ WComplete
  BY <1>5, <1>0, <1>m, <1>b, <1>q DEF WReject, WComplete, fileVars, runVars,
     Q!FailLocalPreflight, Q!Complete
<1>6. CASE WFailure
  BY <1>6, <1>0, <1>m, <1>b, <1>q DEF WFailure, fileVars, runVars, Q!FailLocalPreflight,
     Q!Fail
<1>7. CASE WHeartbeat
  BY <1>7, <1>0, <1>m, <1>b, <1>q DEF WHeartbeat, fileVars, runVars, Q!Heartbeat
<1>8. CASE WCloseReceipt
  <2>1. UNCHANGED fileVars /\ (UNCHANGED task \/ Q!PurgeTasks({w.s}))
    BY <1>8, Zenon DEF WCloseReceipt
  <2>2. UNCHANGED receipt
    BY <1>8 DEF WCloseReceipt, mark_async_task_terminal, runVars
  <2> QED BY <2>1, <2>2, <1>0, <1>b, <1>p DEF fileVars
<1>9. CASE \/ WQuarantineRun \/ WCloseFailed
  BY <1>9, <1>0, <1>b DEF WQuarantineRun, WCloseFailed, fileVars, runVars,
     mark_async_task_terminal
<1>10. CASE WClose
  <2>1. UNCHANGED fileVars /\ UNCHANGED task
    BY <1>10, Zenon DEF WClose
  <2>2. UNCHANGED receipt
    BY <1>10 DEF WClose, mark_async_task_terminal, runVars
  <2> QED BY <2>1, <2>2, <1>0, <1>b DEF fileVars
<1>11. CASE WProviderOk
  BY <1>11, <1>a, <1>b, <1>c, <1>t DEF WProviderOk, fileVars, runVars,
     commit_async_provider_success, MayCommitReceipt
<1>12. CASE WLoro
  BY <1>12, <1>b, <1>c, <1>d, <1>t DEF WLoro, fileVars, runVars, write_document, At
<1>13. CASE WFinalize
  BY <1>13, <1>a, <1>b, <1>d, <1>t DEF WFinalize, fileVars, runVars, destroyed
<1>14. CASE \/ WSweep \/ WScan \/ WQuarantined \/ WReceiptsDone \/ WGatePass \/ WVerify \/ WDispatch
           \/ WProviderError \/ WIndex \/ WJoin \/ WProject \/ WSettle \/ WReconcile
           \/ WReindex \/ WFault
  BY <1>14, <1>0, <1>b DEF WSweep, WScan, WQuarantined, WReceiptsDone, WGatePass, WVerify,
     WDispatch, WProviderError, WIndex, WJoin, WProject, WSettle, WReconcile, WReindex,
     WFault, fileVars, runVars, project_search, begin_projection, settle_projection
<1> QED
  BY <1>1, <1>2, <1>3, <1>4, <1>5, <1>6, <1>7, <1>8, <1>9, <1>10, <1>11, <1>12, <1>13, <1>14
     DEF Worker_Next

(* The steps that are neither the worker's nor Delete Forever's. *)
Others ==
    \/ GReserve \/ GEnqueue \/ GMark \/ GReceipt \/ GTaskFound \/ GTaskRebuild \/ GTaskLost
    \/ GPromote \/ GDecide \/ GIndex \/ GPrivacy \/ GCloseTask \/ GCloseRun \/ GFault
    \/ GProject \/ GLoro \/ GSettle \/ GWaitTimeout \/ GPhaseFault \/ Restart \/ SNextStage
    \/ Crash \/ LoseTasksDb \/ ToggleKey
    \/ \E x \in Sessions :
         \/ GRequest(x) \/ GRetryProjection(x) \/ SSearch(x) \/ STask(x) \/ SProjection(x)
         \/ ExpireLease(x) \/ CorruptReceipt(x)
    \/ UNCHANGED vars

(* A user's request, a recovery, a crash or the environment brings nothing back
   of a session that is being deleted. *)
LEMMA OthersKeep ==
  ASSUME Typed, GoneRuns, Quiet, Others, NEW s \in Sessions, GateReads(s)
  PROVE  /\ purge'[s] = purge[s] /\ (async'[s] = "erased" <=> async[s] = "erased")
         /\ UNCHANGED <<g, blocked>> \/ g'.pc \notin {"wait", "phase", "record"}
         /\ UNCHANGED <<w, blocked>> \/ w'.pc \in {"idle", "unswept"}
         /\ Q!Present(s)' => Q!Present(s) \/ ~Gone(s)
         /\ doc'[s] => doc[s] \/ ~Gone(s)
         /\ audio'[s] => audio[s]
         /\ receipt'[s] # "none" => receipt[s] # "none"
<1> DEFINE A == purge'[s] = purge[s] /\ (async'[s] = "erased" <=> async[s] = "erased")
<1> DEFINE B == UNCHANGED <<g, blocked>> \/ g'.pc \notin {"wait", "phase", "record"}
<1> DEFINE C == UNCHANGED <<w, blocked>> \/ w'.pc \in {"idle", "unswept"}
<1> DEFINE D == Q!Present(s)' => Q!Present(s) \/ ~Gone(s)
<1> DEFINE E == doc'[s] => doc[s] \/ ~Gone(s)
<1> DEFINE F == (audio'[s] => audio[s]) /\ (receipt'[s] # "none" => receipt[s] # "none")
<1> SUFFICES A /\ B /\ C /\ D /\ E /\ F
  OBVIOUS
<1>t. /\ g \in Gate /\ (g.pc # "free" => g.s \in Sessions) /\ task \in Rows /\ RunOK
      /\ audio \in [Sessions -> BOOLEAN] /\ doc \in [Sessions -> BOOLEAN]
  BY DEF Typed, GateOK, FileOK
<1>0. UNCHANGED <<purge, async, task, doc, audio, receipt>> => A /\ D /\ E /\ F
  BY DEF Q!Present
<1>d. UNCHANGED task => D
  BY DEF Q!Present
<1>l. Release => B
  BY DEF Release, FreeGate
<1>h. ASSUME NEW pc \in GatePc \ {"wait", "phase", "record"}, GGoto(pc) PROVE B
  BY <1>h, <1>t DEF GGoto, Gate
<1>e. ASSUME NEW x, mark_async_task_enqueued(x)
      PROVE  async'[s] = "erased" <=> async[s] = "erased"
  BY <1>e, <1>t DEF mark_async_task_enqueued, MayMarkEnqueued, InFlight, RunOK
<1>m. ASSUME NEW x, NEW ok, mark_async_task_terminal(x, ok)
      PROVE  (async'[s] = "erased" <=> async[s] = "erased") /\ UNCHANGED receipt
  BY <1>m, <1>t DEF mark_async_task_terminal, MayMarkTerminal, RunOK
<1>q. g.s = s /\ g.pc \in EnsurePc \cup ProjectPc => ~Gone(s)
  BY DEF GateReads, Gates
<1> USE DEF EnsurePc, ProjectPc
<1>1. CASE GReserve
  BY <1>1, <1>t, <1>0, <1>l, <1>h, <1>d DEF GReserve, Holding, GatePc, runVars, fileVars,
     lifeVars, GoneRuns, RunOK
<1>2. CASE GEnqueue
  BY <1>2, <1>t, <1>l, <1>h, <1>q DEF GEnqueue, Holding, GatePc, runVars, fileVars,
     lifeVars, Abort, Q!Enqueue, Q!Present, Rows
<1>3. CASE GTaskRebuild
  BY <1>3, <1>t, <1>l, <1>q DEF GTaskRebuild, Holding, GatePc, runVars, fileVars, lifeVars,
     Abort, Gate, Q!Enqueue, Q!Present, Rows
<1>4. CASE \/ GMark \/ GPromote
  BY <1>4, <1>t, <1>0, <1>l, <1>h, <1>e, <1>d DEF GMark, GPromote, Holding, GatePc,
     runVars, fileVars, lifeVars, Abort
<1>5. CASE \/ GReceipt \/ GTaskFound
  BY <1>5, <1>t, <1>0, <1>l, <1>h DEF GReceipt, GTaskFound, Holding, GatePc, runVars,
     fileVars, lifeVars, Gate
<1>6. CASE \/ GTaskLost \/ GDecide
  BY <1>6, <1>t, <1>0, <1>l, <1>h, <1>m, <1>d DEF GTaskLost, GDecide, Holding, GatePc,
     runVars, fileVars, lifeVars, Abort
<1>7. CASE GCloseRun
  BY <1>7, <1>t, <1>0, <1>l, <1>h, <1>m, <1>d DEF GCloseRun, Holding, GatePc, runVars,
     fileVars, lifeVars
<1>8. CASE GIndex
  BY <1>8, <1>t, <1>0, <1>l, <1>h DEF GIndex, Holding, GatePc, runVars, fileVars, lifeVars,
     project_search
<1>9. CASE GPrivacy
  BY <1>9, <1>t, <1>0, <1>l, <1>h, <1>d DEF GPrivacy, Holding, GatePc, runVars, fileVars,
     lifeVars, destroyed
<1>10. CASE GCloseTask
  BY <1>10, <1>t, <1>0, <1>l, <1>h DEF GCloseTask, Holding, GatePc, runVars, fileVars,
     lifeVars, Q!CompleteFromReceipt, Q!Move, Q!Present, Rows
<1>11. CASE GFault
  BY <1>11, <1>t, <1>0, <1>l, <1>h DEF GFault, Holding, GatePc, runVars, fileVars, lifeVars,
     Abort
<1>12. CASE GProject
  BY <1>12, <1>t, <1>0, <1>l, <1>h DEF GProject, Holding, GatePc, runVars, fileVars,
     lifeVars, begin_projection
<1>13. CASE GLoro
  BY <1>13, <1>t, <1>0, <1>l, <1>h, <1>d, <1>q DEF GLoro, Holding, GatePc, runVars,
     fileVars, lifeVars, write_document
<1>14. CASE GSettle
  BY <1>14, <1>t, <1>0, <1>l, <1>h DEF GSettle, Holding, GatePc, runVars, fileVars,
     lifeVars, settle_projection
<1>15. CASE \/ GWaitTimeout \/ GPhaseFault
  BY <1>15, <1>t, <1>0, <1>l, <1>h DEF GWaitTimeout, GPhaseFault, Holding, GatePc, runVars,
     fileVars, lifeVars
<1>16. CASE Restart
  BY <1>16, <1>t DEF Restart, Holding, GatePc, runVars, fileVars, lifeVars, Quiet,
     IdleWorker, Typed, PurgeOK, Q!RecoverAbandoned, Q!Present, Rows, Q!Is
<1>17. CASE SNextStage
  BY <1>17, <1>t, <1>0 DEF SNextStage, Holding, GatePc, runVars, fileVars, lifeVars,
     IdleWorker
<1>18. CASE Crash
  BY <1>18, <1>0 DEF Crash, Holding, GatePc, runVars, fileVars, lifeVars, IdleWorker,
     FreeGate
<1>19. CASE LoseTasksDb
  BY <1>19, <1>t DEF LoseTasksDb, Holding, GatePc, runVars, fileVars, lifeVars,
     Q!PurgeTasks, Q!Present, Q!NoRow
<1>20. CASE ToggleKey
  BY <1>20, <1>0 DEF ToggleKey, Holding, GatePc, runVars, fileVars, lifeVars
<1>21. ASSUME NEW x \in Sessions,
             \/ GRequest(x) \/ STask(x)
      PROVE A /\ B /\ C /\ D /\ E /\ F
  BY <1>21, <1>t, <1>0, <1>d DEF GRequest, STask, Holding, GatePc, runVars, fileVars,
     lifeVars, Ensure, FreeGate, RunOK
<1>22. ASSUME NEW x \in Sessions,
             \/ GRetryProjection(x) \/ SProjection(x)
      PROVE A /\ B /\ C /\ D /\ E /\ F
  BY <1>22, <1>t, <1>0, <1>d DEF GRetryProjection, SProjection, Holding, GatePc, runVars,
     fileVars, lifeVars, FreeGate
<1>23. ASSUME NEW x \in Sessions, SSearch(x) PROVE A /\ B /\ C /\ D /\ E /\ F
  BY <1>23, <1>0 DEF SSearch, Holding, GatePc, runVars, fileVars, lifeVars, project_search
<1>24. ASSUME NEW x \in Sessions, ExpireLease(x) PROVE A /\ B /\ C /\ D /\ E /\ F
  BY <1>24, <1>t DEF ExpireLease, Holding, GatePc, runVars, fileVars, lifeVars, Q!Expire,
     Q!Present, Rows, Q!Row
<1>25. ASSUME NEW x \in Sessions, CorruptReceipt(x) PROVE A /\ B /\ C /\ D /\ E /\ F
  BY <1>25, <1>t, <1>d DEF CorruptReceipt, Holding, GatePc, runVars, fileVars, lifeVars,
     RunOK
<1>26. CASE UNCHANGED vars
  BY <1>26, <1>0 DEF vars, runVars, fileVars, lifeVars
<1> QED
  BY <1>1, <1>2, <1>3, <1>4, <1>5, <1>6, <1>7, <1>8, <1>9, <1>10, <1>11, <1>12, <1>13,
     <1>14, <1>15, <1>16, <1>17, <1>18, <1>19, <1>20, <1>21, <1>22, <1>23, <1>24, <1>25,
     <1>26 DEF Others

(* The worker neither erases a run nor brings it back, and leaves the purge jobs
   and the gate alone. *)
LEMMA WorkerLeaves ==
  ASSUME Typed, Worker_Next \/ WHeartbeat, NEW s \in Sessions
  PROVE  /\ UNCHANGED <<g, purge, blocked>>
         /\ async'[s] = "erased" <=> async[s] = "erased"
<1> DEFINE A == async'[s] = "erased" <=> async[s] = "erased"
<1> DEFINE B == UNCHANGED <<g, purge, blocked>>
<1> SUFFICES A /\ B
  OBVIOUS
<1>t. RunOK
  BY DEF Typed
<1>0. UNCHANGED async => A
  OBVIOUS
<1>e. ASSUME NEW x, mark_async_task_enqueued(x) PROVE A
  BY <1>e, <1>t DEF mark_async_task_enqueued, MayMarkEnqueued, InFlight, RunOK
<1>m. ASSUME NEW x, NEW ok, mark_async_task_terminal(x, ok) PROVE A
  BY <1>m, <1>t DEF mark_async_task_terminal, MayMarkTerminal, RunOK
<1>1. CASE WVerify
  BY <1>1, <1>0, <1>e DEF WVerify, lifeVars
<1>2. CASE \/ WQuarantineRun \/ WCloseFailed
  BY <1>2, <1>0, <1>m DEF WQuarantineRun, WCloseFailed, lifeVars, runVars
<1>3. CASE WClose
  <2>1. UNCHANGED runVars \/ mark_async_task_terminal(w.s, TRUE)
    BY <1>3, Zenon DEF WClose
  <2>2. B
    BY <1>3 DEF WClose, lifeVars
  <2> QED BY <2>1, <2>2, <1>0, <1>m DEF runVars
<1>4. CASE WCloseReceipt
  <2>1. UNCHANGED runVars \/ mark_async_task_terminal(w.s, TRUE)
    BY <1>4, Zenon DEF WCloseReceipt
  <2>2. B
    BY <1>4 DEF WCloseReceipt, lifeVars
  <2> QED BY <2>1, <2>2, <1>0, <1>m DEF runVars
<1>5. CASE \/ WSweep \/ WScan \/ WQuarantineTask \/ WQuarantined \/ WReceipt \/ WReceiptsDone
           \/ WClaimNext \/ WCredential \/ WRegister \/ WGateStop \/ WGatePass \/ WReject
           \/ WDispatch \/ WProviderOk \/ WProviderError \/ WIndex \/ WJoin \/ WFinalize
           \/ WComplete \/ WProject \/ WLoro \/ WSettle \/ WFailure \/ WReconcile
           \/ WReindex \/ WFault \/ WHeartbeat
  BY <1>5, <1>0 DEF WSweep, WScan, WQuarantineTask, WQuarantined, WReceipt, WReceiptsDone,
     WClaimNext, WCredential, WRegister, WGateStop, WGatePass, WReject, WDispatch,
     WProviderOk, WProviderError, WIndex, WJoin, WFinalize, WComplete, WProject, WLoro,
     WSettle, WFailure, WReconcile, WReindex, WFault, WHeartbeat, lifeVars, runVars,
     project_search, begin_projection, settle_projection, commit_async_provider_success
<1> QED
  BY <1>1, <1>2, <1>3, <1>4, <1>5 DEF Worker_Next

(* What each recorded phase, and each finished deletion, has removed stays
   removed, step by step. *)
LEMMA RemovedStep ==
  ASSUME Typed, GoneRuns, Quiet, [Next]_vars, NEW s \in Sessions, GateReads(s), Removed(s)
  PROVE  Removed(s)'
<1> DEFINE P1 == Past(HandlersStopped, s)
<1> DEFINE P2 == Past(LoroRemoved, s)
<1> DEFINE P3 == Past(TasksRemoved, s)
<1> DEFINE P4 == Past(ArtifactsRemoved, s)
<1> DEFINE D2 == Doing("task_handlers_stopped", s)
<1> DEFINE D3 == Doing("loro_removed", s)
<1> DEFINE D4 == Doing("tasks_removed", s)
<1> DEFINE H1 == Gates({"wait", "phase", "record"}, s)
<1> DEFINE H2 == Gates({"phase", "record"}, s)
<1> DEFINE Claims == Works({"credential", "register", "reconcile"}, s)
<1>t. /\ g \in Gate /\ (g.pc # "free" => g.s \in Sessions) /\ task \in Rows /\ RunOK
      /\ audio \in [Sessions -> BOOLEAN] /\ doc \in [Sessions -> BOOLEAN]
      /\ purge \in [Sessions -> Phase]
  BY DEF Typed, GateOK, FileOK, PurgeOK
<1>a. /\ P4 => P3
      /\ P3 => P2
      /\ P2 => P1
      /\ P1 => Gone(s)
      /\ P1 /\ ~Tombstoned(s) => P3
      /\ H2 => H1
      /\ D2 => H2 /\ purge[s] = "task_handlers_stopped" /\ P1
      /\ D3 => H2
      /\ D4 => H2
  BY DEF Past, Doing, Gates, Gone, Erased, Tombstoned, HandlersStopped, LoroRemoved,
     TasksRemoved, ArtifactsRemoved
<1>b. /\ H1 => s \in blocked
      /\ H2 => ~Registered(s) /\ purge[s] # "prepared"
      /\ P1 /\ Registered(s) => w.pc \in {"gate1", "gate_close"}
      /\ P2 \/ D2 => ~doc[s]
      /\ P3 \/ D3 => ~Q!Present(s) /\ ~Registered(s) /\ (Claims => s \in blocked)
      /\ P4 \/ D4 => ~audio[s]
      /\ async[s] = "erased" => receipt[s] = "none"
  BY DEF Removed
<1>c. ASSUME /\ H1' => s \in blocked'
             /\ H2' => ~Registered(s)' /\ purge'[s] # "prepared"
             /\ P1' /\ Registered(s)' => w'.pc \in {"gate1", "gate_close"}
             /\ P2' \/ D2' => ~doc'[s]
             /\ P3' \/ D3' => ~Q!Present(s)' /\ ~Registered(s)' /\ (Claims' => s \in blocked')
             /\ P4' \/ D4' => ~audio'[s]
             /\ async'[s] = "erased" => receipt'[s] = "none"
      PROVE  Removed(s)'
  BY <1>c DEF Removed
<1>p. ASSUME purge'[s] = purge[s], async'[s] = "erased" <=> async[s] = "erased"
      PROVE  /\ (P1' <=> P1) /\ (P2' <=> P2) /\ (P3' <=> P3) /\ (P4' <=> P4)
  BY <1>p DEF Past, Erased, Tombstoned
<1>g. ASSUME UNCHANGED g, purge'[s] = purge[s]
      PROVE  (H1' <=> H1) /\ (H2' <=> H2) /\ (D2' <=> D2) /\ (D3' <=> D3) /\ (D4' <=> D4)
  BY <1>g DEF Doing, Gates
<1>f. ASSUME g'.pc \notin {"wait", "phase", "record"}
      PROVE  ~H1' /\ ~H2' /\ ~D2' /\ ~D3' /\ ~D4'
  BY <1>f DEF Doing, Gates
<1>h. ASSUME NEW pc \in GatePc, GGoto(pc) PROVE g'.pc = pc /\ g'.s = g.s
  BY <1>h, <1>t DEF GGoto, Gate
<1>w. UNCHANGED w => (Registered(s)' <=> Registered(s)) /\ (Claims' <=> Claims)
  BY DEF Registered, Works
<1>1. CASE Worker_Next \/ WHeartbeat
  <2>1. UNCHANGED <<g, purge, blocked>> /\ (async'[s] = "erased" <=> async[s] = "erased")
    BY <1>1, WorkerLeaves
  <2>2. /\ (P1' <=> P1) /\ (P2' <=> P2) /\ (P3' <=> P3) /\ (P4' <=> P4)
        /\ (H1' <=> H1) /\ (H2' <=> H2) /\ (D2' <=> D2) /\ (D3' <=> D3) /\ (D4' <=> D4)
    BY <2>1, <1>p, <1>g
  <2>3. /\ Registered(s)' => Registered(s) \/ (s \notin blocked /\ Claims /\ w'.pc \in {"gate1", "gate_close"})
        /\ Registered(s)' /\ Registered(s) /\ w.pc \in {"gate1", "gate_close"} =>
              w'.pc = w.pc \/ (~Tombstoned(s) /\ Q!Present(s))
        /\ Claims' => Claims \/ Q!Present(s)
    BY <1>1, WorkerReach DEF Works, Registered
  <2>4. /\ doc'[s] => doc[s] \/ (Registered(s) /\ w.pc = "loro")
        /\ Q!Present(s)' => Q!Present(s)
        /\ audio'[s] => audio[s]
        /\ receipt'[s] # "none" => receipt[s] # "none" \/ async[s] = "enqueued"
    BY <1>1, WorkerTouches DEF Works, Registered, OwnedPc
  <2>5. H2' => ~Registered(s)' /\ purge'[s] # "prepared"
    BY <2>1, <2>2, <2>3, <1>a, <1>b
  <2>6. P1' /\ Registered(s)' => w'.pc \in {"gate1", "gate_close"}
    BY <2>2, <2>3, <1>a, <1>b
  <2>7. P2' \/ D2' => ~doc'[s]
    BY <2>2, <2>4, <1>a, <1>b
  <2>8. P3' \/ D3' => ~Q!Present(s)' /\ ~Registered(s)' /\ (Claims' => s \in blocked')
    BY <2>1, <2>2, <2>3, <2>4, <1>b
  <2>9. (P4' \/ D4' => ~audio'[s]) /\ (async'[s] = "erased" => receipt'[s] = "none")
    BY <2>1, <2>2, <2>4, <1>b
  <2>10. H1' => s \in blocked'
    BY <2>1, <2>2, <1>b
  <2> QED BY <2>5, <2>6, <2>7, <2>8, <2>9, <2>10, <1>c
<1>2. CASE Others
  <2>1. /\ purge'[s] = purge[s] /\ (async'[s] = "erased" <=> async[s] = "erased")
        /\ UNCHANGED <<g, blocked>> \/ g'.pc \notin {"wait", "phase", "record"}
        /\ UNCHANGED <<w, blocked>> \/ w'.pc \in {"idle", "unswept"}
        /\ Q!Present(s)' => Q!Present(s) \/ ~Gone(s)
        /\ doc'[s] => doc[s] \/ ~Gone(s)
        /\ audio'[s] => audio[s]
        /\ receipt'[s] # "none" => receipt[s] # "none"
    BY <1>2, OthersKeep
  <2>2. (P1' <=> P1) /\ (P2' <=> P2) /\ (P3' <=> P3) /\ (P4' <=> P4)
    BY <2>1, <1>p
  <2>3. (H1' => H1 /\ UNCHANGED blocked) /\ (H2' => H2) /\ (D2' => D2) /\ (D3' => D3) /\ (D4' => D4)
    BY <2>1, <1>g, <1>f
  <2>4. /\ Registered(s)' => Registered(s) /\ UNCHANGED w
        /\ Claims' => Claims /\ UNCHANGED blocked
    BY <2>1, <1>w DEF Registered, Works, OwnedPc
  <2>5. H2' => ~Registered(s)' /\ purge'[s] # "prepared"
    BY <2>1, <2>3, <2>4, <1>b
  <2>6. P1' /\ Registered(s)' => w'.pc \in {"gate1", "gate_close"}
    BY <2>2, <2>4, <1>b
  <2>7. P2' \/ D2' => ~doc'[s]
    BY <2>1, <2>2, <2>3, <1>a, <1>b
  <2>8. D3 => Gone(s)
    BY DEF Doing, Gone, Tombstoned
  <2>9. P3' \/ D3' => ~Q!Present(s)' /\ ~Registered(s)' /\ (Claims' => s \in blocked')
    BY <2>1, <2>2, <2>3, <2>4, <2>8, <1>a, <1>b
  <2>10. (P4' \/ D4' => ~audio'[s]) /\ (async'[s] = "erased" => receipt'[s] = "none")
    BY <2>1, <2>2, <2>3, <1>b
  <2>11. H1' => s \in blocked'
    BY <2>3, <1>b
  <2> QED BY <2>5, <2>6, <2>7, <2>9, <2>10, <2>11, <1>c
<1>3. CASE GStop
  <2>1. UNCHANGED <<purge, async, w, doc, task, audio, receipt>> /\ blocked \subseteq blocked'
    BY <1>3 DEF GStop, runVars, fileVars
  <2>2. (g'.pc = "wait" /\ g'.s = g.s /\ g.s \in blocked') \/ g'.pc = "free"
    BY <1>3, <1>h DEF GStop, Holding, GatePc, Release, FreeGate
  <2>3. (H1' => s \in blocked') /\ ~H2' /\ ~D2' /\ ~D3' /\ ~D4'
    BY <2>2 DEF Gates, Doing
  <2>4. (P1' <=> P1) /\ (P2' <=> P2) /\ (P3' <=> P3) /\ (P4' <=> P4)
    BY <2>1, <1>p
  <2> QED BY <2>1, <2>3, <2>4, <1>b, <1>c, <1>w DEF Q!Present
<1>4. ASSUME NEW x \in Sessions, GPurge(x) \/ SPurge(x) PROVE Removed(s)'
  <2>1. UNCHANGED <<async, w, blocked, doc, task, audio, receipt>> /\ g'.pc = "stop"
    BY <1>4 DEF GPurge, SPurge, runVars, fileVars, lifeVars, FreeGate
  <2>2. purge'[s] = purge[s] \/ (purge[s] = "none" /\ purge'[s] = "prepared")
    BY <1>4, <1>t DEF GPurge, SPurge
  <2>3. (P1' => P1) /\ (P2' => P2) /\ (P3' => P3) /\ (P4' => P4)
    BY <2>1, <2>2 DEF Past, Erased, Tombstoned, HandlersStopped, LoroRemoved, TasksRemoved,
       ArtifactsRemoved
  <2> QED BY <2>1, <2>3, <1>b, <1>c, <1>f, <1>w DEF Q!Present
<1>5. CASE GWait
  <2>1. /\ UNCHANGED <<async, w, blocked, doc, task, audio, receipt>>
        /\ g.pc = "wait" /\ ~Registered(g.s) /\ g.s \in Sessions
        /\ g'.pc = "phase" /\ g'.s = g.s /\ Tombstoned(g.s)
    BY <1>5, <1>t, <1>h DEF GWait, Holding, GatePc, runVars, fileVars, lifeVars, Typed, PurgeOK,
       Purging
  <2>2. CASE g.s # s
    <3>1. purge'[s] = purge[s] /\ ~H1' /\ ~H2' /\ ~D2' /\ ~D3' /\ ~D4'
      BY <1>5, <1>t, <2>1, <2>2 DEF GWait, Gates, Doing
    <3> QED BY <2>1, <3>1, <1>b, <1>c, <1>p, <1>w DEF Q!Present
  <2>3. CASE g.s = s
    <3>1. purge'[s] = IF purge[s] = "prepared" THEN "task_handlers_stopped" ELSE purge[s]
      BY <1>5, <1>t, <2>3 DEF GWait
    <3>2. H1 /\ ~D2' /\ ~D3' /\ ~D4' /\ purge[s] # "none"
      BY <2>1, <2>3 DEF Gates, Doing, Tombstoned
    <3>3. (P2' => P2) /\ (P3' => P3) /\ (P4' => P4)
      BY <2>1, <3>1 DEF Past, Erased, Tombstoned, LoroRemoved, TasksRemoved, ArtifactsRemoved,
         HandlersStopped
    <3> QED BY <2>1, <2>3, <3>1, <3>2, <3>3, <1>b, <1>c, <1>w DEF Q!Present
  <2> QED BY <2>2, <2>3
<1>6. CASE GPhase
  <2>1. /\ UNCHANGED <<purge, w, blocked>>
        /\ g.pc = "phase" /\ g.s \in Sessions /\ g'.pc = "record" /\ g'.s = g.s /\ Tombstoned(g.s)
    BY <1>6, <1>t, <1>h DEF GPhase, Holding, GatePc, lifeVars, Typed, PurgeOK, Purging
  <2>2. CASE g.s # s
    <3>1. ~H1' /\ ~H2' /\ ~D2' /\ ~D3' /\ ~D4'
      BY <2>1, <2>2 DEF Gates, Doing
    <3>2. async'[s] = async[s] /\ receipt'[s] = receipt[s]
      BY <1>6, <1>t, <2>2 DEF GPhase, purge_session_artifacts, RunOK, runVars
    <3>3. doc'[s] = doc[s] /\ audio'[s] = audio[s] /\ (Q!Present(s)' => Q!Present(s))
      BY <1>6, <1>t, <2>2 DEF GPhase, Q!PurgeTasks, Q!Present
    <3> QED BY <2>1, <3>1, <3>2, <3>3, <1>b, <1>c, <1>p, <1>w
  <2>3. CASE g.s = s
    <3>1. H1 /\ H2 /\ Tombstoned(s)
      BY <2>1, <2>3 DEF Gates
    <3>2. (P1' <=> P1) /\ (P2' <=> P2) /\ (P3' <=> P3) /\ (P4' <=> P4)
      BY <2>1, <3>1 DEF Past, Erased, Tombstoned
    <3>3. /\ D2' => ~doc'[s]
          /\ D3' => ~Q!Present(s)'
          /\ D4' => ~audio'[s]
      <4>1. /\ D2' => purge[s] = "task_handlers_stopped"
            /\ D3' => purge[s] = "loro_removed"
            /\ D4' => purge[s] = "tasks_removed"
        BY <2>1 DEF Doing
      <4>2. doc'[s] => purge[s] # "task_handlers_stopped"
        BY <1>6, <1>t, <2>3 DEF GPhase
      <4>3. purge[s] = "loro_removed" => ~Q!Present(s)'
        BY <1>6, <2>3 DEF GPhase, Q!PurgeTasks, Q!NoRow, Q!Present
      <4>4. audio'[s] => purge[s] # "tasks_removed"
        BY <1>6, <1>t, <2>3 DEF GPhase
      <4> QED BY <4>1, <4>2, <4>3, <4>4
    <3>4. /\ doc'[s] => doc[s]
          /\ audio'[s] => audio[s]
          /\ Q!Present(s)' => Q!Present(s)
      BY <1>6, <1>t, <2>3 DEF GPhase, Q!PurgeTasks, Q!NoRow, Q!Present
    <3>5. async'[s] = "erased" => receipt'[s] = "none"
      BY <1>6, <1>t, <1>b, <2>3 DEF GPhase, purge_session_artifacts, RunOK, runVars
    <3> QED BY <2>1, <2>3, <3>1, <3>2, <3>3, <3>4, <3>5, <1>b, <1>c, <1>w
  <2> QED BY <2>2, <2>3
<1>7. CASE GRecord
  <2>1. /\ UNCHANGED <<async, w, blocked, doc, task, audio, receipt>>
        /\ g.pc = "record" /\ g.s \in Sessions /\ g'.pc = "phase" /\ g'.s = g.s
        /\ Tombstoned(g.s) /\ purge[g.s] # "purge_receipts_removed"
    BY <1>7, <1>t, <1>h DEF GRecord, Holding, GatePc, runVars, fileVars, lifeVars, Typed,
       PurgeOK, Purging
  <2>2. CASE g.s # s
    <3>1. purge'[s] = purge[s] /\ ~H1' /\ ~H2' /\ ~D2' /\ ~D3' /\ ~D4'
      BY <1>7, <1>t, <2>1, <2>2 DEF GRecord, Gates, Doing
    <3> QED BY <2>1, <3>1, <1>b, <1>c, <1>p, <1>w DEF Q!Present
  <2>3. CASE g.s = s
    <3>1. H1 /\ H2 /\ ~D2' /\ ~D3' /\ ~D4'
      BY <2>1, <2>3 DEF Gates, Doing
    <3>2. purge[s] \in HandlersStopped \ {"purge_receipts_removed"}
      BY <2>1, <2>3, <3>1, <1>b, <1>t DEF Tombstoned, Phase, HandlersStopped
    <3>3. purge'[s] = PhaseAfter[purge[s]]
      BY <1>7, <1>t, <2>3 DEF GRecord
    <3>4. /\ P1
          /\ P2' => P2 \/ D2
          /\ P3' => P3 \/ D3
          /\ P4' => P4 \/ D4
          /\ purge'[s] # "prepared"
      BY <2>1, <2>3, <3>2, <3>3 DEF Past, Erased, Tombstoned, Doing, Gates, PhaseAfter,
         HandlersStopped, LoroRemoved, TasksRemoved, ArtifactsRemoved
    <3> QED BY <2>1, <3>1, <3>4, <1>b, <1>c, <1>w DEF Q!Present
  <2> QED BY <2>2, <2>3
<1>8. CASE GFinish
  <2>1. /\ UNCHANGED <<async, w, blocked, doc, task, audio, receipt>> /\ g'.pc = "free"
        /\ g.s \in Sessions /\ purge[g.s] = "purge_receipts_removed"
    BY <1>8, <1>t DEF GFinish, Holding, Release, FreeGate, runVars, fileVars, lifeVars
  <2>2. purge'[s] = purge[s] \/ P4
    BY <1>8, <1>t, <2>1 DEF GFinish, Past, HandlersStopped, LoroRemoved, TasksRemoved,
       ArtifactsRemoved
  <2>3. (P1' => P1) /\ (P2' => P2) /\ (P3' => P3) /\ (P4' => P4)
    BY <2>1, <2>2, <1>a, <1>p
  <2> QED BY <2>1, <2>3, <1>b, <1>c, <1>f, <1>w DEF Q!Present
<1> QED
  BY <1>1, <1>2, <1>3, <1>4, <1>5, <1>6, <1>7, <1>8
     DEF Next, Others, User, Gate_Step, Startup_Step, Environment

-----------------------------------------------------------------------------
(* All of it together is an inductive invariant. *)
LEMMA WorkInductive ==
  /\ Init => WInv
  /\ WInv /\ [Next]_vars => WInv'
<1>1. ASSUME Init PROVE WInv
  <2>1. Typed /\ GoneRuns
    BY <1>1, TypedInductive DEF Init, GoneRuns, FreeGate
  <2>2. Quiet
    BY <1>1 DEF Init, Quiet
  <2>3. ASSUME NEW s \in Sessions
        PROVE  /\ GateReads(s) /\ RowHeld(s) /\ Wanted(s) /\ Accounted(s)
               /\ Projectable(s) /\ Locked(s) /\ Removed(s)
    <3>1. /\ w.pc = "unswept" /\ g.pc = "free" /\ ~Q!Present(s) /\ purge[s] = "none"
          /\ async[s] = "none" /\ proj[s] = "none" /\ attempts[s] = 0 /\ crashes = 0 /\ faults = 0
      BY <1>1 DEF Init, IdleWorker, FreeGate, Q!Present, Q!NoRow
    <3>2. GateReads(s)
      BY <3>1 DEF GateReads, Gates, EnsurePc, ProjectPc
    <3>3. RowHeld(s) /\ Wanted(s)
      BY <3>1 DEF RowHeld, Wanted, Works, HolderPc
    <3>4. Accounted(s)
      BY <3>1 DEF Accounted
    <3>5. Projectable(s) /\ Locked(s)
      BY <3>1 DEF Projectable, Locked, Works, Gates, ProjectPc
    <3>6. Removed(s)
      BY <3>1 DEF Removed, Gates, Past, Doing, Erased, HandlersStopped, LoroRemoved,
         TasksRemoved, ArtifactsRemoved
    <3> QED BY <3>2, <3>3, <3>4, <3>5, <3>6
  <2> QED BY <2>1, <2>2, <2>3 DEF WInv
<1>2. ASSUME WInv, [Next]_vars PROVE WInv'
  <2>1. Typed /\ GoneRuns /\ Quiet
    BY <1>2 DEF WInv
  <2>2. Typed' /\ GoneRuns' /\ Quiet'
    BY <1>2, <2>1, TypedInductive, GoneStep, QuietStep DEF Typed
  <2>3. ASSUME NEW s \in Sessions
        PROVE  (/\ GateReads(s) /\ RowHeld(s) /\ Wanted(s) /\ Accounted(s)
                /\ Projectable(s) /\ Locked(s) /\ Removed(s))'
    <3>1. /\ GateReads(s) /\ RowHeld(s) /\ Wanted(s) /\ Accounted(s)
          /\ Projectable(s) /\ Locked(s) /\ Removed(s)
      BY <1>2 DEF WInv
    <3>2. GateReads(s)' /\ RowHeld(s)'
      BY <1>2, <2>1, <3>1, GateReadsStep, RowHeldStep
    <3>3. Wanted(s)' /\ Accounted(s)'
      BY <1>2, <2>1, <3>1, WantedStep, AccountedStep
    <3>4. Projectable(s)' /\ Locked(s)'
      BY <1>2, <2>1, <3>1, ProjectableStep, LockedStep
    <3>5. Removed(s)'
      BY <1>2, <2>1, <3>1, RemovedStep
    <3> QED BY <3>2, <3>3, <3>4, <3>5
  <2> QED BY <2>2, <2>3 DEF WInv
<1> QED BY <1>1, <1>2

(* The invariant of the worker and the gate holder. *)
THEOREM WorkInvariant == Spec => []WInv
BY WorkInductive, PTL DEF Spec

(* Two writers never project one session at a time, and a claimed projection
   has its holder or a local error behind it: begin_async_projection's
   compare-and-set is the only way in, and every way out settles it. *)
THEOREM ProjectionIsLocked == Spec => []OneProjector
<1>1. WInv => OneProjector
  BY DEF WInv, Locked, OneProjector, Projecting, Gates, Works, ProjectPc, Gone
<1> QED BY <1>1, WorkInvariant, PTL

(* The audio is uploaded once, and once more for each crash or local error:
   a row is inserted with one attempt (enqueue_once_with_stable_id), only its
   worker moves it, and a failure spends the attempt. *)
THEOREM UploadsAreAccounted == Spec => []UploadsAccounted
<1>1. WInv => UploadsAccounted
  <2> SUFFICES ASSUME WInv, NEW s \in Sessions
               PROVE  attempts[s] <= 1 + crashes + faults
    BY DEF UploadsAccounted
  <2>1. Accounted(s)
    BY DEF WInv
  <2>2. attempts[s] \in Nat /\ crashes \in Nat /\ faults \in Nat
    BY AsyncAssumption DEF WInv, Typed, HistOK
  <2> QED BY <2>1, <2>2 DEF Accounted
<1> QED BY <1>1, WorkInvariant, PTL

(* dispatch_task reaches the provider only for a run that still waits for its
   result, under a row its worker holds. *)
THEOREM UploadsAreWanted == Spec => UploadIsWanted
<1>1. WInv /\ [Next]_vars =>
        [\A s \in Sessions : attempts'[s] # attempts[s] /\ faults = 0 =>
            /\ async[s] = "enqueued" /\ receipt[s] = "none"
            /\ Q!Is(s, "running") /\ ~Tombstoned(s)]_vars
  <2> SUFFICES ASSUME WInv, [Next]_vars, NEW s \in Sessions,
                      attempts'[s] # attempts[s], faults = 0
               PROVE  /\ async[s] = "enqueued" /\ receipt[s] = "none"
                      /\ Q!Is(s, "running") /\ ~Tombstoned(s)
    OBVIOUS
  <2>1. w.pc = "dispatch" /\ w.s = s /\ MayClaimProvenance(s) /\ receipt[s] = "none"
    BY OnlyDispatchUploads DEF WInv
  <2>2. ~Safe(s)
    BY <2>1 DEF MayClaimProvenance, Safe
  <2>3. Wanted(s) /\ RowHeld(s)
    BY DEF WInv
  <2> QED BY <2>1, <2>2, <2>3 DEF Wanted, RowHeld, HasNoResult, Works, HolderPc, Safe
<1> QED BY <1>1, WorkInvariant, PTL DEF Spec, UploadIsWanted

(* Delete Forever: what a recorded phase has removed stays removed, through
   every restart and whatever the worker had claimed, until nothing of the
   session is left (resume_pending_session_purges, cancel_and_wait). *)
THEOREM DeletionHolds == Spec => []ErasureHolds
<1>1. WInv => ErasureHolds
  <2> SUFFICES ASSUME WInv, NEW s \in Sessions
               PROVE  /\ Reached(s, "loro_removed") \/ Erased(s) => ~doc[s]
                      /\ Reached(s, "tasks_removed") \/ Erased(s) => ~Q!Present(s)
                      /\ Reached(s, "external_artifacts_removed") \/ Erased(s) => ~audio[s]
                      /\ Reached(s, "main_database_removed") \/ Erased(s) =>
                           async[s] = "erased" /\ receipt[s] = "none" /\ proj[s] = "none"
                      /\ Reached(s, "tasks_removed") \/ Erased(s) => ~Registered(s)
    BY DEF ErasureHolds
  <2>1. Removed(s) /\ Projectable(s) /\ GoneRuns /\ purge[s] \in Phase /\ proj[s] \in ProjState
    BY DEF WInv, Typed, PurgeOK, RunOK
  <2>2. /\ Reached(s, "loro_removed") \/ Erased(s) => Past(LoroRemoved, s)
        /\ Reached(s, "tasks_removed") \/ Erased(s) => Past(TasksRemoved, s)
        /\ Reached(s, "external_artifacts_removed") \/ Erased(s) => Past(ArtifactsRemoved, s)
        /\ Reached(s, "main_database_removed") =>
             purge[s] \in {"main_database_removed", "purge_receipts_removed"}
    BY <2>1 DEF Reached, Tombstoned, PhaseRank, Phase, Past, HandlersStopped, LoroRemoved,
       TasksRemoved, ArtifactsRemoved
  <2>3. Reached(s, "main_database_removed") \/ Erased(s) => async[s] = "erased"
    BY <2>1, <2>2 DEF GoneRuns, Erased
  <2> QED BY <2>1, <2>2, <2>3 DEF Removed, Projectable
<1> QED BY <1>1, WorkInvariant, PTL

-----------------------------------------------------------------------------
(* That a capture run agrees with its receipt and with its row in tasks.db,  *)
(* although the three are written by the worker and by the gate holder in    *)
(* separate commits.  The argument rests on WInv above and adds, per        *)
(* session, where a row may stand for each state of the run.                 *)

(* A run that was never reserved has left nothing anywhere... *)
Fresh(s) ==
    /\ async[s] \in {"none", "pending"} => ~Q!Present(s) /\ receipt[s] = "none"
    /\ Gates({"enqueue"}, s) =>
         async[s] = "reserved" /\ ~Q!Present(s) /\ receipt[s] = "none"

(* ... a completed row has its receipt... *)
RowBacked(s) ==
    /\ Q!Is(s, "completed") \/ Works({"finalize", "complete"}, s) => Safe(s)
    /\ s \in w.corrupt \/ Works({"quarantine_run"}, s) => Safe(s)

(* ... what the gate holder has read of the row is still so... *)
RowSeen(s) ==
    /\ Gates({"receipt", "task"}, s) /\ async[s] = "completed" => Q!Present(s)
    /\ Gates({"mark", "promote", "decide"}, s) => Q!Present(s)
    /\ Gates({"promote", "decide"}, s) /\ g.status \in {"completed", "failed"} =>
         Q!Is(s, g.status)
    /\ Gates({"close_run"}, s) => Q!Is(s, "completed")

(* ... and a completed run has both. *)
Backed(s) ==
    async[s] = "completed" =>
        receipt[s] # "none" /\ task[s].status \in {"completed", "absent"}

(* A row goes missing only while the app is closed, and start-up visits its  *)
(* session before the worker starts.                                         *)
Missing(s) ==
    async[s] = "enqueued" /\ ~Q!Present(s) /\ ~Tombstoned(s) /\ receipt[s] # "corrupt"

Visited(s) ==
    Missing(s) =>
        \/ faults > 1
        \/ /\ faults = 1
           /\ \/ proc \in {"down", "purges", "search"}
              \/ proc = "tasks" /\ (s \in todo \/ Gates({"receipt", "task"}, s))

(* Without local errors a result is never corrupt, and a session with one is  *)
(* either in the hands of the worker that got it, or completed by start-up.  *)
OkPc == {"index", "joined", "gate3"}

Finishing(s) == Works({"index", "joined", "gate3", "finalize", "complete"}, s)

Recovering(s) ==
    \/ proc \in {"down", "purges", "search"}
    \/ /\ proc = "tasks"
       /\ \/ s \in todo
          \/ Gates({"receipt", "index", "privacy", "close_task"}, s)
          \/ Gates({"task", "promote", "decide"}, s) /\ g.rcpt

Clean == faults = 0 =>
    /\ w.corrupt = {} /\ w.pc # "quarantine_run"
    /\ \A s \in Sessions : receipt[s] # "corrupt"

Reported(s) ==
    faults = 0 /\ receipt[s] # "none" => async[s] \in {"enqueued", "completed"}

Delivered(s) ==
    faults = 0 /\ ~Gone(s) /\ receipt[s] # "none" =>
        /\ task[s].status \in {"pending", "running", "completed"}
        /\ Q!Is(s, "running") => Finishing(s) \/ proc = "down"
        /\ Q!Is(s, "pending") => Recovering(s)
        /\ ~Works(HolderPc \ OkPc, s)
        /\ Works(OkPc, s) => w.res = "ok"

RInv ==
    /\ WInv /\ WorkerBacked /\ Clean
    /\ \A s \in Sessions :
         /\ Fresh(s) /\ RowBacked(s) /\ RowSeen(s) /\ Backed(s)
         /\ Visited(s) /\ Reported(s) /\ Delivered(s)

-----------------------------------------------------------------------------
(* What one step can do to a session's run... *)
RunMove(s) ==
    \/ async'[s] = async[s]
    \/ async[s] = "none" /\ async'[s] = "pending"
    \/ /\ Gates({"reserve"}, s) /\ async[s] = "pending" /\ async'[s] = "reserved"
       /\ UNCHANGED <<task, receipt, purge>>
    \/ /\ InFlight(s) /\ async'[s] = "enqueued" /\ UNCHANGED <<task, receipt, purge>>
       /\ (Works({"verify"}, s) /\ Q!Present(s)) \/ Gates({"mark", "promote"}, s)
    \/ /\ ~Tombstoned(s) /\ async[s] = "enqueued" /\ async'[s] = "completed"
       /\ UNCHANGED <<task, receipt, purge>>
       /\ \/ Q!Is(s, "completed")
          \/ Gates({"close_run"}, s)
          \/ Gates({"decide"}, s) /\ g.status = "completed"
    \/ /\ InFlight(s) /\ ~Tombstoned(s) /\ async'[s] = "failed"
       /\ UNCHANGED <<task, receipt, purge>>
       /\ \/ Works({"quarantine_run"}, s)
          \/ Works({"close_failed"}, s) /\ Q!Is(s, "failed")
          \/ Gates({"task"}, s) /\ ~g.rcpt /\ (~Q!Present(s) \/ faults' = faults + 1)
          \/ Gates({"decide"}, s) /\ g.status = "failed" /\ ~g.rcpt
    \/ async'[s] = "erased" /\ Tombstoned(s) /\ receipt'[s] = "none"

(* ... to its row... *)
RowMove(s) ==
    \/ task'[s].status = task[s].status
    \/ /\ ~Q!Present(s) /\ task'[s].status = "pending"
       /\ UNCHANGED <<async, receipt, purge, faults>>
       /\ g'.pc \in {"mark", "promote"}
       /\ Gates({"enqueue"}, s) \/ (Gates({"task"}, s) /\ g.rcpt)
    \/ /\ task'[s].status = "absent"
       /\ Gone(s) \/ (proc = "down" /\ proc' = "down" /\ faults' = faults + 1)
    \/ /\ proc = "running" /\ w.pc \in {"receipts", "claim"} /\ Q!Claimable(s)
       /\ task'[s].status = "running"
    \/ /\ Q!Is(s, "running") /\ task'[s].status = "completed"
       /\ Works({"complete"}, s)
    \/ Gates({"close_task"}, s) /\ task'[s].status = "completed" 
    \/ /\ Q!Is(s, "running") /\ task'[s].status \in {"pending", "failed"}
       /\ Works({"credential", "reject", "failure"}, s)
    \/ /\ proc = "running" /\ s \in w.corrupt /\ Q!Claimable(s)
       /\ task'[s].status = "failed"
    \/ /\ Q!Is(s, "running") /\ task'[s].status = "pending"
       /\ proc = "down" /\ proc' = "purges"

(* ... and to its receipt. *)
ReceiptMove(s) ==
    \/ receipt'[s] = receipt[s]
    \/ /\ Works({"provider"}, s) /\ async[s] = "enqueued" /\ ~Tombstoned(s)
       /\ receipt[s] = "none" /\ receipt'[s] = "valid"
       /\ w'.pc = "index" /\ w'.s = s /\ w'.res = "ok"
       /\ UNCHANGED <<async, task, purge, g, proc>>
    \/ receipt[s] = "valid" /\ receipt'[s] = "corrupt" /\ faults' = faults + 1
    \/ async'[s] = "erased" /\ receipt'[s] = "none"

(* The gate holder goes from one read or commit to the next... *)
GateMove(s) ==
    \/ UNCHANGED g
    \/ ~Gates(EnsurePc, s)'
    \/ g.pc = "free" /\ Gates({"reserve"}, s)' /\ async'[s] = "pending"
    \/ /\ g.pc = "free" /\ Gates({"receipt"}, s)' /\ InFlight(s)
       /\ UNCHANGED <<async, task, receipt>>
    \/ /\ Gates({"reserve"}, s) /\ Gates({"enqueue"}, s)' /\ async'[s] = "reserved"
       /\ UNCHANGED <<task, receipt>>
    \/ Gates({"enqueue"}, s) /\ Gates({"mark"}, s)' /\ Q!Present(s)'
    \/ /\ Gates({"receipt"}, s) /\ Gates({"task"}, s)' /\ receipt[s] # "corrupt"
       /\ (g'.rcpt <=> receipt[s] = "valid") /\ UNCHANGED <<async, task, receipt>>
    \/ /\ Gates({"task"}, s) /\ Gates({"promote"}, s)' /\ g'.rcpt = g.rcpt
       /\ Q!Present(s)' /\ g'.status = task'[s].status
    \/ /\ Gates({"promote"}, s) /\ Gates({"decide"}, s)' /\ g'.rcpt = g.rcpt
       /\ g'.status = g.status /\ UNCHANGED <<task, receipt>>
    \/ Gates({"decide"}, s) /\ Gates({"index"}, s)' /\ g.rcpt
    \/ Gates({"index"}, s) /\ Gates({"privacy"}, s)'
    \/ Gates({"privacy"}, s) /\ Gates({"close_task"}, s)'
    \/ Gates({"close_task"}, s) /\ Gates({"close_run"}, s)' /\ Q!Is(s, "completed")'

(* ... and start-up's holder lets go of a session it has not settled only if *)
(* the step failed or the receipt says so.                                   *)
GateLeaves(s) ==
    Gates(EnsurePc, s) /\ ~Gates(EnsurePc, s)' /\ proc = "tasks" =>
        \/ proc' = "down"
        \/ faults' = faults + 1
        \/ Gates({"receipt"}, s) /\ receipt[s] = "corrupt"
        \/ Gates({"task"}, s) /\ ~g.rcpt /\ async'[s] = "failed"
        \/ Gates({"decide"}, s) /\ ~g.rcpt
        \/ Gates({"decide"}, s) /\ DecideCloses
        \/ Gates({"index"}, s) /\ receipt[s] # "valid"
        \/ Gates({"close_task"}, s) /\ ~Q!Present(s)
        \/ Gates({"mark", "close_run"}, s)

(* Start-up goes on to its next stage only when the last has visited all it   *)
(* listed.                                                                   *)
StageMove(s) ==
    \/ proc' = "down"
    \/ proc = "down" /\ proc' = "purges" /\ UNCHANGED g /\ ~Q!Is(s, "running")'
    \/ proc = "purges" /\ proc' = "search" /\ UNCHANGED g
    \/ /\ proc = "search" /\ proc' = "tasks" /\ UNCHANGED <<async, task, receipt, purge>>
       /\ async[s] \in {"pending", "reserved", "enqueued"} => s \in todo'
    \/ proc = "tasks" /\ proc' = "projections" /\ g.pc = "free" /\ todo = {}
    \/ proc \in {"projections", "running"} /\ proc' = "running"
    \/ /\ proc' = proc
       /\ s \in todo /\ s \notin todo' /\ proc = "tasks" =>
            /\ UNCHANGED <<async, task, receipt, purge, faults>>
            /\ InFlight(s) /\ ~Tombstoned(s) => Gates({"receipt"}, s)'

(* The worker takes up a session only from a claim, and puts down the one     *)
(* whose result it holds only when its row is completed or the step failed.   *)
WorkerMove(s) ==
    /\ s \in w'.corrupt => s \in w.corrupt \/ receipt[s] = "corrupt"
    /\ Works({"quarantine_run"}, s)' => Works({"quarantine_run"}, s) \/ s \in w.corrupt
    /\ Works({"complete"}, s)' => Works({"finalize", "complete"}, s)
    /\ Works(HolderPc \ OkPc, s)' =>
         \/ Works(HolderPc \ OkPc, s)
         \/ proc = "running" /\ w.pc \in {"receipts", "claim"} /\ Q!Claimable(s)
         \/ Works({"gate3"}, s) /\ w.res # "ok"
    /\ Works(OkPc, s)' =>
         (Works(OkPc, s) /\ w'.res = w.res) \/ Works(HolderPc \ OkPc, s)
    /\ Finishing(s) =>
         \/ Finishing(s)'
         \/ proc' = "down"
         \/ faults' = faults + 1
         \/ ~Q!Is(s, "running")
         \/ Q!Is(s, "completed")'
         \/ Gone(s)
         \/ Works({"gate3"}, s) /\ w.res # "ok"

-----------------------------------------------------------------------------
(* The run moves from "pending" on only in the gate holder's and the worker's
   commits, each under the check its transaction makes. *)
LEMMA RunMoves ==
  ASSUME Typed, GoneRuns, [Next]_vars, NEW s \in Sessions
  PROVE  RunMove(s)
<1>t. /\ task \in Rows /\ async \in [Sessions -> AsyncState]
      /\ receipt \in [Sessions -> {"none", "valid", "corrupt"}]
      /\ w \in Worker /\ (w.pc \in Busy => w.s \in Sessions)
      /\ g \in Gate /\ (g.pc # "free" => g.s \in Sessions)
      /\ (g.pc \in Purging => Tombstoned(g.s))
  BY DEF Typed, WorkerOK, GateOK, RunOK, PurgeOK
<1> USE DEF Works, Gates, Busy, OwnedPc
<1>0. UNCHANGED async => RunMove(s)
  BY DEF RunMove
<1>m. ASSUME NEW x \in Sessions, mark_async_task_enqueued(x)
      PROVE  /\ async'[s] = async[s] \/ (s = x /\ InFlight(s) /\ async'[s] = "enqueued")
             /\ MayMarkEnqueued(x) \/ UNCHANGED async
  BY <1>m, <1>t DEF mark_async_task_enqueued, MayMarkEnqueued
<1>c. ASSUME NEW x \in Sessions, NEW ok \in BOOLEAN, mark_async_task_terminal(x, ok)
      PROVE  /\ UNCHANGED receipt
             /\ \/ async'[s] = async[s]
                \/ s = x /\ ok /\ ~Tombstoned(s) /\ async[s] = "enqueued" /\ async'[s] = "completed"
                \/ s = x /\ ~ok /\ InFlight(s) /\ ~Tombstoned(s) /\ async'[s] = "failed"
  BY <1>c, <1>t DEF mark_async_task_terminal, MayMarkTerminal, InFlight
<1>1. CASE WQuarantineRun
  BY <1>1, <1>t, <1>c DEF WQuarantineRun, At, RunMove
<1>2. CASE WVerify
  BY <1>2, <1>t, <1>m DEF WVerify, At, RunMove, VerifyOk, runVars, fileVars
<1>3. CASE WCloseFailed
  BY <1>3, <1>t, <1>0, <1>c DEF WCloseFailed, At, RunMove, Q!Is, runVars
<1>4. CASE \/ WClose \/ WCloseReceipt
  BY <1>4, <1>t, <1>0, <1>c DEF WClose, WCloseReceipt, At, RunMove, Q!Is, runVars
<1>5. ASSUME NEW x \in Sessions, GRequest(x) PROVE RunMove(s)
  BY <1>5, <1>t DEF GRequest, RunMove
<1>6. CASE GReserve
  BY <1>6, <1>t DEF GReserve, Holding, GoneRuns, RunMove
<1>7. CASE \/ GMark \/ GPromote
  BY <1>7, <1>t, <1>0, <1>m DEF GMark, GPromote, Holding, RunMove
<1>8. CASE GTaskLost
  BY <1>8, <1>t, <1>0, <1>c DEF GTaskLost, Holding, RunMove, runVars, Fault
<1>9. CASE GDecide
  BY <1>9, <1>t, <1>0, <1>c DEF GDecide, Holding, RunMove, runVars, DecideCloses
<1>10. CASE GCloseRun
  BY <1>10, <1>t, <1>c DEF GCloseRun, Holding, RunMove
<1>11. CASE GPhase
  BY <1>11, <1>t, <1>0 DEF GPhase, Holding, RunMove, Purging, purge_session_artifacts,
     runVars
<1>12. CASE \/ WDispatch \/ WProviderOk \/ WIndex \/ WReindex \/ WProject \/ WSettle \/ GProject
           \/ GSettle \/ GIndex \/ Restart
  BY <1>12, <1>0 DEF WDispatch, WProviderOk, WIndex, WReindex, WProject, WSettle, GProject,
     GSettle, GIndex, Restart, commit_async_provider_success, project_search,
     begin_projection, settle_projection, recover_unfinished_runs, runVars
<1>13. ASSUME NEW x \in Sessions,
             \/ GRetryProjection(x) \/ SSearch(x) \/ CorruptReceipt(x)
      PROVE RunMove(s)
  BY <1>13, <1>0 DEF GRetryProjection, SSearch, CorruptReceipt,
     commit_async_provider_success, project_search, begin_projection, settle_projection,
     recover_unfinished_runs, runVars
<1>14. CASE \/ WSweep \/ WScan \/ WQuarantineTask \/ WQuarantined \/ WReceipt \/ WReceiptsDone
           \/ WClaimNext \/ WCredential \/ WRegister \/ WGateStop \/ WGatePass \/ WReject
           \/ WProviderError \/ WJoin \/ WFinalize \/ WComplete \/ WLoro \/ WFailure
           \/ WReconcile \/ WFault \/ WHeartbeat
  BY <1>14, <1>0 DEF WSweep, WScan, WQuarantineTask, WQuarantined, WReceipt, WReceiptsDone,
     WClaimNext, WCredential, WRegister, WGateStop, WGatePass, WReject, WProviderError,
     WJoin, WFinalize, WComplete, WLoro, WFailure, WReconcile, WFault, WHeartbeat, runVars
<1>15. CASE \/ GEnqueue \/ GReceipt \/ GTaskFound \/ GTaskRebuild \/ GPrivacy \/ GCloseTask \/ GFault
           \/ GLoro \/ GStop \/ GWait \/ GWaitTimeout \/ GPhaseFault \/ GRecord \/ GFinish
           \/ SNextStage \/ Crash \/ LoseTasksDb \/ ToggleKey
  BY <1>15, <1>0 DEF GEnqueue, GReceipt, GTaskFound, GTaskRebuild, GPrivacy, GCloseTask,
     GFault, GLoro, GStop, GWait, GWaitTimeout, GPhaseFault, GRecord, GFinish, SNextStage,
     Crash, LoseTasksDb, ToggleKey, runVars
<1>16. ASSUME NEW x \in Sessions,
             \/ GPurge(x) \/ SPurge(x) \/ STask(x) \/ SProjection(x) \/ ExpireLease(x)
      PROVE RunMove(s)
  BY <1>16, <1>0 DEF GPurge, SPurge, STask, SProjection, ExpireLease, runVars
<1>17. CASE UNCHANGED vars
  BY <1>17, <1>0 DEF vars, runVars, fileVars, lifeVars, histVars
<1> QED
  BY <1>1, <1>2, <1>3, <1>4, <1>5, <1>6, <1>7, <1>8, <1>9, <1>10, <1>11, <1>12, <1>13,
     <1>14, <1>15, <1>16, <1>17 DEF Next, Worker_Next, User, Gate_Step, Startup_Step,
     Environment

(* A row leaves "absent" only in the gate holder's commits, becomes completed in
   the worker's or the gate holder's, and goes missing only as its session is
   deleted or while the app is closed. *)
LEMMA RowMoves ==
  ASSUME Typed, GoneRuns, Quiet, [Next]_vars, NEW s \in Sessions
  PROVE  RowMove(s)
<1>t. /\ task \in Rows /\ async \in [Sessions -> AsyncState]
      /\ receipt \in [Sessions -> {"none", "valid", "corrupt"}]
      /\ w \in Worker /\ (w.pc \in Busy => w.s \in Sessions)
      /\ g \in Gate /\ (g.pc # "free" => g.s \in Sessions)
      /\ (g.pc \in Purging => Tombstoned(g.s))
  BY DEF Typed, WorkerOK, GateOK, RunOK, PurgeOK
<1> USE DEF Works, Gates, Busy, OwnedPc, Q!Is, Q!Present
<1>b. \A x \in blocked : Gone(x)
  BY DEF Quiet
<1>0. UNCHANGED task => RowMove(s)
  BY DEF RowMove
<1>m. ASSUME NEW x \in Sessions, NEW status, NEW retry, NEW lease, Q!Move(x, status, retry, lease)
      PROVE  /\ s # x => task'[s] = task[s]
             /\ s = x => task'[s].status = status
  BY <1>m, <1>t DEF Q!Move, Rows
<1>p. ASSUME NEW x \in Sessions, Q!PurgeTasks({x}), s = x => Gone(s)
      PROVE  RowMove(s)
  BY <1>p, <1>t DEF Q!PurgeTasks, Q!NoRow, RowMove
<1>e. ASSUME NEW x \in Sessions, NEW max, Q!Enqueue(x, max)
      PROVE  /\ task'[s] = task[s] \/ s = x
             /\ s = x => task'[s].status = task[s].status \/
                           (~Q!Present(s) /\ task'[s].status = "pending")
  BY <1>e, <1>t DEF Q!Enqueue, Q!Pending, Rows
<1>1. CASE WQuarantineTask
  BY <1>1, <1>t, <1>0, <1>m DEF WQuarantineTask, At, Worker, RowMove
<1>2. CASE WReceipt
  BY <1>2, <1>t, <1>0, <1>m DEF WReceipt, At, Worker, RowMove, Q!Claim
<1>3. CASE WClaimNext
  BY <1>3, <1>t, <1>0, <1>m DEF WClaimNext, At, RowMove, Q!Claim
<1>4. CASE WCredential
  BY <1>4, <1>t, <1>0, <1>m DEF WCredential, At, RowMove, Q!ReleaseWithoutRetry
<1>5. CASE WRegister
  BY <1>5, <1>t, <1>0, <1>b, <1>p DEF WRegister, At
<1>6. CASE WGateStop
  BY <1>6, <1>t, <1>0, <1>p DEF WGateStop, AfterGate, Gone
<1>7. CASE WReject
  BY <1>7, <1>t, <1>0, <1>m DEF WReject, At, RowMove, Q!FailLocalPreflight
<1>8. CASE WComplete
  BY <1>8, <1>t, <1>0, <1>m DEF WComplete, At, RowMove, Q!Complete
<1>9. CASE WFailure
  BY <1>9, <1>t, <1>0, <1>m DEF WFailure, At, RowMove, Q!FailLocalPreflight, Q!Fail
<1>10. CASE WCloseReceipt
  BY <1>10, <1>t, <1>0, <1>p DEF WCloseReceipt, At, Gone
<1>11. CASE WHeartbeat
  BY <1>11, <1>t, <1>0, <1>m DEF WHeartbeat, HandlerPc, RowMove, Q!Heartbeat
<1>12. CASE GEnqueue
  BY <1>12, <1>t, <1>0, <1>e DEF GEnqueue, Holding, RowMove, runVars, NoFault, Fault, GGoto,
     Gate, GatePc
<1>13. CASE GTaskRebuild
  BY <1>13, <1>t, <1>0, <1>e DEF GTaskRebuild, Holding, RowMove, runVars, NoFault, Fault,
     GGoto, Gate, GatePc
<1>14. CASE GCloseTask
  BY <1>14, <1>t, <1>0, <1>m DEF GCloseTask, Holding, RowMove, Q!CompleteFromReceipt
<1>15. CASE GPhase
  BY <1>15, <1>t, <1>0, <1>p DEF GPhase, Holding, Purging, Gone
<1>16. CASE Restart
  BY <1>16, <1>t DEF Restart, Q!RecoverAbandoned, RowMove, Rows
<1>17. CASE LoseTasksDb
  BY <1>17, <1>t DEF LoseTasksDb, Q!PurgeTasks, Q!NoRow, RowMove, Fault, lifeVars
<1>18. ASSUME NEW x \in Sessions, ExpireLease(x) PROVE RowMove(s)
  BY <1>18, <1>t DEF ExpireLease, Q!Expire, RowMove, Rows, Q!Row
<1>19. CASE \/ WSweep \/ WScan \/ WQuarantineRun \/ WQuarantined \/ WReceiptsDone \/ WGatePass
           \/ WVerify \/ WCloseFailed \/ WDispatch \/ WProviderOk \/ WProviderError
           \/ WIndex \/ WJoin \/ WFinalize \/ WClose \/ WProject \/ WLoro \/ WSettle
           \/ WReconcile \/ WReindex \/ WFault
  BY <1>19, <1>0 DEF WSweep, WScan, WQuarantineRun, WQuarantined, WReceiptsDone, WGatePass,
     WVerify, WCloseFailed, WDispatch, WProviderOk, WProviderError, WIndex, WJoin,
     WFinalize, WClose, WProject, WLoro, WSettle, WReconcile, WReindex, WFault
<1>20. CASE \/ GReserve \/ GMark \/ GReceipt \/ GTaskFound \/ GTaskLost \/ GPromote \/ GDecide
           \/ GIndex \/ GPrivacy \/ GCloseRun \/ GFault \/ GProject \/ GLoro \/ GSettle
           \/ GStop \/ GWait \/ GWaitTimeout \/ GPhaseFault \/ GRecord \/ GFinish
           \/ SNextStage \/ Crash \/ ToggleKey
  BY <1>20, <1>0 DEF GReserve, GMark, GReceipt, GTaskFound, GTaskLost, GPromote, GDecide,
     GIndex, GPrivacy, GCloseRun, GFault, GProject, GLoro, GSettle, GStop, GWait,
     GWaitTimeout, GPhaseFault, GRecord, GFinish, SNextStage, Crash, ToggleKey
<1>21. ASSUME NEW x \in Sessions,
             \/ GRequest(x) \/ GRetryProjection(x) \/ GPurge(x) \/ SPurge(x) \/ SSearch(x)
             \/ STask(x) \/ SProjection(x) \/ CorruptReceipt(x)
      PROVE RowMove(s)
  BY <1>21, <1>0 DEF GRequest, GRetryProjection, GPurge, SPurge, SSearch, STask,
     SProjection, CorruptReceipt
<1>22. CASE UNCHANGED vars
  BY <1>22, <1>0 DEF vars, runVars, fileVars, lifeVars, histVars
<1> QED
  BY <1>1, <1>2, <1>3, <1>4, <1>5, <1>6, <1>7, <1>8, <1>9, <1>10, <1>11, <1>12, <1>13,
     <1>14, <1>15, <1>16, <1>17, <1>18, <1>19, <1>20, <1>21, <1>22 DEF Next, Worker_Next,
     User, Gate_Step, Startup_Step, Environment

(* A receipt appears only under the hands of the worker that got the result. *)
LEMMA ReceiptMoves ==
  ASSUME Typed, GoneRuns, [Next]_vars, NEW s \in Sessions
  PROVE  ReceiptMove(s)
<1>t. /\ task \in Rows /\ async \in [Sessions -> AsyncState]
      /\ receipt \in [Sessions -> {"none", "valid", "corrupt"}]
      /\ w \in Worker /\ (w.pc \in Busy => w.s \in Sessions)
      /\ g \in Gate /\ (g.pc # "free" => g.s \in Sessions)
      /\ (g.pc \in Purging => Tombstoned(g.s))
  BY DEF Typed, WorkerOK, GateOK, RunOK, PurgeOK
<1> USE DEF Works, Gates, Busy, OwnedPc
<1>0. UNCHANGED receipt => ReceiptMove(s)
  BY DEF ReceiptMove
<1>c. ASSUME NEW x, NEW ok, mark_async_task_terminal(x, ok)
      PROVE  ReceiptMove(s)
  BY <1>c DEF mark_async_task_terminal, ReceiptMove
<1>1. CASE \/ WQuarantineRun \/ WCloseFailed \/ WClose \/ WCloseReceipt \/ GTaskLost \/ GDecide
           \/ GCloseRun
  BY <1>1, <1>0, <1>c DEF WQuarantineRun, WCloseFailed, WClose, WCloseReceipt, GTaskLost,
     GDecide, GCloseRun, runVars
<1>2. CASE WProviderOk
  <2>1. w.pc = "provider" /\ w.s \in Sessions
    BY <1>2, <1>t DEF WProviderOk, At
  <2>2. CASE UNCHANGED receipt
    BY <2>2, <1>0
  <2>3. CASE ~UNCHANGED receipt
    <3>1. /\ MayCommitReceipt(w.s) /\ commit_async_provider_success(w.s)
          /\ w' = [w EXCEPT !.pc = "index", !.res = "ok"]
          /\ UNCHANGED <<task, purge, g, proc>>
      BY <1>2, <2>3 DEF WProviderOk, runVars, lifeVars
    <3>2. w'.pc = "index" /\ w'.s = w.s /\ w'.res = "ok"
      BY <3>1, <1>t DEF Worker
    <3> QED BY <2>1, <3>1, <3>2, <1>t DEF commit_async_provider_success, MayCommitReceipt,
       ReceiptMove
  <2> QED BY <2>2, <2>3
<1>3. ASSUME NEW x \in Sessions, CorruptReceipt(x) PROVE ReceiptMove(s)
  BY <1>3, <1>t DEF CorruptReceipt, ReceiptMove, Fault
<1>4. CASE GPhase
  BY <1>4, <1>t, <1>0 DEF GPhase, Holding, purge_session_artifacts, ReceiptMove, runVars
<1>5. CASE \/ WDispatch \/ WIndex \/ WReindex \/ WProject \/ WSettle \/ GProject \/ GSettle \/ GIndex
           \/ Restart
  BY <1>5, <1>0 DEF WDispatch, WIndex, WReindex, WProject, WSettle, GProject, GSettle,
     GIndex, Restart, project_search, begin_projection, settle_projection, runVars
<1>6. ASSUME NEW x \in Sessions,
             \/ GRetryProjection(x) \/ SSearch(x)
      PROVE ReceiptMove(s)
  BY <1>6, <1>0 DEF GRetryProjection, SSearch, project_search, begin_projection,
     settle_projection, runVars
<1>7. CASE \/ WSweep \/ WScan \/ WQuarantineTask \/ WQuarantined \/ WReceipt \/ WReceiptsDone
           \/ WClaimNext \/ WCredential \/ WRegister \/ WGateStop \/ WGatePass \/ WVerify
           \/ WReject \/ WProviderError \/ WJoin \/ WFinalize \/ WComplete \/ WLoro
           \/ WFailure \/ WReconcile \/ WFault \/ WHeartbeat
  BY <1>7, <1>0 DEF WSweep, WScan, WQuarantineTask, WQuarantined, WReceipt, WReceiptsDone,
     WClaimNext, WCredential, WRegister, WGateStop, WGatePass, WVerify, WReject,
     WProviderError, WJoin, WFinalize, WComplete, WLoro, WFailure, WReconcile, WFault,
     WHeartbeat, runVars
<1>8. CASE \/ GReserve \/ GEnqueue \/ GMark \/ GReceipt \/ GTaskFound \/ GTaskRebuild \/ GPromote
           \/ GPrivacy \/ GCloseTask \/ GFault \/ GLoro \/ GStop \/ GWait \/ GWaitTimeout
           \/ GPhaseFault \/ GRecord \/ GFinish \/ SNextStage \/ Crash \/ LoseTasksDb
           \/ ToggleKey
  BY <1>8, <1>0 DEF GReserve, GEnqueue, GMark, GReceipt, GTaskFound, GTaskRebuild, GPromote,
     GPrivacy, GCloseTask, GFault, GLoro, GStop, GWait, GWaitTimeout, GPhaseFault, GRecord,
     GFinish, SNextStage, Crash, LoseTasksDb, ToggleKey, runVars
<1>9. ASSUME NEW x \in Sessions,
             \/ GRequest(x) \/ GPurge(x) \/ SPurge(x) \/ STask(x) \/ SProjection(x)
             \/ ExpireLease(x)
      PROVE ReceiptMove(s)
  BY <1>9, <1>0 DEF GRequest, GPurge, SPurge, STask, SProjection, ExpireLease, runVars
<1>10. CASE UNCHANGED vars
  BY <1>10, <1>0 DEF vars, runVars, fileVars, lifeVars, histVars
<1> QED
  BY <1>1, <1>2, <1>3, <1>4, <1>5, <1>6, <1>7, <1>8, <1>9, <1>10 DEF Next, Worker_Next,
     User, Gate_Step, Startup_Step, Environment

(* The gate holder's steps, as a session sees them. *)
LEMMA GateMoves ==
  ASSUME Typed, GoneRuns, [Next]_vars, NEW s \in Sessions
  PROVE  GateMove(s) /\ GateLeaves(s)
<1> DEFINE Goal == GateMove(s) /\ GateLeaves(s)
<1> SUFFICES Goal
  OBVIOUS
<1>t. /\ task \in Rows /\ async \in [Sessions -> AsyncState]
      /\ receipt \in [Sessions -> {"none", "valid", "corrupt"}]
      /\ w \in Worker /\ (w.pc \in Busy => w.s \in Sessions)
      /\ g \in Gate /\ (g.pc # "free" => g.s \in Sessions)
      /\ (g.pc \in Purging => Tombstoned(g.s))
  BY DEF Typed, WorkerOK, GateOK, RunOK, PurgeOK
<1>d. proc = "down" => g.pc = "free"
  BY DEF Typed, PurgeOK
<1> USE DEF Works, Gates, EnsurePc, Q!Is, Q!Present
<1>0. UNCHANGED g => Goal
  BY DEF GateMove, GateLeaves
<1>f. g.pc \notin EnsurePc /\ g'.pc \notin EnsurePc => Goal
  BY DEF GateMove, GateLeaves
<1>l. (Release \/ g'.pc \notin EnsurePc) /\ faults' = faults + 1 => Goal
  BY DEF Release, FreeGate, GateMove, GateLeaves
<1>r. Release => g'.pc = "free"
  BY DEF Release, FreeGate
<1>a. Abort => g'.pc = "free" /\ (proc = "tasks" => proc' = "down")
  BY <1>r DEF Abort, Starting
<1>h. ASSUME NEW pc \in GatePc, GGoto(pc)
      PROVE  g'.pc = pc /\ g'.s = g.s /\ g'.rcpt = g.rcpt /\ g'.status = g.status
  BY <1>h, <1>t DEF GGoto, Gate
<1>1. CASE \/ WSweep \/ WScan \/ WQuarantineTask \/ WQuarantineRun \/ WQuarantined \/ WReceipt
           \/ WReceiptsDone \/ WClaimNext \/ WCredential \/ WRegister \/ WGateStop
           \/ WGatePass \/ WVerify \/ WReject \/ WCloseFailed \/ WDispatch \/ WProviderOk
           \/ WProviderError \/ WIndex \/ WJoin \/ WFinalize \/ WComplete \/ WClose
           \/ WProject \/ WLoro \/ WSettle \/ WFailure \/ WReconcile \/ WCloseReceipt
           \/ WReindex \/ WFault
  BY <1>1, <1>0, WorkerKeeps DEF Worker_Next, Typed
<1>2. CASE \/ WHeartbeat \/ Restart \/ ToggleKey \/ LoseTasksDb \/ SNextStage
  BY <1>2, <1>0 DEF WHeartbeat, Restart, ToggleKey, LoseTasksDb, SNextStage
<1>3. ASSUME NEW x \in Sessions,
             \/ SSearch(x) \/ ExpireLease(x) \/ CorruptReceipt(x)
      PROVE Goal
  BY <1>3, <1>0 DEF SSearch, ExpireLease, CorruptReceipt
<1>4. CASE Crash
  BY <1>4, <1>f DEF Crash, FreeGate, GateMove, GateLeaves
<1>5. ASSUME NEW x \in Sessions, GRequest(x) PROVE Goal
  BY <1>5, <1>t DEF GRequest, Ensure, FreeGate, GateMove, GateLeaves, InFlight
<1>6. ASSUME NEW x \in Sessions, STask(x) PROVE Goal
  <2>1. CASE Tombstoned(x)
    BY <1>6, <1>0, <2>1 DEF STask
  <2>2. CASE ~Tombstoned(x)
    <3>1. g.pc = "free" /\ UNCHANGED <<async, receipt, task>> /\ Ensure(x, async[x])
      BY <1>6, <2>2 DEF STask, runVars
    <3>2. GateLeaves(s)
      BY <3>1 DEF GateLeaves
    <3>3. /\ g'.pc \in {"free", "reserve", "receipt"}
          /\ g'.pc # "free" => g'.s = x
          /\ g'.pc = "reserve" => async[x] = "pending"
          /\ g'.pc = "receipt" => InFlight(x)
      BY <3>1, EnsureGoes, Zenon DEF InFlight
    <3>4. GateMove(s)
      BY <3>1, <3>3 DEF GateMove
    <3> QED BY <3>2, <3>4
  <2> QED BY <2>1, <2>2
<1>7. ASSUME NEW x \in Sessions,
             \/ GRetryProjection(x) \/ SProjection(x) \/ GPurge(x) \/ SPurge(x)
      PROVE Goal
  BY <1>7, <1>0, <1>f DEF GRetryProjection, SProjection, GPurge, SPurge, FreeGate
<1>8. CASE GReserve
  BY <1>8, <1>t, <1>r, <1>a, <1>h, <1>l, <1>0 DEF GReserve, Holding, GatePc, GateMove,
     GateLeaves
<1>9. CASE GEnqueue
  BY <1>9, <1>t, <1>r, <1>a, <1>h, <1>l, <1>0 DEF GEnqueue, Holding, GatePc, GateMove,
     GateLeaves, Q!Enqueue, Q!Pending, Rows, Fault
<1>10. CASE GMark
  BY <1>10, <1>t, <1>r, <1>a, <1>h, <1>l, <1>0 DEF GMark, Holding, GatePc, GateMove,
     GateLeaves
<1>11. CASE GReceipt
  <2>1. g.pc = "receipt" /\ g.s \in Sessions /\ UNCHANGED <<runVars, task, proc>>
    BY <1>11, <1>t DEF GReceipt, Holding, lifeVars
  <2>2. CASE receipt[g.s] = "corrupt"
    BY <1>11, <2>1, <2>2, <1>r DEF GReceipt, GateMove, GateLeaves
  <2>3. CASE receipt[g.s] # "corrupt"
    <3>1. /\ g'.pc = "task" /\ g'.s = g.s
          /\ g'.rcpt <=> receipt[g.s] = "valid"
      BY <1>11, <2>3, <1>t DEF GReceipt, Gate
    <3> QED BY <2>1, <2>3, <3>1 DEF GateMove, GateLeaves, runVars
  <2> QED BY <2>2, <2>3
<1>12. CASE GTaskFound
  BY <1>12, <1>t, <1>r, <1>a, <1>h, <1>l, <1>0 DEF GTaskFound, Holding, GatePc, GateMove,
     GateLeaves, Gate
<1>13. CASE GTaskRebuild
  <2>1. g.pc = "task" /\ g.s \in Sessions /\ ~Q!Present(g.s)
    BY <1>13, <1>t DEF GTaskRebuild, Holding
  <2>2. CASE Fault
    <3>1. faults' = faults + 1 /\ faults' # faults
      BY <2>2 DEF Fault, Typed, HistOK
    <3> QED BY <1>13, <3>1, <1>a, <1>l DEF GTaskRebuild, NoFault, EnsurePc
  <2>3. CASE ~Fault
    <3>1. Q!Enqueue(g.s, 3) /\ g' = [g EXCEPT !.pc = "promote", !.status = "pending"]
      BY <1>13, <2>3 DEF GTaskRebuild
    <3>2. g'.pc = "promote" /\ g'.s = g.s /\ g'.rcpt = g.rcpt /\ g'.status = "pending"
      BY <3>1, <1>t DEF Gate
    <3>3. task'[g.s].status = "pending"
      BY <3>1, <2>1, <1>t DEF Q!Enqueue, Q!Pending, Rows
    <3> QED BY <2>1, <3>2, <3>3 DEF GateMove, GateLeaves
  <2> QED BY <2>2, <2>3
<1>14. CASE GTaskLost
  BY <1>14, <1>t, <1>r, <1>a, <1>h, <1>l, <1>0 DEF GTaskLost, Holding, GatePc, GateMove,
     GateLeaves, Fault, mark_async_task_terminal, runVars
<1>15. CASE GPromote
  BY <1>15, <1>t, <1>r, <1>a, <1>h, <1>l, <1>0 DEF GPromote, Holding, GatePc, GateMove,
     GateLeaves, mark_async_task_enqueued
<1>16. CASE GDecide
  BY <1>16, <1>t, <1>r, <1>a, <1>h, <1>l, <1>0 DEF GDecide, Holding, GatePc, GateMove,
     GateLeaves
<1>17. CASE GIndex
  BY <1>17, <1>t, <1>r, <1>a, <1>h, <1>l, <1>0 DEF GIndex, Holding, GatePc, GateMove,
     GateLeaves
<1>18. CASE GPrivacy
  BY <1>18, <1>t, <1>r, <1>a, <1>h, <1>l, <1>0 DEF GPrivacy, Holding, GatePc, GateMove,
     GateLeaves, Fault
<1>19. CASE GCloseTask
  BY <1>19, <1>t, <1>r, <1>a, <1>h, <1>l, <1>0 DEF GCloseTask, Holding, GatePc, GateMove,
     GateLeaves, Q!CompleteFromReceipt, Q!Move, Rows
<1>20. CASE GCloseRun
  BY <1>20, <1>t, <1>r, <1>a, <1>h, <1>l, <1>0 DEF GCloseRun, Holding, GatePc, GateMove,
     GateLeaves
<1>21. CASE \/ GFault \/ GPhaseFault
  BY <1>21, <1>l, <1>r, <1>a DEF GFault, GPhaseFault, Fault
<1>22. CASE \/ GWaitTimeout \/ GFinish \/ GProject \/ GLoro \/ GSettle \/ GStop \/ GWait \/ GPhase
           \/ GRecord
  BY <1>22, <1>f, <1>h, <1>r DEF GWaitTimeout, GFinish, GProject, GLoro, GSettle, GStop,
     GWait, GPhase, GRecord, Holding, GatePc, begin_projection, write_document,
     settle_projection
<1>23. CASE UNCHANGED vars
  BY <1>23, <1>0 DEF vars, runVars, fileVars, lifeVars, histVars
<1> QED
  BY <1>1, <1>2, <1>3, <1>4, <1>5, <1>6, <1>7, <1>8, <1>9, <1>10, <1>11, <1>12, <1>13,
     <1>14, <1>15, <1>16, <1>17, <1>18, <1>19, <1>20, <1>21, <1>22, <1>23 DEF Next,
     Worker_Next, User, Gate_Step, Startup_Step, Environment

(* Start-up's stages, as a session sees them. *)
LEMMA StageMoves ==
  ASSUME Typed, GoneRuns, [Next]_vars, NEW s \in Sessions
  PROVE  StageMove(s)
<1>t. /\ task \in Rows /\ async \in [Sessions -> AsyncState]
      /\ receipt \in [Sessions -> {"none", "valid", "corrupt"}]
      /\ w \in Worker /\ (w.pc \in Busy => w.s \in Sessions)
      /\ g \in Gate /\ (g.pc # "free" => g.s \in Sessions)
      /\ (g.pc \in Purging => Tombstoned(g.s))
  BY DEF Typed, WorkerOK, GateOK, RunOK, PurgeOK
<1> USE DEF Gates
<1>0. UNCHANGED <<proc, todo>> => StageMove(s)
  BY DEF StageMove
<1>a. Abort /\ UNCHANGED todo => StageMove(s)
  BY <1>0 DEF Abort, StageMove
<1>1. CASE Restart
  BY <1>1, <1>t DEF Restart, StageMove, Q!RecoverAbandoned, Q!Is
<1>2. CASE Crash
  BY <1>2 DEF Crash, StageMove
<1>3. CASE SNextStage
  BY <1>3, <1>t DEF SNextStage, StageMove, runVars
<1>4. ASSUME NEW x \in Sessions, STask(x) PROVE StageMove(s)
  BY <1>4, <1>t DEF STask, StageMove, runVars, histVars, Ensure, FreeGate, InFlight
<1>5. ASSUME NEW x \in Sessions,
             \/ SPurge(x) \/ SSearch(x) \/ SProjection(x)
      PROVE StageMove(s)
  BY <1>5, <1>t DEF SPurge, SSearch, SProjection, StageMove
<1>6. CASE \/ GEnqueue \/ GMark \/ GTaskRebuild \/ GTaskLost \/ GPromote \/ GDecide \/ GFault
  BY <1>6, <1>0, <1>a DEF GEnqueue, GMark, GTaskRebuild, GTaskLost, GPromote, GDecide,
     GFault
<1>7. CASE \/ WSweep \/ WScan \/ WQuarantineTask \/ WQuarantineRun \/ WQuarantined \/ WReceipt
           \/ WReceiptsDone \/ WClaimNext \/ WCredential \/ WRegister \/ WGateStop
           \/ WGatePass \/ WVerify \/ WReject \/ WCloseFailed \/ WDispatch \/ WProviderOk
           \/ WProviderError \/ WIndex \/ WJoin \/ WFinalize \/ WComplete \/ WClose
           \/ WProject \/ WLoro \/ WSettle \/ WFailure \/ WReconcile \/ WCloseReceipt
           \/ WReindex \/ WFault \/ WHeartbeat
  BY <1>7, <1>0 DEF WSweep, WScan, WQuarantineTask, WQuarantineRun, WQuarantined, WReceipt,
     WReceiptsDone, WClaimNext, WCredential, WRegister, WGateStop, WGatePass, WVerify,
     WReject, WCloseFailed, WDispatch, WProviderOk, WProviderError, WIndex, WJoin,
     WFinalize, WComplete, WClose, WProject, WLoro, WSettle, WFailure, WReconcile,
     WCloseReceipt, WReindex, WFault, WHeartbeat, lifeVars
<1>8. CASE \/ GReserve \/ GReceipt \/ GTaskFound \/ GIndex \/ GPrivacy \/ GCloseTask \/ GCloseRun
           \/ GProject \/ GLoro \/ GSettle \/ GStop \/ GWait \/ GWaitTimeout \/ GPhase
           \/ GPhaseFault \/ GRecord \/ GFinish \/ LoseTasksDb \/ ToggleKey
  BY <1>8, <1>0 DEF GReserve, GReceipt, GTaskFound, GIndex, GPrivacy, GCloseTask, GCloseRun,
     GProject, GLoro, GSettle, GStop, GWait, GWaitTimeout, GPhase, GPhaseFault, GRecord,
     GFinish, LoseTasksDb, ToggleKey, lifeVars
<1>9. ASSUME NEW x \in Sessions,
             \/ GRequest(x) \/ GRetryProjection(x) \/ GPurge(x) \/ ExpireLease(x)
             \/ CorruptReceipt(x)
      PROVE StageMove(s)
  BY <1>9, <1>0 DEF GRequest, GRetryProjection, GPurge, ExpireLease, CorruptReceipt,
     lifeVars
<1>10. CASE UNCHANGED vars
  BY <1>10, <1>0 DEF vars, runVars, fileVars, lifeVars, histVars
<1> QED
  BY <1>1, <1>2, <1>3, <1>4, <1>5, <1>6, <1>7, <1>8, <1>9, <1>10 DEF Next, Worker_Next,
     User, Gate_Step, Startup_Step, Environment

(* The worker's steps, as a session sees them. *)
LEMMA WorkerMoves ==
  ASSUME Typed, Quiet, [Next]_vars, NEW s \in Sessions
  PROVE  WorkerMove(s)
<1>t. w \in Worker /\ (w.pc \in Busy => w.s \in Sessions)
  BY DEF Typed, WorkerOK
<1>c. faults \in Nat
  BY DEF Typed, HistOK
<1> USE DEF Works, Finishing, OkPc, HolderPc
<1>0. UNCHANGED w => WorkerMove(s)
  BY DEF WorkerMove
<1>q. ~Finishing(s) /\ w'.corrupt = {} /\ w'.pc \in {"idle", "unswept", "reconcile"} => WorkerMove(s)
  BY DEF WorkerMove
<1>d. w'.corrupt = {} /\ w'.pc \in {"idle", "unswept"} /\ (proc' = "down" \/ faults' = faults + 1)
        => WorkerMove(s)
  BY DEF WorkerMove
<1>i. GoIdle => w'.corrupt = {} /\ w'.pc = "idle"
  BY DEF GoIdle, IdleWorker
<1>j. ASSUME NEW pc \in FreePc \cup OwnedPc, Goto(pc)
      PROVE  w'.pc = pc /\ w'.s = w.s /\ w'.res = w.res /\ w'.corrupt = w.corrupt
  BY <1>j, <1>t DEF Goto, Worker
<1>1. CASE \/ WSweep \/ WQuarantined \/ WReceiptsDone
  BY <1>1, <1>t, <1>i, <1>j, <1>q DEF WSweep, WQuarantined, WReceiptsDone, At, OwnedPc,
     FreePc, WorkerMove
<1>2. CASE WScan
  <2>1. w.pc = "idle" /\ w'.pc = "quarantine" /\ (s \in w'.corrupt => receipt[s] = "corrupt")
    BY <1>2, <1>t DEF WScan, At, Worker
  <2> QED BY <2>1 DEF WorkerMove
<1>3. CASE WQuarantineTask
  <2>1. PICK x \in w.corrupt : w' = [w EXCEPT !.pc = "quarantine_run", !.s = x]
    BY <1>3 DEF WQuarantineTask
  <2>2. w.pc = "quarantine" /\ w'.pc = "quarantine_run" /\ w'.s = x /\ w'.corrupt = w.corrupt
    BY <1>3, <2>1, <1>t DEF WQuarantineTask, At, Worker
  <2> QED BY <2>1, <2>2 DEF WorkerMove
<1>4. CASE WQuarantineRun
  <2>1. w.pc = "quarantine_run" /\ w'.pc = "quarantine" /\ w'.corrupt \subseteq w.corrupt
    BY <1>4, <1>t DEF WQuarantineRun, At, Worker
  <2> QED BY <2>1 DEF WorkerMove
<1>5. CASE WReceipt
  <2>0. proc = "running" /\ w.pc = "receipts"
    BY <1>5 DEF WReceipt, At
  <2>1. PICK x \in w.scan :
          \/ w' = [IdleWorker EXCEPT !.pc = "reconcile", !.s = x]
          \/ Q!Claim(x) /\ w' = [IdleWorker EXCEPT !.pc = "register", !.s = x, !.ready = TRUE]
          \/ w' = [w EXCEPT !.scan = w.scan \ {x}]
    BY <1>5 DEF WReceipt
  <2>2. IdleWorker \in Worker /\ IdleWorker.corrupt = {}
    BY DEF IdleWorker, Worker, FreePc
  <2>3. \/ w'.pc = "reconcile" /\ w'.corrupt = {}
        \/ w'.pc = "register" /\ w'.corrupt = {} /\ w'.s = x /\ Q!Claimable(x)
        \/ w'.pc = "receipts" /\ w'.corrupt = w.corrupt
    BY <2>0, <2>1, <2>2, <1>t DEF Worker, Q!Claim
  <2> QED BY <2>0, <2>3 DEF WorkerMove
<1>6. CASE WClaimNext
  <2>0. proc = "running" /\ w.pc = "claim"
    BY <1>6 DEF WClaimNext, At
  <2>1. CASE GoIdle
    BY <2>0, <2>1, <1>i DEF WorkerMove
  <2>2. CASE ~GoIdle
    <3>1. PICK x \in Sessions : Q!Claim(x) /\ w' = [IdleWorker EXCEPT !.pc = "credential", !.s = x]
      BY <1>6, <2>2 DEF WClaimNext
    <3>2. w'.corrupt = {} /\ w'.pc = "credential" /\ w'.s = x
      BY <3>1 DEF IdleWorker
    <3> QED BY <2>0, <3>1, <3>2 DEF WorkerMove, Q!Claim
  <2> QED BY <2>1, <2>2
<1>7. CASE WCredential
  BY <1>7, <1>t, <1>i, <1>j, <1>q DEF WCredential, At, OwnedPc, FreePc, WorkerMove
<1>8. CASE WRegister
  BY <1>8, <1>t, <1>i, <1>j, <1>q DEF WRegister, At, OwnedPc, FreePc, WorkerMove
<1>9. CASE WGateStop
  <2>1. w'.corrupt = {} /\ w'.pc = "idle"
    BY <1>9, <1>i DEF WGateStop
  <2>2. w.s \in blocked => Gone(w.s)
    BY DEF Quiet
  <2>3. Finishing(s) => Gone(s) \/ ~Q!Is(s, "running") \/ faults' = faults + 1
    BY <1>9, <2>2 DEF WGateStop, Gone, AfterGate, TokenGates, Q!Present, Q!Is, Fault
  <2> QED BY <2>1, <2>3 DEF WorkerMove
<1>10. CASE WGatePass
  <2>1. CASE w.pc = "gate3" /\ w.res # "ok"
    BY <1>10, <2>1, <1>j DEF WGatePass, WorkerMove, OwnedPc
  <2>2. CASE ~(w.pc = "gate3" /\ w.res # "ok")
    <3>1. /\ w.pc \in {"gate1", "gate2", "gate3", "gate4", "gate_close", "gate_index",
                      "gate_loro", "gate_done"}
          /\ w.pc # "gate_done" => Goto(AfterGate[w.pc])
          /\ w.pc = "gate_done" => GoIdle
      BY <1>10, <2>2 DEF WGatePass, AfterGate
    <3>2. AfterGate[w.pc] \in FreePc \cup OwnedPc
      BY <3>1 DEF AfterGate, FreePc, OwnedPc
    <3>3. CASE w.pc = "gate_done"
      BY <3>1, <3>3, <1>i DEF WorkerMove
    <3>4. CASE w.pc # "gate_done"
      <4>1. /\ w'.pc = AfterGate[w.pc] /\ w'.s = w.s /\ w'.res = w.res
            /\ w'.corrupt = w.corrupt
        BY <3>1, <3>2, <3>4, <1>j
      <4> QED BY <3>1, <3>4, <4>1 DEF WorkerMove, AfterGate
    <3> QED BY <3>3, <3>4
  <2> QED BY <2>1, <2>2
<1>11. CASE WVerify
  BY <1>11, <1>t, <1>i, <1>j, <1>q DEF WVerify, At, OwnedPc, FreePc, WorkerMove
<1>12. CASE WReject
  BY <1>12, <1>t, <1>i, <1>j, <1>q DEF WReject, At, OwnedPc, FreePc, WorkerMove
<1>13. CASE WCloseFailed
  BY <1>13, <1>t, <1>i, <1>j, <1>q DEF WCloseFailed, At, OwnedPc, FreePc, WorkerMove
<1>14. CASE WDispatch
  <2>1. /\ w.pc = "dispatch" /\ w'.s = w.s /\ w'.corrupt = w.corrupt
        /\ w'.pc \in {"index", "joined", "provider"}
    BY <1>14, <1>t DEF WDispatch, At, Goto, Worker
  <2> QED BY <2>1 DEF WorkerMove
<1>15. CASE \/ WProviderOk \/ WProviderError
  <2>1. /\ w.pc = "provider" /\ w'.s = w.s /\ w'.corrupt = w.corrupt
        /\ w'.pc \in {"index", "joined"}
    BY <1>15, <1>t DEF WProviderOk, WProviderError, At, Worker
  <2> QED BY <2>1 DEF WorkerMove
<1>16. CASE WIndex
  BY <1>16, <1>t, <1>i, <1>j, <1>q DEF WIndex, At, OwnedPc, FreePc, WorkerMove
<1>17. CASE WJoin
  <2>1. w.s \in blocked => Gone(w.s)
    BY DEF Quiet
  <2> QED BY <1>17, <2>1, <1>t, <1>i, <1>j DEF WJoin, At, OwnedPc, WorkerMove
<1>18. CASE WFinalize
  BY <1>18, <1>t, <1>i, <1>j, <1>q DEF WFinalize, At, OwnedPc, FreePc, WorkerMove, Fault
<1>19. CASE WComplete
  <2>0. w.pc = "complete" /\ w.s \in Sessions /\ task \in Rows
    BY <1>19, <1>t DEF WComplete, At, Busy, OwnedPc, Typed
  <2>1. CASE Q!Is(w.s, "running")
    <3>1. task'[w.s].status = "completed" /\ Goto("close")
      BY <1>19, <2>0, <2>1 DEF WComplete, Q!Complete, Q!Move, Rows
    <3> QED BY <2>0, <3>1, <1>j DEF OwnedPc, WorkerMove, Q!Is
  <2>2. CASE ~Q!Is(w.s, "running")
    BY <1>19, <2>0, <2>2, <1>i DEF WComplete, WorkerMove
  <2> QED BY <2>1, <2>2
<1>20. CASE \/ WClose \/ WCloseReceipt
  <2>1. w.pc \in {"close", "close_receipt"} /\ (GoIdle \/ Goto("gate4") \/ Goto("gate_index"))
    BY <1>20, Zenon DEF WClose, WCloseReceipt, At
  <2> QED BY <2>1, <1>i, <1>j DEF OwnedPc, WorkerMove
<1>21. CASE WProject
  BY <1>21, <1>t, <1>i, <1>j, <1>q DEF WProject, At, OwnedPc, FreePc, WorkerMove,
     begin_projection, GoDone
<1>22. CASE \/ WLoro \/ WSettle
  BY <1>22, <1>t, <1>i, <1>j, <1>q DEF WLoro, WSettle, At, OwnedPc, FreePc, WorkerMove,
     write_document, settle_projection, GoDone
<1>23. CASE WFailure
  BY <1>23, <1>t, <1>i, <1>j, <1>q DEF WFailure, At, OwnedPc, FreePc, WorkerMove
<1>24. CASE \/ WReconcile \/ WReindex
  BY <1>24, <1>t, <1>i, <1>j, <1>q DEF WReconcile, WReindex, At, OwnedPc, FreePc, WorkerMove
<1>25. CASE WFault
  BY <1>25, <1>i, <1>d DEF WFault, Fault
<1>26. CASE SNextStage
  BY <1>26, <1>0, <1>q DEF SNextStage, Quiet, IdleWorker
<1>27. CASE Crash
  BY <1>27, <1>d DEF Crash, IdleWorker
<1>28. CASE WHeartbeat
  BY <1>28, <1>0 DEF WHeartbeat, lifeVars
<1>29. CASE \/ GReserve \/ GEnqueue \/ GMark \/ GReceipt \/ GTaskFound \/ GTaskRebuild \/ GTaskLost
           \/ GPromote \/ GDecide \/ GIndex \/ GPrivacy \/ GCloseTask \/ GCloseRun
           \/ GFault \/ GProject \/ GLoro \/ GSettle \/ GStop \/ GWait \/ GWaitTimeout
           \/ GPhase \/ GPhaseFault \/ GRecord \/ GFinish \/ Restart \/ LoseTasksDb
           \/ ToggleKey
  BY <1>29, <1>0 DEF GReserve, GEnqueue, GMark, GReceipt, GTaskFound, GTaskRebuild,
     GTaskLost, GPromote, GDecide, GIndex, GPrivacy, GCloseTask, GCloseRun, GFault,
     GProject, GLoro, GSettle, GStop, GWait, GWaitTimeout, GPhase, GPhaseFault, GRecord,
     GFinish, Restart, LoseTasksDb, ToggleKey, lifeVars
<1>30. ASSUME NEW x \in Sessions,
             \/ GRequest(x) \/ GRetryProjection(x) \/ GPurge(x) \/ SPurge(x) \/ SSearch(x)
             \/ STask(x) \/ SProjection(x) \/ ExpireLease(x) \/ CorruptReceipt(x)
      PROVE WorkerMove(s)
  BY <1>30, <1>0 DEF GRequest, GRetryProjection, GPurge, SPurge, SSearch, STask,
     SProjection, ExpireLease, CorruptReceipt, lifeVars
<1>31. CASE UNCHANGED vars
  BY <1>31, <1>0 DEF vars, runVars, fileVars, lifeVars, histVars
<1> QED
  BY <1>1, <1>2, <1>3, <1>4, <1>5, <1>6, <1>7, <1>8, <1>9, <1>10, <1>11, <1>12, <1>13,
     <1>14, <1>15, <1>16, <1>17, <1>18, <1>19, <1>20, <1>21, <1>22, <1>23, <1>24, <1>25,
     <1>26, <1>27, <1>28, <1>29, <1>30, <1>31 DEF Next, Worker_Next, User, Gate_Step,
     Startup_Step, Environment

(* "pending" and "reserved" are committed before the row is inserted. *)
LEMMA FreshStep ==
  ASSUME Typed, GoneRuns, Quiet, [Next]_vars, NEW s \in Sessions,
         GateReads(s), RowBacked(s), Fresh(s)
  PROVE  Fresh(s)'
<1>m. RunMove(s) /\ RowMove(s) /\ ReceiptMove(s) /\ GateMove(s) /\ WorkerMove(s)
  BY RunMoves, RowMoves, ReceiptMoves, GateMoves, WorkerMoves
<1>t. /\ async[s] \in AsyncState /\ receipt[s] \in {"none", "valid", "corrupt"}
      /\ task[s].status \in Q!Status /\ (proc = "down" => g.pc = "free")
      /\ (w.pc = "quarantine_run" => w.s \in Sessions)
  BY DEF Typed, RunOK, Rows, Q!Row, PurgeOK, WorkerOK, Busy
<1> USE DEF Works, Gates, Q!Is, Q!Present
<1>g. Gates(EnsurePc, s) => ~Gone(s)
  BY DEF GateReads
<1>1. ASSUME async'[s] \in {"none", "pending"}
      PROVE  ~Q!Present(s)' /\ receipt'[s] = "none"
  <2>1. async[s] \in {"none", "pending"}
    BY <1>1, <1>m, <1>t DEF RunMove, InFlight
  <2>2. ~Q!Present(s) /\ receipt[s] = "none" /\ ~Gates({"enqueue"}, s)
    BY <2>1 DEF Fresh
  <2>3. ~Gates({"close_task"}, s) /\ (Gates({"task"}, s) => ~g.rcpt)
    BY <2>2 DEF GateReads
  <2>4. ~Q!Present(s)'
    BY <2>2, <2>3, <1>m DEF RowMove, Q!Claimable
  <2> QED BY <1>1, <2>1, <2>2, <2>4, <1>m DEF ReceiptMove
<1>2. ASSUME Gates({"enqueue"}, s)'
      PROVE  async'[s] = "reserved" /\ ~Q!Present(s)' /\ receipt'[s] = "none"
  <2>1. CASE UNCHANGED g
    <3>1. async[s] = "reserved" /\ ~Q!Present(s) /\ receipt[s] = "none" /\ g.pc = "enqueue" /\ g.s = s
      BY <1>2, <2>1 DEF Fresh
    <3>2. ~Safe(s) /\ ~Tombstoned(s)
      BY <3>1, <1>g DEF Safe, Gone, EnsurePc
    <3>3. ~Works({"quarantine_run"}, s)
      BY <3>2 DEF RowBacked
    <3>4. async'[s] = "reserved"
      BY <3>1, <3>2, <3>3, <1>m DEF RunMove
    <3>5. ~Q!Present(s)'
      BY <2>1, <3>1, <1>m DEF RowMove, Q!Claimable
    <3> QED BY <3>1, <3>4, <3>5, <1>m DEF ReceiptMove
  <2>2. CASE ~UNCHANGED g
    <3>1. Gates({"reserve"}, s) /\ async'[s] = "reserved" /\ UNCHANGED <<task, receipt>>
      BY <1>2, <2>2, <1>m DEF GateMove, EnsurePc
    <3> QED BY <3>1 DEF GoneRuns, Fresh
  <2> QED BY <2>1, <2>2
<1> QED BY <1>1, <1>2 DEF Fresh

(* A row is completed by the worker that has the receipt, or from the receipt. *)
LEMMA RowBackedStep ==
  ASSUME Typed, GoneRuns, Quiet, [Next]_vars, NEW s \in Sessions,
         WorkerBacked, GateReads(s), RowBacked(s)
  PROVE  RowBacked(s)'
<1>m. RunMove(s) /\ RowMove(s) /\ ReceiptMove(s) /\ GateMove(s) /\ WorkerMove(s)
  BY RunMoves, RowMoves, ReceiptMoves, GateMoves, WorkerMoves
<1>t. /\ async[s] \in AsyncState /\ receipt[s] \in {"none", "valid", "corrupt"}
      /\ task[s].status \in Q!Status /\ (proc = "down" => g.pc = "free")
      /\ (w.pc = "quarantine_run" => w.s \in Sessions)
  BY DEF Typed, RunOK, Rows, Q!Row, PurgeOK, WorkerOK, Busy
<1> USE DEF Works, Gates, Q!Is, Q!Present
<1>s. Safe(s) => Safe(s)'
  BY SafeStays
<1>1. ASSUME Q!Is(s, "completed")' PROVE Safe(s)
  <2>1. Gates({"close_task"}, s) => Safe(s)
    BY DEF GateReads, Safe
  <2> QED BY <1>1, <2>1, <1>m DEF RowMove, RowBacked
<1>2. ASSUME Works({"finalize", "complete"}, s)' PROVE Safe(s)'
  <2>1. CASE Works({"finalize"}, s)'
    BY <2>1, WorkerBackedStep DEF WorkerBacked
  <2>2. CASE Works({"complete"}, s)'
    BY <2>2, <1>m, <1>s DEF WorkerMove, RowBacked
  <2> QED BY <1>2, <2>1, <2>2
<1>3. ASSUME s \in w'.corrupt \/ Works({"quarantine_run"}, s)' PROVE Safe(s)
  BY <1>3, <1>m DEF WorkerMove, RowBacked, Safe
<1> QED BY <1>1, <1>2, <1>3, <1>s DEF RowBacked

(* While the gate is held no row goes missing, and an ended row stays as it is. *)
LEMMA RowSeenStep ==
  ASSUME Typed, GoneRuns, Quiet, [Next]_vars, NEW s \in Sessions,
         GateReads(s), RowBacked(s), RowSeen(s)
  PROVE  RowSeen(s)'
<1>m. RunMove(s) /\ RowMove(s) /\ ReceiptMove(s) /\ GateMove(s) /\ WorkerMove(s)
  BY RunMoves, RowMoves, ReceiptMoves, GateMoves, WorkerMoves
<1>t. /\ async[s] \in AsyncState /\ receipt[s] \in {"none", "valid", "corrupt"}
      /\ task[s].status \in Q!Status /\ (proc = "down" => g.pc = "free")
      /\ (w.pc = "quarantine_run" => w.s \in Sessions)
  BY DEF Typed, RunOK, Rows, Q!Row, PurgeOK, WorkerOK, Busy
<1> USE DEF Works, Gates, Q!Is, Q!Present
<1>g. Gates(EnsurePc, s) => ~Gone(s) /\ proc # "down"
  BY <1>t DEF GateReads, EnsurePc
<1>p. Gates(EnsurePc, s) /\ Q!Present(s) => Q!Present(s)'
  BY <1>m, <1>g DEF RowMove
<1>e. Gates(EnsurePc \ {"close_task"}, s) /\ task[s].status \in {"completed", "failed"}
        => task'[s].status = task[s].status
  BY <1>m, <1>g DEF RowMove, Q!Claimable
<1>1. ASSUME Gates({"receipt", "task"}, s)', async'[s] = "completed"
      PROVE  Q!Present(s)'
  <2>1. CASE UNCHANGED g
    <3>1. CASE async[s] = "completed"
      BY <1>1, <2>1, <3>1, <1>p DEF RowSeen, EnsurePc
    <3>2. CASE async[s] # "completed"
      BY <1>1, <2>1, <3>2, <1>m DEF RunMove
    <3> QED BY <3>1, <3>2
  <2>2. CASE ~UNCHANGED g
    <3>1. \/ InFlight(s) /\ UNCHANGED async
          \/ Gates({"receipt"}, s) /\ UNCHANGED <<async, task>>
      BY <1>1, <2>2, <1>m DEF GateMove, EnsurePc
    <3> QED BY <1>1, <3>1 DEF InFlight, RowSeen
  <2> QED BY <2>1, <2>2
<1>2. ASSUME Gates({"mark", "promote", "decide"}, s)' PROVE Q!Present(s)'
  <2>1. CASE UNCHANGED g
    BY <1>2, <2>1, <1>p DEF RowSeen, EnsurePc
  <2>2. CASE ~UNCHANGED g
    BY <1>2, <2>2, <1>m, <1>p DEF GateMove, EnsurePc, RowSeen
  <2> QED BY <2>1, <2>2
<1>3. ASSUME Gates({"promote", "decide"}, s)', g'.status \in {"completed", "failed"}
      PROVE  Q!Is(s, g.status)'
  <2>1. CASE UNCHANGED g
    BY <1>3, <2>1, <1>e DEF RowSeen, EnsurePc
  <2>2. CASE ~UNCHANGED g
    BY <1>3, <2>2, <1>m DEF GateMove, EnsurePc, RowSeen
  <2> QED BY <2>1, <2>2
<1>4. ASSUME Gates({"close_run"}, s)' PROVE Q!Is(s, "completed")'
  <2>1. CASE UNCHANGED g
    BY <1>4, <2>1, <1>e DEF RowSeen, EnsurePc
  <2>2. CASE ~UNCHANGED g
    BY <1>4, <2>2, <1>m DEF GateMove, EnsurePc
  <2> QED BY <2>1, <2>2
<1> QED BY <1>1, <1>2, <1>3, <1>4 DEF RowSeen

(* A run is completed over a completed row, and its row is not rebuilt after. *)
LEMMA BackedStep ==
  ASSUME Typed, GoneRuns, Quiet, [Next]_vars, NEW s \in Sessions,
         GateReads(s), Fresh(s), RowBacked(s), RowSeen(s), Backed(s)
  PROVE  Backed(s)'
<1>m. RunMove(s) /\ RowMove(s) /\ ReceiptMove(s) /\ GateMove(s) /\ WorkerMove(s)
  BY RunMoves, RowMoves, ReceiptMoves, GateMoves, WorkerMoves
<1>t. /\ async[s] \in AsyncState /\ receipt[s] \in {"none", "valid", "corrupt"}
      /\ task[s].status \in Q!Status /\ (proc = "down" => g.pc = "free")
      /\ (w.pc = "quarantine_run" => w.s \in Sessions)
  BY DEF Typed, RunOK, Rows, Q!Row, PurgeOK, WorkerOK, Busy
<1> USE DEF Works, Gates, Q!Is, Q!Present
<1> SUFFICES ASSUME async'[s] = "completed"
             PROVE  receipt'[s] # "none" /\ task'[s].status \in {"completed", "absent"}
  BY DEF Backed
<1>1. CASE async[s] = "completed"
  <2>1. receipt[s] # "none" /\ task[s].status \in {"completed", "absent"}
    BY <1>1 DEF Backed
  <2>2. ~Gates({"enqueue"}, s) /\ (Gates({"task"}, s) => Q!Present(s))
    BY <1>1 DEF Fresh, RowSeen
  <2>3. task'[s].status \in {"completed", "absent"}
    BY <2>1, <2>2, <1>m DEF RowMove, Q!Claimable
  <2> QED BY <2>1, <2>3, <1>1, <1>m DEF ReceiptMove
<1>2. CASE async[s] # "completed"
  <2>1. /\ ~Tombstoned(s) /\ async[s] = "enqueued" /\ UNCHANGED <<task, receipt>>
        /\ \/ Q!Is(s, "completed")
           \/ Gates({"close_run"}, s)
           \/ Gates({"decide"}, s) /\ g.status = "completed"
    BY <1>2, <1>m DEF RunMove
  <2>2. Q!Is(s, "completed")
    BY <2>1 DEF RowSeen
  <2> QED BY <2>1, <2>2 DEF RowBacked, Safe
<1> QED BY <1>1, <1>2

(* tasks.db is lost only while the app is closed, and start-up visits every run
   that waits before its worker starts. *)
LEMMA VisitedStep ==
  ASSUME Typed, GoneRuns, Quiet, [Next]_vars, NEW s \in Sessions,
         GateReads(s), RowSeen(s), Visited(s)
  PROVE  Visited(s)'
<1>m. RunMove(s) /\ RowMove(s) /\ ReceiptMove(s) /\ GateMove(s) /\ WorkerMove(s)
  BY RunMoves, RowMoves, ReceiptMoves, GateMoves, WorkerMoves
<1>l. GateLeaves(s) /\ StageMove(s)
  BY GateMoves, StageMoves
<1>c. faults \in Nat /\ faults' \in Nat /\ faults' >= faults
  BY CountersGrow
<1>o. Gone(s) => Gone(s)'
  BY GoneMoves
<1>t. /\ async[s] \in AsyncState /\ receipt[s] \in {"none", "valid", "corrupt"}
      /\ task[s].status \in Q!Status /\ (proc = "down" => g.pc = "free")
      /\ proc \in Stage
      /\ (w.pc = "quarantine_run" => w.s \in Sessions)
  BY DEF Typed, RunOK, Rows, Q!Row, PurgeOK, WorkerOK, Busy, LifeOK
<1> USE DEF Works, Gates, Q!Is, Q!Present
<1> DEFINE Early == proc \in {"down", "purges", "search"}
<1> DEFINE Due == proc = "tasks" /\ (s \in todo \/ Gates({"receipt", "task"}, s))
<1> SUFFICES ASSUME Missing(s)', faults' <= 1
             PROVE  faults' = 1 /\ (Early' \/ Due')
  BY <1>c DEF Visited
<1>1. async'[s] = "enqueued" /\ ~Q!Present(s)' /\ ~Tombstoned(s)' /\ receipt'[s] # "corrupt"
  BY DEF Missing
<1>2. ~Gone(s)
  BY <1>1, <1>o DEF Gone
<1>3. async[s] = "enqueued"
  <2>1. async[s] # "enqueued" => UNCHANGED task /\ Q!Present(s)
    BY <1>1, <1>m DEF RunMove, RowSeen
  <2> QED BY <2>1, <1>1
<1>4. receipt[s] # "corrupt"
  BY <1>1, <1>m DEF ReceiptMove
<1>5. CASE Q!Present(s)
  <2>1. proc = "down" /\ proc' = "down" /\ faults' = faults + 1
    BY <1>1, <1>2, <1>5, <1>m DEF RowMove
  <2> QED BY <2>1, <1>c
<1>6. CASE ~Q!Present(s)
  <2>1. Missing(s)
    BY <1>2, <1>3, <1>4, <1>6 DEF Missing, Gone
  <2>2. faults = 1 /\ faults' = 1 /\ (Early \/ Due)
    BY <2>1, <1>c DEF Visited
  <2>3. CASE Early
    BY <2>2, <2>3, <1>3, <1>l DEF StageMove
  <2>4. CASE proc = "tasks" /\ s \in todo
    BY <2>2, <2>4, <1>2, <1>3, <1>l DEF StageMove, InFlight, Gone
  <2>5. CASE proc = "tasks" /\ Gates({"receipt", "task"}, s)
    <3>1. proc' \in {"down", "tasks"}
      BY <2>5, <1>l DEF StageMove
    <3>2. CASE proc' = "down"
      BY <2>2, <3>2
    <3>3. CASE proc' = "tasks"
      <4>1. Gates(EnsurePc, s)'
        BY <2>2, <2>5, <3>3, <1>1, <1>4, <1>l DEF GateLeaves, EnsurePc
      <4>2. Gates({"receipt", "task"}, s)'
        BY <4>1, <2>5, <1>1, <1>m DEF GateMove, EnsurePc
      <4> QED BY <2>2, <3>3, <4>2
    <3> QED BY <3>1, <3>2, <3>3
  <2> QED BY <2>2, <2>3, <2>4, <2>5
<1> QED BY <1>5, <1>6

(* Only a local error corrupts a receipt. *)
LEMMA CleanStep ==
  ASSUME Typed, GoneRuns, Quiet, [Next]_vars, Clean
  PROVE  Clean'
<1>c. faults \in Nat /\ faults' \in Nat /\ faults' >= faults
  BY CountersGrow
<1>t. w' \in Worker /\ (w'.pc = "quarantine_run" => w'.s \in Sessions)
  BY TypedInductive DEF Typed, WorkerOK, Busy
<1> SUFFICES ASSUME faults' = 0
             PROVE  /\ w'.corrupt = {} /\ w'.pc # "quarantine_run"
                    /\ \A s \in Sessions : receipt'[s] # "corrupt"
  BY DEF Clean
<1>1. /\ faults = 0 /\ w.corrupt = {} /\ w.pc # "quarantine_run"
      /\ \A s \in Sessions : receipt[s] # "corrupt"
  BY <1>c DEF Clean
<1>2. ASSUME NEW s \in Sessions PROVE receipt'[s] # "corrupt"
  BY <1>1, ReceiptMoves DEF ReceiptMove
<1>3. ASSUME NEW s \in Sessions
      PROVE  s \notin w'.corrupt /\ ~Works({"quarantine_run"}, s)'
  <2>1. WorkerMove(s)
    BY WorkerMoves
  <2> QED BY <1>1, <2>1 DEF WorkerMove, Works
<1>4. w'.corrupt = {}
  BY <1>3, <1>t DEF Worker
<1> QED BY <1>2, <1>3, <1>4, <1>t DEF Works

(* Without local errors no path from a result ends in a failed run. *)
LEMMA ReportedStep ==
  ASSUME Typed, GoneRuns, Quiet, [Next]_vars, NEW s \in Sessions,
         GateReads(s), RowSeen(s), Clean, Delivered(s), Reported(s)
  PROVE  Reported(s)'
<1>m. RunMove(s) /\ RowMove(s) /\ ReceiptMove(s) /\ GateMove(s) /\ WorkerMove(s)
  BY RunMoves, RowMoves, ReceiptMoves, GateMoves, WorkerMoves
<1>l. GateLeaves(s) /\ StageMove(s)
  BY GateMoves, StageMoves
<1>c. faults \in Nat /\ faults' \in Nat /\ faults' >= faults
  BY CountersGrow
<1>o. Gone(s) => Gone(s)'
  BY GoneMoves
<1>t. /\ async[s] \in AsyncState /\ receipt[s] \in {"none", "valid", "corrupt"}
      /\ task[s].status \in Q!Status /\ (proc = "down" => g.pc = "free")
      /\ proc \in Stage
      /\ (w.pc = "quarantine_run" => w.s \in Sessions)
  BY DEF Typed, RunOK, Rows, Q!Row, PurgeOK, WorkerOK, Busy, LifeOK
<1> USE DEF Works, Gates, Q!Is, Q!Present
<1> SUFFICES ASSUME faults' = 0, receipt'[s] # "none"
             PROVE  async'[s] \in {"enqueued", "completed"}
  BY DEF Reported
<1>0. faults = 0
  BY <1>c
<1>1. CASE receipt[s] = "none"
  BY <1>0, <1>1, <1>m DEF ReceiptMove
<1>2. CASE receipt[s] # "none"
  <2>1. async[s] \in {"enqueued", "completed"}
    BY <1>0, <1>2 DEF Reported
  <2>2. ASSUME async'[s] = "failed" PROVE FALSE
    <3>1. InFlight(s) /\ ~Tombstoned(s)
      BY <2>1, <2>2, <1>m DEF RunMove
    <3>2. task[s].status \in {"pending", "running", "completed"}
      BY <3>1, <1>0, <1>2 DEF Delivered, Gone, InFlight
    <3>3. Gates({"decide"}, s) /\ g.status = "failed" => Q!Is(s, "failed")
      BY DEF RowSeen
    <3> QED BY <2>1, <2>2, <3>2, <3>3, <1>0, <1>m DEF RunMove, Clean
  <2> QED BY <2>1, <2>2, <1>m DEF RunMove
<1> QED BY <1>1, <1>2

(* Without local errors a session with a result is finished by the worker that
   got it or, after a crash, by start-up, and by nobody else. *)
LEMMA DeliveredStep ==
  ASSUME Typed, GoneRuns, Quiet, [Next]_vars, NEW s \in Sessions,
         GateReads(s), RowHeld(s), Fresh(s), RowBacked(s), RowSeen(s), Backed(s), Clean,
         Reported(s), Delivered(s)
  PROVE  Delivered(s)'
<1>m. RunMove(s) /\ RowMove(s) /\ ReceiptMove(s) /\ GateMove(s) /\ WorkerMove(s)
  BY RunMoves, RowMoves, ReceiptMoves, GateMoves, WorkerMoves
<1>l. GateLeaves(s) /\ StageMove(s)
  BY GateMoves, StageMoves
<1>c. faults \in Nat /\ faults' \in Nat /\ faults' >= faults
  BY CountersGrow
<1>o. Gone(s) => Gone(s)'
  BY GoneMoves
<1>t. /\ async[s] \in AsyncState /\ receipt[s] \in {"none", "valid", "corrupt"}
      /\ task[s].status \in Q!Status /\ (proc = "down" => g.pc = "free")
      /\ proc \in Stage
      /\ (w.pc = "quarantine_run" => w.s \in Sessions)
  BY DEF Typed, RunOK, Rows, Q!Row, PurgeOK, WorkerOK, Busy, LifeOK
<1> USE DEF Works, Gates, Q!Is, Q!Present
<1> SUFFICES ASSUME faults' = 0, ~Gone(s)', receipt'[s] # "none"
             PROVE  /\ task'[s].status \in {"pending", "running", "completed"}
                    /\ Q!Is(s, "running")' => Finishing(s)' \/ proc' = "down"
                    /\ Q!Is(s, "pending")' => Recovering(s)'
                    /\ ~Works(HolderPc \ OkPc, s)'
                    /\ Works(OkPc, s)' => w'.res = "ok"
  BY DEF Delivered
<1>0. faults = 0 /\ ~Gone(s) /\ faults' # faults + 1
  BY <1>c, <1>o
<1>1. CASE receipt[s] = "none"
  <2>1. /\ Works({"provider"}, s) /\ UNCHANGED task
        /\ w'.pc = "index" /\ w'.s = s /\ w'.res = "ok"
    BY <1>0, <1>1, <1>m DEF ReceiptMove
  <2>2. Q!Is(s, "running")
    <3>1. HasNoResult(s)
      BY <1>0, <1>1 DEF HasNoResult, Safe, Gone
    <3>2. Works(HolderPc, s)
      BY <2>1 DEF HolderPc
    <3> QED BY <3>1, <3>2 DEF RowHeld
  <2>3. task'[s].status = "running"
    BY <2>1, <2>2
  <2>4. Finishing(s)'
    BY <2>1 DEF Finishing
  <2>5. ~Works(HolderPc \ OkPc, s)'
    BY <2>1 DEF OkPc
  <2> QED BY <2>1, <2>3, <2>4, <2>5
<1>2. CASE receipt[s] # "none"
  <2>1. /\ task[s].status \in {"pending", "running", "completed"}
        /\ Q!Is(s, "running") => Finishing(s) \/ proc = "down"
        /\ Q!Is(s, "pending") => Recovering(s)
        /\ ~Works(HolderPc \ OkPc, s)
        /\ Works(OkPc, s) => w.res = "ok"
    BY <1>0, <1>2 DEF Delivered
  <2>2. /\ receipt[s] = "valid" /\ s \notin w.corrupt
        /\ async[s] \in {"enqueued", "completed"}
    BY <1>0, <1>2, <1>t DEF Clean, Reported
  <2>3. ~(proc = "running" /\ w.pc \in {"receipts", "claim"} /\ Q!Claimable(s))
    BY <2>1 DEF Q!Claimable, Finishing, Recovering
  <2>4. ~Works({"credential", "reject", "failure"}, s)
    BY <2>1 DEF HolderPc, OkPc
  <2>5. task'[s].status \in {"pending", "running", "completed"}
    BY <2>1, <2>2, <2>3, <2>4, <1>0, <1>m DEF RowMove
  <2>6. ASSUME Q!Is(s, "running")' PROVE Finishing(s)' \/ proc' = "down"
    <3>1. Q!Is(s, "running")
      BY <2>1, <2>3, <2>6, <1>m DEF RowMove
    <3>2. CASE Finishing(s)
      BY <2>1, <2>6, <3>1, <3>2, <1>0, <1>m DEF WorkerMove, OkPc
    <3>3. CASE proc = "down"
      BY <2>6, <3>3, <1>l DEF StageMove
    <3> QED BY <2>1, <3>1, <3>2, <3>3
  <2>7. ASSUME Q!Is(s, "pending")' PROVE Recovering(s)'
    <3>1. CASE Q!Is(s, "running")
      BY <2>2, <2>4, <2>7, <3>1, <1>m DEF RowMove, Recovering
    <3>2. CASE Q!Is(s, "pending")
      <4>1. InFlight(s) /\ ~Tombstoned(s)
        BY <2>2, <3>2, <1>0 DEF Backed, InFlight, Gone
      <4>2. CASE proc \in {"down", "purges", "search"}
        BY <4>1, <4>2, <1>l DEF StageMove, Recovering, InFlight
      <4>3. CASE proc = "tasks" /\ s \in todo
        BY <4>1, <4>3, <1>l DEF StageMove, Recovering
      <4>4. CASE proc = "tasks" /\ g.pc # "free" /\ s \notin todo
        <5>1. proc' \in {"down", "tasks"}
          BY <4>4, <1>l DEF StageMove
        <5>2. CASE proc' = "down"
          BY <5>2 DEF Recovering
        <5>3. CASE proc' = "tasks"
          <6>1. \/ Gates({"receipt", "index", "privacy", "close_task"}, s)
                \/ Gates({"task", "promote", "decide"}, s) /\ g.rcpt
            BY <2>1, <3>2, <4>4 DEF Recovering
          <6>2. Gates({"decide"}, s) => ~DecideCloses
            BY <3>2, <6>1 DEF RowSeen, DecideCloses
          <6>3. Gates(EnsurePc, s)'
            BY <2>2, <3>2, <4>4, <5>3, <6>1, <6>2, <1>0, <1>l DEF GateLeaves, EnsurePc
          <6>4. \/ Gates({"receipt", "index", "privacy", "close_task"}, s)'
                \/ Gates({"task", "promote", "decide"}, s)' /\ g'.rcpt
            BY <2>2, <2>7, <6>1, <6>3, <1>m DEF GateMove, EnsurePc
          <6> QED BY <5>3, <6>4 DEF Recovering
        <5> QED BY <5>1, <5>2, <5>3
      <4> QED BY <2>1, <3>2, <4>2, <4>3, <4>4 DEF Recovering
    <3> QED BY <2>1, <2>7, <3>1, <3>2, <1>m DEF RowMove
  <2>8. ~Works(HolderPc \ OkPc, s)'
    BY <2>1, <2>3, <1>m DEF WorkerMove, OkPc
  <2>9. Works(OkPc, s)' => w'.res = "ok"
    BY <2>1, <1>m DEF WorkerMove
  <2> QED BY <2>5, <2>6, <2>7, <2>8, <2>9
<1> QED BY <1>1, <1>2

(* Together with WInv, an inductive invariant. *)
LEMMA RunInductive ==
  /\ Init => RInv
  /\ RInv /\ [Next]_vars => RInv'
<1>1. ASSUME Init PROVE RInv
  <2>1. WInv
    BY <1>1, WorkInductive
  <2>2. WorkerBacked /\ Clean
    BY <1>1 DEF Init, IdleWorker, FreePc, WorkerBacked, Clean
  <2>3. ASSUME NEW s \in Sessions
        PROVE  /\ Fresh(s) /\ RowBacked(s) /\ RowSeen(s) /\ Backed(s)
               /\ Visited(s) /\ Reported(s) /\ Delivered(s)
    <3>1. /\ async[s] = "none" /\ receipt[s] = "none" /\ task[s].status = "absent"
          /\ w.pc = "unswept" /\ w.corrupt = {} /\ g.pc = "free"
      BY <1>1 DEF Init, Q!NoRow, IdleWorker, FreeGate
    <3> QED BY <3>1 DEF Fresh, RowBacked, RowSeen, Backed, Visited, Missing, Reported, Delivered,
       Works, Gates, Q!Is, Q!Present
  <2> QED BY <2>1, <2>2, <2>3 DEF RInv
<1>2. ASSUME RInv, [Next]_vars PROVE RInv'
  <2>1. WInv /\ WInv' /\ WorkerBacked /\ Clean
    BY <1>2, WorkInductive DEF RInv
  <2>2. Typed /\ GoneRuns /\ Quiet
    BY <2>1 DEF WInv
  <2>3. WorkerBacked' /\ Clean'
    BY <1>2, <2>1, <2>2, WorkerBackedStep, CleanStep
  <2>4. ASSUME NEW s \in Sessions
        PROVE  /\ Fresh(s)' /\ RowBacked(s)' /\ RowSeen(s)' /\ Backed(s)'
               /\ Visited(s)' /\ Reported(s)' /\ Delivered(s)'
    <3>1. /\ GateReads(s) /\ RowHeld(s)
          /\ Fresh(s) /\ RowBacked(s) /\ RowSeen(s) /\ Backed(s)
          /\ Visited(s) /\ Reported(s) /\ Delivered(s)
      BY <1>2, <2>1 DEF RInv, WInv
    <3>2. Fresh(s)' /\ RowBacked(s)' /\ RowSeen(s)'
      BY <1>2, <2>1, <2>2, <3>1, FreshStep, RowBackedStep, RowSeenStep
    <3>3. Backed(s)' /\ Visited(s)'
      BY <1>2, <2>1, <2>2, <3>1, BackedStep, VisitedStep
    <3>4. Reported(s)' /\ Delivered(s)'
      BY <1>2, <2>1, <2>2, <3>1, ReportedStep, DeliveredStep
    <3> QED BY <3>2, <3>3, <3>4
  <2> QED BY <2>1, <2>3, <2>4 DEF RInv
<1> QED BY <1>1, <1>2

(* A run reported completed has its receipt and no row left to run, a run marked
   Enqueued has its row once start-up has reconciled the databases, and without
   a local error no run with a result is reported failed (reserve, insert, mark;
   finalize_successful_task; reconcile_capture_async_task_receipt_on_startup). *)
THEOREM RunsAgree == Spec => []RunAgrees
<1>1. RInv => RunAgrees
  <2> SUFFICES ASSUME RInv PROVE RunAgrees
    OBVIOUS
  <2>1. CompletedIsBacked
    BY DEF RInv, Backed, CompletedIsBacked
  <2>2. EnqueuedHasRow
    <3> SUFFICES ASSUME NEW s \in Sessions, proc = "running", Missing(s)
                 PROVE  faults > 1
      BY DEF EnqueuedHasRow, Missing
    <3> QED BY DEF RInv, Visited
  <2>3. ResultNotFailedUnlessFault
    BY DEF RInv, Reported, ResultNotFailedUnlessFault, ResultNotFailed
  <2> QED BY <2>1, <2>2, <2>3 DEF RunAgrees
<1> QED BY <1>1, RunInductive, PTL DEF Spec

-----------------------------------------------------------------------------
(* The refinement of the promise.  What one step does to a session, in the    *)
(* promise's terms: nothing...                                                *)
Same(s) ==
    /\ Told[async'[s]] = Told[async[s]]
    /\ receipt'[s] # "none" <=> receipt[s] # "none"
    /\ audio'[s] = audio[s]
    /\ purge'[s] # "none" <=> Tombstoned(s)

(* ... or one of the things it may do. *)
ToldOnly(s) ==
    /\ receipt'[s] # "none" <=> receipt[s] # "none"
    /\ audio'[s] = audio[s]
    /\ purge'[s] # "none" <=> Tombstoned(s)

Promised(s) ==
    \/ /\ async[s] = "none" /\ async'[s] = "pending" /\ ToldOnly(s)
       /\ audio[s] /\ ~Tombstoned(s)
    \/ /\ async[s] = "enqueued" /\ receipt[s] = "none" /\ ~Tombstoned(s)
       /\ UNCHANGED <<async, audio, purge>> /\ receipt'[s] # "none"
    \/ /\ async[s] = "enqueued" /\ async'[s] = "completed" /\ ToldOnly(s)
       /\ receipt[s] # "none" /\ ~Tombstoned(s)
    \/ InFlight(s) /\ async'[s] = "failed" /\ ~Tombstoned(s) /\ ToldOnly(s)
    \/ /\ receipt[s] # "none" \/ Tombstoned(s)
       /\ ~audio'[s] /\ UNCHANGED <<async, receipt, purge>>
    \/ purge'[s] # "none" /\ UNCHANGED <<async, receipt, audio>>
    \/ /\ Tombstoned(s) /\ purge'[s] # "none" /\ ~audio[s] /\ ~audio'[s]
       /\ async'[s] = "erased" /\ receipt'[s] = "none"
    \/ /\ Tombstoned(s) /\ purge'[s] = "none" /\ async[s] = "erased"
       /\ UNCHANGED <<async, receipt, audio>>

(* The promise's variables are functions on the sessions: a step that does one
   of these to one session and nothing to the others is a step of the promise. *)
LEMMA PromiseMoves ==
  ASSUME Typed, Typed', NEW x \in Sessions,
         \A s \in Sessions : s # x => Same(s), Same(x) \/ Promised(x)
  PROVE  Promise!Next \/ UNCHANGED Promise!promiseVars
<1>t. /\ async \in [Sessions -> AsyncState] /\ async' \in [Sessions -> AsyncState]
      /\ audio \in [Sessions -> BOOLEAN] /\ audio' \in [Sessions -> BOOLEAN]
  BY DEF Typed, RunOK, FileOK
<1> DEFINE outcome == [s \in Sessions |-> Told[async[s]]]
           result == [s \in Sessions |-> receipt[s] # "none"]
           deleting == [s \in Sessions |-> Tombstoned(s)]
<1>o. ASSUME NEW v, Told[async'[x]] = v PROVE outcome' = [outcome EXCEPT ![x] = v]
  BY <1>o DEF Same
<1>r. ASSUME NEW v \in BOOLEAN, receipt'[x] # "none" <=> v PROVE result' = [result EXCEPT ![x] = v]
  BY <1>r DEF Same
<1>d. ASSUME NEW v \in BOOLEAN, purge'[x] # "none" <=> v PROVE deleting' = [deleting EXCEPT ![x] = v]
  BY <1>d DEF Same, Tombstoned
<1>a. ASSUME NEW v \in BOOLEAN, audio'[x] = v PROVE audio' = [audio EXCEPT ![x] = v]
  <2>1. \A s \in Sessions : s # x => audio'[s] = audio[s]
    BY DEF Same
  <2>2. \A s \in Sessions : audio'[s] = [audio EXCEPT ![x] = v][s]
    BY <1>a, <1>t, <2>1
  <2>3. [audio EXCEPT ![x] = v] \in [Sessions -> BOOLEAN]
    BY <1>t
  <2> HIDE <1>a
  <2> QED BY <1>t, <2>2, <2>3
<1>1. Told[async'[x]] = Told[async[x]] => UNCHANGED outcome
  BY DEF Same
<1>2. (receipt'[x] # "none" <=> receipt[x] # "none") => UNCHANGED result
  BY DEF Same
<1>3. (purge'[x] # "none" <=> Tombstoned(x)) => UNCHANGED deleting
  BY DEF Same, Tombstoned
<1>4. audio'[x] = audio[x] => UNCHANGED audio
  <2> SUFFICES ASSUME audio'[x] = audio[x] PROVE audio' = audio
    OBVIOUS
  <2>1. \A s \in Sessions : audio'[s] = audio[s]
    BY DEF Same
  <2> QED BY <1>t, <2>1
<1>v. /\ outcome[x] = Told[async[x]] /\ (result[x] <=> receipt[x] # "none")
      /\ (deleting[x] <=> Tombstoned(x))
  OBVIOUS
<1>w. /\ \A s \in Sessions : async[s] \in AsyncState /\ async'[s] \in AsyncState
      /\ Told["none"] = "idle" /\ Told["pending"] = "wanted" /\ Told["reserved"] = "wanted"
      /\ Told["enqueued"] = "wanted" /\ Told["completed"] = "done"
      /\ Told["failed"] = "failed" /\ Told["erased"] = "gone"
  BY <1>t DEF Told
<1>5. CASE Same(x)
  BY <1>5, <1>1, <1>2, <1>3, <1>4 DEF Same, Promise!promiseVars
<1>6. ASSUME async[x] = "none", async'[x] = "pending", ToldOnly(x), audio[x], ~Tombstoned(x)
      PROVE  Promise!Ask(x)
  <2>1. outcome' = [outcome EXCEPT ![x] = "wanted"]
    BY <1>6, <1>o, <1>w
  <2>2. UNCHANGED <<result, audio, deleting>>
    BY <1>6, <1>2, <1>3, <1>4 DEF ToldOnly
  <2> QED BY <1>6, <2>1, <2>2, <1>v, <1>w DEF Promise!Ask
<1>7. ASSUME async[x] = "enqueued", receipt[x] = "none", ~Tombstoned(x),
             UNCHANGED <<async, audio, purge>>, receipt'[x] # "none"
      PROVE  Promise!Obtain(x)
  <2>1. result' = [result EXCEPT ![x] = TRUE]
    BY <1>7, <1>r
  <2>2. UNCHANGED <<outcome, audio, deleting>>
    BY <1>7, <1>1, <1>3 DEF Tombstoned
  <2> QED BY <1>7, <2>1, <2>2, <1>v, <1>w DEF Promise!Obtain
<1>8. ASSUME async[x] = "enqueued", async'[x] = "completed", ToldOnly(x),
             receipt[x] # "none", ~Tombstoned(x)
      PROVE  Promise!Succeed(x)
  <2>1. outcome' = [outcome EXCEPT ![x] = "done"]
    BY <1>8, <1>o, <1>w
  <2>2. UNCHANGED <<result, audio, deleting>>
    BY <1>8, <1>2, <1>3, <1>4 DEF ToldOnly
  <2> QED BY <1>8, <2>1, <2>2, <1>v, <1>w DEF Promise!Succeed
<1>9. ASSUME InFlight(x), async'[x] = "failed", ~Tombstoned(x), ToldOnly(x)
      PROVE  Promise!Fail(x)
  <2>1. outcome' = [outcome EXCEPT ![x] = "failed"]
    BY <1>9, <1>o, <1>w
  <2>2. UNCHANGED <<result, audio, deleting>>
    BY <1>9, <1>2, <1>3, <1>4 DEF ToldOnly
  <2> QED BY <1>9, <2>1, <2>2, <1>v, <1>w DEF Promise!Fail, InFlight
<1>10. ASSUME receipt[x] # "none" \/ Tombstoned(x), ~audio'[x],
              UNCHANGED <<async, receipt, purge>>
       PROVE  Promise!LetGo(x)
  <2>0. audio'[x] = FALSE
    BY <1>10, <1>t
  <2>1. audio' = [audio EXCEPT ![x] = FALSE]
    BY <2>0, <1>a
  <2>2. UNCHANGED <<outcome, result, deleting>>
    BY <1>10, <1>1, <1>2, <1>3 DEF Tombstoned
  <2> QED BY <1>10, <2>1, <2>2, <1>v DEF Promise!LetGo
<1>11. ASSUME purge'[x] # "none", UNCHANGED <<async, receipt, audio>>
       PROVE  Promise!Delete(x)
  <2>1. deleting' = [deleting EXCEPT ![x] = TRUE]
    BY <1>11, <1>d
  <2>2. UNCHANGED <<outcome, result, audio>>
    BY <1>11, <1>1, <1>2
  <2> QED BY <2>1, <2>2 DEF Promise!Delete
<1>12. ASSUME Tombstoned(x), purge'[x] # "none", ~audio[x], ~audio'[x],
              async'[x] = "erased", receipt'[x] = "none"
       PROVE  Promise!Erase(x)
  <2>0. audio'[x] = audio[x]
    BY <1>12, <1>t
  <2>1. outcome' = [outcome EXCEPT ![x] = "gone"] /\ result' = [result EXCEPT ![x] = FALSE]
    <3>1. Told[async'[x]] = "gone"
      BY <1>12, <1>w
    <3>2. outcome' = [outcome EXCEPT ![x] = "gone"]
      BY <3>1, <1>o
    <3>3. result' = [result EXCEPT ![x] = FALSE]
      BY <1>12, <1>r
    <3> QED BY <3>2, <3>3
  <2>2. UNCHANGED <<audio, deleting>>
    BY <2>0, <1>12, <1>3, <1>4
  <2> QED BY <1>12, <2>1, <2>2, <1>v DEF Promise!Erase
<1>13. ASSUME Tombstoned(x), purge'[x] = "none", async[x] = "erased",
              UNCHANGED <<async, receipt, audio>>
       PROVE  Promise!Forget(x)
  <2>1. deleting' = [deleting EXCEPT ![x] = FALSE]
    BY <1>13, <1>d
  <2>2. UNCHANGED <<outcome, result, audio>>
    BY <1>13, <1>1, <1>2
  <2> QED BY <1>13, <2>1, <2>2, <1>v, <1>w DEF Promise!Forget
<1> QED
  BY <1>5, <1>6, <1>7, <1>8, <1>9, <1>10, <1>11, <1>12, <1>13 DEF Promised, Promise!Next

(* Every step of the system is a step of the promise or changes nothing it shows. *)
LEMMA PromiseStep ==
  ASSUME RInv, [Next]_vars
  PROVE  Promise!Next \/ UNCHANGED Promise!promiseVars
<1> DEFINE Goal == Promise!Next \/ UNCHANGED Promise!promiseVars
<1> SUFFICES Goal
  OBVIOUS
<1>i. Typed /\ Typed' /\ GoneRuns /\ WorkerBacked
  BY TypedInductive DEF RInv, WInv
<1>t. /\ async \in [Sessions -> AsyncState] /\ audio \in [Sessions -> BOOLEAN]
      /\ receipt \in [Sessions -> {"none", "valid", "corrupt"}]
      /\ purge \in [Sessions -> Phase]
      /\ (w.pc \in Busy => w.s \in Sessions) /\ (g.pc # "free" => g.s \in Sessions)
      /\ (g.pc \in Purging => Tombstoned(g.s))
      /\ (g.pc = "record" => purge[g.s] # "purge_receipts_removed")
  BY <1>i DEF Typed, RunOK, FileOK, PurgeOK, WorkerOK, GateOK
<1>0. UNCHANGED <<async, receipt, audio, purge>> => Goal
  BY DEF Promise!promiseVars, Tombstoned
<1>p. ASSUME NEW x \in Sessions, \A s \in Sessions : s # x => Same(s), Same(x) \/ Promised(x)
      PROVE  Goal
  BY <1>p, <1>i, PromiseMoves
<1>o. ASSUME NEW x \in Sessions, NEW s \in Sessions, s # x,
             async'[s] = async[s], receipt'[s] = receipt[s], audio'[s] = audio[s], purge'[s] = purge[s]
      PROVE  Same(s)
  BY <1>o DEF Same, Tombstoned
<1>m. ASSUME NEW x \in Sessions, mark_async_task_enqueued(x), UNCHANGED <<receipt, audio, purge>>
      PROVE  Goal
  <2>1. Same(x)
    BY <1>m, <1>t DEF mark_async_task_enqueued, MayMarkEnqueued, InFlight, Same, Told, Tombstoned
  <2>2. ASSUME NEW s \in Sessions, s # x PROVE Same(s)
    BY <1>m, <1>t, <1>o, <2>2 DEF mark_async_task_enqueued
  <2> QED BY <2>1, <2>2, <1>p
<1>c. ASSUME NEW x \in Sessions, NEW ok \in BOOLEAN, mark_async_task_terminal(x, ok),
             ok => Safe(x), UNCHANGED <<audio, purge>>
      PROVE  Goal
  <2>1. ASSUME NEW s \in Sessions, s # x PROVE Same(s)
    BY <1>c, <1>t, <1>o, <2>1 DEF mark_async_task_terminal
  <2>2. CASE ~MayMarkTerminal(x, ok)
    <3>1. UNCHANGED async /\ UNCHANGED receipt
      BY <1>c, <1>t, <2>2 DEF mark_async_task_terminal
    <3> QED BY <1>c, <3>1, <1>0
  <2>3. CASE MayMarkTerminal(x, ok)
    <3>1. /\ UNCHANGED receipt /\ ~Tombstoned(x)
          /\ async'[x] = IF ok THEN "completed" ELSE "failed"
          /\ IF ok THEN async[x] = "enqueued" /\ receipt[x] # "none" ELSE InFlight(x)
      BY <1>c, <1>t, <2>3 DEF mark_async_task_terminal, MayMarkTerminal, InFlight, Safe
    <3>2. ToldOnly(x)
      BY <1>c, <3>1 DEF ToldOnly, Tombstoned
    <3>3. Promised(x)
      BY <3>1, <3>2 DEF Promised
    <3> QED BY <2>1, <3>3, <1>p
  <2> QED BY <2>2, <2>3
<1>l. ASSUME NEW x \in Sessions, destroyed(x), Safe(x), UNCHANGED <<async, receipt, purge>>
      PROVE  Goal
  <2>1. ASSUME NEW s \in Sessions, s # x PROVE Same(s)
    BY <1>l, <1>t, <1>o, <2>1 DEF destroyed
  <2>2. CASE audio'[x] = audio[x]
    BY <1>l, <2>1, <2>2, <1>p DEF Same, Tombstoned
  <2>3. CASE audio'[x] # audio[x]
    <3>1. audio[x] /\ ~audio'[x]
      BY <1>l, <1>t, <2>3 DEF destroyed
    <3>2. Removed(x)
      BY DEF RInv, WInv
    <3>3. receipt[x] # "none" \/ Tombstoned(x)
      BY <1>l, <3>1, <3>2 DEF Safe, Removed, Past, Erased
    <3> QED BY <1>l, <2>1, <3>1, <3>3, <1>p DEF Promised
  <2> QED BY <2>2, <2>3
<1>s. \A s \in Sessions : GateReads(s) /\ Removed(s) /\ RowBacked(s) /\ RowSeen(s)
  BY DEF RInv, WInv
<1> USE DEF Gates, Works
<1>1. CASE WQuarantineRun
  BY <1>1, <1>t, <1>c DEF WQuarantineRun, At, Busy, fileVars
<1>2. CASE WVerify
  BY <1>2, <1>t, <1>m, <1>0 DEF WVerify, At, Busy, OwnedPc, fileVars
<1>3. CASE WCloseFailed
  <2>1. w.s \in Sessions /\ UNCHANGED <<audio, purge>>
    BY <1>3, <1>t DEF WCloseFailed, At, Busy, OwnedPc, fileVars
  <2>2. CASE UNCHANGED runVars
    BY <2>1, <2>2, <1>0 DEF runVars
  <2>3. CASE mark_async_task_terminal(w.s, Q!Is(w.s, "completed"))
    <3>1. Q!Is(w.s, "completed") \in BOOLEAN /\ (Q!Is(w.s, "completed") => Safe(w.s))
      BY <2>1, <1>s DEF RowBacked, Q!Is
    <3> QED BY <2>1, <2>3, <3>1, <1>c
  <2> QED BY <1>3, <2>2, <2>3, Zenon DEF WCloseFailed
<1>4. CASE \/ WClose \/ WCloseReceipt
  <2>1. w.s \in Sessions /\ UNCHANGED <<audio, purge>>
    BY <1>4, <1>t DEF WClose, WCloseReceipt, At, Busy, OwnedPc, fileVars
  <2>2. CASE UNCHANGED runVars
    BY <2>1, <2>2, <1>0 DEF runVars
  <2>3. CASE Q!Is(w.s, "completed") /\ mark_async_task_terminal(w.s, TRUE)
    <3>1. Safe(w.s)
      BY <2>1, <2>3, <1>s DEF RowBacked
    <3> QED BY <2>1, <2>3, <3>1, <1>c
  <2> QED BY <1>4, <2>2, <2>3, Zenon DEF WClose, WCloseReceipt
<1>5. CASE WProviderOk
  <2>1. w.s \in Sessions /\ UNCHANGED <<audio, purge>>
    BY <1>5, <1>t DEF WProviderOk, At, Busy, OwnedPc, fileVars
  <2>2. CASE UNCHANGED runVars
    BY <2>1, <2>2, <1>0 DEF runVars
  <2>3. CASE MayCommitReceipt(w.s) /\ commit_async_provider_success(w.s)
    <3>1. /\ async[w.s] = "enqueued" /\ receipt[w.s] = "none" /\ ~Tombstoned(w.s)
          /\ UNCHANGED async /\ receipt' = [receipt EXCEPT ![w.s] = "valid"]
      BY <2>3 DEF MayCommitReceipt, commit_async_provider_success
    <3>2. Promised(w.s)
      BY <2>1, <3>1, <1>t DEF Promised
    <3>3. ASSUME NEW s \in Sessions, s # w.s PROVE Same(s)
      BY <2>1, <3>1, <3>3, <1>t, <1>o
    <3> QED BY <2>1, <3>2, <3>3, <1>p
  <2> QED BY <1>5, <2>2, <2>3, Zenon DEF WProviderOk
<1>6. CASE WFinalize
  <2>1. w.s \in Sessions /\ w.pc = "finalize" /\ UNCHANGED <<async, receipt, purge>>
    BY <1>6, <1>t DEF WFinalize, At, Busy, OwnedPc, runVars
  <2>2. Safe(w.s)
    BY <2>1, <1>i DEF WorkerBacked
  <2>3. destroyed(w.s) \/ UNCHANGED audio
    BY <1>6, Zenon DEF WFinalize
  <2> QED BY <2>1, <2>2, <2>3, <1>l, <1>0
<1>7. CASE GPrivacy
  <2>1. g.s \in Sessions /\ g.pc = "privacy" /\ UNCHANGED <<async, receipt, purge>>
    BY <1>7, <1>t DEF GPrivacy, Holding, runVars
  <2>2. Safe(g.s)
    BY <2>1, <1>s DEF GateReads, Safe
  <2>3. destroyed(g.s) \/ UNCHANGED audio
    BY <1>7, Zenon DEF GPrivacy
  <2> QED BY <2>1, <2>2, <2>3, <1>l, <1>0
<1>8. ASSUME NEW x \in Sessions, CorruptReceipt(x) PROVE Goal
  <2>1. /\ receipt[x] = "valid" /\ receipt' = [receipt EXCEPT ![x] = "corrupt"]
        /\ UNCHANGED <<async, audio, purge>>
    BY <1>8 DEF CorruptReceipt, fileVars
  <2>2. \A s \in Sessions : Same(s)
    BY <2>1, <1>t DEF Same, Tombstoned
  <2> QED BY <2>2, <1>p
<1>9. ASSUME NEW x \in Sessions, GRequest(x) PROVE Goal
  <2>1. /\ ~Tombstoned(x) /\ (async[x] = "none" => audio[x])
        /\ async' = [async EXCEPT ![x] = IF async[x] = "none" THEN "pending" ELSE async[x]]
        /\ UNCHANGED <<receipt, audio, purge>>
    BY <1>9 DEF GRequest, fileVars
  <2>2. CASE async[x] # "none"
    BY <2>1, <2>2, <1>t, <1>0
  <2>3. CASE async[x] = "none"
    <3>1. Promised(x)
      BY <2>1, <2>3, <1>t DEF Promised, ToldOnly, Tombstoned
    <3>2. ASSUME NEW s \in Sessions, s # x PROVE Same(s)
      BY <2>1, <3>2, <1>t, <1>o
    <3> QED BY <3>1, <3>2, <1>p
  <2> QED BY <2>2, <2>3
<1>10. CASE GReserve
  <2>1. /\ g.s \in Sessions /\ async[g.s] = "pending" /\ async' = [async EXCEPT ![g.s] = "reserved"]
        /\ UNCHANGED <<receipt, audio, purge>>
    BY <1>10, <1>t, <1>i DEF GReserve, Holding, fileVars, GoneRuns
  <2>2. \A s \in Sessions : Same(s)
    BY <2>1, <1>t DEF Same, Tombstoned, Told
  <2> QED BY <2>1, <2>2, <1>p
<1>11. CASE \/ GMark \/ GPromote
  BY <1>11, <1>t, <1>0, <1>m DEF GMark, GPromote, Holding, fileVars
<1>12. CASE GTaskLost
  BY <1>12, <1>t, <1>0, <1>c DEF GTaskLost, Holding, fileVars, runVars
<1>13. CASE GDecide
  <2>1. g.s \in Sessions /\ g.pc = "decide" /\ UNCHANGED <<audio, purge>>
    BY <1>13, <1>t DEF GDecide, Holding, fileVars
  <2>2. CASE UNCHANGED runVars
    BY <2>1, <2>2, <1>0 DEF runVars
  <2>3. CASE mark_async_task_terminal(g.s, g.status = "completed")
    <3>1. g.status = "completed" => Safe(g.s)
      BY <2>1, <1>s DEF RowSeen, RowBacked
    <3> QED BY <2>1, <2>3, <3>1, <1>c
  <2> QED BY <1>13, <2>2, <2>3, Zenon DEF GDecide
<1>14. CASE GCloseRun
  <2>1. g.s \in Sessions /\ UNCHANGED <<audio, purge>> /\ mark_async_task_terminal(g.s, TRUE)
        /\ g.pc = "close_run"
    BY <1>14, <1>t DEF GCloseRun, Holding, fileVars
  <2>2. Safe(g.s)
    BY <2>1, <1>s DEF GateReads, Safe
  <2> QED BY <2>1, <2>2, <1>c
<1>15. ASSUME NEW x \in Sessions, GPurge(x) PROVE Goal
  <2>1. /\ purge' = [purge EXCEPT ![x] = IF purge[x] = "none" THEN "prepared" ELSE purge[x]]
        /\ UNCHANGED <<async, receipt, audio>>
    BY <1>15 DEF GPurge, fileVars, runVars
  <2>2. Promised(x)
    BY <2>1, <1>t DEF Promised, Tombstoned
  <2>3. ASSUME NEW s \in Sessions, s # x PROVE Same(s)
    BY <2>1, <2>3, <1>t, <1>o
  <2> QED BY <2>2, <2>3, <1>p
<1>16. CASE GWait
  <2>1. /\ g.s \in Sessions /\ Tombstoned(g.s)
        /\ purge' = [purge EXCEPT ![g.s] = IF purge[g.s] = "prepared" THEN "task_handlers_stopped"
                                           ELSE purge[g.s]]
        /\ UNCHANGED <<async, receipt, audio>>
    BY <1>16, <1>t DEF GWait, Holding, Purging, fileVars, runVars
  <2>2. \A s \in Sessions : Same(s)
    BY <2>1, <1>t DEF Same, Tombstoned
  <2> QED BY <2>1, <2>2, <1>p
<1>17. CASE GRecord
  <2>1. /\ g.s \in Sessions /\ Tombstoned(g.s) /\ purge[g.s] # "purge_receipts_removed"
        /\ purge' = [purge EXCEPT ![g.s] = PhaseAfter[purge[g.s]]]
        /\ UNCHANGED <<async, receipt, audio>>
    BY <1>17, <1>t DEF GRecord, Holding, Purging, fileVars, runVars
  <2>2. PhaseAfter[purge[g.s]] # "none"
    BY <2>1, <1>t DEF PhaseAfter, Phase, Tombstoned
  <2>3. \A s \in Sessions : Same(s)
    BY <2>1, <2>2, <1>t DEF Same, Tombstoned
  <2> QED BY <2>1, <2>3, <1>p
<1>18. CASE GFinish
  <2>1. /\ g.s \in Sessions /\ purge[g.s] = "purge_receipts_removed"
        /\ purge' = [purge EXCEPT ![g.s] = "none"]
        /\ UNCHANGED <<async, receipt, audio>>
    BY <1>18, <1>t DEF GFinish, Holding, fileVars, runVars
  <2>2. async[g.s] = "erased"
    BY <2>1, <1>i DEF GoneRuns
  <2>3. Promised(g.s)
    BY <2>1, <2>2, <1>t DEF Promised, Tombstoned
  <2>4. ASSUME NEW s \in Sessions, s # g.s PROVE Same(s)
    BY <2>1, <2>4, <1>t, <1>o
  <2> QED BY <2>1, <2>3, <2>4, <1>p
<1>19. CASE GPhase
  <2>0. PICK x \in Sessions : x = g.s
    BY <1>19, <1>t DEF GPhase, Holding
  <2>1. /\ x \in Sessions /\ Tombstoned(x) /\ UNCHANGED purge
        /\ audio' = [audio EXCEPT ![x] = audio[x] /\ purge[x] # "tasks_removed"]
        /\ IF purge[x] = "external_artifacts_removed"
           THEN purge_session_artifacts(x) ELSE UNCHANGED runVars
    BY <1>19, <2>0, <1>t DEF GPhase, Holding, Purging
  <2>2. ASSUME NEW s \in Sessions, s # x PROVE Same(s)
    BY <2>1, <2>2, <1>t, <1>o DEF purge_session_artifacts, runVars
  <2>3. CASE purge[x] = "external_artifacts_removed"
    <3>1. ~audio[x]
      BY <2>1, <2>3, <1>s DEF Removed, Past, ArtifactsRemoved, TasksRemoved, LoroRemoved,
         HandlersStopped
    <3>2. async'[x] = "erased" /\ receipt'[x] = "none" /\ ~audio'[x]
      BY <2>1, <2>3, <3>1, <1>t DEF purge_session_artifacts
    <3>3. Promised(x)
      BY <2>1, <3>1, <3>2 DEF Promised, Tombstoned
    <3> QED BY <2>2, <3>3, <1>p
  <2>4. CASE purge[x] = "tasks_removed"
    <3>1. ~audio'[x] /\ UNCHANGED <<async, receipt>>
      BY <2>1, <2>4, <1>t DEF runVars
    <3>2. Promised(x)
      BY <2>1, <3>1 DEF Promised
    <3> QED BY <2>2, <3>2, <1>p
  <2>5. CASE purge[x] \notin {"external_artifacts_removed", "tasks_removed"}
    <3>1. Same(x)
      BY <2>1, <2>5, <1>t DEF Same, Tombstoned, runVars
    <3> QED BY <2>2, <3>1, <1>p
  <2> QED BY <2>3, <2>4, <2>5
<1>20. CASE \/ WDispatch \/ WIndex \/ WReindex \/ WProject \/ WSettle \/ GProject \/ GSettle \/ GIndex
           \/ Restart \/ WLoro \/ GLoro
  BY <1>20, <1>0 DEF WDispatch, WIndex, WReindex, WProject, WSettle, GProject, GSettle,
     GIndex, Restart, WLoro, GLoro, project_search, begin_projection, settle_projection,
     write_document, runVars, fileVars
<1>21. ASSUME NEW x \in Sessions,
             \/ GRetryProjection(x) \/ SSearch(x)
      PROVE Goal
  BY <1>21, <1>0 DEF GRetryProjection, SSearch, project_search, begin_projection,
     settle_projection, write_document, runVars, fileVars
<1>22. CASE \/ WSweep \/ WScan \/ WQuarantineTask \/ WQuarantined \/ WReceipt \/ WReceiptsDone
           \/ WClaimNext \/ WCredential \/ WRegister \/ WGateStop \/ WGatePass \/ WReject
           \/ WProviderError \/ WJoin \/ WComplete \/ WFailure \/ WReconcile \/ WFault
           \/ WHeartbeat
  BY <1>22, <1>0 DEF WSweep, WScan, WQuarantineTask, WQuarantined, WReceipt, WReceiptsDone,
     WClaimNext, WCredential, WRegister, WGateStop, WGatePass, WReject, WProviderError,
     WJoin, WComplete, WFailure, WReconcile, WFault, WHeartbeat, runVars, fileVars
<1>23. CASE \/ GEnqueue \/ GReceipt \/ GTaskFound \/ GTaskRebuild \/ GCloseTask \/ GFault \/ GStop
           \/ GWaitTimeout \/ GPhaseFault \/ SNextStage \/ Crash \/ LoseTasksDb
           \/ ToggleKey
  BY <1>23, <1>0 DEF GEnqueue, GReceipt, GTaskFound, GTaskRebuild, GCloseTask, GFault,
     GStop, GWaitTimeout, GPhaseFault, SNextStage, Crash, LoseTasksDb, ToggleKey, runVars,
     fileVars
<1>24. ASSUME NEW x \in Sessions,
             \/ SPurge(x) \/ STask(x) \/ SProjection(x) \/ ExpireLease(x)
      PROVE Goal
  BY <1>24, <1>0 DEF SPurge, STask, SProjection, ExpireLease, runVars, fileVars
<1>25. CASE UNCHANGED vars
  BY <1>25, <1>0 DEF vars, runVars, fileVars, lifeVars, histVars
<1> QED
  BY <1>1, <1>2, <1>3, <1>4, <1>5, <1>6, <1>7, <1>8, <1>9, <1>10, <1>11, <1>12, <1>13,
     <1>14, <1>15, <1>16, <1>17, <1>18, <1>19, <1>20, <1>21, <1>22, <1>23, <1>24, <1>25 DEF
     Next, Worker_Next, User, Gate_Step, Startup_Step, Environment

(* Outcomes are final, a result is neither replaced nor dropped before Delete
   Forever, and the recording is let go only for a result or for the owner's
   deletion: the databases, the worker, recovery and the purge saga together
   implement what the owner is promised. *)
THEOREM PromiseIsKept == Spec => KeepsPromise
<1>1. Init => Promise!Init
  <2> SUFFICES ASSUME Init PROVE Promise!Init
    OBVIOUS
  <2>1. [s \in Sessions |-> Told[async[s]]] = [s \in Sessions |-> "idle"]
    BY DEF Init, Told
  <2>2. [s \in Sessions |-> receipt[s] # "none"] = [s \in Sessions |-> FALSE]
    BY DEF Init
  <2>3. audio = [s \in Sessions |-> TRUE]
    BY DEF Init
  <2>4. [s \in Sessions |-> Tombstoned(s)] = [s \in Sessions |-> FALSE]
    BY DEF Init, Tombstoned
  <2> QED BY <2>1, <2>2, <2>3, <2>4 DEF Promise!Init
<1>2. RInv /\ [Next]_vars => [Promise!Next]_(Promise!promiseVars)
  BY PromiseStep
<1> QED BY <1>1, <1>2, RunInductive, PTL DEF Spec, KeepsPromise, Promise!Spec
=============================================================================
