------------------------- MODULE AsyncTranscription -------------------------
(***************************************************************************)
(* Transcription of a stopped recording: the capture run and its provider  *)
(* receipt in the main database, the scheduler row in tasks.db, the one    *)
(* task worker of a process, the thread that holds capture_ownership_gate  *)
(* (the user's request, a re-request, a projection retry, Delete Forever,  *)
(* and start-up recovery, which all run one at a time), the provider, and  *)
(* a process that may die between any two durable writes.                  *)
(*                                                                         *)
(* The two databases commit separately; every action below is at most one  *)
(* commit to each.  A session's task id is derived from its run, so tasks  *)
(* are named by their session.                                             *)
(***************************************************************************)
EXTENDS Naturals

CONSTANTS
    Sessions,
    None,         \* no session
    Destroying,   \* sessions whose frozen privacy level destroys audio
    Deletable,    \* sessions the user may delete forever
    KeyMayVanish, \* whether the provider credential may be removed and restored
    MaxCrashes,   \* bound on process deaths
    MaxFaults,    \* bound on local I/O errors and on receipt corruption
    AttemptCap    \* bound on the provider attempts counted per session

ASSUME AsyncAssumption ==
    /\ None \notin Sessions
    /\ Destroying \subseteq Sessions
    /\ Deletable \subseteq Sessions
    /\ KeyMayVanish \in BOOLEAN
    /\ MaxCrashes \in Nat
    /\ MaxFaults \in Nat
    /\ AttemptCap \in Nat

VARIABLES
    async,     \* main DB: async_task_state of the run ("erased": no run row)
    prov,      \* main DB: post-stop provider provenance is claimed
    receipt,   \* main DB: the provider success receipt, with its tokens
    search,    \* main DB: async_search_projection_state
    proj,      \* main DB: async_projection_state
    purge,     \* main DB: phase of the session_purge_jobs row, the tombstone
    audio,     \* files: the retained source audio is whole
    doc,       \* files: the Notebook document shows the async transcript
    task,      \* tasks.db
    proc,      \* memory: process life cycle and start-up stage
    todo,      \* memory: sessions the start-up stage still has to visit
    blocked,   \* memory: SessionTaskRegistry.blocked_sessions
    key,       \* memory: the provider credential is loaded
    w,         \* memory: the task worker
    g,         \* memory: the holder of capture_ownership_gate
    attempts,  \* history: provider calls made for the session
    crashes, faults

Q == INSTANCE TaskTable WITH
        Tasks <- Sessions, RetryPolicies <- {1, 3}, RetryCap <- 0

runVars   == <<async, prov, receipt, search, proj>>
fileVars  == <<audio, doc>>
lifeVars  == <<proc, todo, blocked, key>>
histVars  == <<attempts, crashes, faults>>
vars == <<runVars, purge, fileVars, task, lifeVars, w, g, histVars>>

AsyncState == {"none", "pending", "reserved", "enqueued", "completed", "failed", "erased"}

SearchState == {"none", "pending", "ready", "failed"}

ProjState == {"none", "pending", "projecting", "ready", "failed"}

(* purge_phase_rank, and the phase that is recorded after each. *)
PhaseRank == [prepared |-> 0, task_handlers_stopped |-> 1, loro_removed |-> 2,
              tasks_removed |-> 3, external_artifacts_removed |-> 4,
              main_database_removed |-> 5, purge_receipts_removed |-> 6]

PhaseAfter == [prepared                   |-> "task_handlers_stopped",
               task_handlers_stopped      |-> "loro_removed",
               loro_removed               |-> "tasks_removed",
               tasks_removed              |-> "external_artifacts_removed",
               external_artifacts_removed |-> "main_database_removed",
               main_database_removed      |-> "purge_receipts_removed"]

Phase == {"none", "prepared", "task_handlers_stopped", "loro_removed", "tasks_removed",
          "external_artifacts_removed", "main_database_removed", "purge_receipts_removed"}

(* Where the worker is, while a SessionTaskRegistration is held and before. *)
FreePc == {"unswept", "idle", "quarantine", "quarantine_run", "receipts", "claim",
           "credential", "register", "reconcile"}

OwnedPc == {"gate1", "verify", "reject", "close_failed", "gate2", "dispatch", "provider",
            "index", "joined", "gate3", "finalize", "complete", "close", "gate4",
            "project", "loro", "settle", "unsettle", "failure", "gate_close",
            "close_receipt", "gate_index", "reindex", "gate_loro", "gate_done"}

Worker == [pc : FreePc \cup OwnedPc, s : Sessions \cup {None}, ready : BOOLEAN,
           res : {"none", "ok", "local", "error"},
           scan : SUBSET Sessions, corrupt : SUBSET Sessions]

IdleWorker == [pc |-> "idle", s |-> None, ready |-> FALSE, res |-> "none",
               scan |-> {}, corrupt |-> {}]

GatePc == {"free", "reserve", "enqueue", "mark", "receipt", "task", "promote", "decide",
           "index", "privacy", "close_task", "close_run", "project", "loro", "settle",
           "unsettle", "stop", "wait", "phase", "record"}

Gate == [pc : GatePc, s : Sessions \cup {None}, seen : AsyncState,
         rcpt : BOOLEAN, status : Q!Status]

FreeGate == [pc |-> "free", s |-> None, seen |-> "none", rcpt |-> FALSE,
             status |-> "absent"]

Stage == {"down", "purges", "search", "tasks", "projections", "running"}

Init ==
    /\ async = [s \in Sessions |-> "none"]
    /\ prov = [s \in Sessions |-> FALSE]
    /\ receipt = [s \in Sessions |-> "none"]
    /\ search = [s \in Sessions |-> "none"]
    /\ proj = [s \in Sessions |-> "none"]
    /\ purge = [s \in Sessions |-> "none"]
    /\ audio = [s \in Sessions |-> TRUE]
    /\ doc = [s \in Sessions |-> FALSE]
    /\ task = [s \in Sessions |-> Q!NoRow]
    /\ proc = "running"
    /\ todo = {}
    /\ blocked = {}
    /\ key = TRUE
    /\ w = [IdleWorker EXCEPT !.pc = "unswept"]
    /\ g = FreeGate
    /\ attempts = [s \in Sessions |-> 0]
    /\ crashes = 0
    /\ faults = 0

-----------------------------------------------------------------------------
(* The main database's operations.  Each is one transaction.               *)

Tombstoned(s) == purge[s] # "none"

InFlight(s) == async[s] \in {"reserved", "enqueued"}

(* A local I/O error, out of a bounded supply. *)
Fault == faults < MaxFaults /\ faults' = faults + 1

NoFault == faults' = faults

MayMarkEnqueued(s) == ~Tombstoned(s) /\ InFlight(s)

mark_async_task_enqueued(s) ==
    async' = [async EXCEPT ![s] = IF MayMarkEnqueued(s) THEN "enqueued" ELSE @]

MayMarkTerminal(s, success) ==
    /\ ~Tombstoned(s)
    /\ \/ async[s] = "enqueued"
       \/ ~success /\ async[s] = "reserved"

(* A refused transaction leaves the run as it was. *)
mark_async_task_terminal(s, success) ==
    /\ async' = [async EXCEPT ![s] =
                   IF ~MayMarkTerminal(s, success) THEN @
                   ELSE IF success THEN "completed" ELSE "failed"]
    /\ proj' = [proj EXCEPT ![s] =
                   IF MayMarkTerminal(s, success) /\ success THEN "pending" ELSE @]
    /\ UNCHANGED <<prov, receipt, search>>

(* A run that is completed already is closed again without a change. *)
MayClose(s) == MayMarkTerminal(s, TRUE) \/ (async[s] = "completed" /\ ~Tombstoned(s))

MayCommitReceipt(s) ==
    ~Tombstoned(s) /\ prov[s] /\ async[s] = "enqueued" /\ receipt[s] = "none"

commit_async_provider_success(s) ==
    /\ receipt' = [receipt EXCEPT ![s] = "valid"]
    /\ search' = [search EXCEPT ![s] = "pending"]
    /\ UNCHANGED <<async, prov, proj>>

(* project_transcribe_search_receipt: index the text and publish Ready in   *)
(* one transaction, or record the failure; a corrupt receipt or a tombstone *)
(* leaves the state alone.                                                  *)
project_search(s) ==
    /\ \/ NoFault /\ search' = [search EXCEPT ![s] =
             IF receipt[s] = "valid" /\ ~Tombstoned(s) THEN "ready" ELSE @]
       \/ /\ Fault
          /\ receipt[s] = "valid" /\ ~Tombstoned(s) /\ search[s] \in {"pending", "failed"}
          /\ search' = [search EXCEPT ![s] = "failed"]
    /\ UNCHANGED <<async, prov, receipt, proj>>

(* A mutant: the claim does not look for the tombstone. *)
MayClaimProvenance_Unfenced(s) == async[s] # "erased"

(* claim_provider_provenance(PostStop): an equal claim is kept. *)
MayClaimProvenance(s) == async[s] # "erased" /\ ~Tombstoned(s)

purge_session_artifacts(s) ==
    /\ async' = [async EXCEPT ![s] = "erased"]
    /\ prov' = [prov EXCEPT ![s] = FALSE]
    /\ receipt' = [receipt EXCEPT ![s] = "none"]
    /\ search' = [search EXCEPT ![s] = "none"]
    /\ proj' = [proj EXCEPT ![s] = "none"]

(* enforce_privacy_after_task, which may stop half way through the chunks.  *)
destroyed(s) == audio' = [audio EXCEPT ![s] = @ /\ s \notin Destroying]

-----------------------------------------------------------------------------
(* The task worker.                                                        *)

At(pc) == proc = "running" /\ w.pc = pc

Goto(pc) == w' = [w EXCEPT !.pc = pc]

GoIdle == w' = IdleWorker

(* sweep_orphaned_remote_artifacts runs before the first poll, and needs    *)
(* the credential.                                                          *)
WSweep ==
    /\ At("unswept") /\ key
    /\ GoIdle
    /\ UNCHANGED <<runVars, purge, fileVars, task, lifeVars, g, histVars>>

(* claim_next_worker_task begins with list_async_provider_receipts. *)
WScan ==
    /\ At("idle")
    /\ LET listed == {s \in Sessions : InFlight(s) /\ ~Tombstoned(s)} IN
       w' = [w EXCEPT !.pc = "quarantine",
                      !.corrupt = {s \in listed : receipt[s] = "corrupt"},
                      !.scan = {s \in listed : receipt[s] = "valid"}]
    /\ UNCHANGED <<runVars, purge, fileVars, task, lifeVars, g, histVars>>

(* A corrupt receipt: fail the search projection and the scheduler row... *)
WQuarantineTask ==
    /\ At("quarantine")
    /\ \E s \in w.corrupt :
         /\ search' = [search EXCEPT ![s] = IF @ \in {"pending", "failed"} THEN "failed" ELSE @]
         /\ IF Q!Claimable(s) THEN Q!Move(s, "failed", task[s].retry, "none")
                              ELSE UNCHANGED task
         /\ w' = [w EXCEPT !.pc = "quarantine_run", !.s = s]
    /\ UNCHANGED <<async, prov, receipt, proj, purge, fileVars, lifeVars, g, histVars>>

(* ... and then the run. *)
WQuarantineRun ==
    /\ At("quarantine_run")
    /\ mark_async_task_terminal(w.s, FALSE)
    /\ w' = [w EXCEPT !.pc = "quarantine", !.s = None, !.corrupt = @ \ {w.s}]
    /\ UNCHANGED <<purge, fileVars, task, lifeVars, g, histVars>>

WQuarantined ==
    /\ At("quarantine") /\ w.corrupt = {}
    /\ Goto("receipts")
    /\ UNCHANGED <<runVars, purge, fileVars, task, lifeVars, g, histVars>>

(* A valid receipt is recovered before any provider work is claimed. *)
WReceipt ==
    /\ At("receipts")
    /\ \E s \in w.scan :
         \/ /\ InFlight(s) /\ Q!Is(s, "completed")
            /\ w' = [IdleWorker EXCEPT !.pc = "reconcile", !.s = s]
            /\ UNCHANGED task
         \/ /\ InFlight(s) /\ Q!Claim(s)
            /\ w' = [IdleWorker EXCEPT !.pc = "register", !.s = s, !.ready = TRUE]
         \/ /\ ~(InFlight(s) /\ (Q!Is(s, "completed") \/ Q!Claimable(s)))
            /\ w' = [w EXCEPT !.scan = @ \ {s}]
            /\ UNCHANGED task
    /\ UNCHANGED <<runVars, purge, fileVars, lifeVars, g, histVars>>

WReceiptsDone ==
    /\ At("receipts") /\ w.scan = {}
    /\ Goto("claim")
    /\ UNCHANGED <<runVars, purge, fileVars, task, lifeVars, g, histVars>>

(* claim_next_with_provider_credential: has(), claim_next(), then get(). *)
WClaimNext ==
    /\ At("claim")
    /\ \/ \E s \in Sessions :
            /\ key /\ Q!Claim(s)
            /\ w' = [IdleWorker EXCEPT !.pc = "credential", !.s = s]
       \/ (~key \/ \A s \in Sessions : ~Q!Claimable(s)) /\ GoIdle /\ UNCHANGED task
    /\ UNCHANGED <<runVars, purge, fileVars, lifeVars, g, histVars>>

WCredential ==
    /\ At("credential")
    /\ IF key THEN Goto("register") /\ UNCHANGED task
              ELSE /\ GoIdle
                   /\ IF Q!Is(w.s, "running") THEN Q!ReleaseWithoutRetry(w.s)
                                             ELSE UNCHANGED task
    /\ UNCHANGED <<runVars, purge, fileVars, lifeVars, g, histVars>>

WRegister ==
    /\ At("register")
    /\ IF w.s \in blocked THEN Q!PurgeTasks({w.s}) /\ GoIdle
                          ELSE Goto("gate1") /\ UNCHANGED task
    /\ UNCHANGED <<runVars, purge, fileVars, lifeVars, g, histVars>>

(* session_task_may_continue, at each place the worker calls it. *)
AfterGate == [gate1 |-> "verify", gate2 |-> "dispatch", gate3 |-> "finalize",
              gate4 |-> "project", gate_close |-> "close_receipt",
              gate_index |-> "reindex", gate_loro |-> "project", gate_done |-> "idle"]

(* gate2 and the receipt recovery look at the registration's token first. *)
TokenGates == {"gate2", "gate_close", "gate_index", "gate_loro", "gate_done"}

WGateStop ==
    /\ proc = "running" /\ w.pc \in DOMAIN AfterGate
    /\ GoIdle
    /\ \/ Tombstoned(w.s) /\ Q!PurgeTasks({w.s}) /\ NoFault
       \/ w.s \in blocked /\ w.pc \in TokenGates /\ UNCHANGED task /\ NoFault
       \/ ~Tombstoned(w.s) /\ ~Q!Present(w.s) /\ UNCHANGED task /\ NoFault
       \/ Fault /\ UNCHANGED task
    /\ UNCHANGED <<runVars, purge, fileVars, lifeVars, g, attempts, crashes>>

WGatePass ==
    /\ proc = "running" /\ w.pc \in DOMAIN AfterGate
    /\ ~Tombstoned(w.s) /\ Q!Present(w.s)
    /\ w.pc \in TokenGates => w.s \notin blocked
    /\ CASE w.pc = "gate3" /\ w.res # "ok" -> Goto("failure")
         [] w.pc = "gate_done" -> GoIdle
         [] OTHER -> Goto(AfterGate[w.pc])
    /\ UNCHANGED <<runVars, purge, fileVars, task, lifeVars, g, histVars>>

(* verify_capture_async_task_receipt, and the frozen privacy level.         *)
VerifyOk(s, ready) ==
    /\ ready \/ receipt[s] = "none"
    /\ InFlight(s)
    /\ Q!Present(s)
    /\ async[s] = "reserved" => ~Tombstoned(s)

WVerify ==
    /\ At("verify")
    /\ \/ /\ VerifyOk(w.s, w.ready) /\ NoFault
          /\ mark_async_task_enqueued(w.s)
          /\ Goto("gate2")
       \/ /\ (~VerifyOk(w.s, w.ready) /\ NoFault) \/ Fault
          /\ IF w.ready THEN GoIdle ELSE Goto("reject")
          /\ UNCHANGED async
    /\ UNCHANGED <<prov, receipt, search, proj, purge, fileVars, task, lifeVars, g,
                   attempts, crashes>>

WReject ==
    /\ At("reject")
    /\ IF Q!Is(w.s, "running") THEN Q!FailLocalPreflight(w.s) ELSE UNCHANGED task
    /\ Goto("close_failed")
    /\ UNCHANGED <<runVars, purge, fileVars, lifeVars, g, histVars>>

(* A mutant: any terminal row closes the run as completed. *)
WCloseFailed_AsSuccess ==
    /\ At("close_failed")
    /\ IF Q!Is(w.s, "completed") \/ Q!Is(w.s, "failed")
       THEN mark_async_task_terminal(w.s, TRUE) ELSE UNCHANGED runVars
    /\ GoIdle
    /\ UNCHANGED <<purge, fileVars, task, lifeVars, g, histVars>>

(* close_capture_async_receipt_if_queue_terminal, on the failure paths. *)
WCloseFailed ==
    /\ At("close_failed")
    /\ IF Q!Is(w.s, "completed") \/ Q!Is(w.s, "failed")
       THEN mark_async_task_terminal(w.s, Q!Is(w.s, "completed"))
       ELSE UNCHANGED runVars
    /\ GoIdle
    /\ UNCHANGED <<purge, fileVars, task, lifeVars, g, histVars>>

(* dispatch_task up to the provider call: a receipt is answered locally; a  *)
(* missing source is a local failure; otherwise provenance is claimed and   *)
(* Soniox is called.  Reading the key, the Context or the audio may fail     *)
(* before that.                                                             *)
WDispatch ==
    /\ At("dispatch")
    /\ CASE receipt[w.s] = "valid" ->
              w' = [w EXCEPT !.pc = "index", !.res = "ok"] /\ UNCHANGED <<prov, attempts>>
         [] \/ receipt[w.s] = "corrupt"
            \/ receipt[w.s] = "none" /\ ~w.ready /\ ~audio[w.s] ->
              w' = [w EXCEPT !.pc = "joined", !.res = "local"] /\ UNCHANGED <<prov, attempts>>
         [] OTHER ->
              \/ /\ \E res \in IF w.ready THEN {"error"} ELSE {"local", "error"} :
                       w' = [w EXCEPT !.pc = "joined", !.res = res]
                 /\ UNCHANGED <<prov, attempts>>
              \/ /\ ~w.ready /\ MayClaimProvenance(w.s) /\ w.s \notin blocked
                 /\ attempts[w.s] < AttemptCap
                 /\ prov' = [prov EXCEPT ![w.s] = TRUE]
                 /\ attempts' = [attempts EXCEPT ![w.s] = @ + 1]
                 /\ Goto("provider")
    /\ UNCHANGED <<async, receipt, search, proj, purge, fileVars, task, lifeVars, g,
                   crashes, faults>>

(* The provider returned tokens and the remote copies are gone: the receipt *)
(* commits unless the handler was cancelled or the store refuses it.        *)
WProviderOk ==
    /\ At("provider")
    /\ IF w.s \notin blocked /\ MayCommitReceipt(w.s)
       THEN commit_async_provider_success(w.s) /\ w' = [w EXCEPT !.pc = "index", !.res = "ok"]
       ELSE UNCHANGED runVars /\ w' = [w EXCEPT !.pc = "joined", !.res = "error"]
    /\ UNCHANGED <<purge, fileVars, task, lifeVars, g, histVars>>

(* A mutant: the provider's error is swallowed. *)
WProviderError_Swallowed ==
    /\ At("provider")
    /\ w' = [w EXCEPT !.pc = "joined", !.res = "ok"]
    /\ UNCHANGED <<runVars, purge, fileVars, task, lifeVars, g, histVars>>

(* The provider failed, timed out or was cancelled. *)
WProviderError ==
    /\ At("provider")
    /\ w' = [w EXCEPT !.pc = "joined", !.res = "error"]
    /\ UNCHANGED <<runVars, purge, fileVars, task, lifeVars, g, histVars>>

WIndex ==
    /\ At("index")
    /\ project_search(w.s)
    /\ Goto("joined")
    /\ UNCHANGED <<purge, fileVars, task, lifeVars, g, attempts, crashes>>

(* await_handler_or_session_cancel: a cancelled handler has been joined. *)
WJoin ==
    /\ At("joined")
    /\ IF w.s \in blocked THEN GoIdle ELSE Goto("gate3")
    /\ UNCHANGED <<runVars, purge, fileVars, task, lifeVars, g, histVars>>

(* finalize_successful_task: audio first, then the scheduler row. *)
WFinalize ==
    /\ At("finalize")
    /\ \/ Q!Is(w.s, "running") /\ destroyed(w.s) /\ Goto("complete") /\ NoFault
       \/ ~Q!Is(w.s, "running") /\ UNCHANGED audio /\ GoIdle /\ NoFault
       \/ Q!Is(w.s, "running") /\ Fault /\ (destroyed(w.s) \/ UNCHANGED audio) /\ GoIdle
    /\ UNCHANGED <<runVars, purge, doc, task, lifeVars, g, attempts, crashes>>

WComplete ==
    /\ At("complete")
    /\ IF Q!Is(w.s, "running") THEN Q!Complete(w.s) /\ Goto("close")
                               ELSE UNCHANGED task /\ GoIdle
    /\ UNCHANGED <<runVars, purge, fileVars, lifeVars, g, histVars>>

WClose ==
    /\ At("close")
    /\ IF Q!Is(w.s, "completed") /\ MayClose(w.s)
       THEN mark_async_task_terminal(w.s, TRUE) /\ Goto("gate4")
       ELSE UNCHANGED runVars /\ GoIdle
    /\ UNCHANGED <<purge, fileVars, task, lifeVars, g, histVars>>

(* A mutant: the projection is begun without the compare-and-set. *)
begin_projection_Unclaimed(s, go, stop) ==
    /\ IF receipt[s] = "valid" /\ async[s] = "completed"
       THEN proj' = [proj EXCEPT ![s] = "projecting"] /\ go
       ELSE UNCHANGED proj /\ stop
    /\ UNCHANGED <<async, prov, receipt, search>>

(* project_persisted_async_transcript, the same for worker and gate holder: *)
(* claim the projection, write the document, publish the outcome.           *)
begin_projection(s, go, stop) ==
    /\ IF receipt[s] = "valid" /\ proj[s] = "pending"
       THEN proj' = [proj EXCEPT ![s] = "projecting"] /\ go
       ELSE /\ proj' = [proj EXCEPT ![s] = IF @ = "pending" THEN "failed" ELSE @]
            /\ stop
    /\ UNCHANGED <<async, prov, receipt, search>>

(* There may be no Notebook link or no token, and an edit that was applied   *)
(* may fail to be saved.                                                     *)
write_document(s, wrote, missed) ==
    /\ NoFault
    /\ \/ doc' = [doc EXCEPT ![s] = TRUE] /\ (wrote \/ missed)
       \/ UNCHANGED doc /\ missed

(* If Ready cannot be written Failed is tried, and if that fails too the    *)
(* claim stays until the next start.                                        *)
settle_projection(s, wrote, retry, done) ==
    /\ \/ /\ NoFault /\ done
          /\ proj' = [proj EXCEPT ![s] =
                        IF @ # "projecting" THEN @
                        ELSE IF wrote /\ ~Tombstoned(s) THEN "ready" ELSE "failed"]
       \/ Fault /\ UNCHANGED proj /\ IF wrote THEN retry ELSE done
    /\ UNCHANGED <<async, prov, receipt, search>>

(* The recovery of a completed row looks at the purge gate once more. *)
GoDone == IF w.res = "none" THEN Goto("gate_done") ELSE GoIdle

WProject ==
    /\ At("project")
    /\ begin_projection(w.s, Goto("loro"), GoDone)
    /\ UNCHANGED <<purge, fileVars, task, lifeVars, g, histVars>>

WLoro ==
    /\ At("loro")
    /\ write_document(w.s, Goto("settle"), Goto("unsettle"))
    /\ UNCHANGED <<runVars, purge, audio, task, lifeVars, g, attempts, crashes>>

WSettle ==
    /\ At("settle") \/ At("unsettle")
    /\ settle_projection(w.s, w.pc = "settle", Goto("unsettle"), GoDone)
    /\ UNCHANGED <<purge, fileVars, task, lifeVars, g, attempts, crashes>>

(* The handler failed.  A durable receipt, or one that cannot be read, keeps *)
(* the row for recovery; else a local failure is terminal and any other      *)
(* spends a retry.                                                           *)
WFailure ==
    /\ At("failure")
    /\ \/ /\ (receipt[w.s] = "valid" /\ NoFault) \/ Fault
          /\ GoIdle /\ UNCHANGED task
       \/ /\ receipt[w.s] # "valid" /\ NoFault
          /\ IF ~Q!Is(w.s, "running") THEN UNCHANGED task
             ELSE IF w.res = "local" THEN Q!FailLocalPreflight(w.s)
             ELSE Q!Fail(w.s)
          /\ IF task'[w.s].status = "failed" THEN Goto("close_failed") ELSE GoIdle
    /\ UNCHANGED <<runVars, purge, fileVars, lifeVars, g, attempts, crashes>>

(* recover_completed_provider_receipt_with: the row is completed already. *)
WReconcile ==
    /\ At("reconcile")
    /\ IF receipt[w.s] = "valid" /\ w.s \notin blocked THEN Goto("gate_close") ELSE GoIdle
    /\ UNCHANGED <<runVars, purge, fileVars, task, lifeVars, g, histVars>>

(* A refused close asks the purge gate before it gives up. *)
WCloseReceipt ==
    /\ At("close_receipt")
    /\ IF Q!Is(w.s, "completed") /\ MayClose(w.s)
       THEN mark_async_task_terminal(w.s, TRUE) /\ Goto("gate_index") /\ UNCHANGED task
       ELSE /\ UNCHANGED runVars
            /\ GoIdle
            /\ IF Tombstoned(w.s) /\ w.s \notin blocked THEN Q!PurgeTasks({w.s})
                                                        ELSE UNCHANGED task
    /\ UNCHANGED <<purge, fileVars, lifeVars, g, histVars>>

WReindex ==
    /\ At("reindex")
    /\ project_search(w.s)
    /\ Goto("gate_loro")
    /\ UNCHANGED <<purge, fileVars, task, lifeVars, g, attempts, crashes>>

(* A read or write of either database fails where the worker only logs it:  *)
(* the iteration ends, with the run and the row as they were.               *)
WFault ==
    /\ proc = "running"
    /\ w.pc \in {"quarantine", "receipts", "claim", "credential", "register", "reject",
                 "complete", "close", "close_failed", "reconcile", "close_receipt", "project"}
    /\ Fault /\ GoIdle
    /\ UNCHANGED <<runVars, purge, fileVars, task, lifeVars, g, attempts, crashes>>

(* The heartbeat task lives from the dispatch to the end of the iteration; *)
(* it can do nothing once the row is terminal.                             *)
HandlerPc == {"dispatch", "provider", "index", "joined", "gate3", "finalize", "complete",
              "failure"}

WHeartbeat ==
    /\ proc = "running" /\ w.pc \in HandlerPc
    /\ Q!Heartbeat(w.s)
    /\ UNCHANGED <<runVars, purge, fileVars, lifeVars, w, g, histVars>>

Worker_Next ==
    \/ WSweep \/ WScan \/ WQuarantineTask \/ WQuarantineRun \/ WQuarantined
    \/ WReceipt \/ WReceiptsDone \/ WClaimNext \/ WCredential \/ WRegister
    \/ WGateStop \/ WGatePass \/ WVerify \/ WReject \/ WCloseFailed
    \/ WDispatch \/ WProviderOk \/ WProviderError \/ WIndex \/ WJoin
    \/ WFinalize \/ WComplete \/ WClose \/ WProject \/ WLoro \/ WSettle \/ WFailure
    \/ WReconcile \/ WCloseReceipt \/ WReindex \/ WFault

-----------------------------------------------------------------------------
(* The holder of capture_ownership_gate: an FFI call, or start-up recovery. *)

Holding(pc) == proc # "down" /\ g.pc = pc

GGoto(pc) == g' = [g EXCEPT !.pc = pc]

Release == g' = FreeGate

Starting == proc \notin {"down", "running"}

(* An error is returned to the user's call, and stops a start-up. *)
Abort == Release /\ proc' = IF Starting THEN "down" ELSE proc

(* ensure_post_stop_async_task_for_run, for the state the caller has read.  *)
Ensure(s, seen) ==
    g' = [FreeGate EXCEPT !.s = IF seen = "pending" \/ seen \in {"reserved", "enqueued"}
                                THEN s ELSE None,
                          !.seen = seen,
                          !.pc = CASE seen = "pending" -> "reserve"
                                   [] seen \in {"reserved", "enqueued"} -> "receipt"
                                   [] OTHER -> "free"]

(* A mutant: a failed run may be authorized again. *)
GRequest_Again(s) ==
    /\ proc = "running" /\ g.pc = "free"
    /\ async[s] # "erased" /\ ~Tombstoned(s)
    /\ async[s] \in {"none", "failed"} => audio[s]
    /\ async' = [async EXCEPT ![s] = IF @ \in {"none", "failed"} THEN "pending" ELSE @]
    /\ Ensure(s, async'[s])
    /\ UNCHANGED <<prov, receipt, search, proj, purge, fileVars, task, lifeVars, w, histVars>>

(* request_notebook_async_transcription: authorize, then ensure the task. *)
GRequest(s) ==
    /\ proc = "running" /\ g.pc = "free"
    /\ async[s] # "erased" /\ ~Tombstoned(s)
    /\ async[s] = "none" => audio[s]
    /\ async' = [async EXCEPT ![s] = IF @ = "none" THEN "pending" ELSE @]
    /\ Ensure(s, async'[s])
    /\ UNCHANGED <<prov, receipt, search, proj, purge, fileVars, task, lifeVars, w, histVars>>

(* A mutant: the run is marked before its row exists. *)
GReserve_MarkFirst ==
    /\ Holding("reserve")
    /\ async' = [async EXCEPT ![g.s] = "enqueued"]
    /\ GGoto("enqueue")
    /\ UNCHANGED <<prov, receipt, search, proj, purge, fileVars, task, lifeVars, w, histVars>>

GReserve ==
    /\ Holding("reserve")
    /\ async' = [async EXCEPT ![g.s] = "reserved"]
    /\ GGoto("enqueue")
    /\ UNCHANGED <<prov, receipt, search, proj, purge, fileVars, task, lifeVars, w, histVars>>

(* A mutant: the queue's usual retry policy. *)
GEnqueue_Retrying ==
    /\ Holding("enqueue")
    /\ \/ NoFault /\ Q!Enqueue(g.s, 3) /\ GGoto("mark") /\ UNCHANGED proc
       \/ Fault /\ UNCHANGED task /\ Abort
    /\ UNCHANGED <<runVars, purge, fileVars, todo, blocked, key, w, attempts, crashes>>

(* enqueue_once_with_stable_id: the one attempt the user authorized. *)
GEnqueue ==
    /\ Holding("enqueue")
    /\ \/ NoFault /\ Q!Enqueue(g.s, 1) /\ GGoto("mark") /\ UNCHANGED proc
       \/ Fault /\ UNCHANGED task /\ Abort
    /\ UNCHANGED <<runVars, purge, fileVars, todo, blocked, key, w, attempts, crashes>>

GMark ==
    /\ Holding("mark")
    /\ mark_async_task_enqueued(g.s)
    /\ IF MayMarkEnqueued(g.s) THEN Release /\ UNCHANGED proc ELSE Abort
    /\ UNCHANGED <<prov, receipt, search, proj, purge, fileVars, task, todo, blocked, key,
                   w, histVars>>

(* reconcile_capture_async_task_receipt_on_startup, which a repeated request *)
(* runs too.  A corrupt receipt blocks it.                                   *)
GReceipt ==
    /\ Holding("receipt")
    /\ IF receipt[g.s] = "corrupt" THEN Release
       ELSE g' = [g EXCEPT !.pc = "task", !.rcpt = receipt[g.s] = "valid"]
    /\ UNCHANGED <<runVars, purge, fileVars, task, lifeVars, w, histVars>>

GTaskFound ==
    /\ Holding("task") /\ Q!Present(g.s)
    /\ g' = [g EXCEPT !.pc = "promote", !.status = task[g.s].status]
    /\ UNCHANGED <<runVars, purge, fileVars, task, lifeVars, w, histVars>>

(* The receipt is durable and its row is lost: the row is rebuilt. *)
GTaskRebuild ==
    /\ Holding("task") /\ ~Q!Present(g.s) /\ g.rcpt
    /\ \/ /\ NoFault /\ Q!Enqueue(g.s, 3) /\ UNCHANGED proc
          /\ g' = [g EXCEPT !.pc = "promote", !.status = "pending"]
       \/ Fault /\ UNCHANGED task /\ Abort
    /\ UNCHANGED <<runVars, purge, fileVars, todo, blocked, key, w, attempts, crashes>>

(* The row is missing or cannot be read: without a receipt the run fails. *)
GTaskLost ==
    /\ Holding("task")
    /\ (NoFault /\ ~Q!Present(g.s) /\ ~g.rcpt) \/ (Fault /\ (g.rcpt => Q!Present(g.s)))
    /\ IF g.rcpt THEN UNCHANGED <<runVars, proc>> /\ Release
       ELSE /\ mark_async_task_terminal(g.s, FALSE)
            /\ IF MayMarkTerminal(g.s, FALSE) \/ async[g.s] = "failed"
               THEN Release /\ UNCHANGED proc ELSE Abort
    /\ UNCHANGED <<purge, fileVars, task, todo, blocked, key, w, attempts, crashes>>

GPromote ==
    /\ Holding("promote")
    /\ IF g.seen = "reserved"
       THEN /\ mark_async_task_enqueued(g.s)
            /\ IF MayMarkEnqueued(g.s) THEN GGoto("decide") /\ UNCHANGED proc ELSE Abort
       ELSE GGoto("decide") /\ UNCHANGED <<async, proc>>
    /\ UNCHANGED <<prov, receipt, search, proj, purge, fileVars, task, todo, blocked, key,
                   w, histVars>>

(* A mutant: recovery fails whatever the last process left unfinished. *)
GDecide_FailUnfinished ==
    /\ Holding("decide")
    /\ mark_async_task_terminal(g.s, g.status = "completed")
    /\ Release
    /\ UNCHANGED <<purge, fileVars, task, lifeVars, w, histVars>>

(* With a receipt, any row but a completed one is completed locally; without *)
(* one, the row's own outcome is copied to the run.                          *)
DecideCloses == g.status = "completed" \/ (g.status = "failed" /\ ~g.rcpt)

GDecide ==
    /\ Holding("decide")
    /\ IF DecideCloses
       THEN /\ mark_async_task_terminal(g.s, g.status = "completed")
            /\ IF \/ MayMarkTerminal(g.s, g.status = "completed")
                  \/ async[g.s] = g.status
               THEN Release /\ UNCHANGED proc ELSE Abort
       ELSE /\ IF g.rcpt THEN GGoto("index") ELSE Release
            /\ UNCHANGED <<runVars, proc>>
    /\ UNCHANGED <<purge, fileVars, task, todo, blocked, key, w, histVars>>

(* complete_recovered_provider_receipt: search, privacy, row, run. *)
GIndex ==
    /\ Holding("index")
    /\ project_search(g.s)
    /\ IF receipt[g.s] = "valid" THEN GGoto("privacy") ELSE Release
    /\ UNCHANGED <<purge, fileVars, task, lifeVars, w, attempts, crashes>>

GPrivacy ==
    /\ Holding("privacy")
    /\ \/ NoFault /\ destroyed(g.s) /\ GGoto("close_task")
       \/ Fault /\ (destroyed(g.s) \/ UNCHANGED audio) /\ Release
    /\ UNCHANGED <<runVars, purge, doc, task, lifeVars, w, attempts, crashes>>

GCloseTask ==
    /\ Holding("close_task")
    /\ IF Q!Present(g.s) THEN Q!CompleteFromReceipt(g.s) /\ GGoto("close_run")
                         ELSE UNCHANGED task /\ Release
    /\ UNCHANGED <<runVars, purge, fileVars, lifeVars, w, histVars>>

GCloseRun ==
    /\ Holding("close_run")
    /\ mark_async_task_terminal(g.s, TRUE)
    /\ Release
    /\ UNCHANGED <<purge, fileVars, task, lifeVars, w, histVars>>

(* A read or write of either database fails.  An error of the reservation or *)
(* the reconciliation is returned; an unreadable receipt, an unfinished local *)
(* recovery and a projection are left for later.                              *)
GFault ==
    /\ \/ Holding("reserve") \/ Holding("mark")
       \/ Holding("promote") /\ g.seen = "reserved"
       \/ Holding("decide") /\ DecideCloses
       \/ Holding("receipt") \/ Holding("index")
       \/ Holding("close_task") \/ Holding("close_run") \/ Holding("project")
    /\ Fault
    /\ IF g.pc \in {"reserve", "mark", "promote", "decide"}
       THEN Abort ELSE Release /\ UNCHANGED proc
    /\ UNCHANGED <<runVars, purge, fileVars, task, todo, blocked, key, w, attempts, crashes>>

(* retry_notebook_async_projection *)
GRetryProjection(s) ==
    /\ proc = "running" /\ g.pc = "free"
    /\ async[s] = "completed" /\ ~Tombstoned(s) /\ proj[s] \in {"pending", "failed"}
    /\ proj' = [proj EXCEPT ![s] = "pending"]
    /\ g' = [FreeGate EXCEPT !.pc = "project", !.s = s]
    /\ UNCHANGED <<async, prov, receipt, search, purge, fileVars, task, lifeVars, w, histVars>>

GProject ==
    /\ Holding("project")
    /\ begin_projection(g.s, GGoto("loro"), Release)
    /\ UNCHANGED <<purge, fileVars, task, lifeVars, w, histVars>>

GLoro ==
    /\ Holding("loro")
    /\ write_document(g.s, GGoto("settle"), GGoto("unsettle"))
    /\ UNCHANGED <<runVars, purge, audio, task, lifeVars, w, attempts, crashes>>

GSettle ==
    /\ Holding("settle") \/ Holding("unsettle")
    /\ settle_projection(g.s, g.pc = "settle", GGoto("unsettle"), Release)
    /\ UNCHANGED <<purge, fileVars, task, lifeVars, w, attempts, crashes>>

-----------------------------------------------------------------------------
(* Delete Forever.  The tombstone is durable before anything is stopped,   *)
(* and each phase is recorded after its effect.                            *)

Reached(s, phase) == Tombstoned(s) /\ PhaseRank[purge[s]] >= PhaseRank[phase]

GPurge(s) ==
    /\ proc = "running" /\ g.pc = "free" /\ s \in Deletable
    /\ async[s] # "erased" \/ Tombstoned(s)
    /\ purge' = [purge EXCEPT ![s] = IF @ = "none" THEN "prepared" ELSE @]
    /\ g' = [FreeGate EXCEPT !.pc = "stop", !.s = s]
    /\ UNCHANGED <<runVars, fileVars, task, lifeVars, w, histVars>>

(* cancel_and_wait blocks the session for this process and cancels... *)
GStop ==
    /\ Holding("stop")
    /\ \/ NoFault /\ blocked' = blocked \cup {g.s} /\ GGoto("wait")
       \/ Fault /\ UNCHANGED blocked /\ Release
    /\ UNCHANGED <<runVars, purge, fileVars, task, proc, todo, key, w, attempts, crashes>>

Registered(s) == w.pc \in OwnedPc /\ w.s = s

(* A mutant: the handler is cancelled and not joined. *)
GWait_Unjoined ==
    /\ Holding("wait")
    /\ purge' = [purge EXCEPT ![g.s] = IF @ = "prepared" THEN "task_handlers_stopped" ELSE @]
    /\ GGoto("phase")
    /\ UNCHANGED <<runVars, fileVars, task, lifeVars, w, histVars>>

(* ... and waits until the handler has dropped its registration. *)
GWait ==
    /\ Holding("wait") /\ ~Registered(g.s)
    /\ purge' = [purge EXCEPT ![g.s] = IF @ = "prepared" THEN "task_handlers_stopped" ELSE @]
    /\ GGoto("phase")
    /\ UNCHANGED <<runVars, fileVars, task, lifeVars, w, histVars>>

GWaitTimeout ==
    /\ Holding("wait") /\ Registered(g.s)
    /\ Release
    /\ UNCHANGED <<runVars, purge, fileVars, task, lifeVars, w, histVars>>

(* What each phase removes, given the phase recorded before it. *)
GPhase ==
    /\ Holding("phase") /\ purge[g.s] # "purge_receipts_removed"
    /\ GGoto("record")
    /\ doc' = [doc EXCEPT ![g.s] = @ /\ purge[g.s] # "task_handlers_stopped"]
    /\ IF purge[g.s] = "loro_removed" THEN Q!PurgeTasks({g.s}) ELSE UNCHANGED task
    /\ audio' = [audio EXCEPT ![g.s] = @ /\ purge[g.s] # "tasks_removed"]
    /\ IF purge[g.s] = "external_artifacts_removed"
       THEN purge_session_artifacts(g.s) ELSE UNCHANGED runVars
    /\ UNCHANGED <<purge, lifeVars, w, histVars>>

(* A deletion or the recording of its phase fails; the job is kept. *)
GPhaseFault ==
    /\ Holding("wait") \/ Holding("phase") \/ Holding("record")
    /\ Fault /\ Release
    /\ UNCHANGED <<runVars, purge, fileVars, task, lifeVars, w, attempts, crashes>>

GRecord ==
    /\ Holding("record")
    /\ purge' = [purge EXCEPT ![g.s] = PhaseAfter[@]]
    /\ GGoto("phase")
    /\ UNCHANGED <<runVars, fileVars, task, lifeVars, w, histVars>>

GFinish ==
    /\ Holding("phase") /\ purge[g.s] = "purge_receipts_removed"
    /\ purge' = [purge EXCEPT ![g.s] = "none"]
    /\ Release
    /\ UNCHANGED <<runVars, fileVars, task, lifeVars, w, histVars>>

Gate_Step ==
    \/ GReserve \/ GEnqueue \/ GMark \/ GReceipt \/ GTaskFound \/ GTaskRebuild
    \/ GTaskLost \/ GPromote \/ GDecide \/ GIndex \/ GPrivacy \/ GCloseTask \/ GCloseRun
    \/ GFault \/ GProject \/ GLoro \/ GSettle
    \/ GStop \/ GWait \/ GWaitTimeout \/ GPhase \/ GPhaseFault \/ GRecord \/ GFinish

-----------------------------------------------------------------------------
(* Start-up, in the order of VTCore's constructor; the worker starts last. *)

recover_unfinished_runs ==
    proj' = [s \in Sessions |-> IF proj[s] = "projecting" THEN "failed" ELSE proj[s]]

Restart ==
    /\ proc = "down"
    /\ recover_unfinished_runs
    /\ Q!RecoverAbandoned
    /\ proc' = "purges"
    /\ todo' = {s \in Sessions : Tombstoned(s)}
    /\ blocked' = {}
    /\ UNCHANGED <<async, prov, receipt, search, purge, fileVars, key, w, g, histVars>>

(* resume_pending_session_purges *)
SPurge(s) ==
    /\ proc = "purges" /\ g.pc = "free" /\ s \in todo
    /\ todo' = todo \ {s}
    /\ g' = [FreeGate EXCEPT !.pc = "stop", !.s = s]
    /\ UNCHANGED <<runVars, purge, fileVars, task, proc, blocked, key, w, histVars>>

(* resume_pending_async_search_projections *)
SSearch(s) ==
    /\ proc = "search" /\ s \in todo
    /\ todo' = todo \ {s}
    /\ IF receipt[s] = "corrupt"
       THEN /\ search' = [search EXCEPT ![s] = "failed"] /\ NoFault
            /\ UNCHANGED <<async, prov, receipt, proj>>
       ELSE project_search(s)
    /\ UNCHANGED <<purge, fileVars, task, proc, blocked, key, w, g, attempts, crashes>>

(* compensate_post_stop_notebook_async_tasks *)
STask(s) ==
    /\ proc = "tasks" /\ g.pc = "free" /\ s \in todo
    /\ todo' = todo \ {s}
    /\ IF Tombstoned(s) THEN UNCHANGED g ELSE Ensure(s, async[s])
    /\ UNCHANGED <<runVars, purge, fileVars, task, proc, blocked, key, w, histVars>>

(* resume_pending_notebook_async_projections *)
SProjection(s) ==
    /\ proc = "projections" /\ g.pc = "free" /\ s \in todo
    /\ todo' = todo \ {s}
    /\ IF Tombstoned(s) THEN UNCHANGED g
                        ELSE g' = [FreeGate EXCEPT !.pc = "project", !.s = s]
    /\ UNCHANGED <<runVars, purge, fileVars, task, proc, blocked, key, w, histVars>>

(* Each stage lists its sessions when it begins. *)
SNextStage ==
    /\ g.pc = "free" /\ todo = {}
    /\ \/ /\ proc = "purges" /\ proc' = "search"
          /\ todo' = {s \in Sessions : /\ receipt[s] # "none" /\ ~Tombstoned(s)
                                       /\ search[s] \in {"pending", "failed"}}
          /\ UNCHANGED w
       \/ /\ proc = "search" /\ proc' = "tasks"
          /\ todo' = {s \in Sessions : async[s] \in {"pending", "reserved", "enqueued"}}
          /\ UNCHANGED w
       \/ /\ proc = "tasks" /\ proc' = "projections"
          /\ todo' = {s \in Sessions : async[s] = "completed" /\ proj[s] = "pending"}
          /\ UNCHANGED w
       \/ /\ proc = "projections" /\ proc' = "running" /\ todo' = {}
          /\ w' = [IdleWorker EXCEPT !.pc = "unswept"]
    /\ UNCHANGED <<runVars, purge, fileVars, task, blocked, key, g, histVars>>

Startup_Step ==
    \/ Restart
    \/ \E s \in Sessions : SPurge(s) \/ SSearch(s) \/ STask(s) \/ SProjection(s)
    \/ SNextStage

-----------------------------------------------------------------------------
(* The environment.                                                        *)

(* The process dies: only the databases and the files survive. *)
Crash ==
    /\ proc # "down" /\ crashes < MaxCrashes
    /\ proc' = "down" /\ crashes' = crashes + 1
    /\ todo' = {} /\ blocked' = {} /\ w' = IdleWorker /\ g' = FreeGate
    /\ UNCHANGED <<runVars, purge, fileVars, task, key, attempts, faults>>

(* The wall clock passes a lease's deadline, for instance across a sleep. *)
ExpireLease(s) ==
    /\ Q!Is(s, "running") /\ task[s].lease = "live"
    /\ Q!Expire({s})
    /\ UNCHANGED <<runVars, purge, fileVars, lifeVars, w, g, histVars>>

ToggleKey ==
    /\ KeyMayVanish
    /\ key' = ~key
    /\ UNCHANGED <<runVars, purge, fileVars, task, proc, todo, blocked, w, g, histVars>>

(* The receipt's digest no longer matches what is stored. *)
CorruptReceipt(s) ==
    /\ receipt[s] = "valid" /\ Fault
    /\ receipt' = [receipt EXCEPT ![s] = "corrupt"]
    /\ UNCHANGED <<async, prov, search, proj, purge, fileVars, task, lifeVars, w, g,
                   attempts, crashes>>

(* tasks.db is lost or replaced while the app is closed. *)
LoseTasksDb ==
    /\ proc = "down" /\ Fault
    /\ Q!PurgeTasks(Sessions)
    /\ UNCHANGED <<runVars, purge, fileVars, lifeVars, w, g, attempts, crashes>>

User ==
    \E s \in Sessions : GRequest(s) \/ GRetryProjection(s) \/ GPurge(s)

Environment ==
    \/ Crash
    \/ LoseTasksDb
    \/ ToggleKey
    \/ \E s \in Sessions : ExpireLease(s) \/ CorruptReceipt(s)

Next == Worker_Next \/ WHeartbeat \/ User \/ Gate_Step \/ Startup_Step \/ Environment

Spec == Init /\ [][Next]_vars

(* The worker's loop and a thread holding the gate keep running, a start-up *)
(* that began goes on, and unattended leases run out.  Users, crashes and   *)
(* the credential owe nothing.                                              *)
Fairness ==
    /\ WF_vars(Worker_Next)
    /\ WF_vars(Gate_Step)
    /\ WF_vars(Startup_Step)
    /\ \A s \in Sessions : WF_vars(ExpireLease(s))

FairSpec == Spec /\ Fairness

-----------------------------------------------------------------------------
(* Every column, file, thread and counter holds a value its code can write: *)
(* in particular no recovery or retry writes a state outside its enum.      *)
TypeOK ==
    /\ async \in [Sessions -> AsyncState]
    /\ prov \in [Sessions -> BOOLEAN]
    /\ receipt \in [Sessions -> {"none", "valid", "corrupt"}]
    /\ search \in [Sessions -> SearchState]
    /\ proj \in [Sessions -> ProjState]
    /\ purge \in [Sessions -> Phase]
    /\ audio \in [Sessions -> BOOLEAN]
    /\ doc \in [Sessions -> BOOLEAN]
    /\ task \in [Sessions -> Q!Row]
    /\ proc \in Stage
    /\ todo \subseteq Sessions
    /\ blocked \subseteq Sessions
    /\ key \in BOOLEAN
    /\ w \in Worker
    /\ g \in Gate
    /\ attempts \in [Sessions -> 0..AttemptCap]
    /\ crashes \in 0..MaxCrashes
    /\ faults \in 0..MaxFaults

(* enforce_privacy_after_task destroys the recording only after the provider *)
(* receipt is durable: whichever step is interrupted, retried or raced, a    *)
(* session that is not being deleted has its audio or its transcript.        *)
NothingLost ==
    \A s \in Sessions :
        audio[s] \/ receipt[s] # "none" \/ Tombstoned(s) \/ async[s] = "erased"

(* A run is reported completed only when the provider receipt is there, and  *)
(* then no row is left that a worker could still run, although the two       *)
(* databases commit separately.                                              *)
CompletedIsBacked ==
    \A s \in Sessions :
        async[s] = "completed" =>
            /\ receipt[s] # "none"
            /\ task[s].status \in {"completed", "absent"}

(* reserve -> tasks.db insert -> mark: once start-up has reconciled the two    *)
(* databases, a run marked Enqueued has its row until Delete Forever takes it. *)
(* Only a corrupt receipt, which the worker quarantines, may lack one, or a    *)
(* start-up that met a second local error after tasks.db was lost.             *)
EnqueuedHasRow ==
    \A s \in Sessions :
        proc = "running" /\ async[s] = "enqueued" =>
            Q!Present(s) \/ Tombstoned(s) \/ receipt[s] = "corrupt" \/ faults > 1

(* The audio is uploaded once, plus at most once more for every crash or      *)
(* local error that interrupted the worker: no interleaving of re-requests,   *)
(* lease expiries and credential changes adds an upload.                      *)
UploadsAccounted ==
    \A s \in Sessions : attempts[s] <= 1 + crashes + faults

Projecting(p, s) == p.s = s /\ p.pc \in {"loro", "settle", "unsettle"}

(* The projection state is a lock between the worker and a retry: never two   *)
(* writers of one Notebook document, and never a claim that nobody holds      *)
(* unless its outcome could not be written.                                   *)
OneProjector ==
    \A s \in Sessions :
        /\ ~(Projecting(w, s) /\ Projecting(g, s))
        /\ proc # "down" /\ ~Tombstoned(s) /\ async[s] # "erased" =>
             /\ Projecting(w, s) \/ Projecting(g, s) => proj[s] = "projecting"
             /\ proj[s] = "projecting" =>
                  Projecting(w, s) \/ Projecting(g, s) \/ faults > 0

(* Delete Forever: what a recorded phase removed stays removed, whatever the  *)
(* worker had claimed, was writing or recovers after a restart, and when the  *)
(* tombstone is gone nothing of the session is left and nobody works on it.   *)
Erased(s) == async[s] = "erased" /\ ~Tombstoned(s)

ErasureHolds ==
    \A s \in Sessions :
        /\ Reached(s, "loro_removed") \/ Erased(s) => ~doc[s]
        /\ Reached(s, "tasks_removed") \/ Erased(s) => ~Q!Present(s)
        /\ Reached(s, "external_artifacts_removed") \/ Erased(s) => ~audio[s]
        /\ Reached(s, "main_database_removed") \/ Erased(s) =>
             async[s] = "erased" /\ receipt[s] = "none" /\ proj[s] = "none"
        /\ Reached(s, "tasks_removed") \/ Erased(s) => ~Registered(s)

(* The provider is called only for a run that is still waiting for its        *)
(* result, under a row this worker holds.  Re-requests, recovery and Delete   *)
(* Forever all move the run between the worker's check and its upload; only a *)
(* local error can leave the worker with a run that moved.                    *)
UploadIsWanted ==
    [][\A s \in Sessions : attempts'[s] # attempts[s] /\ faults = 0 =>
          /\ async[s] = "enqueued" /\ receipt[s] = "none"
          /\ Q!Is(s, "running") /\ ~Tombstoned(s)]_vars

(* What the owner is told of each state of the run. *)
Told == [none |-> "idle", pending |-> "wanted", reserved |-> "wanted", enqueued |-> "wanted",
         completed |-> "done", failed |-> "failed", erased |-> "gone"]

Promise == INSTANCE TranscriptionPromise WITH
    outcome  <- [s \in Sessions |-> Told[async[s]]],
    result   <- [s \in Sessions |-> receipt[s] # "none"],
    kept     <- audio,
    deleting <- [s \in Sessions |-> Tombstoned(s)]

(* The databases, the worker, recovery and Delete Forever together keep the   *)
(* promise: outcomes are final, results are never replaced or dropped.        *)
KeepsPromise == Promise!Spec

(* enqueue_once_with_stable_id: "explicit user authorization permits exactly  *)
(* one provider attempt", and "a claimed provider failure becomes terminal    *)
(* instead of silently uploading the same audio again".                       *)
AtMostOneUpload == \A s \in Sessions : attempts[s] <= 1

(* reconcile_capture_async_task_receipt_on_startup: once the provider receipt *)
(* exists nothing may "rewrite the capture run as failed".                    *)
ResultNotFailed ==
    \A s \in Sessions : ~(async[s] = "failed" /\ receipt[s] = "valid")

(* The same, as long as every local read and write works.                     *)
ResultNotFailedUnlessFault == faults = 0 => ResultNotFailed

(* What the run says of itself agrees with the receipt and with the row of    *)
(* tasks.db, although the three are committed separately.                     *)
RunAgrees == CompletedIsBacked /\ EnqueuedHasRow /\ ResultNotFailedUnlessFault

Waiting(s) == async[s] \in {"pending", "reserved", "enqueued"}

(* A local error kept the row from being inserted, or the run from being     *)
(* closed after its row failed: it waits for the user or for the next start.  *)
Stalled(s) ==
    faults > 0 /\ g.pc = "free" /\ ~Registered(s) /\ task[s].status \in {"absent", "failed"}

(* Every request ends: the run completes or fails, or its session is being    *)
(* deleted, or a local error left it for the user to ask again, or the        *)
(* provider's key is missing.                                                 *)
RequestsEnd ==
    \A s \in Sessions :
        Waiting(s) ~> ~Waiting(s) \/ Tombstoned(s) \/ Stalled(s) \/ ~key
=============================================================================
