--------------------------- MODULE RemoteArtifacts ---------------------------
(***************************************************************************)
(* The audio a transcription leaves at the provider.  soniox_async uploads *)
(* a file, creates a transcription from it, and deletes both before it     *)
(* returns; a row of provider_remote_artifacts, opened before the provider *)
(* is contacted, is the record that something may still be there.  After a *)
(* crash the worker sweeps the open rows before it polls for work.         *)
(*                                                                         *)
(* Every attempt of a task creates at most one file and one transcription, *)
(* so remote objects are named by the attempt that made them.              *)
(***************************************************************************)
EXTENDS Naturals

CONSTANTS
    Tasks,
    MaxAttempts,  \* bound on the attempts of one task
    MaxCrashes,   \* bound on process deaths
    Failures      \* which of the failures below can happen

ASSUME ArtifactAssumption ==
    /\ MaxAttempts \in Nat \ {0}
    /\ MaxCrashes \in Nat
    /\ Failures \subseteq {"response", "sweep", "journal", "rerun"}

VARIABLES
    files, transcriptions,  \* provider: the objects that exist, per task
    claim,      \* main DB: the provider_remote_artifacts rows
    queued,     \* tasks.db: the task may be dispatched (again)
    made,       \* history: attempts made, per task
    c,          \* memory: the worker's one attempt, or its sweep
    inherited,  \* memory: claims found open when the process started
    crashes,
    mishaps,    \* history: the failures, other than the journal's, so far
    blurred     \* history: the tasks whose row cannot speak for all they left

vars == <<files, transcriptions, claim, queued, made, c, inherited, crashes, mishaps, blurred>>

Attempts == 1..MaxAttempts

(* 0 is a column that is still NULL. *)
Claim == [open : BOOLEAN, file : 0..MaxAttempts, transcription : 0..MaxAttempts]

NoClaim == [open |-> FALSE, file |-> 0, transcription |-> 0]

ClientPc == {"start", "sweep", "idle", "open", "upload", "file", "create", "transcription",
             "poll", "delete_transcription", "delete_file", "close", "return"}

(* n is the attempt; file and transcription, the ids RemoteArtifacts holds;  *)
(* tokens, that the flow succeeded; clean, that no deletion has failed.      *)
Client == [pc : ClientPc, t : SUBSET Tasks, n : 0..MaxAttempts, inventory : BOOLEAN,
           file : BOOLEAN, transcription : BOOLEAN, tokens : BOOLEAN, clean : BOOLEAN]

AtRest(pc) == [pc |-> pc, t |-> {}, n |-> 0, inventory |-> FALSE, file |-> FALSE,
               transcription |-> FALSE, tokens |-> FALSE, clean |-> TRUE]

Init ==
    /\ files = [t \in Tasks |-> {}]
    /\ transcriptions = [t \in Tasks |-> {}]
    /\ claim = [t \in Tasks |-> NoClaim]
    /\ queued = [t \in Tasks |-> TRUE]
    /\ made = [t \in Tasks |-> 0]
    /\ c = AtRest("start")
    /\ inherited = {}
    /\ crashes = 0 /\ mishaps = {} /\ blurred = {}

Goto(pc) == c' = [c EXCEPT !.pc = pc]

MayFail(what) == what \in Failures

(* Every failure but the journal's happens at most once in a behaviour. *)
Mishap(what) == what \in Failures \ mishaps /\ mishaps' = mishaps \cup {what}

Current(t) == c.t = {t}

-----------------------------------------------------------------------------
(* sweep_orphaned_remote_artifacts.                                        *)

OpenClaims == {t \in Tasks : claim[t].open}

MissesId(t) == claim[t].file = 0 \/ claim[t].transcription = 0

(* The inventory is asked for once, if any claim lacks an id. *)
BeginSweep ==
    /\ c.pc = "start"
    /\ \E inventory \in BOOLEAN :
         /\ c' = [AtRest("sweep") EXCEPT !.t = OpenClaims, !.inventory = inventory]
         /\ IF inventory = \E t \in OpenClaims : MissesId(t)
            THEN UNCHANGED mishaps
            ELSE ~inventory /\ Mishap("sweep")
    /\ UNCHANGED <<files, transcriptions, claim, queued, made, inherited, crashes, blurred>>

(* The ids the claim names, and what the inventory lists under its tag. *)
KnownFiles(t) ==
    {n \in files[t] : n = claim[t].file \/ c.inventory}

KnownTranscriptions(t) ==
    {n \in transcriptions[t] : n = claim[t].transcription \/ c.inventory}

(* A mutant: what has no recorded id is taken to be absent. *)
SweepClaim_NoInventory(t) ==
    /\ c.pc = "sweep" /\ t \in c.t
    /\ c' = [c EXCEPT !.t = @ \ {t}]
    /\ files' = [files EXCEPT ![t] = @ \ {claim[t].file}]
    /\ transcriptions' = [transcriptions EXCEPT ![t] = @ \ {claim[t].transcription}]
    /\ claim' = [claim EXCEPT ![t] = NoClaim]
    /\ inherited' = inherited \ {t}
    /\ UNCHANGED <<queued, made, crashes, mishaps, blurred>>

(* A claim is closed only when everything known of it is deleted. *)
SweepClaim(t) ==
    /\ c.pc = "sweep" /\ t \in c.t
    /\ c' = [c EXCEPT !.t = @ \ {t}]
    /\ \/ /\ c.inventory \/ ~MissesId(t)
          /\ files' = [files EXCEPT ![t] = @ \ KnownFiles(t)]
          /\ transcriptions' = [transcriptions EXCEPT ![t] = @ \ KnownTranscriptions(t)]
          /\ claim' = [claim EXCEPT ![t] = NoClaim]
          /\ inherited' = inherited \ {t}
          /\ UNCHANGED mishaps
       \/ /\ Mishap("sweep") /\ (c.inventory \/ ~MissesId(t))
          /\ \E F \in SUBSET KnownFiles(t), T \in SUBSET KnownTranscriptions(t) :
               /\ files' = [files EXCEPT ![t] = @ \ F]
               /\ transcriptions' = [transcriptions EXCEPT ![t] = @ \ T]
          /\ UNCHANGED <<claim, inherited>>
       \/ /\ ~c.inventory /\ MissesId(t)
          /\ UNCHANGED <<files, transcriptions, claim, inherited, mishaps>>
    /\ UNCHANGED <<queued, made, crashes, blurred>>

(* A mutant: the worker does not wait for the sweep to finish. *)
EndSweep_Detached ==
    /\ c.pc = "sweep"
    /\ c' = AtRest("idle")
    /\ UNCHANGED <<files, transcriptions, claim, queued, made, inherited, crashes, mishaps, blurred>>

(* The worker starts polling whatever the sweep has left. *)
EndSweep ==
    /\ c.pc = "sweep" /\ c.t = {}
    /\ c' = AtRest("idle")
    /\ UNCHANGED <<files, transcriptions, claim, queued, made, inherited, crashes, mishaps, blurred>>

-----------------------------------------------------------------------------
(* One attempt: open_remote_artifact_journal, then transcribe_wav.         *)

Dispatch(t) ==
    /\ c.pc = "idle" /\ queued[t] /\ made[t] < MaxAttempts
    /\ made' = [made EXCEPT ![t] = @ + 1]
    /\ c' = [AtRest("open") EXCEPT !.t = {t}, !.n = made[t] + 1]
    /\ UNCHANGED <<files, transcriptions, claim, queued, inherited, crashes, mishaps, blurred>>

(* A claim that is open already is left as it is, so the row of an earlier    *)
(* attempt that did not clean up now stands for two: blurred records it.      *)
(* Without a claim nothing is sent.                                           *)
OpenClaim(t) ==
    /\ c.pc = "open" /\ Current(t)
    /\ \/ /\ claim[t].open /\ UNCHANGED claim
          /\ blurred' = blurred \cup {t}
          /\ Goto("upload")
       \/ /\ ~claim[t].open /\ claim' = [claim EXCEPT ![t] = [NoClaim EXCEPT !.open = TRUE]]
          /\ UNCHANGED blurred
          /\ Goto("upload")
       \/ MayFail("journal") /\ UNCHANGED <<claim, blurred>> /\ Goto("return")
    /\ UNCHANGED <<files, transcriptions, queued, made, inherited, crashes, mishaps>>

UploadFile(t) ==
    /\ c.pc = "upload" /\ Current(t)
    /\ files' = [files EXCEPT ![t] = @ \cup {c.n}]
    /\ c' = [c EXCEPT !.pc = "file", !.file = TRUE]
    /\ UNCHANGED <<transcriptions, claim, queued, made, inherited, crashes, mishaps, blurred>>

(* A journal write that fails is only logged. *)
RecordFile(t) ==
    /\ c.pc = "file" /\ Current(t)
    /\ \/ claim' = [claim EXCEPT ![t].file = c.n]
       \/ MayFail("journal") /\ UNCHANGED claim
    /\ Goto("create")
    /\ UNCHANGED <<files, transcriptions, queued, made, inherited, crashes, mishaps, blurred>>

CreateTranscription(t) ==
    /\ c.pc = "create" /\ Current(t)
    /\ transcriptions' = [transcriptions EXCEPT ![t] = @ \cup {c.n}]
    /\ c' = [c EXCEPT !.pc = "transcription", !.transcription = TRUE]
    /\ UNCHANGED <<files, claim, queued, made, inherited, crashes, mishaps, blurred>>

RecordTranscription(t) ==
    /\ c.pc = "transcription" /\ Current(t)
    /\ \/ claim' = [claim EXCEPT ![t].transcription = c.n]
       \/ MayFail("journal") /\ UNCHANGED claim
    /\ Goto("poll")
    /\ UNCHANGED <<files, transcriptions, queued, made, inherited, crashes, mishaps, blurred>>

(* wait_until_completed and fetch_transcript_tokens. *)
FetchTokens ==
    /\ c.pc = "poll"
    /\ c' = [c EXCEPT !.pc = "delete_transcription", !.tokens = TRUE]
    /\ UNCHANGED <<files, transcriptions, claim, queued, made, inherited, crashes, mishaps, blurred>>

(* An error, the deadline or a cancellation drops the flow.  A request that  *)
(* was under way may have reached the provider all the same: the attempt is  *)
(* not told of the object, and blurred records that its row cannot tell.     *)
DropFlow(t) ==
    /\ c.pc \in {"upload", "create", "poll"} /\ Current(t)
    /\ Goto("delete_transcription")
    /\ \/ UNCHANGED <<files, transcriptions, mishaps, blurred>>
       \/ /\ Mishap("response") /\ blurred' = blurred \cup {t}
          /\ \/ /\ c.pc = "upload"
                /\ files' = [files EXCEPT ![t] = @ \cup {c.n}]
                /\ UNCHANGED transcriptions
             \/ /\ c.pc = "create"
                /\ transcriptions' = [transcriptions EXCEPT ![t] = @ \cup {c.n}]
                /\ UNCHANGED files
    /\ UNCHANGED <<claim, queued, made, inherited, crashes>>

(* cleanup_remote deletes the ids it was told of.  A deletion that is given   *)
(* up may have happened.                                                      *)
DeleteTranscription(t) ==
    /\ c.pc = "delete_transcription" /\ Current(t)
    /\ LET gone == [transcriptions EXCEPT ![t] = @ \ {c.n}] IN
       \/ ~c.transcription /\ UNCHANGED transcriptions /\ Goto("delete_file")
       \/ c.transcription /\ transcriptions' = gone /\ Goto("delete_file")
       \/ /\ c.transcription /\ transcriptions' \in {transcriptions, gone}
          /\ c' = [c EXCEPT !.pc = "delete_file", !.clean = FALSE]
    /\ UNCHANGED <<files, claim, queued, made, inherited, crashes, mishaps, blurred>>

DeleteFile(t) ==
    /\ c.pc = "delete_file" /\ Current(t)
    /\ LET gone == [files EXCEPT ![t] = @ \ {c.n}] IN
       \/ ~c.file /\ UNCHANGED files /\ Goto("close")
       \/ c.file /\ files' = gone /\ Goto("close")
       \/ /\ c.file /\ files' \in {files, gone}
          /\ c' = [c EXCEPT !.pc = "close", !.clean = FALSE]
    /\ UNCHANGED <<transcriptions, claim, queued, made, inherited, crashes, mishaps, blurred>>

(* remote_artifacts_cleaned, after a cleanup without an error. *)
CloseClaim(t) ==
    /\ c.pc = "close" /\ Current(t)
    /\ \/ c.clean /\ claim' = [claim EXCEPT ![t] = NoClaim] /\ inherited' = inherited \ {t}
       \/ (~c.clean \/ MayFail("journal")) /\ UNCHANGED <<claim, inherited>>
    /\ Goto("return")
    /\ UNCHANGED <<files, transcriptions, queued, made, crashes, mishaps, blurred>>

(* A mutant: a deletion that failed does not spoil the success. *)
Succeeded_TokensSuffice == c.tokens

(* Tokens are a success only after a clean cleanup; either way the task is   *)
(* settled, unless a local error keeps its row for another attempt.          *)
Succeeded == c.tokens /\ c.clean

Return(t) ==
    /\ c.pc = "return" /\ Current(t)
    /\ \/ queued' = [queued EXCEPT ![t] = FALSE] /\ UNCHANGED mishaps
       \/ ~Succeeded /\ Mishap("rerun") /\ UNCHANGED queued
    /\ c' = AtRest("idle")
    /\ UNCHANGED <<files, transcriptions, claim, made, inherited, crashes, blurred>>

(* The process dies; a request under way may still reach the provider. *)
Crash ==
    /\ crashes < MaxCrashes
    /\ crashes' = crashes + 1
    /\ c' = AtRest("start")
    /\ inherited' = OpenClaims
    /\ \/ UNCHANGED <<files, transcriptions>>
       \/ \E t \in Tasks :
            /\ Current(t)
            /\ \/ /\ c.pc = "upload"
                  /\ files' = [files EXCEPT ![t] = @ \cup {c.n}]
                  /\ UNCHANGED transcriptions
               \/ /\ c.pc = "create"
                  /\ transcriptions' = [transcriptions EXCEPT ![t] = @ \cup {c.n}]
                  /\ UNCHANGED files
    /\ UNCHANGED <<claim, queued, made, mishaps, blurred>>

AttemptStep ==
    \E t \in Tasks :
        \/ SweepClaim(t) \/ Dispatch(t) \/ OpenClaim(t)
        \/ UploadFile(t) \/ RecordFile(t) \/ CreateTranscription(t) \/ RecordTranscription(t)
        \/ DropFlow(t) \/ DeleteTranscription(t) \/ DeleteFile(t) \/ CloseClaim(t) \/ Return(t)

Next == BeginSweep \/ EndSweep \/ FetchTokens \/ AttemptStep \/ Crash

Spec == Init /\ [][Next]_vars

-----------------------------------------------------------------------------
(* Claims, remote objects and the attempt are well formed: the ids that     *)
(* record_provider_remote_artifact writes always land in a whole row.       *)
TypeOK ==
    /\ files \in [Tasks -> SUBSET Attempts]
    /\ transcriptions \in [Tasks -> SUBSET Attempts]
    /\ claim \in [Tasks -> Claim]
    /\ queued \in [Tasks -> BOOLEAN]
    /\ made \in [Tasks -> 0..MaxAttempts]
    /\ c \in Client
    /\ inherited \subseteq Tasks
    /\ crashes \in 0..MaxCrashes /\ mishaps \subseteq Failures /\ blurred \subseteq Tasks

(* open_provider_remote_artifact_claim: "a row exists = the provider may hold *)
(* an artifact; it is removed only after the remote deletion is confirmed".   *)
(* So whatever exists at the provider has an open row on this machine.        *)
JournalCoversRemote ==
    \A t \in Tasks :
        files[t] # {} \/ transcriptions[t] # {} => claim[t].open

(* What the row does cover: a task whose every attempt opened a row of its    *)
(* own and was answered.  A row that is not closed is kept by the next        *)
(* attempt (ON CONFLICT DO NOTHING), which then closes it on the deletion of  *)
(* its own objects alone; and an attempt closes its row over an object whose  *)
(* response it never got.  Crashes, failed journal writes, failed deletions   *)
(* and failed sweeps are not excused.                                         *)
JournalCoversUnlessBlurred ==
    \A t \in Tasks \ blurred :
        files[t] # {} \/ transcriptions[t] # {} => claim[t].open

(* sweep_orphaned_remote_artifacts: "the worker must converge them first, and *)
(* only then may it dispatch a new provider task": no attempt runs beside a   *)
(* claim that an earlier process left, as long as the sweep's requests work.  *)
OrphansFirst ==
    /\ TypeOK
    /\ "sweep" \notin mishaps /\ c.pc \notin {"start", "sweep", "idle"} => inherited = {}

(* The journal tells what may be at the provider, and nobody works before it  *)
(* was followed.                                                              *)
JournalIsHonoured == JournalCoversUnlessBlurred /\ OrphansFirst

(* transcribe_wav reports success only when its own file and transcription    *)
(* are gone: "convergence of retention is a precondition of success", under   *)
(* every failure of the network, the journal, the sweep and the process.      *)
SuccessLeavesNothing ==
    \A t \in Tasks :
        c.pc = "return" /\ Current(t) /\ Succeeded =>
            c.n \notin files[t] /\ c.n \notin transcriptions[t]
=============================================================================
