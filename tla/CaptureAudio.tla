---------------------------- MODULE CaptureAudio ----------------------------
(***************************************************************************)
(* One recording from Start to its audio index: vt-pipeline's encrypted    *)
(* journal with its flushing thread and its live chunk writer, vt-ffi's    *)
(* Start, push, pause, Stop, interrupt and the recovery of ownerless runs, *)
(* and the capture run's row.  Handlers run one at a time (the ownership   *)
(* gate, or the active mutex a failed push keeps), the three writer        *)
(* threads run beside them, any write may fail, and the process or the     *)
(* power may go at any step.  A frame is a number; a chunk holds Minute of *)
(* them.  SQLite commits survive a power loss, a written file survives the *)
(* process, and a file survives the power once something flushed it.       *)
(***************************************************************************)
EXTENDS Naturals, Sequences, FiniteSets, FiniteSetsExt

CONSTANTS
    Minute,        \* frames in one full chunk
    BlockSizes,    \* frames one push may carry
    FlushEvery,    \* journal records between two flush requests
    MaxFrames,     \* bound: frames recorded
    MaxFaults,     \* bound: failing writes
    MaxCrashes,    \* bound: deaths of the process
    MaxPowerLoss   \* bound: power losses

ASSUME CaptureAssumption ==
    /\ Minute \in Nat \ {0}
    /\ BlockSizes \subseteq 1 .. Minute
    /\ FlushEvery \in Nat \ {0}
    /\ {MaxFrames, MaxFaults, MaxCrashes, MaxPowerLoss} \subseteq Nat

VARIABLES
    run,        \* the notebook_capture_runs row
    index,      \* audio_retention_chunks: what each chunk's row says it holds
    entry,      \* the session_records row
    journal,    \* the capture journal on disk
    file,       \* the encrypted chunk files
    active,     \* the process's ActiveNotebookCapture with its journal state
    live,       \* the live chunk writer: minutes handed over and written
    seen,       \* the frame count shared with AudioProgressWriter
    detached,   \* the run is in detached_notebook_capture_runs
    job,        \* the handler that is running and where it is
    up,         \* the process runs
    accepted,   \* history: frames pushed with success that no power loss took
    overtaken,  \* history: a power loss left a journal shorter than the index
    stranded,   \* history: a failed start could not even roll back
    budget      \* bound: faults, crashes and power losses so far

vars == <<run, index, entry, journal, file, active, live, seen, detached,
          job, up, accepted, overtaken, stranded, budget>>

Chunks == 0 .. MaxFrames \div Minute

ChunkCount(frames) ==
    IF frames = 0 THEN 1 ELSE (frames + Minute - 1) \div Minute

Held(from, upto) == [on |-> TRUE, from |-> from, upto |-> upto]

Nothing == [on |-> FALSE, from |-> 0, upto |-> 0]

(* What chunk i of a recording of that many frames holds. *)
Span(i, frames) == Held(i * Minute, Min({frames, (i + 1) * Minute}))

Contents(i) == [on |-> file[i].on, from |-> file[i].from, upto |-> file[i].upto]

AsFile(span, sealed) ==
    [on |-> span.on, from |-> span.from, upto |-> span.upto, sealed |-> sealed]

(* Installing a chunk is a rename: what was durable under that name stays   *)
(* durable when the contents are the same.                                  *)
Installed(i, span) ==
    [file EXCEPT ![i] = AsFile(span, file[i].sealed /\ Contents(i) = span)]

Unfinished == {"recording", "paused", "draining"}

NoOwner == [on |-> FALSE, state |-> "recording", frames |-> 0, minute |-> 0,
            start |-> 0, next |-> 0, usable |-> TRUE, unsynced |-> 0,
            wake |-> FALSE, syncFailed |-> FALSE]

NoLive == [queue |-> <<>>, written |-> <<>>, failed |-> FALSE]

Idle == [kind |-> "none", at |-> "none", n |-> 0, frames |-> 0, count |-> 0,
         from |-> "journal", finalized |-> TRUE]

Job(kind, at) == [Idle EXCEPT !.kind = kind, !.at = at]

Init ==
    /\ run = [state |-> "none", counted |-> 0, path |-> FALSE]
    /\ index = [i \in Chunks |-> Nothing]
    /\ entry = [status |-> "absent", frames |-> 0]
    /\ journal = [on |-> FALSE, frames |-> 0, torn |-> FALSE, flushed |-> 0,
                  made |-> FALSE]
    /\ file = [i \in Chunks |-> AsFile(Nothing, FALSE)]
    /\ active = NoOwner
    /\ live = NoLive
    /\ seen = 0
    /\ detached = FALSE
    /\ job = Idle
    /\ up = TRUE
    /\ accepted = 0
    /\ overtaken = FALSE
    /\ stranded = FALSE
    /\ budget = [faults |-> 0, crashes |-> 0, losses |-> 0]

At(step) == up /\ job.at = step

Owning == {"stop", "interrupt", "teardown"}
Recovering == {"recover", "launch"}

Faults(k) ==
    /\ budget.faults + k <= MaxFaults
    /\ budget' = [budget EXCEPT !.faults = @ + k]

GoTo(step) == job' = [job EXCEPT !.at = step]

rows == <<run, index, entry>>
disk == <<journal, file>>
memory == <<active, live, seen, detached>>
history == <<accepted, overtaken, stranded>>

(***************************************************************************)
(* Start: the row, then the key, then the journal, then the owner.         *)
(***************************************************************************)
StartRow ==
    /\ At("none")
    /\ run.state = "none"
    /\ run' = [run EXCEPT !.state = "recording"]
    /\ entry' = [entry EXCEPT !.status = "recording"]
    /\ job' = Job("start", "key")
    /\ UNCHANGED <<index, disk, memory, up, history, budget>>

StoreKey ==
    /\ At("key")
    /\ \/ GoTo("journal") /\ UNCHANGED budget
       \/ GoTo("rollback") /\ Faults(1)
    /\ UNCHANGED <<rows, disk, memory, up, history>>

OpenJournal ==
    /\ At("journal")
    /\ \/ /\ journal' = [journal EXCEPT !.on = TRUE, !.made = TRUE]
          /\ active' = [NoOwner EXCEPT !.on = TRUE]
          /\ live' = NoLive
          /\ job' = Idle
          /\ UNCHANGED budget
       \/ /\ GoTo("rollback")
          /\ Faults(1)
          /\ UNCHANGED <<journal, active, live>>
    /\ UNCHANGED <<rows, file, seen, detached, up, history>>

(* transition_capture(Failed), its error ignored, then the purge saga,      *)
(* which RemoteArtifacts models and which ends here in one step.            *)
Rollback ==
    /\ At("rollback")
    /\ job' = Idle
    /\ \E failed, purged \in BOOLEAN :
        /\ Faults((IF failed THEN 0 ELSE 1) + (IF purged THEN 0 ELSE 1))
        /\ run' = [run EXCEPT !.state = IF purged THEN "purged"
                                        ELSE IF failed THEN "failed" ELSE @]
        /\ entry' = IF purged THEN [entry EXCEPT !.status = "absent"] ELSE entry
        /\ stranded' = (~failed /\ ~purged)
    /\ UNCHANGED <<index, disk, memory, up, accepted, overtaken>>

(***************************************************************************)
(* The audio path.  A push appends one record, counts it and hands a full  *)
(* minute to the live writer, all under the active mutex.                  *)
(***************************************************************************)
(* What a reader can still get out of the journal after one more record:    *)
(* nothing that follows a torn record.                                      *)
Appended(n) == IF journal.torn THEN journal
               ELSE [journal EXCEPT !.frames = @ + n]

Counted(n) ==
    LET flush == active.unsynced + 1 >= FlushEvery IN
    [active EXCEPT !.frames = @ + n,
                   !.unsynced = IF flush THEN 0 ELSE @ + 1,
                   !.wake = @ \/ flush]

(* buffer_live_minute, for a block no longer than a minute. *)
Buffered(owner, n) ==
    LET full == owner.minute + n >= Minute IN
    CASE ~owner.usable -> owner
      [] owner.usable /\ ~full -> [owner EXCEPT !.minute = @ + n]
      [] owner.usable /\ full /\ live.failed ->
            [owner EXCEPT !.usable = FALSE, !.minute = 0]
      [] OTHER -> [owner EXCEPT !.minute = @ + n - Minute, !.next = @ + 1,
                                !.start = @ + Minute]

Push(n) ==
    LET owner == Buffered(Counted(n), n) IN
    /\ up /\ active.on /\ active.state = "recording"
    /\ ~active.syncFailed
    /\ active.frames + n <= MaxFrames
    /\ journal' = Appended(n)
    /\ active' = owner
    /\ live' = IF owner.next = active.next THEN live
               ELSE [live EXCEPT !.queue = Append(@, active.next)]
    /\ seen' = active.frames + n
    /\ accepted' = accepted + n
    /\ UNCHANGED <<rows, file, detached, job, up, overtaken, stranded, budget>>

(* The record may be partly written, or a failed flush refuses the push;    *)
(* either way the owner is taken and torn down.                             *)
PushFails ==
    /\ up /\ active.on /\ active.state = "recording"
    /\ \/ /\ active.syncFailed
          /\ UNCHANGED <<journal, budget>>
       \/ /\ ~active.syncFailed
          /\ Faults(1)
          /\ \E torn \in BOOLEAN : journal' = [journal EXCEPT !.torn = @ \/ torn]
    /\ active' = [active EXCEPT !.on = FALSE]
    /\ job' = Job("interrupt", "mark")
    /\ UNCHANGED <<rows, file, live, seen, detached, up, history>>

(* pause_notebook_capture_session: the row's state is compared and set      *)
(* first, the owner's follows.                                              *)
Pause(paused) ==
    LET from == IF paused THEN "recording" ELSE "paused"
        to   == IF paused THEN "paused" ELSE "recording"
    IN
    /\ up /\ active.on /\ active.state = from /\ run.state = from
    /\ run' = [run EXCEPT !.state = to]
    /\ active' = [active EXCEPT !.state = to]
    /\ UNCHANGED <<index, entry, disk, live, seen, detached, job, up, history, budget>>

(***************************************************************************)
(* The three writer threads of a recording.                                *)
(***************************************************************************)
(* JournalSyncer: one request covers every record written before it runs.   *)
Flush ==
    /\ up /\ active.wake /\ ~active.syncFailed
    /\ \/ /\ journal' = [journal EXCEPT !.flushed = journal.frames]
          /\ active' = [active EXCEPT !.wake = FALSE]
          /\ UNCHANGED budget
       \/ /\ active' = [active EXCEPT !.wake = FALSE, !.syncFailed = TRUE]
          /\ Faults(1)
          /\ UNCHANGED journal
    /\ UNCHANGED <<rows, file, live, seen, detached, job, up, history>>

(* LiveChunkWriter: chunks are written in the order they were handed over;  *)
(* the first failure ends the thread.                                       *)
WriteLive ==
    /\ up /\ live.queue # <<>>
    /\ LET i == Head(live.queue) IN
       \/ /\ file' = Installed(i, Held(i * Minute, (i + 1) * Minute))
          /\ live' = [live EXCEPT !.queue = Tail(@), !.written = Append(@, i)]
          /\ UNCHANGED budget
       \/ /\ live' = [live EXCEPT !.queue = <<>>, !.failed = TRUE]
          /\ Faults(1)
          /\ UNCHANGED file
    /\ UNCHANGED <<rows, journal, active, seen, detached, job, up, history>>

(* AudioProgressWriter: the row follows the shared count, once a second.    *)
Progress ==
    /\ up /\ seen > run.counted
    /\ run.state \in Unfinished
    /\ run' = [run EXCEPT !.counted = seen]
    /\ UNCHANGED <<index, entry, disk, memory, job, up, history, budget>>

(***************************************************************************)
(* Stop and interrupt take the owner; a failing step ends them in a way of *)
(* their own.                                                              *)
(***************************************************************************)
StopBegins ==
    /\ At("none") /\ active.on
    /\ run.state = active.state
    /\ run' = [run EXCEPT !.state = "draining"]
    /\ active' = [active EXCEPT !.on = FALSE, !.state = "draining"]
    /\ detached' = TRUE
    /\ job' = Job("stop", "close")
    /\ UNCHANGED <<index, entry, disk, live, seen, up, history, budget>>

InterruptBegins ==
    /\ At("none") /\ active.on
    /\ active' = [active EXCEPT !.on = FALSE]
    /\ job' = Job("interrupt", "mark")
    /\ UNCHANGED <<rows, disk, live, seen, detached, up, history, budget>>

(* interrupt_capture or interrupt_local_persistence; when the row cannot be *)
(* written, teardown_after_interrupt_persistence_failure takes over.        *)
MarkInterrupted ==
    /\ At("mark")
    /\ \/ /\ run.state = active.state
          /\ run' = [run EXCEPT !.state = "interrupted"]
          /\ GoTo("close")
          /\ UNCHANGED budget
       \/ /\ job' = [job EXCEPT !.kind = "teardown", !.at = "close"]
          /\ Faults(1)
          /\ UNCHANGED run
    /\ UNCHANGED <<index, entry, disk, memory, up, history>>

(* What the handler does about a failed step.  Stop records the             *)
(* interruption and recovers the registered run; an interrupt writes the    *)
(* remote health and registers the run when even that fails; a teardown     *)
(* whose audio did not finalize still frees the row; a recovery leaves the  *)
(* run registered, a launch leaves it to the next one.                      *)
StopGivesUp(k) ==
    /\ job.kind = "stop"
    /\ \/ /\ run' = [run EXCEPT !.state = "interrupted"]
          /\ job' = Job("recover", "row")
          /\ Faults(k)
       \/ /\ job' = Idle
          /\ Faults(k + 1)
          /\ UNCHANGED run
    /\ UNCHANGED detached

InterruptGivesUp(k) ==
    /\ job.kind = "interrupt"
    /\ job' = Idle
    /\ \/ Faults(k) /\ UNCHANGED detached
       \/ Faults(k + 1) /\ detached' = TRUE
    /\ UNCHANGED run

(* A mutant: a teardown whose audio does not finalize forgets the row. *)
OtherGivesUp_DropsRow(k) ==
    /\ job.kind \in {"teardown"} \cup Recovering
    /\ job' = Idle
    /\ Faults(k)
    /\ UNCHANGED <<run, detached>>

OtherGivesUp(k) ==
    /\ job.kind \in {"teardown"} \cup Recovering
    /\ job' = IF job.kind = "teardown" /\ run.state \in Unfinished
              THEN [job EXCEPT !.at = "register", !.finalized = FALSE]
              ELSE Idle
    /\ Faults(k)
    /\ UNCHANGED <<run, detached>>

GivesUp(k) ==
    /\ StopGivesUp(k) \/ InterruptGivesUp(k) \/ OtherGivesUp(k)
    /\ UNCHANGED <<index, entry, disk, active, live, seen, up, history>>

(* A write that fails; GivesUp(0) is a conflict the code itself reports.    *)
Fails == GivesUp(1)

Proceeds == UNCHANGED <<up, accepted, overtaken, stranded, budget>>

(***************************************************************************)
(* CaptureAudioJournal::stop: join the two threads, flush the journal, then *)
(* finish the live chunks or rebuild every chunk from the journal.         *)
(***************************************************************************)
(* A mutant: the chunks are taken without checking what they cover. *)
LiveUsable_Trusting == active.usable

(* finish_live_chunks' checks.                                              *)
LiveUsable ==
    /\ active.usable
    /\ ~live.failed
    /\ live.written = [k \in 1 .. active.next |-> k - 1]
    /\ \A i \in 0 .. active.next - 1 : file[i].on
    /\ active.next * Minute + active.minute = active.frames
    /\ active.start = active.next * Minute

CloseJournal ==
    /\ At("close")
    /\ live.queue = <<>>
    /\ \/ /\ journal' = [journal EXCEPT !.flushed = journal.frames]
          /\ active' = [active EXCEPT !.wake = FALSE]
          /\ job' = [job EXCEPT !.at = IF LiveUsable THEN "tail" ELSE "chunk",
                                !.from = IF LiveUsable THEN "live" ELSE "journal",
                                !.frames = active.frames]
          /\ UNCHANGED <<rows, file, live, seen, detached>>
          /\ Proceeds
       \/ Fails

(* The last partial minute, or the one empty chunk of an empty recording.   *)
WriteTail ==
    /\ At("tail")
    /\ LET extra == active.minute > 0 \/ active.next = 0
           count == active.next + (IF extra THEN 1 ELSE 0)
       IN
       /\ file' = IF extra
                  THEN Installed(active.next,
                                 Held(active.start, active.start + active.minute))
                  ELSE file
       /\ job' = [job EXCEPT !.at = "trim", !.count = count]
    /\ UNCHANGED <<rows, journal, memory>>
    /\ Proceeds

(* An error on the live path is only a reason to rebuild.                   *)
LiveUnusable ==
    /\ At("tail") \/ (At("seal") /\ job.from = "live")
    /\ job' = [job EXCEPT !.at = "chunk", !.n = 0, !.from = "journal"]
    /\ Faults(1)
    /\ UNCHANGED <<rows, disk, memory, up, history>>

(* recover_capture_audio_journal, one chunk at a time.                      *)
RebuildChunk ==
    /\ At("chunk")
    /\ LET frames == journal.frames
           last == job.n + 1 = ChunkCount(frames)
       IN
       \/ /\ file' = Installed(job.n, Span(job.n, frames))
          /\ job' = [job EXCEPT !.at = IF last THEN "trim" ELSE "chunk",
                                !.n = IF last THEN 0 ELSE @ + 1,
                                !.count = ChunkCount(frames),
                                !.frames = IF job.kind \in Recovering
                                           THEN frames ELSE @]
          /\ UNCHANGED <<rows, journal, memory>>
          /\ Proceeds
       \/ Fails

(* A mutant: the last chunk is taken for a leftover. *)
Trimmed_LastToo(count) ==
    [i \in Chunks |-> IF i + 1 >= count /\ \A j \in count .. i : file[j].on
                      THEN AsFile(Nothing, FALSE) ELSE file[i]]

(* remove_chunks_from stops at the first chunk it cannot remove.            *)
Trimmed(count) ==
    [i \in Chunks |-> IF i >= count /\ \A j \in count .. i : file[j].on
                      THEN AsFile(Nothing, FALSE) ELSE file[i]]

TrimChunks ==
    /\ At("trim")
    /\ file' = Trimmed(job.count)
    /\ GoTo("seal")
    /\ UNCHANGED <<rows, journal, memory>>
    /\ Proceeds

(* A mutant: nothing is flushed. *)
Sealed_Never == file

(* seal_chunks: one flush for every chunk and the renames that installed    *)
(* them.                                                                    *)
Sealed == [i \in Chunks |-> [file[i] EXCEPT !.sealed = file[i].on]]

SealChunks ==
    /\ At("seal")
    /\ \/ /\ file' = Sealed
          /\ GoTo(IF job.kind = "teardown" THEN "register" ELSE "finalize")
          /\ UNCHANGED <<rows, journal, memory>>
          /\ Proceeds
       \/ job.from = "journal" /\ Fails

(***************************************************************************)
(* Making the audio findable: the run's row, the chunk index, the session  *)
(* record, and only then the journal goes.                                 *)
(***************************************************************************)
(* A mutant: a row that already holds the count is refused. *)
MayFinalize_NewCount(frames) ==
    /\ run.state = (IF job.kind = "stop" THEN "draining" ELSE "interrupted")
    /\ run.counted < frames

(* finalize_audio and finalize_interrupted_audio never lower the count.     *)
MayFinalize(frames) ==
    /\ run.state = (IF job.kind = "stop" THEN "draining" ELSE "interrupted")
    /\ run.counted <= frames

Finalize ==
    /\ At("finalize")
    /\ \/ /\ MayFinalize(job.frames)
          /\ run' = [run EXCEPT !.counted = job.frames, !.path = TRUE]
          /\ job' = [job EXCEPT !.at = "index", !.n = 0]
          /\ UNCHANGED <<index, entry, disk, memory>>
          /\ Proceeds
       \/ ~MayFinalize(job.frames) /\ GivesUp(0)
       \/ Fails

(* A row says what was written; without a journal it is computed from the   *)
(* count again (indexed_capture_chunks).                                    *)
RowOf(i) == IF job.from = "index" THEN Span(i, job.frames) ELSE Contents(i)

(* Stop and interrupt index their chunks in one transaction, a recovery one *)
(* row at a time.                                                           *)
IndexChunks ==
    /\ At("index")
    /\ \/ /\ LET batch == IF job.kind \in Recovering THEN {job.n}
                          ELSE 0 .. job.count - 1
                 last == job.kind \in Owning \/ job.n + 1 = job.count
             IN
             /\ index' = [i \in Chunks |-> IF i \in batch THEN RowOf(i) ELSE index[i]]
             /\ job' = [job EXCEPT !.at = IF last THEN "entry" ELSE "index",
                                   !.n = @ + 1]
          /\ UNCHANGED <<run, entry, disk, memory>>
          /\ Proceeds
       \/ Fails

RecordSession ==
    /\ At("entry")
    /\ \/ /\ entry' = [status |-> IF job.kind = "stop" THEN "completed"
                                  ELSE "interrupted",
                       frames |-> job.frames]
          /\ GoTo(IF job.kind = "stop" THEN "complete" ELSE "unlink")
          /\ UNCHANGED <<run, index, disk, memory>>
          /\ Proceeds
       \/ Fails

Complete ==
    /\ At("complete")
    /\ \/ /\ run.state = "draining"
          /\ run' = [run EXCEPT !.state = "completed"]
          /\ GoTo("unlink")
          /\ UNCHANGED <<index, entry, disk, memory>>
          /\ Proceeds
       \/ Fails

(* Stop and interrupt only log a journal they cannot remove.  Stop and a    *)
(* recovery then leave the registry.                                        *)
UnlinkJournal ==
    /\ At("unlink")
    /\ \/ /\ \/ journal' = [journal EXCEPT !.on = FALSE] /\ UNCHANGED budget
             \/ job.kind \in Owning /\ Faults(1) /\ UNCHANGED journal
          /\ job' = Idle
          /\ detached' = (detached /\ job.kind \notin {"stop", "recover"})
          /\ UNCHANGED <<rows, file, active, live, seen, up, history>>
       \/ job.kind \in Recovering /\ Fails

(***************************************************************************)
(* A run without an owner: teardown and the recovery of a registered run   *)
(* free the row first, then its audio is recovered from the journal.       *)
(***************************************************************************)
Register ==
    /\ At("register")
    /\ detached' = TRUE
    /\ GoTo("row")
    /\ UNCHANGED <<rows, disk, active, live, seen>>
    /\ Proceeds

(* recover_registered_detached_notebook_capture, from the next Start or from *)
(* an interrupt that finds no owner.                                        *)
RetryDetached ==
    /\ At("none") /\ detached
    /\ job' = Job("recover", "row")
    /\ UNCHANGED <<rows, disk, memory>>
    /\ Proceeds

(* recover_detached_unfinished_run. *)
FreeRow ==
    /\ At("row")
    /\ \/ /\ run' = [run EXCEPT !.state = IF @ \in Unfinished THEN "interrupted" ELSE @]
          /\ LET audio == job.finalized /\ run'.state = "interrupted" IN
             /\ job' = IF ~audio THEN Idle
                       ELSE [job EXCEPT !.at = IF job.kind = "teardown"
                                               THEN "finalize" ELSE "load"]
             /\ detached' = (job.kind = "recover" /\ audio)
          /\ UNCHANGED budget
       \/ job' = Idle /\ Faults(1) /\ UNCHANGED <<run, detached>>
    /\ UNCHANGED <<index, entry, disk, active, live, seen, up, history>>

(* recover_interrupted_capture_audio_run: the journal when there is one,    *)
(* else the chunks the row counts, else there is nothing to recover.        *)
LoadAudio ==
    LET count == ChunkCount(run.counted) IN
    /\ At("load")
    /\ \/ /\ journal.on
          /\ job' = [job EXCEPT !.at = "chunk", !.n = 0]
          /\ UNCHANGED <<rows, disk, memory>>
          /\ Proceeds
       \/ /\ ~journal.on /\ run.path /\ \A i \in 0 .. count - 1 : file[i].on
          /\ job' = [job EXCEPT !.at = "index", !.from = "index", !.n = 0,
                                !.frames = run.counted, !.count = count]
          /\ UNCHANGED <<rows, disk, memory>>
          /\ Proceeds
       \/ /\ ~journal.on /\ ~(run.path /\ \A i \in 0 .. count - 1 : file[i].on)
          /\ GivesUp(0)
       \/ Fails

(***************************************************************************)
(* The process and the power.                                              *)
(***************************************************************************)
(* recover_unfinished_runs, then the audio of an interrupted run.           *)
Launch ==
    /\ ~up
    /\ up' = TRUE
    /\ run' = [run EXCEPT !.state = IF @ \in Unfinished THEN "interrupted" ELSE @]
    /\ job' = IF run'.state = "interrupted" THEN Job("launch", "load") ELSE Idle
    /\ UNCHANGED <<index, entry, disk, memory, history, budget>>

Dies ==
    /\ up' = FALSE
    /\ active' = NoOwner
    /\ live' = NoLive
    /\ seen' = 0
    /\ detached' = FALSE
    /\ job' = Idle
    /\ stranded' = FALSE
    /\ UNCHANGED rows

Crash ==
    /\ up
    /\ budget.crashes < MaxCrashes
    /\ budget' = [budget EXCEPT !.crashes = @ + 1]
    /\ \E torn \in {journal.torn, journal.torn \/ active.on} :
          journal' = [journal EXCEPT !.torn = torn]
    /\ Dies
    /\ UNCHANGED <<file, accepted, overtaken>>

(* Frames whose index rows and flushed files agree. *)
Indexed(frames) ==
    \A i \in 0 .. ChunkCount(frames) - 1 :
        /\ index[i] = Span(i, frames)
        /\ file[i] = AsFile(index[i], TRUE)

Covered == Max({0} \cup {frames \in 1 .. MaxFrames : Indexed(frames)})

(* A power loss keeps some prefix of the journal that holds what was        *)
(* flushed, may undo an unlink nothing made durable, and may take files     *)
(* nothing flushed.                                                         *)
PowerLoss ==
    /\ up
    /\ budget.losses < MaxPowerLoss
    /\ budget' = [budget EXCEPT !.losses = @ + 1]
    /\ \E kept \in journal.flushed .. journal.frames, torn \in {FALSE, journal.made},
          back \in {FALSE, journal.made},
          gone \in SUBSET {i \in Chunks : file[i].on /\ ~file[i].sealed} :
         /\ journal' = [journal EXCEPT !.on = @ \/ back, !.frames = kept,
                                       !.flushed = kept, !.torn = torn]
         /\ file' = [i \in Chunks |-> IF i \in gone THEN AsFile(Nothing, FALSE)
                                      ELSE file[i]]
         /\ overtaken' = (overtaken \/ (journal'.on /\ kept < Covered))
         /\ accepted' = Min({accepted, Max({Covered, IF journal'.on THEN kept ELSE 0})})
    /\ Dies

Start == StartRow \/ StoreKey \/ OpenJournal \/ Rollback

Thread == Flush \/ WriteLive \/ Progress

Handler ==
    \/ MarkInterrupted \/ CloseJournal \/ WriteTail \/ LiveUnusable
    \/ RebuildChunk \/ TrimChunks \/ SealChunks \/ Finalize \/ IndexChunks
    \/ RecordSession \/ Complete \/ UnlinkJournal
    \/ Register \/ FreeRow \/ LoadAudio

Next ==
    \/ Start
    \/ \E n \in BlockSizes : Push(n)
    \/ PushFails
    \/ \E paused \in BOOLEAN : Pause(paused)
    \/ Thread
    \/ StopBegins \/ InterruptBegins \/ RetryDetached
    \/ Handler
    \/ Launch \/ Crash \/ PowerLoss

Spec == Init /\ [][Next]_vars

-----------------------------------------------------------------------------
Interval == [on : BOOLEAN, from : 0 .. MaxFrames, upto : 0 .. MaxFrames]

(* Every variable stays in its range: chunk intervals and counts never pass *)
(* the frames that were recorded.                                           *)
TypeOK ==
    /\ run.state \in Unfinished \cup {"none", "interrupted", "completed",
                                      "failed", "purged"}
    /\ run.counted \in 0 .. MaxFrames
    /\ run.path \in BOOLEAN
    /\ index \in [Chunks -> Interval]
    /\ entry.status \in {"absent", "recording", "interrupted", "completed"}
    /\ entry.frames \in 0 .. MaxFrames
    /\ {journal.on, journal.torn, journal.made} \subseteq BOOLEAN
    /\ journal.flushed \in 0 .. journal.frames
    /\ journal.frames \in 0 .. MaxFrames
    /\ \A i \in Chunks : Contents(i) \in Interval /\ file[i].sealed \in BOOLEAN
    /\ active.state \in Unfinished
    /\ active.frames \in 0 .. MaxFrames
    /\ active.minute \in 0 .. Minute - 1
    /\ active.next \in Chunks
    /\ seen \in 0 .. MaxFrames
    /\ {detached, up, overtaken, stranded} \subseteq BOOLEAN
    /\ job.kind \in {"none", "start"} \cup Owning \cup Recovering
    /\ accepted \in 0 .. MaxFrames

(* Every frame the recorder accepted and no power loss took is in the        *)
(* journal or, once the journal is gone, in flushed chunks the index names   *)
(* exactly.  (recording.rs LiveChunkWriter: "can only fail to save time,     *)
(* never lose audio".)                                                       *)
AudioKept ==
    \/ accepted = 0
    \/ journal.on /\ journal.frames >= accepted
    \/ Indexed(accepted)

(* AudioKept, except that a journal shorter than the audio already indexed   *)
(* came out of a power loss.                                                 *)
AudioKeptUnlessOvertaken == overtaken \/ AudioKept

(* Whatever the chunk index says is on disk holds exactly those frames: a    *)
(* player never opens a chunk that is missing, shorter or of another minute. *)
IndexNamesFiles ==
    /\ TypeOK
    /\ \A i \in Chunks : index[i].on /\ ~overtaken => Contents(i) = index[i]

(* A completed run counts every frame, its chunks cover them in order, and   *)
(* the session record says the same length.                                  *)
CompletedIsExact ==
    run.state = "completed" =>
        /\ run.counted >= accepted
        /\ Indexed(run.counted)
        /\ entry = [status |-> "completed", frames |-> run.counted]

(* The one unfinished run the database allows has an owner, a running        *)
(* handler, or its mark in the registry the next Start retries: it cannot    *)
(* wedge the capture slot while the process lives.  A start that could not   *)
(* even roll back is the exception.                                          *)
SlotIsReclaimable ==
    up /\ run.state \in Unfinished =>
        active.on \/ job.kind # "none" \/ detached \/ stranded

(* A launch that meets no failing write leaves no interrupted run with its   *)
(* audio still only in the journal.                                          *)
LaunchIndexes ==
    [][job.kind = "launch" /\ up' /\ job'.kind = "none"
           /\ budget'.faults = budget.faults
       => ~(run'.state = "interrupted" /\ journal'.on)]_vars

(* LaunchIndexes, except for a journal that holds less than the row counts.  *)
LaunchIndexesUnlessBehind ==
    [][job.kind = "launch" /\ up' /\ job'.kind = "none"
           /\ budget'.faults = budget.faults /\ journal.frames >= run.counted
       => ~(run'.state = "interrupted" /\ journal'.on)]_vars

=============================================================================
