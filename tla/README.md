# A TLA+ development of ZuTalk's durable core

ZuTalk is a local-first note taker for macOS: a Rust core (`src/crates`) behind a
Swift app. It records speech, transcribes it live or after the recording
stopped, projects the transcript into CRDT documents and synchronises topics
between machines. This directory models the parts of the core in which several
actors move state in several steps, most of it durable: the audio of a recording
and what survives a crash of it, the realtime stream that turns it into words,
the way those words become rows, reach the window and are projected into the topic's
document, the transcription of a stopped recording, its moves between notebooks, and
the synchronisation of documents between devices.

## 1. Inventory

| Component | State | Operations | What is hard | What makes it correct |
|---|---|---|---|---|
| Task queue (`vt-pipeline/task_queue.rs`) | `tasks.db` rows: status, retries, lease; a semaphore | enqueue, claim, heartbeat, complete, fail, release, purge, recover | leases and callers without a claim token; retry budget | attempts bounded by the budget and what was given back, terminal rows final, no takeover of a live lease |
| Post-stop transcription (`vt-ffi/task_worker.rs`, `transcribe_api.rs`, `notebook_api.rs`) | async columns of the run, receipt, projection states, the worker's position | poll, verify, dispatch, commit receipt, finalize, project, recover | two databases, a crash between any two commits, re-requests beside the worker | nothing lost, success only with a result, uploads bounded, one projector |
| Delete Forever (`notebook_capture_api.rs`) | `session_purge_jobs` row with its phase; blocked sessions | begin, stop handlers, recorded phases, resume | a handler that is under way; failures and crashes between phases | what a phase removed never comes back |
| Remote artifacts (`vt-stt/soniox_async.rs`, sweep in `task_worker.rs`) | objects at the provider, `provider_remote_artifacts` rows | upload, create, poll, delete, sweep | lost responses, crashes, failing deletions | no remote copy without a local row; no success with a copy left |
| Start-up (`vt-ffi/lib.rs`) | none of its own | recover runs and tasks, resume purges, searches, tasks, projections, start the worker | order; errors that stop it and errors it skips | recovery meets every intermediate state |
| Recording writer (`vt-pipeline/recording.rs`) | journal, chunk files, the live writer's queue, the flush thread | push, flush, write chunk, stop, rebuild from the journal | torn tails, a flush that is behind, a live writer that failed | flushed audio is never lost; a chunk's row says what its file holds |
| Capture life cycle (`notebook_capture_api.rs`) | the run's row, the active capture, detached runs | start, push, pause, resume, stop, interrupt, recover, take over | each handler is many writes, any of which fails; the process dies between two | a run always reaches a final state and gives its slot back |
| Provider groups (`notebook_capture_api.rs`) | the group a recording has or is cleaning up; its streams, queues and collector; rows, gaps, health | fan out, isolate, replace a lane, tear down, restart, stop, interrupt | the collector, the cleanup and the commands act on one group at once, each with deadlines; lanes die and come back inside it | one writer at a time; a row or a gap for every stretch; events of an old connection are neither taken for the new one's nor take them with them; the health shown is the lanes' |
| Event mailbox (`notebook_capture_api.rs`, Swift `Capture/`) | one pending event, Swift's bounded queue, the view and its gap repair | publish, coalesce, deliver, drain, repair | merging while the UI is busy, snapshots overtaken by deltas | what the window lacks is on its way to it |
| Realtime stream (`vt-stt/soniox_stream.rs`) | the connection, kept audio, the clock of the recording | send, acknowledge, drop, wait, replay, hand over, pause, drain | three clocks (recording, lane, connection), reconnects at any point | every word once, at its place, every missing stretch a recorded gap |
| Realtime projection (`vt-store/notebook_capture_store.rs`, `vt-ffi/notebook_capture_api.rs`, `block_document_api.rs`) | rows and their lanes, the inbox of translation facts, desired and applied revision, staged edits, block documents | revise, withdraw, file, place, settle, project, acknowledge, stage, apply, replay | user edits against machine text, facts that arrive before or after their row, two stores, saves that are not atomic | applied never ahead of written; a lane says what its facts say; settled text only grows; user edits survive |
| Library replica and device sync (`vt-store/library_replica.rs`, `vt-ffi/library_sync.rs`, `vt-sync`) | SQL rows, change marks, documents, digests; links, queues, dirty documents | edit, export, import, summaries, wants, updates, anti-entropy | an export, an import and a reader of versions race; links break, devices restart | both sides converge and no fact is lost or invented |
| Session moves (`vt-ffi/session_move.rs`, `library_sync.rs`, `vt-store/notebook_store.rs`) | pointers of session, run and rows; the session's sections in each notebook's documents | plan, copy, commit, roll back, clear; a peer's move and what follows it | SQL and documents change in turn, any step fails; two moves, edits, projections, purge and import between plan and commit | the home holds everything at its newest; nothing else holds any of it |
| Others | context packs, migrations, diffing, keys, search, export, sharing, settings, Swift UI | | mostly single transactions, pure functions or I/O | see `PROJECT.json` |

Interaction: `capture_ownership_gate` serialises the user's requests, projection
retries, Delete Forever and the capture's start and recovery; start-up recovery
runs before the worker exists. The worker never takes that gate. It meets the
gate's holder only through the two databases, the documents and
`SessionTaskRegistry`. A capture's audio goes two ways, into the journal
(`CaptureAudio`) and through the provider group (`ProviderGroup`) down a channel to each
lane (`SonioxStream`); the lane's words become rows, the rows events (`CaptureEvents`)
and the settled lanes blocks of the topic's document (`RealtimeProjection`). Sync never touches
a running capture: it exports and imports what the rows already say (`DeviceSync`), and a move it
imports empties and fills the same sections as one made here (`SessionMove`); the editor's
mutation lock is what keeps their document steps apart.

## 2. Modules

| Module | Models |
|---|---|
| `TaskTable` | What the queue promises: rows moved by its operations; a lease is live or expired. |
| `TaskAttempts` | The same table with two counters no code reads: how often a row was handed out, and how many attempts were given back without a retry. |
| `TaskQueue` | The queue itself: clock, deadlines, claim order, permits, undecodable payloads. Refines `TaskTable` (`ImplementsTable`). |
| `AsyncTranscription` | Run, receipt, search and projection columns, audio, document, worker, gate holder, start-up and Delete Forever. Every row change is one of the queue's operations, by `INSTANCE TaskTable`. |
| `TranscriptionPromise` | What the owner of a recording is promised. `AsyncTranscription` refines it (`KeepsPromise`). |
| `RemoteArtifacts` | One attempt's objects at the provider, the journal rows and the sweep. |
| `CaptureAudio` | One recording from Start to its audio index: journal, live chunk writer, run row, stop, interrupt, recovery. |
| `CaptureEvents` | From committed rows to what the window shows: mailbox, dispatcher, Swift queue, view, gap repair. |
| `SonioxStream` | One provider lane over one recording, and the capture loop's gap accounting. |
| `ProviderGroup` | The provider groups of one recording: streams, collector, fan-out, cleanup, and what each command does with them. |
| `RealtimeProjection` | One transcript row: source, translation facts, lanes, projection passes, edits, the document's snapshot and log. |
| `DeviceSync` | One space on several devices: links, summaries, updates, and the rows and caches behind them. |
| `ReplicaPromise` | What a synchronised row is promised. `DeviceSync` keeps it but for one window (`KeepsFactsUnlessOvertaken`). |
| `SessionMove` | One stopped recording and the notebooks: moves made here and by a peer, and everything that writes its sections meanwhile. |
| `MC...` | Instances for TLC. |
| `...Proofs` | Theorems and their TLAPS proofs. |
| `ProviderGroupInv` | The inductive invariants `ProviderGroupProofs` rests on, for TLC to check as well. |

### AsyncTranscription and the code

Variables are columns (`async`, `prov`, `receipt`, `search`, `proj`, `purge`), files
(`audio`, `doc`), `tasks.db` (`task`), and memory lost in a crash (`proc`, `todo`,
`blocked`, `w`, `g`). Actions starting with W are steps of `spawn_worker`'s loop,
with G steps of whoever holds the gate, with S start-up stages. Each action is at
most one commit to each database, so a crash or another actor's step can fall
between any two commits the code makes. `w.pc` names the next step of the loop:
`gate1`..`gate4` and `gate_*` are the calls of `session_task_may_continue`. The
values a function has read and uses later are kept in `w` and `g` (the scanned
receipts, `seen`, `rcpt`, `status`), so stale reads are stale here too.

Abstractions: a task id is determined by its run, hence tasks are named by their
session; payload and digest comparisons are assumed to agree, except that a receipt
may become corrupt; the privacy level is frozen and is membership of `Destroying`;
the audio is whole or not; documents show the transcript or not. A worker-side
database error is `Fault`, bounded by `MaxFaults`. Reading keys, Context and audio
before the provider call may fail freely. `WFault` and `GFault` are the places where
an error ends the step with only a log entry or an error to the caller.

### RemoteArtifacts and the code

Remote objects are named by the attempt that made them; a claim holds the two ids
(0 is NULL). `Failures` selects what can go wrong: a `response` that is lost, a
`sweep` request, a `journal` write, and a `rerun` (a local error that leaves the task
queued); all but the journal's happen at most once, and `mishaps` remembers which
did. `blurred` is history: the tasks whose row no longer tells what is at the provider,
because another attempt reused it before it was closed or a response was lost. `AsyncTranscription` treats the attempt as one provider call, and
`RemoteArtifacts` treats the task's fate as `queued`: the two meet at
`run_soniox_transcription`.

### CaptureAudio and the code

A frame is a number and a chunk a span of frames, so what a file or an index row
*says* is compared with what it *holds*. `run`, `index` and `entry` are SQL,
`journal` and `file` the disk with a flushed part, `active`, `live`, `seen` and
`detached` memory. `job` is the handler that is running and the step it is at
(`job.at`): Start, push, the progress writer, Stop, interrupt, launch recovery and
the take-over of a detached run are each a chain of steps that commit, write or
rename one thing, and any of them may fail (`Faults`). The flush thread and the live
writer step beside them. A process crash keeps files and the page cache; a power
loss also shortens every file to what was flushed. A rebuild writes chunks from the
journal exactly as `recover_capture_audio_journal` decides what to keep.

`overtaken` and `stranded` are history. `overtaken` says a power loss left a journal
shorter than chunks that were indexed from its unflushed part, which is the state the
configuration `MCCapturePower.cfg` ends in; `stranded` says that a start failed *and* its rollback
failed, after which the row stays `recording` until the next launch.

### CaptureEvents and the code

A row is its revision and the run a version number: merging only compares those.
`batch` holds rows that are committed and not yet published, per sender;
`control` a pause or resume between its commit, its publication and its return to
Swift, whose reply is applied to the view directly; `mailbox` is
`CaptureCallbackMailbox`, `queue` Swift's `pendingEvents`, `view` and `repair` the
main actor's store. `Coalesced` is `coalesce_capture_events`, which both the mailbox
and Swift's queue (`Merged`) apply. `excused` remembers two events the stated properties set aside: an old
snapshot that was installed after a newer reply, and a skipped revision that a merge
bridged. Each has a configuration that shows it, below.

### SonioxStream and the code

Audio is blocks numbered in capture order; a block lasts one unit and one word ends at
it, so a word is *in place* when it is written at its block's number. There are three
clocks as in the code: `pushed`/`taken` (the recording), `rec.next` (the lane's own
timeline, `StreamRecoveryState`), and the provider's, which starts at 1 on every
connection (`wire`) and is turned back by `rec.origin`. `phase` says where
`run_stream` is; `dial` what it carries from one connection to the next; `conn` what
one session keeps; `ctl` the control channel, read in order. `lane` is the capture
loop's side: the progress it was told, the gap it has open and the gaps recorded.
Windows are in blocks: `Window` for `CONTINUITY_WINDOW` and `MAX_REALTIME_BACKLOG_MS`,
`Fast` for `FAST_RECONNECT_WINDOW`, `Overlap` for `REPLAY_OVERLAP`.

`ghost` is history: `skewed` (a connection began where the kept audio did not reach),
`swallowed` (a block whose send failed), `unanchored` (a gap opened without a finalized
frame), `cut` (a session lost while it was draining). The properties named
`...If...`/`...Unless...` set those aside, and each is a finding.

### ProviderGroup and the code

Audio is blocks, and a lane says one word for each. `remote` and `cleanup` are the two
fields of `ActiveNotebookCapture`; `cancelled` the groups whose token is cancelled;
`stream` the streams of the newest group (`phase`, the next block to say, the generation
of the connection, its `leg` on the provider's clock, whether the fan-out stopped it);
`inbox` what waits for the collector, which `FairTaggedEventQueue` takes from any lane,
and `cuts` the discontinuities, which pass it on their own channel; `col` the collector's
position, numbering and view of each lane (`StreamAggregationLane`). An older group's
streams are gone, since opening another follows the cleanup that aborted them.

A command (`call`) is the chain of steps its function waits for while it holds the active
capture: `restart_remote_capture` is `Reopen` or `Replace`, `Join`, `Start`; Stop is
`Stop`, `StreamsEnd`, `CollectorEnds`, `Join`, `Complete`; the collectors and the
streams step in between. A deadline passes only with a `Trouble`, as do lost connections,
full channels, refused writes and groups that cannot be opened. Health is one of
connecting, live and down (Degraded and Unavailable), and whether a cause is recorded,
which decides what a later push writes.

`mishap` is history. Four of its members are excused by a property and are findings:
`detached` (a join that timed out), `forgotten` (a stop that found neither a group nor a
cleanup), `wedged` (a push that met a full channel; it may keep an older health),
`unanchored` (as in `SonioxStream`). `gap lost` is a gap whose write failed, which the
code calls best effort, and `abandoned` a collector aborted before it could report.

### RealtimeProjection and the code

`row` is the utterance with its variants (`lane`, by language), `inbox` the auxiliary
translation facts, `run` the capture's state, its collector and the two watermarks,
`override` and `staged` what the reader changed and is changing. `doc` is the open block
document, `disk` its snapshot with the appended updates. A text is a sequence of tokens (a
source revision, a fact, an edit), which is what the rules compare: that one text is a
prefix of another, or holds a fact's words.

A store call is one transaction: `Revised`, `Withdrawn`, `Filed`, `Bound` and `Reconciled`
are chains of operators over the tables it has written so far, whose `result` becomes
`conflict` or `corrupt` where the code returns that error. The action decides what the
error does: it undoes the transaction, ends the feed, or is swallowed. Which audio a fact
shares with the row (the span comparison) is chosen by the step that depends on it: `gone`,
`found`, `stays`, `finds`.

`job` holds the editor guard: a pass (load, write, save, acknowledge) or an edit (stage,
write, save, commit); the collector runs between its steps. An append may leave half a
record, a snapshot may leave a truncated file, a cancellation may fail with the save it
answers. `Crash` ends the capture; `startup` is what the launch does in order: reconcile
the inbox, project, replay the staged edits. `mishap` is history: an append written behind
a torn record, and an edit cancelled while the document already held its text.

### DeviceSync and the code

A document is the set of updates merged into it, and its version and its digest are
that set. `rows` is what the user interface reads; `changes` the rows not yet
exported; `disk` the stored document and `mem` its live copy; `digests` the cached
version; `late` what a thread inside `version_of` is about to cache; `tx` the
transaction that holds the gate (`BeginExport`..`CommitExport` and the import are split
where the code lets another thread in). `fallen` is the transactions that were rolled
back and have freed the gate, but whose thread has yet to drop the cache: `RollBack` and
`EndFailure` are two steps, and exports, imports and readers of versions come in between
and meet the live document as the failure left it. So an export writes what the rows say
(`Written`), and that includes the deletion of entries the document shows and the rows lack: a
reversal, an update only an export makes. A transaction holds its own copy of the document
(`held`), since a drop of the cache does not take it away. The link side keeps one writer queue per end, the
reader's pending map, dirty documents and what is on the wire. `Trouble` is one of a broken link, a
restart, a failing transaction and a digest race, bounded by `MaxTroubles`.
`silent`, `failed` and `overtaken` are history: changes saved without an announcement to
every link; merges and transactions that failed; and rows exported into a document that a
failed transaction had left unsaved. A later complete summary repairs the first two.

Which entries an export deletes depends on the table (participants always, a speaker's link
only where it applies); the instance makes one entry of each kind. A reversal is not
itself reversed: putting an entry back is an edit.

### SessionMove and the code

`mem` is the documents as they are open and `disk` their snapshots, per notebook; the
content of a block is a version, 0 where the document has none of it, so an older copy
can be told from the newest text. The transcript document holds the session's lines and
the remarks the reader wrote among them, each flat document (`Tabs`) one section. `call` is
`move_session_to_notebook_inner`, one step per document: `Plan` is made before the editor's
lock is asked for, `TakeEditor` to the end of the call hold it (`EditorIsFree` is the
guard of every other writer, which takes the lock for one step), `CommitMove` derives the
plan again under the database's write lock, `UndoCopy` is best effort and goes on after a
failure, `ClearSection` ends the call at the first one. `writer` is a projector between
looking up a notebook and writing to it; `owed` a peer's move whose transcript is to follow
after the import.

`kept` is history: the newest version of each block the home ever had both open and on disk. `mishap`
names what the properties excuse: a copy that found an older one in its place (`kept older`), a rollback
or a clear that emptied the session's home (`erased home`), a copy left behind (`leftover`),
and a peer's move never followed (`stranded`). Each is a finding with a configuration that shows it.

## 3. Runs

| Run | Checks | Bounds |
|---|---|---|
| `task_table` | `AttemptsBudgeted`, `TerminalNeverReclaimed` | 2 tasks, the app's policies 1 and 3, each row claimed at most 5 times |
| `task_queue` | `NoEarlyTakeover`, `ImplementsTable` | 3 tasks, one undecodable, 2 permits, 2 priorities, clock to 3, lease 2 (a claim can come too early, in time, or too late); budgets are used up |
| `async` | `NothingLost`, `RunAgrees` (`CompletedIsBacked`, `EnqueuedHasRow`, `ResultNotFailedUnlessFault`), `UploadsAccounted`, `OneProjector`, `ErasureHolds`, `KeepsPromise`, `UploadIsWanted`, `RequestsEnd` | 1 session, 2 crashes, 2 faults, 6 uploads at most, the key may vanish at any time |
| `remote` | `JournalIsHonoured` (`JournalCoversUnlessBlurred`, `OrphansFirst`), `SuccessLeavesNothing` | 2 tasks, 2 attempts each, 2 crashes; journal writes may always fail, a response, a sweep and a rerun once each |
| `sync` | `LinksAddUp` (`OneRequestEach`, `QuietLinksAgreeOnAnnounced`), `KeepsFactsUnlessOvertaken`, `ConvergesUnlessStale` | 2 devices, one document edited on both, one of which deletes what its rows lack, 1 trouble of any kind |
| `sync_notes` | `SyncedCoversSummary` | a topic edited on both devices and a note of it, 3 updates, 1 trouble |
| `capture_audio` | `AudioKeptUnlessOvertaken`, `IndexNamesFiles`, `CompletedIsExact`, `SlotIsReclaimable`, `LaunchIndexesUnlessBehind` | chunks of 2 frames, blocks of 1 or 2, 4 frames, a flush every 2 records, 2 failing steps, 2 crashes, 1 power loss |
| `capture_events` | `LagIsInFlight`, `RunNeverRegresses`, `WindowCatchesUp` | one row with 2 revisions and its removal, 2 capture states, 4 event revisions, 1 projection receipt, 1 failing refresh, queues of 2 |
| `soniox` | `ClockCountsAudio`, `WordsOnceInPlace` (`WordsInPlaceIfKept`, `NoWordTwice`), `NothingLostUnlessUnanchored`, `StopEndsUnlessCut` | 4 blocks, `Window` 1, `Fast` 0, `Overlap` 1, 2 faults, 1 pause |
| `projection` | `AppliedIsWrittenUnlessMishap`, `LaneHoldsItsFacts`, `SettledOnlyGrows` | 2 facts, the first heard in the wrong language, 4 revisions of which at most 2 of the source, 1 edit, 1 failing write, 1 crash |
| `session_move` | `HomeIsWhole`, `OnlyHomeHoldsIt` | 2 topics and the unfiled notebook, 2 calls, transcript and async document, 3 versions, 2 troubles of any kind (a failing step, a crash, a peer's move, a deleted topic) |
| `provider_group` | `OneWriterUnlessDetached`, `AudioIsAccounted`, `OneTimelinePerEpoch`, `ViewFollowsLane`, `HealthIsHonest` | the source and one translation lane, 2 blocks, 2 groups, 1 replacement of a lane, 2 troubles of any kind, at most 2 events waiting for a collector |

`TypeOK` is a conjunct of a property of the run where no property of its own is
listed for it (`ClockCountsAudio`, `IndexNamesFiles`, `LagIsInFlight`, `OneRequestEach`,
`OrphansFirst`, `LaneHoldsItsFacts`, `HomeIsWhole`, `OneWriterUnlessDetached`); that of
`TaskQueue` and of `TaskTable` is proved.

Why the bounds are enough to mean something. One session already meets the worker, the
gate holder, start-up and Delete Forever at every step; the second crash strikes the
recovery from the first, and the second fault the handling of the first. `AttemptCap`
exceeds what crashes and faults allow, so it never hides an upload. In
`RemoteArtifacts` two attempts are what it takes for one to overwrite the other's
record. In `CaptureAudio` four frames are a full chunk, a boundary and a partial chunk,
and the second crash falls into the recovery from the first. In `CaptureEvents` two
queue slots are what it takes to merge, and two revisions to overtake. In
`SonioxStream` the windows are small so that four blocks are both shorter and longer
than each of them: an outage that is replayed, one that sheds audio and one that
re-anchors all occur. The safety properties also hold with 5 blocks, `Window` 2 and
`Fast` 1, which takes too long to keep as a run. In `RealtimeProjection` two facts are
what it takes to compose a lane and to lose one of two; a third revision replaces or
withdraws one of them or settles the source, a fourth relabels the row or withdraws what
just settled, and the fact that was heard in the wrong language moves the label onto the
target; with 5 revisions the properties hold as well. In `TaskAttempts` five claims are the three retries of the
larger policy and two attempts given back. In `DeviceSync` each device makes an
update the other lacks, and one failed transaction is what it takes for the other loops to use
its leftovers; the third update of `sync_notes` is one a device may only make after it
received the document. In `SessionMove` two calls share a plan or follow one another, a third
notebook is what a later move can go on to, and two troubles strike a rollback or follow a
crash with a second attempt; `Telling` stops exploring where both properties excuse what
happened. In `ProviderGroup` the two troubles are one that ends a lane or a group and one that
strikes its replacement, its cleanup or the stop; the second group meets what the first left,
and two waiting events are what it takes to pass or to be passed. For
the source lane alone the properties also hold with 4 blocks, 3 groups, 2 troubles and any
number of events waiting.

Deadlock is checked in `async`, and in `provider_group`, where only a recording that has
ended may stop: no command waits for a group that waits for it. Elsewhere
the system or its bounds end: a bounded clock leaves the queue nothing to do, attempts and edits are used up, a recording ends.

### Fairness

* `AsyncTranscription`: the worker's loop, the thread holding the gate and a start-up
  that began keep taking steps, because they are threads and a Tokio task that only
  wait for bounded I/O (requests have deadlines, `cancel_and_wait` a time-out).
  Unattended leases run out because the clock advances. Nothing is assumed of the
  user, of crashes, of the credential or of the heartbeat.
* `DeviceSync`: the pump, a transaction under way and each link's writer and reader are
  loops that are awake while there is something to do (weak fairness). The interval
  tick that sends a complete summary needs strong fairness, as the link it fires on may
  break and come back. A link that is down is eventually dialled again. Nobody is
  obliged to edit.
* `CaptureEvents`: the dispatcher thread, the main actor's drain, the two steps of a gap
  repair, the publication of a committed batch and the return of a control call.
* `SonioxStream`: weak fairness of the lane's task as a whole: it keeps stepping, a dial
  succeeds once dials stop failing, and a session that waits for the provider either
  gets its answer or runs into its time limit.

### What the code does otherwise

Each finding has a configuration that shows it, kept beside
the others (`PROJECT.json` quotes the line each contradicts). A configuration named twice checks one
property as it stands; its first lines say what to change for the others:


| Configuration | Property TLC violates | What it shows |
|---|---|---|
| `MCAsyncUploads.cfg` | `AtMostOneUpload` | A crash during the provider call uploads again, although one authorization permits one attempt. |
| `MCAsyncUploads.cfg` | `ResultNotFailed` | A repeated request that read "no receipt" marks a transcribed run failed after an error reading `tasks.db`. |
| `MCRemoteLost.cfg` | `JournalCoversRemote` | A response lost to a deadline leaves an object whose id is unknown; the row is closed. |
| `MCRemoteLost.cfg` | `JournalCoversRemote` | A failed sweep does not hold the worker back; the next attempt closes the row of the first. |
| `MCRemoteLost.cfg` | `JournalCoversRemote` | An attempt whose deletions failed keeps its row; the next attempt of the task reuses the row and closes it on its own objects alone. |
| `MCSyncStale.cfg` | `Converges` | `version_of` inserts a digest it read before a commit; every later summary announces the older document, and the two devices never agree. |
| `MCSyncStale.cfg` | `QuietLinksAgree` | An edit exported inside an import is not announced to the link the update came from before the next complete summary. |
| `MCSyncStale.cfg` | `KeepsFacts` | A failed transaction frees the gate before it drops the cache. An export in between deletes the peer's entry, which the live document has and the rows do not; or an import takes a failed export's edit for written, and replaces its rows from the saved copy. |
| `MCSyncStale.cfg` | `Converges` | In the same window a remote update that was never materialized is saved, or a mark is cleared whose document was not: equal versions, different rows. |
| `MCCapturePower.cfg` | `LaunchIndexes` | The counted frames are durable before the journal's; after a power loss launch recovery indexes nothing. |
| `MCEventsLate.cfg` | `ViewNeverRegresses` | A snapshot delivered after a newer reply takes the view back. |
| `MCEventsLate.cfg` | `NothingResurrected` | A removed row returns through a buffered delta. |
| `MCCapturePower.cfg` | `AudioKept` | Recovery indexes chunks from a journal that was perhaps never flushed; a power loss shortens it, and the next recovery takes the shorter journal for the truth and removes indexed audio. |
| `MCSonioxPlace.cfg` | `WordsInPlace` | `prepare_replay` starts the new connection's clock two seconds before the acknowledged point; after `re_anchor`, or soon after a hand-over, nothing that old is kept, and later words are placed early. |
| `MCSonioxLost.cfg` | `NothingLost` | A lane that was never told any progress opens its gap at the disconnect, after the outage's audio. |
| `MCSonioxPlace.cfg`, as its comment says | `StopEnds` | A `Finish` read by a session that then loses its connection is forgotten. |
| `MCSonioxLost.cfg` | `FailsOnlyWhenStopping` | A hand-over of a connection without audio is refused by the provider, and the lane fails. |
| `MCGroupFindings.cfg` | `TailIsRecorded` | The source lane dies, the recording is paused and stopped: neither a group nor a cleanup is left, and the missing stretch is not recorded. |
| `MCGroupFindings.cfg` | `OneWriter` | A join that times out detaches the old collector, which goes on writing. |
| `MCGroupFindings.cfg` | `GoneIsDown` | A group that was restarted after a failure and torn down before it was Live leaves the run Connecting. |
| `MCProjectionStuck.cfg` | `StagedCanFinish` | The collector moves a lane between an edit's staging and its commit: the edit is on disk, is refused, and stays pending for good. |
| `MCProjectionWritten.cfg` | `AppliedIsWritten` | A retried edit that fails is cancelled although the document holds its text; a torn record or a truncated snapshot hides what was acknowledged. |
| `MCProjectionFacts.cfg` | `FinalFactsAreShown` | A Final fact filed beside a translation that settled without it never enters the lane. |
| `MCProjectionFacts.cfg` | `RevisionKeepsFeed` | A source revision that takes two facts off a row rewrites the settled lane twice, is refused, and ends the feed. |
| `MCMoveTwice.cfg` | `NeverLost` | Two calls plan before either has the editor. The first moves the session; the second finds nothing to copy, is refused at its commit, and its rollback removes the session from its new home. No step failed, and every section is lost. |
| `MCMoveRetry.cfg` | `NeverLost` | A crash leaves a copy in the target; after an edit of the source the next move takes the old copy for the section and clears the newer text. |
| `MCMoveRetry.cfg` | `ErasedEverywhere` | A crash between commit and clear leaves the section in the old notebook, where neither a second call nor Delete Forever looks. |
| `MCMoveRetry.cfg` | `PeerMoveArrives` | A move made here before a peer's move was followed leaves the transcript in another notebook than its rows. |

Observed in `AsyncTranscription` and not stated as violations: a repeated request can
complete the row while the worker finalizes, so the completion callback and the
projection wait for a retry or the next start; a projection outcome that cannot be
written leaves the projection claimed until the next start (the exception in
`OneProjector`); a closing write that fails leaves a run enqueued with a failed row
until it is requested again or the app restarts (`Stalled`); a lost `tasks.db`
together with an unreadable receipt leaves an enqueued run without a row (the exception
in `EnqueuedHasRow`).

## 4. Proofs

All theorems hold for every value of the constants that satisfies the named
assumptions (`RetryAssumption`, `QueueAssumption`, `AsyncAssumption`, `MoveAssumption`,
`CaptureAssumption`, `SyncAssumption`, `GroupAssumption`), which TLC evaluates on the instances.

* `TaskTableProofs`: `TypeCorrect`, `TerminalIsFinal`, and for the counted table
  `AttemptsAreBudgeted` (`AttemptsBudgeted`). The bound alone is not inductive: a claim adds an
  attempt, so the row must have had one to spare. `AttemptsAccounted` says where each attempt
  went while the row can run: a retry spent, one given back, or the one under way; with
  `BudgetRemains` (a row that can run has retries left) the bound follows, and a closed row
  keeps it because nothing hands it out again.
* `TaskQueueProofs`: `TypeCorrect`; `LeaseInvariant` (`LeaseFollowsBeat`, which no run
  repeats), inductive with the type; `TakeoverIsLate`, an action property from both;
  `QueueImplementsTable`, the refinement.
  The steps that need an argument are those that write a lease: it has to be shown
  live under the mapping (`LeaseTicks > 0`), and the clock's tick maps to `Expire` of
  exactly the rows whose deadline it passes.
* `AsyncTranscriptionProofs`: `TypeCorrect`; `RecordingKept` (`NothingLost`). `NothingLost`
  is not inductive: the worker destroys audio several steps after the receipt was
  committed, and the gate holder after it was read. The inductive invariant adds
  `WorkerBacked` (a worker whose handler reported success has a session that is safe to
  destroy: its receipt is stored, or it is tombstoned or gone), `GateBacked` (the same for
  the gate holder at its privacy step) and `GoneRuns` (once the purge phase that deletes
  the main-database rows is recorded, the run is gone, so dropping the tombstone at the end
  exposes nothing). They hold because a receipt, once stored, is removed only by the purge
  phase that erases its run.
* There too: `OneProjector`, `UploadsAccounted`, `UploadIsWanted` and `ErasureHolds`, all
  from one inductive invariant `WInv`. Two actors act on values they read some commits
  ago, so `WInv` says for every position of each what still holds of the session there.
  `GateReads`: a receipt or a terminal row the gate holder saw is still there. `RowHeld`: a
  session without a result has, at most, a row with one retry, which the worker that
  claimed it keeps running until it fails. `Accounted`: an attempt beyond `crashes + faults`
  has used that row up. `Locked`: `projecting` is held by exactly one actor unless a fault
  dropped it. `Removed`: the effect of a purge phase is there before the phase is recorded,
  and no handler that was registered can still undo it. None is inductive alone; each step
  of an actor is shown against what the other may have done.
* And `RunAgrees`, and that `AsyncTranscription` implements
  `TranscriptionPromise` (`PromiseIsKept`, mapping the run's state by `Told`). `RInv` adds to
  `WInv` what run, receipt and row say of each other: a run never reserved has neither
  (`Fresh`), a completed row has a receipt (`RowBacked`, `Backed`), what the gate holder read
  of the row is still so (`RowSeen`), a row goes missing only while the app is closed, and
  start-up visits its session before the worker runs (`Visited`); `Clean`, `Reported` and
  `Delivered` are what holds of a run that failed or completed while no local error occurred.
  The proofs are two-stage: `RunMoves`, `RowMoves`, `ReceiptMoves`, `GateMoves`, `StageMoves`
  and `WorkerMoves` say once, for all actions, what a step can do to a session's run, row,
  receipt and to each actor; the invariant and the refinement then never look at an action.
* `RemoteArtifactsProofs`: `TypeCorrect`, `JournalHonoured`, `SuccessIsClean`. The inductive
  invariant relates the attempt's position to what it has made: `AttemptShape` (at each step
  what is at the provider and what the row says of it), `DeletedIsGone` (what the attempt
  deleted has left no object), `SweepCovers` (an orphan not yet swept is on the sweep's list)
  and `LatestOnly` (where no attempt reused an open row and every response came, only the latest
  attempt has objects at the provider, and its row is open as long as it has).

* `SessionMoveProofs`: `HomeStaysWhole` (`HomeIsWhole`) and `OnlyHomeHolds`
  (`OnlyHomeHoldsIt`), for any number of calls, documents, versions and troubles. `WholeInv`:
  what the home has saved it still has, or the notebook has it that a peer's move came from
  (`Kept`); a call on its way to its commit has in the target every section it has passed
  (`Copied`); what is owed still has its lines (`Owing`), as remarks alone are no slice; one
  call has the editor (`Plans`). `Tidied`: whatever a notebook holds is accounted for by the
  home, by what is owed or by the call with the editor (`Placed`), and remarks have their
  lines wherever Delete Forever did not take them (`Lined`), so that removing a slice removes
  the section. The attempt to prove `HomeIsWhole` corrected the model: the history `kept` once
  counted a version the home had on disk only, and with more troubles than the runs
  explore a stale snapshot left there by a failed rollback would have become a promise when
  the session came back. It now counts what is both open and on disk.
* `CaptureAudioProofs`: `SlotStaysReclaimable` (`SlotIsReclaimable`), `CompletedStaysExact`
  (`CompletedIsExact`), `RowsNameTheirFiles` (`IndexNamesFiles`), `AudioStaysKept`
  (`AudioKeptUnlessOvertaken`) and, an action property, `LaunchIndexesIt`
  (`LaunchIndexesUnlessBehind`), for any chunk length, block sizes, flush interval and number
  of failing steps, crashes and power losses. No invariant among them is inductive: a chunk is
  written several steps before it is flushed, flushed before it is indexed, and the journal
  goes last of all. `AudioInv` says in `Doing`, for every step a handler can be at, what is on
  disk and in the rows by then; `Rows` says that an index row stands for a prefix of the
  recording and names a flushed file of exactly that span; `Keeps` that what was accepted is
  in the journal or indexed; `Live`, that the live writer holds full minutes only, so that its
  chunks are those a rebuild would write. The steps that need an argument are the rebuild,
  which may overwrite an indexed chunk only with what it holds already, and `PowerLoss`: what
  a row names is flushed and stays, and a journal that loses frames without falling behind the
  index leaves rows of full minutes only, which are the shorter recording's as well. The slot
  needs `Control` only: where each handler can be (`Placed`), what the run's row says then
  (`Owned`), and that a run has nothing before its journal was made (`Unmade`).
  `LaunchIndexesIt` adds `Rebuilt` (what a recovery has rebuilt is what the journal holds) and
  that a step that fails is counted; the one way out it leaves is the conflict of the finding.

* `DeviceSyncProofs`: `TypeCorrect`, `FactsAreKept` (`KeepsFactsUnlessOvertaken`, the
  refinement of `ReplicaPromise` until a failed transaction's leftovers are exported over),
  `OneRequest` (`OneRequestEach`), `SyncedMeansCovered`
  (`SyncedCoversSummary`), `QuietMeansAgreed` (`QuietLinksAgreeOnAnnounced`) and
  `BooksBalance` (`LinksAddUp`), for any devices and links, any topics and notes, any
  history of edits and any number of troubles. `KeepInv`, with failures of every kind: memory
  has all that is saved, and more only inside a transaction or until a failed one has dropped
  the cache (`Stored`); an import, failed or not, is of the update its reader has not
  consumed (`Importing`), and a reader waits for one (`Alone`). `FactsInv`: until rows are
  exported over such leftovers, what is in memory or on the wire was authored by an edit
  (`Known`), and rows and saved documents differ only by what is marked (`Faithful`), so that an
  import replaces rows by more than they were and an export deletes nothing. The argument is
  that a document can be left unsaved only by a failure, and only an export from it is
  `overtaken`; an import into it merges, and saves what it makes rows of.
  `OneInv`: the requests for a document, in the writer's queue and on the wire, and the
  answers to them, in the peer's queue and on its wire, are together one while it is
  awaited and none otherwise (`Booked`). The steps that need an argument are a summary read
  while older answers are under way and a fan-out to links that already have the document
  queued; it holds across every failure. The rest is promised until a merge or a transaction
  fails (`CalmInv`: no cache is still to be dropped, and memory has what the transaction holds).
  `CoverInv`: a note's recording is stored before the note (`HomeThere`), memory has every
  version that is cached (`Cached`), and what was announced is still what the peer would send
  (`Said`), so everything owed to a
  stamped summary is here or asked for (`DueMet`). `QuietInv`: every update the peer has and this
  end lacks is under way in one of the forms that end in its arrival (`Flowing`): a dirty
  mark, a queued or sent announcement, a request, an answer, or the peer's own transaction
  that will announce it; a quiet end has none of these, so what is left is what `silent` and
  `failed` excuse. The attempt corrected the property: it excused a document that was saved
  without an announcement, but with three devices the recording itself can be the silent
  one, and its note, announced, is not accepted where the recording is missing. The property
  now excuses what a document `Needs`; the code repairs both with the next complete summary.

* `ProviderGroupProofs`: `TypeCorrect`, `OneWriterAtATime` (`OneWriterUnlessDetached`),
  `AudioAccounted` (`AudioIsAccounted`), `EpochsAreTimelines` (`OneTimelinePerEpoch`),
  `CollectorSeesLanes` (`ViewFollowsLane`) and `HealthFollows` (`HealthIsHonest`), for any
  lanes and any bounds: all that its run checks. That one collector writes is not inductive:
  a group is opened where no group is left in the capture's two places, which says nothing of
  a collector that a command has taken out of them. `WriterInv` adds `Owned` (a collector that can write is
  `remote`, `cleanup` or held by the command that waits for it), `Commands` (what each command
  has done by the stage it is at: `join` leaves both places empty before `start`), `Alone` (it
  belongs to the last group), `Numbered` (its next row is beyond every row written, so a
  resume point read after the join cannot collide) and `Numbers` (what was written has a
  greatest number; a maximum over a finite set is an induction, so it is an invariant here,
  kept by every write). `detached`, the join that gave up at its deadline, is the one way out.
  The proof asked for `MaxGroups # 0`, which `GroupAssumption` now says: a recording may
  start with a group.
* That no audio is lost spans the whole life of a group, so `AudioInv`, on top of `WriterInv`,
  follows a block from the stream to the row. `Flows` relates the queue of the source lane to
  the stream that fills it and the collector that empties it: every block the stream has
  passed is covered or some event under way will cover it (`Reached`, with `Promise`: its word,
  or a rejoin at the live edge that has the stretch recorded); a rejoin is told right after the
  loss it ends (`Turns`), so the stretch it closes has been opened, and opened where the rows
  stop (`Noted`); the source lane has one provider timeline and nothing follows its error
  (`Single`). `Behind` (an uncovered block is beyond every row) makes a gap from the last row
  enough for a tail; `NotOwed`, that a stop which owes no tail has seen the stream end and its
  collector finish, makes it right to record none; `Unopened` lets a new group start on an
  empty queue. The proof splits into what the source lane's own events do to `Flows`
  (`AudioSpeaks`, `AudioHeard`) and one lemma for everything else (`BesidesKeeps`).
* That an epoch is one timeline is about what is still on its way: the connection a word is of
  is fixed when it is sent, its epoch when it is heard, and in between the lane may have
  dropped, rejoined, been cut off past its queue, or been replaced. `EpochInv`, on top of
  `WriterInv`, keeps for the group that listens: `Line`, a recovery is told right after the
  loss it ends and is heard while the lane is awaited, so a rejoin at the live edge always
  begins an epoch, and nothing of a generation is heard before that generation is there;
  `Legs`, the words behind a word are of its connection until a rejoin between them; `Timed`,
  what a lane may still write in its epoch is of the connection that epoch belongs to. `Epochs`
  puts the lanes together: every fact of an epoch a lane is still in agrees with what that lane
  will write, two lanes share an epoch only while both are on their first connection, and no
  lane of this group is in an epoch of an older one. Three lemmas carry a step: lanes go on in
  their epochs or one of them alone begins a fresh one (`EpochsKeep`), a word is written
  (`EpochsWritten`), a group opens behind every epoch (`EpochsFresh`).
* That a collector sees the lanes as they are (`CollectorSeesLanes`) is stated where it has
  heard everything, but what it sees lags by whatever is queued, and a cut overtakes the
  queue: `ViewInv` (with `WriterInv`) relates the stream of each lane to the view, the queue
  and the cuts together (`Shows`). A connection is known to have ended exactly
  if it has (`Ends`: a later one was heard of, the view is a tombstone, or an error or a cut
  is under way); this is kept for the connection before the present one too, or else a
  replacement could be shown under the tombstone of its predecessor. What a connection that
  goes on told last, words aside, is what its stream is doing, unless the view already says so
  (`Tells`, with `LastIs`): `connected` of a lane that is up, a loss of one that dials again,
  nothing of one that has not connected. Three lemmas carry a step: a stream speaks
  (`SentShows`), the collector hears an event or a cut (`SeesShows`, `SeesCut`), the owner
  stops, forgives or replaces lanes (`HandledShows`). `Unused`, that no queue is filled ahead of
  its group, begins it anew with each group. The theorem needs no excuse for `detached`: an
  older writer has queues of its own.
* That the health shown follows the lanes (`HealthFollows`) is about a field that the
  collector, the owner's fan-out and the commands all write. `HealthInv`, on top of
  `ViewInv`, says while a group is there that the health is live exactly if its collector
  sees every lane connected, and down once the source lane or the group has failed
  (`Reported`). Where no group is left but a collector still listens, the source lane has
  failed in its eyes or the error is in the queue (`Gone`), so the health is down or about to
  be; this needs that nothing but a failure of the source lane cancels the group that is
  there (`Present`) and that this lane has one connection, which ends with the recording only
  (`Unreplaced`). `ViewInv` carries the rest: a lane seen as connected has not been replaced
  unheard. The two ways out of `Gone` are the shutdowns that gave up on the group.

`WInv`, `RInv`, `IInv`, `MoveInv`, the five of `ProviderGroup` (`MCProviderGroup` extends
`ProviderGroupInv`), the `AudioInv` of `CaptureAudio` and those of `DeviceSync` were
checked by TLC on the instances of the runs as well (`RInv` with two faults; the `AudioInv` of
`CaptureAudio` also with up to three power losses and with five frames; `QuietInv`, which
contains the others of `DeviceSync`, on `sync` and `sync_notes`, on the former also with two
troubles, and on a chain of three devices with a topic and its note with one broken link,
failed transaction or digest race; those of `ProviderGroup` with two troubles, `EpochInv`
and `ViewInv` with up to three events waiting for a collector).

Only model-checked: every liveness property (liveness under fairness and `ENABLED` are
out of the prover's reach), among them `RequestsEnd` and `ConvergesUnlessStale`; everything in
`CaptureEvents`, `SonioxStream` and `RealtimeProjection`, which apply, merge and replay what is
delivered with folds over sequences, about which nothing can be proved for every length
without an induction the prover has no rule for; and the findings.

## 5. Plan

1. Pairing and membership of a space; the registration of two connections that race.
2. Compositions worth adding: `RemoteArtifacts` under the worker of
   `AsyncTranscription`, so that a purge and a sweep meet (`purge_session_artifacts`
   leaves the claims on purpose); `SonioxStream` as the lanes of `ProviderGroup`.
3. Proofs worth adding: `NothingLostUnlessUnanchored` of `SonioxStream` and
   `LagIsInFlight` of `CaptureEvents`, once what their folds compute is kept step by step
   in variables of the history.

## 6. Not modelled

* Post-stop transcription: progress callbacks, audio preparation and token clean-up; the
  text of documents; request encoding, paging and back-off towards the provider; the
  membership, audio layout and realtime parts of start-up.
* Capture: how a chunk is encoded and encrypted (one step that writes it), the one-time
  move of an old audio layout, leases of terminal transitions, erasure of a session that
  is being recorded.
* Events: previews, translation cues and lane health, which ride on the same events; the
  overlay of remote text; a closed mailbox and a dispatcher that panicked; a snapshot that
  fails while a gap is repaired.
* Realtime stream: the finalize lead before a hand-over, the closing of long utterances,
  keepalives, credentials and their refresh, cancellation, terminal refusals other than
  400, the capacity of the audio channel (512 blocks), the difference between final and
  total progress, a recording that does not start at 0.
* Provider groups: the barrier that closes long utterances on every lane and its watchdog,
  the receipt of the Context, the token assembler, the matching of translations, health
  that could not be written and its overlay, the times of the cooldown (a choice).
* Realtime projection: the matching of facts to several rows by their audio, translations
  carried inside the source's own stream, the columns kept for older versions, notes and
  highlights in the document, edits that a peer's import brings, search; when a log has
  grown too large (a choice); the removal of the appended file after a snapshot, which
  succeeds; a feed that ended is not opened again.
* Session moves: where in a document a section lands; the move of a session that is being
  recorded, which is refused; a peer's move from or to the unfiled notebook, and when the
  flat documents it moved arrive (taken to be with the pointer); edits of the transcript's
  blocks, of which a new projection stands for all; marks, which are single-transaction edits.
* Sync: pairing, membership and rosters, discovery, presence, sharing; an update that was
  not asked for; the SQL of each table and the CRDT itself, of which merging is a union.
* Schema migrations, export, search queries, cryptography, settings and the Swift UI are
  single transactions, pure functions or I/O and are listed in `PROJECT.json` with the
  reason.

## 7. Running

    tlc -workers 2 -config MCAsync.cfg MCAsyncTranscription
    tlc -workers 2 -config MCCapture.cfg MCCaptureAudio
    tlc -workers 2 -config MCGroup.cfg MCProviderGroup
    tlapm AsyncTranscriptionProofs.tla
    tlapm DeviceSyncProofs.tla
    tlapm ProviderGroupProofs.tla
