---------------------------- MODULE CaptureEvents ----------------------------
(***************************************************************************)
(* How a recording's rows reach the window.  Rust commits a batch of rows  *)
(* to SQLite and then publishes a delta in a mailbox that holds one event; *)
(* a dispatcher thread hands the mailbox's event to Swift's queue; the     *)
(* main actor drains the queue into the store the views observe, which     *)
(* repairs a skipped revision from a full snapshot.  Pause and resume      *)
(* publish the same way and return their event to the caller as well.      *)
(*                                                                         *)
(* A row is its revision (0: no such row), the run's row a version number, *)
(* and an event the rows and run it carries.  Preview frames, translation  *)
(* cues and lane health ride on the same events and are left out.          *)
(***************************************************************************)
EXTENDS Naturals, Sequences, FiniteSets, FiniteSetsExt, SequencesExt

CONSTANTS
    Seqs,          \* sequence numbers of the recording's rows
    MaxRowRev,     \* bound: revisions of one row
    MaxRevision,   \* bound: event revisions handed out
    MaxRun,        \* bound: commits of the capture state
    MaxAcks,       \* bound: projection receipts
    MaxFaults,     \* bound: failing refreshes and control calls
    QueueLimit,    \* pendingEventLimit of the Swift dispatcher
    BufferLimit    \* maximumBufferedDeltaCount of a gap repair

ASSUME EventsAssumption ==
    /\ {MaxRowRev, MaxRevision, MaxRun, MaxAcks, MaxFaults} \subseteq Nat
    /\ QueueLimit \in Nat \ {0} /\ BufferLimit \in Nat \ {0}

VARIABLES
    rows,      \* the session's rows in SQLite
    run,       \* version of the run's capture state in SQLite
    acked,     \* the run's realtime_loro_applied_revision
    batch,     \* per sender: rows committed and not yet published
    control,   \* a pause or resume: where it is, and what it will deliver
    mailbox,   \* CaptureCallbackMailbox: queued event, continuity, revision
    queue,     \* pendingEvents of NotebookCaptureCallbackDispatcher
    view,      \* what ActiveBilingualTranscriptStore shows
    repair,    \* its UtteranceGapRepair
    faults,    \* bound: failures so far
    excused    \* history: old snapshots installed, gaps bridged by a merge

vars == <<rows, run, acked, batch, control, mailbox, queue, view, repair,
          faults, excused>>

(* "lane" is the live provider group; "settle" the end of a failed one,     *)
(* which only marks rows that are still waiting.                            *)
Senders == {"lane", "settle"}

NoRows == [s \in Seqs |-> 0]

Event(rev, full, payload, removed) ==
    [rev |-> rev, from |-> rev, full |-> full, rows |-> payload,
     removed |-> removed, run |-> run, ack |-> acked]

Blank == [rev |-> 0, from |-> 0, full |-> FALSE, rows |-> NoRows,
          removed |-> {}, run |-> 0, ack |-> 0]

Unread == [rev |-> 0, rows |-> NoRows]

NoRepair == [on |-> FALSE, target |-> 0, deltas |-> {}, read |-> Unread]

NoBatch == [changed |-> {}, removed |-> {}]

Init ==
    \* Start has returned: its snapshot is applied, its copy is in the mailbox.
    /\ rows = NoRows /\ run = 0 /\ acked = 0
    /\ batch = [w \in Senders |-> NoBatch]
    /\ control = [at |-> "idle", event |-> Blank]
    /\ mailbox = [event |-> [Blank EXCEPT !.rev = 1, !.from = 1, !.full = TRUE],
                  broken |-> FALSE, next |-> 2]
    /\ queue = <<>>
    /\ view = [last |-> 1, rows |-> NoRows, run |-> 0, ack |-> 0]
    /\ repair = NoRepair
    /\ faults = 0
    /\ excused = {}

Carries(event) == event.rev > 0

(***************************************************************************)
(* coalesce_capture_events: one event that stands for two.                 *)
(***************************************************************************)
Contiguous(pending, next) == next.from <= pending.rev + 1

(* An upsert: the higher revision wins and the later event a tie.           *)
Upserted(held, payload) ==
    [s \in Seqs |-> IF payload[s] >= held[s] THEN payload[s] ELSE held[s]]

Removed(held, gone) == [s \in Seqs |-> IF s \in gone THEN 0 ELSE held[s]]

(* Mutant: the merged event claims the revisions of both across a hole.     *)
CoversFrom_Both(pending, next) == Min({pending.from, next.from})

CoversFrom(pending, next) ==
    IF Contiguous(pending, next) THEN Min({pending.from, next.from}) ELSE next.from

Kept(pending, next) == Removed(pending.rows, next.removed)

Coalesced(pending, next) ==
    LET full == pending.full /\ Contiguous(pending, next)
    IN  IF next.full
        THEN [next EXCEPT !.from = CoversFrom(pending, next)]
        ELSE [next EXCEPT
                 !.from = CoversFrom(pending, next),
                 !.full = full,
                 !.rows = Upserted(Kept(pending, next), next.rows),
                 !.removed = IF full THEN {}
                             ELSE next.removed \cup (IF pending.full THEN {} ELSE pending.removed),
                 !.ack  = Max({pending.ack, next.ack})]

Merged(events) == FoldLeft(Coalesced, Head(events), Tail(events))

(***************************************************************************)
(* Publishing: CaptureCallbackSink::send_with_refresh_hook and             *)
(* commit_projection_ack, each under the mailbox's lock.                   *)
(***************************************************************************)
MayFail == faults < MaxFaults /\ faults' = faults + 1

Owed == {w \in Senders : batch[w] # NoBatch}
        \cup (IF control.at = "send" THEN {"control"} ELSE {})

(* Bound: nothing starts that could not still publish its revision.         *)
MayPublish == mailbox.next + Cardinality(Owed) <= MaxRevision

(* The refresh re-reads the run and the requested rows.                     *)
Refreshed(changed, removed) ==
    Event(mailbox.next, FALSE,
          [s \in Seqs |-> IF s \in changed THEN rows[s] ELSE 0], removed)

Enqueued(event) ==
    [event  |-> IF Carries(mailbox.event) /\ ~mailbox.broken
                THEN Coalesced(mailbox.event, event) ELSE event,
     broken |-> FALSE,
     next   |-> mailbox.next + 1]

(* Mutant: a skipped revision leaves no trace.                             *)
Skipped_Quietly == [mailbox EXCEPT !.next = @ + 1]

(* The refresh found no run or failed: the revision is spent, not enqueued. *)
Skipped == [mailbox EXCEPT !.broken = TRUE, !.next = @ + 1]

Publish(event) == mailbox' = Enqueued(event) /\ UNCHANGED faults

CommitBatch(w) ==
    /\ batch[w] = NoBatch
    /\ \E changed \in SUBSET Seqs, gone \in SUBSET Seqs :
        /\ changed \cup gone # {} /\ changed \cap gone = {}
        /\ \A s \in changed : rows[s] < MaxRowRev /\ (w = "settle" => rows[s] > 0)
        /\ \A s \in gone : rows[s] > 0 /\ w = "lane"
        /\ rows' = [s \in Seqs |-> IF s \in changed THEN rows[s] + 1
                                   ELSE IF s \in gone THEN 0 ELSE rows[s]]
        /\ batch' = [batch EXCEPT ![w] = [changed |-> changed, removed |-> gone]]
    /\ MayPublish
    /\ UNCHANGED <<run, acked, control, mailbox, queue, view, repair, faults, excused>>

SendDelta(w) ==
    /\ batch[w] # NoBatch
    /\ \/ Publish(Refreshed(batch[w].changed, batch[w].removed))
       \/ mailbox' = Skipped /\ MayFail
    /\ batch' = [batch EXCEPT ![w] = NoBatch]
    /\ UNCHANGED <<rows, run, acked, control, queue, view, repair, excused>>

(* A progress report or lane transition: the run's state and no rows.       *)
SendProgress ==
    /\ MayPublish
    /\ \/ Publish(Refreshed({}, {}))
       \/ mailbox' = Skipped /\ MayFail
    /\ UNCHANGED <<rows, run, acked, batch, control, queue, view, repair, excused>>

(* The receipt is committed under the lock: it raises the queued event, or  *)
(* queues the run that was read before the commit.                          *)
CommitAck ==
    /\ acked < MaxAcks
    /\ MayPublish
    /\ acked' = acked + 1
    /\ mailbox' =
         IF Carries(mailbox.event)
         THEN [mailbox EXCEPT !.event.ack = Max({@, acked + 1})]
         ELSE [mailbox EXCEPT
                  !.event = [Refreshed({}, {}) EXCEPT !.ack = acked + 1],
                  !.next = @ + 1]
    /\ UNCHANGED <<rows, run, batch, control, queue, view, repair, faults, excused>>

(***************************************************************************)
(* Delivery: the dispatcher thread, Swift's queue and the store.           *)
(***************************************************************************)
Truncated(events) ==
    IF Len(events) > QueueLimit THEN Tail(events) ELSE events

Dispatch ==
    LET event == mailbox.event
        stale == queue # <<>> /\ Last(queue).rev > event.rev
    IN  /\ Carries(event)
        /\ mailbox' = [mailbox EXCEPT !.event = Blank]
        /\ queue' = IF stale THEN queue
                    ELSE IF event.full THEN <<event>>
                    ELSE Truncated(Append(queue, event))
        /\ UNCHANGED <<rows, run, acked, batch, control, view, repair, faults, excused>>

Shown(event) == Upserted(Removed(view.rows, event.removed), event.rows)

(* What a repair replays of an event.                                       *)
Delta(event) == [rev |-> event.rev, from |-> event.from,
                 rows |-> event.rows, removed |-> event.removed]

(* UtteranceGapRepair.observe, over at most BufferLimit deltas.             *)
Buffered(deltas, event) ==
    LET kept == {d \in deltas : d.rev # event.rev} \cup {Delta(event)}
    IN  IF Cardinality(kept) > BufferLimit
        THEN {d \in kept : \E e \in kept : e.rev < d.rev}
        ELSE kept

Observed(held, event) ==
    [held EXCEPT !.on = TRUE, !.target = Max({@, event.rev}),
                 !.deltas = Buffered(@, event)]

(* Mutant: a delta older than the view is applied.                          *)
Stale_Never(event) == FALSE

(* A delayed direct result or callback must not regress the view.           *)
Stale(event) == ~event.full /\ event.rev < view.last

(* apply and reconcileUtterances.                                           *)
Apply(event) ==
    \/ /\ event.full
       /\ view' = [last |-> event.rev, rows |-> event.rows, run |-> event.run,
                   ack |-> Max({view.ack, event.ack})]
       /\ repair' = NoRepair
    \/ /\ Stale(event)
       /\ UNCHANGED <<view, repair>>
    \/ /\ ~event.full /\ event.rev = view.last
       /\ view' = [view EXCEPT !.run = event.run, !.ack = Max({@, event.ack})]
       /\ UNCHANGED repair
    \/ /\ ~event.full /\ ~Stale(event) /\ event.rev # view.last
       /\ view' = [last |-> event.rev, rows |-> Shown(event), run |-> event.run,
                   ack |-> Max({view.ack, event.ack})]
       /\ repair' = IF repair.on \/ event.from > view.last + 1
                    THEN Observed(repair, event) ELSE repair

OldSnapshot(event) ==
    IF event.full /\ event.rev < view.last THEN {"old snapshot"} ELSE {}

(* The merged event carries rows from before a revision it does not cover,  *)
(* onto a view, or a repair's snapshot, that is already past that revision. *)
Bridged ==
    LET event == Merged(queue)
    IN  IF /\ event.from > Head(queue).rev
           /\ event.from <= view.last + 1 \/ Carries(repair.read)
        THEN {"bridged gap"} ELSE {}

Drain ==
    /\ queue # <<>>
    /\ Apply(Merged(queue))
    /\ excused' = excused \cup OldSnapshot(Merged(queue)) \cup Bridged
    /\ queue' = <<>>
    /\ UNCHANGED <<rows, run, acked, batch, control, mailbox, faults>>

(***************************************************************************)
(* runUtteranceGapRepair: read a snapshot stamped with the revision it     *)
(* covers, install it, replay what it does not cover, and read again while *)
(* a gap is left.                                                          *)
(***************************************************************************)
(* full_snapshot_with_remote_truth, under the mailbox's lock: what a        *)
(* snapshot read now covers.                                                *)
Covered == mailbox.next - 1

RepairReads ==
    /\ repair.on /\ ~Carries(repair.read)
    /\ repair' = [repair EXCEPT !.read = [rev |-> Covered, rows |-> rows]]
    /\ UNCHANGED <<rows, run, acked, batch, control, mailbox, queue, view, faults, excused>>

InOrder(deltas) == SetToSortSeq(deltas, LAMBDA d, e : d.rev < e.rev)

Replayed(held, deltas) ==
    FoldLeft(LAMBDA acc, d : Upserted(Removed(acc, d.removed), d.rows),
             held, InOrder(deltas))

(* The last revision reached from the checkpoint without a hole.            *)
Continuous(checkpoint, deltas) ==
    FoldLeft(LAMBDA through, d : IF d.from <= through + 1 THEN d.rev ELSE through,
             checkpoint, InOrder(deltas))

RepairInstalls ==
    LET checkpoint == repair.read.rev
        later      == {d \in repair.deltas : d.rev > checkpoint}
    IN  /\ repair.on /\ Carries(repair.read)
        /\ view' = [view EXCEPT
               !.rows = Replayed(repair.read.rows, later),
               !.last = Max({@, checkpoint} \cup {d.rev : d \in later})]
        /\ repair' = IF Continuous(checkpoint, later) >= repair.target
                     THEN NoRepair
                     ELSE [repair EXCEPT !.deltas = later, !.read = Unread]
        /\ UNCHANGED <<rows, run, acked, batch, control, mailbox, queue, faults, excused>>

(***************************************************************************)
(* Pause and resume: the state is committed, the event published and also  *)
(* returned.  A refused command changes nothing, a resume the provider did *)
(* not take is rolled back; Swift answers both by reading a snapshot.      *)
(***************************************************************************)
Transition ==
    /\ control.at = "idle" /\ run < MaxRun
    /\ MayPublish
    /\ \/ /\ run' = run + 1
          /\ control' = [control EXCEPT !.at = "send"]
          /\ UNCHANGED faults
       \/ /\ control' = [control EXCEPT !.at = "failed"]
          /\ MayFail
          /\ UNCHANGED run
    /\ UNCHANGED <<rows, acked, batch, mailbox, queue, view, repair, excused>>

Reply ==
    LET event == Refreshed({}, {})
    IN  /\ control.at = "send"
        /\ control' = [at |-> "deliver", event |-> event]
        /\ \/ Publish(event)
           \/ mailbox' = Skipped /\ MayFail
        /\ UNCHANGED <<rows, run, acked, batch, queue, view, repair, excused>>

RollsBack ==
    /\ control.at = "send" /\ run < MaxRun
    /\ run' = run + 1
    /\ mailbox' = Enqueued([Refreshed({}, {}) EXCEPT !.run = run + 1])
    /\ control' = [control EXCEPT !.at = "failed"]
    /\ MayFail
    /\ UNCHANGED <<rows, acked, batch, queue, view, repair, excused>>

Snapshot == Event(Covered, TRUE, rows, {})

Reconcile ==
    /\ control.at = "failed"
    /\ control' = [at |-> "deliver", event |-> Snapshot]
    /\ UNCHANGED <<rows, run, acked, batch, mailbox, queue, view, repair, faults, excused>>

Return ==
    /\ control.at = "deliver"
    /\ Apply(control.event)
    /\ excused' = excused \cup OldSnapshot(control.event)
    /\ control' = [at |-> "idle", event |-> Blank]
    /\ UNCHANGED <<rows, run, acked, batch, mailbox, queue, faults>>

Next ==
    \/ \E w \in Senders : CommitBatch(w) \/ SendDelta(w)
    \/ SendProgress \/ CommitAck
    \/ Dispatch \/ Drain
    \/ RepairReads \/ RepairInstalls
    \/ Transition \/ Reply \/ RollsBack \/ Reconcile \/ Return

Spec == Init /\ [][Next]_vars

(* A committed batch is published, a control call returns, and the three    *)
(* readers of the pipeline run whenever they have something to do.          *)
Fairness ==
    /\ \A w \in Senders : WF_vars(SendDelta(w))
    /\ WF_vars(Reply \/ Reconcile \/ Return)
    /\ WF_vars(Dispatch) /\ WF_vars(Drain)
    /\ WF_vars(RepairReads) /\ WF_vars(RepairInstalls)

FairSpec == Spec /\ Fairness

-----------------------------------------------------------------------------
(* Properties. *)

RowSets == [Seqs -> 0 .. MaxRowRev]

Events ==
    [rev : 0 .. MaxRevision, from : 0 .. MaxRevision, full : BOOLEAN,
     rows : RowSets, removed : SUBSET Seqs, run : 0 .. MaxRun, ack : 0 .. MaxAcks]

(* Every value is one the program can hold: an event never claims to start  *)
(* after itself, the queue and a repair's buffer respect their limits, a    *)
(* snapshot lists no removals, and only one event can be its own start 0.   *)
TypeOK ==
    LET sound(e) == e \in Events /\ e.from <= e.rev /\ (e.full => e.removed = {})
    IN  /\ rows \in RowSets /\ run \in 0 .. MaxRun /\ acked \in 0 .. MaxAcks
        /\ batch \in [Senders -> [changed : SUBSET Seqs, removed : SUBSET Seqs]]
        /\ control.at \in {"idle", "send", "failed", "deliver"} /\ sound(control.event)
        /\ sound(mailbox.event) /\ mailbox.broken \in BOOLEAN
        /\ mailbox.next \in 2 .. MaxRevision + 1
        /\ Len(queue) <= QueueLimit /\ \A i \in DOMAIN queue : sound(queue[i])
        /\ view \in [last : 1 .. MaxRevision, rows : RowSets,
                     run : 0 .. MaxRun, ack : 0 .. MaxAcks]
        /\ repair.on \in BOOLEAN /\ repair.target \in 0 .. MaxRevision
        /\ Cardinality(repair.deltas) <= BufferLimit
        /\ \A d \in repair.deltas : d.from <= d.rev /\ d.rows \in RowSets
        /\ repair.read.rows \in RowSets
        /\ faults \in 0 .. MaxFaults /\ excused \subseteq {"old snapshot", "bridged gap"}

InFlight ==
    {e \in Range(queue) \cup {mailbox.event} : Carries(e)}
        \cup (IF control.at = "deliver" THEN {control.event} ELSE {})

(* What the window does not show yet is on its way: the batch is unsent, an *)
(* event that still counts carries it, a repair is reading, or a hole in    *)
(* the revisions is about to be seen.  The mailbox merges, replaces and     *)
(* skips events, Swift's queue drops its oldest and repairs overtake it all.*)
LagExcept(excuses) ==
    \A s \in Seqs : view.rows[s] # rows[s] =>
        \/ excused \cap excuses # {} \/ repair.on \/ mailbox.broken
        \/ \E w \in Senders : s \in batch[w].changed \cup batch[w].removed
        \/ \E e \in InFlight :
              /\ e.full \/ e.rev > view.last
              /\ e.full \/ e.rows[s] # 0 \/ s \in e.removed \/ e.from > view.last + 1

LagIsInFlight == TypeOK /\ LagExcept({"old snapshot", "bridged gap"})

(* "A deletion in the snapshot cannot resurrect stale local data"           *)
(* (runUtteranceGapRepair): the same, when no old snapshot was installed.   *)
NothingResurrected == LagExcept({"old snapshot"})

(* A result or callback that comes late: "A delayed direct result or callback must not regress either the capture *)
(* state or its utterance view" (apply).                                    *)
ViewNeverRegresses == [][view'.last >= view.last]_vars

(* Nor does the capture state go back, unless a snapshot did it.            *)
RunNeverRegresses == [][view'.run >= view.run \/ excused' # {}]_vars

(* In the end the window shows what is stored, the capture state and the    *)
(* projection receipt included, unless the very last revision was skipped   *)
(* or an old snapshot was installed over a newer view.                      *)
WindowCatchesUp ==
    <>[](mailbox.broken \/ excused # {} \/ (view.rows = rows /\ view.run = run /\ view.ack = acked))
=============================================================================
