------------------------- MODULE RealtimeProjection -------------------------
(***************************************************************************)
(* One transcript row from the provider's facts to the topic's document.   *)
(* The collector revises the row's source lane and files auxiliary         *)
(* translation facts in an inbox; facts are placed on the row and compose  *)
(* its target lane; a Final lane raises the desired revision; a projection *)
(* pass writes Final lanes into the block document and acknowledges the    *)
(* revision it loaded; the reader edits acknowledged lanes through a       *)
(* staged mutation.  Store calls are transactions, passes and edits hold   *)
(* the editor guard, everything else runs between their steps, writes may  *)
(* fail and the process may die at any step.                               *)
(*                                                                         *)
(* A text is a sequence of tokens: a source revision, a fact, or an edit.  *)
(* Which audio a fact shares with the row is a choice of the step that     *)
(* depends on it.                                                          *)
(***************************************************************************)
EXTENDS Naturals, Sequences, FiniteSets, SequencesExt

CONSTANTS
    Facts,         \* auxiliary facts, numbered as (epoch, sequence) orders them
    Heard,         \* what language the provider may say each fact was spoken in
    Spoken,        \* the language whose script the row's words are written in
    MaxSource,     \* bound: revisions of the source
    MaxRevisions,  \* bound: revisions of the source and of facts together
    MaxEdits,      \* bound: edits staged
    MaxFaults,     \* bound: times that writes fail
    MaxCrashes     \* bound: deaths of the process

Languages == {"und", "own", "target"}
Target == "target"      \* the language the auxiliary lane translates into

ASSUME ProjectionAssumption ==
    /\ Facts \subseteq Nat /\ IsFiniteSet(Facts)
    /\ Heard \in [Facts -> SUBSET Languages]
    /\ Spoken \in Languages \ {"und"}
    /\ {MaxSource, MaxRevisions, MaxEdits, MaxFaults, MaxCrashes} \subseteq Nat

VARIABLES
    row,        \* the realtime_utterances row and its variants
    inbox,      \* realtime_translation_inbox
    run,        \* the run: capture state, collector, watermarks
    override,   \* realtime_utterance_overrides by language
    staged,     \* notebook_projection_mutations by language
    doc,        \* the open block document and its saved version
    disk,       \* its snapshot with the appended updates
    job,        \* the pass or the edit that holds the editor guard
    startup,    \* what start-up recovery has still to do
    mishap,     \* history: what the storage or a cancelled edit lost
    budget      \* bound: source and fact revisions, edits, faults, crashes

vars == <<run, row, inbox, override, staged, doc, disk, job, startup, mishap,
          budget>>

Word(kind, n) == <<<<kind, n>>>>

NoLane == [role |-> "none", state |-> "none", text |-> <<>>, final |-> FALSE,
           rev |-> 0, proj |-> 0]

NoRow == [there |-> FALSE, label |-> "und", said |-> 0, done |-> FALSE,
          rev |-> 0, lane |-> [l \in Languages |-> NoLane]]

NoEdit == [on |-> FALSE, text |-> <<>>, role |-> "none", expected |-> 0, rev |-> 0]

Blank == [on |-> FALSE, text |-> <<>>, other |-> <<>>]

Idle == [kind |-> "none", at |-> "none", lane |-> "und", live |-> FALSE,
         ack |-> FALSE, upto |-> 0, write |-> Blank, frozen |-> FALSE,
         previous |-> <<>>]

Init ==
    /\ row = NoRow
    /\ inbox = [f \in Facts |-> [state |-> "absent", heard |-> "und", bound |-> FALSE]]
    /\ run = [active |-> TRUE, feed |-> "on", retired |-> FALSE,
              settled |-> FALSE, desired |-> 0, applied |-> 0]
    /\ override = [l \in Languages |-> [rev |-> 0, text |-> <<>>, role |-> "none"]]
    /\ staged = [l \in Languages |-> NoEdit]
    /\ doc = [open |-> FALSE, saved |-> "none", block |-> Blank]
    /\ disk = [base |-> "none", block |-> Blank, broken |-> FALSE, log |-> FALSE]
    /\ job = Idle
    /\ startup = [at |-> "open", todo |-> {}]
    /\ mishap = {}
    /\ budget = [source |-> 0, told |-> 0, edits |-> 0, faults |-> 0, crashes |-> 0]

(***************************************************************************)
(* Store transactions.  A transaction carries the tables it has written    *)
(* and becomes "conflict" or "corrupt" instead of raising.                 *)
(***************************************************************************)
Begun == [row |-> row, inbox |-> inbox, desired |-> run.desired, result |-> "ok"]

Refused(t, why) == [t EXCEPT !.result = why]

Owns(r, l) == r.lane[l].role = "source"
HasSource(r) == \E l \in Languages : Owns(r, l)
SourceDone(r) == \E l \in Languages : Owns(r, l) /\ r.lane[l].final
TargetIsSource(r) == HasSource(r) /\ r.label = Target
Translated(r) == r.lane[Target].role = "translation"
Settled(r) == Translated(r) /\ r.lane[Target].final

UserState == \E l \in Languages : override[l].rev > 0 \/ staged[l].on

(* apply_utterance_overrides fails on an override whose lane is gone. *)
OverridesFit(r) ==
    \A l \in Languages : override[l].rev > 0 => r.lane[l].role = override[l].role

Overlaid(t) ==
    IF t.result = "ok" /\ t.row.there /\ ~OverridesFit(t.row)
    THEN Refused(t, "corrupt") ELSE t

Projected(t, l) ==
    [t EXCEPT !.desired = @ + 1, !.row.lane[l].proj = t.desired + 1]

Placed(t) == {f \in Facts : t.inbox[f].bound /\ t.inbox[f].state \in {"open", "final"}}

Ordered(S) == SetToSortSeq(S, <)

(* What the facts placed on the row say together, in the order spoken. *)
Composed(t) ==
    [text |-> [i \in 1 .. Cardinality(Placed(t)) |->
                 LET f == Ordered(Placed(t))[i] IN <<t.inbox[f].state, f>>],
     final |-> \A f \in Placed(t) : t.inbox[f].state = "final"]

Written(t, lane) ==
    LET u == [t EXCEPT !.row.lane[Target] =
            [role |-> "translation", state |-> lane.state, text |-> lane.text,
             final |-> lane.final, proj |-> @.proj,
             rev |-> IF @.role = "none" THEN 0 ELSE @.rev + 1]]
    IN IF lane.final THEN Projected(u, Target) ELSE u

(* Mutant: a Final translation may be replaced by any other Final one.      *)
MayBeWritten_AnyFinal(current, lane, how) == ~current.final \/ (how = "compose" /\ lane.final)

MayBeWritten(current, lane, how) ==
    \/ ~current.final
    \/ how = "compose" /\ lane.final /\ IsPrefix(current.text, lane.text)

(* upsert_translation_variant_from_conn: a Final lane only grows at its end. *)
WriteLane(t, lane, how) ==
    LET current == t.row.lane[Target]
        same == /\ current.role = "translation"
                /\ lane = [part \in {"state", "text", "final"} |-> current[part]]
        dropped == how # "detach" /\ ~lane.final
    IN IF ~same /\ (Settled(t.row) => MayBeWritten(current, lane, how))
       THEN Written(t, lane)
       ELSE IF same \/ dropped THEN t ELSE Refused(t, "conflict")

Waiting == [state |-> "waiting", text |-> <<>>, final |-> FALSE]
Ready(text, final) == [state |-> "ready", text |-> text, final |-> final]

(* A row that a withdrawal left without source and translation goes away,   *)
(* unless the reader has touched it.                                        *)
Removed(t) ==
    [t EXCEPT !.row = NoRow,
              !.inbox = [f \in Facts |-> [t.inbox[f] EXCEPT !.bound = FALSE]]]

Collected(t) ==
    IF \/ t.result # "ok" \/ t.row.said # 0 \/ UserState
       \/ Translated(t.row) /\ t.row.lane[Target].state = "ready"
    THEN t ELSE Removed(t)

(* adopt_translation_inbox_source_language *)
Mislabelled(r, heard) ==
    /\ SourceDone(r) /\ r.label # Spoken /\ heard = Spoken
    /\ ~UserState

Adopts(t, f) ==
    LET heard == t.inbox[f].heard
    IN /\ t.inbox[f].state # "withdrawn"
       /\ heard \notin {"und", t.row.label}
       /\ t.row.label = "und" \/ Mislabelled(t.row, heard)
       /\ ~(heard = Target /\ Translated(t.row) /\ t.row.lane[Target].state = "ready")

RelabelledLanes(r, heard) ==
    LET kept == IF heard = Target /\ Translated(r)
                THEN [r.lane EXCEPT ![Target] = NoLane] ELSE r.lane
    IN IF ~Owns(r, r.label) THEN kept
       ELSE [kept EXCEPT ![r.label] = NoLane,
                         ![heard] = [r.lane[r.label] EXCEPT !.rev = @ + 1, !.proj = 0]]

Relabelled(t, heard) ==
    LET u == [t EXCEPT !.row.label = heard, !.row.lane = RelabelledLanes(t.row, heard)]
    IN Overlaid(IF Owns(t.row, t.row.label) /\ SourceDone(t.row)
                THEN Projected(u, heard) ELSE u)

Adopted(t, f) == IF Adopts(t, f) THEN Relabelled(t, t.inbox[f].heard) ELSE t

(* claim_auxiliary_final_from_provisional_source: the recording is over, so *)
(* a Final translation takes over the lane of a source that never settled.  *)
OpenSource(r) == HasSource(r) /\ ~SourceDone(r)

Claims(t, f, said) ==
    /\ TargetIsSource(t.row) /\ OpenSource(t.row)
    /\ ~run.active /\ t.inbox[f].state = "final" /\ said.final

Claimed(t, text) ==
    Projected([t EXCEPT !.row.lane[Target] =
        [@ EXCEPT !.role = "translation", !.text = text, !.final = TRUE,
                  !.rev = @ + 1, !.proj = 0]], Target)

(* apply_translation_inbox_to_bound_utterance, once the label is settled.   *)
ToldAs(t, f, said) ==
    IF t.result = "ok" /\ Claims(t, f, said) THEN Claimed(t, said.text)
    ELSE IF t.result # "ok" \/ TargetIsSource(t.row) THEN t
    ELSE IF t.inbox[f].state # "withdrawn" \/ (Placed(t) # {} /\ ~Settled(t.row))
         THEN WriteLane(t, Ready(said.text, said.final /\ ~(OpenSource(t.row) /\ run.active)),
                        "compose")
    ELSE IF Settled(t.row) THEN t
    ELSE Collected(WriteLane(t, Waiting, "replace"))

Told(t, f) == ToldAs(t, f, Composed(t))

Applied(t, f) ==
    IF t.result # "ok" \/ ~t.row.there THEN t ELSE Told(Adopted(t, f), f)

(* Mutant: only what was withdrawn is replayed.                             *)
AppliedAll_WithdrawnOnly(t) ==
    FoldLeft(Applied, t,
        Ordered({f \in Facts : t.inbox[f].bound /\ t.inbox[f].state = "withdrawn"}))

(* Surviving facts first, so that a row they still hold is not collected.   *)
AppliedAll(t) ==
    FoldLeft(Applied, t,
        Ordered(Placed(t)) \o
        Ordered({f \in Facts : t.inbox[f].bound /\ t.inbox[f].state = "withdrawn"}))

Recomposed(t) ==
    IF TargetIsSource(t.row) THEN t
    ELSE IF Placed(t) # {} THEN Applied(t, Ordered(Placed(t))[1])
    ELSE Collected(WriteLane(t, Waiting, "detach"))

(* detach_translation_inbox_item_from_bound_utterance *)
Detached(t, f) ==
    IF t.result # "ok" \/ ~t.row.there THEN t
    ELSE Recomposed([t EXCEPT !.inbox[f].bound = FALSE])

(* bind_translation_inbox_item_within_savepoint; what the source itself says *)
(* is only evidence, and a refused bind leaves the fact without a row.       *)
Evidence(t, f) ==
    TargetIsSource(t.row) /\ (SourceDone(t.row) \/ t.inbox[f].state # "final")

Joined(t, f) == IF t.result # "ok" \/ Evidence(t, f) THEN t ELSE Applied(t, f)

BoundTo(t, f) == Joined([Adopted(t, f) EXCEPT !.inbox[f].bound = TRUE], f)

UnlessRefused(u, t) == IF u.result = "conflict" THEN t ELSE u

Bound(t, f) ==
    IF t.result # "ok" \/ ~t.row.there \/ t.inbox[f].bound
       \/ t.inbox[f].state \notin {"open", "final"}
    THEN t
    ELSE UnlessRefused(BoundTo(t, f), t)

(***************************************************************************)
(* What the collector does with its transactions.                          *)
(***************************************************************************)
Live == run.active /\ run.feed = "on" /\ startup.at = "open"

Kept(t) ==
    /\ row' = t.row
    /\ inbox' = t.inbox
    /\ run' = [run EXCEPT !.desired = t.desired]

(* A failure to persist ends the stream group; the transaction is undone.   *)
FeedFails ==
    /\ run' = [run EXCEPT !.feed = "ending"]
    /\ UNCHANGED <<row, inbox>>

Machine == <<row, inbox>>
Document == <<doc, disk, job, startup, mishap>>
Reader == <<override, staged>>

Try(t) == IF t.result = "ok" THEN Kept(t) ELSE FeedFails

(* upsert_utterance.  The facts in gone no longer share audio with the row. *)
Revised(label, done, gone) ==
    LET lab == IF label = "und" THEN row.label ELSE label
        coalesces == Settled(row) /\ lab = Target
        lanes == [l \in Languages |->
            IF Owns(row, l) \/ (l = lab /\ ~coalesces) THEN NoLane ELSE row.lane[l]]
        said == [role |-> "source", state |-> "ready", final |-> done, proj |-> 0,
                 text |-> Word("source", budget.source + 1),
                 rev |-> IF row.there THEN row.rev + 1 ELSE 0]
        t == [Begun EXCEPT !.row =
            [there |-> TRUE, label |-> lab, said |-> budget.source + 1, done |-> done,
             rev |-> said.rev,
             lane |-> IF coalesces THEN lanes ELSE [lanes EXCEPT ![lab] = said]]]
        u == IF done /\ ~coalesces THEN Projected(t, lab) ELSE t
    IN Overlaid(AppliedAll(FoldLeft(Detached, u, Ordered(gone))))

ReviseSource(label, done, gone) ==
    /\ Live
    /\ ~row.done /\ ~run.retired
    /\ budget.source < MaxSource /\ budget.source + budget.told < MaxRevisions
    /\ Try(Revised(label, done, gone))
    /\ budget' = [budget EXCEPT !.source = @ + 1]
    /\ UNCHANGED <<Reader, Document>>

(* remove_partial_utterance: the facts in found are placed on what is left; *)
(* a row whose translation is Final is never revised again.                 *)
Emptied(t) ==
    IF \/ t.result # "ok" \/ ~t.row.there
       \/ Translated(t.row) /\ t.row.lane[Target].state = "ready"
    THEN t ELSE Removed(t)

Withdrawn(found) ==
    LET t == [Begun EXCEPT !.row = [row EXCEPT
            !.said = 0, !.rev = @ + 1,
            !.lane = [l \in Languages |-> IF Owns(row, l) THEN NoLane ELSE row.lane[l]]]]
    IN Emptied(FoldLeft(Bound, AppliedAll(t), Ordered(found)))

Withdraw(t) ==
    IF t.result # "ok" THEN FeedFails
    ELSE /\ row' = t.row
         /\ inbox' = t.inbox
         /\ run' = [run EXCEPT !.desired = t.desired, !.retired = Settled(t.row)]

WithdrawSource(found) ==
    /\ Live
    /\ row.there /\ ~row.done /\ HasSource(row)
    /\ Withdraw(Withdrawn(found))
    /\ UNCHANGED <<Reader, Document, budget>>

(* initialize_waiting_translation_variants *)
OpenWaiting ==
    /\ Live
    /\ row.there /\ ~TargetIsSource(row) /\ row.lane[Target] = NoLane
    /\ Kept(WriteLane(Begun, Waiting, "replace"))
    /\ UNCHANGED <<Reader, Document, budget>>

(* upsert_translation_inbox_item.  A Final fact is immutable, and a refused *)
(* revision is dropped with the feed unharmed.  stays: the revised fact     *)
(* still belongs on its row; finds: an unbound one has one row to go to.    *)
Revisited(t, f, stays) ==
    IF ~inbox[f].bound THEN t ELSE IF stays THEN Applied(t, f) ELSE Detached(t, f)

Filed(f, state, heard, stays, finds) ==
    LET t == Revisited([Begun EXCEPT !.inbox[f] = [@ EXCEPT !.state = state, !.heard = heard]],
                       f, stays)
    IN IF finds THEN Bound(t, f) ELSE t

KeepFiled(t) ==
    \/ t.result = "ok" /\ Kept(t)
    \/ t.result = "corrupt" /\ FeedFails

FileFact(f, state, heard, stays, finds) ==
    /\ Live
    /\ inbox[f].state # "final"
    /\ inbox[f].state = "absent" => state # "withdrawn"
    /\ inbox[f].state # state \/ inbox[f].heard # heard
    /\ budget.source + budget.told < MaxRevisions
    /\ budget' = [budget EXCEPT !.told = @ + 1]
    /\ KeepFiled(Filed(f, state, heard, stays, finds))
    /\ UNCHANGED <<Reader, Document>>

(* The live matcher and settlement: bind_translation_inbox_item and its     *)
(* callers place a fact whenever a row qualifies.                           *)
PlaceFact(f) ==
    /\ Live
    /\ row.there /\ ~inbox[f].bound /\ inbox[f].state \in {"open", "final"}
    /\ Try(Bound(Begun, f))
    /\ UNCHANGED <<Reader, Document, budget>>

(***************************************************************************)
(* The end of the recording.                                               *)
(***************************************************************************)
EndFeed ==
    /\ Live
    /\ run' = [run EXCEPT !.feed = "ending"]
    /\ UNCHANGED <<row, inbox, Reader, Document, budget>>

(* mark_waiting_translation_variants_unavailable *)
MarkUnavailable ==
    /\ run.active /\ run.feed = "ending"
    /\ row' = IF Translated(row) /\ row.lane[Target].state = "waiting"
              THEN [row EXCEPT !.lane[Target].state = "unavailable",
                               !.lane[Target].rev = @ + 1]
              ELSE row
    /\ run' = [run EXCEPT !.feed = "off"]
    /\ UNCHANGED <<inbox, Reader, Document, budget>>

Stop ==
    /\ run.active /\ run.feed = "off"
    /\ run' = [run EXCEPT !.active = FALSE, !.settled = FALSE]
    /\ UNCHANGED <<row, inbox, Reader, Document, budget>>

(* reconcile_translation_inbox_after_recovery: replays the row's facts,     *)
(* then places those that still have a row to go to.                        *)
Reconciled(finding) ==
    FoldLeft(Bound, UnlessRefused(AppliedAll(Begun), Begun), Ordered(finding))

Settle(t) ==
    IF t.result = "ok"
    THEN /\ row' = t.row
         /\ inbox' = t.inbox
         /\ run' = [run EXCEPT !.desired = t.desired, !.settled = TRUE]
    ELSE run' = [run EXCEPT !.settled = TRUE] /\ UNCHANGED Machine

Reconcile(finding) ==
    /\ ~run.active /\ ~run.settled
    /\ startup.at \in {"open", "reconcile"}
    /\ Settle(Reconciled(finding))
    /\ startup' = IF startup.at = "open" THEN startup ELSE [startup EXCEPT !.at = "project"]
    /\ UNCHANGED <<Reader, doc, disk, job, mishap, budget>>

(***************************************************************************)
(* The block document.  An append writes the changes since the last saved  *)
(* version after the snapshot; one cut short hides whatever follows it     *)
(* until a snapshot is written in full, which is not atomic.               *)
(***************************************************************************)
Shown == IF disk.base = "ok" THEN disk.block ELSE Blank

Opened ==
    IF doc.open THEN doc
    ELSE [open |-> TRUE, block |-> Shown,
          saved |-> IF disk.base = "none" THEN "none" ELSE "current"]

CanOpen == doc.open \/ disk.base # "torn"

Overwritten(d, block) ==
    [d EXCEPT !.block = block,
              !.saved = IF block # d.block /\ @ = "current" THEN "behind" ELSE @]

(* append_block_document_updates *)
Appended ==
    /\ disk' = IF doc.saved = "current" THEN disk
               ELSE [disk EXCEPT !.log = TRUE,
                                 !.block = IF disk.broken THEN @ ELSE doc.block]
    /\ doc' = [doc EXCEPT !.saved = "current"]
    /\ mishap' = IF disk.broken /\ doc.saved # "current"
                 THEN mishap \cup {"unreadable"} ELSE mishap

(* save_block_document *)
Saved ==
    /\ disk' = [base |-> "ok", block |-> doc.block, broken |-> FALSE, log |-> FALSE]
    /\ doc' = [doc EXCEPT !.saved = "current"]

(* What a failing save leaves: the old snapshot, or a truncated one.        *)
SaveFails == disk' \in {disk, [disk EXCEPT !.base = "torn"]}

Faults(k) ==
    /\ budget.faults + k <= MaxFaults
    /\ budget' = [budget EXCEPT !.faults = @ + k]

(***************************************************************************)
(* sync_capture_into_t2_transcript, under the editor guard.                *)
(***************************************************************************)
Visible(l) == IF override[l].rev > 0 THEN override[l].text ELSE row.lane[l].text

(* t2_machine_block_write over what the reader sees of the Final lanes.     *)
FinalBlock ==
    LET source == {l \in Languages : Owns(row, l) /\ row.lane[l].final}
    IN [on |-> source # {} \/ Settled(row),
        text |-> IF source = {} THEN <<>> ELSE Visible(CHOOSE l \in source : TRUE),
        other |-> IF Settled(row) THEN Visible(Target) ELSE <<>>]

Frozen == Translated(row) /\ override[Target].rev > 0

Pending == run.desired > run.applied

LoadPass ==
    /\ job.at = "none"
    /\ startup.at \in {"open", "project"}
    /\ \/ Pending /\ OverridesFit(row)
       \/ ~Pending /\ ~run.active /\ disk.log
    /\ CanOpen
    /\ job' = [Idle EXCEPT !.kind = "pass", !.live = run.active, !.ack = Pending,
                  !.at = IF Pending THEN "write" ELSE "save",
                  !.upto = run.desired, !.write = FinalBlock, !.frozen = Frozen]
    /\ doc' = Opened
    /\ UNCHANGED <<Machine, run, Reader, disk, startup, mishap, budget>>

(* apply_machine_upsert: the text is overwritten, lanes are never removed   *)
(* and a lane the reader took over is left alone.                           *)
Upserted(block, write, frozen) ==
    IF ~write.on THEN block
    ELSE IF ~block.on THEN write
    ELSE [on |-> TRUE, text |-> write.text,
          other |-> IF write.other = <<>> \/ frozen THEN block.other ELSE write.other]

WritePass ==
    /\ job.kind = "pass" /\ job.at = "write"
    /\ doc' = Overwritten(doc, Upserted(doc.block, job.write, job.frozen))
    /\ job' = [job EXCEPT !.at = "save"]
    /\ UNCHANGED <<Machine, run, Reader, disk, startup, mishap, budget>>

AfterPass == IF startup.at = "project"
             THEN [at |-> "replay", todo |-> {l \in Languages : staged[l].on}]
             ELSE startup

(* A live pass appends; a log grown too large is folded into a snapshot.    *)
Incremental == job.live /\ doc.saved # "none" /\ disk.base # "none"
Compacts == ~Incremental \/ disk.log

SavePass ==
    /\ job.kind = "pass" /\ job.at = "save"
    /\ \/ Incremental /\ Appended
       \/ Compacts /\ Saved /\ UNCHANGED mishap
    /\ job' = IF job.ack THEN [job EXCEPT !.at = "ack"] ELSE Idle
    /\ startup' = IF job.ack THEN startup ELSE AfterPass
    /\ UNCHANGED <<Machine, run, Reader, budget>>

(* An append that fails may leave part of a record; a snapshot follows.     *)
AppendFails ==
    /\ job.kind = "pass" /\ job.at = "save"
    /\ Incremental /\ doc.saved = "behind"
    /\ disk' = [disk EXCEPT !.broken = TRUE, !.log = TRUE]
    /\ job' = [job EXCEPT !.live = FALSE]
    /\ Faults(1)
    /\ UNCHANGED <<Machine, run, Reader, doc, startup, mishap>>

PassFails ==
    /\ job.kind = "pass" /\ job.at \in {"save", "ack"}
    /\ \/ job.at = "save" /\ Compacts /\ SaveFails
       \/ job.at = "ack" /\ UNCHANGED disk
    /\ job' = Idle
    /\ startup' = AfterPass
    /\ Faults(1)
    /\ UNCHANGED <<Machine, run, Reader, doc, mishap>>

(* Mutant: the acknowledged revision is read again after the save.          *)
AckPass_Current ==
    /\ job.kind = "pass" /\ job.at = "ack"
    /\ run' = [run EXCEPT !.applied = run.desired]
    /\ job' = Idle
    /\ startup' = AfterPass
    /\ UNCHANGED <<Machine, Reader, doc, disk, mishap, budget>>

(* ack_realtime_loro_projection of the revision that was loaded.            *)
AckPass ==
    /\ job.kind = "pass" /\ job.at = "ack"
    /\ run' = [run EXCEPT !.applied = IF job.upto > @ THEN job.upto ELSE @]
    /\ job' = Idle
    /\ startup' = AfterPass
    /\ UNCHANGED <<Machine, Reader, doc, disk, mishap, budget>>

(* Start-up skips a session with nothing pending, and isolates a pass that  *)
(* cannot read its rows or open its document.                               *)
SkipPass ==
    /\ startup.at = "project" /\ job.at = "none"
    /\ ~Pending \/ ~OverridesFit(row) \/ ~CanOpen
    /\ startup' = AfterPass
    /\ UNCHANGED <<Machine, run, Reader, doc, disk, job, mishap, budget>>

(***************************************************************************)
(* An edit: staged, applied to the document, saved, committed as an        *)
(* override; the editor guard is held throughout.                          *)
(***************************************************************************)
Editable(l) ==
    LET lane == row.lane[l]
    IN /\ lane.role # "none" /\ lane.state = "ready" /\ lane.final
       /\ lane.proj # 0 /\ lane.proj <= run.applied

(* What the staged mutation was based on still holds. *)
Fresh(l) ==
    /\ row.lane[l].role = staged[l].role
    /\ row.lane[l].rev = staged[l].rev
    /\ override[l].rev = staged[l].expected

Editing(l) == [Idle EXCEPT !.kind = "edit", !.at = "write", !.lane = l]

(* stage_utterance_variant_replacement *)
StageEdit(l) ==
    /\ job.at = "none" /\ startup.at = "open"
    /\ budget.edits < MaxEdits
    /\ Editable(l) /\ ~staged[l].on
    /\ staged' = [staged EXCEPT ![l] =
           [on |-> TRUE, role |-> row.lane[l].role, rev |-> row.lane[l].rev,
            expected |-> override[l].rev, text |-> Word("user", budget.edits + 1)]]
    /\ budget' = [budget EXCEPT !.edits = @ + 1]
    /\ job' = Editing(l)
    /\ UNCHANGED <<Machine, run, override, doc, disk, startup, mishap>>

(* The same edit again, while its mutation is pending.                      *)
EditAgain(l) ==
    /\ job.at = "none" /\ startup.at = "open"
    /\ staged[l].on /\ Editable(l) /\ Fresh(l)
    /\ job' = Editing(l)
    /\ UNCHANGED <<Machine, run, Reader, doc, disk, startup, mishap, budget>>

ReplayEdit(l) ==
    /\ job.at = "none" /\ startup.at = "replay" /\ l \in startup.todo
    /\ job' = Editing(l)
    /\ UNCHANGED <<Machine, run, Reader, doc, disk, startup, mishap, budget>>

EndStartup ==
    /\ startup.at = "replay" /\ startup.todo = {}
    /\ startup' = [startup EXCEPT !.at = "open"]
    /\ UNCHANGED <<Machine, run, Reader, doc, disk, job, mishap, budget>>

Field(block, role) == IF role = "source" THEN block.text ELSE block.other

WithField(block, role, text) ==
    IF role = "source" THEN [block EXCEPT !.text = text]
    ELSE [block EXCEPT !.other = text]

EditDone ==
    /\ job' = Idle
    /\ startup' = [startup EXCEPT !.todo = @ \ {job.lane}]

(* cancel_projection_mutation_after_error; the document may hold the        *)
(* cancelled text from an earlier attempt.                                  *)
Cancelled(l) ==
    /\ staged' = [staged EXCEPT ![l] = NoEdit]
    /\ mishap' = IF staged[l].text \in {Field(doc'.block, staged[l].role),
                                       Field(disk'.block, staged[l].role)}
                 THEN mishap \cup {"cancelled"} ELSE mishap

HasField(block, role) == block.on /\ (role = "source" \/ block.other # <<>>)

EditWrite ==
    LET l == job.lane
        block == Opened.block
    IN /\ job.kind = "edit" /\ job.at = "write"
       /\ CanOpen /\ HasField(block, staged[l].role)
       /\ doc' = Overwritten(Opened, WithField(block, staged[l].role, staged[l].text))
       /\ job' = [job EXCEPT !.at = "save", !.previous = Field(block, staged[l].role)]
       /\ UNCHANGED <<Machine, run, Reader, disk, startup, mishap, budget>>

(* The document does not open, or lacks the block or the lane.              *)
EditRefused ==
    /\ job.kind = "edit" /\ job.at = "write"
    /\ ~CanOpen \/ ~HasField(Opened.block, staged[job.lane].role)
    /\ doc' = IF CanOpen THEN Opened ELSE doc
    /\ UNCHANGED disk
    /\ Cancelled(job.lane)
    /\ EditDone
    /\ UNCHANGED <<Machine, run, override, budget>>

EditSave ==
    /\ job.kind = "edit" /\ job.at = "save"
    /\ Saved
    /\ job' = [job EXCEPT !.at = "commit"]
    /\ UNCHANGED <<Machine, run, Reader, startup, mishap, budget>>

(* The block is put back in memory; a cancellation that fails as well, of   *)
(* the same fault, leaves the mutation pending.                             *)
EditSaveFails ==
    /\ job.kind = "edit" /\ job.at = "save"
    /\ SaveFails
    /\ doc' = Overwritten(doc, WithField(doc.block, staged[job.lane].role, job.previous))
    /\ Cancelled(job.lane) \/ UNCHANGED <<staged, mishap>>
    /\ Faults(1)
    /\ EditDone
    /\ UNCHANGED <<Machine, run, override>>

(* commit_projection_mutation; a refusal leaves the mutation pending.       *)
MayCommit(l) == Editable(l) /\ Fresh(l) /\ OverridesFit(row)

EditCommit ==
    LET l == job.lane
    IN /\ job.kind = "edit" /\ job.at = "commit"
       /\ IF MayCommit(l)
          THEN /\ override' = [override EXCEPT ![l] =
                      [rev |-> @.rev + 1, text |-> staged[l].text, role |-> staged[l].role]]
               /\ staged' = [staged EXCEPT ![l] = NoEdit]
          ELSE UNCHANGED Reader
       /\ EditDone
       /\ UNCHANGED <<Machine, run, doc, disk, mishap, budget>>

CommitFails ==
    /\ job.kind = "edit" /\ job.at = "commit"
    /\ Faults(1)
    /\ EditDone
    /\ UNCHANGED <<Machine, run, Reader, doc, disk, mishap>>

(***************************************************************************)
(* The process dies; a write under way may be cut short, and the cache that *)
(* spares a settled run its reconciliation may not have been saved.         *)
(***************************************************************************)
CutShort ==
    LET snapshot == job.kind = "edit" \/ Compacts
        append == job.kind = "pass" /\ Incremental /\ doc.saved = "behind"
    IN  {d \in {disk, [disk EXCEPT !.base = "torn"], [disk EXCEPT !.broken = TRUE, !.log = TRUE]} :
            \/ d = disk
            \/ job.at = "save" /\ snapshot /\ d.base = "torn"
            \/ job.at = "save" /\ append /\ d.broken /\ d.base = disk.base}

Crash ==
    /\ budget.crashes < MaxCrashes
    /\ budget' = [budget EXCEPT !.crashes = @ + 1]
    /\ disk' \in CutShort
    /\ doc' = [open |-> FALSE, saved |-> "none", block |-> Blank]
    /\ job' = Idle
    /\ \E settled \in {FALSE, run.settled /\ ~run.active} :
          /\ run' = [run EXCEPT !.active = FALSE, !.feed = "off", !.settled = settled]
          /\ startup' = [at |-> IF settled THEN "project" ELSE "reconcile", todo |-> {}]
    /\ UNCHANGED <<Machine, Reader, mishap>>

(***************************************************************************)
(* The system.                                                             *)
(***************************************************************************)
Unplaced == {f \in Facts : ~inbox[f].bound /\ inbox[f].state \in {"open", "final"}}

Collector ==
    \/ \E label \in {"und", Spoken}, done \in BOOLEAN, gone \in SUBSET Facts :
          /\ \A f \in gone : inbox[f].bound
          /\ ReviseSource(label, done, gone)
    \/ \E found \in SUBSET Unplaced : WithdrawSource(found)
    \/ OpenWaiting
    \/ \E f \in Facts :
          \/ \E state \in {"open", "final", "withdrawn"}, heard \in Heard[f],
                stays \in {TRUE, ~inbox[f].bound}, finds \in {FALSE, row.there} :
                FileFact(f, state, heard, stays, finds)
          \/ PlaceFact(f)
    \/ EndFeed \/ MarkUnavailable \/ Stop
    \/ \E finding \in SUBSET Unplaced : Reconcile(finding)

Pass == LoadPass \/ WritePass \/ SavePass \/ AckPass \/ AppendFails \/ PassFails \/ SkipPass

Edit ==
    \/ \E l \in Languages : StageEdit(l) \/ EditAgain(l) \/ ReplayEdit(l)
    \/ EditWrite \/ EditRefused \/ EditSave \/ EditSaveFails
    \/ EditCommit \/ CommitFails \/ EndStartup

Next == Collector \/ Pass \/ Edit \/ Crash

Spec == Init /\ [][Next]_vars

(***************************************************************************)
(* Properties.                                                             *)
(***************************************************************************)
Token == {"source", "open", "final", "user"} \X Nat
Text == Seq(Token)
Role == {"none", "source", "translation"}
Block == [on : BOOLEAN, text : Text, other : Text]

(* Every table, the document and the guard's holder keep their shapes.      *)
TypeOK ==
    /\ row \in [there : BOOLEAN, label : Languages, said : Nat, done : BOOLEAN, rev : Nat,
                lane : [Languages -> [role : Role, text : Text, final : BOOLEAN, rev : Nat,
                    proj : Nat, state : {"none", "ready", "waiting", "unavailable"}]]]
    /\ inbox \in [Facts -> [state : {"absent", "open", "final", "withdrawn"},
                            heard : Languages, bound : BOOLEAN]]
    /\ run \in [active : BOOLEAN, feed : {"on", "ending", "off"}, retired : BOOLEAN,
                settled : BOOLEAN, desired : Nat, applied : 0 .. run.desired]
    /\ override \in [Languages -> [rev : Nat, text : Text, role : Role]]
    /\ staged \in [Languages ->
                   [on : BOOLEAN, text : Text, role : Role, expected : Nat, rev : Nat]]
    /\ doc \in [open : BOOLEAN, saved : {"none", "behind", "current"}, block : Block]
    /\ disk \in [base : {"none", "ok", "torn"}, block : Block, broken : BOOLEAN, log : BOOLEAN]
    /\ job.kind \in {"none", "pass", "edit"} /\ job.lane \in Languages
    /\ startup \in [at : {"open", "reconcile", "project", "replay"}, todo : SUBSET Languages]
    /\ mishap \subseteq {"unreadable", "cancelled"}

(* An acknowledged or overridden Final lane shows its text in the document *)
(* on disk, or the text of an edit of it that is still under way: the      *)
(* applied revision never gets ahead of what was written.                  *)
AppliedIsWritten ==
    \A l \in Languages :
        LET lane == row.lane[l]
            shown == Field(Shown, lane.role)
        IN /\ lane.role # "none" /\ lane.state = "ready" /\ lane.final /\ lane.proj # 0
           /\ lane.proj <= run.applied \/ override[l].rev > 0
           => \/ shown = Visible(l)
              \/ \E m \in Languages :
                    staged[m].on /\ staged[m].role = lane.role /\ shown = staged[m].text

(* The same while the snapshot is whole, no append followed a torn record   *)
(* and no retried edit was cancelled: what the storage can lose is lost by  *)
(* these three alone.                                                       *)
AppliedIsWrittenUnlessMishap ==
    mishap = {} /\ disk.base # "torn" => AppliedIsWritten

Tells(r, item, f) == Contains(r.lane[Target].text, <<item.state, f>>)

(* A fact placed on a row is told by it: the row is there, and unless the   *)
(* target language is the one spoken, its translation is ready and, while   *)
(* it is not Final, holds the fact's words as they now stand.               *)
LaneHoldsItsFacts ==
    /\ TypeOK
    /\ \A f \in Facts :
          inbox[f].bound /\ inbox[f].state \in {"open", "final"} =>
            /\ row.there
            /\ \/ TargetIsSource(row)
               \/ /\ Translated(row) /\ row.lane[Target].state = "ready"
                  /\ Settled(row) \/ Tells(row, inbox[f], f)

(* Once a stopped recording is reconciled, a Final fact placed on a row is  *)
(* told by it, a Final translation included: "the row's other segments      *)
(* still say something: the lane is what they say".                         *)
FinalFactsAreShown ==
    \A f \in Facts :
        run.settled /\ inbox[f].bound /\ inbox[f].state = "final" /\ ~TargetIsSource(row) =>
            Tells(row, inbox[f], f)

(* A Final translation only grows at its end, holds every fact of its row   *)
(* whenever it settles or grows, and a Final source keeps its words,        *)
(* whatever arrives late and whatever start-up replays.                     *)
SettledOnlyGrows ==
    [][/\ Settled(row) =>
            Settled(row') /\ IsPrefix(row.lane[Target].text, row'.lane[Target].text)
       /\ Settled(row') /\ row'.lane[Target].text # row.lane[Target].text =>
            \A f \in Facts :
                inbox'[f].bound /\ inbox'[f].state = "final" => Tells(row', inbox'[f], f)
       /\ \A l \in Languages : Owns(row, l) /\ row.lane[l].final =>
            \E m \in Languages :
                Owns(row', m) /\ row'.lane[m].final /\ row'.lane[m].text = row.lane[l].text]_vars

(* Revising the source of a row whose translation is still open does not    *)
(* end the feed: the facts on the row are replayed by every revision, and   *)
(* none of them may refuse it.                                              *)
RevisionKeepsFeed ==
    [][budget'.source # budget.source /\ ~Settled(row) => run'.feed = run.feed]_vars

(* An edit left pending can be finished: the lane it was staged on has not  *)
(* moved since, so that start-up "replays the idempotent verb and finishes  *)
(* only the override commit".                                               *)
StagedCanFinish ==
    job.kind # "edit" => \A l \in Languages : staged[l].on => Fresh(l)

=============================================================================
