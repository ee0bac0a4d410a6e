----------------------------- MODULE SessionMove -----------------------------
(***************************************************************************)
(* A stopped recording moves to another notebook.  It owns a stretch of    *)
(* the notebook's transcript document, the lines spoken and the remarks    *)
(* written among them, and a section of each flat document.  The database  *)
(* says which notebook is its home.  A move writes the target documents,   *)
(* flips the pointers and clears the source; peers move it too, a purge    *)
(* erases it, and the user, the projectors and the flusher go on writing.  *)
(*                                                                         *)
(* A block's content is a version, 0 where the document has none of it.    *)
(***************************************************************************)
EXTENDS Naturals, SequencesExt

CONSTANTS
    Topics,         \* notebooks the user made
    Unfiled,        \* the one that holds what belongs to no topic
    Calls,          \* calls of move_session_to_notebook that can be open at once
    Tabs,           \* the documents of a notebook, in bootstrap order
    MaxVersion,     \* bound on the versions written
    Kinds,          \* which of "fault", "crash", "peer" and "deletion" can happen
    MaxTroubles     \* bound on them all

ASSUME MoveAssumption ==
    /\ Unfiled \notin Topics
    /\ Tabs \in Seq({"realtime", "async", "note"}) /\ Tabs # <<>>
    /\ MaxVersion \in Nat \ {0}
    /\ Kinds \subseteq {"fault", "crash", "peer", "deletion"}
    /\ MaxTroubles \in Nat

Notebooks == Topics \cup {Unfiled}

Sections(tab) == IF tab = "realtime" THEN {"line", "remark"} ELSE {tab}

Blocks == UNION {Sections(tab) : tab \in ToSet(Tabs)}

VARIABLES
    mem,     \* the documents as they are open in the process
    disk,    \* their snapshots
    home,    \* main DB: the notebook the session, its run and its rows point at
    live,    \* main DB: the notebooks that are not deleted
    call,    \* the calls
    writer,  \* a projector that has looked up where to write
    owed,    \* a move by a peer whose transcript is still to follow
    purge,   \* Delete Forever: "no", "begun", "erased"
    troubles,  \* failed steps, crashes, peers' moves and deleted topics so far
    kept,    \* history: the newest version of a block the home has saved
    mishap   \* history: what went wrong so far

vars == <<mem, disk, home, live, call, writer, owed, purge, troubles, kept, mishap>>

documents == <<mem, disk>>
database == <<home, live, purge>>

Document == [Blocks -> 0..MaxVersion]
Nothing == [b \in Blocks |-> 0]

Call == [at : {"idle", "planned", "copy", "commit", "undo", "clear"},
         from : Notebooks, to : Notebooks, tab : 1..Len(Tabs)]
Idle == [at |-> "idle", from |-> Unfiled, to |-> Unfiled, tab |-> 1]

NoPath == [from |-> Unfiled, to |-> Unfiled]
Path == [from : Notebooks, to : Notebooks]

NoOne == [at |-> Unfiled, on |-> FALSE]

(* A recording that has been transcribed, with a remark written into it; the *)
(* async transcript is still to come.                                        *)
Init ==
    /\ home \in Notebooks
    /\ kept = [b \in Blocks |-> IF b = "async" THEN 0 ELSE 1]
    /\ mem = [n \in Notebooks |-> IF n = home THEN kept ELSE Nothing]
    /\ disk = mem
    /\ live = Notebooks
    /\ call = [m \in Calls |-> Idle]
    /\ writer = NoOne
    /\ owed = NoPath
    /\ purge = "no"
    /\ troubles = 0
    /\ mishap = {}

(* EDITOR_DOCUMENT_MUTATION_LOCK: a call holds it from its first copy to    *)
(* its end; every other writer takes it for one step.                       *)
EditorIsFree == \A m \in Calls : call[m].at \in {"idle", "planned"}

Trouble(kind) == kind \in Kinds /\ troubles < MaxTroubles /\ troubles' = troubles + 1

Fault == Trouble("fault")

Blame(names) == mishap' = mishap \cup names

Larger(v, w) == IF v < w THEN w ELSE v
Smaller(v, w) == IF v < w THEN v ELSE w

(* A conjunct of every action: the home has what is both open and on disk. *)
Remember == kept' = [b \in Blocks |-> Larger(kept[b], Smaller(mem'[home][b], disk'[home][b]))]

-----------------------------------------------------------------------------
(* Sections of documents.                                                  *)

(* session_slice: without one of the session's own lines there is no slice,  *)
(* whatever remarks are left.                                                *)
Slice(doc, tab) ==
    {b \in Sections(tab) : doc[b] # 0 /\ (tab = "realtime" => doc["line"] # 0)}

(* splice_session_slice, copy_flat_section: what is there is not replaced.   *)
Spliced(doc, from, tab) ==
    [b \in Blocks |-> IF b \in Slice(from, tab) /\ doc[b] = 0 THEN from[b] ELSE doc[b]]

Without(doc, tab) == [b \in Blocks |-> IF b \in Slice(doc, tab) THEN 0 ELSE doc[b]]

(* A snapshot holds the whole document.                                      *)
Snapshot(old, doc, tab) == [b \in Blocks |-> IF b \in Sections(tab) THEN doc[b] ELSE old[b]]

Save(n, doc, tab) ==
    /\ mem' = [mem EXCEPT ![n] = doc]
    /\ disk' = [disk EXCEPT ![n] = Snapshot(@, doc, tab)]

(* The document is changed and its save fails, or it was not even changed.   *)
LeaveUnsaved(n, doc) ==
    /\ \E left \in {mem[n], doc} : mem' = [mem EXCEPT ![n] = left]
    /\ disk' = disk

(* What is in the copy's place, open or on disk, is older than its original. *)
KeepsOlder(n, from, tab) ==
    \E b \in Slice(from, tab) :
        mem[n][b] # 0 /\ (mem[n][b] < from[b] \/ disk[n][b] < from[b])

-----------------------------------------------------------------------------
(* move_session_to_notebook_inner.                                         *)

Goto(m, at) == call' = [call EXCEPT ![m].at = at, ![m].tab = 1]

NextTab(m, at) ==
    IF call[m].tab < Len(Tabs) THEN call' = [call EXCEPT ![m].tab = @ + 1]
    ELSE IF at = "idle" THEN call' = [call EXCEPT ![m] = Idle]
    ELSE Goto(m, at)

(* build_session_move_plan.                                                *)
Movable(from, to) == from = home /\ from # to /\ {from, to} \subseteq live /\ purge = "no"

(* plan_session_move: the plan is made before the editor is asked for.     *)
Plan(m) ==
    /\ call[m].at = "idle"
    /\ \E to \in Notebooks :
         /\ Movable(home, to)
         /\ call' = [call EXCEPT ![m] = [at |-> "planned", from |-> home, to |-> to, tab |-> 1]]
    /\ UNCHANGED <<documents, database, writer, owed, troubles, mishap>>
    /\ Remember

TakeEditor(m) ==
    /\ call[m].at = "planned" /\ EditorIsFree
    /\ Goto(m, "copy")
    /\ UNCHANGED <<documents, database, writer, owed, troubles, mishap>>
    /\ Remember

(* copy_section_into_target: nothing is saved where nothing was added.     *)
CopySection(m) ==
    LET tab == Tabs[call[m].tab]
        from == mem[call[m].from]
        to == mem[call[m].to]
        copy == Spliced(to, from, tab)
    IN  /\ call[m].at = "copy"
        /\ \/ /\ IF copy = to THEN UNCHANGED documents ELSE Save(call[m].to, copy, tab)
              /\ NextTab(m, "commit")
              /\ Blame(IF KeepsOlder(call[m].to, from, tab) THEN {"kept older"} ELSE {})
              /\ UNCHANGED troubles
           \/ /\ Fault /\ LeaveUnsaved(call[m].to, copy)
              /\ Goto(m, "undo")
              /\ UNCHANGED mishap
        /\ UNCHANGED <<database, writer, owed>>
        /\ Remember

(* A mutant: the plan is trusted. *)
CommitMove_Trusting(m) ==
    /\ call[m].at = "commit"
    /\ home' = call[m].to
    /\ Goto(m, "clear")
    /\ Blame(IF owed = NoPath THEN {} ELSE {"stranded"})
    /\ UNCHANGED <<documents, live, purge, writer, owed, troubles>>
    /\ Remember

(* commit_session_move: the plan is made again under the write lock.       *)
CommitMove(m) ==
    /\ call[m].at = "commit"
    /\ \/ /\ Movable(call[m].from, call[m].to)
          /\ home' = call[m].to
          /\ Goto(m, "clear")
          /\ Blame(IF owed = NoPath THEN {} ELSE {"stranded"})
          /\ UNCHANGED troubles
       \/ /\ IF Movable(call[m].from, call[m].to) THEN Fault ELSE UNCHANGED troubles
          /\ Goto(m, "undo")
          /\ UNCHANGED <<home, mishap>>
    /\ UNCHANGED <<documents, live, purge, writer, owed>>
    /\ Remember

(* remove_session_slice, remove_flat_section: a flat document that has none *)
(* of the section is not saved, and neither is a source without a slice.    *)
Removed(n, tab, always) ==
    IF Slice(mem[n], tab) = {} /\ ~always THEN UNCHANGED documents
    ELSE Save(n, Without(mem[n], tab), tab)

(* What the home holds, or what is still to follow a peer's move to it.      *)
RemovesFromHome(n, tab) ==
    /\ n = home \/ (owed # NoPath /\ n = owed.from /\ tab = "realtime")
    /\ Slice(mem[n], tab) # {}

(* roll_back_copied_sections: best effort, a document after the other.     *)
UndoCopy(m) ==
    LET tab == Tabs[call[m].tab]
        to == call[m].to
    IN  /\ call[m].at = "undo"
        /\ NextTab(m, "idle")
        /\ \/ /\ Removed(to, tab, tab = "realtime")
              /\ Blame(IF RemovesFromHome(to, tab) THEN {"erased home"} ELSE {})
              /\ UNCHANGED troubles
           \/ /\ Fault /\ LeaveUnsaved(to, Without(mem[to], tab))
              /\ Blame({"leftover"} \cup IF RemovesFromHome(to, tab) THEN {"erased home"} ELSE {})
        /\ UNCHANGED <<database, writer, owed>>
        /\ Remember

(* clear_section_from_source: the first failure ends the call.             *)
ClearSection(m) ==
    LET tab == Tabs[call[m].tab]
        from == call[m].from
    IN  /\ call[m].at = "clear"
        /\ \/ /\ Removed(from, tab, FALSE)
              /\ NextTab(m, "idle")
              /\ Blame(IF RemovesFromHome(from, tab) THEN {"erased home"} ELSE {})
              /\ UNCHANGED troubles
           \/ /\ Fault /\ LeaveUnsaved(from, Without(mem[from], tab))
              /\ call' = [call EXCEPT ![m] = Idle]
              /\ Blame({"leftover"} \cup IF RemovesFromHome(from, tab) THEN {"erased home"} ELSE {})
        /\ UNCHANGED <<database, writer, owed>>
        /\ Remember

(* soft_delete_empty_notebook, with which delete_notebook ends.            *)
DeleteTopic(n) ==
    /\ n \in live \ {Unfiled} /\ home # n
    /\ live' = live \ {n}
    /\ Trouble("deletion")
    /\ UNCHANGED <<documents, home, purge, call, writer, owed, mishap>>
    /\ Remember

-----------------------------------------------------------------------------
(* The other writers.                                                      *)

(* Versions are numbered in the order they are written. *)
Newest == Max(UNION {{doc[b] : b \in Blocks} : doc \in {mem[n] : n \in Notebooks}
                                                    \cup {disk[n] : n \in Notebooks} \cup {kept}})

MayWrite == Newest < MaxVersion

(* apply_edit of a flat document: the flusher saves it later.              *)
EditSection(b) ==
    /\ EditorIsFree /\ b \notin Sections("realtime")
    /\ mem[home][b] # 0 /\ MayWrite
    /\ mem' = [mem EXCEPT ![home][b] = Newest + 1]
    /\ UNCHANGED <<disk, database, call, writer, owed, troubles, mishap>>
    /\ Remember

(* The flusher, close_editor and flush_all_editors_sync.                   *)
Flush(n, b) ==
    /\ EditorIsFree /\ b \notin Sections("realtime")
    /\ mem[n][b] # disk[n][b]
    /\ disk' = [disk EXCEPT ![n][b] = mem[n][b]]
    /\ UNCHANGED <<mem, database, call, writer, owed, troubles, mishap>>
    /\ Remember

(* A projector reads the notebook the session is in.                       *)
LookUp ==
    /\ ~writer.on
    /\ writer' = [at |-> home, on |-> TRUE]
    /\ UNCHANGED <<documents, database, call, owed, troubles, mishap>>
    /\ Remember

(* The lines are written again, an async section only where there is none. *)
Written(n, tab) ==
    LET b == IF tab = "realtime" THEN "line" ELSE tab
    IN  IF (b = "line" \/ mem[n][b] = 0) /\ MayWrite
        THEN Save(n, [mem[n] EXCEPT ![b] = Newest + 1], tab)
        ELSE UNCHANGED documents

(* A mutant: what was looked up is still where the session is. *)
Project_Trusting(tab) ==
    /\ writer.on /\ EditorIsFree /\ tab # "note"
    /\ writer' = NoOne
    /\ IF purge = "no" THEN Written(writer.at, tab) ELSE UNCHANGED documents
    /\ UNCHANGED <<database, call, owed, troubles, mishap>>
    /\ Remember

(* sync_capture_into_t2_transcript and sync_session_transcript_into_tab: a  *)
(* row that points elsewhere by now is refused.                             *)
Project(tab) ==
    /\ writer.on /\ EditorIsFree /\ tab # "note"
    /\ writer' = NoOne
    /\ IF writer.at = home /\ purge = "no" THEN Written(writer.at, tab)
                                            ELSE UNCHANGED documents
    /\ UNCHANGED <<database, call, owed, troubles, mishap>>
    /\ Remember

-----------------------------------------------------------------------------
(* A move made by a peer.                                                  *)

(* The flat sections travel in synced documents, and are taken here to      *)
(* arrive together with the pointer.                                        *)
Carried(docs, from, to) ==
    [n \in Notebooks |->
        [b \in Blocks |->
            IF b \in Sections("realtime") THEN docs[n][b]
            ELSE CASE n = to -> Larger(docs[to][b], docs[from][b])
                   [] n = from -> 0
                   [] OTHER -> docs[n][b]]]

(* apply_recording and move_pointers, inside the import's transaction.     *)
PeerMove(to) ==
    /\ Trouble("peer") /\ owed = NoPath /\ purge = "no"
    /\ home \in Topics /\ to \in live \ {home, Unfiled}
    /\ home' = to
    /\ owed' = [from |-> home, to |-> to]
    /\ mem' = Carried(mem, home, to) /\ disk' = Carried(disk, home, to)
    /\ UNCHANGED <<live, purge, call, writer, mishap>>
    /\ Remember

(* How far splice, save, remove and save came; a failure is only logged.   *)
Followed(done, copy, rest) ==
    /\ IF done = 4 THEN UNCHANGED troubles ELSE Fault
    /\ mem' = [mem EXCEPT ![owed.to] = IF done > 0 THEN copy ELSE @,
                          ![owed.from] = IF done > 2 THEN rest ELSE @]
    /\ disk' = [disk EXCEPT
           ![owed.to] = IF done > 1 THEN Snapshot(@, copy, "realtime") ELSE @,
           ![owed.from] = IF done > 3 THEN Snapshot(@, rest, "realtime") ELSE @]
    /\ Blame((IF done < 2 THEN {"stranded"} ELSE {})
               \cup (IF done < 4 THEN {"leftover"} ELSE {})
               \cup (IF KeepsOlder(owed.to, mem[owed.from], "realtime")
                      THEN {"kept older"} ELSE {}))

(* move_realtime_slice_locally, after the import's transaction.            *)
FollowPeer ==
    LET from == mem[owed.from]
    IN  /\ owed # NoPath /\ EditorIsFree
        /\ owed' = NoPath
        /\ IF Slice(from, "realtime") = {}
           THEN UNCHANGED <<documents, troubles, mishap>>
           ELSE \E done \in 0..4 : Followed(done, Spliced(mem[owed.to], from, "realtime"),
                                                  Without(from, "realtime"))
        /\ UNCHANGED <<database, call, writer>>
        /\ Remember

-----------------------------------------------------------------------------
(* Delete Forever, crashes.                                                *)

(* begin_session_purge: the documents to erase from are those of the rows.  *)
(* From here on the home stays: a commit is refused, an import skips it.    *)
BeginPurge ==
    /\ purge = "no"
    /\ purge' = "begun"
    /\ Blame(IF owed = NoPath THEN {} ELSE {"stranded"})
    /\ UNCHANGED <<documents, home, live, call, writer, owed, troubles>>
    /\ Remember

(* purge_t2_transcript_target erases the lines and leaves the remarks.     *)
Erased(doc, tabs) ==
    [b \in Blocks |-> IF b # "remark" /\ \E i \in tabs : b \in Sections(Tabs[i])
                      THEN 0 ELSE doc[b]]

(* purge_loro_session_ranges: a failure leaves the job, and the next resume *)
(* erases the rest.                                                         *)
EraseSections ==
    /\ purge = "begun" /\ EditorIsFree
    /\ \E done \in 0..Len(Tabs) :
         /\ IF done = Len(Tabs) THEN purge' = "erased" /\ UNCHANGED troubles
                                ELSE purge' = purge /\ Fault
         /\ mem' = [mem EXCEPT ![home] = Erased(@, 1..done)]
         /\ disk' = [disk EXCEPT ![home] = Erased(@, 1..done)]
    /\ UNCHANGED <<home, live, call, writer, owed, mishap>>
    /\ Remember

(* What is open in memory, and what is owed to a peer's move, is lost.     *)
Crash ==
    /\ Trouble("crash")
    /\ mem' = disk
    /\ call' = [m \in Calls |-> Idle]
    /\ writer' = NoOne
    /\ owed' = NoPath
    /\ Blame((IF EditorIsFree THEN {} ELSE {"leftover"})
               \cup (IF owed = NoPath THEN {} ELSE {"stranded", "leftover"}))
    /\ UNCHANGED <<disk, database>>
    /\ Remember

-----------------------------------------------------------------------------
Next ==
    \/ \E m \in Calls : Plan(m) \/ TakeEditor(m) \/ CopySection(m) \/ CommitMove(m)
                        \/ UndoCopy(m) \/ ClearSection(m)
    \/ \E n \in Topics : DeleteTopic(n) \/ PeerMove(n)
    \/ \E b \in Blocks : EditSection(b) \/ \E n \in Notebooks : Flush(n, b)
    \/ LookUp \/ \E tab \in ToSet(Tabs) : Project(tab)
    \/ FollowPeer \/ BeginPurge \/ EraseSections \/ Crash

Spec == Init /\ [][Next]_vars

-----------------------------------------------------------------------------
TypeOK ==
    /\ mem \in [Notebooks -> Document] /\ disk \in [Notebooks -> Document]
    /\ home \in Notebooks /\ live \subseteq Notebooks
    /\ call \in [Calls -> Call]
    /\ writer \in [at : Notebooks, on : BOOLEAN]
    /\ owed \in Path
    /\ purge \in {"no", "begun", "erased"}
    /\ troubles \in 0..MaxTroubles
    /\ kept \in Document
    /\ mishap \subseteq {"kept older", "erased home", "leftover", "stranded"}

HomeHolds(b) == kept[b] <= mem[home][b] /\ kept[b] <= disk[home][b]

(* "a crash between phases can duplicate a section, never lose one"         *)
(* (session_move.rs:17): whatever the home once had, open and on disk, it    *)
(* still has in that version or a newer one; after a peer's move the         *)
(* transcript may be on its way.  Two moves of one session at once violate   *)
(* it, and so does a crash, an edit and a second attempt.                    *)
NeverLost ==
    purge = "no" =>
        \A b \in Blocks : HomeHolds(b) \/ (owed # NoPath /\ b \in Sections("realtime"))

(* The home is a notebook that exists, and holds the newest of everything    *)
(* it ever had saved, before, during and after a move, through failures,   *)
(* crashes, moves of a peer and the deletion of topics - unless a rollback   *)
(* or a clear met the session at home in the document it emptied, a copy     *)
(* found an older one in its place, or a peer's move was never followed.     *)
HomeIsWhole ==
    /\ TypeOK
    /\ home \in live
    /\ mishap \cap {"erased home", "kept older", "stranded"} = {} => NeverLost

Blank(n) == mem[n] = Nothing /\ disk[n] = Nothing

(* Between moves no other notebook holds anything of the session, and after  *)
(* Delete Forever none holds anything but remarks at home - unless a crash   *)
(* or a failure met a rollback, a clear or a peer's move on its way.         *)
OnlyHomeHoldsIt ==
    EditorIsFree /\ owed = NoPath /\ mishap \cap {"leftover", "stranded"} = {} =>
        /\ \A n \in Notebooks \ {home} : Blank(n)
        /\ purge = "erased" => \A b \in Blocks \ {"remark"} : mem[home][b] + disk[home][b] = 0

(* What Delete Forever promises: the documents hold nothing of the session.  *)
(* A move that was interrupted between its commit and its clearing leaves    *)
(* the section where no purge looks for it.                                  *)
ErasedEverywhere ==
    purge = "erased" => \A n \in Notebooks, b \in Blocks \ {"remark"} : disk[n][b] = 0

(* Once a peer's move has been followed, the transcript is where the rows   *)
(* say it is.  A move made here before that leaves it behind.                *)
PeerMoveArrives ==
    purge = "no" /\ owed = NoPath /\ mishap \subseteq {"stranded"} =>
        \A b \in Blocks : HomeHolds(b)
==============================================================================
