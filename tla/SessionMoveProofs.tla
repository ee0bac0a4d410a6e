-------------------------- MODULE SessionMoveProofs --------------------------
(***************************************************************************)
(* Proofs about SessionMove, for any notebooks, calls, documents, versions *)
(* and number of troubles.                                                 *)
(*                                                                         *)
(* HomeStaysWhole rests on WholeInv.  What the home once saved it has in   *)
(* that version or a newer one, or the notebook has it that a peer's move  *)
(* came from and that is still to be followed (Kept); a call on its way to *)
(* its commit has in the target all of the source's sections it has passed *)
(* (Copied), which is what the flip of the home needs; and what is owed    *)
(* still has its lines (Owing), without which nothing would follow.        *)
(*                                                                         *)
(* OnlyHomeHolds rests on Tidied, too: whatever a notebook holds is held   *)
(* because it is the home, because it is owed, or because the one call     *)
(* with the editor put it there or has yet to clear it away (Placed).  The *)
(* slice of a session without lines is empty whatever remarks it has, so   *)
(* clearing it is enough only where remarks have their lines (Lined).      *)
(***************************************************************************)
EXTENDS SessionMove, Integers, WellFoundedInduction, TLAPS

Holds(m) == call[m].at \notin {"idle", "planned"}

Realtime == Sections("realtime")

SavedAt(n, b) == kept[b] <= mem[n][b] /\ kept[b] <= disk[n][b]

(* One call has the editor, and every plan leads from one notebook to another. *)
Plans ==
    /\ \A m1, m2 \in Calls : Holds(m1) /\ Holds(m2) => m1 = m2
    /\ \A m \in Calls : call[m].at # "idle" => call[m].from # call[m].to

(* A session starts with a line, which its home keeps. *)
Spoken == "line" \in Blocks => kept["line"] # 0

(* What a peer moved is followed from its last home to the present one. *)
Followable ==
    "stranded" \notin mishap /\ owed # NoPath =>
        home = owed.to /\ owed.from # owed.to /\ purge = "no"

(* What the home had saved it has, or the notebook it is owed by... *)
Kept(b) ==
    \/ SavedAt(home, b)
    \/ owed # NoPath /\ b \in Realtime /\ SavedAt(owed.from, b)

(* ... and a move that may yet be committed has it in its target as well.      *)
Copied(m) ==
    call[m].at \in {"copy", "commit"} /\ owed = NoPath /\ home = call[m].from =>
        \A i \in 1..Len(Tabs) : i < call[m].tab \/ call[m].at = "commit" =>
            \A b \in Sections(Tabs[i]) :
                /\ mem[home][b] <= mem[call[m].to][b]
                /\ mem[home][b] <= disk[call[m].to][b]

(* What is owed still has its lines. *)
Owing(b) == mem[owed.from][b] # 0 /\ disk[owed.from][b] # 0

Clean == mishap \cap {"erased home", "kept older", "stranded"} = {}

Whole ==
    purge = "no" /\ Clean =>
        /\ \A b \in Blocks : Kept(b)
        /\ owed # NoPath /\ "line" \in Blocks => Owing("line")
        /\ \A m \in Calls : Copied(m)

WholeInv == TypeOK /\ home \in live /\ Plans /\ Spoken /\ Followable /\ Whole

(* What a call has put into a document, or has yet to take out of it.          *)
Carries(m, n, b) ==
    \/ call[m].at \in {"copy", "commit"} /\ n = call[m].to
    \/ /\ \/ call[m].at = "undo" /\ n = call[m].to
          \/ call[m].at = "clear" /\ n = call[m].from
       /\ \E i \in call[m].tab..Len(Tabs) : b \in Sections(Tabs[i])

Holding(n, b) == mem[n][b] # 0 \/ disk[n][b] # 0

Accounted(n, b) ==
    \/ n = home
    \/ owed # NoPath /\ n = owed.from /\ b \in Realtime
    \/ \E m \in Calls : Carries(m, n, b)

(* Remarks are found by the lines around them. *)
Sliced(doc) == "line" \in Blocks /\ doc["remark"] # 0 => doc["line"] # 0

(* What is on disk is open, too. *)
Shown(n, b) == mem[n][b] = 0 => disk[n][b] = 0

Spotless == mishap \cap {"leftover", "stranded"} = {}

Placed == \A n \in Notebooks, b \in Blocks : Shown(n, b) /\ (Holding(n, b) => Accounted(n, b))

(* Delete Forever takes the lines at home and leaves the remarks. *)
Lined == \A n \in Notebooks : n # home \/ purge = "no" => Sliced(mem[n]) /\ Sliced(disk[n])

Purged == purge = "erased" => \A b \in Blocks \ {"remark"} : ~Holding(home, b)

Tidied == Placed /\ Lined /\ Purged

Tidy == Spotless => Tidied

MoveInv == WholeInv /\ Tidy

-----------------------------------------------------------------------------
(* Versions.                                                               *)

LEMMA Least ==
  ASSUME NEW D \in SUBSET Nat, D # {}
  PROVE  \E d \in D : \A e \in D : d <= e
<1>1. IsWellFoundedOn(OpToRel(<, Nat), Nat)
  BY NatLessThanWellFounded
<1>2. PICK d \in D : \A e \in D : ~(<<e, d>> \in OpToRel(<, Nat))
  BY <1>1, WFMin
<1>3. ASSUME NEW e \in D PROVE d <= e
  <2>1. ~(<<e, d>> \in OpToRel(<, Nat))
    BY <1>2
  <2>2. ~(e < d)
    BY <2>1, Zenon DEF OpToRel
  <2> QED BY <2>2
<1> QED BY <1>3

LEMMA Greatest ==
  ASSUME NEW N \in Nat, NEW S \in SUBSET (0..N), S # {}
  PROVE  Max(S) \in S /\ \A x \in S : x <= Max(S)
<1> DEFINE D == {N - x : x \in S}
<1>1. \A x \in S : x \in Nat /\ N - x \in Nat
  OBVIOUS
<1>2. D \in SUBSET Nat /\ D # {}
  BY <1>1
<1>3. PICK d \in D : \A e \in D : d <= e
  <2> HIDE DEF D
  <2> QED BY <1>2, Least
<1>4. PICK x \in S : d = N - x
  OBVIOUS
<1>5. \A y \in S : N - y \in D
  OBVIOUS
<1>6. \A y \in S : x >= y
  <2> TAKE y \in S
  <2>1. d <= N - y
    <3> HIDE DEF D
    <3> QED BY <1>3, <1>5
  <2>2. x \in Int /\ y \in Int
    BY <1>1
  <2> HIDE DEF D
  <2> QED BY <2>1, <2>2, <1>4
<1> QED BY <1>6 DEF Max

(* A new version is newer than all there are. *)
LEMMA NewestIsNewest ==
  ASSUME TypeOK, Blocks # {}
  PROVE  /\ Newest \in 0..MaxVersion
         /\ \A n \in Notebooks, b \in Blocks : mem[n][b] <= Newest /\ disk[n][b] <= Newest
<1> DEFINE docs == {mem[n] : n \in Notebooks} \cup {disk[n] : n \in Notebooks} \cup {kept}
           S == UNION {{doc[b] : b \in Blocks} : doc \in docs}
<1>1. docs \subseteq Document
  BY DEF TypeOK
<1>2. \A doc \in Document, b \in Blocks : doc[b] \in 0..MaxVersion
  BY DEF Document
<1>3. \A doc \in docs, b \in Blocks : doc[b] \in S
  OBVIOUS
<1>4. \A n \in Notebooks : mem[n] \in docs /\ disk[n] \in docs
  OBVIOUS
<1>5. S \subseteq 0..MaxVersion
  BY <1>1, <1>2
<1>6. kept \in docs
  OBVIOUS
<1>7. S # {}
  BY <1>3, <1>6
<1>8. Newest = Max(S)
  BY DEF Newest
<1> HIDE DEF S, docs
<1>9. Max(S) \in S /\ \A x \in S : x <= Max(S)
  BY <1>5, <1>7, Greatest, MoveAssumption
<1> QED BY <1>3, <1>4, <1>5, <1>8, <1>9

-----------------------------------------------------------------------------
(* Documents.                                                              *)

LEMMA SectionsAreBlocks ==
  ASSUME NEW i \in 1..Len(Tabs)
  PROVE  Sections(Tabs[i]) \subseteq Blocks /\ Tabs[i] \in ToSet(Tabs)
<1>1. Tabs[i] \in ToSet(Tabs)
  BY MoveAssumption DEF ToSet
<1> QED BY <1>1 DEF Blocks

LEMMA TabsAreThese ==
  ASSUME NEW tab \in ToSet(Tabs)
  PROVE  tab \in {"realtime", "async", "note"} /\ Sections(tab) \subseteq Blocks
  BY MoveAssumption DEF ToSet, Blocks

LEMMA BlocksAreThese ==
  /\ Blocks # {}
  /\ Blocks \subseteq {"line", "remark", "async", "note"}
  /\ "remark" \in Blocks => "line" \in Blocks
<1>1. 1 \in 1..Len(Tabs)
  BY MoveAssumption
<1>2. Sections(Tabs[1]) # {}
  BY DEF Sections
<1>3. Blocks # {}
  BY <1>1, <1>2, SectionsAreBlocks
<1>4. ASSUME NEW b \in Blocks
      PROVE  \E tab \in ToSet(Tabs) : b \in Sections(tab)
  BY DEF Blocks
<1>5. ASSUME NEW b \in Blocks
      PROVE  /\ b \in {"line", "remark", "async", "note"}
             /\ b = "remark" => "line" \in Blocks
  <2>1. PICK tab \in ToSet(Tabs) : b \in Sections(tab)
    BY <1>4
  <2> QED BY <2>1, TabsAreThese DEF Sections
<1> QED BY <1>3, <1>5

LEMMA DocumentUpdates ==
  ASSUME NEW doc \in Document, NEW from \in Document, NEW tab
  PROVE  /\ Spliced(doc, from, tab) \in Document
         /\ Without(doc, tab) \in Document
         /\ Snapshot(doc, from, tab) \in Document
  BY MoveAssumption DEF Document, Spliced, Without, Snapshot

LEMMA ErasedIsDocument ==
  ASSUME NEW doc \in Document, NEW tabs PROVE Erased(doc, tabs) \in Document
  BY MoveAssumption DEF Document, Erased

(* A copy adds what is missing... *)
LEMMA SplicedGrows ==
  ASSUME NEW doc \in Document, NEW from \in Document, NEW tab, NEW b \in Blocks
  PROVE  /\ doc[b] <= Spliced(doc, from, tab)[b]
         /\ doc[b] # 0 => Spliced(doc, from, tab)[b] = doc[b]
         /\ b \notin Slice(from, tab) => Spliced(doc, from, tab)[b] = doc[b]
         /\ b \in Slice(from, tab) /\ doc[b] = 0 => Spliced(doc, from, tab)[b] = from[b]
  BY MoveAssumption DEF Document, Spliced

DocsTyped == mem \in [Notebooks -> Document] /\ disk \in [Notebooks -> Document]

LEMMA WritesTyped ==
  ASSUME TypeOK, NEW n \in Notebooks, NEW doc \in Document, NEW tab, NEW always \in BOOLEAN
  PROVE  /\ Save(n, doc, tab) => DocsTyped'
         /\ LeaveUnsaved(n, doc) => DocsTyped'
         /\ Removed(n, tab, always) => DocsTyped'
<1>0. /\ mem[n] \in Document /\ disk[n] \in Document
      /\ mem \in [Notebooks -> Document] /\ disk \in [Notebooks -> Document]
  BY DEF TypeOK
<1>1. ASSUME NEW d \in Document, Save(n, d, tab) PROVE DocsTyped'
  <2>1. Snapshot(disk[n], d, tab) \in Document
    BY <1>0, DocumentUpdates
  <2>2. disk' = [disk EXCEPT ![n] = Snapshot(disk[n], d, tab)]
    BY <1>1 DEF Save
  <2> QED BY <1>0, <1>1, <2>1, <2>2 DEF Save, DocsTyped
<1>2. ASSUME LeaveUnsaved(n, doc) PROVE DocsTyped'
  <2>1. PICK left \in {mem[n], doc} : mem' = [mem EXCEPT ![n] = left] /\ disk' = disk
    BY <1>2 DEF LeaveUnsaved
  <2>2. left \in Document
    BY <1>0
  <2> QED BY <1>0, <2>1, <2>2 DEF DocsTyped
<1>3. ASSUME Removed(n, tab, always) PROVE DocsTyped'
  <2>1. UNCHANGED documents \/ Save(n, Without(mem[n], tab), tab)
    BY <1>3 DEF Removed
  <2>2. Without(mem[n], tab) \in Document
    BY <1>0, DocumentUpdates
  <2> QED BY <1>0, <1>1, <2>1, <2>2 DEF DocsTyped, documents
<1> QED BY <1>1, <1>2, <1>3

(* How a call goes on. *)
LEMMA CallMoves ==
  ASSUME call \in [Calls -> Call], NEW m \in Calls,
         NEW at \in {"idle", "planned", "copy", "commit", "undo", "clear"}
  PROVE  /\ Goto(m, at) =>
              /\ call' \in [Calls -> Call]
              /\ \A k \in Calls \ {m} : call'[k] = call[k]
              /\ call'[m].at = at /\ call'[m].tab = 1
              /\ call'[m].from = call[m].from /\ call'[m].to = call[m].to
         /\ NextTab(m, at) =>
              /\ call' \in [Calls -> Call]
              /\ \A k \in Calls \ {m} : call'[k] = call[k]
              /\ \/ /\ call[m].tab < Len(Tabs)
                    /\ call'[m].at = call[m].at /\ call'[m].tab = call[m].tab + 1
                    /\ call'[m].from = call[m].from /\ call'[m].to = call[m].to
                 \/ /\ call[m].tab = Len(Tabs)
                    /\ call'[m].at = at /\ call'[m].tab = 1
                    /\ at # "idle" => /\ call'[m].from = call[m].from
                                      /\ call'[m].to = call[m].to
<1>1. call[m] \in Call /\ Len(Tabs) \in Nat \ {0} /\ Unfiled \in Notebooks
  BY MoveAssumption DEF Notebooks
<1>2. /\ call[m].tab \in 1..Len(Tabs)
      /\ call[m].from \in Notebooks /\ call[m].to \in Notebooks
      /\ call[m].at \in {"idle", "planned", "copy", "commit", "undo", "clear"}
  BY <1>1 DEF Call
<1>3. ASSUME Goto(m, at)
      PROVE  /\ call' \in [Calls -> Call]
             /\ \A k \in Calls \ {m} : call'[k] = call[k]
             /\ call'[m].at = at /\ call'[m].tab = 1
             /\ call'[m].from = call[m].from /\ call'[m].to = call[m].to
  <2> DEFINE mid == [call[m] EXCEPT !.at = at]
             next == [mid EXCEPT !.tab = 1]
  <2>1. /\ next \in Call /\ next.at = at /\ next.tab = 1
        /\ next.from = call[m].from /\ next.to = call[m].to
    <3>1. mid \in Call /\ mid.at = at /\ mid.from = call[m].from /\ mid.to = call[m].to
      BY <1>1, <1>2 DEF Call
    <3> HIDE DEF mid
    <3> QED BY <3>1, <1>1 DEF Call
  <2>2. call' = [call EXCEPT ![m] = next]
    BY <1>3, Zenon DEF Goto
  <2> HIDE DEF next
  <2> QED BY <2>1, <2>2
<1>4. ASSUME NextTab(m, at), call[m].tab < Len(Tabs)
      PROVE  /\ call' \in [Calls -> Call]
             /\ \A k \in Calls \ {m} : call'[k] = call[k]
             /\ call'[m].at = call[m].at /\ call'[m].tab = call[m].tab + 1
             /\ call'[m].from = call[m].from /\ call'[m].to = call[m].to
  <2> DEFINE next == [call[m] EXCEPT !.tab = call[m].tab + 1]
  <2>1. /\ next \in Call /\ next.at = call[m].at /\ next.tab = call[m].tab + 1
        /\ next.from = call[m].from /\ next.to = call[m].to
    BY <1>1, <1>2, <1>4 DEF Call
  <2>2. call' = [call EXCEPT ![m] = next]
    BY <1>4 DEF NextTab
  <2> HIDE DEF next
  <2> QED BY <2>1, <2>2
<1>5. ASSUME NextTab(m, at), call[m].tab = Len(Tabs), at = "idle"
      PROVE  /\ call' \in [Calls -> Call]
             /\ \A k \in Calls \ {m} : call'[k] = call[k]
             /\ call'[m].at = at /\ call'[m].tab = 1
  <2>1. Idle \in Call /\ Idle.at = "idle" /\ Idle.tab = 1
    BY <1>1 DEF Idle, Call
  <2>2. call' = [call EXCEPT ![m] = Idle]
    BY <1>5, <1>1 DEF NextTab
  <2> QED BY <2>1, <2>2, <1>5
<1>6. NextTab(m, at) /\ call[m].tab = Len(Tabs) /\ at # "idle" => Goto(m, at)
  BY <1>1 DEF NextTab
<1> QED BY <1>1, <1>2, <1>3, <1>4, <1>5, <1>6

LEMMA Counted ==
  ASSUME troubles \in 0..MaxTroubles, NEW kind, Trouble(kind)
  PROVE  troubles' \in 0..MaxTroubles
  BY MoveAssumption DEF Trouble

(* What every step remembers, given the documents it leaves. *)
LEMMA Remembered ==
  ASSUME TypeOK, DocsTyped', Remember
  PROVE  kept' \in Document
<1>1. ASSUME NEW b \in Blocks
      PROVE  Larger(kept[b], Smaller(mem'[home][b], disk'[home][b])) \in 0..MaxVersion
  <2>0. kept \in Document /\ mem'[home] \in Document /\ disk'[home] \in Document
    BY DEF TypeOK, DocsTyped
  <2>1. /\ kept[b] \in 0..MaxVersion
        /\ mem'[home][b] \in 0..MaxVersion /\ disk'[home][b] \in 0..MaxVersion
    BY <2>0 DEF Document
  <2> QED BY <2>1 DEF Larger, Smaller
<1> QED BY <1>1 DEF Remember, Document

Types == TypeOK /\ home \in live

LEMMA TypeStep ==
  ASSUME Types, [Next]_vars
  PROVE  Types'
<1> USE DEF Types
<1>0. Unfiled \in Notebooks /\ Topics \subseteq Notebooks
  BY DEF Notebooks
<1>a. \A m \in Calls : /\ call[m] \in Call
                       /\ call[m].from \in Notebooks /\ call[m].to \in Notebooks
                       /\ call[m].tab \in 1..Len(Tabs)
  BY DEF TypeOK, Call
<1>1. ASSUME NEW m \in Calls, Plan(m) PROVE Types'
  <2>1. DocsTyped' /\ kept' \in Document
    BY <1>1, Remembered DEF Plan, TypeOK, DocsTyped, documents
  <2>2. PICK to \in Notebooks :
          call' = [call EXCEPT ![m] = [at |-> "planned", from |-> home, to |-> to, tab |-> 1]]
    BY <1>1 DEF Plan
  <2>3. [at |-> "planned", from |-> home, to |-> to, tab |-> 1] \in Call
    <3>1. 1 \in 1..Len(Tabs)
      BY MoveAssumption
    <3>2. home \in Notebooks
      BY DEF TypeOK
    <3> QED BY <3>1, <3>2 DEF Call
  <2>4. call' \in [Calls -> Call]
    <3> DEFINE next == [at |-> "planned", from |-> home, to |-> to, tab |-> 1]
    <3> HIDE DEF next
    <3> QED BY <2>2, <2>3 DEF TypeOK, next
  <2> QED BY <1>1, <2>1, <2>4 DEF Plan, TypeOK, DocsTyped, database
<1>2. ASSUME NEW m \in Calls, TakeEditor(m) PROVE Types'
  <2>1. DocsTyped' /\ kept' \in Document
    BY <1>2, Remembered DEF TakeEditor, TypeOK, DocsTyped, documents
  <2>2. call' \in [Calls -> Call]
    BY <1>2, CallMoves DEF TakeEditor, TypeOK
  <2> QED BY <1>2, <2>1, <2>2 DEF TakeEditor, TypeOK, DocsTyped, database
<1>3. ASSUME NEW m \in Calls, CopySection(m) PROVE Types'
  <2> DEFINE tab == Tabs[call[m].tab]
             copy == Spliced(mem[call[m].to], mem[call[m].from], tab)
  <2>1. copy \in Document
    BY <1>a, DocumentUpdates DEF TypeOK
  <2>2. DocsTyped'
    <3> HIDE DEF copy
    <3>1. \/ UNCHANGED documents \/ Save(call[m].to, copy, tab)
          \/ LeaveUnsaved(call[m].to, copy)
      BY <1>3 DEF CopySection, copy
    <3> QED BY <3>1, <2>1, <1>a, WritesTyped DEF documents, TypeOK, DocsTyped
  <2>3. kept' \in Document
    BY <1>3, <2>2, Remembered DEF CopySection
  <2>4. call' \in [Calls -> Call]
    BY <1>3, CallMoves DEF CopySection, TypeOK
  <2>5. troubles' \in 0..MaxTroubles
    BY <1>3, Counted DEF CopySection, TypeOK, Fault
  <2>6. mishap' \subseteq {"kept older", "erased home", "leftover", "stranded"}
    BY <1>3 DEF CopySection, TypeOK, Blame
  <2> QED BY <1>3, <2>2, <2>3, <2>4, <2>5, <2>6 DEF CopySection, TypeOK, DocsTyped, database
<1>4. ASSUME NEW m \in Calls, CommitMove(m) PROVE Types'
  <2>1. DocsTyped' /\ kept' \in Document
    BY <1>4, Remembered DEF CommitMove, TypeOK, DocsTyped, documents
  <2>2. call' \in [Calls -> Call]
    BY <1>4, CallMoves DEF CommitMove, TypeOK
  <2>3. troubles' \in 0..MaxTroubles
    BY <1>4, Counted DEF CommitMove, TypeOK, Fault
  <2>4. mishap' \subseteq {"kept older", "erased home", "leftover", "stranded"}
    BY <1>4 DEF CommitMove, TypeOK, Blame
  <2>5. home' \in Notebooks /\ home' \in live
    BY <1>4, <1>a DEF CommitMove, TypeOK, Movable
  <2> QED BY <1>4, <2>1, <2>2, <2>3, <2>4, <2>5 DEF CommitMove, TypeOK, DocsTyped
<1>5. ASSUME NEW m \in Calls, UndoCopy(m) \/ ClearSection(m) PROVE Types'
  <2>0. /\ Without(mem[call[m].to], Tabs[call[m].tab]) \in Document
        /\ Without(mem[call[m].from], Tabs[call[m].tab]) \in Document
    BY <1>a, DocumentUpdates DEF TypeOK
  <2>1. DocsTyped'
    <3>1. \/ Removed(call[m].to, Tabs[call[m].tab], Tabs[call[m].tab] = "realtime")
          \/ Removed(call[m].from, Tabs[call[m].tab], FALSE)
          \/ LeaveUnsaved(call[m].to, Without(mem[call[m].to], Tabs[call[m].tab]))
          \/ LeaveUnsaved(call[m].from, Without(mem[call[m].from], Tabs[call[m].tab]))
      BY <1>5 DEF UndoCopy, ClearSection
    <3>2. (Tabs[call[m].tab] = "realtime") \in BOOLEAN
      OBVIOUS
    <3> QED BY <3>1, <3>2, <2>0, <1>a, WritesTyped
  <2>2. kept' \in Document
    BY <1>5, <2>1, Remembered DEF UndoCopy, ClearSection
  <2>3. call' \in [Calls -> Call]
    <3>1. NextTab(m, "idle") \/ call' = [call EXCEPT ![m] = Idle]
      BY <1>5 DEF UndoCopy, ClearSection
    <3>2. Idle \in Call
      BY <1>0, MoveAssumption DEF Idle, Call
    <3> QED BY <3>1, <3>2, CallMoves DEF TypeOK
  <2>4. troubles' \in 0..MaxTroubles
    BY <1>5, Counted DEF UndoCopy, ClearSection, TypeOK, Fault
  <2>5. mishap' \subseteq {"kept older", "erased home", "leftover", "stranded"}
    BY <1>5 DEF UndoCopy, ClearSection, TypeOK, Blame
  <2> QED BY <1>5, <2>1, <2>2, <2>3, <2>4, <2>5
          DEF UndoCopy, ClearSection, TypeOK, DocsTyped, database
<1>6. ASSUME NEW n \in Topics, DeleteTopic(n) PROVE Types'
  <2>1. DocsTyped' /\ kept' \in Document
    BY <1>6, Remembered DEF DeleteTopic, TypeOK, DocsTyped, documents
  <2>2. troubles' \in 0..MaxTroubles
    BY <1>6, Counted DEF DeleteTopic, TypeOK
  <2> QED BY <1>6, <2>1, <2>2 DEF DeleteTopic, TypeOK, DocsTyped
<1>7. ASSUME NEW to \in Topics, PeerMove(to) PROVE Types'
  <2>1. \A docs \in [Notebooks -> Document], from, n \in Notebooks :
          Carried(docs, from, n) \in [Notebooks -> Document]
    BY MoveAssumption DEF Carried, Document, Larger
  <2>2. DocsTyped'
    BY <1>7, <1>0, <2>1 DEF PeerMove, TypeOK, DocsTyped
  <2>3. kept' \in Document
    BY <1>7, <2>2, Remembered DEF PeerMove
  <2>4. troubles' \in 0..MaxTroubles
    BY <1>7, Counted DEF PeerMove, TypeOK
  <2>5. owed' \in Path /\ home' \in Notebooks /\ home' \in live
    BY <1>7, <1>0 DEF PeerMove, TypeOK, Path
  <2> QED BY <1>7, <2>2, <2>3, <2>4, <2>5 DEF PeerMove, TypeOK, DocsTyped
<1>8. ASSUME NEW b \in Blocks, EditSection(b) PROVE Types'
  <2>0. Newest + 1 \in 0..MaxVersion
    BY <1>8, NewestIsNewest, BlocksAreThese, MoveAssumption DEF EditSection, MayWrite
  <2>1. [mem[home] EXCEPT ![b] = Newest + 1] \in Document
    BY <2>0 DEF TypeOK, Document
  <2>2. mem' = [mem EXCEPT ![home] = [mem[home] EXCEPT ![b] = Newest + 1]]
    BY <1>8 DEF EditSection
  <2>3. DocsTyped'
    BY <1>8, <2>1, <2>2 DEF EditSection, TypeOK, DocsTyped
  <2>4. kept' \in Document
    BY <1>8, <2>3, Remembered DEF EditSection
  <2> QED BY <1>8, <2>3, <2>4 DEF EditSection, TypeOK, DocsTyped, database
<1>9. ASSUME NEW b \in Blocks, NEW n \in Notebooks, Flush(n, b) PROVE Types'
  <2>0. disk[n] \in Document /\ mem[n] \in Document
    BY DEF TypeOK
  <2>1. [disk[n] EXCEPT ![b] = mem[n][b]] \in Document
    BY <2>0 DEF Document
  <2>2. disk' = [disk EXCEPT ![n] = [disk[n] EXCEPT ![b] = mem[n][b]]]
    BY <1>9 DEF Flush
  <2>3. DocsTyped'
    <3> DEFINE doc == [disk[n] EXCEPT ![b] = mem[n][b]]
    <3>1. doc \in Document /\ disk' = [disk EXCEPT ![n] = doc] /\ UNCHANGED mem
      BY <1>9, <2>1, <2>2 DEF Flush
    <3> HIDE DEF doc
    <3> QED BY <3>1 DEF TypeOK, DocsTyped
  <2>4. kept' \in Document
    BY <1>9, <2>3, Remembered DEF Flush
  <2> QED BY <1>9, <2>3, <2>4 DEF Flush, TypeOK, DocsTyped, database
<1>10. ASSUME LookUp PROVE Types'
  <2>1. DocsTyped' /\ kept' \in Document
    BY <1>10, Remembered DEF LookUp, TypeOK, DocsTyped, documents
  <2> QED BY <1>10, <2>1 DEF LookUp, TypeOK, DocsTyped, database
<1>11. ASSUME NEW tab \in ToSet(Tabs), Project(tab) PROVE Types'
  <2>0. ASSUME MayWrite, NEW b \in Blocks
        PROVE  [mem[home] EXCEPT ![b] = Newest + 1] \in Document
    <3>1. Newest + 1 \in 0..MaxVersion
      BY <2>0, NewestIsNewest, BlocksAreThese, MoveAssumption DEF MayWrite
    <3>2. mem[home] \in Document
      BY DEF TypeOK
    <3> QED BY <3>1, <3>2 DEF Document
  <2>1. DocsTyped'
    <3> DEFINE b == IF tab = "realtime" THEN "line" ELSE tab
    <3>1. b \in Blocks
      BY TabsAreThese DEF Sections
    <3>2. UNCHANGED documents \/ Written(home, tab)
      BY <1>11 DEF Project
    <3>3. UNCHANGED documents \/ (MayWrite /\ Save(home, [mem[home] EXCEPT ![b] = Newest + 1], tab))
      BY <3>2 DEF Written
    <3> HIDE DEF b
    <3> QED BY <3>1, <3>3, <2>0, WritesTyped DEF documents, TypeOK, DocsTyped
  <2>2. kept' \in Document
    BY <1>11, <2>1, Remembered DEF Project
  <2> QED BY <1>11, <1>0, <2>1, <2>2 DEF Project, TypeOK, DocsTyped, database, NoOne
<1>12. ASSUME FollowPeer PROVE Types'
  <2> DEFINE copy == Spliced(mem[owed.to], mem[owed.from], "realtime")
             rest == Without(mem[owed.from], "realtime")
  <2>0. owed.to \in Notebooks /\ owed.from \in Notebooks /\ NoPath \in Path
    BY <1>0 DEF TypeOK, Path, NoPath
  <2>1. copy \in Document /\ rest \in Document
    BY <2>0, DocumentUpdates DEF TypeOK
  <2> HIDE DEF copy, rest
  <2>2. \/ UNCHANGED <<documents, troubles, mishap>>
        \/ \E done \in 0..4 : Followed(done, copy, rest)
    BY <1>12 DEF FollowPeer, copy, rest
  <2>3. /\ DocsTyped' /\ troubles' \in 0..MaxTroubles
        /\ mishap' \subseteq {"kept older", "erased home", "leftover", "stranded"}
    <3>1. CASE UNCHANGED <<documents, troubles, mishap>>
      BY <3>1 DEF documents, TypeOK, DocsTyped
    <3>2. ASSUME NEW done \in 0..4, Followed(done, copy, rest)
          PROVE  /\ DocsTyped' /\ troubles' \in 0..MaxTroubles
                 /\ mishap' \subseteq {"kept older", "erased home", "leftover", "stranded"}
      <4>1. mem' \in [Notebooks -> Document]
        BY <3>2, <2>0, <2>1 DEF Followed, TypeOK
      <4>2. Snapshot(disk[owed.to], copy, "realtime") \in Document
        BY <2>0, <2>1, DocumentUpdates DEF TypeOK
      <4>3. \A d \in Document : Snapshot(d, rest, "realtime") \in Document
        BY <2>0, <2>1, DocumentUpdates DEF TypeOK
      <4>4. disk' \in [Notebooks -> Document]
        BY <3>2, <2>0, <4>2, <4>3 DEF Followed, TypeOK
      <4>5. troubles' \in 0..MaxTroubles
        BY <3>2, Counted DEF Followed, Fault, TypeOK
      <4> QED BY <3>2, <4>1, <4>4, <4>5 DEF Followed, Blame, TypeOK, DocsTyped
    <3> QED BY <2>2, <3>1, <3>2
  <2>4. kept' \in Document
    BY <1>12, <2>3, Remembered DEF FollowPeer
  <2> QED BY <1>12, <2>0, <2>3, <2>4 DEF FollowPeer, TypeOK, DocsTyped, database
<1>13. ASSUME BeginPurge PROVE Types'
  <2>1. DocsTyped' /\ kept' \in Document
    BY <1>13, Remembered DEF BeginPurge, TypeOK, DocsTyped, documents
  <2> QED BY <1>13, <2>1 DEF BeginPurge, TypeOK, DocsTyped, Blame
<1>14. ASSUME EraseSections PROVE Types'
  <2>1. PICK done \in 0..Len(Tabs) :
          /\ IF done = Len(Tabs) THEN purge' = "erased" /\ UNCHANGED troubles
                                 ELSE purge' = purge /\ Fault
          /\ mem' = [mem EXCEPT ![home] = Erased(@, 1..done)]
          /\ disk' = [disk EXCEPT ![home] = Erased(@, 1..done)]
    BY <1>14 DEF EraseSections
  <2>2. DocsTyped'
    BY <2>1, ErasedIsDocument DEF TypeOK, DocsTyped
  <2>3. kept' \in Document
    BY <1>14, <2>2, Remembered DEF EraseSections
  <2>4. troubles' \in 0..MaxTroubles
    BY <2>1, Counted DEF Fault, TypeOK
  <2> QED BY <1>14, <2>1, <2>2, <2>3, <2>4 DEF EraseSections, TypeOK, DocsTyped
<1>15. ASSUME Crash PROVE Types'
  <2>1. DocsTyped'
    BY <1>15 DEF Crash, TypeOK, DocsTyped
  <2>2. kept' \in Document
    BY <1>15, <2>1, Remembered DEF Crash
  <2>3. troubles' \in 0..MaxTroubles
    BY <1>15, Counted DEF Crash, TypeOK
  <2>4. Idle \in Call /\ NoOne \in [at : Notebooks, on : BOOLEAN] /\ NoPath \in Path
    BY <1>0, MoveAssumption DEF Idle, Call, NoOne, NoPath, Path
  <2>5. call' \in [Calls -> Call]
    BY <1>15, <2>4 DEF Crash
  <2> QED BY <1>15, <2>1, <2>2, <2>3, <2>4, <2>5
          DEF Crash, TypeOK, DocsTyped, database, Blame
<1>16. CASE UNCHANGED vars
  BY <1>16 DEF vars, TypeOK
<1> QED
  BY <1>1, <1>2, <1>3, <1>4, <1>5, <1>6, <1>7, <1>8, <1>9, <1>10, <1>11, <1>12, <1>13,
     <1>14, <1>15, <1>16 DEF Next

-----------------------------------------------------------------------------
(* What every step leaves as it was.                                       *)

LEMMA Monotone ==
  ASSUME Types, [Next]_vars
  PROVE  /\ mishap \subseteq mishap'
         /\ purge' = "no" => purge = "no"
         /\ UNCHANGED vars \/ Remember
<1>1. ASSUME NEW m \in Calls,
             \/ Plan(m) \/ TakeEditor(m) \/ CopySection(m) \/ CommitMove(m)
             \/ UndoCopy(m) \/ ClearSection(m)
      PROVE  mishap \subseteq mishap' /\ purge' = purge /\ Remember
  BY <1>1 DEF Plan, TakeEditor, CopySection, CommitMove, UndoCopy, ClearSection, Blame, database
<1>2. ASSUME NEW n \in Topics, DeleteTopic(n) \/ PeerMove(n)
      PROVE  mishap \subseteq mishap' /\ purge' = purge /\ Remember
  BY <1>2 DEF DeleteTopic, PeerMove
<1>3. ASSUME NEW b \in Blocks, NEW n \in Notebooks, EditSection(b) \/ Flush(n, b)
      PROVE  mishap \subseteq mishap' /\ purge' = purge /\ Remember
  BY <1>3 DEF EditSection, Flush, database
<1>4. ASSUME NEW tab \in ToSet(Tabs), LookUp \/ Project(tab)
      PROVE  mishap \subseteq mishap' /\ purge' = purge /\ Remember
  BY <1>4 DEF LookUp, Project, database
<1>5. CASE FollowPeer
  <2>1. purge' = purge /\ Remember
    BY <1>5 DEF FollowPeer, database
  <2>2. mishap \subseteq mishap'
    BY <1>5 DEF FollowPeer, Followed, Blame
  <2> QED BY <2>1, <2>2
<1>6. CASE BeginPurge
  BY <1>6 DEF BeginPurge, Blame
<1>7. CASE EraseSections
  BY <1>7 DEF EraseSections
<1>8. CASE Crash
  BY <1>8 DEF Crash, Blame, database
<1>9. CASE UNCHANGED vars
  BY <1>9 DEF vars
<1>10. LookUp => mishap \subseteq mishap' /\ purge' = purge /\ Remember
  BY DEF LookUp, database
<1>11. \A b \in Blocks : EditSection(b) => mishap \subseteq mishap' /\ purge' = purge /\ Remember
  BY DEF EditSection, database
<1> QED BY <1>1, <1>2, <1>3, <1>4, <1>5, <1>6, <1>7, <1>8, <1>9, <1>10, <1>11 DEF Next

LEMMA KeptGrows ==
  ASSUME Types, Types', Remember, NEW b \in Blocks
  PROVE  /\ kept[b] \in Nat /\ kept'[b] \in Nat /\ kept[b] <= kept'[b]
         /\ \/ kept'[b] = kept[b]
            \/ kept'[b] <= mem'[home][b] /\ kept'[b] <= disk'[home][b]
<1>1. kept \in Document /\ kept' \in Document /\ mem'[home] \in Document /\ disk'[home] \in Document
  BY DEF Types, TypeOK
<1>2. /\ kept[b] \in Nat /\ kept'[b] \in Nat
      /\ mem'[home][b] \in Nat /\ disk'[home][b] \in Nat
  BY <1>1, MoveAssumption DEF Document
<1>3. kept'[b] = Larger(kept[b], Smaller(mem'[home][b], disk'[home][b]))
  BY DEF Remember
<1> QED BY <1>2, <1>3 DEF Larger, Smaller

(* The four steps of the call that has the editor. *)
Working(m) == CopySection(m) \/ CommitMove(m) \/ UndoCopy(m) \/ ClearSection(m)

LEMMA EditorMoves ==
  ASSUME Types, NEW m \in Calls, Working(m)
  PROVE  /\ Holds(m)
         /\ \A k \in Calls \ {m} : call'[k] = call[k]
         /\ \/ call'[m].at = "idle"
            \/ /\ Holds(m)'
               /\ call'[m].from = call[m].from /\ call'[m].to = call[m].to
<1> USE DEF Types
<1>1. call \in [Calls -> Call]
  BY DEF TypeOK
<1>2. CASE CopySection(m)
  <2>1. call[m].at = "copy" /\ (NextTab(m, "commit") \/ Goto(m, "undo"))
    BY <1>2 DEF CopySection
  <2> QED BY <2>1, <1>1, CallMoves DEF Holds
<1>3. CASE CommitMove(m)
  <2>1. call[m].at = "commit" /\ (Goto(m, "clear") \/ Goto(m, "undo"))
    BY <1>3 DEF CommitMove
  <2> QED BY <2>1, <1>1, CallMoves DEF Holds
<1>4. CASE UndoCopy(m)
  <2>1. call[m].at = "undo" /\ NextTab(m, "idle")
    BY <1>4 DEF UndoCopy
  <2> QED BY <2>1, <1>1, CallMoves DEF Holds
<1>5. CASE ClearSection(m)
  <2>1. call[m].at = "clear" /\ (NextTab(m, "idle") \/ call' = [call EXCEPT ![m] = Idle])
    BY <1>5 DEF ClearSection
  <2>2. Idle.at = "idle"
    BY DEF Idle
  <2> QED BY <2>1, <2>2, <1>1, CallMoves DEF Holds
<1> QED BY <1>2, <1>3, <1>4, <1>5 DEF Working

LEMMA PlanMoves ==
  ASSUME Types, NEW m \in Calls, Plan(m)
  PROVE  /\ \A k \in Calls \ {m} : call'[k] = call[k]
         /\ call'[m].at = "planned" /\ call'[m].from # call'[m].to
<1>1. PICK to \in Notebooks :
        /\ Movable(home, to)
        /\ call' = [call EXCEPT ![m] = [at |-> "planned", from |-> home, to |-> to, tab |-> 1]]
  BY DEF Plan
<1> DEFINE next == [at |-> "planned", from |-> home, to |-> to, tab |-> 1]
<1>2. next.at = "planned" /\ next.from = home /\ next.to = to
  OBVIOUS
<1>3. call \in [Calls -> Call] /\ home # to
  BY <1>1 DEF Types, TypeOK, Movable
<1> HIDE DEF next
<1> QED BY <1>1, <1>2, <1>3 DEF next

LEMMA TakeMoves ==
  ASSUME Types, NEW m \in Calls, TakeEditor(m)
  PROVE  /\ EditorIsFree /\ call[m].at = "planned"
         /\ \A k \in Calls \ {m} : call'[k] = call[k]
         /\ call'[m].at = "copy" /\ call'[m].tab = 1
         /\ call'[m].from = call[m].from /\ call'[m].to = call[m].to
  BY CallMoves DEF TakeEditor, Types, TypeOK

(* The steps that leave the calls alone. *)
LEMMA CallsStay ==
  ASSUME [Next]_vars
  PROVE  \/ UNCHANGED call
         \/ \E m \in Calls : Plan(m) \/ TakeEditor(m) \/ Working(m)
         \/ Crash
<1>1. ASSUME NEW n \in Topics, DeleteTopic(n) \/ PeerMove(n) PROVE UNCHANGED call
  BY <1>1 DEF DeleteTopic, PeerMove
<1>2. ASSUME NEW b \in Blocks,
             EditSection(b) \/ \E n \in Notebooks : Flush(n, b)
      PROVE  UNCHANGED call
  BY <1>2 DEF EditSection, Flush
<1>3. ASSUME NEW tab, Project(tab) PROVE UNCHANGED call
  BY <1>3 DEF Project
<1>4. LookUp \/ FollowPeer \/ BeginPurge \/ EraseSections \/ UNCHANGED vars => UNCHANGED call
  BY DEF LookUp, FollowPeer, BeginPurge, EraseSections, vars
<1> QED BY <1>1, <1>2, <1>3, <1>4 DEF Next, Working

LEMMA PlansStep ==
  ASSUME Types, Plans, [Next]_vars
  PROVE  Plans'
<1>1. ASSUME NEW m \in Calls, Plan(m) PROVE Plans'
  BY <1>1, PlanMoves DEF Plans, Holds
<1>2. ASSUME NEW m \in Calls, TakeEditor(m) PROVE Plans'
  BY <1>2, TakeMoves DEF Plans, Holds, EditorIsFree
<1>3. ASSUME NEW m \in Calls, Working(m) PROVE Plans'
  BY <1>3, EditorMoves DEF Plans, Holds
<1>4. CASE Crash
  BY <1>4 DEF Crash, Plans, Holds, Idle
<1>5. CASE UNCHANGED call
  BY <1>5 DEF Plans, Holds
<1> QED BY <1>1, <1>2, <1>3, <1>4, <1>5, CallsStay

LEMMA SpokenStep ==
  ASSUME Types, Types', Spoken, [Next]_vars
  PROVE  Spoken'
<1>1. CASE UNCHANGED vars
  BY <1>1 DEF vars, Spoken
<1>2. CASE Remember
  BY <1>2, KeptGrows DEF Spoken
<1> QED BY <1>1, <1>2, Monotone

(* The home changes by a commit and by a peer's move; what is owed is paid or
   forgotten, and a purge of a session that is owed leaves it stranded. *)
LEMMA HomeMoves ==
  ASSUME Types, [Next]_vars
  PROVE  \/ UNCHANGED <<home, owed>> /\ (purge' # purge /\ owed # NoPath => \/ "stranded" \in mishap'
                                                                         \/ purge # "no")
         \/ /\ \E m \in Calls : CommitMove(m) /\ home' = call[m].to
            /\ owed' = owed /\ (owed # NoPath => "stranded" \in mishap')
         \/ \E to \in Topics : /\ PeerMove(to) /\ home' = to /\ owed' = [from |-> home, to |-> to]
                               /\ home # to /\ purge' = "no"
         \/ (FollowPeer \/ Crash) /\ home' = home /\ owed' = NoPath
<1> DEFINE Same == UNCHANGED <<home, owed, purge>>
<1>1. ASSUME NEW m \in Calls, CommitMove(m)
      PROVE  \/ Same
             \/ /\ CommitMove(m) /\ home' = call[m].to /\ owed' = owed
                /\ (owed # NoPath => "stranded" \in mishap')
  BY <1>1 DEF CommitMove, Blame
<1>2. ASSUME NEW m \in Calls,
             Plan(m) \/ TakeEditor(m) \/ CopySection(m) \/ UndoCopy(m) \/ ClearSection(m)
      PROVE  Same
  BY <1>2 DEF Plan, TakeEditor, CopySection, UndoCopy, ClearSection, database
<1>3. ASSUME NEW to \in Topics, PeerMove(to)
      PROVE  home' = to /\ owed' = [from |-> home, to |-> to] /\ home # to /\ purge' = "no"
  BY <1>3 DEF PeerMove
<1>4. ASSUME NEW n \in Topics, DeleteTopic(n) PROVE Same
  BY <1>4 DEF DeleteTopic
<1>5. ASSUME NEW b \in Blocks,
             EditSection(b) \/ \E n \in Notebooks : Flush(n, b)
      PROVE  Same
  BY <1>5 DEF EditSection, Flush, database
<1>6. ASSUME NEW tab, Project(tab) PROVE Same
  BY <1>6 DEF Project, database
<1>7. LookUp \/ UNCHANGED vars => Same
  BY DEF LookUp, vars, database
<1>8. BeginPurge => UNCHANGED <<home, owed>> /\ (owed # NoPath => "stranded" \in mishap')
  BY DEF BeginPurge, Blame
<1>9. EraseSections => UNCHANGED <<home, owed>> /\ purge # "no"
  BY DEF EraseSections
<1>10. FollowPeer \/ Crash => home' = home /\ owed' = NoPath
  BY DEF FollowPeer, Crash, database
<1> QED
  BY <1>1, <1>2, <1>3, <1>4, <1>5, <1>6, <1>7, <1>8, <1>9, <1>10 DEF Next

LEMMA FollowableStep ==
  ASSUME Types, Followable, [Next]_vars
  PROVE  Followable'
<1>1. mishap \subseteq mishap'
  BY Monotone
<1>2. ASSUME NEW m \in Calls, CommitMove(m) PROVE purge' = purge
  BY <1>2 DEF CommitMove
<1> QED BY <1>1, <1>2, HomeMoves DEF Followable

-----------------------------------------------------------------------------
(* What the home had saved is still there.                                 *)

Keeps(n, b) ==
    \A v \in Nat : v <= mem[n][b] /\ v <= disk[n][b] => v <= mem'[n][b] /\ v <= disk'[n][b]

LEMMA Versions ==
  ASSUME Types, NEW n \in Notebooks, NEW b \in Blocks
  PROVE  mem[n][b] \in Nat /\ disk[n][b] \in Nat /\ kept[b] \in Nat
<1>1. mem[n] \in Document /\ disk[n] \in Document /\ kept \in Document
  BY DEF Types, TypeOK
<1> QED BY <1>1, MoveAssumption DEF Document

LEMMA WithoutSlice ==
  ASSUME NEW doc \in Document, NEW tab, NEW b \in Blocks
  PROVE  /\ b \notin Slice(doc, tab) => Without(doc, tab)[b] = doc[b]
         /\ b \in Slice(doc, tab) => Without(doc, tab)[b] = 0
  BY DEF Without

(* A write that takes nothing away. *)
LEMMA WriteKeeps ==
  ASSUME Types, Types', NEW k \in Notebooks, NEW n \in Notebooks, NEW b \in Blocks,
         NEW doc \in Document, NEW tab,
         Save(k, doc, tab) \/ LeaveUnsaved(k, doc),
         k = n => mem[n][b] <= doc[b]
  PROVE  Keeps(n, b)
<1>1. /\ mem \in [Notebooks -> Document] /\ disk \in [Notebooks -> Document]
  BY DEF Types, TypeOK
<1>2. doc[b] \in Nat
  BY MoveAssumption DEF Document
<1>3. CASE Save(k, doc, tab)
  <2>1. CASE k # n
    BY <1>1, <1>3, <2>1 DEF Save, Keeps
  <2>2. CASE k = n
    <3>1. mem'[n] = doc /\ disk'[n] = Snapshot(disk[n], doc, tab)
      BY <1>1, <1>3, <2>2 DEF Save
    <3>2. disk'[n][b] = IF b \in Sections(tab) THEN doc[b] ELSE disk[n][b]
      BY <3>1 DEF Snapshot
    <3> QED BY <3>1, <3>2, <2>2, <1>2, Versions DEF Keeps
  <2> QED BY <2>1, <2>2
<1>4. CASE LeaveUnsaved(k, doc)
  <2>1. PICK left \in {mem[k], doc} : mem' = [mem EXCEPT ![k] = left] /\ disk' = disk
    BY <1>4 DEF LeaveUnsaved
  <2>2. mem'[n] = IF k = n THEN left ELSE mem[n]
    BY <2>1, <1>1
  <2>3. mem[n][b] <= mem'[n][b]
    BY <2>1, <2>2, <1>2, Versions
  <2>4. mem'[n][b] \in Nat
    BY <1>2, <2>1, <2>2, Versions
  <2> QED BY <2>1, <2>3, <2>4, Versions DEF Keeps
<1> QED BY <1>3, <1>4

LEMMA SameKeeps ==
  ASSUME UNCHANGED documents, NEW n, NEW b PROVE Keeps(n, b)
  BY DEF documents, Keeps

LEMMA StepKeeps ==
  ASSUME Types, Types', [Next]_vars, purge' = "no", Clean', NEW n \in Notebooks, NEW b \in Blocks,
         n = home \/ (owed # NoPath /\ n = owed.from /\ b \in Realtime)
  PROVE  Keeps(n, b) \/ FollowPeer \/ \E to \in Topics : PeerMove(to)
<1>0. /\ mem \in [Notebooks -> Document] /\ disk \in [Notebooks -> Document]
      /\ home \in Notebooks
      /\ \A m \in Calls : /\ call[m].from \in Notebooks /\ call[m].to \in Notebooks
                          /\ Tabs[call[m].tab] \in ToSet(Tabs)
  <2>1. ASSUME NEW m \in Calls PROVE call[m] \in Call
    BY DEF Types, TypeOK
  <2>2. ASSUME NEW m \in Calls PROVE call[m].tab \in 1..Len(Tabs)
    BY <2>1 DEF Call
  <2> QED BY <2>1, <2>2, SectionsAreBlocks DEF Types, TypeOK, Call
<1>1. ASSUME NEW m \in Calls, CopySection(m) PROVE Keeps(n, b)
  <2> DEFINE tab == Tabs[call[m].tab]
             from == mem[call[m].from]
             copy == Spliced(mem[call[m].to], from, tab)
  <2>1. \/ UNCHANGED documents \/ Save(call[m].to, copy, tab) \/ LeaveUnsaved(call[m].to, copy)
    BY <1>1 DEF CopySection
  <2>2. copy \in Document /\ mem[call[m].to][b] <= copy[b]
    BY <1>0, DocumentUpdates, SplicedGrows
  <2> HIDE DEF copy
  <2> QED BY <1>0, <2>1, <2>2, WriteKeeps, SameKeeps
<1>2. ASSUME NEW m \in Calls, NEW k \in Notebooks, NEW always \in BOOLEAN,
             LET tab == Tabs[call[m].tab]
             IN  /\ Removed(k, tab, always) \/ LeaveUnsaved(k, Without(mem[k], tab))
                 /\ ~RemovesFromHome(k, tab)
      PROVE  Keeps(n, b)
  <2> DEFINE tab == Tabs[call[m].tab]
             rest == Without(mem[k], tab)
  <2>1. UNCHANGED documents \/ Save(k, rest, tab) \/ LeaveUnsaved(k, rest)
    BY <1>2 DEF Removed
  <2>2. rest \in Document /\ mem[k] \in Document
    BY <1>0, DocumentUpdates
  <2>3. k = n => mem[n][b] <= rest[b]
    <3> SUFFICES ASSUME k = n PROVE b \notin Slice(mem[n], tab)
      BY <2>2, WithoutSlice, Versions
    <3>1. ~RemovesFromHome(n, tab)
      BY <1>2
    <3>2. CASE n = home
      BY <3>1, <3>2 DEF RemovesFromHome
    <3>3. CASE tab = "realtime" /\ n # home
      BY <3>1, <3>3 DEF RemovesFromHome
    <3>4. CASE tab # "realtime" /\ b \in Realtime
      <4>1. tab \in {"async", "note"}
        BY <3>4, <1>0, TabsAreThese
      <4> QED BY <4>1, <3>4 DEF Slice, Sections, Realtime
    <3> QED BY <3>2, <3>3, <3>4
  <2> HIDE DEF rest
  <2> QED BY <2>1, <2>2, <2>3, WriteKeeps, SameKeeps
<1>3. ASSUME NEW m \in Calls, UndoCopy(m) PROVE Keeps(n, b)
  <2>1. LET tab == Tabs[call[m].tab]
        IN  /\ \/ Removed(call[m].to, tab, tab = "realtime")
               \/ LeaveUnsaved(call[m].to, Without(mem[call[m].to], tab))
            /\ ~RemovesFromHome(call[m].to, tab)
    BY <1>3 DEF UndoCopy, Blame, Clean
  <2>2. (Tabs[call[m].tab] = "realtime") \in BOOLEAN
    OBVIOUS
  <2> QED BY <2>1, <2>2, <1>0, <1>2
<1>4. ASSUME NEW m \in Calls, ClearSection(m) PROVE Keeps(n, b)
  <2>1. LET tab == Tabs[call[m].tab]
        IN  /\ \/ Removed(call[m].from, tab, FALSE)
               \/ LeaveUnsaved(call[m].from, Without(mem[call[m].from], tab))
            /\ ~RemovesFromHome(call[m].from, tab)
    BY <1>4 DEF ClearSection, Blame, Clean
  <2> QED BY <2>1, <1>0, <1>2
<1>5. ASSUME NEW m \in Calls, Plan(m) \/ TakeEditor(m) \/ CommitMove(m) PROVE Keeps(n, b)
  BY <1>5, SameKeeps DEF Plan, TakeEditor, CommitMove
<1>6. ASSUME NEW c \in Topics, DeleteTopic(c) PROVE Keeps(n, b)
  BY <1>6, SameKeeps DEF DeleteTopic
<1>7. ASSUME NEW c \in Blocks, EditSection(c) PROVE Keeps(n, b)
  <2> DEFINE doc == [mem[home] EXCEPT ![c] = Newest + 1]
  <2>1. mem' = [mem EXCEPT ![home] = doc] /\ disk' = disk
    BY <1>7 DEF EditSection
  <2>2. Newest \in Nat /\ mem[home][b] <= Newest
    BY <1>0, NewestIsNewest, BlocksAreThese, MoveAssumption DEF Types
  <2>3. mem[home][b] <= doc[b] /\ doc[b] \in Nat
    BY <1>0, <2>2, Versions DEF Document
  <2> HIDE DEF doc
  <2> QED BY <1>0, <2>1, <2>3, Versions DEF Keeps
<1>8. ASSUME NEW c \in Blocks, NEW k \in Notebooks, Flush(k, c) PROVE Keeps(n, b)
  <2>1. mem' = mem /\ disk' = [disk EXCEPT ![k][c] = mem[k][c]]
    BY <1>8 DEF Flush
  <2>2. disk'[n][b] \in {disk[n][b], mem[n][b]}
    BY <1>0, <2>1 DEF Document
  <2> QED BY <2>1, <2>2 DEF Keeps
<1>9. ASSUME NEW tab \in ToSet(Tabs), Project(tab) PROVE Keeps(n, b)
  <2> DEFINE c == IF tab = "realtime" THEN "line" ELSE tab
             doc == [mem[home] EXCEPT ![c] = Newest + 1]
  <2>1. UNCHANGED documents \/ (MayWrite /\ Save(home, doc, tab))
    BY <1>9 DEF Project, Written
  <2>2. CASE UNCHANGED documents
    BY <2>2, SameKeeps
  <2>3. CASE MayWrite /\ Save(home, doc, tab)
    <3>1. Newest \in 0..MaxVersion /\ Newest < MaxVersion /\ mem[home][b] <= Newest
      BY <2>3, <1>0, NewestIsNewest, BlocksAreThese DEF MayWrite, Types
    <3>2. Newest + 1 \in 0..MaxVersion
      BY <3>1, MoveAssumption
    <3>3. doc \in Document /\ mem[home][b] <= doc[b]
      <4>1. mem[home] \in Document /\ mem[home][b] \in Nat
        BY <1>0, Versions
      <4> HIDE DEF c
      <4>2. doc \in Document
        BY <4>1, <3>2 DEF Document
      <4>3. doc[b] = IF b = c THEN Newest + 1 ELSE mem[home][b]
        BY <4>1 DEF Document
      <4> QED BY <4>1, <4>2, <4>3, <3>1
    <3> HIDE DEF doc
    <3> QED BY <1>0, <2>3, <3>3, WriteKeeps
  <2> QED BY <2>1, <2>2, <2>3
<1>10. CASE LookUp \/ BeginPurge \/ UNCHANGED vars
  BY <1>10, SameKeeps DEF LookUp, BeginPurge, vars, documents
<1>11. CASE EraseSections
  BY <1>11 DEF EraseSections
<1>12. CASE Crash
  BY <1>12 DEF Crash, Keeps
<1> QED
  BY <1>1, <1>3, <1>4, <1>5, <1>6, <1>7, <1>8, <1>9, <1>10, <1>11, <1>12 DEF Next

-----------------------------------------------------------------------------
(* A home keeps its lines as long as it keeps anything.                     *)
LEMMA LinesAreKept ==
  ASSUME Types, Spoken, NEW n \in Notebooks, NEW tab \in ToSet(Tabs),
         \A b \in Sections(tab) : kept[b] <= mem[n][b],
         NEW b \in Sections(tab), b \notin Slice(mem[n], tab)
  PROVE  mem[n][b] = 0
<1>1. Sections(tab) \subseteq Blocks
  BY TabsAreThese
<1>2. CASE tab # "realtime"
  BY <1>2 DEF Slice
<1>3. CASE tab = "realtime"
  <2>1. "line" \in Sections(tab) /\ "line" \in Blocks
    BY <1>1, <1>3 DEF Sections
  <2>2. kept["line"] # 0 /\ kept["line"] <= mem[n]["line"]
    BY <2>1 DEF Spoken
  <2>3. mem[n]["line"] # 0
    BY <2>1, <2>2, Versions
  <2> QED BY <2>3 DEF Slice
<1> QED BY <1>2, <1>3

(* A section that was copied, and not in the place of an older one, is there. *)
LEMMA SectionCopied ==
  ASSUME Types, NEW from \in Document, NEW n \in Notebooks, NEW tab,
         ~KeepsOlder(n, from, tab), NEW b \in Blocks, b \in Slice(from, tab)
  PROVE  LET copy == Spliced(mem[n], from, tab)
         IN  /\ from[b] <= copy[b] /\ copy[b] \in Nat /\ from[b] \in Nat
             /\ copy[b] = mem[n][b] => from[b] <= disk[n][b]
<1>1. mem[n] \in Document /\ from[b] \in Nat /\ from[b] # 0
  <2>1. mem[n] \in Document
    BY DEF Types, TypeOK
  <2>2. from[b] \in Nat
    BY MoveAssumption DEF Document
  <2> QED BY <2>1, <2>2 DEF Slice
<1>2. mem[n][b] \in Nat /\ disk[n][b] \in Nat
  BY Versions
<1>3. mem[n][b] # 0 => from[b] <= mem[n][b] /\ from[b] <= disk[n][b]
  BY <1>1, <1>2 DEF KeepsOlder
<1>4. /\ mem[n][b] = 0 => Spliced(mem[n], from, tab)[b] = from[b]
      /\ mem[n][b] # 0 => Spliced(mem[n], from, tab)[b] = mem[n][b]
  BY <1>1, SplicedGrows
<1> QED BY <1>1, <1>2, <1>3, <1>4

(* The copies of a call are not undone while it may be committed. *)
LEMMA CopiedStep ==
  ASSUME WholeInv, Types', [Next]_vars, purge' = "no", Clean', NEW m \in Calls
  PROVE  Copied(m)'
<1> DEFINE from == call[m].from
           to == call[m].to
           Has(b) == mem[from][b] <= mem[to][b] /\ mem[from][b] <= disk[to][b]
<1> SUFFICES ASSUME call'[m].at \in {"copy", "commit"}, owed' = NoPath, home' = call'[m].from,
                    NEW i \in 1..Len(Tabs), i < call'[m].tab \/ call'[m].at = "commit",
                    NEW b \in Sections(Tabs[i])
             PROVE  /\ mem'[home'][b] <= mem'[call'[m].to][b]
                    /\ mem'[home'][b] <= disk'[call'[m].to][b]
  BY DEF Copied
<1>0. /\ Types /\ purge = "no" /\ Clean
      /\ \A c \in Blocks : Kept(c)
      /\ Copied(m)
  BY Monotone DEF WholeInv, Types, Clean, Whole
<1>a. /\ mem \in [Notebooks -> Document] /\ disk \in [Notebooks -> Document]
      /\ home \in Notebooks /\ from \in Notebooks /\ to \in Notebooks
      /\ call[m].tab \in 1..Len(Tabs) /\ call[m].at \in {"idle", "planned", "copy", "commit", "undo", "clear"}
  <2>1. call[m] \in Call
    BY <1>0 DEF Types, TypeOK
  <2> QED BY <2>1, <1>0 DEF Types, TypeOK, Call
<1>b. b \in Blocks
  BY SectionsAreBlocks
(* the documents and the call are as they were *)
<1>1. CASE UNCHANGED <<documents, home, owed>> /\ call'[m] = call[m]
  BY <1>1, <1>0 DEF Copied, documents
<1>2. CASE EditorIsFree /\ call'[m] = call[m]
  BY <1>2 DEF EditorIsFree
<1>3. CASE CopySection(m)
  <2> DEFINE tab == Tabs[call[m].tab]
             copy == Spliced(mem[to], mem[from], tab)
  <2>1. /\ call[m].at = "copy" /\ home = from /\ owed = NoPath /\ from # to
        /\ call'[m].from = from /\ call'[m].to = to
    <3>1. call[m].at = "copy" /\ UNCHANGED <<home, owed>>
      BY <1>3 DEF CopySection, database
    <3>2. Working(m) /\ call'[m].at # "idle"
      BY <1>3 DEF Working
    <3>3. call'[m].from = from /\ call'[m].to = to
      BY <3>2, <1>0, EditorMoves
    <3> QED BY <3>1, <3>3 DEF WholeInv, Plans
  <2>2. /\ IF copy = mem[to] THEN UNCHANGED documents ELSE Save(to, copy, tab)
        /\ NextTab(m, "commit")
        /\ ~KeepsOlder(to, mem[from], tab)
    <3>1. ~Goto(m, "undo")
      BY <1>0, CallMoves DEF Types, TypeOK
    <3> QED BY <3>1, <1>3 DEF CopySection, Blame, Clean
  <2>3. i < call[m].tab \/ i = call[m].tab
    <3>1. \/ call[m].tab < Len(Tabs) /\ call'[m].tab = call[m].tab + 1 /\ call'[m].at = "copy"
          \/ call[m].tab = Len(Tabs)
      BY <2>1, <2>2, <1>0, CallMoves DEF Types, TypeOK
    <3> QED BY <3>1, <1>a, MoveAssumption
  <2>4. copy \in Document /\ mem[from] \in Document /\ mem[to] \in Document
    BY <1>a, DocumentUpdates
  <2>5. /\ mem'[to] = copy /\ mem'[from] = mem[from]
        /\ disk'[to][b] = IF copy # mem[to] /\ b \in Sections(tab) THEN copy[b] ELSE disk[to][b]
    <3>1. CASE copy = mem[to]
      BY <3>1, <2>2 DEF documents
    <3>2. CASE copy # mem[to]
      <4> HIDE DEF copy
      <4> QED BY <3>2, <2>1, <2>2, <1>a, <1>b DEF Save, Snapshot
    <3> QED BY <3>1, <3>2
  <2>6. mem[to][b] <= copy[b] /\ copy[b] \in Nat
    <3>1. mem[to][b] <= copy[b]
      BY <2>4, <1>b, SplicedGrows
    <3>2. copy[b] \in Nat
      <4> HIDE DEF copy
      <4> QED BY <2>4, <1>b, MoveAssumption DEF Document
    <3> QED BY <3>1, <3>2
  <2>7. ASSUME i < call[m].tab PROVE Has(b)
    BY <2>1, <2>7, <1>0 DEF Copied
  <2>8. ASSUME i = call[m].tab
        PROVE  /\ mem[from][b] <= copy[b]
               /\ copy[b] = mem[to][b] => mem[from][b] <= disk[to][b]
    <3>1. CASE b \in Slice(mem[from], tab)
      BY <3>1, <2>2, <2>4, <1>0, <1>a, <1>b, SectionCopied
    <3>2. CASE b \notin Slice(mem[from], tab)
      <4>1. tab \in ToSet(Tabs) /\ Sections(tab) \subseteq Blocks
        BY <1>a, SectionsAreBlocks
      <4>2. \A c \in Sections(tab) : kept[c] <= mem[from][c]
        BY <4>1, <1>0, <2>1 DEF Kept, SavedAt
      <4>3. mem[from][b] = 0
        BY <4>1, <4>2, <3>2, <2>8, <1>0, <1>a, LinesAreKept DEF WholeInv
      <4> QED BY <4>3, <1>0, <1>a, <1>b, <2>6, Versions
    <3> QED BY <3>1, <3>2
  <2>9. i = call[m].tab => b \in Sections(tab)
    OBVIOUS
  <2>10. mem[from][b] \in Nat /\ mem[to][b] \in Nat /\ disk[to][b] \in Nat
    BY <1>0, <1>a, <1>b, Versions
  <2>11. home' = from
    BY <2>1
  <2> HIDE DEF copy, tab, from, to
  <2> QED BY <2>1, <2>3, <2>5, <2>6, <2>7, <2>8, <2>9, <2>10, <2>11
<1>4. ASSUME NEW k \in Calls, Plan(k) \/ TakeEditor(k) \/ Working(k) PROVE m = k => CopySection(m) \/ i < 1
  <2> SUFFICES ASSUME m = k PROVE CopySection(m) \/ i < 1
    OBVIOUS
  <2>1. CASE Plan(m)
    BY <2>1, <1>0, PlanMoves
  <2>2. CASE TakeEditor(m)
    BY <2>2, <1>0, TakeMoves
  <2>3. CASE CommitMove(m)
    <3>1. Goto(m, "clear") \/ Goto(m, "undo")
      BY <2>3 DEF CommitMove
    <3> QED BY <3>1, <1>0, CallMoves DEF Types, TypeOK
  <2>4. CASE UndoCopy(m) \/ ClearSection(m)
    <3>1. /\ call[m].at \in {"undo", "clear"}
          /\ NextTab(m, "idle") \/ call' = [call EXCEPT ![m] = Idle]
      BY <2>4 DEF UndoCopy, ClearSection
    <3>2. Idle.at = "idle"
      BY DEF Idle
    <3> QED BY <3>1, <3>2, <1>0, CallMoves DEF Types, TypeOK
  <2> QED BY <1>4, <2>1, <2>2, <2>3, <2>4 DEF Working
<1>5. ASSUME NEW k \in Calls, Plan(k) \/ TakeEditor(k), k # m
      PROVE  UNCHANGED <<documents, home, owed>> /\ call'[m] = call[m]
  <2>1. call'[m] = call[m]
    BY <1>5, <1>0, PlanMoves, TakeMoves
  <2> QED BY <2>1, <1>5 DEF Plan, TakeEditor, database
<1>6. ASSUME NEW k \in Calls, Working(k), k # m
      PROVE  FALSE
  <2>1. call'[m] = call[m] /\ Holds(k)
    BY <1>6, <1>0, EditorMoves
  <2> QED BY <2>1, <1>6 DEF Holds, WholeInv, Plans
<1>7. ASSUME NEW n \in Topics, PeerMove(n) PROVE FALSE
  <2>1. owed' = [from |-> home, to |-> n] /\ home # n
    BY <1>7 DEF PeerMove
  <2> QED BY <2>1 DEF NoPath
<1>8. ASSUME NEW n \in Topics, DeleteTopic(n)
      PROVE  UNCHANGED <<documents, home, owed>> /\ call'[m] = call[m]
  BY <1>8 DEF DeleteTopic
<1>9. ASSUME NEW c \in Blocks, EditSection(c) \/ \E n \in Notebooks : Flush(n, c)
      PROVE  EditorIsFree /\ call'[m] = call[m]
  BY <1>9 DEF EditSection, Flush
<1>10. ASSUME NEW tab, Project(tab) PROVE EditorIsFree /\ call'[m] = call[m]
  BY <1>10 DEF Project
<1>11. FollowPeer \/ EraseSections => EditorIsFree /\ call'[m] = call[m]
  BY DEF FollowPeer, EraseSections
<1>12. LookUp \/ BeginPurge \/ UNCHANGED vars =>
         UNCHANGED <<documents, home, owed>> /\ call'[m] = call[m]
  BY DEF LookUp, BeginPurge, vars, documents, database
<1>13. ~Crash
  BY DEF Crash, Idle
<1>14. i >= 1
  OBVIOUS
<1> HIDE DEF from, to, Has
<1> QED
  BY <1>1, <1>2, <1>3, <1>4, <1>5, <1>6, <1>7, <1>8, <1>9, <1>10, <1>11, <1>12, <1>13, <1>14
     DEF Next, Working

-----------------------------------------------------------------------------
(* After a step: what was kept is kept, if the documents kept it.           *)
LEMMA StillSaved ==
  ASSUME Types, Types', Remember, NEW n \in Notebooks, NEW b \in Blocks,
         kept[b] <= mem'[n][b], kept[b] <= disk'[n][b]
  PROVE  \/ kept'[b] <= mem'[n][b] /\ kept'[b] <= disk'[n][b]
         \/ kept'[b] <= mem'[home][b] /\ kept'[b] <= disk'[home][b]
  BY KeptGrows

LEMMA SectionOf ==
  ASSUME NEW b \in Blocks PROVE \E i \in 1..Len(Tabs) : b \in Sections(Tabs[i])
<1>1. PICK tab \in ToSet(Tabs) : b \in Sections(tab)
  BY DEF Blocks
<1>2. PICK i \in DOMAIN Tabs : tab = Tabs[i]
  BY DEF ToSet
<1>3. i \in 1..Len(Tabs)
  BY MoveAssumption
<1> QED BY <1>1, <1>2, <1>3

LEMMA PeerMoveKeeps ==
  ASSUME WholeInv, Types', purge = "no", Clean, NEW to \in Topics, PeerMove(to), NEW b \in Blocks
  PROVE  /\ Kept(b)'
         /\ b = "line" => Owing(b)'
<1>0. Types /\ Kept(b)
  BY DEF WholeInv, Types, Whole
<1>1. /\ owed = NoPath /\ home # to /\ home' = to /\ owed' = [from |-> home, to |-> to]
      /\ mem' = Carried(mem, home, to) /\ disk' = Carried(disk, home, to) /\ Remember
  BY DEF PeerMove
<1>2. home \in Notebooks /\ to \in Notebooks /\ owed' # NoPath /\ owed'.from = home
  BY <1>0, <1>1 DEF Types, TypeOK, Notebooks, NoPath
<1>3. SavedAt(home, b)
  BY <1>0, <1>1 DEF Kept
<1>4. CASE b \in Realtime
  <2>1. /\ mem'[home][b] = mem[home][b] /\ disk'[home][b] = disk[home][b]
    BY <1>1, <1>2, <1>4 DEF Carried, Realtime
  <2>2. SavedAt(owed.from, b)'
    BY <2>1, <1>0, <1>1, <1>2, <1>3, StillSaved DEF SavedAt
  <2>3. b = "line" => Owing(b)'
    <3>1. b = "line" => kept[b] # 0
      BY DEF WholeInv, Spoken
    <3> QED BY <3>1, <2>1, <1>2, <1>3, <1>0, Versions DEF SavedAt, Owing
  <2> QED BY <2>2, <2>3, <1>2, <1>4 DEF Kept, SavedAt
<1>5. CASE b \notin Realtime
  <2>1. /\ mem'[to][b] = Larger(mem[to][b], mem[home][b]) /\ mem'[home][b] = 0
        /\ disk'[to][b] = Larger(disk[to][b], disk[home][b])
    BY <1>1, <1>2, <1>5 DEF Carried, Realtime
  <2>2. kept[b] <= mem'[to][b] /\ kept[b] <= disk'[to][b]
    BY <2>1, <1>0, <1>2, <1>3, Versions DEF Larger, SavedAt
  <2>3. kept'[b] = kept[b]
    BY <2>1, <1>0, <1>1, KeptGrows
  <2>4. b # "line"
    BY <1>5 DEF Realtime, Sections
  <2> QED BY <2>2, <2>3, <2>4, <1>1 DEF Kept, SavedAt
<1> QED BY <1>4, <1>5

LEMMA CommitKeeps ==
  ASSUME WholeInv, Types', purge = "no", Clean, NEW m \in Calls, CommitMove(m),
         home' = call[m].to, owed = NoPath, NEW b \in Blocks
  PROVE  Kept(b)'
<1>0. Types /\ Kept(b) /\ Copied(m)
  BY DEF WholeInv, Types, Whole
<1>1. call[m].at = "commit" /\ UNCHANGED documents /\ Remember
  BY DEF CommitMove
<1>2. home = call[m].from \/ home' = home
  BY DEF CommitMove, Movable
<1>3. SavedAt(home, b)
  BY <1>0 DEF Kept
<1>4. CASE home' = home
  BY <1>0, <1>1, <1>3, <1>4, StillSaved DEF documents, SavedAt, Kept, Types, TypeOK
<1>5. CASE home = call[m].from
  <2>1. PICK i \in 1..Len(Tabs) : b \in Sections(Tabs[i])
    BY SectionOf
  <2>2. mem[home][b] <= mem[home'][b] /\ mem[home][b] <= disk[home'][b]
    BY <2>1, <1>0, <1>1, <1>5 DEF Copied
  <2>3. home \in Notebooks /\ home' \in Notebooks
    BY <1>0 DEF Types, TypeOK
  <2>4. kept'[b] = kept[b] \/ kept'[b] <= mem[home][b]
    BY <1>0, <1>1, KeptGrows DEF documents
  <2>5. kept'[b] <= mem[home][b] /\ kept'[b] \in Nat
    BY <2>4, <1>0, <1>1, <1>3, KeptGrows DEF SavedAt
  <2>6. SavedAt(home, b)'
    BY <2>2, <2>3, <2>5, <1>0, <1>1, Versions DEF SavedAt, documents
  <2> QED BY <2>6 DEF Kept
<1> QED BY <1>2, <1>4, <1>5

LEMMA FollowKeeps ==
  ASSUME WholeInv, Types', purge = "no", Clean', FollowPeer, NEW b \in Blocks
  PROVE  Kept(b)'
<1> DEFINE to == owed.to
           from == mem[owed.from]
           copy == Spliced(mem[to], from, "realtime")
           rest == Without(from, "realtime")
<1>0. /\ Types /\ \A c \in Blocks : Kept(c)
      /\ owed # NoPath /\ home = to /\ owed.from # to
      /\ "line" \in Blocks => Owing("line")
  <2>1. Clean /\ owed # NoPath
    BY Monotone DEF FollowPeer, Clean, WholeInv, Types, Next
  <2> QED BY <2>1 DEF WholeInv, Types, Whole, Followable, Clean
<1>1. home' = home /\ home \in Notebooks /\ owed.from \in Notebooks /\ Remember
  BY <1>0 DEF FollowPeer, database, Types, TypeOK, Path
<1>2. /\ mem \in [Notebooks -> Document] /\ disk \in [Notebooks -> Document]
      /\ from \in Document /\ mem[to] \in Document
  BY <1>0, <1>1 DEF Types, TypeOK
<1>3. copy \in Document /\ mem[to][b] <= copy[b]
  BY <1>2, DocumentUpdates, SplicedGrows
<1>4. copy[b] \in Nat
  <2> HIDE DEF copy
  <2> QED BY <1>3, MoveAssumption DEF Document
(* a remark is where the lines are *)
<1>5. b \in Realtime /\ b \notin Slice(from, "realtime") => from[b] = 0
  <2>1. b \in Realtime => "line" \in Blocks /\ b \in {"line", "remark"}
    BY BlocksAreThese DEF Realtime, Sections
  <2> QED BY <2>1, <1>0 DEF Slice, Owing, Realtime
<1>6. ASSUME kept[b] <= mem'[home][b], kept[b] <= disk'[home][b]
      PROVE  Kept(b)'
  BY <1>0, <1>1, <1>6, StillSaved DEF Kept, SavedAt
<1>7. CASE Slice(from, "realtime") = {}
  <2>1. UNCHANGED documents
    BY <1>7 DEF FollowPeer
  <2>2. SavedAt(home, b) \/ (b \in Realtime /\ SavedAt(owed.from, b))
    BY <1>0 DEF Kept
  <2>3. b \in Realtime /\ SavedAt(owed.from, b) => kept[b] = 0
    <3> SUFFICES ASSUME b \in Realtime, SavedAt(owed.from, b) PROVE kept[b] = 0
      OBVIOUS
    <3>1. mem[owed.from][b] = 0
      BY <1>5, <1>7
    <3>2. kept[b] \in Nat
      BY <1>0, <1>1, Versions
    <3> QED BY <3>1, <3>2 DEF SavedAt
  <2>4. kept[b] <= mem[home][b] /\ kept[b] <= disk[home][b]
    <3>1. mem[home][b] \in Nat /\ disk[home][b] \in Nat
      BY <1>0, <1>1, Versions
    <3> QED BY <2>2, <2>3, <3>1 DEF SavedAt
  <2> QED BY <2>1, <2>4, <1>6 DEF documents
<1>8. CASE Slice(from, "realtime") # {}
  <2>1. PICK done \in 0..4 : Followed(done, copy, rest)
    BY <1>8 DEF FollowPeer
  <2>2. done > 1 /\ ~KeepsOlder(to, from, "realtime")
    <3> HIDE DEF copy, rest
    <3>1. mishap' = mishap \cup ((IF done < 2 THEN {"stranded"} ELSE {})
                                   \cup (IF done < 4 THEN {"leftover"} ELSE {})
                                   \cup (IF KeepsOlder(to, from, "realtime")
                                          THEN {"kept older"} ELSE {}))
      BY <2>1 DEF Followed, Blame
    <3>2. "stranded" \notin mishap' /\ "kept older" \notin mishap'
      BY DEF Clean
    <3>3. done < 2 => "stranded" \in mishap'
      BY <3>1
    <3>4. KeepsOlder(to, from, "realtime") => "kept older" \in mishap'
      BY <3>1, Zenon
    <3>5. done > 1
      <4>1. ~(done < 2)
        BY <3>2, <3>3, Zenon
      <4> QED BY <4>1
    <3>6. ~KeepsOlder(to, from, "realtime")
      BY <3>2, <3>4, Zenon
    <3> QED BY <3>5, <3>6
  <2> HIDE DEF copy, rest
  <2>3. mem'[to] = copy /\ disk'[to] = Snapshot(disk[to], copy, "realtime")
    BY <2>1, <2>2, <1>0, <1>1, <1>2 DEF Followed
  <2>4. disk'[to][b] = IF b \in Realtime THEN copy[b] ELSE disk[to][b]
    BY <2>3 DEF Snapshot, Realtime
  <2>5. kept[b] <= copy[b] /\ (b \notin Realtime => kept[b] <= disk[to][b])
    <3>1. CASE SavedAt(home, b)
      BY <3>1, <1>0, <1>1, <1>3, <1>4, Versions DEF SavedAt
    <3>2. CASE b \in Realtime /\ SavedAt(owed.from, b)
      <4>1. CASE b \in Slice(from, "realtime")
        <5>1. from[b] <= copy[b] /\ from[b] \in Nat
          BY <4>1, <2>2, <1>0, <1>1, <1>2, SectionCopied DEF copy
        <5> QED BY <5>1, <3>2, <1>0, <1>1, <1>4, Versions DEF SavedAt
      <4>2. CASE b \notin Slice(from, "realtime")
        BY <4>2, <3>2, <1>0, <1>1, <1>4, <1>5, Versions DEF SavedAt
      <4> QED BY <4>1, <4>2, <3>2
    <3> QED BY <3>1, <3>2, <1>0 DEF Kept
  <2> QED BY <2>3, <2>4, <2>5, <1>0, <1>6
<1> QED BY <1>7, <1>8

LEMMA KeptStep ==
  ASSUME WholeInv, Types', [Next]_vars, purge' = "no", Clean', NEW b \in Blocks
  PROVE  Kept(b)'
<1>0. /\ Types /\ purge = "no" /\ Clean /\ Kept(b)
      /\ UNCHANGED vars \/ Remember
      /\ home \in Notebooks /\ owed.from \in Notebooks
  <2>1. Types /\ purge = "no" /\ Clean /\ (UNCHANGED vars \/ Remember)
    BY Monotone DEF WholeInv, Types, Clean
  <2> QED BY <2>1 DEF WholeInv, Whole, Types, TypeOK, Path
<1>1. CASE UNCHANGED vars
  BY <1>0, <1>1 DEF vars, Kept, SavedAt
<1>2. ASSUME Remember, home' = home, NEW n \in Notebooks, SavedAt(n, b), Keeps(n, b),
             n = home \/ (owed' = owed /\ owed # NoPath /\ n = owed.from /\ b \in Realtime)
      PROVE  Kept(b)'
  <2>1. kept[b] <= mem'[n][b] /\ kept[b] <= disk'[n][b]
    BY <1>2, <1>0, Versions DEF Keeps, SavedAt
  <2> QED BY <2>1, <1>0, <1>2, StillSaved DEF Kept, SavedAt
<1>3. CASE Remember /\ UNCHANGED <<home, owed>> /\ ~FollowPeer
  <2>1. ASSUME NEW to \in Topics, PeerMove(to) PROVE FALSE
    BY <2>1, <1>3 DEF PeerMove
  <2>2. PICK n \in Notebooks : /\ SavedAt(n, b)
                               /\ \/ n = home
                                  \/ owed # NoPath /\ n = owed.from /\ b \in Realtime
    BY <1>0 DEF Kept
  <2>3. Keeps(n, b)
    BY <2>1, <2>2, <1>0, <1>3, StepKeeps
  <2> QED BY <2>2, <2>3, <1>2, <1>3
<1>4. CASE FollowPeer
  BY <1>0, <1>4, FollowKeeps
<1>5. CASE Crash
  <2>1. owed = NoPath /\ home' = home /\ mem' = disk /\ disk' = disk /\ Remember
    BY <1>5 DEF Crash, Blame, Clean, database
  <2> QED BY <2>1, <1>0, <1>2 DEF Kept, SavedAt, Keeps
<1>6. ASSUME NEW m \in Calls, CommitMove(m), home' = call[m].to, owed' = owed,
             owed # NoPath => "stranded" \in mishap'
      PROVE  Kept(b)'
  BY <1>0, <1>6, CommitKeeps DEF Clean
<1>7. ASSUME NEW to \in Topics, PeerMove(to) PROVE Kept(b)'
  BY <1>0, <1>7, PeerMoveKeeps
<1> QED BY <1>0, <1>1, <1>3, <1>4, <1>5, <1>6, <1>7, HomeMoves

LEMMA OwingStep ==
  ASSUME WholeInv, Types', [Next]_vars, purge' = "no", Clean', owed' # NoPath, "line" \in Blocks
  PROVE  Owing("line")'
<1>0. Types /\ Types' /\ purge = "no" /\ Clean /\ owed \in Path
  BY Monotone DEF WholeInv, Types, Clean, TypeOK
<1>1. ASSUME NEW to \in Topics, PeerMove(to) PROVE Owing("line")'
  BY <1>0, <1>1, PeerMoveKeeps
<1>2. CASE owed' = owed /\ ~FollowPeer
  <2>1. ASSUME NEW to \in Topics, PeerMove(to) PROVE FALSE
    BY <1>2, <2>1 DEF PeerMove
  <2>2. owed.from \in Notebooks /\ "line" \in Realtime /\ Owing("line")
    BY <1>0, <1>2 DEF Path, Realtime, Sections, WholeInv, Whole
  <2>3. Keeps(owed.from, "line")
    BY <2>1, <2>2, <1>0, <1>2, StepKeeps
  <2>4. /\ mem[owed.from]["line"] \in Nat /\ disk[owed.from]["line"] \in Nat
        /\ mem'[owed.from]["line"] \in Nat /\ disk'[owed.from]["line"] \in Nat
    <3>1. mem'[owed.from] \in Document /\ disk'[owed.from] \in Document
      BY <1>0, <2>2 DEF Types, TypeOK
    <3>2. mem'[owed.from]["line"] \in Nat /\ disk'[owed.from]["line"] \in Nat
      BY <3>1, MoveAssumption DEF Document
    <3> QED BY <2>2, <1>0, <3>2, Versions
  <2>5. 1 <= mem[owed.from]["line"] /\ 1 <= disk[owed.from]["line"]
    BY <2>2, <2>4 DEF Owing
  <2>6. 1 <= mem'[owed.from]["line"] /\ 1 <= disk'[owed.from]["line"]
    BY <2>3, <2>5 DEF Keeps
  <2> QED BY <2>4, <2>6, <1>2 DEF Owing
<1>3. FollowPeer \/ Crash => owed' = NoPath
  BY DEF FollowPeer, Crash
<1> QED BY <1>0, <1>1, <1>2, <1>3, HomeMoves

LEMMA WholeStep ==
  ASSUME WholeInv, [Next]_vars
  PROVE  WholeInv'
<1>1. Types /\ Types'
  BY TypeStep DEF WholeInv, Types
<1>2. Plans' /\ Spoken' /\ Followable'
  BY <1>1, PlansStep, SpokenStep, FollowableStep DEF WholeInv
<1>3. Whole'
  BY <1>1, KeptStep, OwingStep, CopiedStep DEF Whole
<1> QED BY <1>1, <1>2, <1>3 DEF WholeInv, Types

LEMMA InitIsWhole ==
  ASSUME Init PROVE WholeInv
<1>1. Unfiled \in Notebooks /\ 1 \in 1..Len(Tabs) /\ 1 \in 0..MaxVersion /\ 0 \in 0..MaxVersion
  BY MoveAssumption DEF Notebooks
<1>2. kept \in Document /\ Nothing \in Document
  BY <1>1 DEF Init, Document, Nothing
<1>3. Idle \in Call /\ Idle.at = "idle" /\ NoOne \in [at : Notebooks, on : BOOLEAN] /\ NoPath \in Path
  BY <1>1 DEF Idle, Call, NoOne, NoPath, Path
<1>4. TypeOK
  BY <1>1, <1>2, <1>3, MoveAssumption DEF Init, TypeOK
<1>5. Plans /\ home \in live /\ Followable
  BY <1>3 DEF Init, Plans, Holds, Followable
<1>6. Spoken
  BY DEF Init, Spoken
<1>7. Whole
  <2>1. \A b \in Blocks : kept[b] \in Nat /\ mem[home] = kept /\ disk[home] = kept
    BY <1>2, MoveAssumption DEF Init, Document
  <2>2. owed = NoPath /\ \A m \in Calls : call[m].at = "idle"
    BY <1>3 DEF Init
  <2> QED BY <2>1, <2>2 DEF Whole, Kept, SavedAt, Copied
<1> QED BY <1>4, <1>5, <1>6, <1>7 DEF WholeInv

(* Whatever fails, crashes, is deleted or moved by a peer: the session's home
   exists and has the newest of everything it had saved (move_session_to_notebook_inner,
   move_pointers, soft_delete_empty_notebook). *)
THEOREM HomeStaysWhole == Spec => []HomeIsWhole
<1>1. WholeInv => HomeIsWhole
  BY DEF WholeInv, HomeIsWhole, Whole, Clean, NeverLost, Kept, SavedAt, HomeHolds, Realtime
<1> QED BY <1>1, InitIsWhole, WholeStep, PTL DEF Spec

-----------------------------------------------------------------------------
(* Nobody else holds anything.                                             *)

LEMMA AtHand ==
  ASSUME Types
  PROVE  /\ mem \in [Notebooks -> Document] /\ disk \in [Notebooks -> Document]
         /\ home \in Notebooks /\ owed.from \in Notebooks /\ owed.to \in Notebooks
         /\ \A m \in Calls : /\ call[m].from \in Notebooks /\ call[m].to \in Notebooks
                             /\ call[m].tab \in 1..Len(Tabs)
                             /\ Tabs[call[m].tab] \in ToSet(Tabs)
<1>1. ASSUME NEW m \in Calls PROVE call[m] \in Call
  BY DEF Types, TypeOK
<1>2. ASSUME NEW m \in Calls PROVE call[m].tab \in 1..Len(Tabs)
  BY <1>1 DEF Call
<1> QED BY <1>1, <1>2, SectionsAreBlocks DEF Types, TypeOK, Call, Path

(* Only the call that has the editor carries anything. *)
LEMMA CarriersHold ==
  ASSUME NEW m \in Calls, NEW n, NEW b, Carries(m, n, b)
  PROVE  Holds(m) /\ ~EditorIsFree
  BY DEF Carries, Holds, EditorIsFree

(* The remarks of a session without lines are no slice of it: where every
   remark has its lines, a section that is not in the slice is not there. *)
LEMMA SlicedOut ==
  ASSUME Types, NEW n \in Notebooks, NEW tab \in ToSet(Tabs), Sliced(mem[n]),
         NEW b \in Sections(tab), b \notin Slice(mem[n], tab)
  PROVE  mem[n][b] = 0
<1>1. tab = "realtime" => "line" \in Blocks /\ b \in {"line", "remark"}
  BY TabsAreThese DEF Sections
<1> QED BY <1>1 DEF Slice, Sliced

LEMMA RemarksGoWithLines == "line" \in Blocks => "remark" \in Blocks
<1> SUFFICES ASSUME "line" \in Blocks PROVE "remark" \in Blocks
  OBVIOUS
<1>1. PICK tab \in ToSet(Tabs) : "line" \in Sections(tab)
  BY DEF Blocks
<1>2. "remark" \in Sections(tab)
  BY <1>1, TabsAreThese DEF Sections
<1> QED BY <1>2, TabsAreThese

(* How a copy, a removal and a save leave the lines and the remarks. *)
LEMMA StillSliced ==
  ASSUME NEW doc \in Document, NEW from \in Document,
         NEW tab \in {"realtime", "async", "note"}, Sliced(doc)
  PROVE  /\ Sliced(Spliced(doc, from, tab))
         /\ Sliced(Without(doc, tab))
         /\ Sliced(from) => Sliced(Snapshot(doc, from, tab))
<1> SUFFICES ASSUME "line" \in Blocks
             PROVE  /\ Sliced(Spliced(doc, from, tab))
                    /\ Sliced(Without(doc, tab))
                    /\ Sliced(from) => Sliced(Snapshot(doc, from, tab))
  BY DEF Sliced
<1>1. "remark" \in Blocks
  BY RemarksGoWithLines
<1>2. doc["remark"] # 0 => doc["line"] # 0
  BY DEF Sliced
<1>3. Sliced(Spliced(doc, from, tab))
  <2>1. "remark" \in Slice(from, tab) => "line" \in Slice(from, tab)
    BY DEF Slice, Sections
  <2>2. "line" \in Slice(from, tab) => from["line"] # 0
    BY DEF Slice
  <2>3. ASSUME Spliced(doc, from, tab)["remark"] # 0 PROVE Spliced(doc, from, tab)["line"] # 0
    <3> HIDE DEF Slice
    <3>1. doc["remark"] # 0 \/ "remark" \in Slice(from, tab)
      BY <2>3, <1>1, SplicedGrows
    <3>2. doc["line"] # 0 \/ "line" \in Slice(from, tab)
      BY <3>1, <1>2, <2>1
    <3> QED BY <3>2, <2>2, SplicedGrows
  <2> QED BY <2>3 DEF Sliced
<1>4. Sliced(Without(doc, tab))
  <2>1. "line" \in Slice(doc, tab) /\ doc["remark"] # 0 => "remark" \in Slice(doc, tab)
    BY DEF Slice, Sections
  <2>2. ASSUME Without(doc, tab)["remark"] # 0 PROVE Without(doc, tab)["line"] # 0
    <3>1. doc["remark"] # 0 /\ "remark" \notin Slice(doc, tab)
      BY <2>2, <1>1, WithoutSlice
    <3>2. "line" \notin Slice(doc, tab) /\ doc["line"] # 0
      BY <3>1, <1>2, <2>1
    <3> QED BY <3>2, WithoutSlice
  <2> QED BY <2>2 DEF Sliced
<1>5. ASSUME Sliced(from) PROVE Sliced(Snapshot(doc, from, tab))
  <2>1. "remark" \in Sections(tab) <=> "line" \in Sections(tab)
    <3>1. CASE tab = "realtime"
      BY <3>1 DEF Sections
    <3>2. CASE tab # "realtime"
      BY <3>2 DEF Sections
    <3> QED BY <3>1, <3>2
  <2>2. \A b \in Blocks :
          Snapshot(doc, from, tab)[b] = IF b \in Sections(tab) THEN from[b] ELSE doc[b]
    BY DEF Snapshot
  <2> QED BY <2>1, <2>2, <1>1, <1>2, <1>5 DEF Sliced
<1> QED BY <1>3, <1>4, <1>5

(* A step of the rows and the calls: what is held is still accounted for. *)
LEMMA RowsStayTidy ==
  ASSUME Tidied, UNCHANGED documents,
         \A n \in Notebooks, b \in Blocks : Accounted(n, b) => Accounted(n, b)',
         purge' # "no" => home' = home,
         purge' = "erased" => purge = "erased",
         purge' = "no" => purge = "no"
  PROVE  Tidied'
<1>1. \A n \in Notebooks, b \in Blocks :
        /\ Holding(n, b)' <=> Holding(n, b)
        /\ Shown(n, b)' <=> Shown(n, b)
  BY DEF Holding, Shown, documents
<1>2. Placed'
  <2> SUFFICES ASSUME NEW n \in Notebooks, NEW b \in Blocks
               PROVE  Shown(n, b)' /\ (Holding(n, b)' => Accounted(n, b)')
    BY DEF Placed
  <2> QED BY <1>1 DEF Tidied, Placed
<1>3. Lined'
  <2>1. \A n \in Notebooks : n # home' \/ purge' = "no" => n # home \/ purge = "no"
    OBVIOUS
  <2> QED BY <2>1 DEF Tidied, Lined, documents, Sliced
<1>4. Purged'
  BY <1>1 DEF Tidied, Purged, Holding, documents
<1> QED BY <1>2, <1>3, <1>4 DEF Tidied

LEMMA CommitStaysTidy ==
  ASSUME WholeInv, Tidied, Spotless', NEW m \in Calls, CommitMove(m)
  PROVE  Tidied'
<1>0. Types /\ call \in [Calls -> Call]
  BY DEF WholeInv, Types, TypeOK
<1>1. /\ call[m].at = "commit" /\ UNCHANGED documents
      /\ owed' = owed /\ purge' = purge
  BY DEF CommitMove
<1>2. \/ /\ home = call[m].from /\ home' = call[m].to /\ purge = "no"
         /\ owed = NoPath /\ Goto(m, "clear")
      \/ home' = home /\ Goto(m, "undo")
  BY DEF CommitMove, Movable, Blame, Spotless
<1>3. /\ \A k \in Calls \ {m} : call'[k] = call[k]
      /\ call'[m].tab = 1 /\ call'[m].from = call[m].from /\ call'[m].to = call[m].to
      /\ \/ home' = home /\ call'[m].at = "undo"
         \/ /\ home = call[m].from /\ home' = call[m].to /\ purge = "no"
            /\ owed = NoPath /\ call'[m].at = "clear"
  BY <1>0, <1>2, CallMoves
<1>4. ASSUME NEW n \in Notebooks, NEW b \in Blocks, Accounted(n, b) PROVE Accounted(n, b)'
  <2>1. \E i \in call'[m].tab..Len(Tabs) : b \in Sections(Tabs[i])
    BY <1>3, SectionOf
  <2>2. n = call[m].to /\ call'[m].at = "undo" => Carries(m, n, b)'
    BY <2>1, <1>3 DEF Carries
  <2>3. n = call[m].from /\ call'[m].at = "clear" => Carries(m, n, b)'
    BY <2>1, <1>3 DEF Carries
  <2>4. ASSUME NEW k \in Calls, Carries(k, n, b) PROVE n = call[m].to
    <3>1. k = m
      BY <2>4, <1>1, CarriersHold DEF WholeInv, Plans, Holds
    <3> QED BY <2>4, <3>1, <1>1 DEF Carries
  <2> QED BY <1>1, <1>3, <1>4, <2>2, <2>3, <2>4 DEF Accounted
<1> QED BY <1>1, <1>3, <1>4, RowsStayTidy

LEMMA CopyStaysTidy ==
  ASSUME WholeInv, Tidied, Spotless, Types', NEW m \in Calls, CopySection(m)
  PROVE  Tidied'
<1> DEFINE to == call[m].to
           from == mem[call[m].from]
           tab == Tabs[call[m].tab]
           copy == Spliced(mem[to], from, tab)
<1>0. Types /\ call[m].at = "copy" /\ UNCHANGED <<home, owed, purge>>
  BY DEF WholeInv, Types, CopySection, database
<1>1. /\ mem \in [Notebooks -> Document] /\ disk \in [Notebooks -> Document]
      /\ home \in Notebooks /\ to \in Notebooks /\ call[m].from \in Notebooks
      /\ tab \in {"realtime", "async", "note"}
      /\ from \in Document /\ mem[to] \in Document /\ disk[to] \in Document
      /\ copy \in Document
  <2>1. tab \in {"realtime", "async", "note"}
    BY <1>0, AtHand, TabsAreThese
  <2> QED BY <2>1, <1>0, AtHand, DocumentUpdates
<1>2. /\ \A k \in Calls \ {m} : call'[k] = call[k]
      /\ call'[m].to = to /\ call'[m].from = call[m].from
      /\ \/ call'[m].at \in {"copy", "commit"}
         \/ call'[m].at = "undo" /\ call'[m].tab = 1
  <2>1. NextTab(m, "commit") \/ Goto(m, "undo")
    BY DEF CopySection
  <2>2. call \in [Calls -> Call]
    BY <1>0 DEF Types, TypeOK
  <2> QED BY <2>1, <2>2, <1>0, CallMoves
<1>3. \A b \in Blocks :
        /\ mem[to][b] <= copy[b] /\ copy[b] \in Nat
        /\ copy[b] # 0 /\ mem[to][b] = 0 => b \in Slice(from, tab)
  <2> TAKE b \in Blocks
  <2>1. mem[to][b] <= copy[b] /\ (copy[b] # 0 /\ mem[to][b] = 0 => b \in Slice(from, tab))
    BY <1>1, SplicedGrows
  <2> HIDE DEF copy, from
  <2> QED BY <2>1, <1>1, MoveAssumption DEF Document
<1> HIDE DEF copy, from, tab, to
<1>4. /\ \A n \in Notebooks \ {to} : mem'[n] = mem[n] /\ disk'[n] = disk[n]
      /\ mem'[to] \in {mem[to], copy}
      /\ \/ disk'[to] = disk[to]
         \/ mem'[to] = copy /\ disk'[to] = Snapshot(disk[to], copy, tab)
  <2>1. UNCHANGED documents \/ Save(to, copy, tab) \/ LeaveUnsaved(to, copy)
    BY DEF CopySection, to, copy, tab, from
  <2>2. CASE UNCHANGED documents
    BY <2>2 DEF documents
  <2>3. CASE Save(to, copy, tab)
    BY <2>3, <1>1 DEF Save
  <2>4. CASE LeaveUnsaved(to, copy)
    BY <2>4, <1>1 DEF LeaveUnsaved
  <2> QED BY <2>1, <2>2, <2>3, <2>4
<1>5. \A b \in Blocks :
        /\ mem'[to][b] = mem[to][b] \/ mem'[to][b] = copy[b]
        /\ disk'[to][b] = disk[to][b] \/ (mem'[to][b] = copy[b] /\ disk'[to][b] = copy[b])
  BY <1>4 DEF Snapshot
<1>6. Placed'
  <2> SUFFICES ASSUME NEW n \in Notebooks, NEW b \in Blocks
               PROVE  Shown(n, b)' /\ (Holding(n, b)' => Accounted(n, b)')
    BY DEF Placed
  <2>1. Shown(n, b) /\ (Holding(n, b) => Accounted(n, b))
    BY DEF Tidied, Placed
  <2>2. ASSUME NEW k \in Calls, Carries(k, n, b) PROVE n = to
    <3>1. k = m
      BY <2>2, <1>0, CarriersHold DEF WholeInv, Plans, Holds
    <3> QED BY <2>2, <3>1, <1>0 DEF Carries, to
  <2>3. CASE n # to
    <3>1. mem'[n] = mem[n] /\ disk'[n] = disk[n]
      BY <1>4, <2>3
    <3>2. Accounted(n, b) => Accounted(n, b)'
      BY <2>2, <2>3, <1>0 DEF Accounted
    <3> QED BY <2>1, <3>1, <3>2 DEF Shown, Holding
  <2>4. CASE n = to
    <3>1. Carries(m, n, b)'
      <4>1. CASE call'[m].at \in {"copy", "commit"}
        BY <4>1, <2>4, <1>2 DEF Carries
      <4>2. CASE call'[m].at = "undo" /\ call'[m].tab = 1
        BY <4>2, <2>4, <1>2, SectionOf DEF Carries
      <4> QED BY <4>1, <4>2, <1>2
    <3>2. Shown(n, b)'
      <4>1. mem[to][b] \in Nat
        BY <1>0, <1>1, Versions
      <4>2. mem'[to][b] = 0 => mem[to][b] = 0
        BY <4>1, <1>3, <1>5
      <4> QED BY <4>2, <2>1, <2>4, <1>5 DEF Shown
    <3> QED BY <3>1, <3>2 DEF Accounted
  <2> QED BY <2>3, <2>4
<1>7. Lined'
  <2> SUFFICES ASSUME NEW n \in Notebooks, n # home \/ purge = "no"
               PROVE  Sliced(mem'[n]) /\ Sliced(disk'[n])
    BY <1>0 DEF Lined, Sliced
  <2>1. Sliced(mem[n]) /\ Sliced(disk[n])
    BY DEF Tidied, Lined
  <2>2. CASE n = to
    <3>1. Sliced(copy)
      BY <2>1, <2>2, <1>1, StillSliced DEF copy
    <3>2. Sliced(Snapshot(disk[to], copy, tab))
      BY <2>1, <2>2, <3>1, <1>1, StillSliced
    <3> QED BY <2>1, <2>2, <3>1, <3>2, <1>4
  <2> QED BY <2>1, <2>2, <1>4
<1>8. Purged'
  <2> SUFFICES ASSUME purge = "erased", NEW b \in Blocks \ {"remark"} PROVE ~Holding(home, b)'
    BY <1>0 DEF Purged
  <2>1. ~Holding(home, b)
    BY DEF Tidied, Purged
  <2>2. CASE home # to
    BY <2>1, <2>2, <1>0, <1>1, <1>4 DEF Holding
  <2>3. CASE home = to
    <3>1. call[m].from # to
      BY <1>0 DEF WholeInv, Plans, to
    <3>2. ~Accounted(call[m].from, b)
      <4>1. owed = NoPath
        BY DEF WholeInv, Followable, Spotless
      <4>2. ASSUME NEW k \in Calls, Carries(k, call[m].from, b) PROVE FALSE
        <5>1. k = m
          BY <4>2, <1>0, CarriersHold DEF WholeInv, Plans, Holds
        <5> QED BY <4>2, <5>1, <3>1, <1>0 DEF Carries, to
      <4> QED BY <2>3, <3>1, <4>1, <4>2 DEF Accounted
    <3>3. from[b] = 0
      BY <3>2, <1>1 DEF Tidied, Placed, Holding, from
    <3>4. copy[b] = 0
      <4>1. b \notin Slice(from, tab)
        BY <3>3 DEF Slice
      <4> QED BY <4>1, <2>1, <2>3, <1>3 DEF Holding
    <3> QED BY <2>1, <2>3, <3>4, <1>0, <1>5 DEF Holding
  <2> QED BY <2>2, <2>3
<1> QED BY <1>6, <1>7, <1>8 DEF Tidied

(* A rollback or a clear takes a section out of a document the session is not at. *)
LEMMA RemovalStaysTidy ==
  ASSUME WholeInv, Tidied, Types', Spotless', NEW m \in Calls, UndoCopy(m) \/ ClearSection(m)
  PROVE  Tidied'
<1> DEFINE n == IF call[m].at = "undo" THEN call[m].to ELSE call[m].from
           tab == Tabs[call[m].tab]
           rest == Without(mem[n], tab)
<1>0. /\ Types /\ UNCHANGED <<home, owed, purge>> /\ call[m].at \in {"undo", "clear"}
      /\ call \in [Calls -> Call]
  BY DEF WholeInv, Types, TypeOK, UndoCopy, ClearSection, database
<1>1. /\ mem \in [Notebooks -> Document] /\ disk \in [Notebooks -> Document]
      /\ n \in Notebooks /\ mem[n] \in Document /\ disk[n] \in Document
      /\ tab \in ToSet(Tabs) /\ tab \in {"realtime", "async", "note"}
      /\ rest \in Document
      /\ call[m].tab \in 1..Len(Tabs)
  <2>1. n \in Notebooks /\ tab \in ToSet(Tabs) /\ call[m].tab \in 1..Len(Tabs)
    BY <1>0, AtHand
  <2> QED BY <2>1, <1>0, AtHand, TabsAreThese, DocumentUpdates
<1>2. NextTab(m, "idle") /\ \E always \in BOOLEAN : Removed(n, tab, always)
  <2>1. CASE UndoCopy(m)
    <3>1. call[m].at = "undo" /\ NextTab(m, "idle")
      BY <2>1 DEF UndoCopy
    <3>2. Removed(n, tab, tab = "realtime")
      BY <2>1, <3>1 DEF UndoCopy, Blame, Spotless
    <3>3. (tab = "realtime") \in BOOLEAN
      OBVIOUS
    <3> QED BY <3>1, <3>2, <3>3
  <2>2. CASE ClearSection(m)
    BY <2>2 DEF ClearSection, Blame, Spotless
  <2> QED BY <2>1, <2>2
<1>3. /\ \A k \in Calls \ {m} : call'[k] = call[k]
      /\ call[m].tab < Len(Tabs) =>
           /\ call'[m].at = call[m].at /\ call'[m].tab = call[m].tab + 1
           /\ call'[m].from = call[m].from /\ call'[m].to = call[m].to
  <2>1. call[m].tab \in Nat /\ Len(Tabs) \in Nat
    BY <1>1, MoveAssumption
  <2> QED BY <2>1, <1>0, <1>2, CallMoves
<1> HIDE DEF n, tab, rest
<1>4. UNCHANGED documents \/ Save(n, rest, tab)
  BY <1>2 DEF Removed, rest
<1>5. /\ \A k \in Notebooks \ {n} : mem'[k] = mem[k] /\ disk'[k] = disk[k]
      /\ \/ mem'[n] = mem[n] /\ disk'[n] = disk[n] /\ Slice(mem[n], tab) = {}
         \/ mem'[n] = rest /\ disk'[n] = Snapshot(disk[n], rest, tab)
  <2>1. CASE Slice(mem[n], tab) = {} /\ UNCHANGED documents
    BY <2>1 DEF documents
  <2>2. CASE Save(n, rest, tab)
    BY <2>2, <1>1 DEF Save
  <2> QED BY <1>2, <2>1, <2>2 DEF Removed, rest
<1>6. ASSUME NEW b \in Blocks
      PROVE  /\ b \notin Slice(mem[n], tab) =>
                  /\ mem'[n][b] = mem[n][b]
                  /\ disk'[n][b] = disk[n][b] \/ (b \in Sections(tab) /\ disk'[n][b] = mem[n][b])
             /\ b \in Slice(mem[n], tab) => mem'[n][b] = 0 /\ disk'[n][b] = 0
  <2>1. /\ b \notin Slice(mem[n], tab) => rest[b] = mem[n][b]
        /\ b \in Slice(mem[n], tab) => rest[b] = 0
    BY <1>1, WithoutSlice DEF rest
  <2>2. b \in Slice(mem[n], tab) => b \in Sections(tab)
    BY DEF Slice
  <2>3. Snapshot(disk[n], rest, tab)[b] = IF b \in Sections(tab) THEN rest[b] ELSE disk[n][b]
    BY DEF Snapshot
  <2> QED BY <2>1, <2>2, <2>3, <1>5
<1>7. Placed'
  <2> SUFFICES ASSUME NEW k \in Notebooks, NEW b \in Blocks
               PROVE  Shown(k, b)' /\ (Holding(k, b)' => Accounted(k, b)')
    BY DEF Placed
  <2>1. Shown(k, b) /\ (Holding(k, b) => Accounted(k, b))
    BY DEF Tidied, Placed
  <2>2. ASSUME NEW c \in Calls, Carries(c, k, b)
        PROVE  c = m /\ k = n /\ \E i \in call[m].tab..Len(Tabs) : b \in Sections(Tabs[i])
    <3>1. c = m
      BY <2>2, <1>0, CarriersHold DEF WholeInv, Plans, Holds
    <3> QED BY <2>2, <3>1, <1>0 DEF Carries, n
  <2>3. CASE k # n
    <3>1. mem'[k] = mem[k] /\ disk'[k] = disk[k]
      BY <1>5, <2>3
    <3>2. Accounted(k, b) => Accounted(k, b)'
      BY <2>2, <2>3, <1>0 DEF Accounted
    <3> QED BY <2>1, <3>1, <3>2 DEF Shown, Holding
  <2>4. CASE k = n
    <3>1. Shown(k, b)' /\ (Holding(k, b)' => Holding(k, b) /\ b \notin Slice(mem[n], tab))
      BY <2>1, <2>4, <1>6 DEF Shown, Holding
    <3>2. ASSUME Holding(k, b)', k # home, NEW c \in Calls, Carries(c, k, b)
          PROVE  Carries(m, k, b)'
      <4>1. PICK i \in call[m].tab..Len(Tabs) : b \in Sections(Tabs[i])
        BY <2>2, <3>2
      <4>2. i # call[m].tab
        <5> SUFFICES ASSUME b \in Sections(tab) PROVE FALSE
          BY <4>1 DEF tab
        <5>1. Sliced(mem[n])
          BY <2>4, <3>2 DEF Tidied, Lined
        <5>2. mem[n][b] = 0
          BY <5>1, <3>1, <3>2, <1>0, <1>1, SlicedOut
        <5> QED BY <5>2, <2>1, <2>4, <3>1, <3>2 DEF Shown, Holding
      <4>3. call[m].tab < Len(Tabs) /\ i \in (call[m].tab + 1)..Len(Tabs)
        BY <4>1, <4>2, <1>1, MoveAssumption
      <4>4. /\ call'[m].at = call[m].at /\ call'[m].tab = call[m].tab + 1
            /\ call'[m].from = call[m].from /\ call'[m].to = call[m].to
        BY <4>3, <1>3
      <4> QED BY <4>1, <4>3, <4>4, <2>4, <1>0 DEF Carries, n
    <3> QED BY <2>1, <3>1, <3>2, <1>0 DEF Accounted
  <2> QED BY <2>3, <2>4
<1>8. Lined'
  <2> SUFFICES ASSUME NEW k \in Notebooks, k # home \/ purge = "no"
               PROVE  Sliced(mem'[k]) /\ Sliced(disk'[k])
    BY <1>0 DEF Lined, Sliced
  <2>1. Sliced(mem[k]) /\ Sliced(disk[k])
    BY DEF Tidied, Lined
  <2>2. CASE k = n
    <3>1. Sliced(rest)
      BY <2>1, <2>2, <1>1, StillSliced DEF rest
    <3>2. Sliced(Snapshot(disk[n], rest, tab))
      BY <2>1, <2>2, <3>1, <1>1, StillSliced
    <3> QED BY <2>1, <2>2, <3>1, <3>2, <1>5
  <2> QED BY <2>1, <2>2, <1>5
<1>9. Purged'
  <2> SUFFICES ASSUME purge = "erased", NEW b \in Blocks \ {"remark"} PROVE ~Holding(home, b)'
    BY <1>0 DEF Purged
  <2>1. ~Holding(home, b)
    BY DEF Tidied, Purged
  <2> QED BY <2>1, <1>0, <1>5, <1>6, AtHand DEF Holding
<1> QED BY <1>7, <1>8, <1>9 DEF Tidied

LEMMA PeerMoveStaysTidy ==
  ASSUME WholeInv, Tidied, Types', NEW to \in Topics, PeerMove(to)
  PROVE  Tidied'
<1>0. Types
  BY DEF WholeInv, Types
<1>1. /\ owed = NoPath /\ home # to /\ home' = to /\ owed' = [from |-> home, to |-> to]
      /\ mem' = Carried(mem, home, to) /\ disk' = Carried(disk, home, to)
      /\ call' = call /\ purge = "no" /\ purge' = purge
  BY DEF PeerMove
<1>2. /\ home \in Notebooks /\ to \in Notebooks
      /\ owed' # NoPath /\ owed'.from = home
  BY <1>0, <1>1 DEF Types, TypeOK, Notebooks, NoPath
<1>3. ASSUME NEW n \in Notebooks, NEW b \in Blocks
      PROVE  /\ b \in Realtime \/ n \notin {home, to} =>
                  mem'[n][b] = mem[n][b] /\ disk'[n][b] = disk[n][b]
             /\ b \notin Realtime /\ n = home => mem'[n][b] = 0 /\ disk'[n][b] = 0
             /\ b \notin Realtime /\ n = to =>
                  /\ mem'[n][b] = Larger(mem[to][b], mem[home][b])
                  /\ disk'[n][b] = Larger(disk[to][b], disk[home][b])
  BY <1>1, <1>2 DEF Carried, Realtime
<1>4. Placed'
  <2> SUFFICES ASSUME NEW n \in Notebooks, NEW b \in Blocks
               PROVE  Shown(n, b)' /\ (Holding(n, b)' => Accounted(n, b)')
    BY DEF Placed
  <2>1. /\ Shown(n, b) /\ Shown(home, b) /\ Shown(to, b)
        /\ Holding(n, b) => Accounted(n, b)
    BY <1>2 DEF Tidied, Placed
  <2>2. \A k \in Calls : Carries(k, n, b) => Carries(k, n, b)'
    BY <1>1 DEF Carries
  <2>3. CASE b \in Realtime
    <3>1. Accounted(n, b) => Accounted(n, b)'
      BY <2>2, <2>3, <1>1, <1>2 DEF Accounted, Realtime
    <3> QED BY <2>1, <2>3, <3>1, <1>3 DEF Shown, Holding
  <2>4. CASE b \notin Realtime /\ n = to
    <3>1. /\ mem[to][b] \in Nat /\ mem[home][b] \in Nat
          /\ disk[to][b] \in Nat /\ disk[home][b] \in Nat
      BY <1>0, <1>2, Versions
    <3>2. Shown(n, b)'
      BY <2>1, <2>4, <3>1, <1>3 DEF Shown, Larger
    <3>3. Accounted(n, b)'
      BY <2>4, <1>1 DEF Accounted
    <3> QED BY <3>2, <3>3
  <2>5. CASE b \notin Realtime /\ n = home
    BY <2>5, <1>3 DEF Shown, Holding
  <2>6. CASE b \notin Realtime /\ n \notin {home, to}
    <3>1. Accounted(n, b) => Accounted(n, b)'
      BY <2>2, <2>6, <1>1 DEF Accounted
    <3> QED BY <2>1, <2>6, <3>1, <1>3 DEF Shown, Holding
  <2> QED BY <2>3, <2>4, <2>5, <2>6
<1>5. Lined'
  <2> SUFFICES ASSUME NEW n \in Notebooks PROVE Sliced(mem'[n]) /\ Sliced(disk'[n])
    BY DEF Lined, Sliced
  <2>1. Sliced(mem[n]) /\ Sliced(disk[n])
    BY <1>1 DEF Tidied, Lined
  <2>2. "line" \in Realtime /\ "remark" \in Realtime
    BY DEF Realtime, Sections
  <2> QED BY <2>1, <2>2, <1>3, RemarksGoWithLines DEF Sliced
<1>6. Purged'
  BY <1>1 DEF Purged
<1> QED BY <1>4, <1>5, <1>6 DEF Tidied

(* The user, the flusher and the projectors write one block of one notebook. *)
LEMMA WritingStaysTidy ==
  ASSUME WholeInv, Tidied, Types', NEW n \in Notebooks, NEW c \in Blocks \ {"remark"},
         UNCHANGED <<home, owed, purge, call>>,
         \A k \in Notebooks, b \in Blocks :
             k # n \/ b \notin {c, "remark"} => mem'[k][b] = mem[k][b] /\ disk'[k][b] = disk[k][b],
         "remark" \in Blocks =>
             /\ mem'[n]["remark"] = mem[n]["remark"]
             /\ disk'[n]["remark"] \in {disk[n]["remark"], mem[n]["remark"]},
         mem'[n][c] = 0 => mem[n][c] = 0 /\ disk'[n][c] = 0,
         c = "line" => mem'[n][c] # 0 /\ disk'[n][c] # 0,
         "remark" \in Blocks /\ disk'[n]["remark"] # disk[n]["remark"] => c = "line",
         Holding(n, c)' => Holding(n, c) \/ (n = home /\ purge # "erased")
  PROVE  Tidied'
<1>1. Placed'
  <2> SUFFICES ASSUME NEW k \in Notebooks, NEW b \in Blocks
               PROVE  Shown(k, b)' /\ (Holding(k, b)' => Accounted(k, b)')
    BY DEF Placed
  <2>1. Shown(k, b) /\ (Holding(k, b) => Accounted(k, b))
    BY DEF Tidied, Placed
  <2>2. Accounted(k, b) => Accounted(k, b)'
    BY DEF Accounted, Carries
  <2>3. k = home => Accounted(k, b)'
    BY DEF Accounted
  <2>4. CASE k # n \/ b \notin {c, "remark"}
    BY <2>1, <2>2, <2>4 DEF Shown, Holding
  <2>5. CASE k = n /\ b = "remark"
    BY <2>1, <2>2, <2>5 DEF Shown, Holding
  <2>6. CASE k = n /\ b = c
    BY <2>1, <2>2, <2>3, <2>6 DEF Shown
  <2> QED BY <2>4, <2>5, <2>6
<1>2. Lined'
  <2> SUFFICES ASSUME NEW k \in Notebooks, k # home \/ purge = "no", "line" \in Blocks
               PROVE  Sliced(mem'[k]) /\ Sliced(disk'[k])
    BY DEF Lined, Sliced
  <2>1. Sliced(mem[k]) /\ Sliced(disk[k]) /\ "remark" \in Blocks
    BY RemarksGoWithLines DEF Tidied, Lined
  <2>2. CASE k # n
    BY <2>1, <2>2 DEF Sliced
  <2>3. CASE k = n /\ c = "line"
    BY <2>3 DEF Sliced
  <2>4. CASE k = n /\ c # "line"
    BY <2>1, <2>4 DEF Sliced
  <2> QED BY <2>2, <2>3, <2>4
<1>3. Purged'
  <2> SUFFICES ASSUME purge = "erased", NEW b \in Blocks \ {"remark"} PROVE ~Holding(home, b)'
    BY DEF Purged
  <2>1. ~Holding(home, b)
    BY DEF Tidied, Purged
  <2>2. home \in Notebooks
    BY DEF WholeInv, TypeOK
  <2> QED BY <2>1, <2>2 DEF Holding
<1> QED BY <1>1, <1>2, <1>3 DEF Tidied

LEMMA EditStaysTidy ==
  ASSUME WholeInv, Tidied, Types', NEW c \in Blocks, EditSection(c)
  PROVE  Tidied'
<1>0. Types /\ home \in Notebooks /\ c \in Blocks \ {"remark"} /\ c # "line"
  BY AtHand DEF WholeInv, Types, TypeOK, EditSection, Sections
<1>1. mem' = [mem EXCEPT ![home] = [mem[home] EXCEPT ![c] = Newest + 1]] /\ disk' = disk
  BY DEF EditSection
<1>2. mem[home][c] # 0 /\ UNCHANGED <<home, owed, purge, call>>
  BY DEF EditSection, database
<1>3. Newest + 1 # 0
  BY <1>0, NewestIsNewest, BlocksAreThese, MoveAssumption DEF Types
<1>4. mem \in [Notebooks -> Document] /\ mem[home] \in Document
  BY <1>0, AtHand
<1>5. /\ mem'[home][c] = Newest + 1
      /\ \A k \in Notebooks, b \in Blocks : k # home \/ b # c => mem'[k][b] = mem[k][b]
  BY <1>0, <1>1, <1>4 DEF Document
<1>6. Holding(home, c)
  BY <1>2 DEF Holding
<1> QED BY <1>0, <1>1, <1>2, <1>3, <1>5, <1>6, WritingStaysTidy

LEMMA FlushStaysTidy ==
  ASSUME WholeInv, Tidied, Types', NEW n \in Notebooks, NEW c \in Blocks, Flush(n, c)
  PROVE  Tidied'
<1>0. Types /\ c \in Blocks \ {"remark"} /\ c # "line"
  BY DEF WholeInv, Types, Flush, Sections
<1>1. mem' = mem /\ disk' = [disk EXCEPT ![n] = [disk[n] EXCEPT ![c] = mem[n][c]]]
  BY DEF Flush
<1>2. UNCHANGED <<home, owed, purge, call>>
  BY DEF Flush, database
<1>3. disk \in [Notebooks -> Document] /\ disk[n] \in Document
  BY <1>0, AtHand
<1>4. /\ disk'[n][c] = mem[n][c]
      /\ \A k \in Notebooks, b \in Blocks : k # n \/ b # c => disk'[k][b] = disk[k][b]
  BY <1>1, <1>3 DEF Document
<1>5. Holding(n, c)' => Holding(n, c)
  BY <1>1, <1>4 DEF Holding
<1> QED BY <1>0, <1>1, <1>2, <1>4, <1>5, WritingStaysTidy

LEMMA ProjectStaysTidy ==
  ASSUME WholeInv, Tidied, Types', NEW tab \in ToSet(Tabs), Project(tab)
  PROVE  Tidied'
<1> DEFINE c == IF tab = "realtime" THEN "line" ELSE tab
           doc == [mem[home] EXCEPT ![c] = Newest + 1]
<1>0. /\ Types /\ home \in Notebooks /\ mem[home] \in Document
      /\ mem \in [Notebooks -> Document] /\ disk \in [Notebooks -> Document]
      /\ UNCHANGED <<home, owed, purge, call>>
  <2>1. Types /\ UNCHANGED <<home, owed, purge, call>>
    BY DEF WholeInv, Types, Project, database
  <2> QED BY <2>1, AtHand
<1>1. c \in Blocks \ {"remark"} /\ c \in Sections(tab)
  BY TabsAreThese DEF Sections
<1>2. UNCHANGED documents \/ (Save(home, doc, tab) /\ purge = "no")
  BY DEF Project, Written
<1>3. CASE UNCHANGED documents
  BY <1>0, <1>3, RowsStayTidy DEF Accounted, Carries
<1>4. CASE Save(home, doc, tab) /\ purge = "no"
  <2>1. Newest + 1 # 0
    BY <1>0, NewestIsNewest, BlocksAreThese, MoveAssumption DEF Types
  <2>2. /\ doc[c] # 0
        /\ \A b \in Blocks : b # c => doc[b] = mem[home][b]
    <3> HIDE DEF c
    <3> QED BY <1>0, <1>1, <2>1 DEF Document
  <2>3. Sections(tab) \subseteq {c, "remark"}
    BY TabsAreThese DEF Sections
  <2>4. c # "line" => "remark" \notin Sections(tab)
    BY TabsAreThese DEF Sections
  <2> HIDE DEF doc, c
  <2>5. /\ mem'[home] = doc /\ disk'[home] = Snapshot(disk[home], doc, tab)
        /\ \A k \in Notebooks : k # home => mem'[k] = mem[k] /\ disk'[k] = disk[k]
    BY <1>0, <1>4 DEF Save
  <2>6. \A b \in Blocks : disk'[home][b] = IF b \in Sections(tab) THEN doc[b] ELSE disk[home][b]
    BY <2>5 DEF Snapshot
  <2>7. c # "remark" /\ mem'[home][c] # 0 /\ disk'[home][c] # 0
    BY <2>2, <2>5, <2>6, <1>1
  <2>8. \A k \in Notebooks, b \in Blocks :
          k # home \/ b \notin {c, "remark"} => mem'[k][b] = mem[k][b] /\ disk'[k][b] = disk[k][b]
    BY <2>2, <2>3, <2>5, <2>6
  <2>9. "remark" \in Blocks =>
          /\ mem'[home]["remark"] = mem[home]["remark"]
          /\ disk'[home]["remark"] \in {disk[home]["remark"], mem[home]["remark"]}
          /\ disk'[home]["remark"] # disk[home]["remark"] => c = "line"
    BY <2>2, <2>4, <2>5, <2>6, <2>7
  <2> QED BY <1>0, <1>1, <1>4, <2>7, <2>8, <2>9, WritingStaysTidy
<1> QED BY <1>2, <1>3, <1>4

(* Following a peer to the end leaves nothing where the session came from. *)
LEMMA FollowStaysTidy ==
  ASSUME WholeInv, Tidied, Spotless, Spotless', Types', FollowPeer
  PROVE  Tidied'
<1>a. owed.to \in Notebooks /\ owed.from \in Notebooks
  BY AtHand DEF WholeInv, Types
<1>b. PICK to \in Notebooks, src \in Notebooks : to = owed.to /\ src = owed.from
  BY <1>a
<1> DEFINE from == mem[src]
           copy == Spliced(mem[to], from, "realtime")
           rest == Without(from, "realtime")
<1>0. /\ Types /\ owed # NoPath /\ EditorIsFree /\ owed' = NoPath
      /\ UNCHANGED <<home, purge, call>>
      /\ home = to /\ src # to /\ purge = "no"
  BY <1>b DEF WholeInv, Types, FollowPeer, database, Followable, Spotless
<1>1. /\ mem \in [Notebooks -> Document] /\ disk \in [Notebooks -> Document]
      /\ from \in Document /\ mem[to] \in Document /\ disk[to] \in Document /\ disk[src] \in Document
      /\ copy \in Document /\ rest \in Document
  <2>1. mem \in [Notebooks -> Document] /\ disk \in [Notebooks -> Document]
    BY <1>0, AtHand
  <2> QED BY <2>1, DocumentUpdates
<1>2. Sliced(from) /\ Sliced(mem[to]) /\ Sliced(disk[to]) /\ Sliced(disk[src])
  BY <1>0, <1>1 DEF Tidied, Lined
<1>3. \A n \in Notebooks, b \in Blocks :
        /\ Shown(n, b)
        /\ Holding(n, b) => n = to \/ (n = src /\ b \in Realtime)
  <2> TAKE n \in Notebooks, b \in Blocks
  <2>1. \A k \in Calls : ~Carries(k, n, b)
    BY <1>0, CarriersHold
  <2> QED BY <2>1, <1>0, <1>b DEF Tidied, Placed, Accounted
<1>4. ASSUME NEW b \in Blocks, b \notin Slice(from, "realtime") PROVE ~Holding(src, b)
  <2>1. CASE b \in Realtime
    <3>1. from[b] = 0
      <4>1. "line" \in Blocks /\ b \in {"line", "remark"}
        BY <2>1, BlocksAreThese DEF Realtime, Sections
      <4> QED BY <4>1, <1>2, <1>4 DEF Slice, Sections, Sliced
    <3> QED BY <3>1, <1>1, <1>3 DEF Holding, Shown
  <2>2. CASE b \notin Realtime
    BY <2>2, <1>0, <1>1, <1>3
  <2> QED BY <2>1, <2>2
<1>5. CASE Slice(from, "realtime") = {}
  <2>1. UNCHANGED documents
    BY <1>b, <1>5 DEF FollowPeer
  <2>2. ASSUME NEW n \in Notebooks, NEW b \in Blocks
        PROVE  Shown(n, b)' /\ (Holding(n, b)' => Accounted(n, b)')
    BY <2>1, <1>0, <1>3, <1>4, <1>5 DEF Shown, Holding, Accounted, documents
  <2> QED BY <2>1, <2>2, <1>0 DEF Tidied, Placed, Lined, Purged, Sliced, documents
<1>6. CASE Slice(from, "realtime") # {}
  <2> HIDE DEF copy, rest, from
  <2>1. PICK done \in 0..4 : Followed(done, copy, rest)
    BY <1>b, <1>6 DEF FollowPeer, copy, rest, from
  <2>2. done = 4
    <3>1. done < 4 => "leftover" \in mishap'
      BY <2>1 DEF Followed, Blame
    <3>2. ~(done < 4)
      BY <3>1, Zenon DEF Spotless
    <3> QED BY <3>2
  <2>3. /\ mem'[to] = copy /\ disk'[to] = Snapshot(disk[to], copy, "realtime")
        /\ mem'[src] = rest /\ disk'[src] = Snapshot(disk[src], rest, "realtime")
    <3>1. /\ mem' = [mem EXCEPT ![to] = copy, ![src] = rest]
          /\ disk' = [disk EXCEPT ![to] = Snapshot(disk[to], copy, "realtime"),
                                  ![src] = Snapshot(disk[src], rest, "realtime")]
      <4>1. done > 0 /\ done > 1 /\ done > 2 /\ done > 3
        BY <2>2
      <4> QED BY <2>1, <4>1, <1>0, <1>1, <1>b DEF Followed
    <3> QED BY <3>1, <1>0, <1>1
  <2>4. \A n \in Notebooks \ {to, src} : mem'[n] = mem[n] /\ disk'[n] = disk[n]
    BY <2>1, <1>1, <1>b DEF Followed
  <2>5. ASSUME NEW b \in Blocks PROVE ~Holding(src, b)'
    <3>1. CASE b \in Slice(from, "realtime")
      <4>1. rest[b] = 0 /\ b \in Sections("realtime")
        BY <3>1, <1>1, WithoutSlice DEF rest, Slice
      <4> QED BY <4>1, <2>3 DEF Holding, Snapshot
    <3>2. CASE b \notin Slice(from, "realtime")
      <4>1. rest[b] = from[b] /\ from[b] = 0 /\ disk[src][b] = 0
        BY <3>2, <1>1, <1>4, WithoutSlice DEF rest, Holding, from
      <4> QED BY <4>1, <2>3 DEF Holding, Snapshot
    <3> QED BY <3>1, <3>2
  <2>6. ASSUME NEW b \in Blocks PROVE Shown(to, b)'
    <3>1. copy[b] = 0 => mem[to][b] = 0
      BY <1>1, SplicedGrows DEF copy
    <3>2. Shown(to, b)
      BY <1>1, <1>3
    <3> QED BY <3>1, <3>2, <2>3 DEF Shown, Snapshot
  <2>7. Placed'
    <3> SUFFICES ASSUME NEW n \in Notebooks, NEW b \in Blocks
                 PROVE  Shown(n, b)' /\ (Holding(n, b)' => Accounted(n, b)')
      BY DEF Placed
    <3>1. CASE n = to
      BY <3>1, <2>6, <1>0 DEF Accounted
    <3>2. CASE n = src
      BY <3>2, <2>5 DEF Holding, Shown
    <3>3. CASE n \notin {to, src}
      BY <3>3, <2>4, <1>3 DEF Holding, Shown
    <3> QED BY <3>1, <3>2, <3>3
  <2>8. Lined'
    <3>1. Sliced(copy) /\ Sliced(rest)
      BY <1>1, <1>2, StillSliced DEF copy, rest
    <3>2. Sliced(Snapshot(disk[to], copy, "realtime")) /\ Sliced(Snapshot(disk[src], rest, "realtime"))
      BY <3>1, <1>1, <1>2, StillSliced
    <3>3. \A n \in Notebooks : Sliced(mem'[n]) /\ Sliced(disk'[n])
      BY <3>1, <3>2, <2>3, <2>4, <1>0 DEF Tidied, Lined
    <3> QED BY <3>3 DEF Lined, Sliced
  <2>9. Purged'
    BY <1>0 DEF Purged
  <2> QED BY <2>7, <2>8, <2>9 DEF Tidied
<1> QED BY <1>5, <1>6

LEMMA ErasureStaysTidy ==
  ASSUME WholeInv, Tidied, Types', EraseSections
  PROVE  Tidied'
<1>0. /\ Types /\ purge = "begun" /\ UNCHANGED <<home, owed, call>>
      /\ mem \in [Notebooks -> Document] /\ disk \in [Notebooks -> Document] /\ home \in Notebooks
  <2>1. Types /\ purge = "begun" /\ UNCHANGED <<home, call>> /\ owed' = owed
    BY DEF WholeInv, Types, EraseSections
  <2> QED BY <2>1, AtHand
<1>1. PICK done \in 0..Len(Tabs) :
        /\ done # Len(Tabs) => purge' = purge
        /\ purge' \in {"begun", "erased"}
        /\ mem' = [mem EXCEPT ![home] = Erased(@, 1..done)]
        /\ disk' = [disk EXCEPT ![home] = Erased(@, 1..done)]
  BY <1>0 DEF EraseSections
<1>2. /\ \A n \in Notebooks \ {home} : mem'[n] = mem[n] /\ disk'[n] = disk[n]
      /\ mem'[home] = Erased(mem[home], 1..done) /\ disk'[home] = Erased(disk[home], 1..done)
  BY <1>0, <1>1
<1>3. Placed'
  <2> SUFFICES ASSUME NEW n \in Notebooks, NEW b \in Blocks
               PROVE  Shown(n, b)' /\ (Holding(n, b)' => Accounted(n, b)')
    BY DEF Placed
  <2>1. Shown(n, b) /\ (Holding(n, b) => Accounted(n, b))
    BY DEF Tidied, Placed
  <2>2. Accounted(n, b) => Accounted(n, b)'
    BY <1>0 DEF Accounted, Carries
  <2>3. CASE n # home
    BY <2>1, <2>2, <2>3, <1>2 DEF Shown, Holding
  <2>4. CASE n = home
    BY <2>1, <2>4, <1>0, <1>2 DEF Shown, Accounted, Erased
  <2> QED BY <2>3, <2>4
<1>4. Lined'
  <2> SUFFICES ASSUME NEW n \in Notebooks, n # home PROVE Sliced(mem'[n]) /\ Sliced(disk'[n])
    BY <1>0, <1>1 DEF Lined, Sliced
  <2> QED BY <1>2 DEF Tidied, Lined
<1>5. Purged'
  <2> SUFFICES ASSUME purge' = "erased", NEW b \in Blocks \ {"remark"} PROVE ~Holding(home, b)'
    BY <1>0 DEF Purged
  <2>1. done = Len(Tabs)
    BY <1>0, <1>1
  <2>2. \E i \in 1..done : b \in Sections(Tabs[i])
    BY <2>1, SectionOf
  <2> QED BY <2>2, <1>0, <1>2 DEF Holding, Erased
<1> QED BY <1>3, <1>4, <1>5 DEF Tidied

LEMMA CrashStaysTidy ==
  ASSUME WholeInv, Tidied, Spotless', Crash
  PROVE  Tidied'
<1>0. /\ EditorIsFree /\ owed = NoPath /\ mem' = disk /\ disk' = disk /\ UNCHANGED <<home, purge>>
  BY DEF Crash, Blame, Spotless, database
<1>1. \A n \in Notebooks, b \in Blocks : Holding(n, b)' => Holding(n, b) /\ n = home
  <2> TAKE n \in Notebooks, b \in Blocks
  <2>1. Holding(n, b)' => Holding(n, b)
    BY <1>0 DEF Holding
  <2>2. \A k \in Calls : ~Carries(k, n, b)
    BY <1>0, CarriersHold
  <2> QED BY <2>1, <2>2, <1>0 DEF Tidied, Placed, Accounted
<1>2. Placed'
  BY <1>0, <1>1 DEF Placed, Shown, Accounted
<1>3. Lined'
  BY <1>0 DEF Tidied, Lined, Sliced
<1>4. Purged'
  <2>1. home \in Notebooks
    BY DEF WholeInv, TypeOK
  <2>2. purge = "erased" => \A b \in Blocks \ {"remark"} : ~Holding(home, b)
    BY DEF Tidied, Purged
  <2> QED BY <2>1, <2>2, <1>0, <1>1 DEF Purged
<1> QED BY <1>2, <1>3, <1>4 DEF Tidied

(* Plans, deletions, lookups and purges that begin touch no document. *)
LEMMA RowStepsStayTidy ==
  ASSUME WholeInv, Tidied, Spotless',
         \/ \E m \in Calls : Plan(m) \/ TakeEditor(m)
         \/ \E n \in Topics : DeleteTopic(n)
         \/ LookUp \/ BeginPurge \/ UNCHANGED vars
  PROVE  Tidied'
<1>0. Types
  BY DEF WholeInv, Types
<1>1. /\ UNCHANGED documents /\ home' = home /\ owed' = owed
      /\ purge' = "erased" => purge = "erased"
      /\ purge' = "no" => purge = "no"
  BY DEF Plan, TakeEditor, DeleteTopic, LookUp, BeginPurge, vars, database, documents
<1>2. ASSUME NEW m \in Calls, NEW n \in Notebooks, NEW b \in Blocks, Carries(m, n, b)
      PROVE  Carries(m, n, b)'
  <2>1. Holds(m) /\ ~EditorIsFree
    BY <1>2, CarriersHold
  <2>2. call'[m] = call[m]
    <3>1. ASSUME NEW k \in Calls, Plan(k) PROVE call'[m] = call[m]
      <4>1. call[k].at = "idle"
        BY <3>1 DEF Plan
      <4> QED BY <3>1, <4>1, <2>1, <1>0, PlanMoves DEF Holds
    <3>2. ASSUME NEW k \in Calls, TakeEditor(k) PROVE FALSE
      BY <3>2, <2>1 DEF TakeEditor
    <3>3. ASSUME NEW k \in Topics, DeleteTopic(k) PROVE call' = call
      BY <3>3 DEF DeleteTopic
    <3>4. LookUp \/ BeginPurge \/ UNCHANGED vars => call' = call
      BY DEF LookUp, BeginPurge, vars
    <3> QED BY <3>1, <3>2, <3>3, <3>4
  <2> QED BY <2>2, <1>2 DEF Carries
<1>3. \A n \in Notebooks, b \in Blocks : Accounted(n, b) => Accounted(n, b)'
  BY <1>1, <1>2 DEF Accounted
<1> QED BY <1>1, <1>3, RowsStayTidy

LEMMA TidyStep ==
  ASSUME MoveInv, [Next]_vars
  PROVE  MoveInv'
<1>1. WholeInv /\ WholeInv' /\ Types /\ Types'
  BY WholeStep DEF MoveInv, WholeInv, Types
<1> SUFFICES ASSUME Spotless' PROVE Tidied'
  BY <1>1 DEF MoveInv, Tidy
<1>2. Spotless
  BY <1>1, Monotone DEF Spotless
<1>3. Tidied
  BY <1>2 DEF MoveInv, Tidy
<1>4. ASSUME NEW m \in Calls, Working(m) PROVE Tidied'
  BY <1>1, <1>2, <1>3, <1>4, CopyStaysTidy, CommitStaysTidy, RemovalStaysTidy DEF Working
<1>5. ASSUME NEW to \in Topics, PeerMove(to) PROVE Tidied'
  BY <1>1, <1>3, <1>5, PeerMoveStaysTidy
<1>6. ASSUME NEW b \in Blocks, EditSection(b) \/ \E n \in Notebooks : Flush(n, b) PROVE Tidied'
  BY <1>1, <1>3, <1>6, EditStaysTidy, FlushStaysTidy
<1>7. ASSUME NEW tab \in ToSet(Tabs), Project(tab) PROVE Tidied'
  BY <1>1, <1>3, <1>7, ProjectStaysTidy
<1>8. CASE FollowPeer
  BY <1>1, <1>2, <1>3, <1>8, FollowStaysTidy
<1>9. CASE EraseSections
  BY <1>1, <1>3, <1>9, ErasureStaysTidy
<1>10. CASE Crash
  BY <1>1, <1>3, <1>10, CrashStaysTidy
<1>11. CASE \/ \E m \in Calls : Plan(m) \/ TakeEditor(m)
            \/ \E n \in Topics : DeleteTopic(n)
            \/ LookUp \/ BeginPurge \/ UNCHANGED vars
  BY <1>1, <1>3, <1>11, RowStepsStayTidy
<1> QED BY <1>4, <1>5, <1>6, <1>7, <1>8, <1>9, <1>10, <1>11 DEF Next, Working

(* With the editor free and nothing owed, no notebook but the home holds
   anything of the session, and after Delete Forever the home holds remarks at
   most (clear_section_from_source, roll_back_copied_sections,
   move_realtime_slice_locally, purge_loro_session_ranges). *)
THEOREM OnlyHomeHolds == Spec => []OnlyHomeHoldsIt
<1>1. Init => MoveInv
  <2> SUFFICES ASSUME Init PROVE MoveInv
    OBVIOUS
  <2>1. WholeInv
    BY InitIsWhole
  <2>2. home \in Notebooks /\ disk = mem /\ purge = "no"
        /\ mem = [n \in Notebooks |-> IF n = home THEN kept ELSE Nothing]
    BY DEF Init
  <2>3. \A n \in Notebooks \ {home}, b \in Blocks : mem[n][b] = 0
    BY <2>2 DEF Nothing
  <2>4. Placed
    BY <2>2, <2>3 DEF Placed, Shown, Holding, Accounted
  <2>5. Lined
    <3>1. "line" \in Blocks => mem[home]["line"] = 1 /\ "remark" \in Blocks
      BY <2>2, RemarksGoWithLines DEF Init
    <3> QED BY <2>2, <2>3, <3>1 DEF Lined, Sliced
  <2> QED BY <2>1, <2>2, <2>4, <2>5 DEF MoveInv, Tidy, Tidied, Purged
<1>2. MoveInv => OnlyHomeHoldsIt
  <2> SUFFICES ASSUME MoveInv, EditorIsFree, owed = NoPath, Spotless
               PROVE  /\ \A n \in Notebooks \ {home} : Blank(n)
                      /\ purge = "erased" =>
                           \A b \in Blocks \ {"remark"} : mem[home][b] + disk[home][b] = 0
    BY DEF OnlyHomeHoldsIt, Spotless
  <2>0. Types /\ Tidied
    BY DEF MoveInv, Tidy, WholeInv, Types
  <2>1. ASSUME NEW n \in Notebooks \ {home}, NEW b \in Blocks PROVE ~Holding(n, b)
    <3>1. \A m \in Calls : ~Carries(m, n, b)
      BY CarriersHold
    <3> QED BY <3>1, <2>0 DEF Tidied, Placed, Accounted
  <2>2. ASSUME NEW n \in Notebooks \ {home} PROVE Blank(n)
    <3>1. mem[n] \in Document /\ disk[n] \in Document
      BY <2>0, AtHand
    <3>2. \A b \in Blocks : mem[n][b] = 0 /\ disk[n][b] = 0
      BY <2>1 DEF Holding
    <3>3. mem[n] = Nothing /\ disk[n] = Nothing
      BY <3>1, <3>2 DEF Document, Nothing
    <3> QED BY <3>3 DEF Blank
  <2>3. ASSUME purge = "erased", NEW b \in Blocks \ {"remark"}
        PROVE  mem[home][b] + disk[home][b] = 0
    <3>1. mem[home][b] = 0 /\ disk[home][b] = 0
      BY <2>0, <2>3 DEF Tidied, Purged, Holding
    <3> QED BY <3>1
  <2> QED BY <2>2, <2>3
<1> QED BY <1>1, <1>2, TidyStep, PTL DEF Spec
=============================================================================
