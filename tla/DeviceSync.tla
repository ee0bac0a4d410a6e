----------------------------- MODULE DeviceSync -----------------------------
(***************************************************************************)
(* One synchronisation space: vt-sync's engine (a writer and a reader per  *)
(* link, change notifications, the periodic complete summary) over         *)
(* vt-ffi's LibrarySync (SQL rows, fact documents, the digest cache, the   *)
(* pump that exports local edits and the transaction that imports remote   *)
(* ones).  A document is the set of updates merged into it; its version    *)
(* and its digest are that set.  Each update is made once, by one device,  *)
(* and most are made by an edit.  The others, the reversals, are what an   *)
(* export writes when the live document shows something that the rows do   *)
(* not have: write_library deletes the entry.  (A reversal is not itself   *)
(* reversed here; putting the entry back would be an edit.)                *)
(*                                                                         *)
(* l = <<d, e>> is d's end of the link between d and e.                    *)
(***************************************************************************)
EXTENDS Naturals, Sequences, FiniteSets

CONSTANTS
    Devices,
    Pairs,      \* the two-element sets of devices that can reach each other
    Docs,
    Notes,      \* documents synchronised in place, without rows or cache
    Home,       \* the recording a note belongs to
    Updates,
    Maker,      \* the device that makes an update
    DocOf,      \* the document it changes
    Creates,    \* updates that need not find their document there
    Reversals,  \* updates that only an export makes
    Reverses,   \* the update whose entry a reversal deletes
    Troubles,   \* which of the troubles below can happen
    MaxTroubles \* bound on their number

ASSUME SyncAssumption ==
    /\ \A p \in Pairs : \E d, e \in Devices : d # e /\ p = {d, e}
    /\ Notes \subseteq Docs
    /\ Home \in [Notes -> Docs \ Notes]
    /\ Maker \in [Updates -> Devices]
    /\ DocOf \in [Updates -> Docs]
    /\ Creates \subseteq Updates
    /\ Reversals \subseteq Updates
    /\ Reverses \in [Reversals -> Updates \ Reversals]
    /\ \A r \in Reversals : DocOf[r] = DocOf[Reverses[r]] /\ DocOf[r] \in Docs \ Notes
    /\ \A note \in Notes, u, v \in Creates :
          DocOf[u] = Home[note] /\ DocOf[v] = Home[note] => Maker[u] = Maker[v]
    /\ Troubles \subseteq {"break", "restart", "fail", "race"}
    /\ MaxTroubles \in Nat

Facts == Docs \ Notes

Ends == {l \in Devices \X Devices : l[1] # l[2] /\ {l[1], l[2]} \in Pairs}

Other(l) == <<l[2], l[1]>>

EndsOf(d) == {l \in Ends : l[1] = d}

VARIABLES
    rows,     \* SQL: the facts the user interface reads
    changes,  \* SQL: sync_changes, the documents with rows to export
    disk,     \* SQL: sync_documents (and the files of notes)
    mem,      \* memory: LibrarySync.cache, the live documents
    digests,  \* memory: LibrarySync.digests; {} where nothing is cached
    late,     \* memory: what another thread in version_of is about to cache
    tx,       \* memory: the transaction that holds the gate
    fallen,   \* memory: transactions rolled back, their drop_cache still to come
    up,       \* the link ends that are registered
    queue,    \* memory: Outbound items waiting for the writer
    dirty,    \* memory: documents to be announced
    wanted,   \* memory: the reader's pending map
    wire,     \* messages sent and not yet read
    synced,   \* memory: synced_at was set since the last complete summary
    due,      \* history: what that summary announced, {} before the first
    silent,   \* history: changes saved without an announcement to every link
    troubles,
    failed,   \* history: a merge or a transaction failed
    overtaken \* history: rows were exported into a document not yet dropped

store == <<rows, changes, disk, mem, digests, late, tx, fallen>>
links == <<up, queue, dirty, wanted, wire, synced, due>>
vars == <<store, links, silent, troubles, failed, overtaken>>

-----------------------------------------------------------------------------
(* Documents, versions and the digest cache.                                *)

Of(doc) == {u \in Updates : DocOf[u] = doc}

Part(S, doc) == S \cap Of(doc)

Present(d, doc) == Part(mem[d], doc) # {}

(* What is read out of a document: the entries that are not deleted. *)
Shown(S) == {u \in S \ Reversals : \A r \in S \cap Reversals : Reverses[r] # u}

(* version_of: the cached entry, or the live document's version. *)
VersionOf(d, doc) ==
    IF digests[d][doc] # {} THEN digests[d][doc] ELSE Part(mem[d], doc)

(* A version that was computed is cached, but a note's never is. *)
Cache(d, asked) ==
    digests' = [digests EXCEPT ![d] = [doc \in Docs |->
                   IF doc \in asked \ Notes THEN VersionOf(d, doc) ELSE @[doc]]]

Accepts(d, doc) == doc \in Notes => Part(rows[d], Home[doc]) # {}

NoMessage == [type |-> "None", doc |-> {}, vers |-> {}]

Summary(complete, d, docs) ==
    [type |-> IF complete THEN "Complete" ELSE "Partial",
     doc |-> {doc \in docs : Present(d, doc)},
     vers |-> UNION {VersionOf(d, doc) : doc \in {x \in docs : Present(d, x)}}]

Want(doc, version) == [type |-> "Want", doc |-> {doc}, vers |-> version]
Update(doc, bytes) == [type |-> "Update", doc |-> {doc}, vers |-> bytes]
RequestSummary == [NoMessage EXCEPT !.type = "RequestSummary"]

Message ==
    [type : {"Complete", "Partial", "Want", "Update", "RequestSummary"},
     doc : SUBSET Docs, vers : SUBSET Updates]

(* Items of the writer's queue: Summary, RequestSummary, Want(doc) and       *)
(* Serve(doc, from), the last with the version the peer has.                 *)
Outbound == [type : {"Complete", "RequestSummary", "Want", "Serve"},
             doc : SUBSET Docs, vers : SUBSET Updates]

SummaryItem == [NoMessage EXCEPT !.type = "Complete"]
ServeItem(m) == [m EXCEPT !.type = "Serve"]

(* from is the peer whose reader waits for the import, {} once it is gone;   *)
(* local, that the import exported a pending edit first; remote, that the    *)
(* update brought something new.  held is the document as the transaction    *)
(* has it, whatever happens to the cache meanwhile; save, that it is saved.  *)
NoTx == [kind |-> "none", doc |-> {}, from |-> {}, local |-> FALSE, remote |-> FALSE,
         held |-> {}, save |-> FALSE]

Tx == [kind : {"none", "export", "import"}, doc : SUBSET Facts, from : SUBSET Devices,
       local : BOOLEAN, remote : BOOLEAN, held : SUBSET Updates, save : BOOLEAN]

(* A transaction that is rolled back is kept under the number of its trouble. *)
Slots == 1..MaxTroubles

NoneFallen == [i \in Slots |-> NoTx]

Init ==
    /\ rows = [d \in Devices |-> {}]
    /\ changes = [d \in Devices |-> {}]
    /\ disk = [d \in Devices |-> {}]
    /\ mem = [d \in Devices |-> {}]
    /\ digests = [d \in Devices |-> [doc \in Docs |-> {}]]
    /\ late = [d \in Devices |-> [doc \in Docs |-> {}]]
    /\ tx = [d \in Devices |-> NoTx]
    /\ fallen = [d \in Devices |-> NoneFallen]
    /\ up = {}
    /\ queue = [l \in Ends |-> << >>]
    /\ dirty = [l \in Ends |-> {}]
    /\ wanted = [l \in Ends |-> [doc \in Docs |-> "no"]]
    /\ wire = [l \in Ends |-> << >>]
    /\ synced = [l \in Ends |-> FALSE]
    /\ due = [l \in Ends |-> {}]
    /\ silent = {}
    /\ troubles = 0
    /\ failed = FALSE /\ overtaken = FALSE

Trouble(kind) ==
    /\ kind \in Troubles
    /\ troubles < MaxTroubles
    /\ troubles' = troubles + 1

(* A mutant: a link that has something to send anyway is not told. *)
FanOut_Idle(d, docs, except) ==
    [l \in Ends |-> IF l \in up /\ l[1] = d /\ l[2] \notin except /\ queue[l] = << >>
                    THEN dirty[l] \cup docs ELSE dirty[l]]

(* Space::fan_out: the documents each link has yet to announce. *)
FanOut(d, docs, except) ==
    [l \in Ends |-> IF l \in up /\ l[1] = d /\ l[2] \notin except
                    THEN dirty[l] \cup docs ELSE dirty[l]]

-----------------------------------------------------------------------------
(* Local edits and the pump.                                                *)

Authored == UNION {rows[d] : d \in Devices}

(* An edit of a fact marks its scope by a trigger; an edit of a note goes to *)
(* the live document and is announced at once.                               *)
LocalEdit(u) ==
    LET d == Maker[u]  doc == DocOf[u] IN
    /\ u \notin Reversals
    /\ u \notin Authored /\ \A e \in Devices : u \notin disk[e]
    /\ u \in Creates \/ Part(rows[d], doc) # {}
    /\ doc \in Notes => Part(rows[d], Home[doc]) # {}
    /\ doc \in Facts => tx[d] = NoTx
    /\ rows' = [rows EXCEPT ![d] = @ \cup {u}]
    /\ IF doc \in Notes
       THEN /\ mem' = [mem EXCEPT ![d] = @ \cup {u}]
            /\ disk' = [disk EXCEPT ![d] = @ \cup {u}]
            /\ dirty' = FanOut(d, {doc}, {})
            /\ UNCHANGED changes
       ELSE changes' = [changes EXCEPT ![d] = @ \cup {doc}] /\ UNCHANGED <<mem, disk, dirty>>
    /\ UNCHANGED <<digests, late, tx, fallen, up, queue, wanted, wire, synced, due, silent,
                   troubles, failed, overtaken>>

(* export_into: the document's rows are written, and what the document shows *)
(* and the rows do not have was deleted here, as far as the export can tell. *)
Written(d, doc) ==
    Part(rows[d], doc) \cup
    {r \in Reversals : Maker[r] = d /\ Reverses[r] \in Shown(Part(mem[d], doc)) \ rows[d]}

Unsaved(d, doc) == Part(mem[d], doc) # Part(disk[d], doc)

(* pump_once takes the gate and writes the rows into the live document,      *)
(* where version_of and updates_since see them before the commit.  There is  *)
(* one pump: after a failure it first drops the cache.  The document may     *)
(* still hold what an import that failed has left in it.                     *)
BeginExport(d, doc) ==
    /\ tx[d] = NoTx
    /\ doc \in changes[d]
    /\ \A i \in Slots : fallen[d][i].kind # "export"
    /\ LET held == Part(mem[d], doc) \cup Written(d, doc) IN
       /\ mem' = [mem EXCEPT ![d] = @ \cup held]
       /\ tx' = [tx EXCEPT ![d] = [NoTx EXCEPT !.kind = "export", !.doc = {doc}, !.held = held,
                                              !.save = held # Part(mem[d], doc)]]
    /\ overtaken' = (overtaken \/ Unsaved(d, doc))
    /\ UNCHANGED <<rows, changes, disk, digests, late, fallen, links, silent, troubles, failed>>

(* save_fact_doc and the commit: what the transaction holds is saved and is  *)
(* what the cache, or the next reader of the database, has.                  *)
Save(d) ==
    IF tx[d].save
    THEN /\ disk' = [disk EXCEPT ![d] = @ \cup tx[d].held]
         /\ mem' = [mem EXCEPT ![d] = @ \cup tx[d].held]
         /\ digests' = [digests EXCEPT ![d] =
                          [doc \in Docs |-> IF doc \in tx[d].doc THEN {} ELSE @[doc]]]
    ELSE UNCHANGED <<disk, mem, digests>>

(* The mark goes; a document that was changed is saved and announced. *)
CommitExport(d) ==
    /\ tx[d].kind = "export"
    /\ changes' = [changes EXCEPT ![d] = @ \ tx[d].doc]
    /\ Save(d)
    /\ dirty' = FanOut(d, IF tx[d].save THEN tx[d].doc ELSE {}, {})
    /\ tx' = [tx EXCEPT ![d] = NoTx]
    /\ UNCHANGED <<rows, late, fallen, up, queue, wanted, wire, synced, due, silent, troubles,
                   failed, overtaken>>

(* The transaction is rolled back and the gate is free again; the live       *)
(* document is as the transaction left it.                                   *)
RollBack(d) ==
    /\ Trouble("fail")
    /\ tx[d] # NoTx
    /\ fallen' = [fallen EXCEPT ![d][troubles'] = tx[d]]
    /\ tx' = [tx EXCEPT ![d] = NoTx]
    /\ failed' = TRUE
    /\ UNCHANGED <<rows, changes, disk, mem, digests, late, links, silent, overtaken>>

(* drop_cache: the documents in memory may hold what was not saved.  What a  *)
(* transaction that runs meanwhile holds is its own.                         *)
DropCache(d) ==
    /\ digests' = [digests EXCEPT ![d] = [doc \in Docs |-> {}]]
    /\ mem' = [mem EXCEPT ![d] = disk[d]]

(* version_of on another thread: the version is read, then cached, and       *)
(* nothing is held in between.                                               *)
ReadVersion(d, doc) ==
    /\ Trouble("race")
    /\ doc \in Facts /\ Present(d, doc)
    /\ digests[d][doc] = {}
    /\ \A x \in Docs : late[d][x] = {}
    /\ late' = [late EXCEPT ![d][doc] = Part(mem[d], doc)]
    /\ UNCHANGED <<rows, changes, disk, mem, digests, tx, fallen, links, silent, failed, overtaken>>

CacheVersion(d, doc) ==
    /\ late[d][doc] # {}
    /\ digests' = [digests EXCEPT ![d][doc] = late[d][doc]]
    /\ late' = [late EXCEPT ![d][doc] = {}]
    /\ silent' = IF late[d][doc] # Part(mem[d], doc) THEN silent \cup {<<d, doc>>} ELSE silent
    /\ UNCHANGED <<rows, changes, disk, mem, tx, fallen, links, troubles, failed, overtaken>>

-----------------------------------------------------------------------------
(* write_loop: a queued item, the dirty set or the periodic summary; select! *)
(* takes any that is ready.                                                  *)

Send(l, m) == wire' = [wire EXCEPT ![l] = Append(@, m)]

WriteSummary(l, complete, docs) ==
    /\ Send(l, Summary(complete, l[1], docs))
    /\ Cache(l[1], docs)

(* One item; the Wants that one summary led to are queued as one item. *)
WriteQueued(l) ==
    /\ l \in up
    /\ queue[l] # << >>
    /\ LET item == Head(queue[l])  d == l[1] IN
       \/ /\ item.type = "Complete"
          /\ WriteSummary(l, TRUE, Docs)
          /\ queue' = [queue EXCEPT ![l] = Tail(@)]
       \/ /\ item.type = "RequestSummary"
          /\ Send(l, RequestSummary)
          /\ queue' = [queue EXCEPT ![l] = Tail(@)]
          /\ UNCHANGED digests
       \/ /\ item.type = "Want"
          /\ \E doc \in item.doc :
               /\ Send(l, Want(doc, VersionOf(d, doc)))
               /\ Cache(d, {doc})
               /\ queue' = [queue EXCEPT ![l] =
                    IF item.doc = {doc} THEN Tail(@)
                    ELSE <<[item EXCEPT !.doc = @ \ {doc}]>> \o Tail(@)]
       \/ /\ item.type = "Serve"
          /\ \E doc \in item.doc :
               Send(l, Update(doc, Part(mem[d], doc) \ item.vers))
          /\ queue' = [queue EXCEPT ![l] = Tail(@)]
          /\ UNCHANGED digests
    /\ UNCHANGED <<rows, changes, disk, mem, late, tx, fallen, up, dirty, wanted, synced, due,
                   silent, troubles, failed, overtaken>>

(* The dirty set is taken, and what is there of it is announced. *)
WriteDirty(l) ==
    /\ l \in up
    /\ dirty[l] # {}
    /\ dirty' = [dirty EXCEPT ![l] = {}]
    /\ IF \E doc \in dirty[l] : Present(l[1], doc)
       THEN WriteSummary(l, FALSE, dirty[l])
       ELSE UNCHANGED <<wire, digests>>
    /\ UNCHANGED <<rows, changes, disk, mem, late, tx, fallen, up, queue, wanted, synced, due,
                   silent, troubles, failed, overtaken>>

IdleEnd(l) ==
    /\ l \in up
    /\ queue[l] = << >> /\ wire[l] = << >> /\ dirty[l] = {} /\ tx[l[1]] = NoTx
    /\ \A doc \in Docs : wanted[l][doc] = "no"

(* The anti-entropy interval.  Bound: it is long, so it finds the link idle; *)
(* a complete summary amid traffic is the first one, or a requested one.     *)
Tick(l) ==
    /\ IdleEnd(l) /\ IdleEnd(Other(l))
    /\ WriteSummary(l, TRUE, Docs)
    /\ UNCHANGED <<rows, changes, disk, mem, late, tx, fallen, up, queue, dirty, wanted, synced,
                   due, silent, troubles, failed, overtaken>>

-----------------------------------------------------------------------------
(* read_loop: the messages of the peer, in order.                            *)

Reads(l, types) ==
    /\ l \in up
    /\ wire[Other(l)] # << >>
    /\ Head(wire[Other(l)]).type \in types

Incoming(l) == Head(wire[Other(l)])

Consume(l) == wire' = [wire EXCEPT ![Other(l)] = Tail(@)]

Enqueue(l, item) == queue' = [queue EXCEPT ![l] = Append(@, item)]

NothingWanted(l) == \A doc \in Docs : wanted[l][doc] = "no"

(* A mutant: synchronised as soon as a summary leads to no new request. *)
Settled_NothingNew(l, differing) == \A doc \in differing : wanted[l][doc] # "no"

(* The peer announced nothing that is not here, and nothing is awaited. *)
Settled(l, differing) == differing = {} /\ NothingWanted(l)

(* A document is asked for when its digest differs, or when it is new and    *)
(* acceptable; one already asked for is asked for again after its answer.    *)
ReadSummary(l) ==
    /\ Reads(l, {"Complete", "Partial"})
    /\ LET d == l[1]
           m == Incoming(l)
           differing == {doc \in m.doc : IF Present(d, doc)
                                          THEN VersionOf(d, doc) # Part(m.vers, doc)
                                          ELSE Accepts(d, doc)}
           new == {doc \in differing : wanted[l][doc] = "no"}
           complete == m.type = "Complete"
       IN /\ wanted' = [wanted EXCEPT ![l] = [doc \in Docs |->
                           IF doc \in new THEN "asked"
                           ELSE IF doc \in differing THEN "stale" ELSE @[doc]]]
          /\ IF new = {} THEN UNCHANGED queue
             ELSE Enqueue(l, [NoMessage EXCEPT !.type = "Want", !.doc = new])
          /\ Cache(d, m.doc)
          /\ synced' = [synced EXCEPT ![l] =
                IF complete THEN Settled(l, differing) ELSE @]
          /\ due' = [due EXCEPT ![l] =
                IF complete
                THEN UNION {Part(m.vers, doc) :
                              doc \in {x \in m.doc : Present(d, x) \/ Accepts(d, x)}}
                ELSE @]
    /\ Consume(l)
    /\ UNCHANGED <<rows, changes, disk, mem, late, tx, fallen, up, dirty, silent, troubles,
                   failed, overtaken>>

ReadWant(l) ==
    /\ Reads(l, {"Want"})
    /\ Enqueue(l, ServeItem(Incoming(l)))
    /\ Consume(l)
    /\ UNCHANGED <<store, up, dirty, wanted, synced, due, silent, troubles, failed, overtaken>>

ReadRequest(l) ==
    /\ Reads(l, {"RequestSummary"})
    /\ Enqueue(l, SummaryItem)
    /\ Consume(l)
    /\ UNCHANGED <<store, up, dirty, wanted, synced, due, silent, troubles, failed, overtaken>>

IsWanted(l) == \E doc \in Incoming(l).doc : wanted[l][doc] # "no"

(* A mutant: the request of a stale answer is noted but not sent again. *)
Answered_NoRepeat(l, doc, q) ==
    /\ Consume(l)
    /\ wanted' = [wanted EXCEPT ![l][doc] = IF @ = "stale" THEN "asked" ELSE "no"]
    /\ queue' = q
    /\ synced' = [synced EXCEPT ![l] = @ \/ \A x \in Docs : wanted'[l][x] = "no"]

(* The answer ends the request; a stale one is repeated.  q is the queues    *)
(* as the merge left them.                                                   *)
Answered(l, doc, q) ==
    LET again == wanted[l][doc] = "stale" IN
    /\ Consume(l)
    /\ wanted' = [wanted EXCEPT ![l][doc] = IF again THEN "asked" ELSE "no"]
    /\ queue' = IF again
                THEN [q EXCEPT ![l] = Append(@, [NoMessage EXCEPT !.type = "Want", !.doc = {doc}])]
                ELSE q
    /\ synced' = [synced EXCEPT ![l] = @ \/ \A x \in Docs : wanted'[l][x] = "no"]

(* An empty answer: there was nothing to give. *)
ReadEmpty(l) ==
    /\ Reads(l, {"Update"})
    /\ IsWanted(l) /\ Incoming(l).vers = {}
    /\ \E doc \in Incoming(l).doc : Answered(l, doc, queue)
    /\ UNCHANGED <<store, up, dirty, due, silent, troubles, failed, overtaken>>

(* apply_note: merged into the open document, or refused. *)
ReadNote(l) ==
    /\ Reads(l, {"Update"})
    /\ IsWanted(l) /\ Incoming(l).vers # {}
    /\ \E doc \in Incoming(l).doc \cap Notes :
         LET d == l[1]
             merge(S) == [S EXCEPT ![d] = @ \cup Incoming(l).vers]
         IN /\ Answered(l, doc, queue)
            /\ \/ /\ Accepts(d, doc)
                  /\ mem' = merge(mem) /\ disk' = merge(disk) /\ rows' = merge(rows)
                  /\ dirty' = IF Incoming(l).vers \subseteq mem[d] THEN dirty
                              ELSE FanOut(d, {doc}, {l[2]})
                  /\ UNCHANGED <<troubles, failed>>
               \/ /\ ~Accepts(d, doc)
                  /\ UNCHANGED <<mem, disk, rows, dirty, troubles, failed>>
               \/ /\ Trouble("fail")
                  /\ failed' = TRUE
                  /\ UNCHANGED <<mem, disk, rows, dirty>>
    /\ UNCHANGED <<changes, digests, late, tx, fallen, up, due, silent, overtaken>>

(* A mutant: a remote update replaces rows that were never exported. *)
Pending_Ignored(d, doc) == {}

(* What an import exports first, if the document is marked. *)
Pending(d, doc) == IF doc \in changes[d] THEN Written(d, doc) ELSE {}

(* export_into and apply each look for the document in the cache.  A cache   *)
(* that is dropped between the two leaves apply with the saved copy, which   *)
(* has the rows unless they were found written already.  EndFailure still    *)
(* comes, and drops once more what the transaction no longer depends on.     *)
Found(d, doc, exported) ==
    {exported} \cup
    IF doc \in changes[d] /\ exported = Part(mem[d], doc) /\ fallen[d] # NoneFallen
    THEN {Part(disk[d], doc)} ELSE {}

(* LibrarySync::apply, under the gate: a pending local edit goes into the    *)
(* document first, then the update.  A reader whose last import failed first *)
(* drops the cache.                                                          *)
BeginImport(l) ==
    /\ Reads(l, {"Update"})
    /\ IsWanted(l) /\ Incoming(l).vers # {}
    /\ tx[l[1]] = NoTx
    /\ \A i \in Slots : l[2] \notin fallen[l[1]][i].from
    /\ \E doc \in Incoming(l).doc \cap Facts :
         LET d == l[1]
             exported == Part(mem[d], doc) \cup Pending(d, doc)
         IN /\ \E base \in Found(d, doc, exported) :
                 LET held == base \cup Incoming(l).vers
                     remote == ~(Incoming(l).vers \subseteq base)
                 IN /\ mem' = [mem EXCEPT ![d] = (@ \ Of(doc)) \cup held]
                    /\ tx' = [tx EXCEPT ![d] =
                         [kind |-> "import", doc |-> {doc}, from |-> {l[2]},
                          local |-> doc \in changes[d], remote |-> remote, held |-> held,
                          save |-> remote \/ exported # Part(mem[d], doc)]]
            /\ overtaken' = (overtaken \/ (doc \in changes[d] /\ Unsaved(d, doc)))
    /\ UNCHANGED <<rows, changes, disk, digests, late, fallen, links, silent, troubles, failed>>

(* Every link is asked for its summary again. *)
Refreshed(d) ==
    [l \in Ends |-> IF l \in up /\ l[1] = d THEN Append(queue[l], RequestSummary) ELSE queue[l]]

(* What the document shows becomes the rows and is saved with them; one that *)
(* is new here makes the notes of it acceptable.  The reader fans the change *)
(* out, but not to the peer it came from, and not at all when its link broke *)
(* meanwhile.                                                                *)
CommitImport(d) ==
    /\ tx[d].kind = "import"
    /\ Save(d)
    /\ \E doc \in tx[d].doc :
         LET created == tx[d].remote /\ Part(rows[d], doc) = {}
             refreshed == IF created THEN Refreshed(d) ELSE queue
         IN /\ rows' = IF tx[d].remote
                       THEN [rows EXCEPT ![d] = (@ \ Of(doc)) \cup Shown(tx[d].held)] ELSE rows
            /\ changes' = [changes EXCEPT ![d] =
                             IF tx[d].local \/ tx[d].remote THEN @ \ {doc} ELSE @]
            /\ silent' = IF tx[d].local \/ (tx[d].remote /\ tx[d].from = {})
                         THEN silent \cup {<<d, doc>>} ELSE silent
            /\ \/ /\ tx[d].from = {}
                  /\ queue' = refreshed
                  /\ UNCHANGED <<wire, wanted, synced, dirty>>
               \/ \E e \in tx[d].from :
                  /\ Answered(<<d, e>>, doc, refreshed)
                  /\ dirty' = FanOut(d, IF tx[d].remote THEN {doc} ELSE {}, {e})
    /\ tx' = [tx EXCEPT ![d] = NoTx]
    /\ UNCHANGED <<late, fallen, up, due, troubles, failed, overtaken>>

(* A mutant: a request whose merge failed is never taken off the list. *)
EndFailure_KeepsWanting(d) ==
    \E i \in Slots :
        /\ fallen[d][i] # NoTx
        /\ DropCache(d)
        /\ fallen' = [fallen EXCEPT ![d][i] = NoTx]
        /\ wire' = [l \in Ends |-> IF l[2] = d /\ l[1] \in fallen[d][i].from
                                  THEN Tail(wire[l]) ELSE wire[l]]
        /\ UNCHANGED <<rows, changes, disk, late, tx, up, queue, dirty, wanted, synced, due,
                       silent, troubles, failed, overtaken>>

(* The thread of a transaction that was rolled back drops the cache, which   *)
(* others may have used since.  A reader only logs the failure.              *)
EndFailure(d) ==
    \E i \in Slots :
        /\ fallen[d][i] # NoTx
        /\ DropCache(d)
        /\ fallen' = [fallen EXCEPT ![d][i] = NoTx]
        /\ \/ fallen[d][i].from = {} /\ UNCHANGED <<wire, wanted, queue, synced>>
           \/ \E e \in fallen[d][i].from, doc \in fallen[d][i].doc : Answered(<<d, e>>, doc, queue)
        /\ UNCHANGED <<rows, changes, disk, late, tx, up, dirty, due, silent, troubles, failed,
                       overtaken>>

-----------------------------------------------------------------------------
(* Links come and go: run_link starts each end with its summary queued.      *)

EndsOfPair(p) == {l \in Ends : {l[1], l[2]} = p}

Connect(p) ==
    /\ EndsOfPair(p) \cap up = {}
    /\ up' = up \cup EndsOfPair(p)
    /\ queue' = [l \in Ends |-> IF l \in EndsOfPair(p) THEN <<SummaryItem>> ELSE queue[l]]
    /\ UNCHANGED <<store, dirty, wanted, wire, synced, due, silent, troubles, failed, overtaken>>

(* What the closed ends held is gone, and an import goes on without reader.  *)
Close(ends) ==
    /\ up' = up \ ends
    /\ queue' = [l \in Ends |-> IF l \in ends THEN << >> ELSE queue[l]]
    /\ dirty' = [l \in Ends |-> IF l \in ends THEN {} ELSE dirty[l]]
    /\ wanted' = [l \in Ends |-> IF l \in ends THEN [doc \in Docs |-> "no"] ELSE wanted[l]]
    /\ wire' = [l \in Ends |-> IF l \in ends THEN << >> ELSE wire[l]]
    /\ synced' = [l \in Ends |-> IF l \in ends THEN FALSE ELSE synced[l]]
    /\ due' = [l \in Ends |-> IF l \in ends THEN {} ELSE due[l]]

Orphaned(t, d, ends) == [t EXCEPT !.from = {e \in @ : <<d, e>> \notin ends}]

OrphanedFallen(d, ends) == [i \in Slots |-> Orphaned(fallen[d][i], d, ends)]

Break(p) ==
    /\ Trouble("break")
    /\ EndsOfPair(p) \subseteq up
    /\ Close(EndsOfPair(p))
    /\ tx' = [d \in Devices |-> Orphaned(tx[d], d, EndsOfPair(p))]
    /\ fallen' = [d \in Devices |-> OrphanedFallen(d, EndsOfPair(p))]
    /\ UNCHANGED <<rows, changes, disk, mem, digests, late, silent, failed, overtaken>>

(* The process dies: SQL and the note files stay. *)
Restart(d) ==
    LET ends == {l \in Ends : d \in {l[1], l[2]}} IN
    /\ Trouble("restart")
    /\ Close(ends)
    /\ tx' = [e \in Devices |-> IF e = d THEN NoTx ELSE Orphaned(tx[e], e, ends)]
    /\ fallen' = [e \in Devices |-> IF e = d THEN NoneFallen ELSE OrphanedFallen(e, ends)]
    /\ DropCache(d)
    /\ late' = [late EXCEPT ![d] = [doc \in Docs |-> {}]]
    /\ UNCHANGED <<rows, changes, disk, silent, failed, overtaken>>

-----------------------------------------------------------------------------
Writer(l) == WriteQueued(l) \/ WriteDirty(l)

Reader(l) ==
    \/ ReadSummary(l) \/ ReadWant(l) \/ ReadRequest(l)
    \/ ReadEmpty(l) \/ ReadNote(l) \/ BeginImport(l)

LinkStep == \E l \in Ends : Writer(l) \/ Reader(l) \/ Tick(l)

StoreStep ==
    \E d \in Devices :
        \/ CommitExport(d) \/ CommitImport(d) \/ RollBack(d) \/ EndFailure(d)
        \/ \E doc \in Facts : BeginExport(d, doc) \/ ReadVersion(d, doc) \/ CacheVersion(d, doc)

Next ==
    \/ \E u \in Updates : LocalEdit(u)
    \/ StoreStep
    \/ LinkStep
    \/ \E p \in Pairs : Connect(p) \/ Break(p)
    \/ \E d \in Devices : Restart(d)

Spec == Init /\ [][Next]_vars

(* The pump polls, transactions end, loops run, dial_loop dials again and    *)
(* the interval ticks; nobody has to edit anything.                          *)
Fairness ==
    /\ \A d \in Devices :
        /\ WF_vars(CommitExport(d)) /\ WF_vars(CommitImport(d)) /\ WF_vars(EndFailure(d))
        /\ \A doc \in Facts : WF_vars(BeginExport(d, doc)) /\ WF_vars(CacheVersion(d, doc))
    /\ \A l \in Ends : WF_vars(Writer(l)) /\ WF_vars(Reader(l)) /\ SF_vars(Tick(l))
    /\ \A p \in Pairs : WF_vars(Connect(p))

FairSpec == Spec /\ Fairness

-----------------------------------------------------------------------------
(* Rows, documents, cached versions and links are well formed: in particular *)
(* a live document differs from its saved copy only inside a transaction, or *)
(* after one that failed until the cache is dropped.                         *)
TypeOK ==
    /\ rows \in [Devices -> SUBSET Updates]
    /\ changes \in [Devices -> SUBSET Facts]
    /\ disk \in [Devices -> SUBSET Updates]
    /\ mem \in [Devices -> SUBSET Updates]
    /\ digests \in [Devices -> [Docs -> SUBSET Updates]]
    /\ late \in [Devices -> [Docs -> SUBSET Updates]]
    /\ tx \in [Devices -> Tx]
    /\ fallen \in [Devices -> [Slots -> Tx]]
    /\ \A d \in Devices : tx[d] = NoTx /\ fallen[d] = NoneFallen => mem[d] = disk[d]
    /\ up \subseteq Ends
    /\ queue \in [Ends -> Seq(Outbound)]
    /\ wire \in [Ends -> Seq(Message)]
    /\ \A l \in Ends \ up : queue[l] = << >> /\ wire[l] = << >> /\ dirty[l] = {}
    /\ dirty \in [Ends -> SUBSET Docs]
    /\ wanted \in [Ends -> [Docs -> {"no", "asked", "stale"}]]
    /\ synced \in [Ends -> BOOLEAN]
    /\ due \in [Ends -> SUBSET Updates]
    /\ silent \subseteq Devices \X Docs
    /\ troubles \in 0..MaxTroubles
    /\ failed \in BOOLEAN /\ overtaken \in BOOLEAN

Count(msgs, type, doc) ==
    Cardinality({i \in DOMAIN msgs : msgs[i].type = type /\ doc \in msgs[i].doc})

(* read_loop's pending map: a document awaited on a link has exactly one     *)
(* request or answer on its way, and one that is not awaited has none; an    *)
(* entry whose request is lost would never be asked for again.               *)
OneRequestEach ==
    /\ TypeOK
    /\ \A l \in Ends, doc \in Docs :
          Count(queue[l], "Want", doc) + Count(wire[l], "Want", doc)
            + Count(queue[Other(l)], "Serve", doc) + Count(wire[Other(l)], "Update", doc)
          = IF wanted[l][doc] = "no" THEN 0 ELSE 1

StaleDigest(d, doc) == digests[d][doc] # {} /\ digests[d][doc] # Part(mem[d], doc)

QuietEnd(l) == IdleEnd(l) /\ changes[l[1]] = {}

(* protocol.rs: after a local change the peer is told of that document and   *)
(* pulls it, so when nothing is queued, sent, wanted or waiting to be        *)
(* exported, both ends have the same documents, without the periodic         *)
(* summary.                                                                  *)
QuietLinksAgree ==
    \A l \in up : QuietEnd(l) /\ QuietEnd(Other(l)) => mem[l[1]] = mem[l[2]]

(* A note is not accepted where its recording is missing.                    *)
Needs(doc) == {doc} \cup {Home[note] : note \in {doc} \cap Notes}

(* The same but for what the code is known to leave to the next summary: a   *)
(* failed merge, and changes it saved without telling every link.            *)
QuietLinksAgreeOnAnnounced ==
    \A l \in up :
        QuietEnd(l) /\ QuietEnd(Other(l)) /\ ~failed =>
            \A doc \in Docs :
                \/ Part(mem[l[1]], doc) = Part(mem[l[2]], doc)
                \/ {l[1], l[2]} \X Needs(doc) \cap silent # {}

(* What a link has said, asked and answered adds up, while it works and when *)
(* it is quiet.                                                              *)
LinksAddUp == OneRequestEach /\ QuietLinksAgreeOnAnnounced

(* PeerStatus::last_synced_unix_ms, "everything the peer had is here": once  *)
(* the time is stamped after a complete summary, all that this summary       *)
(* announced and this device accepts is merged, unless a merge failed.       *)
SyncedCoversSummary ==
    \A l \in Ends : synced[l] /\ ~failed => due[l] \subseteq mem[l[1]]

Agree == \A d, e \in Devices : rows[d] = rows[e]

(* SyncConfig::anti_entropy, "catches every lost notification": when edits   *)
(* have stopped, all devices show the same facts for ever.                   *)
Converges == <>[]Agree

(* The same, unless a device keeps a cached version of a document that is    *)
(* not the document's, or has exported into a document it was about to drop: *)
(* link failures, failed merges, restarts and lost announcements are all     *)
(* made good.                                                                *)
ConvergesUnlessStale ==
    <>[](Agree \/ overtaken \/ \E d \in Devices, doc \in Facts : StaleDigest(d, doc))

Promise == INSTANCE ReplicaPromise WITH facts <- rows

(* Synchronisation never takes a fact away from a device and never invents   *)
(* one.  library_sync.rs: what memory holds unsaved is dropped after a       *)
(* failure, and "the next export will not take the peer's content for        *)
(* something deleted here".                                                  *)
KeepsFacts == Promise!Spec

(* The same, until a device exports into a document that a failed            *)
(* transaction has left unsaved changes in: its gate is free before the      *)
(* cache is dropped.  "Local changes not exported yet go into the document   *)
(* first, or the merge would not have them", across failures of merges and   *)
(* exports that nobody overtakes, restarts, breaks and stale versions.       *)
KeepsFactsUnlessOvertaken == Promise!Init /\ [][Promise!Next \/ overtaken']_rows
=============================================================================
