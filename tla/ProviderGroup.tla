---------------------------- MODULE ProviderGroup ----------------------------
(***************************************************************************)
(* The provider groups of one recording.  A group is a stream per lane and *)
(* one collector, the only writer of the transcript.  Audio is fanned out  *)
(* under the capture lock; what the streams report waits in queues until   *)
(* the collector hears it.  A stopped translation lane is replaced inside  *)
(* the group; a group that ended is replaced by a new one, once its writer *)
(* is gone, and what nobody transcribed is recorded as a gap.              *)
(*                                                                         *)
(* Audio is counted in blocks, and a lane says one word for each.  A word  *)
(* is written as it is heard: SonioxStream is about tokens and the replay, *)
(* RealtimeProjection about what becomes of rows and translations.         *)
(***************************************************************************)
EXTENDS Integers, Sequences, FiniteSets, FiniteSetsExt

CONSTANTS
    Source,         \* the canonical lane
    Aux,            \* translation lanes
    MaxBlocks,      \* bound on the audio pushed
    MaxGroups,      \* bound on the groups opened
    MaxRestarts,    \* MAX_AUXILIARY_LANE_RESTARTS
    Kinds,          \* what can go wrong, see Trouble
    MaxTroubles     \* bound on it

ASSUME GroupAssumption ==
    /\ Source \notin Aux
    /\ IsFiniteSet(Aux)
    /\ {MaxBlocks, MaxGroups, MaxRestarts, MaxTroubles} \subseteq Nat
    /\ MaxGroups # 0
    /\ Kinds \subseteq {"drop", "renew", "die", "wedge", "fault", "slow", "refuse"}

VARIABLES
    capture,    \* state of the run
    pushed,     \* blocks the journal has accepted
    health,     \* remote_health of the run, and whether a cause is recorded
    said,       \* rows of the source lane and facts of the others
    gaps,       \* blocks recorded as untranscribed
    opened,     \* groups opened so far; the last one has the number opened
    remote,     \* ActiveNotebookCapture.remote: a group, or none
    cleanup,    \* ActiveNotebookCapture.remote_cleanup: a group, or none
    cancelled,  \* groups whose token is cancelled
    stream,     \* the streams of the last group, by lane
    inbox,      \* by group and lane: events sent and not heard
    cuts,       \* by group: InputDiscontinuity, sent past the queue
    col,        \* by group: its collector
    call,       \* the command that holds the capture
    troubles,   \* how much has gone wrong
    mishap      \* history: what the properties excuse

vars == <<capture, pushed, health, said, gaps, opened, remote, cleanup, cancelled,
          stream, inbox, cuts, col, call, troubles, mishap>>

record == <<said, gaps>>                 \* the transcript
queues == <<inbox, cuts>>
owner == <<remote, cleanup>>
faults == <<troubles, mishap>>

Lanes == Aux \cup {Source}
Groups == 1..MaxGroups
None == 0
Never == -1

View == [gen |-> 0, connected |-> FALSE, failed |-> FALSE, awaiting |-> FALSE, epoch |-> 0]

Collector(at, next, epoch) ==
    [at |-> at, next |-> next, epoch |-> epoch, final |-> Never, since |-> Never,
     view |-> [l \in Lanes |-> [View EXCEPT !.epoch = epoch]]]

Stream(next, gen, restarts) ==
    [phase |-> "dial", next |-> next, again |-> FALSE, gen |-> gen, leg |-> 0,
     stopped |-> FALSE, restarts |-> restarts]

NoCall == [op |-> "none", at |-> "none", group |-> None, owed |-> FALSE]

Silent == [l \in Lanes |-> <<>>]

(* "drop", "renew": a connection is lost, or ends at its session cap;        *)
(* "die": a stream gives up; "wedge": it takes nothing more; "fault": the    *)
(* database refuses a write; "slow": a deadline passes; "refuse": a group    *)
(* cannot be opened.                                                         *)
Trouble(kind) == kind \in Kinds /\ troubles < MaxTroubles /\ troubles' = troubles + 1

Blame(names) == mishap' = mishap \cup names

-----------------------------------------------------------------------------
(* What is written, and what is not.                                       *)

Rows == {s \in said : s.lane = Source}

(* realtime_resume_point                                                     *)
Through == Max({0} \cup {r.word : r \in Rows})
NextSequence == Max({0} \cup {r.seq : r \in Rows}) + 1
NextEpoch == Max({-1} \cup {f.epoch : f \in said \ Rows}) + 1

(* preserve_gap_after_transcribed_rows                                       *)
Untranscribed == (Through + 1)..pushed

Covered(b) == b \in gaps \/ \E r \in Rows : r.word = b

(* update_remote_health: a cause stays until another one or Live. Degraded   *)
(* and Unavailable are both "down".                                          *)
Report(is, failure) ==
    health' = [is |-> is, cause |-> failure \/ (health.cause /\ is # "live")]

(* JoinHandle::is_finished                                                   *)
Ended(g) == col[g].at \in {"done", "failed", "aborted"}

-----------------------------------------------------------------------------
(* A start, and a group that opens.                                        *)

Init ==
    /\ capture = "recording" /\ pushed = 0
    /\ said = {} /\ gaps = {}
    /\ \/ /\ opened = 1 /\ remote = 1
          /\ health = [is |-> "connecting", cause |-> FALSE]
       \/ /\ opened = 0 /\ remote = None
          /\ health = [is |-> "down", cause |-> TRUE]
    /\ cleanup = None /\ cancelled = {}
    /\ stream = [l \in Lanes |-> Stream(1, 0, 0)]
    /\ inbox = [g \in Groups |-> Silent] /\ cuts = [g \in Groups |-> {}]
    /\ col = [g \in Groups |-> Collector(IF g <= opened THEN "run" ELSE "none", 1, 0)]
    /\ call = NoCall /\ troubles = 0 /\ mishap = {}

(* start_soniox_capture_runtime from a RemoteGroupOrigin                     *)
OpenGroup ==
    /\ opened' = opened + 1
    /\ remote' = opened + 1
    /\ stream' = [l \in Lanes |-> Stream(pushed + 1, 0, 0)]
    /\ col' = [col EXCEPT ![opened + 1] = Collector("run", NextSequence, NextEpoch)]

-----------------------------------------------------------------------------
(* The streams.  A cancelled one ends without a word; so does one whose      *)
(* group's token is cancelled.                                               *)

Runs(l) ==
    /\ opened # None /\ opened \notin cancelled
    /\ ~stream[l].stopped /\ stream[l].phase \in {"dial", "up"}

Event(l, kind, word) ==
    [kind |-> kind, gen |-> stream[l].gen, leg |-> stream[l].leg, word |-> word]

Emit(l, events) == inbox' = [inbox EXCEPT ![opened][l] = @ \o events]

KeepsAll == UNCHANGED <<capture, pushed, health, record, opened, owner, cancelled,
                        cuts, col, call>>

(* A reconnection tells how long it was gone: within the window everything   *)
(* not acknowledged is said again, past it the stream rejoins at the live    *)
(* edge.                                                                     *)
Connect(l) ==
    /\ Runs(l) /\ stream[l].phase = "dial"
    /\ \/ /\ ~stream[l].again
          /\ Emit(l, <<Event(l, "connected", 0)>>)
          /\ stream' = [stream EXCEPT ![l].phase = "up"]
       \/ /\ stream[l].again
          /\ Emit(l, <<Event(l, "back", stream[l].next - 1), Event(l, "connected", 0)>>)
          /\ stream' = [stream EXCEPT ![l].phase = "up", ![l].again = FALSE]
       \/ /\ stream[l].again
          /\ Emit(l, <<Event(l, "back late", stream[l].next - 1), Event(l, "connected", 0)>>)
          /\ stream' = [stream EXCEPT ![l].phase = "up", ![l].again = FALSE,
                                      ![l].next = pushed + 1, ![l].leg = @ + 1]
    /\ KeepsAll /\ UNCHANGED faults

Say(l) ==
    /\ Runs(l) /\ stream[l].phase = "up" /\ stream[l].next <= pushed
    /\ Emit(l, <<Event(l, "word", stream[l].next)>>)
    /\ stream' = [stream EXCEPT ![l].next = @ + 1]
    /\ KeepsAll /\ UNCHANGED faults

Drop(l) ==
    /\ Runs(l)
    /\ \/ Trouble("drop") /\ Emit(l, <<Event(l, "lost", 0)>>)
       \/ stream[l].phase = "up" /\ Trouble("renew") /\ Emit(l, <<Event(l, "planned", 0)>>)
    /\ stream' = [stream EXCEPT ![l].phase = "dial", ![l].again = TRUE]
    /\ KeepsAll /\ UNCHANGED mishap

Die(l) ==
    /\ Runs(l) /\ Trouble("die")
    /\ Emit(l, <<Event(l, "error", 0)>>)
    /\ stream' = [stream EXCEPT ![l].phase = "died"]
    /\ KeepsAll /\ UNCHANGED mishap

(* Stop's Finish: a stream ends when everything it was given is confirmed.   *)
Finish(l) ==
    /\ Runs(l) /\ call.op = "stop" /\ call.at = "streams"
    /\ stream[l].phase = "up" /\ stream[l].next > pushed
    /\ stream' = [stream EXCEPT ![l].phase = "ended"]
    /\ KeepsAll /\ UNCHANGED <<inbox, faults>>

-----------------------------------------------------------------------------
(* What the collector hears.  Apart from its position each operator below    *)
(* gives the collector after one event of the lane l.                        *)

See(c, l, v) == [c EXCEPT !.view[l] = v]

(* A mutant: the lane of the connection before stays a tombstone. *)
Revived_Tombstone(c, l, gen) ==
    IF gen <= c.view[l].gen THEN c
    ELSE [See(c, l, [c.view[l] EXCEPT !.gen = gen, !.epoch = c.epoch + 1]) EXCEPT !.epoch = @ + 1]

(* A mutant: the rows of the replacement continue the epoch. *)
Revived_SameEpoch(c, l, gen) ==
    IF gen <= c.view[l].gen THEN c
    ELSE See(c, l, [c.view[l] EXCEPT !.gen = gen, !.failed = FALSE])

(* The first event of a replacement: the lane is another provider timeline.  *)
Revived(c, l, gen) ==
    IF gen <= c.view[l].gen THEN c
    ELSE [See(c, l, [c.view[l] EXCEPT !.gen = gen, !.failed = FALSE, !.epoch = c.epoch + 1])
             EXCEPT !.epoch = @ + 1]

(* An event of a connection already replaced, or of a lane that has ended.   *)
Late(c, l, gen) == gen < c.view[l].gen \/ c.view[l].failed

AllAccounted(c) == \A l \in Lanes : c.view[l].failed \/ c.view[l].connected

Quiet == UNCHANGED <<health, record, cancelled, mishap>>

(* A mutant: the health of the group is that of the lane just heard. *)
HearConnected_Live(g, l, c) ==
    LET d == See(c, l, [c.view[l] EXCEPT !.connected = TRUE, !.awaiting = FALSE])
    IN  /\ col' = [col EXCEPT ![g] = d]
        /\ IF AllAccounted(d) THEN Report("live", FALSE) ELSE UNCHANGED health
        /\ UNCHANGED <<record, cancelled, mishap>>

HearConnected(g, l, c) ==
    LET d == See(c, l, [c.view[l] EXCEPT !.connected = TRUE, !.awaiting = FALSE])
    IN  /\ col' = [col EXCEPT ![g] = d]
        /\ IF AllAccounted(d)
           THEN Report(IF \E k \in Lanes : d.view[k].failed THEN "down" ELSE "live", FALSE)
           ELSE UNCHANGED health
        /\ UNCHANGED <<record, cancelled, mishap>>

(* RecoveryStarted, and the AudioProgress that follows it.                   *)
HearBack(g, l, c, e) ==
    LET v == c.view[l]
        late == v.awaiting /\ e.kind = "back late"
        d == See(c, l, [v EXCEPT !.awaiting = FALSE,
                                 !.epoch = IF late THEN c.epoch + 1 ELSE @])
    IN  /\ col' = [col EXCEPT ![g] =
                     [d EXCEPT !.epoch = IF late THEN @ + 1 ELSE @,
                               !.since = IF l = Source THEN Never ELSE @,
                               !.final = IF l = Source THEN e.word ELSE @]]
        /\ gaps' = IF late /\ l = Source /\ c.since # Never
                   THEN gaps \cup ((c.since + 1)..pushed) ELSE gaps
        /\ UNCHANGED <<health, said, cancelled, mishap>>

(* Reconnecting: the stretch starts where the rows stop, or now when the     *)
(* lane has reported no progress yet.                                        *)
HearLost(g, l, c, e) ==
    LET v == [c.view[l] EXCEPT !.awaiting = TRUE,
                               !.connected = @ /\ e.kind = "planned"]
        from == IF c.final = Never THEN pushed ELSE Min({c.final, pushed})
        anchors == l = Source /\ c.since = Never
    IN  /\ col' = [col EXCEPT ![g] =
                     [See(c, l, v) EXCEPT !.since = IF anchors THEN from ELSE @]]
        /\ IF e.kind = "planned" THEN UNCHANGED health
           ELSE Report(IF l = Source THEN "connecting" ELSE "down", FALSE)
        /\ Blame(IF anchors /\ c.final = Never /\ \E b \in 1..pushed : ~Covered(b)
                 THEN {"unanchored"} ELSE {})
        /\ UNCHANGED <<record, cancelled>>

Word(g, l, c, e, seq) ==
    [lane |-> l, group |-> g, epoch |-> c.view[l].epoch, seq |-> seq, word |-> e.word,
     from |-> <<e.gen, e.leg>>]

(* A row whose sequence is taken is refused, and that ends the group.        *)
HearWord(g, l, c, e) ==
    LET taken == l = Source /\ \E r \in Rows : r.seq = c.next
        row == IF l = Source THEN c.next ELSE 0
    IN  /\ said' = IF taken THEN said ELSE said \cup {Word(g, l, c, e, row)}
        /\ col' = [col EXCEPT ![g] =
                     IF taken THEN [@ EXCEPT !.at = "settling"]
                     ELSE IF l = Source THEN [c EXCEPT !.next = @ + 1, !.final = e.word] ELSE c]
        /\ cancelled' = cancelled \cup (IF taken THEN {g} ELSE {})
        /\ Blame(IF taken THEN {"collided"} ELSE {})
        /\ UNCHANGED <<health, gaps>>

Tombstone(v) == [v EXCEPT !.connected = FALSE, !.failed = TRUE]

(* Error: without the source lane there is no transcript to go on with.      *)
HearError(g, l, c) ==
    /\ col' = [col EXCEPT ![g] = See(c, l, Tombstone(c.view[l]))]
    /\ Report("down", TRUE)
    /\ cancelled' = IF l = Source THEN cancelled \cup {g} ELSE cancelled
    /\ UNCHANGED <<record, mishap>>

Hear(g, l) ==
    /\ col[g].at = "run" /\ inbox[g][l] # <<>>
    /\ inbox' = [inbox EXCEPT ![g][l] = Tail(@)]
    /\ LET e == Head(inbox[g][l])
           c == Revived(col[g], l, e.gen)
       IN  \/ Late(c, l, e.gen) /\ col' = [col EXCEPT ![g] = c] /\ Quiet
           \/ /\ ~Late(c, l, e.gen)
              /\ \/ e.kind = "connected" /\ HearConnected(g, l, c)
                 \/ e.kind \in {"back", "back late"} /\ HearBack(g, l, c, e)
                 \/ e.kind \in {"lost", "planned"} /\ HearLost(g, l, c, e)
                 \/ e.kind = "word" /\ HearWord(g, l, c, e)
                 \/ e.kind = "error" /\ HearError(g, l, c)
    /\ UNCHANGED <<capture, pushed, opened, owner, stream, cuts, call, troubles>>

(* InputDiscontinuity has a channel of its own, and meets the events of its  *)
(* lane anywhere.                                                            *)
HearCut(g, l) ==
    /\ col[g].at = "run"
    /\ \E cut \in cuts[g] :
         /\ cut.lane = l /\ \A other \in cuts[g] : other.lane = l => cut.gen <= other.gen
         /\ cuts' = [cuts EXCEPT ![g] = @ \ {cut}]
         /\ LET c == Revived(col[g], l, cut.gen)
            IN  IF Late(c, l, cut.gen) THEN col' = [col EXCEPT ![g] = c] /\ UNCHANGED health
                ELSE /\ col' = [col EXCEPT ![g] = See(c, l, Tombstone(c.view[l]))]
                     /\ Report("down", TRUE)
    /\ UNCHANGED <<capture, pushed, record, opened, owner, cancelled, stream, inbox,
                   call, faults>>

Forget(g) ==
    /\ inbox' = [inbox EXCEPT ![g] = Silent]
    /\ cuts' = [cuts EXCEPT ![g] = {}]

(* A write fails: the collector returns, and its group is cancelled.         *)
Break(g) ==
    /\ col[g].at = "run" /\ \E l \in Lanes : inbox[g][l] # <<>>
    /\ Trouble("fault")
    /\ col' = [col EXCEPT ![g].at = "settling"]
    /\ cancelled' = cancelled \cup {g}
    /\ UNCHANGED <<capture, pushed, health, record, opened, owner, stream, queues, call, mishap>>

(* settle_after_failed_group                                                 *)
Settle(g) ==
    /\ col[g].at = "settling"
    /\ col' = [col EXCEPT ![g].at = "failed"]
    /\ Report("down", TRUE)
    /\ Forget(g)
    /\ UNCHANGED <<capture, pushed, record, opened, owner, cancelled, stream, call, faults>>

(* The senders are gone: the owner gave its own up and every lane has ended. *)
Closed(g) ==
    /\ remote # g
    /\ g \in cancelled \/ \A l \in Lanes : ~Runs(l)

Drain(g) ==
    /\ col[g].at = "run" /\ Closed(g)
    /\ inbox[g] = Silent /\ cuts[g] = {}
    /\ col' = [col EXCEPT ![g].at = "done"]
    /\ UNCHANGED <<capture, pushed, health, record, opened, owner, cancelled, stream,
                   queues, call, faults>>

-----------------------------------------------------------------------------
(* The owner: audio and controls are fanned out under the capture lock.    *)

Free == call = NoCall

(* A closed channel, or a full one.                                          *)
Refuses(l, wedged) ==
    ~stream[l].stopped /\ (stream[l].phase \in {"ended", "died"} \/ l \in wedged)

Wedged(lanes) ==
    \/ lanes = {} /\ UNCHANGED troubles
    \/ Cardinality(lanes) = 1 /\ Trouble("wedge")

(* isolate_auxiliary_discontinuity                                           *)
Stopped(lanes) ==
    [l \in Lanes |-> IF l \in lanes THEN [stream[l] EXCEPT !.stopped = TRUE] ELSE stream[l]]

Cut(lanes) ==
    cuts' = [cuts EXCEPT ![remote] = @ \cup {[lane |-> l, gen |-> stream[l].gen] : l \in lanes}]

(* replace_auxiliary_lane: a connection from the live edge on.               *)
Replaced(streams, lanes, next) ==
    [l \in Lanes |-> IF l \in lanes THEN Stream(next, streams[l].gen + 1, streams[l].restarts + 1)
                     ELSE streams[l]]

Forgiven(streams) == [l \in Lanes |-> [streams[l] EXCEPT !.restarts = 0]]

(* Which lanes are due: the first time at once, later after a cooldown.      *)
Due(streams) == {l \in Aux : streams[l].stopped /\ streams[l].restarts < MaxRestarts}

Reopens(streams, lanes) ==
    lanes \subseteq Due(streams) /\ {l \in Due(streams) : streams[l].restarts = 0} \subseteq lanes

(* begin_failed_remote_capture_cleanup                                       *)
CleanUp ==
    /\ cancelled' = cancelled \cup {remote}
    /\ cleanup' = remote /\ remote' = None

(* push_notebook_capture_session with a group: try_fanout_pcm. A recorded    *)
(* cause is written again together with the health it came with.             *)
FanOut(wedged) ==
    LET refusing == {l \in Aux : Refuses(l, wedged)}
    IN  \/ /\ remote \in cancelled \/ Refuses(Source, wedged)
           /\ IF remote \in cancelled THEN wedged = {} /\ UNCHANGED <<stream, cuts>>
              ELSE stream' = Stopped(refusing) /\ Cut(refusing)
           /\ CleanUp
           /\ IF health.cause THEN UNCHANGED health ELSE Report("down", TRUE)
           /\ Blame(IF wedged = {} THEN {} ELSE {"wedged"})
        \/ /\ remote \notin cancelled /\ ~Refuses(Source, wedged)
           /\ Cut(refusing)
           /\ \E lanes \in SUBSET Aux :
                /\ Reopens(Stopped(refusing), lanes)
                /\ stream' = Replaced(Stopped(refusing), lanes, pushed + 2)
           /\ UNCHANGED <<owner, cancelled, health, mishap>>

Push ==
    /\ capture = "recording" /\ Free /\ pushed < MaxBlocks
    /\ pushed' = pushed + 1
    /\ \/ /\ remote = None
          /\ UNCHANGED <<stream, cuts, owner, cancelled, health, faults>>
       \/ /\ remote # None
          /\ \E wedged \in SUBSET Lanes : Wedged(wedged) /\ FanOut(wedged)
    /\ UNCHANGED <<capture, record, opened, inbox, col, call>>

(* try_fanout_control: as for audio, but nothing is reopened. A group that   *)
(* cannot take the control is shut down, and the command waits for it.       *)
Control(op, wedged) ==
    LET refusing == {l \in Aux : Refuses(l, wedged)}
    IN  \/ /\ remote \in cancelled \/ Refuses(Source, wedged)
           /\ IF remote \in cancelled THEN wedged = {} /\ UNCHANGED <<stream, cuts>>
              ELSE stream' = Stopped(refusing) /\ Cut(refusing)
           /\ cancelled' = cancelled \cup {remote}
           /\ remote' = None /\ UNCHANGED cleanup
           /\ call' = [NoCall EXCEPT !.op = op, !.at = "close", !.group = remote]
        \/ /\ remote \notin cancelled /\ ~Refuses(Source, wedged)
           /\ stream' = Stopped(refusing) /\ Cut(refusing)
           /\ UNCHANGED <<owner, cancelled>>
           /\ call' = IF op = "pause" THEN NoCall
                      ELSE [NoCall EXCEPT !.op = op, !.at = "restart"]

(* The missing group is recorded before the state is changed.                *)
Pause(op) ==
    /\ Free
    /\ \/ op = "pause" /\ capture = "recording" /\ capture' = "paused"
       \/ op = "resume" /\ capture = "paused" /\ capture' = "recording" /\ opened < MaxGroups
    /\ \/ /\ remote = None
          /\ IF health.is = "down" THEN UNCHANGED health ELSE Report("down", TRUE)
          /\ call' = IF op = "pause" THEN NoCall
                     ELSE [NoCall EXCEPT !.op = op, !.at = "restart"]
          /\ UNCHANGED <<stream, cuts, owner, cancelled, troubles>>
       \/ /\ remote # None
          /\ \E wedged \in SUBSET Lanes : Wedged(wedged) /\ Control(op, wedged)
          /\ UNCHANGED health
    /\ UNCHANGED <<pushed, record, opened, inbox, col, mishap>>

(* restart_notebook_capture_transcription                                    *)
Restart ==
    /\ Free /\ capture = "recording" /\ opened < MaxGroups
    /\ call' = [NoCall EXCEPT !.op = "restart", !.at = "restart"]
    /\ UNCHANGED <<capture, pushed, health, record, opened, owner, cancelled, stream,
                   queues, col, faults>>

-----------------------------------------------------------------------------
(* What a command does once it has the group.                              *)

KeepsStreams == UNCHANGED <<capture, pushed, said, opened, stream>>

GoTo(at) == call' = [call EXCEPT !.at = at]

(* join_cancelled_remote_group, when a deadline passes.                      *)
Abort(g) ==
    /\ col[g].at = "run"
    /\ Trouble("slow")
    /\ col' = [col EXCEPT ![g].at = "aborted"]
    /\ Forget(g)

(* restart_remote_capture, a group being there: one that still has its       *)
(* writer is left alone but for the lanes that have stopped, and a lane      *)
(* opened in a cancelled group ends at once.                                 *)
Reopen ==
    LET dead == {l \in Aux : Refuses(l, {})}
        lanes == Forgiven(Stopped(dead))
    IN  /\ call.at = "restart" /\ remote # None
        /\ \/ /\ ~Ended(remote)
              /\ IF remote \in cancelled THEN UNCHANGED <<stream, cuts>>
                 ELSE /\ Cut(dead)
                      /\ stream' = Replaced(lanes, {l \in Aux : lanes[l].stopped}, pushed + 1)
              /\ call' = NoCall
              /\ UNCHANGED <<owner, cancelled>>
           \/ /\ Ended(remote)
              /\ CleanUp
              /\ GoTo("join")
              /\ UNCHANGED <<stream, cuts>>
        /\ UNCHANGED <<capture, pushed, health, record, opened, inbox, col, faults>>

(* The dead group's writer must be finished first.                           *)
Replace ==
    /\ call.at = "restart" /\ remote = None
    /\ GoTo(IF cleanup = None THEN "start" ELSE "join")
    /\ KeepsStreams /\ UNCHANGED <<health, gaps, owner, cancelled, queues, col, faults>>

(* The task that cleans up: it waits for the collector, and then no longer.  *)
CleanupAborts ==
    /\ cleanup # None /\ ~Ended(cleanup)
    /\ Abort(cleanup)
    /\ Blame({"abandoned"})
    /\ KeepsStreams /\ UNCHANGED <<health, gaps, owner, cancelled, call>>

(* A mutant: nobody waits for the old writer. *)
Join_AtOnce ==
    /\ call.at = "join"
    /\ cleanup' = None
    /\ GoTo(CASE call.op = "stop" -> "tail" [] call.op = "interrupt" -> "leave" [] OTHER -> "start")
    /\ KeepsStreams
    /\ UNCHANGED <<health, gaps, remote, cancelled, queues, col, faults>>

(* join_pending_remote_capture_cleanup. Past its own deadline the cleanup is *)
(* aborted, and whatever it was waiting for goes on unwatched.               *)
Join ==
    /\ call.at = "join"
    /\ \/ cleanup = None /\ UNCHANGED faults
       \/ cleanup # None /\ Ended(cleanup) /\ UNCHANGED faults
       \/ cleanup # None /\ ~Ended(cleanup) /\ Trouble("slow") /\ Blame({"detached"})
    /\ cleanup' = None
    /\ GoTo(CASE call.op = "stop" -> "tail" [] call.op = "interrupt" -> "leave" [] OTHER -> "start")
    /\ KeepsStreams
    /\ UNCHANGED <<health, gaps, remote, cancelled, queues, col>>

(* Best effort.                                                              *)
RecordGap ==
    \/ gaps' = gaps \cup Untranscribed /\ UNCHANGED faults
    \/ Untranscribed # {} /\ Trouble("fault") /\ Blame({"gap lost"}) /\ UNCHANGED gaps

Start ==
    /\ call.at = "start"
    /\ \/ /\ RecordGap
          /\ OpenGroup
          /\ Report("connecting", FALSE)
          /\ UNCHANGED cleanup
       \/ /\ Trouble("refuse")
          /\ gaps' = gaps \cup Untranscribed
          /\ Report("down", TRUE)
          /\ UNCHANGED <<opened, owner, stream, col, mishap>>
    /\ call' = NoCall
    /\ UNCHANGED <<capture, pushed, said, cancelled, queues>>

(* shutdown_failed_remote_capture and what follows it.                       *)
Close ==
    /\ call.at = "close"
    /\ \/ Ended(call.group) /\ UNCHANGED <<col, queues, troubles>>
       \/ ~Ended(call.group) /\ Abort(call.group)
    /\ IF call.op = "interrupt" THEN UNCHANGED health ELSE Report("down", TRUE)
    /\ CASE call.op = "pause" -> call' = NoCall
         [] call.op = "resume" -> GoTo("restart")
         [] call.op = "interrupt" -> GoTo("join")
    /\ KeepsStreams /\ UNCHANGED <<gaps, owner, cancelled, mishap>>

-----------------------------------------------------------------------------
(* The end of the recording.                                               *)

(* stop_notebook_capture_session: the capture is taken, so no audio follows. *)
(* Finish is sent unless the writer has ended or the source lane is closed.  *)
Stop ==
    LET graceful == remote # None /\ ~Ended(remote) /\ remote \notin cancelled
                    /\ ~Refuses(Source, {})
    IN  /\ Free /\ capture \in {"recording", "paused"}
        /\ capture' = "draining"
        /\ remote' = None
        /\ cancelled' = IF remote = None \/ graceful THEN cancelled ELSE cancelled \cup {remote}
        /\ call' = [op |-> "stop", group |-> remote,
                    at |-> IF remote = None THEN "join" ELSE IF graceful THEN "streams" ELSE "drain",
                    owed |-> cleanup # None \/ (remote # None /\ ~graceful)]
        /\ Blame(IF remote = None /\ cleanup = None THEN {"forgotten"} ELSE {})
        /\ UNCHANGED <<pushed, health, record, opened, cleanup, stream, queues, col, troubles>>

(* A mutant: what the streams still owed is not recorded. *)
StreamsEnd_Owing ==
    /\ call.op = "stop" /\ call.at = "streams"
    /\ \/ /\ call.group \in cancelled \/ \A l \in Lanes : ~Runs(l)
          /\ UNCHANGED <<cancelled, troubles>>
       \/ /\ call.group \notin cancelled /\ \E l \in Lanes : Runs(l)
          /\ Trouble("slow")
          /\ cancelled' = cancelled \cup {call.group}
    /\ GoTo("drain")
    /\ KeepsStreams /\ UNCHANGED <<health, gaps, owner, queues, col, mishap>>

(* finish_remote_capture, the streams: every one has ended, or the budget is *)
(* used up.                                                                  *)
StreamsEnd ==
    /\ call.op = "stop" /\ call.at = "streams"
    /\ \/ /\ call.group \in cancelled \/ \A l \in Lanes : ~Runs(l)
          /\ UNCHANGED <<cancelled, troubles>>
       \/ /\ call.group \notin cancelled /\ \E l \in Lanes : Runs(l)
          /\ Trouble("slow")
          /\ cancelled' = cancelled \cup {call.group}
    /\ call' = [call EXCEPT !.at = "drain", !.owed = @ \/ stream[Source].phase # "ended"]
    /\ KeepsStreams /\ UNCHANGED <<health, gaps, owner, queues, col, mishap>>

(* ... and the collector.                                                    *)
CollectorEnds ==
    /\ call.op = "stop" /\ call.at = "drain"
    /\ \/ Ended(call.group) /\ UNCHANGED <<col, queues, troubles>>
       \/ ~Ended(call.group) /\ Abort(call.group)
    /\ call' = [call EXCEPT !.at = "join", !.owed = @ \/ col'[call.group].at # "done"]
    /\ KeepsStreams /\ UNCHANGED <<health, gaps, owner, cancelled, mishap>>

(* preserve_untranscribed_tail, and the run is completed.                    *)
Complete ==
    /\ call.op = "stop" /\ call.at = "tail"
    /\ IF call.owed THEN RecordGap ELSE UNCHANGED <<gaps, faults>>
    /\ capture' = "completed"
    /\ call' = NoCall
    /\ UNCHANGED <<pushed, health, said, opened, owner, cancelled, stream, queues, col>>

(* interrupt_notebook_capture_session                                        *)
Interrupt ==
    /\ Free /\ capture \in {"recording", "paused"}
    /\ capture' = "draining"
    /\ remote' = None
    /\ cancelled' = IF remote = None THEN cancelled ELSE cancelled \cup {remote}
    /\ call' = [NoCall EXCEPT !.op = "interrupt", !.group = remote,
                              !.at = IF remote = None THEN "join" ELSE "close"]
    /\ UNCHANGED <<pushed, health, record, opened, cleanup, stream, queues, col, faults>>

Leave ==
    /\ call.op = "interrupt" /\ call.at = "leave"
    /\ capture' = "interrupted"
    /\ call' = NoCall
    /\ UNCHANGED <<pushed, health, record, opened, owner, cancelled, stream, queues, col, faults>>

Over == capture \in {"completed", "interrupted"} /\ UNCHANGED vars

-----------------------------------------------------------------------------
Next ==
    \/ \E l \in Lanes : Connect(l) \/ Say(l) \/ Drop(l) \/ Die(l) \/ Finish(l)
    \/ \E g \in Groups : \/ \E l \in Lanes : Hear(g, l) \/ HearCut(g, l)
                         \/ Break(g) \/ Settle(g) \/ Drain(g)
    \/ Push \/ Pause("pause") \/ Pause("resume") \/ Restart
    \/ Reopen \/ Replace \/ CleanupAborts \/ Join \/ Start \/ Close
    \/ Stop \/ StreamsEnd \/ CollectorEnds \/ Complete \/ Interrupt \/ Leave
    \/ Over

Spec == Init /\ [][Next]_vars

-----------------------------------------------------------------------------
(* Everything has its type, and a group waits to be cleaned up only where no *)
(* other is in its place (the debug_assert in push_notebook_capture_session).*)
TypeOK ==
    /\ capture \in {"recording", "paused", "draining", "completed", "interrupted"}
    /\ pushed \in 0..MaxBlocks
    /\ health \in [is : {"connecting", "live", "down"}, cause : BOOLEAN]
    /\ gaps \subseteq 1..pushed
    /\ opened \in 0..MaxGroups
    /\ {remote, cleanup} \subseteq 0..opened
    /\ remote = None \/ cleanup = None
    /\ cancelled \subseteq 1..opened
    /\ troubles \in 0..MaxTroubles

Writing == {g \in Groups : col[g].at \in {"run", "settling"}}

(* Whatever the deaths, restarts and stops: a group writes only when no      *)
(* other does and nobody writes to a recording that has ended, so no row is  *)
(* ever refused because its number is taken ("The dead group's writer must   *)
(* be finished before a new one writes to the same session").                *)
OneWriter ==
    /\ Cardinality(Writing) <= 1
    /\ capture \in {"completed", "interrupted"} => Writing = {}
    /\ "collided" \notin mishap

OneWriterUnlessDetached == TypeOK /\ (OneWriter \/ "detached" \in mishap)

(* Every block of a completed recording is in a row or in a recorded gap: a  *)
(* reader sees where words are missing, and repair knows what to do again.   *)
TailIsRecorded == (capture = "completed" /\ opened # 0) => \A b \in 1..pushed : Covered(b)

AudioIsAccounted ==
    TailIsRecorded \/ mishap \cap {"forgotten", "unanchored", "gap lost", "detached"} # {}

(* What was said in one epoch was said on one timeline: in a lane by one     *)
(* connection, in two lanes by the connections the group opened with, and    *)
(* never by two groups.                                                      *)
OneTimelinePerEpoch ==
    \A s, t \in said :
        (s.epoch = t.epoch /\ (s.group = t.group \/ Source \notin {s.lane, t.lane})) =>
            \/ "detached" \in mishap
            \/ /\ s.group = t.group
               /\ IF s.lane = t.lane THEN s.from = t.from
                  ELSE s.from = <<0, 0>> /\ t.from = <<0, 0>>

(* Nothing is on its way to the collector of the group that is there.        *)
Heard ==
    /\ remote # None /\ remote \notin cancelled
    /\ col[remote].at = "run" /\ inbox[remote] = Silent /\ cuts[remote] = {}

(* Once it has heard everything the collector listens to the connections     *)
(* there are: a stopped lane is a tombstone, one that is up is shown as up.  *)
ViewFollowsLane ==
    Heard => \A l \in Lanes :
        LET v == col[remote].view[l]
        IN  /\ (stream[l].phase = "up" /\ ~stream[l].stopped) =>
                   (v.connected /\ ~v.failed /\ v.gen = stream[l].gen)
            /\ (stream[l].stopped \/ stream[l].phase = "died") => v.failed
            /\ stream[l].phase = "dial" => (~v.connected \/ v.awaiting)

(* The recording says it is being transcribed exactly when all its lanes are *)
(* up, and that it is not when no group is left.                             *)
HealthFollowsLanes ==
    Heard => (health.is = "live" <=>
                 \A l \in Lanes : ~stream[l].stopped /\ col[remote].view[l].connected)

GoneIsDown ==
    (Free /\ capture \in {"recording", "paused"} /\ remote = None /\ Writing = {}) =>
        health.is = "down"

HealthIsHonest ==
    (Free /\ capture \in {"recording", "paused"} /\ "detached" \notin mishap) =>
        /\ HealthFollowsLanes
        /\ GoneIsDown \/ mishap \cap {"wedged", "abandoned"} # {}
=============================================================================
