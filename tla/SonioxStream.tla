---------------------------- MODULE SonioxStream ----------------------------
(* One realtime transcription lane over one recording: the stream task that  *)
(* sends captured audio to the provider, survives lost connections, dials    *)
(* that fail, session caps, pauses and a stop (vt-stt, soniox_stream.rs), and *)
(* the capture loop that writes its words and records what it missed (vt-ffi, *)
(* notebook_capture_api.rs).  Audio is blocks numbered from 1 in capture      *)
(* order; one block is one unit of time, and one word ends at each block, so  *)
(* "the word of block f" is in place when it is written at f.  The provider   *)
(* is external: it hears blocks in the order sent, and numbers them from 1    *)
(* on every connection.                                                       *)
EXTENDS Integers, Sequences, FiniteSets, SequencesExt

CONSTANTS
    MaxAudio,       \* blocks the recording captures
    Window,         \* CONTINUITY_WINDOW, and the backlog that cuts a lane
    Fast,           \* FAST_RECONNECT_WINDOW
    Overlap,        \* REPLAY_OVERLAP
    MaxFaults,      \* bound on connections lost, dials and writes that fail,
                    \* and session caps that come near, together
    MaxPauses       \* bound on pauses

ASSUME StreamAssumption ==
    /\ {MaxAudio, Fast, Overlap, MaxFaults, MaxPauses} \subseteq Nat
    /\ Window \in Nat \ {0}
    /\ Fast <= Window

Blocks   == 1..MaxAudio
Never    == -1                 \* an Option that is None
Horizon  == Window + Overlap   \* how much unacknowledged audio is kept

VARIABLES
    mic,      \* the recording: "on", "paused" or "stopped"
    pushed,   \* blocks captured so far; the audio channel holds taken+1..pushed
    taken,    \* blocks the lane has taken out of the audio channel
    ctl,      \* the control channel
    phase,    \* where the task is: see Phases
    paused,   \* the lane's `paused`
    dial,     \* what the task carries between connections
    conn,     \* what one connection's session keeps
    rec,      \* StreamRecoveryState
    wire,     \* the provider's side of the connection
    lane,     \* the capture loop's view of the lane
    written,  \* block -> where its word was written, 0 while it was not
    ghost,    \* history the properties refer to; the code has none of it
    faults,   \* bounded events so far
    pauses    \* pauses so far

vars == <<mic, pushed, taken, ctl, phase, paused, dial, conn, rec, wire, lane,
          written, ghost, faults, pauses>>

Phases == {"dialing", "waiting", "live", "handing", "stopping", "finished", "failed"}
Open   == {"live", "handing", "stopping"}    \* a connection is configured
Down   == {"dialing", "waiting"}
Over   == {"finished", "failed"}

---------------------------------------------------------------------------
(* The recovery state: next_audio_ms, acknowledged_ms, connection_origin_ms  *)
(* and the blocks kept for a replay, each with where the lane's own timeline  *)
(* puts its end.                                                              *)

StartingAt == [next |-> 0, acked |-> 0, origin |-> 0, kept |-> <<>>]

Backlog(r) == r.next - r.acked

Before(a, n) == IF a > n THEN a - n ELSE 0     \* saturating_sub

KeptAfter(kept, from) == SelectSeq(kept, LAMBDA k : k.end > from)

RecordSent(r, f) ==
    LET kept == Append(r.kept, [end |-> r.next + 1, block |-> f])
    IN  [r EXCEPT !.next = @ + 1,
                  !.kept = KeptAfter(kept, r.next + 1 - Horizon)]

RecordAll(r, from, to) ==
    FoldLeft(RecordSent, r, [i \in 1..(to - from) |-> from + i])

Acknowledge(r, position) ==
    LET heard == r.origin + position
        acked == IF heard < r.next THEN heard ELSE r.next
        now   == IF acked > r.acked THEN acked ELSE r.acked
    IN  [r EXCEPT !.acked = now, !.kept = KeptAfter(@, Before(now, Overlap))]

\* Mutant: discarded audio leaves the clock where it was.
NoteDiscarded_Nothing(r, n) == r

NoteDiscarded(r, n) == [r EXCEPT !.next = @ + n]

ReAnchor(r) == [r EXCEPT !.acked = r.next, !.origin = r.next, !.kept = <<>>]

ReplayFrom(r) == Before(r.acked, Overlap)

\* Mutant: the replay is heard on the old connection's clock.
PrepareReplay_OldClock(r) == r

PrepareReplay(r) == [r EXCEPT !.origin = ReplayFrom(r)]

Replay(r) == [i \in 1..Len(KeptAfter(r.kept, ReplayFrom(r))) |->
                 KeptAfter(r.kept, ReplayFrom(r))[i].block]

\* The blocks kept are all of the lane's timeline from where the replay
\* starts: what prepare_replay takes for granted.
Aligned(r) == Len(Replay(r)) = r.next - ReplayFrom(r)

---------------------------------------------------------------------------
NoSession == [outage |-> Never, until |-> 0, carried |-> FALSE,
              catching |-> FALSE, owed |-> <<>>]

Silent == [heard |-> <<>>, total |-> 0]

Init ==
    /\ mic = "on" /\ pushed = 0 /\ taken = 0 /\ ctl = <<>>
    /\ phase = "dialing" /\ paused = FALSE
    /\ dial = [down |-> Never, skip |-> FALSE, handed |-> FALSE,
               shed |-> FALSE, finishing |-> FALSE]
    /\ conn = NoSession
    /\ rec = StartingAt
    /\ wire = Silent
    /\ lane = [progress |-> Never, gapFrom |-> Never, gaps |-> {}]
    /\ written = [f \in Blocks |-> 0]
    /\ ghost = [swallowed |-> {}, skewed |-> FALSE, unanchored |-> 0,
                twice |-> FALSE, cut |-> FALSE]
    /\ faults = 0 /\ pauses = 0

---------------------------------------------------------------------------
(* The recording.  Pause closes the microphone before it tells the lane, and *)
(* stop closes it before Finish, so nothing is captured in either.            *)

\* Time passes for a lane that is down.
Older(d) == IF d.down \in 0..Window THEN [d EXCEPT !.down = @ + 1] ELSE d

Push ==
    /\ mic = "on" /\ pushed < MaxAudio /\ phase \notin Over
    /\ pushed' = pushed + 1
    /\ dial' = IF phase \in Down THEN Older(dial) ELSE dial
    /\ UNCHANGED <<mic, taken, ctl, phase, paused, conn, rec, wire, lane, written,
                   ghost, faults, pauses>>

\* With the microphone closed time passes and no audio is captured.
QuietTime ==
    /\ mic # "on" /\ phase \in Down /\ dial.down \in 0..Window
    /\ dial' = Older(dial)
    /\ UNCHANGED <<mic, pushed, taken, ctl, phase, paused, conn, rec, wire, lane,
                   written, ghost, faults, pauses>>

Tell(from, to, control) ==
    /\ mic \in from /\ mic' = to /\ ctl' = Append(ctl, control)
    /\ UNCHANGED <<pushed, taken, phase, paused, dial, conn, rec, wire, lane,
                   written, ghost>>

PauseMic ==
    /\ pauses < MaxPauses /\ phase \notin Over
    /\ Tell({"on"}, "paused", "pause")
    /\ pauses' = pauses + 1 /\ UNCHANGED faults

ResumeMic == phase \notin Over /\ Tell({"paused"}, "on", "resume") /\ UNCHANGED <<faults, pauses>>

StopMic == phase \notin Over /\ Tell({"on", "paused"}, "stopped", "finish")
    /\ UNCHANGED <<faults, pauses>>

---------------------------------------------------------------------------
(* What the capture loop makes of the lane's events.                         *)

\* Mutant: the stretch starts where the socket died.
Reconnecting_AtDisconnect(l) == [l EXCEPT !.gapFrom = IF @ = Never THEN pushed ELSE @]

\* Reconnecting: the stretch nobody transcribed starts where the last final
\* progress stood, or now when the lane never reported any.
Reconnecting(l) ==
    [l EXCEPT !.gapFrom = IF @ # Never THEN @
                          ELSE IF l.progress = Never THEN pushed
                          ELSE IF l.progress < pushed THEN l.progress ELSE pushed]

\* Blocks before a stretch that was not anchored to any progress.
Unanchored(l) == IF l.gapFrom = Never /\ l.progress = Never THEN pushed
                 ELSE ghost.unanchored

\* RecoveryStarted, and the AudioProgress that follows it: an outage past the
\* window leaves a durable gap up to the audio captured by now.
Recovered(l, r, outage) ==
    [progress |-> r.acked, gapFrom |-> Never,
     gaps |-> IF outage > Window THEN l.gaps \union ((l.gapFrom + 1)..pushed) ELSE l.gaps]

---------------------------------------------------------------------------
(* Losing a connection, on purpose or not, and dialing again.                *)

\* run_stream's error arm after a connection that was configured.
Disconnect(skip, handed) ==
    /\ phase' = "waiting"
    /\ dial' = [dial EXCEPT !.down = 0, !.skip = skip, !.handed = handed, !.shed = skip]
    /\ lane' = Reconnecting(lane)
    /\ conn' = NoSession
    /\ wire' = Silent

Waiting == phase = "waiting"

\* Mutant: a stop heard while waiting only hurries the next dial.
ReadWhileWaiting_ForgetsStop ==
    /\ Waiting /\ ctl # <<>>
    /\ ctl' = Tail(ctl)
    /\ IF Head(ctl) = "finish"
       THEN phase' = "dialing" /\ conn' = [conn EXCEPT !.outage = dial.down] /\ UNCHANGED paused
       ELSE paused' = (Head(ctl) = "pause") /\ UNCHANGED <<phase, conn>>
    /\ UNCHANGED <<mic, pushed, taken, dial, rec, wire, lane, written, ghost, faults, pauses>>

ReadWhileWaiting ==
    /\ Waiting /\ ~dial.finishing /\ ctl # <<>>
    /\ ctl' = Tail(ctl)
    /\ \/ /\ Head(ctl) = "finish"
          /\ phase' = "dialing"
          /\ dial' = [dial EXCEPT !.finishing = TRUE]
          /\ conn' = [conn EXCEPT !.outage = dial.down]
          /\ UNCHANGED paused
       \/ /\ Head(ctl) # "finish"
          /\ paused' = (Head(ctl) = "pause")
          /\ UNCHANGED <<phase, dial, conn>>
    /\ UNCHANGED <<mic, pushed, taken, rec, wire, lane, written, ghost, faults, pauses>>

Shed ==
    /\ Waiting /\ dial.shed /\ taken < pushed
    /\ dial.finishing \/ ctl = <<>>
    /\ taken' = taken + 1
    /\ rec' = NoteDiscarded(rec, 1)
    /\ UNCHANGED <<mic, pushed, ctl, phase, paused, dial, conn, wire, lane, written,
                   ghost, faults, pauses>>

\* The delay is over; what is ready to read is read first.
Redial ==
    /\ Waiting
    /\ dial.finishing \/ ctl = <<>>
    /\ ~dial.shed \/ taken = pushed
    /\ phase' = "dialing"
    /\ conn' = [conn EXCEPT !.outage = dial.down]
    /\ UNCHANGED <<mic, pushed, taken, ctl, paused, dial, rec, wire, lane, written,
                   ghost, faults, pauses>>

\* No connection: what the last failure said about the next one is gone.
DialFails ==
    /\ phase = "dialing" /\ faults < MaxFaults
    /\ faults' = faults + 1
    /\ phase' = "waiting"
    /\ LET down == IF dial.down = Never THEN 0 ELSE dial.down
       IN  dial' = [dial EXCEPT !.down = down, !.skip = FALSE, !.handed = FALSE,
                                !.shed = down > Window]
    /\ lane' = Reconnecting(lane)
    /\ ghost' = [ghost EXCEPT !.unanchored = Unanchored(lane)]
    /\ conn' = NoSession
    /\ UNCHANGED <<mic, pushed, taken, ctl, paused, rec, wire, written, pauses>>

---------------------------------------------------------------------------
(* A session: how it begins, and what it does until the connection ends.     *)

\* drain_queued_audio: the replay still owed, then everything queued.
Drained(s) ==
    [s EXCEPT !.conn.carried = @ \/ s.conn.owed # <<>> \/ s.taken < pushed,
              !.conn.catching = FALSE, !.conn.owed = <<>>,
              !.wire.heard = @ \o s.conn.owed \o [i \in 1..(pushed - s.taken) |-> s.taken + i],
              !.rec = RecordAll(s.rec, s.taken, pushed),
              !.taken = pushed]

Session == [conn |-> conn, wire |-> wire, rec |-> rec, taken |-> taken, skewed |-> FALSE]

\* The outage a recovery reports and acts on.
Outage ==
    LET floor == {conn.outage, Backlog(rec), Window + 1}
    IN  IF dial.skip THEN CHOOSE o \in floor : \A p \in floor : p <= o ELSE conn.outage

CleanHandover == dial.handed /\ conn.outage <= Window

\* A stream's first connection.
Begun(s) == [s EXCEPT !.rec.origin = s.rec.next]

\* The connection before confirmed everything: this one starts where it stopped.
HandedOver(s) == [s EXCEPT !.rec = ReAnchor(s.rec)]

\* Too long to continue: what is queued is counted and dropped.
Skipped(s) ==
    [s EXCEPT !.rec = ReAnchor(NoteDiscarded(s.rec, pushed - s.taken)), !.taken = pushed]

\* Short enough to continue: what was not acknowledged is heard again, all at
\* once or, past the fast window, at a measured pace by CatchUp.
Replayed(s, outage) ==
    LET r    == PrepareReplay(s.rec)
        slow == outage > Fast
    IN  [s EXCEPT !.rec = r,
                  !.conn.until = r.acked - r.origin,
                  !.conn.catching = slow,
                  !.conn.owed = IF slow THEN Replay(s.rec) ELSE <<>>,
                  !.conn.carried = ~slow /\ Replay(s.rec) # <<>>,
                  !.wire.heard = IF slow THEN <<>> ELSE Replay(s.rec),
                  !.skewed = ~Aligned(s.rec)]

Recovery ==
    CASE conn.outage = Never -> Begun(Session)
      [] conn.outage # Never /\ CleanHandover -> HandedOver(Session)
      [] conn.outage # Never /\ ~CleanHandover /\ Outage > Window -> Skipped(Session)
      [] OTHER -> Replayed(Session, Outage)

\* A pause or a stop heard while there was no connection is served at once.
Opened == IF paused \/ dial.finishing THEN Drained(Recovery) ELSE Recovery

Become(s) ==
    /\ conn' = s.conn /\ wire' = s.wire /\ rec' = s.rec /\ taken' = s.taken
    /\ ghost' = [ghost EXCEPT !.skewed = @ \/ s.skewed]

DialSucceeds ==
    /\ phase = "dialing"
    /\ Become(Opened)
    /\ phase' = IF ~dial.finishing THEN "live"
                ELSE IF Opened.conn.carried THEN "stopping" ELSE "finished"
    /\ dial' = [dial EXCEPT !.skip = FALSE, !.handed = FALSE]
    /\ lane' = IF conn.outage = Never THEN lane
               ELSE IF CleanHandover THEN Recovered(lane, ReAnchor(rec), conn.outage)
               ELSE Recovered(lane, rec, Outage)
    /\ UNCHANGED <<mic, pushed, ctl, paused, written, faults, pauses>>

\* A control, in the order sent.  Every control but Resume sends what is
\* queued first; Finish on a connection that carried no audio ends at once.
ReadControl ==
    /\ phase = "live" /\ ctl # <<>>
    /\ ctl' = Tail(ctl)
    /\ \/ /\ Head(ctl) = "pause"
          /\ Become(Drained(Session)) /\ paused' = TRUE /\ UNCHANGED phase
       \/ /\ Head(ctl) = "resume"
          /\ paused' = FALSE /\ UNCHANGED <<conn, wire, rec, taken, ghost, phase>>
       \/ /\ Head(ctl) = "finish"
          /\ Become(Drained(Session))
          /\ phase' = IF Drained(Session).conn.carried THEN "stopping" ELSE "finished"
          /\ UNCHANGED paused
    /\ UNCHANGED <<mic, pushed, dial, lane, written, faults, pauses>>

\* One live block.  A provider further behind than a reconnect could replay is
\* cut off, to rejoin at the live edge.
SendLive ==
    /\ phase = "live" /\ ctl = <<>> /\ ~paused /\ ~conn.catching /\ taken < pushed
    /\ taken' = taken + 1
    /\ rec' = RecordSent(rec, taken + 1)
    /\ \/ /\ Backlog(rec') <= Window
          /\ conn' = [conn EXCEPT !.carried = TRUE]
          /\ wire' = [wire EXCEPT !.heard = Append(@, taken + 1)]
          /\ UNCHANGED <<phase, dial, lane, ghost>>
       \/ /\ Backlog(rec') > Window
          /\ Disconnect(TRUE, FALSE)
          /\ ghost' = [ghost EXCEPT !.unanchored = Unanchored(lane)]
    /\ UNCHANGED <<mic, pushed, ctl, paused, written, faults, pauses>>

\* A quiet block while a cap is near is where the lane hands over.
SendQuiet ==
    /\ phase = "live" /\ ctl = <<>> /\ ~paused /\ ~conn.catching /\ taken < pushed
    /\ faults < MaxFaults
    /\ faults' = faults + 1
    /\ taken' = taken + 1
    /\ rec' = RecordSent(rec, taken + 1)
    /\ conn' = [conn EXCEPT !.carried = TRUE]
    /\ wire' = [wire EXCEPT !.heard = Append(@, taken + 1)]
    /\ phase' = "handing"
    /\ UNCHANGED <<mic, pushed, ctl, paused, dial, lane, written, ghost, pauses>>

\* One block of a measured catch-up: the replay first, then the queue.
CatchUp ==
    /\ phase = "live" /\ conn.catching
    /\ \/ /\ conn.owed # <<>>
          /\ wire' = [wire EXCEPT !.heard = Append(@, Head(conn.owed))]
          /\ conn' = [conn EXCEPT !.owed = Tail(@), !.carried = TRUE]
          /\ UNCHANGED <<rec, taken>>
       \/ /\ conn.owed = <<>> /\ taken < pushed
          /\ taken' = taken + 1
          /\ rec' = RecordSent(rec, taken + 1)
          /\ wire' = [wire EXCEPT !.heard = Append(@, taken + 1)]
          /\ conn' = [conn EXCEPT !.carried = TRUE]
       \/ /\ conn.owed = <<>> /\ taken = pushed
          /\ conn' = [conn EXCEPT !.catching = FALSE]
          /\ UNCHANGED <<rec, taken, wire>>
    /\ UNCHANGED <<mic, pushed, ctl, phase, paused, dial, lane, written, ghost, faults, pauses>>

\* Mutant: the replay filter stops a block short.
News_OneShort(n) == {i \in (wire.total + 1)..n : i >= conn.until}

\* The provider's words up to position n of this connection.  Words the
\* connection before already delivered are not delivered again.
News(n) == {i \in (wire.total + 1)..n : i > conn.until}

Respond(n) ==
    /\ phase \in Open /\ n \in (wire.total + 1)..Len(wire.heard)
    /\ wire' = [wire EXCEPT !.total = n]
    /\ rec' = Acknowledge(rec, n)
    /\ lane' = [lane EXCEPT !.progress = rec'.acked]
    /\ written' = [f \in Blocks |->
           IF \E i \in News(n) : wire.heard[i] = f
           THEN rec.origin + (CHOOSE i \in News(n) : wire.heard[i] = f)
           ELSE written[f]]
    /\ ghost' = [ghost EXCEPT !.twice = @ \/ \E i \in News(n) : written[wire.heard[i]] # 0]
    /\ UNCHANGED <<mic, pushed, taken, ctl, phase, paused, dial, conn, faults, pauses>>

\* The key's cap is near: at an utterance's end or at the deadline the lane
\* asks the provider to finish.
HandOver ==
    /\ phase = "live" /\ faults < MaxFaults
    /\ faults' = faults + 1
    /\ Become(IF conn.catching THEN Drained(Session) ELSE Session)
    /\ phase' = "handing"
    /\ UNCHANGED <<mic, pushed, ctl, paused, dial, lane, written, pauses>>

\* `finished`: the provider heard everything and every word is out.
ProviderFinishes ==
    /\ phase \in {"handing", "stopping"}
    /\ wire.heard # <<>> /\ wire.total = Len(wire.heard)
    /\ \/ /\ phase = "handing" /\ Disconnect(FALSE, TRUE)
          /\ ghost' = [ghost EXCEPT !.unanchored = Unanchored(lane)]
       \/ /\ phase = "stopping" /\ phase' = "finished"
          /\ UNCHANGED <<dial, lane, conn, wire, ghost>>
    /\ UNCHANGED <<mic, pushed, taken, ctl, paused, rec, written, faults, pauses>>

\* The provider refuses to finish a connection that carried no audio, and a
\* refusal ends the lane.
ProviderRefuses ==
    /\ phase = "handing" /\ wire.heard = <<>>
    /\ phase' = "failed"
    /\ UNCHANGED <<mic, pushed, taken, ctl, paused, dial, conn, rec, wire, lane,
                   written, ghost, faults, pauses>>

\* The provider did not finish in time: a hand-over rolls over as at a cap, a
\* stop gives up on the tail.
DrainTimesOut ==
    /\ phase \in {"handing", "stopping"}
    /\ \/ /\ phase = "handing" /\ Disconnect(FALSE, FALSE)
          /\ ghost' = [ghost EXCEPT !.unanchored = Unanchored(lane)]
       \/ /\ phase = "stopping" /\ phase' = "failed"
          /\ UNCHANGED <<dial, lane, conn, wire, ghost>>
    /\ UNCHANGED <<mic, pushed, taken, ctl, paused, rec, written, faults, pauses>>

---------------------------------------------------------------------------
(* Faults on an open connection.                                             *)

\* The connection is lost: closed, reset, silent too long, or at its cap.
Drop ==
    /\ phase \in Open /\ faults < MaxFaults
    /\ faults' = faults + 1
    /\ Disconnect(FALSE, FALSE)
    /\ ghost' = [ghost EXCEPT !.unanchored = Unanchored(lane),
                              !.cut = @ \/ phase = "stopping"]
    /\ UNCHANGED <<mic, pushed, taken, ctl, paused, rec, written, pauses>>

\* A write fails after n queued blocks went out.  The block it was for is out
\* of the channel and nowhere else; the control it was sent for, if any, has
\* been read and is not kept.
WriteFails(n) ==
    /\ phase = "live" /\ faults < MaxFaults
    /\ taken + n <= pushed
    /\ \/ ctl # <<>> /\ Head(ctl) # "resume" /\ ctl' = Tail(ctl)
       \/ /\ ctl = <<>> /\ n = 0 /\ taken < pushed /\ ~paused /\ conn.owed = <<>>
          /\ UNCHANGED ctl
    /\ LET swallowed == {taken + n + 1} \intersect 1..pushed
       IN  /\ taken' = taken + n + Cardinality(swallowed)
           /\ ghost' = [ghost EXCEPT !.swallowed = @ \union swallowed,
                                     !.unanchored = Unanchored(lane),
                                     !.cut = @ \/ (ctl # <<>> /\ Head(ctl) = "finish")]
    /\ rec' = RecordAll(rec, taken, taken + n)
    /\ Disconnect(FALSE, FALSE)
    /\ faults' = faults + 1
    /\ UNCHANGED <<mic, pushed, paused, written, pauses>>

---------------------------------------------------------------------------
Next ==
    \/ Push \/ QuietTime \/ PauseMic \/ ResumeMic \/ StopMic
    \/ ReadWhileWaiting \/ Shed \/ Redial \/ DialFails \/ DialSucceeds
    \/ ReadControl \/ SendLive \/ SendQuiet \/ CatchUp \/ HandOver
    \/ \E n \in Blocks : Respond(n)
    \/ ProviderFinishes \/ ProviderRefuses \/ DrainTimesOut
    \/ Drop \/ \E n \in 0..MaxAudio : WriteFails(n)

Spec == Init /\ [][Next]_vars

\* What the lane's task does without being asked, and the provider's answer or
\* its absence once the lane waits for it with a time limit.
TaskStep ==
    \/ ReadWhileWaiting \/ Shed \/ Redial \/ DialSucceeds
    \/ ReadControl \/ SendLive \/ CatchUp
    \/ ProviderFinishes \/ ProviderRefuses \/ DrainTimesOut

\* The task runs, and a dial succeeds once they stop failing.
FairSpec == Spec /\ WF_vars(TaskStep)

---------------------------------------------------------------------------
(* Properties.                                                               *)

\* The types of the lane's state, and the counters' bounds.
TypeOK ==
    /\ mic \in {"on", "paused", "stopped"} /\ phase \in Phases /\ paused \in BOOLEAN
    /\ pushed \in 0..MaxAudio /\ taken \in 0..pushed
    /\ rec.acked <= rec.next /\ rec.origin <= rec.next /\ rec.next <= taken
    /\ Len(rec.kept) <= Horizon
    /\ dial.down \in {Never} \union 0..(Window + 1)
    /\ wire.total <= Len(wire.heard)
    /\ lane.gaps \subseteq Blocks /\ lane.gapFrom \in {Never} \union 0..pushed
    /\ written \in [Blocks -> 0..MaxAudio]
    /\ phase \notin Open => conn.owed = <<>>

\* Every block taken out of the channel has moved the lane's clock, sent, shed
\* or skipped, except one lost in a write that failed: note_discarded's "its
\* duration must advance the timeline, or every token after the drop is
\* projected early".
ClockCountsAudio == TypeOK /\ rec.next + Cardinality(ghost.swallowed) = taken

\* A word stands where it was said, whatever was replayed, skipped or handed
\* over before it, less the blocks swallowed by failed writes before it; as
\* long as every replay started from audio the lane had kept.
WordsInPlaceIfKept ==
    ~ghost.skewed => \A f \in Blocks :
        written[f] # 0 => written[f] = f - Cardinality({g \in ghost.swallowed : g < f})

\* The same with no replay excused: what connection_origin_ms is for.
WordsInPlace ==
    \A f \in Blocks :
        written[f] # 0 => written[f] = f - Cardinality({g \in ghost.swallowed : g < f})

\* A word is written once: "no word ending inside the replay may come back".
NoWordTwice == ~ghost.skewed => ~ghost.twice

\* Replays and hand-overs leave every word where it was said, once.
WordsOnceInPlace == WordsInPlaceIfKept /\ NoWordTwice

\* Audio f is accounted for: its word is written, it can still be sent or
\* heard, or the transcript has, or will have, a gap there.
Accounted(f) ==
    \/ written[f] # 0
    \/ f > taken /\ phase # "finished"
    \/ \E i \in DOMAIN rec.kept : rec.kept[i].block = f /\ rec.kept[i].end > rec.acked
    \/ \E i \in (wire.total + 1)..Len(wire.heard) : wire.heard[i] = f /\ i > conn.until
    \/ f \in lane.gaps
    \/ phase \in Down /\ lane.gapFrom # Never /\ f > lane.gapFrom

\* No captured audio goes missing from the transcript without a gap saying so,
\* excusing what a failed write swallowed, a lane that gave up, and audio from
\* before the lane's first progress report.
NothingLostUnlessUnanchored ==
    ~ghost.skewed /\ phase # "failed" =>
        \A f \in 1..pushed :
            f \in ghost.swallowed \/ f <= ghost.unanchored \/ Accounted(f)

\* The same from the recording's first block: "the untranscribed stretch starts
\* where durable rows stop, not where the socket died".
NothingLost ==
    ~ghost.skewed /\ phase # "failed" =>
        \A f \in 1..pushed : f \in ghost.swallowed \/ Accounted(f)

\* A stop ends the lane, unless the connection that read it was lost before
\* the provider finished, or in the write of the queued audio that the stop
\* sends first: then nothing remembers it.
StopEndsUnlessCut == <>[](mic = "stopped" => phase \in Over \/ ghost.cut)

\* A stop ends the lane.
StopEnds == <>[](mic = "stopped" => phase \in Over)

\* No step of the lane's own ends it in failure: only a stop whose tail was
\* not confirmed may.
FailsOnlyWhenStopping == phase = "failed" => mic = "stopped"

============================================================================
