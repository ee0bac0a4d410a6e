--------------------------- MODULE ProviderGroupInv ---------------------------
(* What the proofs about the provider groups rest on: the types, the         *)
(* inductive invariants, and the steps as far as these can tell them apart.  *)
(*   WriterInv   one collector writes, under numbers of its own;             *)
(*   AudioInv    what was said is covered or on its way to be;               *)
(*   EpochInv    an epoch is a timeline, also for what is on its way;        *)
(*   ViewInv     what the collector sees, and will hear, is what there is;   *)
(*   HealthInv   the health that is shown is the one of the lanes.           *)
(* TLC can check each of them as an INVARIANT of MCProviderGroup.            *)
EXTENDS ProviderGroup

-----------------------------------------------------------------------------
(* The maximum of a set that has one.  A finite set of numbers has, but     *)
(* that is an induction; what the model writes keeps it.                    *)
Topped(S) == \E m \in S : \A x \in S : m >= x

-----------------------------------------------------------------------------
(* Types.                                                                   *)
EventKinds == {"connected", "back", "back late", "word", "lost", "planned", "error"}

Events == {e \in [kind : EventKinds, gen : Nat, leg : Nat, word : 0..pushed] :
               e.kind = "word" => e.word # 0}

StreamOf == [phase : {"dial", "up", "ended", "died"}, next : 1..(pushed + 1), again : BOOLEAN,
             gen : Nat, leg : Nat, stopped : BOOLEAN, restarts : Nat]

CutOf == [lane : Aux, gen : Nat]

ViewOf == [gen : Nat, connected : BOOLEAN, failed : BOOLEAN, awaiting : BOOLEAN, epoch : Nat]

CollectorOf == [at : {"none", "run", "settling", "done", "failed", "aborted"}, next : Nat \ {0},
                epoch : Nat, final : (0..pushed) \cup {Never}, since : (0..pushed) \cup {Never},
                view : [Lanes -> ViewOf]]

CallOf == [op : {"none", "pause", "resume", "restart", "stop", "interrupt"},
           at : {"none", "close", "restart", "join", "start", "streams", "drain", "tail", "leave"},
           group : 0..opened, owed : BOOLEAN]

FactOf == [lane : Lanes, group : Groups, epoch : Nat, seq : Nat, word : 1..pushed,
           from : Nat \X Nat]

Typed ==
    /\ TypeOK
    /\ stream \in [Lanes -> StreamOf]
    /\ inbox \in [Groups -> [Lanes -> Seq(Events)]]
    /\ cuts \in [Groups -> SUBSET CutOf]
    /\ col \in [Groups -> CollectorOf]
    /\ call \in CallOf
    /\ said \subseteq FactOf

(* The numbers that are written have a greatest.                            *)
Numbers ==
    /\ Topped({0} \cup {r.seq : r \in Rows})
    /\ Topped({0} \cup {r.word : r \in Rows})
    /\ Topped({-1} \cup {f.epoch : f \in said \ Rows})

(* Where a command can be, and what it has by then.                         *)
Stage ==
    \/ call = NoCall
    \/ call.op = "pause" /\ call.at = "close"
    \/ call.op = "resume" /\ call.at \in {"close", "restart", "join", "start"}
    \/ call.op = "restart" /\ call.at \in {"restart", "join", "start"}
    \/ call.op = "stop" /\ call.at \in {"streams", "drain", "join", "tail"}
    \/ call.op = "interrupt" /\ call.at \in {"close", "join", "leave"}

Commands ==
    /\ Stage
    /\ call.at \in {"close", "streams", "drain"} => call.group # None
    /\ call.op \in {"resume", "restart"} => opened < MaxGroups
    /\ (capture = "draining") <=> (call.op \in {"stop", "interrupt"})
    /\ call.at \in {"close", "streams", "drain", "join", "start", "tail", "leave"} => remote = None
    /\ call.at \in {"start", "tail", "leave"} => cleanup = None
    /\ capture \in {"completed", "interrupted"} =>
           remote = None /\ cleanup = None /\ call = NoCall
    /\ remote \in {None, opened}
    /\ \A g \in Groups : g > opened => col[g].at = "none"

(* A group that writes belongs to somebody, it is the last one, and its next *)
(* row has a number of its own.                                              *)
Owned ==
    \A g \in Writing :
        \/ g \in {remote, cleanup}
        \/ g = call.group /\ call.at \in {"close", "streams", "drain"}

Numbered == \A g \in Writing : \A r \in Rows : r.seq < col[g].next

Alone == Writing \subseteq {opened}

Sole == Owned /\ Alone /\ Numbered /\ "collided" \notin mishap

WriterInv == Typed /\ Numbers /\ Commands /\ ("detached" \in mishap \/ Sole)

-----------------------------------------------------------------------------
(* What a step of a stream does: the stream becomes r, the events es are     *)
(* sent, and no more than troubles changes besides.                          *)
Moves(l, r, es) ==
    /\ stream' = [stream EXCEPT ![l] = r]
    /\ inbox' = [inbox EXCEPT ![opened][l] = @ \o es]
    /\ UNCHANGED <<capture, pushed, health, said, gaps, opened, remote, cleanup, cancelled,
                   cuts, col, call, mishap>>
    /\ troubles' \in 0..MaxTroubles

StreamActs(l) ==
    LET s == stream[l]
    IN  \/ /\ s.phase = "dial" /\ ~s.again
           /\ Moves(l, [s EXCEPT !.phase = "up"], <<Event(l, "connected", 0)>>)
        \/ /\ s.phase = "dial" /\ s.again
           /\ Moves(l, [s EXCEPT !.phase = "up", !.again = FALSE],
                    <<Event(l, "back", s.next - 1), Event(l, "connected", 0)>>)
        \/ /\ s.phase = "dial" /\ s.again
           /\ Moves(l, [s EXCEPT !.phase = "up", !.again = FALSE, !.next = pushed + 1,
                                 !.leg = @ + 1],
                    <<Event(l, "back late", s.next - 1), Event(l, "connected", 0)>>)
        \/ /\ s.phase = "up" /\ s.next <= pushed
           /\ Moves(l, [s EXCEPT !.next = @ + 1], <<Event(l, "word", s.next)>>)
        \/ \E kind \in {"lost", "planned"} :
              Moves(l, [s EXCEPT !.phase = "dial", !.again = TRUE], <<Event(l, kind, 0)>>)
        \/ Moves(l, [s EXCEPT !.phase = "died"], <<Event(l, "error", 0)>>)
        \/ /\ s.phase = "up" /\ s.next > pushed
           /\ call.op = "stop" /\ call.at = "streams"
           /\ Moves(l, [s EXCEPT !.phase = "ended"], << >>)

StreamStep(l) == Connect(l) \/ Say(l) \/ Drop(l) \/ Die(l) \/ Finish(l)

(* A step that leaves commands, owners and collectors alone, and writes      *)
(* nothing, needs only keep the types.                                       *)
Aside == UNCHANGED <<capture, pushed, opened, remote, cleanup, call, col, said, mishap>>

(* The collector d after the event e of lane l, for the one before it, c.    *)
Kept(c, d) == d.at = c.at /\ d.next = c.next /\ d.epoch = c.epoch

Marks(c, d) == d.final = c.final /\ d.since = c.since

Told == UNCHANGED <<said, gaps, cancelled, mishap>>

HeardConnected(l, c, d) ==
    /\ d.view[l] = [c.view[l] EXCEPT !.connected = TRUE, !.awaiting = FALSE]
    /\ Kept(c, d) /\ Marks(c, d) /\ Told

HeardBack(l, c, d, e) ==
    LET v == c.view[l]
        late == v.awaiting /\ e.kind = "back late"
    IN  /\ d.view[l] = [v EXCEPT !.awaiting = FALSE, !.epoch = IF late THEN c.epoch + 1 ELSE @]
        /\ d.at = c.at /\ d.next = c.next
        /\ d.epoch = IF late THEN c.epoch + 1 ELSE c.epoch
        /\ d.since = IF l = Source THEN Never ELSE c.since
        /\ d.final = IF l = Source THEN e.word ELSE c.final
        /\ gaps' = IF late /\ l = Source /\ c.since # Never
                   THEN gaps \cup ((c.since + 1)..pushed) ELSE gaps
        /\ UNCHANGED <<said, cancelled, mishap>>

HeardLost(l, c, d, e) ==
    LET anchors == l = Source /\ c.since = Never
    IN  /\ d.view[l] = [c.view[l] EXCEPT !.awaiting = TRUE, !.connected = @ /\ e.kind = "planned"]
        /\ Kept(c, d) /\ d.final = c.final
        /\ d.since = IF anchors THEN IF c.final = Never THEN pushed ELSE Min({c.final, pushed})
                     ELSE c.since
        /\ mishap' = mishap \cup
              (IF anchors /\ c.final = Never /\ \E b \in 1..pushed : ~Covered(b)
               THEN {"unanchored"} ELSE {})
        /\ UNCHANGED <<said, gaps, cancelled>>

HeardRefused(g, c, d) ==
    /\ \E r \in Rows : r.seq = c.next
    /\ d = [col[g] EXCEPT !.at = "settling"]
    /\ UNCHANGED <<said, gaps>>
    /\ cancelled' = cancelled \cup {g} /\ mishap' = mishap \cup {"collided"}

HeardRow(g, l, c, d, e) ==
    /\ l = Source /\ ~ \E r \in Rows : r.seq = c.next
    /\ said' = said \cup {Word(g, l, c, e, c.next)}
    /\ d.view = c.view /\ d.at = c.at /\ d.epoch = c.epoch /\ d.since = c.since
    /\ d.next = c.next + 1 /\ d.final = e.word
    /\ UNCHANGED <<gaps, cancelled, mishap>>

HeardFact(g, l, c, d, e) ==
    /\ l # Source
    /\ said' = said \cup {Word(g, l, c, e, 0)}
    /\ d = c
    /\ UNCHANGED <<gaps, cancelled, mishap>>

HeardError(g, l, c, d) ==
    /\ d.view[l] = [c.view[l] EXCEPT !.connected = FALSE, !.failed = TRUE]
    /\ Kept(c, d) /\ Marks(c, d)
    /\ cancelled' = IF l = Source THEN cancelled \cup {g} ELSE cancelled
    /\ UNCHANGED <<said, gaps, mishap>>

HeardIt(g, l, c, d, e) ==
    /\ d \in CollectorOf
    /\ \A k \in Lanes \ {l} : d.view[k] = c.view[k]
    /\ \/ Late(c, l, e.gen) /\ d = c /\ Told
       \/ /\ ~Late(c, l, e.gen)
          /\ \/ e.kind = "connected" /\ HeardConnected(l, c, d)
             \/ e.kind \in {"back", "back late"} /\ HeardBack(l, c, d, e)
             \/ e.kind \in {"lost", "planned"} /\ HeardLost(l, c, d, e)
             \/ e.kind = "word" /\ l = Source /\ HeardRefused(g, c, d)
             \/ e.kind = "word" /\ (HeardRow(g, l, c, d, e) \/ HeardFact(g, l, c, d, e))
             \/ e.kind = "error" /\ HeardError(g, l, c, d)

HeardAct(g, l, e, d) ==
    /\ col[g].at = "run" /\ inbox[g][l] # << >> /\ e = Head(inbox[g][l])
    /\ inbox' = [inbox EXCEPT ![g][l] = Tail(@)]
    /\ col' = [col EXCEPT ![g] = d]
    /\ HeardIt(g, l, Revived(col[g], l, e.gen), d, e)
    /\ UNCHANGED <<capture, pushed, opened, remote, cleanup, stream, cuts, call, troubles>>

-----------------------------------------------------------------------------
(* The health that is reported is well formed.                               *)
HealthOf == [is : {"connecting", "live", "down"}, cause : BOOLEAN]

(* What the writer can have done by hearing an event.                        *)
Gist(g, l, c, d, e) ==
    /\ \/ said' = said /\ d.next = c.next
       \/ /\ ~ \E r \in Rows : r.seq = c.next
          /\ said' = said \cup {Word(g, l, c, e, c.next)} /\ d.next = c.next + 1
          /\ e.kind = "word" /\ l = Source
       \/ /\ said' = said \cup {Word(g, l, c, e, 0)} /\ d.next = c.next
          /\ e.kind = "word" /\ l # Source
    /\ \/ d.at = c.at /\ ("collided" \in mishap' => "collided" \in mishap)
       \/ d.at = "settling" /\ \E r \in Rows : r.seq = c.next
    /\ cancelled' \in {cancelled, cancelled \cup {g}}
    /\ "detached" \in mishap => "detached" \in mishap'
    /\ \/ gaps' = gaps
       \/ c.since # Never /\ gaps' = gaps \cup ((c.since + 1)..pushed)

(* A step of the collector that ends it or not, and writes nothing.          *)
Beside == UNCHANGED <<capture, pushed, opened, remote, cleanup, call, said>>

(* InputDiscontinuity: the collector becomes d.                              *)
CutAct(g, l, cut, d) ==
    LET c == Revived(col[g], l, cut.gen)
    IN  /\ col[g].at = "run" /\ cut \in cuts[g] /\ cut.lane = l
        /\ \A other \in cuts[g] : other.lane = l => cut.gen <= other.gen
        /\ cuts' = [cuts EXCEPT ![g] = @ \ {cut}]
        /\ col' = [col EXCEPT ![g] = d]
        /\ Kept(c, d) /\ Marks(c, d) /\ \A k \in Lanes \ {l} : d.view[k] = c.view[k]
        /\ \/ Late(c, l, cut.gen) /\ d = c /\ health' = health
           \/ /\ ~Late(c, l, cut.gen) /\ Report("down", TRUE)
              /\ d.view[l] = [c.view[l] EXCEPT !.connected = FALSE, !.failed = TRUE]
        /\ UNCHANGED <<capture, pushed, said, gaps, opened, remote, cleanup, cancelled, stream,
                       inbox, call, troubles, mishap>>

-----------------------------------------------------------------------------
(* Streams that are stopped, replaced and forgiven.                          *)
StreamTo(n) == [phase : {"dial", "up", "ended", "died"}, next : 1..(n + 1), again : BOOLEAN,
                gen : Nat, leg : Nat, stopped : BOOLEAN, restarts : Nat]

(* What a command may leave, and what the owners are then.                   *)
Hands ==
    \A g \in Writing' :
        /\ g \in Writing /\ col'[g].next = col[g].next
        /\ (\/ g \in {remote, cleanup}
            \/ g = call.group /\ call.at \in {"close", "streams", "drain"}) =>
              \/ g \in {remote', cleanup'}
              \/ g = call'.group /\ call'.at \in {"close", "streams", "drain"}
              \/ "detached" \in mishap'

(* Audio: what fan-out does to the owners.                                   *)
Fans(wedged) ==
    /\ \/ UNCHANGED <<remote, cleanup, cancelled>>
       \/ remote' = None /\ cleanup' = remote /\ cancelled' = cancelled \cup {remote}
    /\ stream' \in [Lanes -> StreamTo(pushed + 1)]
    /\ cuts' \in [Groups -> SUBSET CutOf]
    /\ health' \in HealthOf
    /\ mishap' \in {mishap, mishap \cup {"wedged"}}

-----------------------------------------------------------------------------
(* That no audio is lost.  A block the source lane has said is covered, or   *)
(* something on its way to the collector will cover it: its word, or a       *)
(* rejoin past the window, which has the stretch recorded as a gap.          *)
Promise(e, b) ==
    \/ e.kind = "word" /\ e.word = b
    \/ e.kind = "back late" /\ e.word < b

Promised(q, n, b) == \E j \in 1..n : Promise(q[j], b)

Backs == {"back", "back late"}
Losses == {"lost", "planned"}
Blocks == {b \in 1..pushed : Covered(b)}

(* The source lane is never replaced, and is over once it has failed.        *)
Single(q, s, v) ==
    /\ s.gen = 0 /\ ~s.stopped /\ v.gen = 0
    /\ \A i \in 1..Len(q) : q[i].gen = 0 /\ q[i].word < s.next
    /\ \A i \in 1..Len(q) : q[i].kind = "error" => i = Len(q) /\ s.phase = "died"
    /\ v.failed => q = << >> /\ s.phase = "died"

(* A recovery is told right after the loss it ends.                          *)
Turns(q, s, v) ==
    /\ s.again => s.phase \in {"dial", "died"}
    /\ \A i \in 1..Len(q) :
           q[i].kind \in Backs => IF i = 1 THEN v.awaiting ELSE q[i - 1].kind \in Losses
    /\ (s.again /\ s.phase = "dial") => IF q = << >> THEN v.awaiting ELSE q[Len(q)].kind \in Losses

(* What has been said is covered or promised, in order.                      *)
Reached(q, s, C, p) ==
    /\ \A b \in 1..p : b < s.next => b \in C \/ Promised(q, Len(q), b)
    /\ \A i \in 1..Len(q) : q[i].kind \in Backs \cup {"word"} =>
           \A b \in 1..p : b <= q[i].word => b \in C \/ Promised(q, i, b)

(* A stretch that waits for its end starts where the rows stop.              *)
Noted(v, final, since, C, p) ==
    /\ v.awaiting => since # Never
    /\ final # Never => \A b \in 1..p : b <= final => b \in C
    /\ since # Never => \A b \in 1..p : b <= since => b \in C

Flows(q, s, v, final, since, C, p) ==
    Single(q, s, v) /\ Turns(q, s, v) /\ Reached(q, s, C, p) /\ Noted(v, final, since, C, p)

-----------------------------------------------------------------------------
Excused == mishap \cap {"forgotten", "unanchored", "gap lost", "detached"} # {}

(* A block that is not covered is one that no row has reached.               *)
Behind == \A b \in 1..pushed : Covered(b) \/ b > Through

(* A stop that owes no tail has seen the source lane end and been heard out. *)
NotOwed ==
    (call.op = "stop" /\ ~call.owed) =>
        /\ call.group = opened /\ opened # None
        /\ call.at \in {"drain", "join", "tail"} => stream[Source].phase = "ended"
        /\ call.at \in {"join", "tail"} => col[opened].at = "done"

Unopened == \A g \in Groups : g > opened => inbox[g][Source] = << >>

Attended == opened # None /\ col[opened].at \in {"run", "done"}

SourceFlows ==
    LET q == inbox[opened][Source]
        s == stream[Source]
        c == col[opened]
    IN  /\ Flows(q, s, c.view[Source], c.final, c.since, Blocks, pushed)
        /\ s.phase = "ended" => s.next > pushed /\ capture \notin {"recording", "paused"}
        /\ c.at = "done" => ~Runs(Source) /\ q = << >>

Audio == Behind /\ NotOwed /\ Unopened /\ TailIsRecorded /\ (Attended => SourceFlows)

AudioInv == WriterInv /\ (~Excused => Audio)

(* What may happen besides the source lane's own events: more is covered,    *)
(* more is pushed while it records, and a collector may end.                 *)
Besides ==
    /\ opened' = opened /\ Rows' = Rows /\ gaps \subseteq gaps' /\ cancelled \subseteq cancelled'
    /\ pushed' = pushed \/ (pushed' = pushed + 1 /\ capture = "recording" /\ capture' = capture)
    /\ capture' \in {"recording", "paused"} => capture \in {"recording", "paused"}
    /\ capture' = "completed" => capture = "completed" \/ TailIsRecorded'
    /\ \A g \in Groups : inbox'[g][Source] \in {inbox[g][Source], << >>}
    /\ \A f \in {"phase", "next", "again", "gen", "stopped"} : stream'[Source][f] = stream[Source][f]
    /\ Attended' =>
          /\ Attended /\ inbox'[opened][Source] = inbox[opened][Source]
          /\ col'[opened].view[Source] = col[opened].view[Source]
          /\ col'[opened].final = col[opened].final /\ col'[opened].since = col[opened].since
          /\ col'[opened].at = "done" =>
                col[opened].at = "done" \/ (inbox[opened][Source] = << >> /\ ~Runs(Source))

-----------------------------------------------------------------------------
(* The owner.  Its fan-out stops and replaces translation lanes only.        *)
SameSource == \A f \in {"phase", "next", "again", "gen", "stopped"} :
                  stream'[Source][f] = stream[Source][f]

-----------------------------------------------------------------------------
(* That an epoch is one timeline.  The events of a lane after the n-th are   *)
(* those of the connection m as far as they are of its generation, until the *)
(* stream rejoins at the live edge.                                          *)
Rejoins(q, n, j, gen) == \E i \in (n + 1)..j : q[i].kind = "back late" /\ q[i].gen = gen

Carries(q, s, n, m) ==
    /\ \A j \in 1..Len(q) : n < j /\ q[j].kind = "word" /\ q[j].gen = m[1] =>
           q[j].leg = m[2] \/ Rejoins(q, n, j, m[1])
    /\ s.gen = m[1] => s.leg = m[2] \/ Rejoins(q, n, Len(q), m[1])

Legs(q, s) == \A i \in 1..Len(q) : q[i].kind = "word" => Carries(q, s, i, <<q[i].gen, q[i].leg>>)

(* A recovery is told right after the loss it ends, of the same generation,  *)
(* and no generation is heard of that is not there.                          *)
Line(q, s, v) ==
    /\ v.gen <= s.gen
    /\ \A i \in 1..Len(q) : q[i].gen <= s.gen
    /\ \A i \in 1..Len(q) : q[i].kind \in Backs =>
           IF i = 1 THEN q[1].gen <= v.gen /\ (q[1].gen = v.gen => v.failed \/ v.awaiting)
           ELSE q[i - 1].kind \in Losses /\ q[i - 1].gen = q[i].gen
    /\ (s.again /\ s.phase = "dial") =>
           IF q = << >> THEN s.gen = v.gen /\ (v.failed \/ v.awaiting)
           ELSE q[Len(q)].kind \in Losses /\ q[Len(q)].gen = s.gen

(* What the lane may still write in its epoch is of the connection m.        *)
Timed(q, s, v, m) == m[1] = v.gen /\ (~v.failed => Carries(q, s, 0, m))

(* The facts S, for the group g with the collector c, the queues Q, the      *)
(* streams st and the cuts K.                                                *)
Epochs(S, g, c, Q, st, K) ==
    /\ \A l \in Lanes : Line(Q[l], st[l], c.view[l]) /\ Legs(Q[l], st[l])
    /\ \A l \in Lanes, cut \in K : cut.lane = l => cut.gen <= st[l].gen
    /\ \A l \in Lanes : c.view[l].epoch <= c.epoch
    /\ \A f \in S : f.group = g => f.epoch <= c.epoch
    /\ \A f \in S, l \in Lanes : (f.group # g /\ f.lane # Source) => f.epoch < c.view[l].epoch
    /\ \A f \in S, l \in Lanes : (f.group = g /\ f.epoch = c.view[l].epoch) =>
           Timed(Q[l], st[l], c.view[l], f.from) /\ (f.lane # l => f.from = <<0, 0>>)
    /\ \A k, l \in Lanes : (k # l /\ c.view[k].epoch = c.view[l].epoch) =>
           Timed(Q[l], st[l], c.view[l], <<0, 0>>)

(* The stream s sends e and is r.                                            *)
Sends(s, r, e) ==
    /\ r.gen = s.gen /\ e.gen = s.gen
    /\ e.kind = "word" => e.leg = s.leg /\ r.leg = s.leg
    /\ r.leg = s.leg \/ e.kind = "back late"

(* What is heard leaves the queue.                                           *)
Edge(e, gen) == e.kind = "back late" /\ e.gen = gen

-----------------------------------------------------------------------------
(* The epochs of a group.  A lane goes on in its epoch, or begins a new one. *)
GoesOn(q, s, v, t, r, w) ==
    w.epoch = v.epoch /\ \A m : Timed(q, s, v, m) => Timed(t, r, w, m)

(* A word that is written at the head of its lane.                           *)
Heads(w, g, l, c, e) ==
    /\ w.group = g /\ w.lane = l /\ w.epoch = c.view[l].epoch /\ w.from = <<e.gen, e.leg>>
    /\ ~c.view[l].failed /\ e.kind = "word" /\ e.gen = c.view[l].gen

Writes(S, g, c, Q, st, K, l, E, w) ==
    /\ S \subseteq FactOf /\ Epochs(S, g, c, Q, st, K)
    /\ l \in Lanes /\ Q[l] \in Seq(E) /\ Q[l] # << >> /\ Heads(w, g, l, c, Head(Q[l]))

Agrees(S, g, c, Q, st, l, w) ==
    /\ \A f \in S : (f.group = g /\ f.epoch = w.epoch) =>
           f.from = w.from /\ (f.lane # l => w.from = <<0, 0>>)
    /\ \A k \in Lanes : (k # l /\ c.view[k].epoch = w.epoch) =>
           w.from = <<0, 0>> /\ Timed(Q[k], st[k], c.view[k], <<0, 0>>)

(* The property of a set of facts.                                           *)
Distinct(S) ==
    \A s, t \in S :
        (s.epoch = t.epoch /\ (s.group = t.group \/ Source \notin {s.lane, t.lane})) =>
            /\ s.group = t.group
            /\ IF s.lane = t.lane THEN s.from = t.from
               ELSE s.from = <<0, 0>> /\ t.from = <<0, 0>>

(* What is written is of the connection the lane still hears.                *)
Adds(w, g, l, c, P, st) ==
    /\ w.group = g /\ w.lane = l /\ w.epoch = c.view[l].epoch
    /\ Timed(P[l], st[l], c.view[l], w.from)
    /\ \A k \in Lanes : (k # l /\ c.view[k].epoch = w.epoch) => w.from = <<0, 0>>

-----------------------------------------------------------------------------
(* A stream that sends.                                                      *)
Along(q, s, v, t, r) == Line(t, r, v) /\ Legs(t, r) /\ GoesOn(q, s, v, t, r, v)

Turn(s, r, e) ==
    /\ Sends(s, r, e)
    /\ e.kind \in Backs => s.again /\ s.phase = "dial"
    /\ r.again /\ r.phase = "dial" => e.kind \in Losses

-----------------------------------------------------------------------------
(* The invariant: the facts and what is on its way, for the group that is    *)
(* there while its collector listens.                                        *)
Attentive == opened # None /\ col[opened].at = "run"

Unused == \A g \in Groups : g > opened => inbox[g] = Silent /\ cuts[g] = {}

Heeded == \A f \in said : f.group <= opened

Timelines == Epochs(said, opened, col[opened], inbox[opened], stream, cuts[opened])

OneLine == Distinct(said) /\ Unused /\ Heeded /\ (Attentive => Timelines)

EpochInv == WriterInv /\ ("detached" \notin mishap => OneLine)

(* Nothing is written and no connection changes.                             *)
Undisturbed ==
    /\ UNCHANGED <<said, opened>>
    /\ Attentive' => Attentive /\ UNCHANGED <<col[opened], inbox[opened], cuts[opened], stream>>
    /\ \A g \in Groups : g > opened => inbox'[g] \in {inbox[g], Silent} /\ cuts'[g] \in {cuts[g], {}}

(* An event of the lane's own generation or of an older one.                 *)
Notes(c, d, l, e) ==
    LET v == c.view[l]
        w == d.view[l]
    IN  /\ w.gen = v.gen /\ e.gen <= v.gen
        /\ c.epoch <= d.epoch /\ \A k \in Lanes \ {l} : d.view[k] = c.view[k]
        /\ e.kind \in Losses /\ e.gen = v.gen => w.failed \/ w.awaiting
        /\ \/ w.epoch = v.epoch /\ (v.failed => w.failed) /\ (w.failed \/ ~Edge(e, v.gen))
           \/ w.epoch = d.epoch /\ c.epoch < d.epoch

(* A lane that is cut off is a tombstone.                                    *)
CutOff(l, c, d) ==
    /\ d.epoch = c.epoch /\ \A k \in Lanes \ {l} : d.view[k] = c.view[k]
    /\ \/ d.view[l] = c.view[l]
       \/ d.view[l] = [c.view[l] EXCEPT !.connected = FALSE, !.failed = TRUE]

-----------------------------------------------------------------------------
(* The owner stops lanes and replaces them.                                  *)
Follows(s, r) ==
    \/ /\ r.gen = s.gen /\ r.leg = s.leg
       /\ r.again /\ r.phase = "dial" => s.again /\ s.phase = "dial"
    \/ r.gen = s.gen + 1 /\ ~r.again

(* An owner that only shuts groups down, stops lanes and replaces them.      *)
Owns ==
    /\ UNCHANGED <<opened, said, inbox, col>>
    /\ \A l \in Lanes : Follows(stream[l], stream'[l])
    /\ cuts' = cuts \/ \E dead \in SUBSET Aux : Cut(dead) /\ remote # None

-----------------------------------------------------------------------------
(* That the collector sees the lanes as they are, once it has heard all.     *)
(* A connection of the generation gen is known to have ended, or will be.    *)
Fails(q, gen) == \E i \in 1..Len(q) : q[i].kind = "error" /\ q[i].gen = gen

Ends(q, v, C, gen) == v.gen > gen \/ (v.gen = gen /\ v.failed) \/ Fails(q, gen) \/ gen \in C

(* The last thing but words that is on its way.                              *)
Wordy(q) == \A i \in 1..Len(q) : q[i].kind = "word"

LastIs(q, kinds, gen) ==
    \E i \in 1..Len(q) : /\ q[i].kind \in kinds /\ q[i].gen = gen
                         /\ \A j \in 1..Len(q) : i < j => q[j].kind = "word"

(* The collector sees v, will hear q and the cuts of the generations C.      *)
Bounded(q, s, v, C) ==
    /\ v.gen <= s.gen /\ (v.failed => ~v.connected)
    /\ \A i \in 1..Len(q) : q[i].gen <= s.gen
    /\ \A n \in C : n <= s.gen

Tells(q, s, v) ==
    /\ s.phase = "up" =>
           LastIs(q, {"connected"}, s.gen) \/ (Wordy(q) /\ v.gen = s.gen /\ v.connected)
    /\ (s.phase = "dial" /\ s.again) =>
           LastIs(q, Losses, s.gen) \/ (Wordy(q) /\ v.gen = s.gen /\ v.awaiting)
    /\ (s.phase = "dial" /\ ~s.again) =>
           /\ \A i \in 1..Len(q) : q[i].gen # s.gen
           /\ v.gen = s.gen => s.gen = 0 /\ ~v.connected

Shows(q, s, v, C) ==
    /\ Bounded(q, s, v, C)
    /\ (s.stopped \/ s.phase = "died") => Ends(q, v, C, s.gen)
    /\ s.gen # 0 => Ends(q, v, C, s.gen - 1)
    /\ (~s.stopped /\ s.phase # "died") => ~Ends(q, v, C, s.gen)
    /\ ~s.stopped => Tells(q, s, v)

(* The stream s that sends e is r.                                           *)
Says(s, r, e) ==
    /\ r.gen = s.gen /\ e.gen = s.gen /\ ~r.stopped
    /\ e.kind = "error" <=> r.phase = "died"
    /\ r.phase = "up" => e.kind = "connected" \/ (e.kind = "word" /\ s.phase = "up")
    /\ r.phase = "dial" => r.again /\ e.kind \in Losses

-----------------------------------------------------------------------------
(* A lane that was seen as v is seen as w once e is heard of it.             *)
Sees(v, w, e) ==
    /\ w.gen = IF v.gen < e.gen THEN e.gen ELSE v.gen
    /\ w.failed => ~w.connected
    /\ e.gen < v.gen => w = v
    /\ e.gen = v.gen => (v.failed => w.failed) /\ (w.failed => v.failed \/ e.kind = "error")
    /\ v.gen < e.gen => (w.failed => e.kind = "error")
    /\ e.gen = w.gen => /\ e.kind = "error" => w.failed
                        /\ e.kind = "connected" => w.failed \/ w.connected
                        /\ e.kind \in Losses => w.failed \/ w.awaiting
    /\ (e.kind = "word" /\ e.gen = v.gen) => w = v

(* The stream s that the owner makes r, telling the generations D instead    *)
(* of C.                                                                     *)
Handled(s, r, C, D) ==
    /\ D \in {C, C \cup {s.gen}}
    /\ \/ /\ r.gen = s.gen /\ r.phase = s.phase /\ r.again = s.again /\ r.stopped = s.stopped
          /\ D = C
       \/ r.gen = s.gen /\ r.stopped /\ (s.stopped \/ s.gen \in D)
       \/ /\ r.gen = s.gen + 1 /\ r.phase = "dial" /\ ~r.again /\ ~r.stopped
          /\ s.stopped \/ s.gen \in D

(* What the event e of a lane makes of it, when it is not late.              *)
Takes(v, w, e) ==
    /\ w.gen = e.gen /\ (w.failed <=> e.kind = "error")
    /\ w.connected <=> e.kind = "connected" \/ (v.connected /\ e.kind \notin {"lost", "error"})
    /\ e.kind \in Losses => w.awaiting
    /\ (e.kind = "word" /\ e.gen = v.gen) => w = v

-----------------------------------------------------------------------------
(* The invariant: the collector of the group that is there sees its lanes.   *)
Cuts(K, l) == {cut.gen : cut \in {x \in K : x.lane = l}}

Tended == remote # None /\ col[remote].at = "run"

Sights == \A l \in Lanes : Shows(inbox[remote][l], stream[l], col[remote].view[l], Cuts(cuts[remote], l))

Watched == Unused /\ (Tended => Sights)

ViewInv == WriterInv /\ Watched

(* A step that nobody who is watched takes.                                  *)
Unseen ==
    /\ opened' = opened
    /\ \A g \in Groups : g > opened => inbox'[g] \in {inbox[g], Silent} /\ cuts'[g] \in {cuts[g], {}}
    /\ Tended' => Tended /\ UNCHANGED <<remote, col[remote], inbox[remote], cuts[remote], stream>>

(* The owner stops lanes and replaces stopped ones.                          *)
CutLane(l, dead) == IF l \in dead THEN Cuts(cuts[remote], l) \cup {stream[l].gen} ELSE Cuts(cuts[remote], l)

Tends(dead) ==
    /\ Cut(dead)
    /\ \/ stream' = Stopped(dead)
       \/ \E lanes, next : /\ \A l \in lanes : Stopped(dead)[l].stopped
                           /\ stream' = Replaced(Stopped(dead), lanes, next)
       \/ \E lanes, next : /\ \A l \in lanes : Forgiven(Stopped(dead))[l].stopped
                           /\ stream' = Replaced(Forgiven(Stopped(dead)), lanes, next)

-----------------------------------------------------------------------------
(* That the health that is shown is the one of the lanes.                    *)
Recording == capture \in {"recording", "paused"}

Down == health.is = "down"

Live == \A l \in Lanes : col[opened].view[l].connected

(* The source lane has one connection, which ends with the recording.        *)
Unreplaced ==
    /\ stream[Source].gen = 0
    /\ Recording => stream[Source].phase # "ended"
    /\ Attentive => /\ col[opened].view[Source].gen = 0
                    /\ \A i \in 1..Len(inbox[opened][Source]) : inbox[opened][Source][i].gen = 0

(* The group that is there ends by a failure only, and nothing else cancels  *)
(* it.                                                                       *)
Present ==
    /\ remote # None => col[opened].at \in {"run", "settling", "failed"}
    /\ (Attentive /\ remote # None /\ remote \in cancelled) => col[opened].view[Source].failed
    /\ call.at = "close" => cleanup = None

Reported ==
    /\ (Attentive /\ col[opened].view[Source].failed) => Down
    /\ (Attentive /\ remote # None) => (health.is = "live" <=> Live)
    /\ (remote # None /\ col[opened].at = "failed") => Down

(* Where no group is left, the last one has failed or will know it.          *)
Gone ==
    (Free /\ Recording /\ remote = None) =>
        /\ Attentive => col[opened].view[Source].failed \/ Fails(inbox[opened][Source], 0)
        /\ (opened = None \/ col[opened].at \notin {"run", "settling"}) => Down

Honest ==
    /\ Unreplaced /\ Present /\ Reported
    /\ mishap \cap {"wedged", "abandoned"} = {} => Gone

HealthInv == ViewInv /\ ("detached" \notin mishap => Honest)

(* A step of the others: the last group stays as it is, or its collector     *)
(* ends where it is not the group that is there.                             *)
Elsewhere ==
    /\ opened' = opened /\ remote' \in {remote, None} /\ (Recording' => Recording)
    /\ stream'[Source].gen = stream[Source].gen /\ stream'[Source].phase = stream[Source].phase
    /\ Attentive' => /\ Attentive /\ col'[opened].view = col[opened].view
                     /\ inbox'[opened][Source] = inbox[opened][Source]
    /\ remote' # None => /\ col'[opened].at = col[opened].at
                         /\ remote \in cancelled' => remote \in cancelled
    /\ health' = health \/ (remote' = None /\ Down')
    /\ call'.at = "close" => cleanup' = None

(* What a stream sends is of its connection, and it finishes only at a stop. *)
SaysSo(l, r, es) ==
    /\ Moves(l, r, es) /\ r.gen = stream[l].gen
    /\ r.phase = "ended" => call.op = "stop" \/ stream[l].phase = "ended"
    /\ es \in Seq(Events) /\ \A i \in 1..Len(es) : es[i].gen = stream[l].gen

-----------------------------------------------------------------------------
(* The health that is reported of d, once e is heard of lane l.              *)
Answers(l, d, e) ==
    /\ e.kind \in {"back", "back late", "planned", "word"} => health' = health
    /\ (e.kind = "connected" /\ ~AllAccounted(d)) => health' = health
    /\ (e.kind = "connected" /\ AllAccounted(d)) =>
           health'.is = IF \E k \in Lanes : d.view[k].failed THEN "down" ELSE "live"
    /\ e.kind = "lost" => health'.is = IF l = Source THEN "connecting" ELSE "down"
    /\ e.kind = "error" => health'.is = "down"

(* The collector and the health after an event.                              *)
Outcome(g, l, e, d) ==
    LET v == col[g].view[l]
    IN  /\ d.at = col[g].at /\ \A k \in Lanes \ {l} : d.view[k] = col[g].view[k]
        /\ \/ d = col[g] /\ cancelled' = cancelled /\ health' = health
           \/ /\ e.gen = v.gen => ~v.failed
              /\ Takes(v, d.view[l], e) /\ Answers(l, d, e)
              /\ cancelled' = IF e.kind = "error" /\ l = Source THEN cancelled \cup {g} ELSE cancelled
        /\ (e.kind = "error" /\ e.gen = v.gen) => d.view[l].failed

=============================================================================
