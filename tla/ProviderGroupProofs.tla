-------------------------- MODULE ProviderGroupProofs --------------------------
(* That the provider groups of a recording have one writer at a time, for    *)
(* any lanes, bounds and troubles: after a fallback, a restart or a stop the *)
(* collector of an older group writes nothing unless it was detached.  That  *)
(* no audio is lost: each block of a completed recording is in a row or in a *)
(* gap that is recorded, whatever was dropped, stopped or replaced.  That an *)
(* epoch is one provider timeline, whatever is still on its way from         *)
(* connections that were lost, cut off or replaced.  That what the collector *)
(* has heard of its lanes is what they are, and that the health shown says   *)
(* so.                                                                       *)
EXTENDS ProviderGroupInv, TLAPS, SequenceTheorems, FiniteSetTheorems

-----------------------------------------------------------------------------
(* The greatest number of a set that has one is in it.                       *)
LEMMA TopMax ==
    ASSUME NEW S, S \subseteq Int, Topped(S)
    PROVE  Max(S) \in S /\ \A x \in S : Max(S) >= x
<1>1. PICK m \in S : \A x \in S : m >= x BY DEF Topped
<1>2. QED BY <1>1 DEF Max

(* One more number: there is still a greatest.                               *)
LEMMA TopAdd ==
    ASSUME NEW S, S \subseteq Int, Topped(S), NEW x \in Int
    PROVE  Topped(S \cup {x})
<1>1. PICK m \in S : \A y \in S : m >= y BY DEF Topped
<1>2. CASE m >= x BY <1>1, <1>2 DEF Topped
<1>3. CASE ~(m >= x)
  <2>1. \A y \in S \cup {x} : x >= y BY <1>1, <1>3
  <2>2. QED BY <2>1 DEF Topped
<1>4. QED BY <1>2, <1>3

(* The lesser of two numbers.                                                *)
LEMMA TwoMin ==
    ASSUME NEW a \in Int, NEW b \in Int
    PROVE  Min({a, b}) \in {a, b} /\ Min({a, b}) <= a /\ Min({a, b}) <= b
<1>1. \E m \in {a, b} : \A x \in {a, b} : m =< x
    <2>1. CASE a =< b BY <2>1
    <2>2. CASE ~(a =< b) BY <2>2
    <2>3. QED BY <2>1, <2>2
<1>2. QED BY <1>1 DEF Min

-----------------------------------------------------------------------------
(* This is the property. *)
LEMMA WriterMeans ==
    ASSUME WriterInv
    PROVE  OneWriterUnlessDetached
<1>1. TypeOK BY DEF WriterInv, Typed
<1>2. CASE "detached" \in mishap BY <1>1, <1>2 DEF OneWriterUnlessDetached
<1>3. CASE Sole
  <2>1. Writing = {} \/ Writing = {opened} BY <1>3 DEF Sole, Alone
  <2>2. Cardinality(Writing) <= 1
    <3>1. CASE Writing = {}
      <4>1. Cardinality(Writing) = 0 BY <3>1, FS_EmptySet
      <4>2. QED BY <4>1
    <3>2. CASE Writing = {opened}
      <4>1. Cardinality(Writing) = 1 BY <3>2, FS_Singleton
      <4>2. QED BY <4>1
    <3>3. QED BY <2>1, <3>1, <3>2
  <2>3. capture \in {"completed", "interrupted"} => Writing = {}
    <3>1. SUFFICES ASSUME capture \in {"completed", "interrupted"}, NEW g \in Writing
                   PROVE  FALSE
        OBVIOUS
    <3>2. remote = None /\ cleanup = None /\ call = NoCall BY <3>1 DEF WriterInv, Commands
    <3>3. g = None BY <1>3, <3>1, <3>2 DEF Sole, Owned, NoCall
    <3>4. QED BY <3>3 DEF Writing, Groups, None
  <2>4. QED BY <1>1, <1>3, <2>2, <2>3 DEF OneWriterUnlessDetached, OneWriter, Sole
<1>4. QED BY <1>2, <1>3 DEF WriterInv

-----------------------------------------------------------------------------
(* A trouble is counted up to its bound.                                     *)
LEMMA TroublesCounted ==
    ASSUME TypeOK, GroupAssumption
    PROVE  /\ \A kind : Trouble(kind) => troubles' \in 0..MaxTroubles
           /\ UNCHANGED faults => troubles' \in 0..MaxTroubles /\ mishap' = mishap
    BY DEF Trouble, TypeOK, GroupAssumption, faults

(* An action of a stream is one of its moves and what it sends.              *)
LEMMA StreamActsIs ==
    ASSUME Typed, GroupAssumption, NEW l \in Lanes, StreamStep(l)
    PROVE  Runs(l) /\ StreamActs(l)
<1> DEFINE s == stream[l]
<1>1. TypeOK /\ s \in StreamOf BY DEF Typed
<1>2. ASSUME Connect(l) PROVE StreamActs(l)
    BY <1>1, <1>2, TroublesCounted DEF Connect, StreamActs, Moves, Emit, KeepsAll, record, owner, faults
<1>3. ASSUME Say(l) PROVE StreamActs(l)
    BY <1>1, <1>3, TroublesCounted DEF Say, StreamActs, Moves, Emit, KeepsAll, record, owner, faults
<1>4. ASSUME Drop(l) PROVE StreamActs(l)
    BY <1>1, <1>4, TroublesCounted DEF Drop, StreamActs, Moves, Emit, KeepsAll, record, owner, faults
<1>5. ASSUME Die(l) PROVE StreamActs(l)
    BY <1>1, <1>5, TroublesCounted DEF Die, StreamActs, Moves, Emit, KeepsAll, record, owner, faults
<1>6. ASSUME Finish(l) PROVE StreamActs(l)
  <2>1. opened \in Groups /\ inbox[opened] \in [Lanes -> Seq(Events)] /\ inbox[opened][l] \in Seq(Events)
      BY <1>1, <1>6 DEF Finish, Runs, TypeOK, Typed, Groups, None
  <2>2. inbox[opened][l] \o << >> = inbox[opened][l] BY <2>1, ConcatEmptySeq
  <2>3. [inbox EXCEPT ![opened][l] = @ \o << >>] = inbox BY <2>1, <2>2 DEF Typed
  <2>4. inbox' = [inbox EXCEPT ![opened][l] = @ \o << >>] BY <2>3, <1>6 DEF Finish, faults
  <2>5. QED
      BY <1>1, <1>6, <2>4, TroublesCounted DEF Finish, StreamActs, Moves, KeepsAll, record, owner, faults
<1>7. QED BY <1>2, <1>3, <1>4, <1>5, <1>6 DEF StreamStep, Connect, Say, Drop, Die, Finish

-----------------------------------------------------------------------------
(* The sets the types are made of change with the audio and the groups only. *)
LEMMA SameSets ==
    ASSUME pushed' = pushed
    PROVE  /\ Events' = Events /\ StreamOf' = StreamOf /\ CollectorOf' = CollectorOf
           /\ FactOf' = FactOf
    BY DEF Events, StreamOf, CollectorOf, FactOf

(* What the streams do leaves the invariant alone, if it is well formed.     *)
LEMMA AsideKeeps ==
    ASSUME WriterInv, Aside, TypeOK', stream' \in [Lanes -> StreamOf],
           inbox' \in [Groups -> [Lanes -> Seq(Events)]],
           cuts' \in [Groups -> SUBSET CutOf]
    PROVE  WriterInv'
<1>1. /\ Events' = Events /\ StreamOf' = StreamOf /\ CollectorOf' = CollectorOf
      /\ FactOf' = FactOf
    BY SameSets DEF Aside
<1>2. Typed' BY <1>1 DEF WriterInv, Typed, Aside, CallOf
<1>3. Numbers' /\ Commands' /\ (Sole <=> Sole') /\ mishap' = mishap
    BY DEF WriterInv, Aside, Numbers, Rows, Commands, Stage, Sole, Owned, Numbered, Alone,
           Writing, NoCall
<1>4. QED BY <1>2, <1>3 DEF WriterInv

(* What a stream sends is an event.                                          *)
LEMMA EventIs ==
    ASSUME Typed, NEW l \in Lanes, NEW kind \in EventKinds, NEW word \in 0..pushed,
           kind = "word" => word # 0
    PROVE  /\ Event(l, kind, word) \in Events
           /\ Event(l, kind, word).kind = kind /\ Event(l, kind, word).word = word
           /\ Event(l, kind, word).gen = stream[l].gen /\ Event(l, kind, word).leg = stream[l].leg
<1>1. stream[l].gen \in Nat /\ stream[l].leg \in Nat BY DEF Typed, StreamOf
<1>2. QED BY <1>1 DEF Event, Events

(* The new stream and what it sends are well formed.                         *)
LEMMA MovesTyped ==
    ASSUME WriterInv, GroupAssumption, NEW l \in Lanes, NEW r, NEW es,
           Moves(l, r, es), r \in StreamOf, es \in Seq(Events), opened \in Groups
    PROVE  WriterInv'
<1>1. Aside BY DEF Moves, Aside
<1>2. TypeOK' BY DEF WriterInv, Typed, TypeOK, Moves
<1>3. stream' \in [Lanes -> StreamOf] BY DEF WriterInv, Typed, Moves
<1>4. inbox[opened][l] \o es \in Seq(Events) BY ConcatProperties DEF WriterInv, Typed
<1>5. inbox' \in [Groups -> [Lanes -> Seq(Events)]] BY <1>4 DEF WriterInv, Typed, Moves
<1>6. cuts' \in [Groups -> SUBSET CutOf] BY DEF WriterInv, Typed, Moves
<1>7. QED BY <1>1, <1>2, <1>3, <1>5, <1>6, AsideKeeps

(* Every move of a stream is well formed.                                    *)
LEMMA StreamLegal ==
    ASSUME Typed, NEW l \in Lanes
    PROVE  LET s == stream[l] IN
           /\ s \in StreamOf
           /\ [s EXCEPT !.phase = "up"] \in StreamOf
           /\ [s EXCEPT !.phase = "up", !.again = FALSE] \in StreamOf
           /\ [s EXCEPT !.phase = "up", !.again = FALSE, !.next = pushed + 1, !.leg = @ + 1]
                 \in StreamOf
           /\ (s.next <= pushed => [s EXCEPT !.next = @ + 1] \in StreamOf)
           /\ [s EXCEPT !.phase = "dial", !.again = TRUE] \in StreamOf
           /\ [s EXCEPT !.phase = "died"] \in StreamOf
           /\ [s EXCEPT !.phase = "ended"] \in StreamOf
<1> DEFINE s == stream[l]
<1>1. s \in StreamOf /\ pushed \in Nat BY DEF Typed, TypeOK
<1> HIDE DEF s
<1>2. /\ [s EXCEPT !.phase = "up"] \in StreamOf
      /\ [s EXCEPT !.phase = "up", !.again = FALSE] \in StreamOf
      /\ [s EXCEPT !.phase = "dial", !.again = TRUE] \in StreamOf
      /\ [s EXCEPT !.phase = "died"] \in StreamOf
      /\ [s EXCEPT !.phase = "ended"] \in StreamOf
    BY <1>1 DEF StreamOf
<1>3. [s EXCEPT !.phase = "up", !.again = FALSE, !.next = pushed + 1, !.leg = @ + 1] \in StreamOf
  <2>1. s.leg + 1 \in Nat /\ pushed + 1 \in 1..(pushed + 1) /\ "up" \in {"dial", "up", "ended", "died"}
      BY <1>1 DEF StreamOf
  <2>2. \A n \in 1..(pushed + 1), k \in Nat :
           [s EXCEPT !.phase = "up", !.again = FALSE, !.next = n, !.leg = k] \in StreamOf
      BY <1>1, <2>1 DEF StreamOf
  <2>3. QED BY <2>1, <2>2
<1>4. s.next <= pushed => [s EXCEPT !.next = @ + 1] \in StreamOf BY <1>1 DEF StreamOf
<1>5. QED BY <1>1, <1>2, <1>3, <1>4 DEF s

(* The streams do not disturb the writer.                                    *)
LEMMA WriterStream ==
    ASSUME WriterInv, GroupAssumption, NEW l \in Lanes, StreamStep(l)
    PROVE  WriterInv'
<1> DEFINE s == stream[l]
<1>1. /\ Typed /\ Runs(l) /\ StreamActs(l) /\ s \in StreamOf
      /\ opened \in Groups /\ pushed \in Nat /\ s.next \in 1..(pushed + 1)
  <2>1. Typed /\ TypeOK /\ s \in StreamOf /\ pushed \in Nat BY DEF WriterInv, Typed, TypeOK
  <2>2. Runs(l) /\ StreamActs(l) BY <2>1, StreamActsIs
  <2>3. QED BY <2>1, <2>2 DEF Runs, TypeOK, Groups, None, StreamOf
<1>2. /\ Event(l, "connected", 0) \in Events
      /\ Event(l, "back", s.next - 1) \in Events /\ Event(l, "back late", s.next - 1) \in Events
      /\ (s.next <= pushed => Event(l, "word", s.next) \in Events)
      /\ Event(l, "lost", 0) \in Events /\ Event(l, "planned", 0) \in Events
      /\ Event(l, "error", 0) \in Events
  <2>1. \A kind \in EventKinds, word \in 0..pushed :
           (kind = "word" => word # 0) => Event(l, kind, word) \in Events
      BY <1>1, EventIs
  <2>2. /\ 0 \in 0..pushed /\ s.next - 1 \in 0..pushed
        /\ (s.next <= pushed => s.next \in 0..pushed /\ s.next # 0)
      BY <1>1
  <2>3. /\ {"connected", "back", "back late", "word", "lost", "planned", "error"} \subseteq EventKinds
        /\ "word" \notin {"connected", "back", "back late", "lost", "planned", "error"}
      BY DEF EventKinds
  <2> HIDE DEF s
  <2>4. QED BY <2>1, <2>2, <2>3
<1>3. /\ <<Event(l, "connected", 0)>> \in Seq(Events)
      /\ <<Event(l, "back", s.next - 1), Event(l, "connected", 0)>> \in Seq(Events)
      /\ <<Event(l, "back late", s.next - 1), Event(l, "connected", 0)>> \in Seq(Events)
      /\ (s.next <= pushed => <<Event(l, "word", s.next)>> \in Seq(Events))
      /\ <<Event(l, "lost", 0)>> \in Seq(Events) /\ <<Event(l, "planned", 0)>> \in Seq(Events)
      /\ <<Event(l, "error", 0)>> \in Seq(Events) /\ << >> \in Seq(Events)
  <2>1. \A x, y \in Events : <<x>> \in Seq(Events) /\ <<x, y>> \in Seq(Events) OBVIOUS
  <2>2. << >> \in Seq(Events) OBVIOUS
  <2>3. QED BY <1>2, <2>1, <2>2
<1>4. \E r \in StreamOf, es \in Seq(Events) : Moves(l, r, es)
  <2>1. /\ [s EXCEPT !.phase = "up"] \in StreamOf
        /\ [s EXCEPT !.phase = "up", !.again = FALSE] \in StreamOf
        /\ [s EXCEPT !.phase = "up", !.again = FALSE, !.next = pushed + 1, !.leg = @ + 1]
              \in StreamOf
        /\ (s.next <= pushed => [s EXCEPT !.next = @ + 1] \in StreamOf)
        /\ [s EXCEPT !.phase = "dial", !.again = TRUE] \in StreamOf
        /\ [s EXCEPT !.phase = "died"] \in StreamOf
        /\ [s EXCEPT !.phase = "ended"] \in StreamOf
      BY <1>1, StreamLegal
  <2>2. QED BY <1>1, <1>3, <2>1, Zenon DEF StreamActs
<1>5. QED BY <1>1, <1>4, MovesTyped

-----------------------------------------------------------------------------
(* What the collector makes of an event.                                     *)
LEMMA SeeIs ==
    ASSUME NEW c \in CollectorOf, NEW l \in Lanes, NEW v \in ViewOf
    PROVE  /\ See(c, l, v) \in CollectorOf
           /\ See(c, l, v).view[l] = v
           /\ \A k \in Lanes \ {l} : See(c, l, v).view[k] = c.view[k]
           /\ See(c, l, v).at = c.at /\ See(c, l, v).next = c.next
           /\ See(c, l, v).epoch = c.epoch /\ See(c, l, v).final = c.final
           /\ See(c, l, v).since = c.since
<1>1. c.view \in [Lanes -> ViewOf] BY DEF CollectorOf
<1> DEFINE w == [c.view EXCEPT ![l] = v]
<1>2. w \in [Lanes -> ViewOf] /\ w[l] = v /\ \A k \in Lanes \ {l} : w[k] = c.view[k] BY <1>1
<1>3. See(c, l, v) = [c EXCEPT !.view = w] BY DEF See, CollectorOf
<1> HIDE DEF w
<1>4. QED BY <1>2, <1>3 DEF CollectorOf

(* A replacement is a new provider timeline.                                 *)
LEMMA RevivedNew ==
    ASSUME NEW c \in CollectorOf, NEW l \in Lanes, NEW gen \in Nat, gen > c.view[l].gen
    PROVE  LET d == Revived(c, l, gen) IN
           /\ d \in CollectorOf
           /\ \A k \in Lanes \ {l} : d.view[k] = c.view[k]
           /\ d.at = c.at /\ d.next = c.next /\ d.final = c.final /\ d.since = c.since
           /\ d.epoch = c.epoch + 1
           /\ d.view[l] = [c.view[l] EXCEPT !.gen = gen, !.failed = FALSE,
                                            !.epoch = c.epoch + 1]
<1>1. c.view[l] \in ViewOf /\ c.view[l].gen \in Nat /\ c.epoch \in Nat
    BY DEF CollectorOf, ViewOf
<1> DEFINE v == [c.view[l] EXCEPT !.gen = gen, !.failed = FALSE, !.epoch = c.epoch + 1]
           s == See(c, l, v)
<1>2. v \in ViewOf
  <2>1. c.epoch + 1 \in Nat BY <1>1
  <2>2. \A n \in Nat : [c.view[l] EXCEPT !.gen = gen, !.failed = FALSE, !.epoch = n] \in ViewOf
      BY <1>1 DEF ViewOf
  <2>3. QED BY <2>1, <2>2
<1>3. Revived(c, l, gen) = [s EXCEPT !.epoch = @ + 1]
  <2>1. ~(gen <= c.view[l].gen) BY <1>1
  <2>2. QED BY <2>1, Zenon DEF Revived
<1>4. /\ s \in CollectorOf /\ s.view[l] = v /\ \A k \in Lanes \ {l} : s.view[k] = c.view[k]
      /\ s.at = c.at /\ s.next = c.next /\ s.epoch = c.epoch /\ s.final = c.final
      /\ s.since = c.since
    BY <1>2, SeeIs
<1> HIDE DEF s, v
<1> DEFINE d == [s EXCEPT !.epoch = @ + 1]
<1>5. d \in CollectorOf /\ d.epoch = s.epoch + 1 /\ d.view = s.view /\ d.at = s.at
      /\ d.next = s.next /\ d.final = s.final /\ d.since = s.since
    BY <1>4 DEF CollectorOf
<1> HIDE DEF d
<1>6. Revived(c, l, gen) = d BY <1>3 DEF d
<1>7. /\ d.epoch = c.epoch + 1 /\ d.view[l] = v /\ \A k \in Lanes \ {l} : d.view[k] = c.view[k]
      /\ d.at = c.at /\ d.next = c.next /\ d.final = c.final /\ d.since = c.since
    BY <1>4, <1>5
<1>8. QED BY <1>5, <1>6, <1>7 DEF v

(* Any other event leaves the collector as it was.                           *)
LEMMA RevivedSame ==
    ASSUME NEW c, NEW l, NEW gen, gen <= c.view[l].gen
    PROVE  Revived(c, l, gen) = c
    BY DEF Revived

(* Either way it stays a collector and keeps its place.                      *)
LEMMA RevivedIs ==
    ASSUME NEW c \in CollectorOf, NEW l \in Lanes, NEW gen \in Nat
    PROVE  LET d == Revived(c, l, gen) IN
           /\ d \in CollectorOf
           /\ \A k \in Lanes \ {l} : d.view[k] = c.view[k]
           /\ d.at = c.at /\ d.next = c.next /\ d.final = c.final /\ d.since = c.since
<1>1. c.view[l].gen \in Nat BY DEF CollectorOf, ViewOf
<1>2. CASE gen <= c.view[l].gen
  <2>1. Revived(c, l, gen) = c BY <1>2, RevivedSame
  <2>2. QED BY <2>1
<1>3. CASE gen > c.view[l].gen
  <2> DEFINE d == Revived(c, l, gen)
  <2>1. /\ d \in CollectorOf
        /\ \A k \in Lanes \ {l} : d.view[k] = c.view[k]
        /\ d.at = c.at /\ d.next = c.next /\ d.final = c.final /\ d.since = c.since
        /\ d.epoch = c.epoch + 1
        /\ d.view[l] = [c.view[l] EXCEPT !.gen = gen, !.failed = FALSE,
                                         !.epoch = c.epoch + 1]
      BY <1>3, RevivedNew
  <2>2. QED BY <2>1, Zenon
<1>4. QED BY <1>1, <1>2, <1>3

(* A connection changes what is known of its lane.                           *)
LEMMA HeardConnectedIs ==
    ASSUME Typed, NEW g \in Groups, NEW l \in Lanes, NEW c \in CollectorOf, HearConnected(g, l, c)
    PROVE  \E d \in CollectorOf :
             /\ col' = [col EXCEPT ![g] = d] /\ HeardConnected(l, c, d)
             /\ \A k \in Lanes \ {l} : d.view[k] = c.view[k]
<1> DEFINE v == [c.view[l] EXCEPT !.connected = TRUE, !.awaiting = FALSE]
           d == See(c, l, v)
<1>1. v \in ViewOf BY DEF CollectorOf, ViewOf
<1>2. col' = [col EXCEPT ![g] = d] /\ Told BY DEF HearConnected, record, Told
<1>3. /\ d \in CollectorOf /\ d.view[l] = v /\ \A k \in Lanes \ {l} : d.view[k] = c.view[k]
      /\ Kept(c, d) /\ Marks(c, d)
    BY <1>1, SeeIs DEF Kept, Marks
<1>4. QED BY <1>2, <1>3 DEF HeardConnected

(* An error closes its lane.                                                 *)
LEMMA HeardErrorIs ==
    ASSUME Typed, NEW g \in Groups, NEW l \in Lanes, NEW c \in CollectorOf, HearError(g, l, c)
    PROVE  \E d \in CollectorOf :
             /\ col' = [col EXCEPT ![g] = d] /\ HeardError(g, l, c, d)
             /\ \A k \in Lanes \ {l} : d.view[k] = c.view[k]
<1> DEFINE v == [c.view[l] EXCEPT !.connected = FALSE, !.failed = TRUE]
           d == See(c, l, v)
<1>1. v \in ViewOf BY DEF CollectorOf, ViewOf
<1>2. /\ col' = [col EXCEPT ![g] = d]
      /\ cancelled' = IF l = Source THEN cancelled \cup {g} ELSE cancelled
      /\ UNCHANGED <<said, gaps, mishap>>
    BY DEF HearError, record, Tombstone
<1>3. /\ d \in CollectorOf /\ d.view[l] = v /\ \A k \in Lanes \ {l} : d.view[k] = c.view[k]
      /\ Kept(c, d) /\ Marks(c, d)
    BY <1>1, SeeIs DEF Kept, Marks
<1>4. QED BY <1>2, <1>3 DEF HeardError

(* A lost connection changes its lane and may start a stretch.               *)
LEMMA HeardLostIs ==
    ASSUME Typed, NEW g \in Groups, NEW l \in Lanes, NEW c \in CollectorOf, NEW e \in Events,
           HearLost(g, l, c, e)
    PROVE  \E d \in CollectorOf :
             /\ col' = [col EXCEPT ![g] = d] /\ HeardLost(l, c, d, e)
             /\ \A k \in Lanes \ {l} : d.view[k] = c.view[k]
<1> DEFINE v == [c.view[l] EXCEPT !.awaiting = TRUE, !.connected = @ /\ e.kind = "planned"]
           s == See(c, l, v)
           from == IF c.final = Never THEN pushed ELSE Min({c.final, pushed})
           anchors == l = Source /\ c.since = Never
           d == [s EXCEPT !.since = IF anchors THEN from ELSE @]
<1>1. v \in ViewOf BY Zenon DEF CollectorOf, ViewOf
<1>2. /\ col' = [col EXCEPT ![g] = d]
      /\ mishap' = mishap \cup
            (IF anchors /\ c.final = Never /\ \E b \in 1..pushed : ~Covered(b)
             THEN {"unanchored"} ELSE {})
      /\ UNCHANGED <<said, gaps, cancelled>>
    BY DEF HearLost, record, Blame
<1>3. /\ s \in CollectorOf /\ s.view[l] = v /\ \A k \in Lanes \ {l} : s.view[k] = c.view[k]
      /\ Kept(c, s) /\ Marks(c, s)
    BY <1>1, SeeIs DEF Kept, Marks
<1>4. from \in 0..pushed
  <2>1. pushed \in Nat /\ c.final \in (0..pushed) \cup {Never} BY DEF Typed, TypeOK, CollectorOf
  <2>2. CASE c.final = Never BY <2>1, <2>2
  <2>3. CASE c.final # Never
    <3>1. c.final \in 0..pushed /\ c.final \in Int /\ pushed \in Int BY <2>1, <2>3
    <3>2. Min({c.final, pushed}) \in {c.final, pushed} BY <3>1, TwoMin
    <3>3. QED BY <2>1, <2>3, <3>1, <3>2
  <2>4. QED BY <2>2, <2>3
<1> HIDE DEF v, s, from, anchors
<1>5. /\ d \in CollectorOf /\ d.view = s.view /\ d.at = s.at /\ d.next = s.next
      /\ d.epoch = s.epoch /\ d.final = s.final
      /\ d.since = IF anchors THEN from ELSE s.since
    BY <1>3, <1>4 DEF CollectorOf
<1> HIDE DEF d
<1>6. d.view[l] = v /\ (\A k \in Lanes \ {l} : d.view[k] = c.view[k]) /\ Kept(c, d)
      /\ d.final = c.final /\ d.since = IF anchors THEN from ELSE c.since
    BY <1>3, <1>5 DEF Kept, Marks
<1>7. HeardLost(l, c, d, e) BY <1>2, <1>6 DEF HeardLost, v, from, anchors
<1>8. QED BY <1>2, <1>5, <1>6, <1>7

(* A recovery ends the stretch.                                              *)
LEMMA HeardBackIs ==
    ASSUME Typed, NEW g \in Groups, NEW l \in Lanes, NEW c \in CollectorOf, NEW e \in Events,
           HearBack(g, l, c, e)
    PROVE  \E d \in CollectorOf :
             /\ col' = [col EXCEPT ![g] = d] /\ HeardBack(l, c, d, e)
             /\ \A k \in Lanes \ {l} : d.view[k] = c.view[k]
<1> DEFINE late == c.view[l].awaiting /\ e.kind = "back late"
           v == [c.view[l] EXCEPT !.awaiting = FALSE, !.epoch = IF late THEN c.epoch + 1 ELSE @]
           s == See(c, l, v)
           d == [s EXCEPT !.epoch = IF late THEN @ + 1 ELSE @,
                          !.since = IF l = Source THEN Never ELSE @,
                          !.final = IF l = Source THEN e.word ELSE @]
<1>1. v \in ViewOf
  <2>1. c.view[l] \in ViewOf /\ c.epoch + 1 \in Nat BY DEF CollectorOf
  <2>2. (IF late THEN c.epoch + 1 ELSE c.view[l].epoch) \in Nat BY <2>1 DEF ViewOf
  <2>3. \A n \in Nat : [c.view[l] EXCEPT !.awaiting = FALSE, !.epoch = n] \in ViewOf
      BY <2>1 DEF ViewOf
  <2> HIDE DEF late
  <2>4. QED BY <2>2, <2>3
<1>2. /\ col' = [col EXCEPT ![g] = d]
      /\ gaps' = IF late /\ l = Source /\ c.since # Never
                 THEN gaps \cup ((c.since + 1)..pushed) ELSE gaps
      /\ UNCHANGED <<said, cancelled, mishap>>
    BY DEF HearBack
<1>3. /\ s \in CollectorOf /\ s.view[l] = v /\ \A k \in Lanes \ {l} : s.view[k] = c.view[k]
      /\ Kept(c, s) /\ Marks(c, s)
    BY <1>1, SeeIs DEF Kept, Marks
<1>4. e.word \in 0..pushed BY DEF Events
<1> HIDE DEF v, s, late
<1>5. /\ d \in CollectorOf /\ d.view = s.view /\ d.at = s.at /\ d.next = s.next
      /\ d.epoch = (IF late THEN s.epoch + 1 ELSE s.epoch)
      /\ d.since = (IF l = Source THEN Never ELSE s.since)
      /\ d.final = (IF l = Source THEN e.word ELSE s.final)
  <2> DEFINE epoch == IF late THEN s.epoch + 1 ELSE s.epoch
             since == IF l = Source THEN Never ELSE s.since
             final == IF l = Source THEN e.word ELSE s.final
  <2>1. epoch \in Nat /\ since \in (0..pushed) \cup {Never} /\ final \in (0..pushed) \cup {Never}
      BY <1>3, <1>4 DEF CollectorOf
  <2>2. d = [s EXCEPT !.epoch = epoch, !.since = since, !.final = final] BY <1>3 DEF CollectorOf
  <2> HIDE DEF epoch, since, final, d
  <2>3. /\ d \in CollectorOf /\ d.view = s.view /\ d.at = s.at /\ d.next = s.next
        /\ d.epoch = epoch /\ d.since = since /\ d.final = final
      BY <1>3, <2>1, <2>2 DEF CollectorOf
  <2>4. QED BY <2>3 DEF epoch, since, final
<1> HIDE DEF d
<1>6. /\ d.view[l] = v /\ \A k \in Lanes \ {l} : d.view[k] = c.view[k]
      /\ d.at = c.at /\ d.next = c.next
      /\ d.epoch = (IF late THEN c.epoch + 1 ELSE c.epoch)
      /\ d.since = (IF l = Source THEN Never ELSE c.since)
      /\ d.final = (IF l = Source THEN e.word ELSE c.final)
    BY <1>3, <1>5 DEF Kept, Marks
<1>7. HeardBack(l, c, d, e) BY <1>2, <1>6 DEF HeardBack, v, late
<1>8. QED BY <1>2, <1>5, <1>6, <1>7

(* A word is written with the next number.                                   *)
LEMMA HeardWordIs ==
    ASSUME Typed, NEW g \in Groups, NEW l \in Lanes, NEW c \in CollectorOf, NEW e \in Events,
           \A k \in Lanes \ {l} : c.view[k] = col[g].view[k], HearWord(g, l, c, e)
    PROVE  \E d \in CollectorOf :
             /\ col' = [col EXCEPT ![g] = d]
             /\ \A k \in Lanes \ {l} : d.view[k] = c.view[k]
             /\ \/ l = Source /\ HeardRefused(g, c, d)
                \/ HeardRow(g, l, c, d, e) \/ HeardFact(g, l, c, d, e)
<1>1. CASE l = Source /\ \E r \in Rows : r.seq = c.next
  <2> DEFINE d == [col[g] EXCEPT !.at = "settling"]
  <2>1. d \in CollectorOf /\ d.view = col[g].view BY DEF Typed, CollectorOf
  <2>2. /\ col' = [col EXCEPT ![g] = d]
        /\ said' = said /\ gaps' = gaps
        /\ cancelled' = cancelled \cup {g} /\ mishap' = mishap \cup {"collided"}
      BY <1>1 DEF HearWord, Blame
  <2>3. HeardRefused(g, c, d) BY <1>1, <2>2 DEF HeardRefused
  <2> HIDE DEF d
  <2>4. QED BY <1>1, <2>1, <2>2, <2>3
<1>2. CASE l = Source /\ ~ \E r \in Rows : r.seq = c.next
  <2> DEFINE d == [c EXCEPT !.next = @ + 1, !.final = e.word]
  <2>1. /\ d \in CollectorOf /\ d.view = c.view /\ d.at = c.at /\ d.epoch = c.epoch
        /\ d.since = c.since /\ d.next = c.next + 1 /\ d.final = e.word
    <3>1. e.word \in 0..pushed /\ c.next + 1 \in Nat \ {0} BY DEF Events, CollectorOf
    <3>2. QED BY <3>1 DEF CollectorOf
  <2>2. /\ col' = [col EXCEPT ![g] = d]
        /\ said' = said \cup {Word(g, l, c, e, c.next)}
        /\ UNCHANGED <<gaps, cancelled, mishap>>
    <3>1. cancelled' = cancelled \cup {} /\ mishap' = mishap \cup {} BY <1>2 DEF HearWord, Blame
    <3>2. QED BY <1>2, <3>1 DEF HearWord
  <2> HIDE DEF d
  <2>3. HeardRow(g, l, c, d, e) BY <1>2, <2>1, <2>2 DEF HeardRow
  <2>4. QED BY <2>1, <2>2, <2>3
<1>3. CASE l # Source
  <2>1. /\ col' = [col EXCEPT ![g] = c]
        /\ said' = said \cup {Word(g, l, c, e, 0)}
        /\ UNCHANGED <<gaps, cancelled, mishap>>
    <3>1. cancelled' = cancelled \cup {} /\ mishap' = mishap \cup {} BY <1>3 DEF HearWord, Blame
    <3>2. QED BY <1>3, <3>1 DEF HearWord
  <2>2. HeardFact(g, l, c, c, e) BY <1>3, <2>1 DEF HeardFact
  <2>3. QED BY <2>1, <2>2
<1>4. QED BY <1>1, <1>2, <1>3

(* What is heard is the head of the queue, and leaves it.                    *)
LEMMA HearIs ==
    ASSUME Typed, NEW g \in Groups, NEW l \in Lanes, Hear(g, l)
    PROVE  \E e \in Events : \E d \in CollectorOf : HeardAct(g, l, e, d)
<1> DEFINE e == Head(inbox[g][l])
           c == Revived(col[g], l, e.gen)
<1>1. /\ col[g].at = "run" /\ inbox[g][l] # << >>
      /\ inbox' = [inbox EXCEPT ![g][l] = Tail(@)]
      /\ UNCHANGED <<capture, pushed, opened, remote, cleanup, stream, cuts, call, troubles>>
    BY DEF Hear, owner
<1>2. e \in Events
  <2>1. inbox[g][l] \in Seq(Events) BY DEF Typed
  <2>2. QED BY <1>1, <2>1, HeadTailProperties
<1>3. /\ c \in CollectorOf /\ \A k \in Lanes \ {l} : c.view[k] = col[g].view[k]
  <2>1. col[g] \in CollectorOf /\ e.gen \in Nat BY <1>2 DEF Typed, Events
  <2> HIDE DEF e
  <2>2. QED BY <2>1, RevivedIs
<1>4. \/ Late(c, l, e.gen) /\ col' = [col EXCEPT ![g] = c] /\ Told
      \/ /\ ~Late(c, l, e.gen)
         /\ \/ e.kind = "connected" /\ HearConnected(g, l, c)
            \/ e.kind \in {"back", "back late"} /\ HearBack(g, l, c, e)
            \/ e.kind \in {"lost", "planned"} /\ HearLost(g, l, c, e)
            \/ e.kind = "word" /\ HearWord(g, l, c, e)
            \/ e.kind = "error" /\ HearError(g, l, c)
    BY DEF Hear, Quiet, Told, record
<1> HIDE DEF e, c
<1>5. ASSUME NEW d \in CollectorOf, col' = [col EXCEPT ![g] = d], HeardIt(g, l, c, d, e)
      PROVE  HeardAct(g, l, e, d)
    BY <1>1, <1>5 DEF HeardAct, e, c
<1>6. \E d \in CollectorOf : col' = [col EXCEPT ![g] = d] /\ HeardIt(g, l, c, d, e)
  <2>1. ASSUME Late(c, l, e.gen) /\ col' = [col EXCEPT ![g] = c] /\ Told
        PROVE  HeardIt(g, l, c, c, e)
      BY <1>3, <2>1 DEF HeardIt
  <2>2. ASSUME ~Late(c, l, e.gen), e.kind = "connected" /\ HearConnected(g, l, c)
        PROVE  \E d \in CollectorOf : col' = [col EXCEPT ![g] = d] /\ HeardIt(g, l, c, d, e)
      BY <1>3, <2>2, HeardConnectedIs, Zenon DEF HeardIt
  <2>3. ASSUME ~Late(c, l, e.gen), e.kind \in {"back", "back late"} /\ HearBack(g, l, c, e)
        PROVE  \E d \in CollectorOf : col' = [col EXCEPT ![g] = d] /\ HeardIt(g, l, c, d, e)
      BY <1>2, <1>3, <2>3, HeardBackIs, Zenon DEF HeardIt
  <2>4. ASSUME ~Late(c, l, e.gen), e.kind \in {"lost", "planned"} /\ HearLost(g, l, c, e)
        PROVE  \E d \in CollectorOf : col' = [col EXCEPT ![g] = d] /\ HeardIt(g, l, c, d, e)
      BY <1>2, <1>3, <2>4, HeardLostIs, Zenon DEF HeardIt
  <2>5. ASSUME ~Late(c, l, e.gen), e.kind = "word" /\ HearWord(g, l, c, e)
        PROVE  \E d \in CollectorOf : col' = [col EXCEPT ![g] = d] /\ HeardIt(g, l, c, d, e)
      BY <1>2, <1>3, <2>5, HeardWordIs, Zenon DEF HeardIt
  <2>6. ASSUME ~Late(c, l, e.gen), e.kind = "error" /\ HearError(g, l, c)
        PROVE  \E d \in CollectorOf : col' = [col EXCEPT ![g] = d] /\ HeardIt(g, l, c, d, e)
      BY <1>3, <2>6, HeardErrorIs, Zenon DEF HeardIt
  <2>7. QED BY <1>3, <1>4, <2>1, <2>2, <2>3, <2>4, <2>5, <2>6, Zenon
<1>7. QED BY <1>2, <1>5, <1>6

-----------------------------------------------------------------------------
(* What is reported is a health.                                             *)
LEMMA ReportTyped ==
    ASSUME TypeOK
    PROVE  /\ Report("live", FALSE) => health' \in HealthOf
           /\ Report("down", FALSE) => health' \in HealthOf
           /\ Report("connecting", FALSE) => health' \in HealthOf
           /\ Report("down", TRUE) => health' \in HealthOf
           /\ UNCHANGED health => health' \in HealthOf
<1>1. health \in HealthOf /\ health.cause \in BOOLEAN BY DEF TypeOK, HealthOf
<1>2. ASSUME NEW is \in {"connecting", "live", "down"}, NEW failure \in BOOLEAN, Report(is, failure)
      PROVE  health' \in HealthOf
  <2>1. (failure \/ (health.cause /\ is # "live")) \in BOOLEAN BY <1>1
  <2>2. QED BY <1>2, <2>1, Zenon DEF Report, HealthOf
<1>3. QED BY <1>1, <1>2

(* What the collector hears leaves a health.                                 *)
LEMMA HearHealth ==
    ASSUME Typed, NEW g \in Groups, NEW l \in Lanes, Hear(g, l)
    PROVE  health' \in HealthOf
<1>1. TypeOK BY DEF Typed
<1> DEFINE e == Head(inbox[g][l])
           c == Revived(col[g], l, e.gen)
<1>2. \/ Quiet \/ HearConnected(g, l, c) \/ HearBack(g, l, c, e) \/ HearLost(g, l, c, e)
      \/ HearWord(g, l, c, e) \/ HearError(g, l, c)
    BY DEF Hear
<1> HIDE DEF e, c
<1>3. \/ UNCHANGED health \/ Report("live", FALSE) \/ Report("down", FALSE)
      \/ Report("connecting", FALSE) \/ Report("down", TRUE)
  <2>1. CASE HearConnected(g, l, c) BY <2>1 DEF HearConnected
  <2>2. CASE HearLost(g, l, c, e) BY <2>2 DEF HearLost
  <2>3. CASE Quiet BY <2>3 DEF Quiet
  <2>4. CASE HearBack(g, l, c, e) BY <2>4 DEF HearBack
  <2>5. CASE HearWord(g, l, c, e) BY <2>5 DEF HearWord
  <2>6. CASE HearError(g, l, c) BY <2>6 DEF HearError
  <2>7. QED BY <1>2, <2>1, <2>2, <2>3, <2>4, <2>5, <2>6
<1>4. QED BY <1>1, <1>3, ReportTyped

(* Where the collectors are the same, so are the commands.                   *)
LEMMA CommandsSame ==
    ASSUME Commands, UNCHANGED <<capture, opened, remote, cleanup, call>>,
           \A g \in Groups : g > opened => col'[g].at = "none"
    PROVE  Commands'
    BY DEF Commands, Stage, NoCall

(* One more row, or one more fact.                                           *)
LEMMA NumbersGrow ==
    ASSUME Typed, Numbers, NEW w \in FactOf, said' = said \cup {w}
    PROVE  Numbers'
<1>1. /\ {0} \cup {r.seq : r \in Rows} \subseteq Int
      /\ {0} \cup {r.word : r \in Rows} \subseteq Int
      /\ {-1} \cup {f.epoch : f \in said \ Rows} \subseteq Int
      /\ w.seq \in Int /\ w.word \in Int /\ w.epoch \in Int
    BY DEF Typed, FactOf, Rows, TypeOK
<1>2. /\ Topped(({0} \cup {r.seq : r \in Rows}) \cup {w.seq})
      /\ Topped(({0} \cup {r.word : r \in Rows}) \cup {w.word})
      /\ Topped(({-1} \cup {f.epoch : f \in said \ Rows}) \cup {w.epoch})
    BY <1>1, TopAdd DEF Numbers
<1>3. CASE w.lane = Source
  <2>1. Rows' = Rows \cup {w} /\ (said \ Rows)' = said \ Rows BY <1>3 DEF Rows
  <2>2. /\ {0} \cup {r.seq : r \in Rows'} = ({0} \cup {r.seq : r \in Rows}) \cup {w.seq}
        /\ {0} \cup {r.word : r \in Rows'} = ({0} \cup {r.word : r \in Rows}) \cup {w.word}
        /\ {-1} \cup {f.epoch : f \in (said \ Rows)'} = {-1} \cup {f.epoch : f \in said \ Rows}
      BY <2>1
  <2>3. QED BY <1>2, <2>2 DEF Numbers
<1>4. CASE w.lane # Source
  <2>1. Rows' = Rows /\ (said \ Rows)' = (said \ Rows) \cup {w} BY <1>4 DEF Rows
  <2>2. /\ {0} \cup {r.seq : r \in Rows'} = {0} \cup {r.seq : r \in Rows}
        /\ {0} \cup {r.word : r \in Rows'} = {0} \cup {r.word : r \in Rows}
        /\ {-1} \cup {f.epoch : f \in (said \ Rows)'}
             = ({-1} \cup {f.epoch : f \in said \ Rows}) \cup {w.epoch}
      BY <2>1
  <2>3. QED BY <1>2, <2>2 DEF Numbers
<1>5. QED BY <1>3, <1>4

(* In short, what the collector may write and where it goes.                 *)
LEMMA HeardGist ==
    ASSUME NEW g \in Groups, NEW l \in Lanes, NEW c \in CollectorOf, NEW d \in CollectorOf,
           NEW e \in Events, col[g] \in CollectorOf, c.next = col[g].next, HeardIt(g, l, c, d, e)
    PROVE  Gist(g, l, c, d, e)
<1>1. CASE d = c /\ Told BY <1>1 DEF Told, Gist
<1>2. CASE HeardConnected(l, c, d) BY <1>2 DEF HeardConnected, Told, Kept, Gist
<1>3. CASE HeardBack(l, c, d, e) BY <1>3 DEF HeardBack, Gist
<1>4. CASE HeardLost(l, c, d, e) BY <1>4 DEF HeardLost, Kept, Gist
<1>5. CASE HeardRefused(g, c, d)
  <2>1. d.at = "settling" /\ d.next = col[g].next BY <1>5 DEF HeardRefused, CollectorOf
  <2>2. QED BY <1>5, <2>1 DEF HeardRefused, Gist
<1>6. CASE e.kind = "word" /\ HeardRow(g, l, c, d, e) BY <1>6 DEF HeardRow, Gist
<1>7. CASE e.kind = "word" /\ HeardFact(g, l, c, d, e) BY <1>7 DEF HeardFact, Gist
<1>8. CASE HeardError(g, l, c, d) BY <1>8 DEF HeardError, Kept, Gist
<1>9. QED BY <1>1, <1>2, <1>3, <1>4, <1>5, <1>6, <1>7, <1>8 DEF HeardIt

(* A word heard is a fact.                                                   *)
LEMMA WordIs ==
    ASSUME Typed, NEW g \in Groups, NEW l \in Lanes, NEW c \in CollectorOf, NEW e \in Events,
           e.kind = "word", NEW seq \in Nat
    PROVE  LET w == Word(g, l, c, e, seq) IN
           /\ w \in FactOf /\ w.lane = l /\ w.group = g /\ w.epoch = c.view[l].epoch
           /\ w.seq = seq /\ w.word = e.word /\ w.from = <<e.gen, e.leg>>
<1>1. c.view[l].epoch \in Nat /\ <<e.gen, e.leg>> \in Nat \X Nat /\ pushed \in Nat
      /\ e.word \in 0..pushed /\ e.word # 0
    BY DEF CollectorOf, ViewOf, Events, Typed, TypeOK
<1>2. e.word \in 1..pushed BY <1>1
<1>3. QED BY <1>1, <1>2 DEF Word, FactOf

(* What a writer writes has the number it holds, and is the only one to.     *)
LEMMA WriterHear ==
    ASSUME WriterInv, GroupAssumption, NEW g \in Groups, NEW l \in Lanes, Hear(g, l)
    PROVE  WriterInv'
<1>1. Typed /\ TypeOK /\ Numbers /\ Commands BY DEF WriterInv, Typed
<1>2. PICK e \in Events : \E d \in CollectorOf : HeardAct(g, l, e, d) BY <1>1, HearIs
<1>3. PICK d \in CollectorOf : HeardAct(g, l, e, d) BY <1>2
<1> DEFINE c == Revived(col[g], l, e.gen)
<1>4. /\ col[g].at = "run" /\ inbox[g][l] # << >> /\ e = Head(inbox[g][l])
      /\ inbox' = [inbox EXCEPT ![g][l] = Tail(@)]
      /\ col' = [col EXCEPT ![g] = d] /\ HeardIt(g, l, c, d, e)
      /\ UNCHANGED <<capture, pushed, opened, remote, cleanup, stream, cuts, call, troubles>>
    BY <1>3 DEF HeardAct
<1>5. /\ c \in CollectorOf /\ c.at = col[g].at /\ c.next = col[g].next
  <2>1. col[g] \in CollectorOf /\ e.gen \in Nat BY <1>1 DEF Typed, Events
  <2> DEFINE b == col[g]
             n == e.gen
  <2> HIDE DEF b, n
  <2>2. b \in CollectorOf /\ n \in Nat BY <2>1 DEF b, n
  <2>3. Revived(b, l, n) \in CollectorOf /\ Revived(b, l, n).at = b.at
        /\ Revived(b, l, n).next = b.next
      BY <2>2, RevivedIs
  <2>4. QED BY <2>3 DEF b, n
<1> HIDE DEF c
<1>6. g \in 1..opened BY <1>1, <1>4 DEF Commands, TypeOK, Groups
<1>7. Gist(g, l, c, d, e)
  <2>1. col[g] \in CollectorOf BY <1>1 DEF Typed
  <2>2. QED BY <1>4, <1>5, <2>1, HeardGist
<1>8. /\ Word(g, l, c, e, c.next).lane = l
      /\ Word(g, l, c, e, 0).lane = l
      /\ Word(g, l, c, e, c.next).seq = c.next
      /\ e.kind = "word" => Word(g, l, c, e, c.next) \in FactOf /\ Word(g, l, c, e, 0) \in FactOf
  <2>1. c.next \in Nat /\ 0 \in Nat BY <1>5 DEF CollectorOf
  <2>2. e.kind = "word" => Word(g, l, c, e, c.next) \in FactOf /\ Word(g, l, c, e, 0) \in FactOf
      BY <1>1, <1>5, <2>1, WordIs
  <2>3. QED BY <2>2 DEF Word
<1>9. health' \in HealthOf BY <1>1, HearHealth
<1>10. cancelled' \subseteq 1..opened /\ gaps' \subseteq 1..pushed
  <2>1. gaps \subseteq 1..pushed /\ cancelled \subseteq 1..opened /\ pushed \in Nat
      BY <1>1 DEF TypeOK
  <2>2. cancelled' \subseteq 1..opened BY <1>6, <1>7, <2>1 DEF Gist
  <2>3. c.since # Never => (c.since + 1)..pushed \subseteq 1..pushed
      BY <1>5, <2>1 DEF CollectorOf
  <2>4. QED BY <1>7, <2>1, <2>2, <2>3 DEF Gist
<1>11. TypeOK' BY <1>1, <1>4, <1>9, <1>10 DEF TypeOK, HealthOf
<1>12. said' \subseteq FactOf BY <1>1, <1>7, <1>8 DEF Gist, Typed
<1>13. /\ Events' = Events /\ StreamOf' = StreamOf /\ CollectorOf' = CollectorOf
       /\ FactOf' = FactOf
    BY <1>4, SameSets
<1>14. inbox' \in [Groups -> [Lanes -> Seq(Events)]]
  <2>1. inbox \in [Groups -> [Lanes -> Seq(Events)]] /\ inbox[g][l] \in Seq(Events)
      BY <1>1 DEF Typed
  <2>2. Tail(inbox[g][l]) \in Seq(Events) BY <1>4, <2>1, HeadTailProperties
  <2>3. QED BY <1>4, <2>1, <2>2
<1>15. col' \in [Groups -> CollectorOf] /\ col'[g] = d /\ \A h \in Groups \ {g} : col'[h] = col[h]
  <2>1. col \in [Groups -> CollectorOf] BY <1>1 DEF Typed
  <2>2. QED BY <1>4, <2>1
<1>16. Typed' BY <1>1, <1>4, <1>11, <1>12, <1>13, <1>14, <1>15 DEF Typed, CallOf, CutOf
<1>17. Numbers'
  <2>1. CASE said' = said BY <1>1, <2>1 DEF Numbers, Rows
  <2>2. CASE said' # said BY <1>1, <1>7, <1>8, <2>2, NumbersGrow DEF Gist
  <2>3. QED BY <2>1, <2>2
<1>18. Commands'
  <2>1. \A h \in Groups : h > opened => col'[h].at = "none"
    <3>1. \A h \in Groups : h > opened => col[h].at = "none" /\ h # g
        BY <1>1, <1>6 DEF Commands, TypeOK, Groups
    <3>2. QED BY <1>15, <3>1
  <2>2. QED BY <1>1, <1>4, <2>1, CommandsSame
<1>19. ASSUME Sole PROVE Sole'
  <2>1. g \in Writing /\ Writing = {g} /\ opened = g
    <3>1. g \in Writing BY <1>4 DEF Writing
    <3>2. QED BY <1>19, <3>1 DEF Sole, Alone
  <2>2. Writing' = {g}
    <3>1. \A h \in Groups \ {g} : h \notin Writing' BY <1>15, <2>1 DEF Writing
    <3>2. d.at \in {"run", "settling"} BY <1>4, <1>5, <1>7 DEF Gist
    <3>3. QED BY <1>15, <3>1, <3>2 DEF Writing
  <2>3. ~ \E r \in Rows : r.seq = c.next
    <3>1. \A r \in Rows : r.seq < c.next BY <1>5, <1>19, <2>1 DEF Sole, Numbered
    <3>2. \A r \in Rows : r.seq \in Nat BY <1>1 DEF Typed, FactOf, Rows
    <3>3. QED BY <1>5, <3>1, <3>2 DEF CollectorOf
  <2>4. "collided" \notin mishap' BY <1>7, <1>19, <2>3 DEF Gist, Sole
  <2>5. \A r \in Rows' : r.seq < d.next
    <3>1. \A r \in Rows : r.seq < c.next /\ r.seq \in Nat
        BY <1>1, <1>5, <1>19, <2>1 DEF Sole, Numbered, Typed, FactOf, Rows
    <3>2. c.next \in Nat BY <1>5 DEF CollectorOf
    <3>3. CASE said' = said /\ d.next = c.next BY <3>1, <3>3 DEF Rows
    <3>4. CASE said' = said \cup {Word(g, l, c, e, c.next)} /\ d.next = c.next + 1
        BY <1>8, <3>1, <3>2, <3>4 DEF Rows
    <3>5. CASE said' = said \cup {Word(g, l, c, e, 0)} /\ d.next = c.next /\ l # Source
        BY <1>8, <3>1, <3>5 DEF Rows
    <3>6. QED BY <1>7, <3>3, <3>4, <3>5 DEF Gist
  <2>6. Owned'
    <3>1. \/ g \in {remote, cleanup}
          \/ g = call.group /\ call.at \in {"close", "streams", "drain"}
        BY <1>19, <2>1 DEF Sole, Owned
    <3>2. QED BY <1>4, <2>2, <3>1 DEF Owned
  <2>7. Numbered' /\ Alone' BY <1>4, <1>15, <2>1, <2>2, <2>5 DEF Numbered, Alone
  <2>8. QED BY <2>4, <2>6, <2>7 DEF Sole
<1>20. QED
  <2>1. "detached" \in mishap => "detached" \in mishap' BY <1>7 DEF Gist
  <2>2. QED BY <1>16, <1>17, <1>18, <1>19, <2>1 DEF WriterInv

-----------------------------------------------------------------------------
(* The rest of the collector, the owner and the commands.                    *)
LEMMA NumbersSame ==
    ASSUME Numbers, said' = said
    PROVE  Numbers'
    BY DEF Numbers, Rows

(* Collectors that write as before keep the writer alone.                    *)
LEMMA SoleKept ==
    ASSUME Sole, said' = said, opened' = opened,
           "collided" \in mishap' => "collided" \in mishap,
           \A g \in Writing' :
              /\ g \in Writing /\ col'[g].next = col[g].next
              /\ \/ g \in {remote', cleanup'}
                 \/ g = call'.group /\ call'.at \in {"close", "streams", "drain"}
    PROVE  Sole'
    BY DEF Sole, Owned, Numbered, Alone, Rows

(* A collector that only changes its position.                               *)
LEMMA AtIs ==
    ASSUME Typed, NEW g \in Groups,
           NEW at \in {"none", "run", "settling", "done", "failed", "aborted"},
           col' = [col EXCEPT ![g].at = at]
    PROVE  /\ col' \in [Groups -> CollectorOf] /\ col'[g].at = at
           /\ col'[g].next = col[g].next /\ col'[g].view = col[g].view
           /\ col'[g].epoch = col[g].epoch /\ col'[g].final = col[g].final
           /\ col'[g].since = col[g].since
           /\ \A h \in Groups \ {g} : col'[h] = col[h]
<1> DEFINE d == [col[g] EXCEPT !.at = at]
<1>1. col \in [Groups -> CollectorOf] /\ col[g] \in CollectorOf BY DEF Typed
<1>2. d \in CollectorOf /\ d.at = at /\ d.next = col[g].next /\ d.view = col[g].view
      /\ d.epoch = col[g].epoch /\ d.final = col[g].final /\ d.since = col[g].since
    BY <1>1 DEF CollectorOf
<1>3. col' = [col EXCEPT ![g] = d] OBVIOUS
<1> HIDE DEF d
<1>4. QED BY <1>1, <1>2, <1>3

(* A step of a collector that writes nothing keeps the invariant.            *)
LEMMA BesideKeeps ==
    ASSUME WriterInv, Beside, TypeOK', stream' = stream,
           inbox' \in [Groups -> [Lanes -> Seq(Events)]],
           cuts' \in [Groups -> SUBSET CutOf],
           col' \in [Groups -> CollectorOf],
           \A g \in Groups : col'[g].at = "none" <=> col[g].at = "none",
           \A g \in Writing' : g \in Writing /\ col'[g].next = col[g].next,
           "collided" \in mishap' => "collided" \in mishap,
           "detached" \in mishap => "detached" \in mishap'
    PROVE  WriterInv'
<1>1. /\ Events' = Events /\ StreamOf' = StreamOf /\ CollectorOf' = CollectorOf
      /\ FactOf' = FactOf
    BY SameSets DEF Beside
<1>2. Typed' BY <1>1 DEF WriterInv, Typed, Beside, CallOf
<1>3. Numbers' BY NumbersSame DEF WriterInv, Beside
<1>4. Commands'
  <2>1. \A g \in Groups : g > opened => col'[g].at = "none" BY DEF WriterInv, Commands
  <2>2. QED BY <2>1, CommandsSame DEF WriterInv, Beside
<1>5. ASSUME Sole PROVE Sole'
  <2>1. \A g \in Writing' : \/ g \in {remote', cleanup'}
                            \/ g = call'.group /\ call'.at \in {"close", "streams", "drain"}
      BY <1>5 DEF Sole, Owned, Beside
  <2>2. QED BY <1>5, <2>1, SoleKept DEF Beside
<1>6. QED BY <1>2, <1>3, <1>4, <1>5 DEF WriterInv

(* A discontinuity closes a lane or is late.                                 *)
LEMMA HearCutIs ==
    ASSUME Typed, NEW g \in Groups, NEW l \in Lanes, HearCut(g, l)
    PROVE  \E cut \in CutOf, d \in CollectorOf : CutAct(g, l, cut, d)
<1>1. PICK cut \in cuts[g] :
         /\ cut.lane = l /\ \A other \in cuts[g] : other.lane = l => cut.gen <= other.gen
         /\ cuts' = [cuts EXCEPT ![g] = @ \ {cut}]
         /\ LET c == Revived(col[g], l, cut.gen)
            IN  IF Late(c, l, cut.gen) THEN col' = [col EXCEPT ![g] = c] /\ UNCHANGED health
                ELSE /\ col' = [col EXCEPT ![g] = See(c, l, Tombstone(c.view[l]))]
                     /\ Report("down", TRUE)
    BY DEF HearCut
<1>2. /\ col[g].at = "run"
      /\ UNCHANGED <<capture, pushed, said, gaps, opened, remote, cleanup, cancelled, stream,
                     inbox, call, troubles, mishap>>
    BY DEF HearCut, record, owner, faults
<1>3. cut \in CutOf /\ cut.gen \in Nat /\ col[g] \in CollectorOf BY DEF Typed, CutOf
<1> DEFINE c == Revived(col[g], l, cut.gen)
           v == [c.view[l] EXCEPT !.connected = FALSE, !.failed = TRUE]
           d == See(c, l, v)
<1>4. c \in CollectorOf BY <1>3, RevivedIs
<1>5. CASE Late(c, l, cut.gen)
  <2>1. CutAct(g, l, cut, c) BY <1>1, <1>2, <1>5 DEF CutAct, Kept, Marks
  <2>2. QED BY <1>3, <1>4, <2>1
<1>6. CASE ~Late(c, l, cut.gen)
  <2>1. /\ col' = [col EXCEPT ![g] = d] /\ Report("down", TRUE) BY <1>1, <1>6 DEF Tombstone
  <2> HIDE DEF c
  <2>2. v \in ViewOf BY <1>4 DEF CollectorOf, ViewOf
  <2>3. /\ d \in CollectorOf /\ d.view[l] = v /\ \A k \in Lanes \ {l} : d.view[k] = c.view[k]
        /\ Kept(c, d) /\ Marks(c, d)
      BY <1>4, <2>2, SeeIs DEF Kept, Marks
  <2> HIDE DEF d
  <2>4. CutAct(g, l, cut, d) BY <1>1, <1>2, <1>6, <2>1, <2>3 DEF CutAct, c, v
  <2>5. QED BY <1>3, <2>3, <2>4
<1>7. QED BY <1>5, <1>6

(* A discontinuity does not disturb the writer.                              *)
LEMMA WriterCut ==
    ASSUME WriterInv, GroupAssumption, NEW g \in Groups, NEW l \in Lanes, HearCut(g, l)
    PROVE  WriterInv'
<1>1. Typed /\ TypeOK BY DEF WriterInv, Typed
<1>2. PICK cut \in CutOf, d \in CollectorOf : CutAct(g, l, cut, d) BY <1>1, HearCutIs
<1>3. /\ col' = [col EXCEPT ![g] = d] /\ cuts' = [cuts EXCEPT ![g] = @ \ {cut}]
      /\ Beside /\ UNCHANGED <<gaps, cancelled, stream, inbox, troubles, mishap>>
      /\ col[g].at = "run"
    BY <1>2 DEF CutAct, Beside
<1>4. d.at = col[g].at /\ d.next = col[g].next
  <2>1. cut.gen \in Nat /\ col[g] \in CollectorOf BY <1>1 DEF Typed, CutOf
  <2>2. Kept(Revived(col[g], l, cut.gen), d) BY <1>2 DEF CutAct
  <2>3. Revived(col[g], l, cut.gen).at = col[g].at /\ Revived(col[g], l, cut.gen).next = col[g].next
      BY <2>1, RevivedIs
  <2>4. QED BY <2>2, <2>3 DEF Kept
<1>5. col' \in [Groups -> CollectorOf] /\ col'[g] = d /\ \A h \in Groups \ {g} : col'[h] = col[h]
  <2>1. col \in [Groups -> CollectorOf] BY <1>1 DEF Typed
  <2>2. QED BY <1>3, <2>1
<1>6. \A h \in Groups : col'[h].at = col[h].at /\ col'[h].next = col[h].next BY <1>4, <1>5
<1>7. health' \in HealthOf BY <1>1, <1>2, ReportTyped DEF CutAct
<1>8. TypeOK' BY <1>1, <1>3, <1>7 DEF TypeOK, HealthOf, Beside
<1>9. cuts' \in [Groups -> SUBSET CutOf] BY <1>1, <1>3 DEF Typed
<1>10. /\ \A h \in Groups : col'[h].at = "none" <=> col[h].at = "none"
       /\ \A h \in Writing' : h \in Writing /\ col'[h].next = col[h].next
    BY <1>6 DEF Writing
<1>11. QED BY <1>1, <1>3, <1>5, <1>8, <1>9, <1>10, BesideKeeps DEF Typed

(* A group whose queues are emptied.                                         *)
LEMMA ForgetIs ==
    ASSUME Typed, NEW g \in Groups, Forget(g)
    PROVE  /\ inbox' \in [Groups -> [Lanes -> Seq(Events)]] /\ cuts' \in [Groups -> SUBSET CutOf]
           /\ inbox'[g] = Silent /\ cuts'[g] = {}
           /\ \A h \in Groups \ {g} : inbox'[h] = inbox[h] /\ cuts'[h] = cuts[h]
<1>1. Silent \in [Lanes -> Seq(Events)]
  <2>1. << >> \in Seq(Events) OBVIOUS
  <2>2. QED BY <2>1 DEF Silent
<1>2. QED BY <1>1 DEF Forget, Typed

(* A collector that fails, settles or is done writes no more.                *)
LEMMA WriterEnds ==
    ASSUME WriterInv, GroupAssumption, NEW g \in Groups, Break(g) \/ Settle(g) \/ Drain(g)
    PROVE  WriterInv'
<1>1. Typed /\ TypeOK BY DEF WriterInv, Typed
<1>2. /\ Beside /\ UNCHANGED <<gaps, stream, mishap>> /\ col[g].at # "none"
      /\ \E at \in {"settling", "failed", "done"} : col' = [col EXCEPT ![g].at = at]
      /\ col[g].at \in {"run", "settling"}
    BY DEF Break, Settle, Drain, Beside, record, owner, faults
<1>3. PICK at \in {"settling", "failed", "done"} : col' = [col EXCEPT ![g].at = at] BY <1>2
<1>4. /\ col' \in [Groups -> CollectorOf] /\ col'[g].at = at
      /\ col'[g].next = col[g].next /\ \A h \in Groups \ {g} : col'[h] = col[h]
    BY <1>1, <1>3, AtIs
<1>5. inbox' \in [Groups -> [Lanes -> Seq(Events)]] /\ cuts' \in [Groups -> SUBSET CutOf]
  <2>1. CASE Forget(g) BY <1>1, <2>1, ForgetIs
  <2>2. CASE inbox' = inbox /\ cuts' = cuts BY <1>1, <2>2 DEF Typed
  <2>3. QED BY <2>1, <2>2 DEF Break, Settle, Drain, queues
<1>6. g \in 1..opened
  <2>1. g <= opened BY <1>1, <1>2 DEF WriterInv, Commands, Groups, TypeOK
  <2>2. QED BY <1>1, <2>1 DEF Groups, TypeOK
<1>7. health' \in HealthOf BY <1>1, ReportTyped DEF Break, Settle, Drain
<1>8. cancelled' \in {cancelled, cancelled \cup {g}} /\ troubles' \in 0..MaxTroubles
    BY <1>1, TroublesCounted DEF Break, Settle, Drain
<1>9. TypeOK' BY <1>1, <1>2, <1>6, <1>7, <1>8 DEF TypeOK, HealthOf, Beside
<1>10. /\ \A h \in Groups : col'[h].at = "none" <=> col[h].at = "none"
       /\ \A h \in Writing' : h \in Writing /\ col'[h].next = col[h].next
    BY <1>2, <1>4 DEF Writing
<1>11. QED BY <1>2, <1>4, <1>5, <1>9, <1>10, BesideKeeps

-----------------------------------------------------------------------------
(* The streams that are stopped, replaced and forgiven are streams.          *)
LEMMA StreamsLegal ==
    ASSUME Typed, NEW n \in Nat, n >= pushed
    PROVE  /\ StreamOf = StreamTo(pushed)
           /\ stream \in [Lanes -> StreamTo(n)]
           /\ \A lanes : Stopped(lanes) \in [Lanes -> StreamTo(n)]
           /\ \A next \in 1..(n + 1) : Stream(next, 0, 0) \in StreamTo(n)
           /\ \A streams \in [Lanes -> StreamTo(n)] : Forgiven(streams) \in [Lanes -> StreamTo(n)]
           /\ \A lanes : \A streams \in [Lanes -> StreamTo(n)], next \in 1..(n + 1) :
                 Replaced(streams, lanes, next) \in [Lanes -> StreamTo(n)]
<1>1. StreamOf = StreamTo(pushed) /\ stream \in [Lanes -> StreamOf] /\ pushed \in Nat
    BY DEF StreamOf, StreamTo, Typed, TypeOK
<1>2. stream \in [Lanes -> StreamTo(n)]
  <2>1. \A s \in StreamTo(pushed) : s \in StreamTo(n) BY <1>1 DEF StreamTo
  <2>2. QED BY <1>1, <2>1
<1>3. \A lanes : Stopped(lanes) \in [Lanes -> StreamTo(n)]
  <2>1. \A s \in StreamTo(n) : [s EXCEPT !.stopped = TRUE] \in StreamTo(n) BY DEF StreamTo
  <2>2. QED BY <1>2, <2>1 DEF Stopped
<1>4. \A next \in 1..(n + 1), gen, restarts \in Nat : Stream(next, gen, restarts) \in StreamTo(n)
    BY DEF Stream, StreamTo
<1>5. \A streams \in [Lanes -> StreamTo(n)] : Forgiven(streams) \in [Lanes -> StreamTo(n)]
  <2>1. \A s \in StreamTo(n) : [s EXCEPT !.restarts = 0] \in StreamTo(n) BY DEF StreamTo
  <2>2. QED BY <2>1 DEF Forgiven
<1>6. ASSUME NEW streams \in [Lanes -> StreamTo(n)], NEW lanes, NEW next \in 1..(n + 1)
      PROVE  Replaced(streams, lanes, next) \in [Lanes -> StreamTo(n)]
  <2>1. \A l \in Lanes : streams[l] \in StreamTo(n)
                         /\ streams[l].gen + 1 \in Nat /\ streams[l].restarts + 1 \in Nat
      BY DEF StreamTo
  <2>2. \A l \in Lanes : Stream(next, streams[l].gen + 1, streams[l].restarts + 1) \in StreamTo(n)
      BY <1>4, <2>1
  <2>3. QED BY <2>1, <2>2 DEF Replaced
<1>7. \A next \in 1..(n + 1) : Stream(next, 0, 0) \in StreamTo(n) BY <1>4
<1>8. QED BY <1>1, <1>2, <1>3, <1>5, <1>6, <1>7

(* A lane that is cut off is an auxiliary one.                               *)
LEMMA CutTyped ==
    ASSUME Typed, remote \in Groups
    PROVE  \A lanes : lanes \subseteq Aux /\ Cut(lanes) => cuts' \in [Groups -> SUBSET CutOf]
<1> SUFFICES ASSUME NEW lanes, lanes \subseteq Aux, Cut(lanes)
             PROVE  cuts' \in [Groups -> SUBSET CutOf]
    OBVIOUS
<1>1. \A l \in Lanes : stream[l].gen \in Nat BY DEF Typed, StreamOf
<1> DEFINE new == {[lane |-> l, gen |-> stream[l].gen] : l \in lanes}
<1>2. new \subseteq CutOf BY <1>1 DEF CutOf, Lanes
<1>3. cuts' = [cuts EXCEPT ![remote] = @ \cup new] BY DEF Cut
<1> HIDE DEF new
<1>4. QED BY <1>2, <1>3 DEF Typed

(* What is pushed widens the sets.                                           *)
LEMMA WiderSets ==
    ASSUME Typed, pushed' = pushed + 1
    PROVE  /\ [Groups -> [Lanes -> Seq(Events)]] \subseteq [Groups -> [Lanes -> Seq(Events')]]
           /\ [Groups -> CollectorOf] \subseteq [Groups -> CollectorOf']
           /\ FactOf \subseteq FactOf'
           /\ StreamOf' = StreamTo(pushed + 1)
<1>1. pushed \in Nat /\ 0..pushed \subseteq 0..pushed' /\ 1..pushed \subseteq 1..pushed'
    BY DEF Typed, TypeOK
<1>2. Events \subseteq Events' BY <1>1 DEF Events
<1>3. Seq(Events) \subseteq Seq(Events') BY <1>2
<1>4. CollectorOf \subseteq CollectorOf' BY <1>1 DEF CollectorOf
<1>5. FactOf \subseteq FactOf' BY <1>1 DEF FactOf
<1>6. StreamOf' = StreamTo(pushed + 1) BY DEF StreamOf, StreamTo
<1>7. QED BY <1>3, <1>4, <1>5, <1>6

(* A step of the owner keeps the invariant if the group stays in its hands.  *)
LEMMA HandsKeep ==
    ASSUME WriterInv, Typed', Commands', said' = said, opened' = opened, Hands,
           "collided" \in mishap' => "collided" \in mishap,
           "detached" \in mishap => "detached" \in mishap'
    PROVE  WriterInv'
<1>1. Numbers' BY NumbersSame DEF WriterInv
<1>2. ASSUME Sole, "detached" \notin mishap' PROVE Sole'
    BY <1>2, SoleKept DEF Hands, Sole, Owned
<1>3. QED BY <1>1, <1>2 DEF WriterInv

(* It keeps the types if it keeps the streams, queues and collectors.        *)
LEMMA TypedKeeps ==
    ASSUME Typed, pushed' = pushed, said' = said, TypeOK',
           stream' \in [Lanes -> StreamOf],
           inbox' \in [Groups -> [Lanes -> Seq(Events)]],
           cuts' \in [Groups -> SUBSET CutOf],
           col' \in [Groups -> CollectorOf], call' \in CallOf'
    PROVE  Typed'
<1>1. /\ Events' = Events /\ StreamOf' = StreamOf /\ CollectorOf' = CollectorOf
      /\ FactOf' = FactOf
    BY SameSets
<1>2. QED BY <1>1 DEF Typed, CutOf

(* What a fan-out does to the group.                                         *)
LEMMA FanOutIs ==
    ASSUME Typed, GroupAssumption, remote # None, NEW wedged \in SUBSET Lanes, FanOut(wedged)
    PROVE  Fans(wedged)
<1>1. TypeOK /\ remote \in Groups /\ pushed + 1 \in Nat /\ pushed + 1 >= pushed
      /\ pushed + 2 \in 1..((pushed + 1) + 1) /\ cuts \in [Groups -> SUBSET CutOf]
  <2>1. TypeOK /\ pushed \in Nat /\ cuts \in [Groups -> SUBSET CutOf] BY DEF Typed, TypeOK
  <2>2. remote \in Groups BY <2>1 DEF TypeOK, Groups, None, GroupAssumption
  <2>3. QED BY <2>1, <2>2
<1>2. /\ stream \in [Lanes -> StreamTo(pushed + 1)]
      /\ \A lanes : Stopped(lanes) \in [Lanes -> StreamTo(pushed + 1)]
      /\ \A lanes : \A streams \in [Lanes -> StreamTo(pushed + 1)] :
            Replaced(streams, lanes, pushed + 2) \in [Lanes -> StreamTo(pushed + 1)]
  <2> DEFINE n == pushed + 1
             next == pushed + 2
  <2>1. n \in Nat /\ n >= pushed /\ next \in 1..(n + 1) BY <1>1
  <2> HIDE DEF n, next
  <2>2. /\ stream \in [Lanes -> StreamTo(n)]
        /\ \A lanes : Stopped(lanes) \in [Lanes -> StreamTo(n)]
        /\ \A lanes : \A streams \in [Lanes -> StreamTo(n)] :
              Replaced(streams, lanes, next) \in [Lanes -> StreamTo(n)]
      BY <2>1, StreamsLegal
  <2>3. QED BY <2>2 DEF n, next
<1> DEFINE refusing == {l \in Aux : Refuses(l, wedged)}
<1>3. refusing \subseteq Aux OBVIOUS
<1>4. Cut(refusing) => cuts' \in [Groups -> SUBSET CutOf] BY <1>1, <1>3, CutTyped
<1>5. \A X : Blame(X) => mishap' = mishap \cup X BY DEF Blame
<1>6. CASE /\ remote \in cancelled \/ Refuses(Source, wedged)
           /\ IF remote \in cancelled THEN wedged = {} /\ UNCHANGED <<stream, cuts>>
              ELSE stream' = Stopped(refusing) /\ Cut(refusing)
           /\ CleanUp
           /\ IF health.cause THEN UNCHANGED health ELSE Report("down", TRUE)
           /\ Blame(IF wedged = {} THEN {} ELSE {"wedged"})
  <2>1. stream' \in [Lanes -> StreamTo(pushed + 1)] /\ cuts' \in [Groups -> SUBSET CutOf]
      BY <1>1, <1>2, <1>4, <1>6
  <2>2. health' \in HealthOf BY <1>1, <1>6, ReportTyped
  <2>3. mishap' \in {mishap, mishap \cup {"wedged"}} BY <1>6 DEF Blame
  <2>4. remote' = None /\ cleanup' = remote /\ cancelled' = cancelled \cup {remote}
      BY <1>6 DEF CleanUp
  <2>5. QED BY <2>1, <2>2, <2>3, <2>4 DEF Fans
<1>7. CASE /\ remote \notin cancelled /\ ~Refuses(Source, wedged)
           /\ Cut(refusing)
           /\ \E lanes \in SUBSET Aux :
                /\ Reopens(Stopped(refusing), lanes)
                /\ stream' = Replaced(Stopped(refusing), lanes, pushed + 2)
           /\ UNCHANGED <<owner, cancelled, health, mishap>>
  <2>1. health' \in HealthOf BY <1>1, <1>7, ReportTyped
  <2>2. QED BY <1>2, <1>4, <1>7, <2>1 DEF Fans, owner
<1>8. QED BY <1>6, <1>7 DEF FanOut

(* A queue that is full is a trouble.                                        *)
LEMMA WedgedTroubles ==
    ASSUME TypeOK, GroupAssumption, NEW lanes, Wedged(lanes)
    PROVE  troubles' \in 0..MaxTroubles
<1>1. CASE UNCHANGED troubles BY <1>1 DEF TypeOK
<1>2. CASE Trouble("wedge") BY <1>2, TroublesCounted
<1>3. QED BY <1>1, <1>2 DEF Wedged

(* Audio is fanned out to the group in hand or lets go of it.                *)
LEMMA WriterPush ==
    ASSUME WriterInv, GroupAssumption, Push
    PROVE  WriterInv'
<1>1. Typed /\ TypeOK /\ pushed \in Nat BY DEF WriterInv, Typed, TypeOK
<1>2. /\ capture = "recording" /\ call = NoCall /\ pushed < MaxBlocks /\ pushed' = pushed + 1
      /\ UNCHANGED <<capture, said, gaps, opened, inbox, col, call>>
    BY DEF Push, Free, record
<1>3. /\ \/ UNCHANGED <<remote, cleanup, cancelled>>
         \/ /\ remote' = None /\ cleanup' = remote /\ cancelled' = cancelled \cup {remote}
            /\ remote # None
      /\ stream' \in [Lanes -> StreamTo(pushed + 1)]
      /\ cuts' \in [Groups -> SUBSET CutOf]
      /\ health' \in HealthOf
      /\ mishap' \in {mishap, mishap \cup {"wedged"}}
      /\ troubles' \in 0..MaxTroubles
  <2>1. CASE remote = None /\ UNCHANGED <<stream, cuts, owner, cancelled, health, faults>>
    <3>1. stream \in [Lanes -> StreamTo(pushed + 1)]
      <4> DEFINE n == pushed + 1
      <4>1. n \in Nat /\ n >= pushed BY <1>1
      <4> HIDE DEF n
      <4>2. stream \in [Lanes -> StreamTo(n)] BY <1>1, <4>1, StreamsLegal
      <4>3. QED BY <4>2 DEF n
    <3>2. QED BY <1>1, <2>1, <3>1 DEF owner, faults, Typed, TypeOK, HealthOf
  <2>2. CASE remote # None /\ \E wedged \in SUBSET Lanes : Wedged(wedged) /\ FanOut(wedged)
    <3>1. PICK wedged \in SUBSET Lanes : Wedged(wedged) /\ FanOut(wedged) BY <2>2
    <3>2. Fans(wedged) /\ troubles' \in 0..MaxTroubles
        BY <1>1, <2>2, <3>1, FanOutIs, WedgedTroubles
    <3>3. QED BY <2>2, <3>2 DEF Fans
  <2>3. QED BY <2>1, <2>2 DEF Push
<1>4. TypeOK'
  <2>1. pushed' \in 0..MaxBlocks /\ gaps' \subseteq 1..pushed'
      BY <1>1, <1>2 DEF TypeOK, GroupAssumption
  <2>2. /\ {remote', cleanup'} \subseteq 0..opened' /\ (remote' = None \/ cleanup' = None)
        /\ cancelled' \subseteq 1..opened'
    <3>1. /\ remote \in 0..opened /\ cleanup \in 0..opened /\ (remote = None \/ cleanup = None)
          /\ cancelled \subseteq 1..opened /\ opened \in Nat /\ opened' = opened
          /\ (remote # None => remote \in 1..opened) /\ None \in 0..opened
        BY <1>1, <1>2 DEF TypeOK, None
    <3>2. CASE UNCHANGED <<remote, cleanup, cancelled>> BY <3>1, <3>2
    <3>3. CASE /\ remote' = None /\ cleanup' = remote /\ cancelled' = cancelled \cup {remote}
               /\ remote # None
        BY <3>1, <3>3
    <3>4. QED BY <1>3, <3>2, <3>3
  <2>3. QED BY <1>1, <1>2, <1>3, <2>1, <2>2 DEF TypeOK, HealthOf
<1>5. Typed'
  <2>1. /\ [Groups -> [Lanes -> Seq(Events)]] \subseteq [Groups -> [Lanes -> Seq(Events')]]
        /\ [Groups -> CollectorOf] \subseteq [Groups -> CollectorOf']
        /\ FactOf \subseteq FactOf' /\ StreamOf' = StreamTo(pushed + 1)
      BY <1>1, <1>2, WiderSets
  <2>2. inbox' \in [Groups -> [Lanes -> Seq(Events')]] /\ col' \in [Groups -> CollectorOf']
        /\ said' \subseteq FactOf' /\ stream' \in [Lanes -> StreamOf'] /\ call' \in CallOf'
      BY <1>1, <1>2, <1>3, <2>1 DEF Typed, CallOf
  <2>3. QED BY <1>3, <1>4, <2>2 DEF Typed, CutOf
<1>6. Commands' BY <1>2, <1>3 DEF WriterInv, Commands, Stage, NoCall
<1>7. Hands BY <1>1, <1>2, <1>3 DEF Hands, Writing, NoCall, TypeOK
<1>8. QED BY <1>2, <1>3, <1>5, <1>6, <1>7, HandsKeep

-----------------------------------------------------------------------------
(* The commands.  They leave the transcript to its writer.                   *)
LEMMA StreamsNow ==
    ASSUME Typed
    PROVE  /\ StreamOf = StreamTo(pushed)
           /\ \A lanes : Stopped(lanes) \in [Lanes -> StreamOf]
           /\ \A lanes, others : Replaced(Forgiven(Stopped(lanes)), others, pushed + 1)
                                   \in [Lanes -> StreamOf]
           /\ Stream(pushed + 1, 0, 0) \in StreamOf
<1> DEFINE n == pushed
           next == pushed + 1
<1>1. n \in Nat /\ n >= pushed /\ next \in 1..(n + 1) BY DEF Typed, TypeOK
<1> HIDE DEF n, next
<1>2. /\ StreamOf = StreamTo(pushed)
      /\ \A lanes : Stopped(lanes) \in [Lanes -> StreamTo(n)]
      /\ Stream(next, 0, 0) \in StreamTo(n)
      /\ \A streams \in [Lanes -> StreamTo(n)] : Forgiven(streams) \in [Lanes -> StreamTo(n)]
      /\ \A lanes : \A streams \in [Lanes -> StreamTo(n)] :
            Replaced(streams, lanes, next) \in [Lanes -> StreamTo(n)]
    BY <1>1, StreamsLegal
<1>3. QED BY <1>2 DEF n, next

(* A control: the group takes it or is shut down.                            *)
LEMMA WriterPause ==
    ASSUME WriterInv, GroupAssumption, NEW op \in {"pause", "resume"}, Pause(op)
    PROVE  WriterInv'
<1>1. Typed /\ TypeOK /\ Commands BY DEF WriterInv, Typed
<1>2. /\ call = NoCall
      /\ \/ op = "pause" /\ capture = "recording" /\ capture' = "paused"
         \/ op = "resume" /\ capture = "paused" /\ capture' = "recording" /\ opened < MaxGroups
      /\ UNCHANGED <<pushed, said, gaps, opened, inbox, col, mishap>>
    BY DEF Pause, Free, record
<1>3. /\ cleanup' = cleanup /\ health' \in HealthOf /\ troubles' \in 0..MaxTroubles
      /\ \/ remote' = remote /\ cancelled' = cancelled
            /\ call' = IF op = "pause" THEN NoCall ELSE [NoCall EXCEPT !.op = op, !.at = "restart"]
         \/ remote # None /\ remote' = None /\ cancelled' = cancelled \cup {remote}
            /\ call' = [NoCall EXCEPT !.op = op, !.at = "close", !.group = remote]
      /\ stream' \in [Lanes -> StreamOf] /\ cuts' \in [Groups -> SUBSET CutOf]
  <2>1. CASE /\ remote = None
             /\ IF health.is = "down" THEN UNCHANGED health ELSE Report("down", TRUE)
             /\ call' = IF op = "pause" THEN NoCall
                        ELSE [NoCall EXCEPT !.op = op, !.at = "restart"]
             /\ UNCHANGED <<stream, cuts, owner, cancelled, troubles>>
    <3>1. health' \in HealthOf BY <1>1, <2>1, ReportTyped
    <3>2. QED BY <1>1, <2>1, <3>1 DEF owner, Typed, TypeOK
  <2>2. CASE /\ remote # None /\ health' = health
             /\ \E wedged \in SUBSET Lanes : Wedged(wedged) /\ Control(op, wedged)
    <3>1. PICK wedged \in SUBSET Lanes : Wedged(wedged) /\ Control(op, wedged) BY <2>2
    <3> DEFINE refusing == {l \in Aux : Refuses(l, wedged)}
    <3>2. troubles' \in 0..MaxTroubles /\ health' \in HealthOf
        BY <1>1, <2>2, <3>1, WedgedTroubles, ReportTyped
    <3>3. remote \in Groups BY <1>1, <2>2 DEF TypeOK, Groups, None, GroupAssumption
    <3>4. Cut(refusing) => cuts' \in [Groups -> SUBSET CutOf] BY <1>1, <3>3, CutTyped
    <3>5. Stopped(refusing) \in [Lanes -> StreamOf] BY <1>1, StreamsNow
    <3>6. stream \in [Lanes -> StreamOf] /\ cuts \in [Groups -> SUBSET CutOf] BY <1>1 DEF Typed
    <3>7. stream' \in [Lanes -> StreamOf] /\ cuts' \in [Groups -> SUBSET CutOf]
        BY <3>1, <3>4, <3>5, <3>6 DEF Control
    <3>8. /\ cleanup' = cleanup
          /\ \/ remote' = remote /\ cancelled' = cancelled
                /\ call' = IF op = "pause" THEN NoCall ELSE [NoCall EXCEPT !.op = op, !.at = "restart"]
             \/ remote' = None /\ cancelled' = cancelled \cup {remote}
                /\ call' = [NoCall EXCEPT !.op = op, !.at = "close", !.group = remote]
        BY <3>1 DEF Control, owner
    <3>9. QED BY <2>2, <3>2, <3>7, <3>8
  <2>3. QED BY <2>1, <2>2 DEF Pause
<1>4. TypeOK'
  <2>1. /\ remote \in 0..opened /\ cleanup \in 0..opened /\ (remote = None \/ cleanup = None)
        /\ cancelled \subseteq 1..opened /\ opened \in Nat /\ opened' = opened
        /\ (remote # None => remote \in 1..opened) /\ None \in 0..opened
      BY <1>1, <1>2 DEF TypeOK, None
  <2>2. {remote', cleanup'} \subseteq 0..opened' /\ (remote' = None \/ cleanup' = None)
        /\ cancelled' \subseteq 1..opened'
      BY <1>3, <2>1
  <2>3. QED BY <1>1, <1>2, <1>3, <2>2 DEF TypeOK, HealthOf
<1>5. call' \in CallOf'
  <2>1. remote \in 0..opened' /\ 0 \in 0..opened' BY <1>1, <1>2 DEF TypeOK
  <2>2. NoCall \in CallOf' BY <2>1 DEF CallOf, NoCall, None
  <2>3. [NoCall EXCEPT !.op = op, !.at = "restart"] \in CallOf' BY <2>2 DEF CallOf
  <2>4. [NoCall EXCEPT !.op = op, !.at = "close", !.group = remote] \in CallOf'
      BY <2>1, <2>2 DEF CallOf
  <2>5. QED BY <1>3, <2>2, <2>3, <2>4
<1>6. Typed'
  <2>1. inbox' \in [Groups -> [Lanes -> Seq(Events)]] /\ col' \in [Groups -> CollectorOf]
      BY <1>1, <1>2 DEF Typed
  <2>2. QED BY <1>1, <1>2, <1>3, <1>4, <1>5, <2>1, TypedKeeps
<1>7. Commands' BY <1>1, <1>2, <1>3 DEF Commands, Stage, NoCall
<1>8. Hands BY <1>1, <1>2, <1>3 DEF Hands, Writing, NoCall, TypeOK
<1>9. QED BY <1>2, <1>6, <1>7, <1>8, HandsKeep

(* A restart takes the capture.                                              *)
LEMMA WriterRestart ==
    ASSUME WriterInv, GroupAssumption, Restart
    PROVE  WriterInv'
<1>1. Typed /\ TypeOK /\ Commands BY DEF WriterInv, Typed
<1>2. /\ call = NoCall /\ capture = "recording" /\ opened < MaxGroups
      /\ call' = [NoCall EXCEPT !.op = "restart", !.at = "restart"]
      /\ UNCHANGED <<capture, pushed, health, said, gaps, opened, remote, cleanup, cancelled, stream,
                     inbox, cuts, col, troubles, mishap>>
    BY DEF Restart, Free, record, owner, queues, faults
<1>3. TypeOK' BY <1>1, <1>2 DEF TypeOK
<1>4. Typed'
  <2>1. call' \in CallOf' BY <1>1, <1>2 DEF CallOf, NoCall, None, TypeOK
  <2>2. QED BY <1>1, <1>2, <1>3, <2>1, TypedKeeps DEF Typed
<1>5. Commands' BY <1>1, <1>2 DEF Commands, Stage, NoCall
<1>6. Hands BY <1>1, <1>2 DEF Hands, Writing, NoCall
<1>7. QED BY <1>2, <1>4, <1>5, <1>6, HandsKeep

(* A group that still has its writer is kept, one that has ended cleaned up. *)
LEMMA WriterReopen ==
    ASSUME WriterInv, GroupAssumption, Reopen
    PROVE  WriterInv'
<1>1. Typed /\ TypeOK /\ Commands BY DEF WriterInv, Typed
<1> DEFINE dead == {l \in Aux : Refuses(l, {})}
           lanes == Forgiven(Stopped(dead))
<1>2. /\ call.at = "restart" /\ remote # None
      /\ UNCHANGED <<capture, pushed, health, said, gaps, opened, inbox, col, troubles, mishap>>
    BY DEF Reopen, record, faults
<1>3. \/ /\ \/ UNCHANGED <<stream, cuts>>
            \/ Cut(dead) /\ stream' = Replaced(lanes, {l \in Aux : lanes[l].stopped}, pushed + 1)
         /\ call' = NoCall /\ UNCHANGED <<remote, cleanup, cancelled>>
      \/ /\ cancelled' = cancelled \cup {remote} /\ cleanup' = remote /\ remote' = None
         /\ call' = [call EXCEPT !.at = "join"] /\ UNCHANGED <<stream, cuts>>
    BY DEF Reopen, CleanUp, GoTo, owner
<1>4. stream' \in [Lanes -> StreamOf] /\ cuts' \in [Groups -> SUBSET CutOf]
  <2>1. remote \in Groups BY <1>1, <1>2 DEF TypeOK, Groups, None, GroupAssumption
  <2>2. Cut(dead) => cuts' \in [Groups -> SUBSET CutOf] BY <1>1, <2>1, CutTyped
  <2>3. Replaced(lanes, {l \in Aux : lanes[l].stopped}, pushed + 1) \in [Lanes -> StreamOf]
      BY <1>1, StreamsNow
  <2>4. stream \in [Lanes -> StreamOf] /\ cuts \in [Groups -> SUBSET CutOf] BY <1>1 DEF Typed
  <2> HIDE DEF dead, lanes
  <2>5. QED BY <1>3, <2>2, <2>3, <2>4
<1>5. TypeOK'
  <2>1. /\ remote \in 0..opened /\ cleanup \in 0..opened /\ (remote = None \/ cleanup = None)
        /\ cancelled \subseteq 1..opened /\ opened \in Nat /\ opened' = opened
        /\ remote \in 1..opened /\ None \in 0..opened
      BY <1>1, <1>2 DEF TypeOK, None
  <2>2. {remote', cleanup'} \subseteq 0..opened' /\ (remote' = None \/ cleanup' = None)
        /\ cancelled' \subseteq 1..opened'
      BY <1>3, <2>1
  <2>3. QED BY <1>1, <1>2, <2>2 DEF TypeOK
<1>6. call' \in CallOf'
  <2>1. call \in CallOf /\ NoCall \in CallOf' /\ CallOf' = CallOf
      BY <1>1, <1>2 DEF CallOf, NoCall, None, TypeOK, Typed
  <2>2. QED BY <1>3, <2>1 DEF CallOf
<1>7. Typed'
  <2>1. inbox' \in [Groups -> [Lanes -> Seq(Events)]] /\ col' \in [Groups -> CollectorOf]
      BY <1>1, <1>2 DEF Typed
  <2>2. QED BY <1>1, <1>2, <1>4, <1>5, <1>6, <2>1, TypedKeeps
<1>8. Commands'
  <2>1. call \in CallOf BY <1>1 DEF Typed
  <2>2. QED BY <1>1, <1>2, <1>3, <2>1 DEF Commands, Stage, NoCall, CallOf
<1>9. Hands BY <1>1, <1>2, <1>3 DEF Hands, Writing, NoCall, TypeOK
<1>10. QED BY <1>2, <1>7, <1>8, <1>9, HandsKeep

(* A command goes on to another stage.                                       *)
LEMMA GoToTyped ==
    ASSUME Typed, opened' = opened,
           NEW at \in {"restart", "join", "start", "drain", "tail", "leave"}, GoTo(at)
    PROVE  /\ call' \in CallOf' /\ call'.op = call.op /\ call'.at = at
           /\ call'.group = call.group /\ call'.owed = call.owed
<1>1. call \in CallOf /\ CallOf' = CallOf BY DEF Typed, CallOf
<1>2. call' = [call EXCEPT !.at = at] BY DEF GoTo
<1>3. QED BY <1>1, <1>2 DEF CallOf

(* A step that changes neither streams nor what is written.                  *)
LEMMA WriterReplace ==
    ASSUME WriterInv, GroupAssumption, Replace
    PROVE  WriterInv'
<1>1. Typed /\ TypeOK /\ Commands BY DEF WriterInv, Typed
<1>2. /\ call.at = "restart" /\ remote = None
      /\ UNCHANGED <<capture, pushed, said, opened, stream, health, gaps, remote, cleanup, cancelled,
                     inbox, cuts, col, troubles, mishap>>
      /\ \/ cleanup = None /\ GoTo("start")
         \/ cleanup # None /\ GoTo("join")
    BY DEF Replace, KeepsStreams, owner, queues, faults
<1>3. /\ call' \in CallOf' /\ call'.op = call.op /\ call'.at \in {"start", "join"}
      /\ (call'.at = "start" => cleanup = None)
    BY <1>1, <1>2, GoToTyped
<1>4. TypeOK' BY <1>1, <1>2 DEF TypeOK
<1>5. Typed' BY <1>1, <1>2, <1>3, <1>4, TypedKeeps DEF Typed
<1>6. Commands' BY <1>1, <1>2, <1>3 DEF Commands, Stage, NoCall
<1>7. Hands BY <1>1, <1>2, <1>3 DEF Hands, Writing
<1>8. QED BY <1>2, <1>5, <1>6, <1>7, HandsKeep

(* A collector that is aborted writes no more.                               *)
LEMMA AbortIs ==
    ASSUME Typed, GroupAssumption, NEW g \in Groups, Abort(g)
    PROVE  /\ col[g].at = "run"
           /\ troubles' \in 0..MaxTroubles
           /\ col' \in [Groups -> CollectorOf] /\ col'[g].at = "aborted"
           /\ \A h \in Groups \ {g} : col'[h] = col[h]
           /\ inbox' \in [Groups -> [Lanes -> Seq(Events)]] /\ cuts' \in [Groups -> SUBSET CutOf]
           /\ \A h \in Groups : col'[h].at = "none" <=> col[h].at = "none"
           /\ Writing' \subseteq Writing \ {g}
<1>1. TypeOK /\ col[g].at = "run" /\ Trouble("slow") /\ col' = [col EXCEPT ![g].at = "aborted"]
      /\ Forget(g)
    BY DEF Abort, Typed
<1>2. /\ col' \in [Groups -> CollectorOf] /\ col'[g].at = "aborted"
      /\ \A h \in Groups \ {g} : col'[h] = col[h]
    BY <1>1, AtIs
<1>3. QED BY <1>1, <1>2, ForgetIs, TroublesCounted DEF Writing

(* A cleanup may abort the collector it waits for.                           *)
LEMMA WriterAborts ==
    ASSUME WriterInv, GroupAssumption, CleanupAborts
    PROVE  WriterInv'
<1>1. Typed /\ TypeOK /\ Commands BY DEF WriterInv, Typed
<1>2. cleanup \in Groups BY <1>1 DEF CleanupAborts, TypeOK, Groups, None, GroupAssumption
<1>3. /\ UNCHANGED <<capture, pushed, said, opened, stream, health, gaps, remote, cleanup,
                     cancelled, call>>
      /\ Abort(cleanup) /\ mishap' = mishap \cup {"abandoned"}
    BY DEF CleanupAborts, KeepsStreams, owner, Blame
<1>4. /\ troubles' \in 0..MaxTroubles
      /\ col' \in [Groups -> CollectorOf] /\ col'[cleanup].at = "aborted"
      /\ \A h \in Groups \ {cleanup} : col'[h] = col[h]
      /\ inbox' \in [Groups -> [Lanes -> Seq(Events)]] /\ cuts' \in [Groups -> SUBSET CutOf]
      /\ \A h \in Groups : col'[h].at = "none" <=> col[h].at = "none"
      /\ Writing' \subseteq Writing \ {cleanup}
    BY <1>1, <1>2, <1>3, AbortIs
<1>5. TypeOK' BY <1>1, <1>3, <1>4 DEF TypeOK
<1>6. \A h \in Writing' : h \in Writing /\ col'[h].next = col[h].next BY <1>4 DEF Writing
<1>7. QED BY <1>3, <1>4, <1>5, <1>6, BesideKeeps DEF Beside

(* The old writer is waited for, or detached.                                *)
LEMMA WriterJoin ==
    ASSUME WriterInv, GroupAssumption, Join
    PROVE  WriterInv'
<1>1. Typed /\ TypeOK /\ Commands BY DEF WriterInv, Typed
<1>2. /\ call.at = "join" /\ cleanup' = None
      /\ UNCHANGED <<capture, pushed, said, opened, stream, health, gaps, remote, cancelled,
                     inbox, cuts, col>>
      /\ \/ (cleanup = None \/ Ended(cleanup)) /\ UNCHANGED faults
         \/ Trouble("slow") /\ mishap' = mishap \cup {"detached"}
      /\ GoTo(CASE call.op = "stop" -> "tail" [] call.op = "interrupt" -> "leave" [] OTHER -> "start")
    BY DEF Join, KeepsStreams, queues, Blame
<1>3. /\ troubles' \in 0..MaxTroubles
      /\ ("collided" \in mishap' => "collided" \in mishap)
      /\ ("detached" \in mishap => "detached" \in mishap')
    BY <1>1, <1>2, TroublesCounted DEF faults
<1>4. /\ \/ call.op = "stop" /\ GoTo("tail")
         \/ call.op = "interrupt" /\ GoTo("leave")
         \/ call.op \in {"resume", "restart"} /\ GoTo("start")
  <2>1. call.op \in {"stop", "interrupt", "resume", "restart"}
      BY <1>1, <1>2 DEF Commands, Stage, NoCall
  <2>2. QED BY <1>2, <2>1
<1>5. /\ call' \in CallOf' /\ call'.op = call.op
      /\ \/ call.op = "stop" /\ call'.at = "tail"
         \/ call.op = "interrupt" /\ call'.at = "leave"
         \/ call.op \in {"resume", "restart"} /\ call'.at = "start"
  <2>1. opened' = opened BY <1>2
  <2>2. QED BY <1>1, <1>4, <2>1, GoToTyped
<1>6. TypeOK' BY <1>1, <1>2, <1>3 DEF TypeOK, None
<1>7. Typed' BY <1>1, <1>2, <1>5, <1>6, TypedKeeps DEF Typed
<1>8. Commands' BY <1>1, <1>2, <1>5 DEF Commands, Stage, NoCall
<1>9. Hands
  <2>1. ASSUME NEW g \in Writing', g = cleanup PROVE "detached" \in mishap'
    <3>1. col[g].at \in {"run", "settling"} /\ g \in Groups BY <1>2, <2>1 DEF Writing
    <3>2. ~(cleanup = None \/ Ended(cleanup)) BY <2>1, <3>1 DEF Groups, None, Ended
    <3>3. QED BY <1>2, <3>2
  <2>2. QED BY <1>1, <1>2, <1>5, <2>1 DEF Hands, Writing
<1>10. QED BY <1>2, <1>3, <1>7, <1>8, <1>9, HandsKeep

(* What is recorded as a gap was pushed.                                     *)
LEMMA GapsTyped ==
    ASSUME Typed, Numbers
    PROVE  Untranscribed \subseteq 1..pushed /\ Through \in Nat
<1> DEFINE S == {0} \cup {r.word : r \in Rows}
<1>1. S \subseteq Nat /\ S \subseteq Int /\ Topped(S) /\ pushed \in Nat
  <2>1. \A r \in Rows : r.word \in Nat BY DEF Typed, FactOf, Rows, TypeOK
  <2>2. QED BY <2>1 DEF Numbers, Typed, TypeOK
<1> HIDE DEF S
<1>2. Max(S) \in S BY <1>1, TopMax
<1>3. Through \in Nat BY <1>1, <1>2 DEF Through, S
<1>4. QED BY <1>1, <1>3 DEF Untranscribed

(* A gap is recorded or lost.                                                *)
LEMMA RecordGapIs ==
    ASSUME Typed, Numbers, GroupAssumption, RecordGap
    PROVE  /\ gaps' \subseteq 1..pushed /\ gaps \subseteq gaps' /\ troubles' \in 0..MaxTroubles
           /\ mishap' \in {mishap, mishap \cup {"gap lost"}}
           /\ Untranscribed \subseteq gaps' \/ mishap' = mishap \cup {"gap lost"}
<1>1. TypeOK /\ Untranscribed \subseteq 1..pushed /\ gaps \subseteq 1..pushed
    BY GapsTyped DEF Typed, TypeOK
<1>2. QED BY <1>1, TroublesCounted DEF RecordGap, Blame, faults

(* The numbers a new collector starts with are beyond those written.         *)
LEMMA NextNumbers ==
    ASSUME Typed, Numbers
    PROVE  /\ NextSequence \in Nat \ {0} /\ \A r \in Rows : r.seq < NextSequence
           /\ NextEpoch \in Nat /\ \A f \in said \ Rows : f.epoch < NextEpoch
<1> DEFINE S == {0} \cup {r.seq : r \in Rows}
           T == {-1} \cup {f.epoch : f \in said \ Rows}
<1>1. /\ S \subseteq Nat /\ S \subseteq Int /\ Topped(S)
      /\ T \subseteq Nat \cup {-1} /\ T \subseteq Int /\ Topped(T)
  <2>1. \A r \in said : r.seq \in Nat /\ r.epoch \in Nat BY DEF Typed, FactOf
  <2>2. QED BY <2>1 DEF Numbers, Rows
<1>2. \A r \in Rows : r.seq \in S OBVIOUS
<1>3. \A f \in said \ Rows : f.epoch \in T OBVIOUS
<1> HIDE DEF S, T
<1>4. Max(S) \in S /\ (\A x \in S : Max(S) >= x) /\ Max(T) \in T /\ \A x \in T : Max(T) >= x
    BY <1>1, TopMax
<1>5. NextSequence = Max(S) + 1 /\ NextEpoch = Max(T) + 1 BY DEF NextSequence, NextEpoch, S, T
<1>6. NextSequence \in Nat \ {0} /\ NextEpoch \in Nat
  <2>1. Max(S) \in Nat BY <1>1, <1>4
  <2>2. Max(T) \in Nat \cup {-1} BY <1>1, <1>4
  <2>3. Max(S) + 1 \in Nat \ {0} BY <2>1
  <2>4. Max(T) + 1 \in Nat BY <2>2
  <2>5. QED BY <1>5, <2>3, <2>4
<1>7. ASSUME NEW r \in Rows PROVE r.seq < NextSequence
  <2>1. r.seq \in S /\ r.seq \in Int /\ Max(S) \in Int /\ Max(S) >= r.seq BY <1>1, <1>2, <1>4
  <2>2. QED BY <1>5, <2>1
<1>8. ASSUME NEW f \in said \ Rows PROVE f.epoch < NextEpoch
  <2>1. f.epoch \in T /\ f.epoch \in Int /\ Max(T) \in Int /\ Max(T) >= f.epoch
      BY <1>1, <1>3, <1>4
  <2>2. QED BY <1>5, <2>1
<1>9. QED BY <1>6, <1>7, <1>8

(* A new collector is one.                                                   *)
LEMMA CollectorIs ==
    ASSUME NEW at \in {"none", "run"}, NEW next \in Nat \ {0}, NEW epoch \in Nat, pushed \in Nat
    PROVE  /\ Collector(at, next, epoch) \in CollectorOf
           /\ Collector(at, next, epoch).at = at /\ Collector(at, next, epoch).next = next
           /\ Collector(at, next, epoch).epoch = epoch
           /\ Collector(at, next, epoch).final = Never /\ Collector(at, next, epoch).since = Never
<1>1. [View EXCEPT !.epoch = epoch] \in ViewOf BY DEF View, ViewOf
<1>2. QED BY <1>1 DEF Collector, CollectorOf

(* A new collector has heard nothing of a lane.                              *)
LEMMA CollectorSees ==
    ASSUME NEW at, NEW next, NEW epoch, NEW l \in Lanes
    PROVE  Collector(at, next, epoch).view[l] = [View EXCEPT !.epoch = epoch]
    BY DEF Collector

(* A start opens a group or is refused.                                      *)
LEMMA StartIs ==
    ASSUME WriterInv, GroupAssumption, Start
    PROVE  /\ call.at = "start" /\ call.op \in {"resume", "restart"} /\ call' = NoCall
           /\ remote = None /\ cleanup = None /\ cleanup' = None /\ opened < MaxGroups
           /\ UNCHANGED <<capture, pushed, said, cancelled, inbox, cuts>>
           /\ gaps' \subseteq 1..pushed /\ health' \in HealthOf /\ troubles' \in 0..MaxTroubles
           /\ mishap' \in {mishap, mishap \cup {"gap lost"}}
           /\ \/ UNCHANGED <<opened, remote, stream, col>>
              \/ /\ opened' = opened + 1 /\ remote' = opened + 1 /\ opened + 1 \in Groups
                 /\ stream' = [l \in Lanes |-> Stream(pushed + 1, 0, 0)]
                 /\ col' = [col EXCEPT ![opened + 1] = Collector("run", NextSequence, NextEpoch)]
<1>1. Typed /\ TypeOK /\ Commands /\ Numbers BY DEF WriterInv, Typed
<1>2. /\ call.at = "start" /\ call' = NoCall
      /\ UNCHANGED <<capture, pushed, said, cancelled, inbox, cuts>>
    BY DEF Start, queues
<1>3. /\ call.op \in {"resume", "restart"} /\ remote = None /\ cleanup = None
      /\ opened < MaxGroups /\ opened + 1 \in Groups
    BY <1>1, <1>2 DEF Commands, Stage, NoCall, TypeOK, Groups, GroupAssumption
<1>4. CASE RecordGap /\ OpenGroup /\ Report("connecting", FALSE) /\ UNCHANGED cleanup
  <2>1. /\ gaps' \subseteq 1..pushed /\ troubles' \in 0..MaxTroubles
        /\ mishap' \in {mishap, mishap \cup {"gap lost"}}
      BY <1>1, <1>4, RecordGapIs
  <2>2. health' \in HealthOf BY <1>1, <1>4, ReportTyped
  <2>3. QED BY <1>2, <1>3, <1>4, <2>1, <2>2 DEF OpenGroup
<1>5. CASE /\ Trouble("refuse") /\ gaps' = gaps \cup Untranscribed /\ Report("down", TRUE)
           /\ UNCHANGED <<opened, owner, stream, col, mishap>>
  <2>1. troubles' \in 0..MaxTroubles /\ health' \in HealthOf /\ gaps' \subseteq 1..pushed
      BY <1>1, <1>5, TroublesCounted, ReportTyped, GapsTyped DEF TypeOK
  <2>2. QED BY <1>2, <1>3, <1>5, <2>1 DEF owner
<1>6. QED BY <1>4, <1>5 DEF Start

(* A group opens once nobody writes, behind all that was written.            *)
LEMMA WriterStart ==
    ASSUME WriterInv, GroupAssumption, Start
    PROVE  WriterInv'
<1>1. Typed /\ TypeOK /\ Commands /\ Numbers BY DEF WriterInv, Typed
<1>2. /\ call.at = "start" /\ call.op \in {"resume", "restart"} /\ call' = NoCall
      /\ remote = None /\ cleanup = None /\ cleanup' = None /\ opened < MaxGroups
      /\ UNCHANGED <<capture, pushed, said, cancelled, inbox, cuts>>
      /\ gaps' \subseteq 1..pushed /\ health' \in HealthOf /\ troubles' \in 0..MaxTroubles
      /\ mishap' \in {mishap, mishap \cup {"gap lost"}}
    BY StartIs
<1>3. CASE UNCHANGED <<opened, remote, stream, col>>
  <2>1. TypeOK' BY <1>1, <1>2, <1>3 DEF TypeOK, HealthOf
  <2>2. call' \in CallOf' BY <1>1, <1>2, <1>3 DEF CallOf, NoCall, None, TypeOK
  <2>3. Typed' BY <1>1, <1>2, <1>3, <2>1, <2>2, TypedKeeps DEF Typed
  <2>4. Commands' BY <1>1, <1>2, <1>3 DEF Commands, Stage, NoCall
  <2>5. Hands BY <1>1, <1>2, <1>3 DEF Hands, Writing, NoCall
  <2>6. QED BY <1>2, <1>3, <2>3, <2>4, <2>5, HandsKeep
<1>4. CASE /\ opened' = opened + 1 /\ remote' = opened + 1 /\ opened + 1 \in Groups
           /\ stream' = [l \in Lanes |-> Stream(pushed + 1, 0, 0)]
           /\ col' = [col EXCEPT ![opened + 1] = Collector("run", NextSequence, NextEpoch)]
  <2> DEFINE d == Collector("run", NextSequence, NextEpoch)
  <2>1. /\ NextSequence \in Nat \ {0} /\ \A r \in Rows : r.seq < NextSequence
        /\ NextEpoch \in Nat
      BY <1>1, NextNumbers
  <2>2. d \in CollectorOf /\ d.at = "run" /\ d.next = NextSequence
    <3> DEFINE next == NextSequence
               epoch == NextEpoch
    <3>1. next \in Nat \ {0} /\ epoch \in Nat /\ pushed \in Nat /\ "run" \in {"none", "run"}
        BY <1>1, <2>1 DEF TypeOK
    <3> HIDE DEF next, epoch
    <3>2. /\ Collector("run", next, epoch) \in CollectorOf /\ Collector("run", next, epoch).at = "run"
          /\ Collector("run", next, epoch).next = next
        BY <3>1, CollectorIs
    <3>3. QED BY <3>2 DEF next, epoch
  <2> HIDE DEF d
  <2>3. col' = [col EXCEPT ![opened + 1] = d] BY <1>4 DEF d
  <2>4. /\ col' \in [Groups -> CollectorOf] /\ col'[opened + 1] = d
        /\ \A h \in Groups \ {opened + 1} : col'[h] = col[h]
      BY <1>1, <1>4, <2>2, <2>3 DEF Typed
  <2>5. stream' \in [Lanes -> StreamOf]
    <3>1. Stream(pushed + 1, 0, 0) \in StreamOf BY <1>1, StreamsNow
    <3>2. QED BY <1>4, <3>1
  <2>6. TypeOK'
    <3>1. opened' \in 0..MaxGroups /\ {remote', cleanup'} \subseteq 0..opened'
          /\ cancelled' \subseteq 1..opened'
      <4>1. opened \in Nat /\ cancelled \subseteq 1..opened /\ MaxGroups \in Nat
            /\ opened + 1 <= MaxGroups
          BY <1>1, <1>4 DEF TypeOK, Groups, GroupAssumption
      <4>2. 1..opened \subseteq 1..(opened + 1) /\ opened + 1 \in 0..MaxGroups
            /\ opened + 1 \in 0..(opened + 1) /\ 0 \in 0..(opened + 1)
          BY <4>1
      <4>3. QED BY <1>2, <1>4, <4>1, <4>2 DEF None
    <3>2. QED BY <1>1, <1>2, <3>1 DEF TypeOK, HealthOf
  <2>7. call' \in CallOf'
    <3>1. 0 \in 0..opened' BY <1>1, <1>4 DEF TypeOK
    <3>2. QED BY <1>2, <3>1 DEF CallOf, NoCall, None
  <2>8. Typed' BY <1>1, <1>2, <2>4, <2>5, <2>6, <2>7, TypedKeeps DEF Typed
  <2>9. Numbers' BY <1>1, <1>2, NumbersSame
  <2>10. Commands'
    <3>1. \A g \in Groups : g > opened + 1 => g > opened /\ g # opened + 1
        BY <1>1 DEF TypeOK, Groups
    <3>2. \A g \in Groups : g > opened' => col'[g].at = "none"
        BY <1>1, <1>4, <2>4, <3>1 DEF Commands
    <3>3. Stage' BY <1>2 DEF Stage
    <3>4. capture' \notin {"completed", "interrupted", "draining"}
      <4>1. call # NoCall
        <5>1. NoCall.at = "none" BY DEF NoCall
        <5>2. QED BY <1>2, <5>1
      <4>2. call.op \notin {"stop", "interrupt"} BY <1>2
      <4>3. QED BY <1>1, <1>2, <4>1, <4>2 DEF Commands
    <3>5. QED BY <1>2, <1>4, <3>2, <3>3, <3>4 DEF Commands, NoCall
  <2>11. ASSUME Sole PROVE Sole'
    <3>1. Writing = {}
      <4>1. \A g \in Writing : g = None BY <1>2, <2>11 DEF Sole, Owned
      <4>2. QED BY <4>1 DEF Writing, Groups, None
    <3>2. Writing' = {opened + 1} BY <1>4, <2>2, <2>4, <3>1 DEF Writing
    <3>3. Owned' /\ Alone' BY <1>4, <3>2 DEF Owned, Alone
    <3>4. Numbered' BY <1>2, <2>1, <2>2, <2>4, <3>2 DEF Numbered, Rows
    <3>5. QED BY <1>2, <2>11, <3>3, <3>4 DEF Sole
  <2>12. QED BY <1>2, <2>8, <2>9, <2>10, <2>11 DEF WriterInv
<1>5. QED BY <1>3, <1>4, StartIs

(* The group that was shut down has ended, or is aborted.                    *)
LEMMA WriterClose ==
    ASSUME WriterInv, GroupAssumption, Close
    PROVE  WriterInv'
<1>1. Typed /\ TypeOK /\ Commands BY DEF WriterInv, Typed
<1>2. /\ call.at = "close" /\ call.group \in Groups
      /\ UNCHANGED <<capture, pushed, said, opened, stream, gaps, remote, cleanup, cancelled, mishap>>
      /\ call.op \in {"pause", "resume", "interrupt"}
  <2>1. call.at = "close" /\ call.group # None /\ call \in CallOf
      BY <1>1 DEF Close, Commands, Typed
  <2>2. call.group \in Groups BY <1>1, <2>1 DEF CallOf, TypeOK, Groups, None, GroupAssumption
  <2>3. call.op \in {"pause", "resume", "interrupt"} BY <1>1, <2>1 DEF Commands, Stage, NoCall
  <2>4. QED BY <2>1, <2>2, <2>3 DEF Close, KeepsStreams, owner
<1> DEFINE g == call.group
<1>3. /\ troubles' \in 0..MaxTroubles
      /\ col' \in [Groups -> CollectorOf]
      /\ \A h \in Groups \ {g} : col'[h] = col[h]
      /\ inbox' \in [Groups -> [Lanes -> Seq(Events)]] /\ cuts' \in [Groups -> SUBSET CutOf]
      /\ \A h \in Groups : col'[h].at = "none" <=> col[h].at = "none"
      /\ Writing' \subseteq Writing \ {g}
  <2>1. CASE Ended(g) /\ UNCHANGED <<col, queues, troubles>>
      BY <1>1, <2>1 DEF Ended, Writing, queues, Typed, TypeOK
  <2>2. CASE Abort(g) BY <1>1, <1>2, <2>2, AbortIs
  <2>3. QED BY <2>1, <2>2 DEF Close
<1>4. health' \in HealthOf BY <1>1, ReportTyped DEF Close
<1>5. TypeOK' BY <1>1, <1>2, <1>3, <1>4 DEF TypeOK, HealthOf
<1>6. /\ \/ call.op = "pause" /\ call' = NoCall
         \/ call.op = "resume" /\ GoTo("restart")
         \/ call.op = "interrupt" /\ GoTo("join")
    BY <1>2 DEF Close
<1>7. /\ call' \in CallOf'
      /\ \/ call.op = "pause" /\ call' = NoCall
         \/ call.op = "resume" /\ call'.op = "resume" /\ call'.at = "restart"
         \/ call.op = "interrupt" /\ call'.op = "interrupt" /\ call'.at = "join"
  <2>1. opened' = opened BY <1>2
  <2>2. NoCall \in CallOf' BY <1>1, <2>1 DEF CallOf, NoCall, None, TypeOK
  <2>3. QED BY <1>1, <1>6, <2>1, <2>2, GoToTyped
<1>8. Typed'
  <2>1. stream' \in [Lanes -> StreamOf] /\ pushed' = pushed /\ said' = said
      BY <1>1, <1>2 DEF Typed
  <2>2. QED BY <1>1, <1>3, <1>5, <1>7, <2>1, TypedKeeps
<1>9. Commands'
  <2>1. \A h \in Groups : h > opened => col'[h].at = "none" BY <1>1, <1>3 DEF Commands
  <2>2. QED BY <1>1, <1>2, <1>7, <2>1 DEF Commands, Stage, NoCall
<1>10. Hands
  <2>1. \A h \in Writing' : h \in Writing /\ h # g /\ col'[h].next = col[h].next
      BY <1>3 DEF Writing
  <2>2. QED BY <1>2, <2>1 DEF Hands
<1>11. QED BY <1>2, <1>8, <1>9, <1>10, HandsKeep

(* The capture is taken: what follows is the end of the recording.           *)
LEMMA WriterTaken ==
    ASSUME WriterInv, GroupAssumption, Stop \/ Interrupt
    PROVE  WriterInv'
<1>1. Typed /\ TypeOK /\ Commands BY DEF WriterInv, Typed
<1>2. /\ call = NoCall /\ capture \in {"recording", "paused"} /\ capture' = "draining"
      /\ remote' = None
      /\ UNCHANGED <<pushed, health, said, gaps, opened, cleanup, stream, inbox, cuts, col, troubles>>
      /\ cancelled' \in {cancelled, cancelled \cup {remote}}
      /\ (remote = None => cancelled' = cancelled)
    BY DEF Stop, Interrupt, Free, record, queues, faults
<1>3. mishap' \in {mishap, mishap \cup {"forgotten"}}
  <2>1. CASE Stop BY <2>1 DEF Stop, Blame
  <2>2. CASE Interrupt BY <2>2 DEF Interrupt, faults
  <2>3. QED BY <2>1, <2>2
<1>4. /\ call' \in CallOf' /\ call'.group = remote
      /\ \/ call'.op = "stop" /\ call'.at \in {"streams", "drain", "join"}
         \/ call'.op = "interrupt" /\ call'.at \in {"close", "join"}
      /\ (remote = None => call'.at = "join")
      /\ (remote # None => call'.at \in {"close", "streams", "drain"})
  <2>1. remote \in 0..opened' /\ FALSE \in BOOLEAN BY <1>1, <1>2 DEF TypeOK
  <2>2. CASE Stop
    <3> DEFINE graceful == remote # None /\ ~Ended(remote) /\ remote \notin cancelled
                           /\ ~Refuses(Source, {})
               owed == cleanup # None \/ (remote # None /\ ~graceful)
               at == IF remote = None THEN "join" ELSE IF graceful THEN "streams" ELSE "drain"
    <3>1. call' = [op |-> "stop", group |-> remote, at |-> at, owed |-> owed] BY <2>2 DEF Stop
    <3>2. at \in {"streams", "drain", "join"} /\ (remote = None => at = "join")
          /\ (remote # None => at \in {"streams", "drain"})
        OBVIOUS
    <3>3. owed \in BOOLEAN OBVIOUS
    <3> HIDE DEF at, owed
    <3>4. QED BY <2>1, <3>1, <3>2, <3>3 DEF CallOf
  <2>3. CASE Interrupt
    <3> DEFINE at == IF remote = None THEN "join" ELSE "close"
    <3>1. call' = [NoCall EXCEPT !.op = "interrupt", !.group = remote, !.at = at]
        BY <2>3 DEF Interrupt
    <3>2. at \in {"close", "join"} /\ (remote = None => at = "join")
          /\ (remote # None => at = "close")
        OBVIOUS
    <3> HIDE DEF at
    <3>3. QED BY <2>1, <3>1, <3>2 DEF CallOf, NoCall
  <2>4. QED BY <2>2, <2>3
<1>5. TypeOK'
  <2>1. cancelled' \subseteq 1..opened' /\ {remote', cleanup'} \subseteq 0..opened'
    <3>1. opened \in Nat /\ remote \in 0..opened /\ cancelled \subseteq 1..opened
          /\ cleanup \in 0..opened /\ opened' = opened
        BY <1>1, <1>2 DEF TypeOK
    <3>2. remote # None => remote \in 1..opened BY <3>1 DEF None
    <3>3. QED BY <1>2, <3>1, <3>2 DEF None
  <2>2. QED BY <1>1, <1>2, <2>1 DEF TypeOK
<1>6. Typed' BY <1>1, <1>2, <1>4, <1>5, TypedKeeps DEF Typed
<1>7. Commands' BY <1>1, <1>2, <1>4 DEF Commands, Stage, NoCall
<1>8. Hands BY <1>1, <1>2, <1>4 DEF Hands, Writing, NoCall
<1>9. QED BY <1>2, <1>3, <1>6, <1>7, <1>8, HandsKeep

(* Stop goes on from the streams to the collector.                           *)
LEMMA WriterStreamsEnd ==
    ASSUME WriterInv, GroupAssumption, StreamsEnd
    PROVE  WriterInv'
<1>1. Typed /\ TypeOK /\ Commands BY DEF WriterInv, Typed
<1>2. /\ call.op = "stop" /\ call.at = "streams"
      /\ UNCHANGED <<capture, pushed, said, opened, stream, health, gaps, remote, cleanup, inbox, cuts,
                     col, mishap>>
      /\ cancelled' \in {cancelled, cancelled \cup {call.group}}
      /\ call' = [call EXCEPT !.at = "drain", !.owed = @ \/ stream[Source].phase # "ended"]
    BY DEF StreamsEnd, KeepsStreams, owner, queues
<1>3. troubles' \in 0..MaxTroubles BY <1>1, TroublesCounted DEF StreamsEnd, TypeOK
<1>4. /\ call' \in CallOf' /\ call'.op = "stop" /\ call'.at = "drain" /\ call'.group = call.group
  <2>1. call \in CallOf /\ CallOf' = CallOf BY <1>1, <1>2 DEF Typed, CallOf
  <2> DEFINE owed == call.owed \/ stream[Source].phase # "ended"
  <2>2. owed \in BOOLEAN BY <2>1 DEF CallOf
  <2>3. call' = [call EXCEPT !.at = "drain", !.owed = owed] BY <1>2
  <2> HIDE DEF owed
  <2>4. QED BY <1>2, <2>1, <2>2, <2>3 DEF CallOf
<1>5. TypeOK'
  <2>1. call.group \in 1..opened BY <1>1, <1>2 DEF Typed, CallOf, Commands, None, TypeOK
  <2>2. QED BY <1>1, <1>2, <1>3, <2>1 DEF TypeOK
<1>6. Typed' BY <1>1, <1>2, <1>4, <1>5, TypedKeeps DEF Typed
<1>7. Commands' BY <1>1, <1>2, <1>4 DEF Commands, Stage, NoCall
<1>8. Hands BY <1>1, <1>2, <1>4 DEF Hands, Writing
<1>9. QED BY <1>2, <1>6, <1>7, <1>8, HandsKeep

(* Stop goes on once the collector has ended, or aborts it.                  *)
LEMMA WriterCollectorEnds ==
    ASSUME WriterInv, GroupAssumption, CollectorEnds
    PROVE  WriterInv'
<1>1. Typed /\ TypeOK /\ Commands BY DEF WriterInv, Typed
<1>2. /\ call.op = "stop" /\ call.at = "drain" /\ call.group \in Groups
      /\ UNCHANGED <<capture, pushed, said, opened, stream, health, gaps, remote, cleanup, cancelled,
                     mishap>>
  <2>1. call.at = "drain" /\ call.group # None /\ call \in CallOf
      BY <1>1 DEF CollectorEnds, Commands, Typed
  <2>2. call.group \in Groups BY <1>1, <2>1 DEF CallOf, TypeOK, Groups, None, GroupAssumption
  <2>3. QED BY <2>2 DEF CollectorEnds, KeepsStreams, owner
<1> DEFINE g == call.group
<1>3. /\ troubles' \in 0..MaxTroubles
      /\ col' \in [Groups -> CollectorOf]
      /\ \A h \in Groups \ {g} : col'[h] = col[h]
      /\ inbox' \in [Groups -> [Lanes -> Seq(Events)]] /\ cuts' \in [Groups -> SUBSET CutOf]
      /\ \A h \in Groups : col'[h].at = "none" <=> col[h].at = "none"
      /\ Writing' \subseteq Writing \ {g}
  <2>1. CASE Ended(g) /\ UNCHANGED <<col, queues, troubles>>
      BY <1>1, <2>1 DEF Ended, Writing, queues, Typed, TypeOK
  <2>2. CASE Abort(g) BY <1>1, <1>2, <2>2, AbortIs
  <2>3. QED BY <2>1, <2>2 DEF CollectorEnds
<1>4. /\ call' \in CallOf' /\ call'.op = "stop" /\ call'.at = "join"
  <2>1. call \in CallOf /\ CallOf' = CallOf BY <1>1, <1>2 DEF Typed, CallOf
  <2> DEFINE owed == call.owed \/ col'[call.group].at # "done"
  <2>2. owed \in BOOLEAN BY <2>1 DEF CallOf
  <2>3. call' = [call EXCEPT !.at = "join", !.owed = owed] BY DEF CollectorEnds
  <2> HIDE DEF owed
  <2>4. QED BY <1>2, <2>1, <2>2, <2>3 DEF CallOf
<1>5. TypeOK' BY <1>1, <1>2, <1>3 DEF TypeOK
<1>6. Typed'
  <2>1. stream' \in [Lanes -> StreamOf] /\ pushed' = pushed /\ said' = said
      BY <1>1, <1>2 DEF Typed
  <2>2. QED BY <1>1, <1>3, <1>4, <1>5, <2>1, TypedKeeps
<1>7. Commands'
  <2>1. \A h \in Groups : h > opened => col'[h].at = "none" BY <1>1, <1>3 DEF Commands
  <2>2. QED BY <1>1, <1>2, <1>4, <2>1 DEF Commands, Stage, NoCall
<1>8. Hands
  <2>1. \A h \in Writing' : h \in Writing /\ h # g /\ col'[h].next = col[h].next
      BY <1>3 DEF Writing
  <2>2. QED BY <1>2, <2>1 DEF Hands
<1>9. QED BY <1>2, <1>6, <1>7, <1>8, HandsKeep

(* The recording ends with no writer left.                                   *)
LEMMA WriterDone ==
    ASSUME WriterInv, GroupAssumption, Complete \/ Leave
    PROVE  WriterInv'
<1>1. Typed /\ TypeOK /\ Commands /\ Numbers BY DEF WriterInv, Typed
<1>2. /\ call.at \in {"tail", "leave"} /\ call' = NoCall
      /\ capture' \in {"completed", "interrupted"}
      /\ UNCHANGED <<pushed, health, said, opened, remote, cleanup, cancelled, stream, inbox, cuts, col>>
    BY DEF Complete, Leave, record, owner, queues
<1>3. /\ gaps' \subseteq 1..pushed /\ troubles' \in 0..MaxTroubles
      /\ mishap' \in {mishap, mishap \cup {"gap lost"}}
  <2>1. CASE RecordGap BY <1>1, <2>1, RecordGapIs
  <2>2. CASE UNCHANGED <<gaps, faults>> BY <1>1, <2>2 DEF faults, TypeOK
  <2>3. QED BY <2>1, <2>2 DEF Complete, Leave, record, faults
<1>4. TypeOK' BY <1>1, <1>2, <1>3 DEF TypeOK
<1>5. call' \in CallOf' BY <1>1, <1>2 DEF CallOf, NoCall, None, TypeOK
<1>6. Typed' BY <1>1, <1>2, <1>4, <1>5, TypedKeeps DEF Typed
<1>7. Commands' BY <1>1, <1>2 DEF Commands, Stage, NoCall
<1>8. Hands BY <1>1, <1>2 DEF Hands, Writing, NoCall
<1>9. QED BY <1>2, <1>3, <1>6, <1>7, <1>8, HandsKeep

(* Nothing happens.                                                          *)
LEMMA WriterStutter ==
    ASSUME WriterInv, UNCHANGED vars
    PROVE  WriterInv'
<1>1. /\ Aside /\ UNCHANGED <<health, gaps, cancelled, troubles, stream, inbox, cuts>>
    BY DEF vars, Aside
<1>2. TypeOK' /\ stream' \in [Lanes -> StreamOf] /\ inbox' \in [Groups -> [Lanes -> Seq(Events)]]
      /\ cuts' \in [Groups -> SUBSET CutOf]
    BY <1>1 DEF WriterInv, Typed, TypeOK, Aside
<1>3. QED BY <1>1, <1>2, AsideKeeps

(* Every step keeps the invariant.                                           *)
LEMMA WriterStep ==
    ASSUME WriterInv, GroupAssumption, [Next]_vars
    PROVE  WriterInv'
<1>1. ASSUME NEW l \in Lanes, Connect(l) \/ Say(l) \/ Drop(l) \/ Die(l) \/ Finish(l)
      PROVE  WriterInv'
    BY <1>1, WriterStream DEF StreamStep
<1>2. ASSUME NEW g \in Groups, NEW l \in Lanes, Hear(g, l) \/ HearCut(g, l)
      PROVE  WriterInv'
    BY <1>2, WriterHear, WriterCut
<1>3. ASSUME NEW g \in Groups, Break(g) \/ Settle(g) \/ Drain(g) PROVE WriterInv'
    BY <1>3, WriterEnds
<1>4. CASE Push \/ Pause("pause") \/ Pause("resume") \/ Restart
    BY <1>4, WriterPush, WriterPause, WriterRestart
<1>5. CASE Reopen \/ Replace \/ CleanupAborts \/ Join \/ Start \/ Close
    BY <1>5, WriterReopen, WriterReplace, WriterAborts, WriterJoin, WriterStart, WriterClose
<1>6. CASE Stop \/ StreamsEnd \/ CollectorEnds \/ Complete \/ Interrupt \/ Leave
    BY <1>6, WriterTaken, WriterStreamsEnd, WriterCollectorEnds, WriterDone
<1>7. CASE Over \/ UNCHANGED vars BY <1>7, WriterStutter DEF Over
<1>8. QED BY <1>1, <1>2, <1>3, <1>4, <1>5, <1>6, <1>7 DEF Next

(* A recording starts with one group or none.                                *)
LEMMA WriterInit ==
    ASSUME GroupAssumption, Init
    PROVE  WriterInv
<1>1. TypeOK /\ opened \in 0..1
  <2>1. {remote, cleanup} \subseteq 0..opened /\ (remote = None \/ cleanup = None) /\ opened \in 0..1
      BY DEF Init, None
  <2>2. health \in HealthOf
    <3>1. /\ [is |-> "connecting", cause |-> FALSE] \in HealthOf
          /\ [is |-> "down", cause |-> TRUE] \in HealthOf
        BY DEF HealthOf
    <3>2. QED BY <3>1 DEF Init
  <2>3. MaxGroups \in Nat /\ MaxGroups # 0 /\ MaxBlocks \in Nat /\ MaxTroubles \in Nat
      BY DEF GroupAssumption
  <2>4. /\ capture = "recording" /\ pushed = 0 /\ gaps = {} /\ cancelled = {} /\ troubles = 0
      BY DEF Init
  <2>5. opened \in 0..MaxGroups BY <2>1, <2>3
  <2>6. QED BY <2>1, <2>2, <2>3, <2>4, <2>5 DEF TypeOK, HealthOf
<1>2. pushed = 0 /\ said = {} /\ call = NoCall /\ mishap = {} BY DEF Init
<1>3. stream \in [Lanes -> StreamOf]
  <2>1. Stream(1, 0, 0) \in StreamOf BY <1>2 DEF Stream, StreamOf
  <2>2. QED BY <2>1 DEF Init
<1>4. inbox \in [Groups -> [Lanes -> Seq(Events)]]
  <2>1. Silent \in [Lanes -> Seq(Events)] BY EmptySeq DEF Silent
  <2>2. QED BY <2>1 DEF Init
<1>5. cuts \in [Groups -> SUBSET CutOf] BY DEF Init
<1>6. Collector("run", 1, 0) \in CollectorOf /\ Collector("none", 1, 0) \in CollectorOf
    BY <1>2, CollectorIs
<1>7. col \in [Groups -> CollectorOf]
  <2>1. \A g \in Groups : Collector(IF g <= opened THEN "run" ELSE "none", 1, 0) \in CollectorOf
      BY <1>6
  <2>2. QED BY <2>1 DEF Init
<1>8. call \in CallOf BY <1>1, <1>2 DEF NoCall, CallOf, None
<1>9. Typed BY <1>1, <1>2, <1>3, <1>4, <1>5, <1>7, <1>8 DEF Typed
<1>10. Rows = {} /\ said \ Rows = {} BY <1>2 DEF Rows
<1>11. Numbers BY <1>10 DEF Numbers, Topped
<1>12. \A g \in Groups : col[g].at = IF g <= opened THEN "run" ELSE "none"
    BY DEF Init, Collector
<1>13. Commands BY <1>1, <1>2, <1>12 DEF Init, Commands, Stage, NoCall, None, Groups
<1>14. Writing \subseteq {opened} /\ \A g \in Writing : g = remote
    BY <1>1, <1>12 DEF Init, Writing, Groups, None
<1>15. Sole BY <1>2, <1>10, <1>14 DEF Sole, Owned, Alone, Numbered
<1>16. QED BY <1>9, <1>11, <1>13, <1>15 DEF WriterInv

(* Everything has its type, and a group waits to be cleaned up only where no *)
(* other is in its place (push_notebook_capture_session's debug_assert).     *)
THEOREM TypeCorrect ==
    Spec => []TypeOK
<1>1. WriterInv => TypeOK BY DEF WriterInv, Typed
<1>2. QED BY GroupAssumption, WriterInit, WriterStep, <1>1, PTL DEF Spec

(* At most one collector writes, none once the run has ended, and no row's   *)
(* number is taken, unless an old group was detached past the join deadline  *)
(* (join_pending_remote_capture_cleanup).                                    *)
THEOREM OneWriterAtATime ==
    Spec => []OneWriterUnlessDetached
BY GroupAssumption, WriterInit, WriterStep, WriterMeans, PTL DEF Spec

-----------------------------------------------------------------------------
(* What the stream sends: the flow goes on if the event promises what it     *)
(* has just said.                                                            *)
LEMMA FlowsAppend ==
    ASSUME NEW Q, \A x \in Q : x.word \in Nat, NEW q \in Seq(Q), NEW e \in Q,
           NEW s, NEW r, NEW v, NEW final, NEW since, NEW C, NEW p \in Nat,
           s.next \in Nat, r.next \in Nat, s.next <= r.next, s.phase # "died",
           r.gen = s.gen, r.stopped = s.stopped,
           Flows(q, s, v, final, since, C, p),
           e.gen = 0, e.word < r.next,
           e.kind \in Backs => s.again /\ s.phase = "dial",
           e.kind = "error" => r.phase = "died",
           r.again => r.phase \in {"dial", "died"},
           r.again /\ r.phase = "dial" => e.kind \in Losses,
           \A b \in 1..p : s.next <= b /\ b < r.next => Promise(e, b)
    PROVE  Flows(Append(q, e), r, v, final, since, C, p)
<1> DEFINE t == Append(q, e)
<1>1. /\ t \in Seq(Q) /\ Len(q) \in Nat /\ Len(t) = Len(q) + 1 /\ t[Len(q) + 1] = e
      /\ \A i \in 1..Len(q) : t[i] = q[i]
      /\ t # << >>
      /\ \A i \in 1..Len(t) : i \in 1..Len(q) \/ i = Len(q) + 1
      /\ \A i \in 1..Len(q) : q[i] \in Q
    BY AppendProperties, LenProperties
<1>2. Single(q, s, v) /\ Turns(q, s, v) /\ Reached(q, s, C, p) /\ Noted(v, final, since, C, p)
    BY DEF Flows
<1> HIDE DEF t
<1>3. Single(t, r, v)
  <2>1. ~v.failed BY <1>2 DEF Single
  <2>2. \A i \in 1..Len(q) : q[i].kind # "error" /\ q[i].gen = 0 /\ q[i].word < r.next
    <3>1. TAKE i \in 1..Len(q)
    <3>2. q[i].kind # "error" /\ q[i].gen = 0 /\ q[i].word < s.next /\ q[i].word \in Nat
        BY <1>1, <1>2 DEF Single
    <3>3. QED BY <3>2
  <2>3. r.gen = 0 /\ ~r.stopped /\ v.gen = 0 BY <1>2 DEF Single
  <2>4. \A i \in 1..Len(t) : t[i].gen = 0 /\ t[i].word < r.next BY <1>1, <2>2
  <2>5. \A i \in 1..Len(t) : t[i].kind = "error" => i = Len(t) /\ r.phase = "died" BY <1>1, <2>2
  <2>6. QED BY <2>1, <2>3, <2>4, <2>5 DEF Single
<1>4. Turns(t, r, v)
  <2>1. r.again => r.phase \in {"dial", "died"} OBVIOUS
  <2>2. r.again /\ r.phase = "dial" => t[Len(t)].kind \in Losses BY <1>1
  <2>3. ASSUME NEW i \in 1..Len(t), t[i].kind \in Backs
        PROVE  IF i = 1 THEN v.awaiting ELSE t[i - 1].kind \in Losses
    <3>1. CASE i \in 1..Len(q)
      <4>1. IF i = 1 THEN v.awaiting ELSE q[i - 1].kind \in Losses
          BY <1>1, <1>2, <2>3, <3>1 DEF Turns
      <4>2. i # 1 => i - 1 \in 1..Len(q) BY <1>1, <3>1
      <4>3. QED BY <1>1, <4>1, <4>2
    <3>2. CASE i = Len(q) + 1
      <4>1. s.again /\ s.phase = "dial" BY <1>1, <2>3, <3>2
      <4>2. IF q = << >> THEN v.awaiting ELSE q[Len(q)].kind \in Losses BY <1>2, <4>1 DEF Turns
      <4>3. q # << >> => Len(q) # 0 /\ Len(q) \in 1..Len(q) BY <1>1, EmptySeq
      <4>4. q = << >> => Len(q) = 0 OBVIOUS
      <4>5. CASE q = << >> BY <3>2, <4>2, <4>4, <4>5
      <4>6. CASE q # << >>
        <5>1. i # 1 /\ i - 1 = Len(q) /\ t[i - 1] = q[Len(q)] BY <1>1, <3>2, <4>3, <4>6
        <5>2. QED BY <4>2, <4>6, <5>1
      <4>7. QED BY <4>5, <4>6
    <3>3. QED BY <1>1, <3>1, <3>2
  <2>4. QED BY <1>1, <2>1, <2>2, <2>3 DEF Turns
<1>5. Reached(t, r, C, p)
  <2>1. \A n \in 0..Len(q) : \A b : Promised(q, n, b) => Promised(t, n, b) BY <1>1 DEF Promised
  <2>2. \A b : Promised(q, Len(q), b) => Promised(t, Len(t), b) BY <1>1 DEF Promised
  <2>3. \A b : Promise(e, b) => Promised(t, Len(t), b) BY <1>1 DEF Promised
  <2>4. \A b \in 1..p : b < r.next => b \in C \/ Promised(t, Len(t), b)
    <3>1. TAKE b \in 1..p
    <3>2. HAVE b < r.next
    <3>3. CASE b < s.next BY <1>2, <2>2, <3>3 DEF Reached
    <3>4. CASE ~(b < s.next) BY <2>3, <3>2, <3>4
    <3>5. QED BY <3>3, <3>4
  <2>5. ASSUME NEW i \in 1..Len(t), t[i].kind \in Backs \cup {"word"}, NEW b \in 1..p, b <= t[i].word
        PROVE  b \in C \/ Promised(t, i, b)
    <3>1. CASE i \in 1..Len(q)
      <4>1. b \in C \/ Promised(q, i, b) BY <1>1, <1>2, <2>5, <3>1 DEF Reached
      <4>2. i \in 0..Len(q) BY <1>1, <3>1
      <4>3. QED BY <2>1, <4>1, <4>2
    <3>2. CASE i = Len(q) + 1
      <4>1. i = Len(t) /\ t[i] = e BY <1>1, <3>2
      <4>2. b < r.next BY <2>5, <4>1
      <4>3. QED BY <2>4, <4>1, <4>2
    <3>3. QED BY <1>1, <3>1, <3>2
  <2>6. QED BY <2>4, <2>5 DEF Reached
<1>6. QED BY <1>2, <1>3, <1>4, <1>5 DEF Flows, t

(* What the collector hears: the flow goes on if what the event promised is  *)
(* covered by then.                                                          *)
LEMMA FlowsTail ==
    ASSUME NEW Q, \A x \in Q : x.word \in Nat, NEW q \in Seq(Q), q # << >>,
           NEW s, NEW v, NEW w, NEW final, NEW since, NEW final2, NEW since2,
           NEW C, NEW D, NEW p \in Nat,
           Flows(q, s, v, final, since, C, p), C \subseteq D,
           w.gen = 0,
           w.failed => v.failed \/ Head(q).kind = "error",
           Head(q).kind \in Losses => w.awaiting,
           \A b \in 1..p : Promise(Head(q), b) => b \in D,
           Noted(w, final2, since2, D, p)
    PROVE  Flows(Tail(q), s, w, final2, since2, D, p)
<1> DEFINE t == Tail(q)
           e == Head(q)
<1>1. /\ t \in Seq(Q) /\ Len(t) \in Nat /\ Len(q) = Len(t) + 1 /\ q[1] = e
      /\ \A i \in 1..Len(t) : t[i] = q[i + 1]
      /\ \A i \in 1..Len(t) : i + 1 \in 1..Len(q)
      /\ 1 \in 1..Len(q)
      /\ Len(t) = 0 <=> t = << >>
  <2>1. t \in Seq(Q) /\ Len(q) \in Nat /\ q[1] = e /\ Len(q) # 0 BY EmptySeq
  <2>2. Len(t) = Len(q) - 1 /\ \A i \in 1..Len(t) : t[i] = q[i + 1] BY <2>1
  <2>3. Len(t) \in Nat /\ Len(q) = Len(t) + 1 BY <2>1, <2>2
  <2>4. Len(t) = 0 <=> t = << >> BY <2>1, EmptySeq
  <2> HIDE DEF t, e
  <2>5. (\A i \in 1..Len(t) : i + 1 \in 1..Len(q)) /\ 1 \in 1..Len(q) BY <2>3
  <2>6. QED BY <2>1, <2>2, <2>3, <2>4, <2>5
<1>2. Single(q, s, v) /\ Turns(q, s, v) /\ Reached(q, s, C, p) BY DEF Flows
<1> HIDE DEF t, e
<1>3. Single(t, s, w)
  <2>1. s.gen = 0 /\ ~s.stopped /\ ~v.failed BY <1>2 DEF Single
  <2>2. \A i \in 1..Len(t) : t[i].gen = 0 /\ t[i].word < s.next BY <1>1, <1>2 DEF Single
  <2>3. \A i \in 1..Len(t) : t[i].kind = "error" => i = Len(t) /\ s.phase = "died"
      BY <1>1, <1>2 DEF Single
  <2>4. e.kind = "error" => Len(q) = 1 /\ s.phase = "died" BY <1>1, <1>2 DEF Single
  <2>5. w.failed => t = << >> /\ s.phase = "died" BY <1>1, <2>1, <2>4 DEF e
  <2>6. QED BY <2>1, <2>2, <2>3, <2>5 DEF Single
<1>4. Turns(t, s, w)
  <2>1. s.again => s.phase \in {"dial", "died"} BY <1>2 DEF Turns
  <2>2. ASSUME NEW i \in 1..Len(t), t[i].kind \in Backs
        PROVE  IF i = 1 THEN w.awaiting ELSE t[i - 1].kind \in Losses
    <3>1. q[i].kind \in Losses
      <4>1. q[i + 1].kind \in Backs /\ i + 1 # 1 /\ i + 1 - 1 = i BY <1>1, <2>2
      <4>2. QED BY <1>1, <1>2, <4>1 DEF Turns
    <3>2. CASE i = 1 BY <1>1, <3>1, <3>2 DEF e
    <3>3. CASE i # 1
      <4> DEFINE k == i - 1
      <4>0. k \in 1..Len(t) /\ i = k + 1 BY <1>1, <3>3
      <4> HIDE DEF k
      <4>2. t[k] = q[i] BY <1>1, <4>0
      <4>1. i - 1 \in 1..Len(t) /\ t[i - 1] = q[i] BY <4>0, <4>2 DEF k
      <4>3. QED BY <3>1, <3>3, <4>1
    <3>4. QED BY <3>2, <3>3
  <2>3. s.again /\ s.phase = "dial" => IF t = << >> THEN w.awaiting ELSE t[Len(t)].kind \in Losses
    <3>1. SUFFICES ASSUME s.again, s.phase = "dial"
                   PROVE  IF t = << >> THEN w.awaiting ELSE t[Len(t)].kind \in Losses
        OBVIOUS
    <3>2. q[Len(q)].kind \in Losses BY <1>2, <3>1 DEF Turns
    <3>3. CASE t = << >> BY <1>1, <3>2, <3>3 DEF e
    <3>4. CASE t # << >>
      <4>1. Len(t) \in 1..Len(t) /\ t[Len(t)] = q[Len(q)] BY <1>1, <3>4
      <4>2. QED BY <3>2, <3>4, <4>1
    <3>5. QED BY <3>3, <3>4
  <2>4. QED BY <2>1, <2>2, <2>3 DEF Turns
<1>5. Reached(t, s, D, p)
  <2>1. \A n \in 0..Len(t) : \A b \in 1..p : Promised(q, n + 1, b) => b \in D \/ Promised(t, n, b)
    <3>1. TAKE n \in 0..Len(t)
    <3>2. TAKE b \in 1..p
    <3>3. HAVE Promised(q, n + 1, b)
    <3>4. PICK j \in 1..(n + 1) : Promise(q[j], b) BY <3>3 DEF Promised
    <3>5. CASE j = 1 BY <1>1, <3>4, <3>5 DEF e
    <3>6. CASE j # 1
      <4> DEFINE k == j - 1
      <4>0. k \in 1..n /\ k \in 1..Len(t) /\ j = k + 1 BY <1>1, <3>6
      <4> HIDE DEF k
      <4>1. k \in 1..n /\ k \in 1..Len(t) /\ t[k] = q[j] BY <1>1, <4>0
      <4>2. QED BY <3>4, <4>1 DEF Promised
    <3>7. QED BY <3>5, <3>6
  <2>2. \A b \in 1..p : b < s.next => b \in D \/ Promised(t, Len(t), b)
    <3>1. TAKE b \in 1..p
    <3>2. HAVE b < s.next
    <3>3. b \in C \/ Promised(q, Len(t) + 1, b) BY <1>1, <1>2, <3>2 DEF Reached
    <3>4. QED BY <1>1, <2>1, <3>3
  <2>3. ASSUME NEW i \in 1..Len(t), t[i].kind \in Backs \cup {"word"}, NEW b \in 1..p, b <= t[i].word
        PROVE  b \in D \/ Promised(t, i, b)
    <3>1. b \in C \/ Promised(q, i + 1, b) BY <1>1, <1>2, <2>3 DEF Reached
    <3>2. i \in 0..Len(t) BY <1>1
    <3>3. QED BY <2>1, <3>1, <3>2
  <2>4. QED BY <2>2, <2>3 DEF Reached
<1>6. QED BY <1>3, <1>4, <1>5 DEF Flows, t

(* More is covered, more is pushed, and nothing is said.                     *)
LEMMA FlowsWider ==
    ASSUME NEW Q, \A x \in Q : x.word \in Nat, NEW q \in Seq(Q),
           NEW s, NEW r, NEW v, NEW final, NEW since, NEW C, NEW D, NEW p \in Nat, NEW n \in {p, p + 1},
           Flows(q, s, v, final, since, C, p), C \subseteq D,
           s.next \in 1..(p + 1), final \in (0..p) \cup {Never}, since \in (0..p) \cup {Never},
           r.phase = s.phase, r.next = s.next, r.again = s.again, r.gen = s.gen,
           r.stopped = s.stopped
    PROVE  Flows(q, r, v, final, since, D, n)
<1>1. Single(q, s, v) /\ Turns(q, s, v) /\ Reached(q, s, C, p) /\ Noted(v, final, since, C, p)
    BY DEF Flows
<1>2. Single(q, r, v) BY <1>1 DEF Single
<1>3. Turns(q, r, v) BY <1>1 DEF Turns
<1>4. Reached(q, r, D, n)
  <2>1. \A b \in 1..n : b < r.next => b \in D \/ Promised(q, Len(q), b) BY <1>1 DEF Reached
  <2>2. ASSUME NEW i \in 1..Len(q), q[i].kind \in Backs \cup {"word"}, NEW b \in 1..n, b <= q[i].word
        PROVE  b \in D \/ Promised(q, i, b)
    <3>1. q[i].word \in Nat /\ q[i].word < s.next BY <1>1 DEF Single
    <3>2. b \in 1..p BY <2>2, <3>1
    <3>3. QED BY <1>1, <2>2, <3>2 DEF Reached
  <2>3. QED BY <2>1, <2>2 DEF Reached
<1>5. Noted(v, final, since, D, n) BY <1>1 DEF Noted, Never
<1>6. QED BY <1>2, <1>3, <1>4, <1>5 DEF Flows

-----------------------------------------------------------------------------
(* Rows and blocks stay covered.                                             *)
LEMMA CoveredStays ==
    ASSUME Rows \subseteq Rows', gaps \subseteq gaps', pushed \in Nat, pushed' \in {pushed, pushed + 1}
    PROVE  /\ \A b : Covered(b) => Covered(b)'
           /\ Blocks \subseteq Blocks'
<1>1. \A b : Covered(b) => Covered(b)' BY DEF Covered
<1>2. QED BY <1>1 DEF Blocks

(* How far the rows go.                                                      *)
LEMMA GreatestWord ==
    ASSUME NEW R, NEW n \in Nat, \A r \in R : r.word \in 1..n, Topped({0} \cup {r.word : r \in R})
    PROVE  LET t == Max({0} \cup {r.word : r \in R}) IN
           /\ t \in 0..n /\ \A r \in R : r.word <= t
           /\ t = 0 \/ \E r \in R : r.word = t
<1> DEFINE S == {0} \cup {r.word : r \in R}
           t == Max(S)
<1>1. S \subseteq Int /\ Topped(S) /\ S \subseteq 0..n OBVIOUS
<1>2. \A r \in R : r.word \in S OBVIOUS
<1>3. \A x \in S : x = 0 \/ \E r \in R : r.word = x OBVIOUS
<1> HIDE DEF S
<1>4. Max(S) \in S /\ \A x \in S : Max(S) >= x BY <1>1, TopMax
<1>5. t \in S /\ \A x \in S : x <= t
  <2>1. \A x \in S : x \in Int BY <1>1
  <2>2. QED BY <1>4, <2>1
<1> HIDE DEF t
<1>6. t \in 0..n /\ (\A r \in R : r.word <= t) /\ (t = 0 \/ \E r \in R : r.word = t)
    BY <1>1, <1>2, <1>3, <1>5
<1>7. QED BY <1>6 DEF S, t

(* No row goes further than that, and none further than was pushed.          *)
LEMMA ThroughIs ==
    ASSUME Typed, Numbers
    PROVE  /\ Through \in 0..pushed /\ \A r \in Rows : r.word <= Through
           /\ Through = 0 \/ \E r \in Rows : r.word = Through
<1> DEFINE R == Rows
           n == pushed
<1>1. n \in Nat /\ (\A r \in R : r.word \in 1..n) /\ Topped({0} \cup {r.word : r \in R})
    BY DEF Typed, TypeOK, FactOf, Rows, Numbers
<1> HIDE DEF R, n
<1>2. LET t == Max({0} \cup {r.word : r \in R}) IN
      t \in 0..n /\ (\A r \in R : r.word <= t) /\ (t = 0 \/ \E r \in R : r.word = t)
    BY <1>1, GreatestWord
<1>3. QED BY <1>2 DEF R, n, Through

(* With the same rows they go as far.                                        *)
LEMMA BehindStays ==
    ASSUME Typed, Numbers, Behind, Rows' = Rows, gaps \subseteq gaps', pushed \in Nat,
           pushed' \in {pushed, pushed + 1}
    PROVE  Behind'
<1>1. Rows' = Rows /\ Through' = Through BY DEF Through
<1>2. \A b : Covered(b) => Covered(b)' BY CoveredStays
<1>3. Through \in 0..pushed BY ThroughIs
<1> HIDE DEF Through
<1>4. \A b \in 1..pushed' : b \in 1..pushed \/ b > Through BY <1>3
<1>5. QED BY <1>1, <1>2, <1>4 DEF Behind

(* The rest of the recording leaves the source lane's flow alone.            *)
LEMMA BesidesKeeps ==
    ASSUME WriterInv, Audio, Besides
    PROVE  Behind' /\ Unopened' /\ TailIsRecorded' /\ (Attended' => SourceFlows')
<1>1. Typed /\ Numbers /\ TypeOK /\ pushed \in Nat /\ pushed' \in {pushed, pushed + 1}
    BY DEF WriterInv, Typed, TypeOK, Besides
<1>2. Behind' BY <1>1, BehindStays DEF Audio, Besides
<1>3. Unopened' BY DEF Audio, Unopened, Besides
<1>4. (\A b : Covered(b) => Covered(b)') /\ Blocks \subseteq Blocks'
  <2>1. Rows \subseteq Rows' /\ gaps \subseteq gaps' BY DEF Besides
  <2>2. QED BY <1>1, <2>1, CoveredStays
<1>5. TailIsRecorded'
  <2>1. CASE TailIsRecorded' BY <2>1
  <2>2. CASE capture' = "completed" => capture = "completed"
      BY <1>4, <2>2 DEF Audio, TailIsRecorded, Besides
  <2>3. QED BY <2>1, <2>2 DEF Besides
<1>6. ASSUME Attended' PROVE SourceFlows'
  <2> DEFINE q == inbox[opened][Source]
             s == stream[Source]
             r == stream'[Source]
             c == col[opened]
             d == col'[opened]
  <2>1. /\ Attended /\ opened' = opened /\ inbox'[opened][Source] = q
        /\ d.view[Source] = c.view[Source] /\ d.final = c.final /\ d.since = c.since
        /\ r.phase = s.phase /\ r.next = s.next /\ r.again = s.again /\ r.gen = s.gen
        /\ r.stopped = s.stopped
        /\ d.at = "done" => c.at = "done" \/ (q = << >> /\ ~Runs(Source))
      BY <1>6 DEF Besides
  <2>2. SourceFlows BY <2>1 DEF Audio
  <2>3. Flows(q, s, c.view[Source], c.final, c.since, Blocks, pushed) BY <2>2 DEF SourceFlows
  <2>4. /\ q \in Seq(Events) /\ s.next \in 1..(pushed + 1) /\ c \in CollectorOf
        /\ c.final \in (0..pushed) \cup {Never} /\ c.since \in (0..pushed) \cup {Never}
    <3>1. opened \in Groups /\ Source \in Lanes
        BY <1>1, <2>1 DEF Attended, None, TypeOK, Groups, Lanes
    <3>2. s \in StreamOf /\ c \in CollectorOf /\ q \in Seq(Events) BY <1>1, <3>1 DEF Typed
    <3>3. QED BY <3>2 DEF StreamOf, CollectorOf
  <2>5. \A x \in Events : x.word \in Nat BY <1>1 DEF Events
  <2> DEFINE C == Blocks
             D == Blocks'
             n == pushed'
             v == c.view[Source]
             fin == c.final
             from == c.since
  <2>6. C \subseteq D /\ n \in {pushed, pushed + 1} BY <1>1, <1>4
  <2>7. Flows(q, s, v, fin, from, C, pushed) BY <2>3
  <2>8. fin \in (0..pushed) \cup {Never} /\ from \in (0..pushed) \cup {Never} BY <2>4
  <2> HIDE DEF C, D, n, v, fin, from, q, s, r
  <2>9. Flows(q, r, v, fin, from, D, n) BY <1>1, <2>1, <2>4, <2>5, <2>6, <2>7, <2>8, FlowsWider
  <2>10. Flows(inbox[opened][Source], stream[Source], col[opened].view[Source], col[opened].final,
               col[opened].since, Blocks, pushed)'
    <3>1. Flows(inbox'[opened'][Source], stream'[Source], d.view[Source], d.final, d.since, D, n)
        BY <2>1, <2>9 DEF q, r, v, fin, from
    <3>2. QED BY <2>1, <3>1 DEF D, n
  <2>11. r.phase = "ended" => r.next > n /\ capture' \notin {"recording", "paused"}
    <3>1. s.phase = "ended" => s.next > pushed /\ capture \notin {"recording", "paused"}
        BY <2>2 DEF SourceFlows, s
    <3>2. QED BY <2>1, <3>1 DEF Besides, n
  <2>12. ~Runs(Source) => ~Runs(Source)' BY <2>1 DEF Runs, Besides, s, r
  <2>13. d.at = "done" => ~Runs(Source)' /\ inbox'[opened][Source] = << >>
      BY <2>1, <2>2, <2>12 DEF SourceFlows, q
  <2>14. QED BY <2>1, <2>10, <2>11, <2>13 DEF SourceFlows, n, r
<1>7. QED BY <1>2, <1>3, <1>5, <1>6

-----------------------------------------------------------------------------
(* The source lane speaks.                                                   *)
LEMMA TwoEvents ==
    ASSUME NEW Q, NEW q \in Seq(Q), NEW e \in Q, NEW f \in Q
    PROVE  q \o <<e>> = Append(q, e) /\ q \o <<e, f>> = Append(Append(q, e), f) /\ q \o << >> = q
<1>1. q \o <<e>> = Append(q, e) /\ q \o << >> = q BY AppendIsConcat, ConcatEmptySeq
<1>2. Append(q, e) \in Seq(Q) /\ <<e>> \in Seq(Q) /\ <<f>> \in Seq(Q) BY AppendProperties
<1>3. Append(Append(q, e), f) = Append(q, e) \o <<f>> BY <1>2, AppendIsConcat
<1>4. (q \o <<e>>) \o <<f>> = q \o (<<e>> \o <<f>>) BY <1>2, ConcatAssociative
<1>5. <<e>> \o <<f>> = <<e, f>>
  <2>1. <<e>> \o <<f>> \in Seq(Q) /\ <<e, f>> \in Seq(Q) /\ Len(<<e>> \o <<f>>) = 2 /\ Len(<<e, f>>) = 2
      BY <1>2, ConcatProperties
  <2>2. \A i \in 1..2 : (<<e>> \o <<f>>)[i] = <<e, f>>[i]
    <3>1. (<<e>> \o <<f>>)[1] = e /\ (<<e>> \o <<f>>)[2] = f BY <1>2, ConcatProperties
    <3>2. QED BY <3>1
  <2>3. QED BY <2>1, <2>2, SeqEqual
<1>6. QED BY <1>1, <1>3, <1>4, <1>5

(* It has not ended, so nothing is owed that was not, and what is on its way *)
(* is of the group that is there.                                            *)
LEMMA SpeaksKeeps ==
    ASSUME WriterInv, GroupAssumption, Audio, Runs(Source), NEW r \in StreamOf, NEW es, Moves(Source, r, es),
           Attended => Flows(inbox[opened][Source] \o es, r, col[opened].view[Source], col[opened].final,
                             col[opened].since, Blocks, pushed),
           r.phase = "ended" => r.next > pushed /\ capture \notin {"recording", "paused"}
    PROVE  Audio'
<1>1. /\ Typed /\ TypeOK /\ Source \in Lanes /\ opened \in Groups
      /\ stream \in [Lanes -> StreamOf] /\ inbox \in [Groups -> [Lanes -> Seq(Events)]]
  <2>1. /\ Typed /\ TypeOK /\ Source \in Lanes
        /\ stream \in [Lanes -> StreamOf] /\ inbox \in [Groups -> [Lanes -> Seq(Events)]]
      BY DEF WriterInv, Typed, Lanes
  <2>2. QED BY <2>1 DEF TypeOK, Runs, Groups, None
<1>2. /\ stream' = [stream EXCEPT ![Source] = r] /\ inbox' = [inbox EXCEPT ![opened][Source] = @ \o es]
      /\ UNCHANGED <<capture, pushed, said, gaps, opened, cancelled, col, call>>
    BY DEF Moves
<1>3. stream'[Source] = r /\ inbox'[opened][Source] = inbox[opened][Source] \o es BY <1>1, <1>2
<1>4. \A g \in Groups : g # opened => inbox'[g][Source] = inbox[g][Source] BY <1>1, <1>2
<1>5. Rows' = Rows /\ \A b : Covered(b)' <=> Covered(b) BY <1>2 DEF Rows, Covered
<1>6. Blocks' = Blocks BY <1>2, <1>5 DEF Blocks
<1>7. Behind' BY <1>2, <1>5 DEF Audio, Behind, Through
<1>8. NotOwed'
  <2>1. stream[Source].phase # "ended" BY DEF Runs
  <2>2. ~(call.op = "stop" /\ ~call.owed /\ call.at \in {"drain", "join", "tail"})
      BY <2>1 DEF Audio, NotOwed
  <2>3. QED BY <1>2, <2>2 DEF Audio, NotOwed
<1>9. Unopened'
  <2>1. \A g \in Groups : g > opened => g # opened BY <1>1 DEF Groups
  <2>2. QED BY <1>2, <1>4, <2>1 DEF Audio, Unopened
<1>10. TailIsRecorded' BY <1>2, <1>5 DEF Audio, TailIsRecorded
<1>11. ASSUME Attended' PROVE SourceFlows'
  <2>1. Attended /\ SourceFlows BY <1>2, <1>11 DEF Attended, Audio
  <2>2. col[opened].at # "done" BY <2>1 DEF SourceFlows
  <2>3. QED BY <1>2, <1>3, <1>6, <2>1, <2>2 DEF SourceFlows
<1>12. QED BY <1>7, <1>8, <1>9, <1>10, <1>11 DEF Audio

(* Nothing lies between a number and the next.                               *)
LEMMA NoneBetween ==
    ASSUME NEW m \in Nat, NEW k \in Nat, NEW n \in Nat
    PROVE  \A b \in 1..n : (m <= b => m - 1 < b) /\ (k = m => ~(m <= b /\ b < k))
<1>1. \A b \in 1..n : m <= b => m - 1 < b OBVIOUS
<1>2. CASE k = m BY <1>1, <1>2
<1>3. QED BY <1>1, <1>2

(* Each of its events promises what it has just said.                        *)
LEMMA AudioSpeaks ==
    ASSUME WriterInv, GroupAssumption, Audio, StreamStep(Source)
    PROVE  Audio'
<1> DEFINE s == stream[Source]
           q == inbox[opened][Source]
           c == col[opened]
           v == c.view[Source]
           fin == c.final
           from == c.since
           C == Blocks
<1>1. /\ Typed /\ TypeOK /\ Commands /\ Source \in Lanes /\ Runs(Source) /\ StreamActs(Source)
      /\ pushed \in Nat
  <2>1. Typed /\ TypeOK /\ Commands /\ Source \in Lanes BY DEF WriterInv, Typed, Lanes
  <2>2. QED BY <2>1, StreamActsIs DEF TypeOK
<1>2. opened \in Groups BY <1>1 DEF Runs, TypeOK, Groups, None
<1>3. /\ s \in StreamOf /\ q \in Seq(Events) /\ s.next \in 1..(pushed + 1) /\ s.next - 1 \in 0..pushed
      /\ s.phase \in {"dial", "up"}
    BY <1>1, <1>2 DEF Typed, StreamOf, Runs
<1>4. /\ s \in StreamOf
      /\ [s EXCEPT !.phase = "up"] \in StreamOf
      /\ [s EXCEPT !.phase = "up", !.again = FALSE] \in StreamOf
      /\ [s EXCEPT !.phase = "up", !.again = FALSE, !.next = pushed + 1, !.leg = @ + 1] \in StreamOf
      /\ (s.next <= pushed => [s EXCEPT !.next = @ + 1] \in StreamOf)
      /\ [s EXCEPT !.phase = "dial", !.again = TRUE] \in StreamOf
      /\ [s EXCEPT !.phase = "died"] \in StreamOf
      /\ [s EXCEPT !.phase = "ended"] \in StreamOf
    BY <1>1, StreamLegal
<1>5. ASSUME Attended PROVE Flows(q, s, v, fin, from, C, pushed) /\ s.gen = 0
    BY <1>5 DEF Audio, SourceFlows, Flows, Single
<1>6. \A x \in Events : x.word \in Nat BY <1>1 DEF Events
<1>7. \A kind \in EventKinds, word \in 0..pushed : (kind = "word" => word # 0) =>
         LET e == Event(Source, kind, word) IN
         e \in Events /\ e.kind = kind /\ e.word = word /\ e.gen = s.gen
    BY <1>1, EventIs DEF Event
<1> HIDE DEF s, q, v, fin, from, C
(* One event, then the stream as it is afterwards. *)
<1>8. ASSUME NEW t \in Seq(Events), NEW a \in StreamOf, NEW r \in StreamOf, NEW kind \in EventKinds,
             NEW word \in 0..pushed, kind = "word" => word # 0, s.gen = 0,
             a.next <= r.next, a.phase # "died", r.gen = a.gen, r.stopped = a.stopped,
             Flows(t, a, v, fin, from, C, pushed),
             word < r.next,
             kind \in Backs => a.again /\ a.phase = "dial",
             kind = "error" => r.phase = "died",
             r.again => r.phase \in {"dial", "died"},
             r.again /\ r.phase = "dial" => kind \in Losses,
             \A b \in 1..pushed : a.next <= b /\ b < r.next =>
                 (kind = "word" /\ word = b) \/ (kind = "back late" /\ word < b)
      PROVE  Flows(Append(t, Event(Source, kind, word)), r, v, fin, from, C, pushed)
  <2> DEFINE e == Event(Source, kind, word)
  <2>1. e \in Events /\ e.kind = kind /\ e.word = word /\ e.gen = 0 BY <1>7, <1>8
  <2>2. a.next \in Nat /\ r.next \in Nat BY <1>1 DEF StreamOf
  <2> HIDE DEF e
  <2>3. \A b \in 1..pushed : a.next <= b /\ b < r.next => Promise(e, b)
      BY <1>8, <2>1 DEF Promise
  <2>4. Flows(Append(t, e), r, v, fin, from, C, pushed)
      BY <1>1, <1>6, <1>8, <2>1, <2>2, <2>3, FlowsAppend
  <2>5. QED BY <2>4 DEF e
<1>9. ASSUME NEW r \in StreamOf, NEW es, Moves(Source, r, es),
             Attended => Flows(q \o es, r, v, fin, from, C, pushed),
             r.phase = "ended" => r.next > pushed /\ capture \notin {"recording", "paused"}
      PROVE  Audio'
    BY <1>1, <1>9, SpeaksKeeps DEF q, v, fin, from, C
<1>10. ASSUME NEW r \in StreamOf, NEW kind \in EventKinds, NEW word \in 0..pushed,
              kind = "word" => word # 0, Moves(Source, r, <<Event(Source, kind, word)>>),
              s.next <= r.next, r.gen = s.gen, r.stopped = s.stopped, word < r.next,
              kind \notin Backs,
              kind = "error" => r.phase = "died", r.phase # "ended",
              Attended => (r.again => r.phase \in {"dial", "died"}),
              r.again /\ r.phase = "dial" => kind \in Losses,
              \A b \in 1..pushed : s.next <= b /\ b < r.next =>
                  (kind = "word" /\ word = b) \/ (kind = "back late" /\ word < b)
       PROVE  Audio'
  <2>1. Attended => Flows(Append(q, Event(Source, kind, word)), r, v, fin, from, C, pushed)
      BY <1>3, <1>5, <1>8, <1>10
  <2>2. q \o <<Event(Source, kind, word)>> = Append(q, Event(Source, kind, word))
    <3> DEFINE e == Event(Source, kind, word)
    <3>1. e \in Events BY <1>7, <1>10
    <3> HIDE DEF e
    <3>2. q \o <<e>> = Append(q, e) BY <1>3, <3>1, TwoEvents
    <3>3. QED BY <3>2 DEF e
  <2>3. QED BY <1>9, <1>10, <2>1, <2>2
<1>11. {"connected", "back", "back late", "word", "lost", "planned", "error"} \subseteq EventKinds
       /\ 0 \in 0..pushed
    BY <1>1 DEF EventKinds
<1>31. \A r \in StreamOf : r.next \in 1..(pushed + 1) /\ r.next \in Nat /\ 0 < r.next
    BY <1>1 DEF StreamOf
<1>12. ASSUME s.phase = "dial", ~s.again,
              Moves(Source, [s EXCEPT !.phase = "up"], <<Event(Source, "connected", 0)>>)
       PROVE  Audio'
  <2> DEFINE r == [s EXCEPT !.phase = "up"]
  <2>1. r \in StreamOf /\ r.next = s.next /\ r.gen = s.gen /\ r.stopped = s.stopped /\ ~r.again
        /\ r.phase = "up"
      BY <1>3, <1>4, <1>12 DEF StreamOf
  <2> HIDE DEF r
  <2>2. Moves(Source, r, <<Event(Source, "connected", 0)>>) BY <1>12 DEF r
  <2>3. 0 < r.next /\ s.next <= r.next /\ \A b \in 1..pushed : ~(s.next <= b /\ b < r.next)
      BY <1>1, <1>3, <1>31, <2>1
  <2>4. "connected" \notin Backs BY DEF Backs
  <2>5. QED BY <1>10, <1>11, <2>1, <2>2, <2>3, <2>4
<1>13. ASSUME NEW kind \in Backs, NEW r \in StreamOf, s.phase = "dial", s.again,
              Moves(Source, r, <<Event(Source, kind, s.next - 1), Event(Source, "connected", 0)>>),
              r.gen = s.gen, r.stopped = s.stopped, ~r.again, r.phase = "up", s.next <= r.next,
              r.next = s.next \/ kind = "back late"
       PROVE  Audio'
  <2> DEFINE n == s.next - 1
             e == Event(Source, kind, n)
             f == Event(Source, "connected", 0)
  <2>0. r.next \in 1..(pushed + 1) /\ r.next \in Nat /\ 0 < r.next /\ s.next \in Nat /\ s.next <= r.next
        /\ (r.next = s.next \/ kind = "back late")
      BY <1>3, <1>13, <1>31
  <2>1. n \in 0..pushed /\ n < s.next /\ n < r.next /\ kind \in EventKinds /\ kind # "word"
    <3>1. kind \in EventKinds /\ kind # "word" BY <1>11, <1>13 DEF Backs
    <3> DEFINE m == s.next
               k == r.next
    <3>4. m \in Nat /\ k \in Nat /\ m <= k /\ m - 1 \in 0..pushed BY <1>3, <2>0
    <3> HIDE DEF m, k
    <3>5. m - 1 < m /\ m - 1 < k BY <3>4
    <3>2. n \in 0..pushed /\ n < s.next /\ n < r.next BY <3>4, <3>5 DEF m, k
    <3>3. QED BY <3>1, <3>2
  <2>2. \A b \in 1..pushed : s.next <= b /\ b < r.next => kind = "back late" /\ n < b
    <3> DEFINE m == s.next
               k == r.next
    <3>1. m \in Nat /\ k \in Nat /\ (k = m \/ kind = "back late") /\ pushed \in Nat
        BY <1>1, <2>0
    <3> HIDE DEF m, k
    <3>2. \A b \in 1..pushed : (m <= b => m - 1 < b) /\ (k = m => ~(m <= b /\ b < k))
        BY <3>1, NoneBetween
    <3>3. \A b \in 1..pushed : m <= b /\ b < k => kind = "back late" /\ m - 1 < b
        BY <3>1, <3>2, Zenon
    <3>4. QED BY <3>3 DEF m, k
  <2> HIDE DEF n
  <2>3. ASSUME Attended PROVE Flows(Append(q, e), r, v, fin, from, C, pushed)
    <3>1. Flows(q, s, v, fin, from, C, pushed) /\ s.gen = 0 BY <1>5, <2>3
    <3>2. kind # "error" /\ kind # "word" BY <1>13 DEF Backs
    <3>3. QED BY <1>3, <1>8, <1>13, <2>1, <2>2, <3>1, <3>2
  <2>4. e \in Events /\ f \in Events BY <1>7, <1>11, <2>1
  <2>5. Append(q, e) \in Seq(Events) BY <1>3, <2>4, AppendProperties
  <2> HIDE DEF e
  <2>6. Attended => Flows(Append(Append(q, e), f), r, v, fin, from, C, pushed)
    <3>1. "connected" \notin Backs BY DEF Backs
    <3>2. r.next \in Nat /\ 0 < r.next BY <1>1, <2>0
    <3>3. \A b \in 1..pushed : ~(r.next <= b /\ b < r.next) BY <3>2
    <3>4. Attended => s.gen = 0 BY <1>5
    <3>5. "connected" # "word" /\ "connected" # "error" /\ "connected" \in EventKinds /\ 0 \in 0..pushed
        BY <1>11
    <3> DEFINE t == Append(q, e)
    <3>6. t \in Seq(Events) BY <2>5
    <3> HIDE DEF t
    <3>7. ASSUME Attended PROVE Flows(Append(t, f), r, v, fin, from, C, pushed)
      <4>1. Flows(t, r, v, fin, from, C, pushed) /\ s.gen = 0 BY <2>3, <3>4, <3>7 DEF t
      <4>2. r.next <= r.next BY <3>2
      <4>3. QED BY <1>8, <1>13, <3>1, <3>2, <3>3, <3>5, <3>6, <4>1, <4>2
    <3>8. QED BY <3>7 DEF t
  <2>7. q \o <<e, f>> = Append(Append(q, e), f) BY <1>3, <2>4, TwoEvents
  <2>8. QED BY <1>9, <1>13, <2>6, <2>7 DEF e, n
<1>14. ASSUME s.phase = "dial", s.again,
              Moves(Source, [s EXCEPT !.phase = "up", !.again = FALSE],
                    <<Event(Source, "back", s.next - 1), Event(Source, "connected", 0)>>)
       PROVE  Audio'
  <2> DEFINE r == [s EXCEPT !.phase = "up", !.again = FALSE]
  <2>1. r \in StreamOf /\ r.next = s.next /\ r.gen = s.gen /\ r.stopped = s.stopped /\ ~r.again
        /\ r.phase = "up" /\ s.next <= r.next
      BY <1>1, <1>3, <1>4, <1>14 DEF StreamOf
  <2> HIDE DEF r
  <2>2. Moves(Source, r, <<Event(Source, "back", s.next - 1), Event(Source, "connected", 0)>>)
      BY <1>14 DEF r
  <2>3. "back" \in Backs BY DEF Backs
  <2>4. QED BY <1>13, <1>14, <2>1, <2>2, <2>3
<1>15. ASSUME s.phase = "dial", s.again,
              Moves(Source, [s EXCEPT !.phase = "up", !.again = FALSE, !.next = pushed + 1, !.leg = @ + 1],
                    <<Event(Source, "back late", s.next - 1), Event(Source, "connected", 0)>>)
       PROVE  Audio'
  <2> DEFINE r == [s EXCEPT !.phase = "up", !.again = FALSE, !.next = pushed + 1, !.leg = @ + 1]
  <2>1. r \in StreamOf /\ r.next = pushed + 1 /\ r.gen = s.gen /\ r.stopped = s.stopped /\ ~r.again
        /\ r.phase = "up" /\ s.next <= r.next
    <3>1. r \in StreamOf BY <1>4
    <3>2. r.next = pushed + 1 /\ r.gen = s.gen /\ r.stopped = s.stopped /\ ~r.again /\ r.phase = "up"
        BY <1>3 DEF StreamOf
    <3> HIDE DEF r
    <3>3. QED BY <1>1, <1>3, <3>1, <3>2
  <2> HIDE DEF r
  <2>2. Moves(Source, r, <<Event(Source, "back late", s.next - 1), Event(Source, "connected", 0)>>)
      BY <1>15 DEF r
  <2>3. "back late" \in Backs BY DEF Backs
  <2>4. QED BY <1>13, <1>15, <2>1, <2>2, <2>3
<1>16. ASSUME s.phase = "up", s.next <= pushed,
              Moves(Source, [s EXCEPT !.next = @ + 1], <<Event(Source, "word", s.next)>>)
       PROVE  Audio'
  <2> DEFINE r == [s EXCEPT !.next = @ + 1]
             n == s.next
  <2>1. r \in StreamOf /\ r.next = n + 1 /\ r.gen = s.gen /\ r.stopped = s.stopped /\ r.again = s.again
        /\ r.phase = "up" /\ n \in 1..pushed
      BY <1>1, <1>3, <1>4, <1>16 DEF StreamOf
  <2>2. n \in 0..pushed /\ n # 0 /\ n <= r.next /\ n < r.next
        /\ \A b \in 1..pushed : n <= b /\ b < r.next => n = b
      BY <1>1, <2>1
  <2>3. Moves(Source, r, <<Event(Source, "word", n)>>) BY <1>16
  <2> HIDE DEF r
  <2>4. Attended => ~s.again BY <1>5, <1>16 DEF Flows, Turns
  <2>5. n = s.next OBVIOUS
  <2> HIDE DEF n
  <2>6. "word" \notin Backs BY DEF Backs
  <2>7. Attended => (r.again => r.phase \in {"dial", "died"}) BY <2>1, <2>4
  <2>8. \A b \in 1..pushed : s.next <= b /\ b < r.next => n = b BY <2>2, <2>5
  <2>9. s.next <= r.next BY <2>2, <2>5
  <2>10. QED BY <1>10, <1>11, <2>1, <2>2, <2>3, <2>6, <2>7, <2>8, <2>9
<1>17. ASSUME NEW kind \in {"lost", "planned"},
              Moves(Source, [s EXCEPT !.phase = "dial", !.again = TRUE], <<Event(Source, kind, 0)>>)
       PROVE  Audio'
  <2> DEFINE r == [s EXCEPT !.phase = "dial", !.again = TRUE]
  <2>1. r \in StreamOf /\ r.next = s.next /\ r.gen = s.gen /\ r.stopped = s.stopped /\ r.phase = "dial"
      BY <1>3, <1>4, <1>17 DEF StreamOf
  <2> HIDE DEF r
  <2>2. Moves(Source, r, <<Event(Source, kind, 0)>>) BY <1>17 DEF r
  <2>3. kind \in Losses /\ kind \notin Backs /\ kind # "word" /\ kind # "error" /\ kind \in EventKinds
      BY <1>11, <1>17 DEF Losses, Backs
  <2>4. 0 < r.next /\ s.next <= r.next /\ \A b \in 1..pushed : ~(s.next <= b /\ b < r.next)
      BY <1>1, <1>3, <2>1
  <2>5. QED BY <1>10, <1>11, <2>1, <2>2, <2>3, <2>4
<1>18. ASSUME Moves(Source, [s EXCEPT !.phase = "died"], <<Event(Source, "error", 0)>>)
       PROVE  Audio'
  <2> DEFINE r == [s EXCEPT !.phase = "died"]
  <2>1. r \in StreamOf /\ r.next = s.next /\ r.gen = s.gen /\ r.stopped = s.stopped /\ r.phase = "died"
      BY <1>3, <1>4, <1>18 DEF StreamOf
  <2> HIDE DEF r
  <2>2. Moves(Source, r, <<Event(Source, "error", 0)>>) BY <1>18 DEF r
  <2>3. "error" \notin Backs BY DEF Backs
  <2>4. 0 < r.next /\ s.next <= r.next /\ \A b \in 1..pushed : ~(s.next <= b /\ b < r.next)
      BY <1>1, <1>3, <2>1
  <2>5. QED BY <1>10, <1>11, <2>1, <2>2, <2>3, <2>4
<1>19. ASSUME s.phase = "up", s.next > pushed, call.op = "stop",
              Moves(Source, [s EXCEPT !.phase = "ended"], << >>)
       PROVE  Audio'
  <2> DEFINE r == [s EXCEPT !.phase = "ended"]
  <2>1. r \in StreamOf /\ r.next = s.next /\ r.gen = s.gen /\ r.stopped = s.stopped /\ r.again = s.again
        /\ r.phase = "ended"
      BY <1>3, <1>4, <1>19 DEF StreamOf
  <2> HIDE DEF r
  <2>2. Moves(Source, r, << >>) BY <1>19 DEF r
  <2>3. q \o << >> = q BY <1>3, ConcatEmptySeq
  <2>4. capture \notin {"recording", "paused"} BY <1>1, <1>19 DEF Commands
  <2>5. Attended => Flows(q, r, v, fin, from, C, pushed)
    <3>1. Attended => /\ Flows(q, s, v, fin, from, C, pushed) BY <1>5
    <3>2. Single(q, s, v) => ~v.failed /\ Single(q, r, v)
      <4>1. Single(q, s, v) => ~v.failed /\ \A i \in 1..Len(q) : q[i].kind # "error"
          BY <1>19 DEF Single
      <4>2. QED BY <2>1, <4>1 DEF Single
    <3>3. Turns(q, s, v) => Turns(q, r, v) BY <1>19, <2>1 DEF Turns
    <3>4. Reached(q, s, C, pushed) => Reached(q, r, C, pushed) BY <2>1 DEF Reached
    <3>5. QED BY <3>1, <3>2, <3>3, <3>4 DEF Flows
  <2>6. QED BY <1>9, <1>19, <2>1, <2>2, <2>3, <2>4, <2>5
<1>20. QED BY <1>1, <1>12, <1>14, <1>15, <1>16, <1>17, <1>18, <1>19 DEF StreamActs, s

-----------------------------------------------------------------------------
(* The collector hears.                                                      *)

(* What the source lane says is heard in the epoch of its one connection.    *)
LEMMA SourceHeard ==
    ASSUME WriterInv, Sole, Audio, NEW g \in Groups, NEW e \in Events, NEW d \in CollectorOf,
           HeardAct(g, Source, e, d)
    PROVE  /\ g = opened /\ Attended /\ SourceFlows /\ col[g] \in CollectorOf
           /\ ~Late(col[g], Source, e.gen) /\ HeardIt(g, Source, col[g], d, e)
           /\ ~ \E r \in Rows : r.seq = col[g].next
<1> DEFINE c == col[g]
           q == inbox[g][Source]
<1>1. Typed /\ TypeOK /\ c \in CollectorOf /\ Source \in Lanes /\ q \in Seq(Events)
    BY DEF WriterInv, Typed, Lanes
<1>2. /\ c.at = "run" /\ q # << >> /\ e = Head(q)
      /\ HeardIt(g, Source, Revived(c, Source, e.gen), d, e)
    BY DEF HeardAct
<1>3. g = opened BY <1>2 DEF Sole, Alone, Writing
<1>4. Attended /\ SourceFlows BY <1>2, <1>3 DEF Attended, Audio, None, Groups
<1>5. c.view[Source].gen = 0 /\ ~c.view[Source].failed /\ e.gen = 0
  <2>1. Single(q, stream[Source], c.view[Source]) BY <1>3, <1>4 DEF SourceFlows, Flows
  <2>2. 1 \in 1..Len(q) /\ q[1] = e
    <3>1. Len(q) \in Nat /\ Len(q) # 0 BY <1>1, <1>2, EmptySeq
    <3>2. QED BY <1>2, <3>1
  <2> HIDE DEF q, c
  <2>3. QED BY <1>2, <2>1, <2>2 DEF Single
<1>6. Revived(c, Source, e.gen) = c
  <2> DEFINE n == e.gen
  <2>1. n <= c.view[Source].gen BY <1>5
  <2> HIDE DEF c, n
  <2>2. Revived(c, Source, n) = c BY <2>1, RevivedSame
  <2>3. QED BY <2>2 DEF n
<1>7. ~Late(c, Source, e.gen) BY <1>5 DEF Late
<1>8. ~ \E r \in Rows : r.seq = c.next
  <2>1. \A r \in Rows : r.seq < c.next /\ r.seq \in Nat
      BY <1>1, <1>2 DEF Sole, Numbered, Writing, Typed, FactOf, Rows
  <2>2. c.next \in Nat BY <1>1 DEF CollectorOf
  <2>3. QED BY <2>1, <2>2
<1>9. QED BY <1>1, <1>2, <1>3, <1>4, <1>6, <1>7, <1>8

(* What may be written: a row for the word, or the gap of a stretch.         *)
LEMMA SourceWrites ==
    ASSUME WriterInv, Sole, Audio, NEW g \in Groups, NEW e \in Events, NEW d \in CollectorOf,
           HeardAct(g, Source, e, d), ~Excused'
    PROVE  LET c == col[g]
               v == c.view[Source]
               w == d.view[Source]
           IN  /\ d.at = c.at /\ w.gen = v.gen /\ gaps \subseteq gaps'
               /\ w.failed => v.failed \/ e.kind = "error"
               /\ e.kind \in Losses => w.awaiting
               /\ \/ /\ e.kind = "word" /\ Rows' = Rows \cup {Word(g, Source, c, e, c.next)}
                     /\ w = v /\ d.final = e.word /\ d.since = c.since
                  \/ /\ e.kind \in Backs /\ Rows' = Rows /\ ~w.awaiting
                     /\ d.since = Never /\ d.final = e.word
                     /\ (e.kind = "back late" /\ v.awaiting /\ c.since # Never)
                           => (c.since + 1)..pushed \subseteq gaps'
                  \/ /\ e.kind \in Losses /\ Rows' = Rows /\ d.final = c.final
                     /\ \/ d.since = c.since /\ c.since # Never
                        \/ c.final # Never /\ d.since = Min({c.final, pushed})
                        \/ d.since = pushed /\ \A b \in 1..pushed : Covered(b)
                  \/ /\ e.kind \in {"connected", "error"} /\ Rows' = Rows
                     /\ (w.awaiting => v.awaiting) /\ d.final = c.final /\ d.since = c.since
<1> DEFINE c == col[g]
           v == c.view[Source]
           w == d.view[Source]
<1>1. /\ c \in CollectorOf /\ ~Late(c, Source, e.gen) /\ HeardIt(g, Source, c, d, e)
      /\ ~ \E r \in Rows : r.seq = c.next
    BY SourceHeard
<1>2. v \in ViewOf BY <1>1 DEF CollectorOf, Lanes
<1>3. Losses = {"lost", "planned"} /\ Backs = {"back", "back late"} BY DEF Losses, Backs
<1> HIDE DEF c
<1>4. CASE e.kind = "connected" /\ HeardConnected(Source, c, d)
  <2>1. w = [v EXCEPT !.connected = TRUE, !.awaiting = FALSE] /\ d.at = c.at
        /\ d.final = c.final /\ d.since = c.since /\ UNCHANGED <<said, gaps>>
      BY <1>4 DEF HeardConnected, Kept, Marks, Told
  <2>2. w.gen = v.gen /\ w.failed = v.failed /\ w.awaiting = FALSE BY <1>2, <2>1 DEF ViewOf
  <2>3. Rows' = Rows BY <2>1 DEF Rows
  <2>4. QED BY <1>3, <1>4, <2>1, <2>2, <2>3 DEF c
<1>5. CASE e.kind = "error" /\ HeardError(g, Source, c, d)
  <2>1. w = [v EXCEPT !.connected = FALSE, !.failed = TRUE] /\ d.at = c.at
        /\ d.final = c.final /\ d.since = c.since /\ UNCHANGED <<said, gaps>>
      BY <1>5 DEF HeardError, Kept, Marks
  <2>2. w.gen = v.gen /\ w.awaiting = v.awaiting BY <1>2, <2>1 DEF ViewOf
  <2>3. Rows' = Rows BY <2>1 DEF Rows
  <2>4. QED BY <1>3, <1>5, <2>1, <2>2, <2>3 DEF c
<1>6. CASE e.kind \in {"back", "back late"} /\ HeardBack(Source, c, d, e)
  <2> DEFINE late == v.awaiting /\ e.kind = "back late"
  <2>1. /\ w = [v EXCEPT !.awaiting = FALSE, !.epoch = IF late THEN c.epoch + 1 ELSE @]
        /\ d.at = c.at /\ d.since = Never /\ d.final = e.word /\ said' = said
        /\ gaps' = IF late /\ c.since # Never THEN gaps \cup ((c.since + 1)..pushed) ELSE gaps
      BY <1>6 DEF HeardBack
  <2>2. w.gen = v.gen /\ w.failed = v.failed /\ w.awaiting = FALSE BY <1>2, <2>1 DEF ViewOf
  <2>3. Rows' = Rows BY <2>1 DEF Rows
  <2>4. gaps \subseteq gaps' /\ (late /\ c.since # Never => (c.since + 1)..pushed \subseteq gaps')
      BY <2>1
  <2>5. QED BY <1>3, <1>6, <2>1, <2>2, <2>3, <2>4 DEF c
<1>7. CASE e.kind \in {"lost", "planned"} /\ HeardLost(Source, c, d, e)
  <2>1. /\ w = [v EXCEPT !.awaiting = TRUE, !.connected = @ /\ e.kind = "planned"]
        /\ d.at = c.at /\ d.final = c.final /\ UNCHANGED <<said, gaps>>
        /\ d.since = IF c.since = Never
                     THEN IF c.final = Never THEN pushed ELSE Min({c.final, pushed}) ELSE c.since
        /\ mishap' = mishap \cup
              (IF c.since = Never /\ c.final = Never /\ \E b \in 1..pushed : ~Covered(b)
               THEN {"unanchored"} ELSE {})
      BY <1>7 DEF HeardLost, Kept
  <2>2. w.gen = v.gen /\ w.failed = v.failed /\ w.awaiting = TRUE BY <1>2, <2>1 DEF ViewOf
  <2>3. Rows' = Rows BY <2>1 DEF Rows
  <2>4. c.since = Never /\ c.final = Never => \A b \in 1..pushed : Covered(b)
      BY <2>1 DEF Excused
  <2>5. \/ d.since = c.since /\ c.since # Never
        \/ c.final # Never /\ d.since = Min({c.final, pushed})
        \/ d.since = pushed /\ \A b \in 1..pushed : Covered(b)
      BY <2>1, <2>4
  <2>6. QED BY <1>3, <1>7, <2>1, <2>2, <2>3, <2>5 DEF c
<1>8. CASE e.kind = "word" /\ HeardRow(g, Source, c, d, e)
  <2>1. said' = said \cup {Word(g, Source, c, e, c.next)} /\ d.view = c.view /\ d.at = c.at
        /\ d.since = c.since /\ d.final = e.word /\ gaps' = gaps
      BY <1>8 DEF HeardRow
  <2>2. Rows' = Rows \cup {Word(g, Source, c, e, c.next)} BY <2>1 DEF Rows, Word
  <2>3. QED BY <1>3, <1>8, <2>1, <2>2 DEF c
<1>9. ~HeardRefused(g, c, d) /\ ~HeardFact(g, Source, c, d, e)
    BY <1>1 DEF HeardRefused, HeardFact
<1>10. QED BY <1>1, <1>4, <1>5, <1>6, <1>7, <1>8, <1>9 DEF HeardIt

(* The flow goes on behind what is written.                                  *)
LEMMA AudioHeard ==
    ASSUME WriterInv, WriterInv', Sole, Audio, NEW g \in Groups, NEW e \in Events, NEW d \in CollectorOf,
           HeardAct(g, Source, e, d), ~Excused'
    PROVE  Audio'
<1> DEFINE c == col[g]
           q == inbox[g][Source]
           s == stream[Source]
           v == c.view[Source]
           w == d.view[Source]
           row == Word(g, Source, c, e, c.next)
<1>1. /\ Typed /\ TypeOK /\ Numbers /\ pushed \in Nat /\ opened \in Groups /\ Source \in Lanes
      /\ g = opened /\ Attended /\ SourceFlows /\ c \in CollectorOf
  <2>1. Typed /\ TypeOK /\ Numbers /\ pushed \in Nat /\ Source \in Lanes
      BY DEF WriterInv, Typed, TypeOK, Lanes
  <2>2. QED BY <2>1, SourceHeard
<1>2. /\ q # << >> /\ e = Head(q) /\ q \in Seq(Events) /\ c.at = "run"
      /\ inbox' = [inbox EXCEPT ![g][Source] = Tail(@)] /\ col' = [col EXCEPT ![g] = d]
      /\ UNCHANGED <<capture, pushed, opened, remote, cleanup, stream, cuts, call, troubles>>
    BY <1>1 DEF HeardAct, Typed
<1>3. inbox'[g][Source] = Tail(q) /\ col'[g] = d
      /\ \A h \in Groups \ {g} : inbox'[h] = inbox[h] /\ col'[h] = col[h]
  <2>1. inbox \in [Groups -> [Lanes -> Seq(Events)]] /\ col \in [Groups -> CollectorOf]
      BY <1>1 DEF Typed
  <2>2. QED BY <1>1, <1>2, <2>1
<1>4. Flows(q, s, v, c.final, c.since, Blocks, pushed) BY <1>1 DEF SourceFlows
<1>5. /\ d.at = c.at /\ w.gen = v.gen /\ gaps \subseteq gaps'
      /\ w.failed => v.failed \/ e.kind = "error"
      /\ e.kind \in Losses => w.awaiting
    BY SourceWrites
<1>6. \/ /\ e.kind = "word" /\ Rows' = Rows \cup {row}
         /\ w = v /\ d.final = e.word /\ d.since = c.since
      \/ /\ e.kind \in Backs /\ Rows' = Rows /\ ~w.awaiting
         /\ d.since = Never /\ d.final = e.word
         /\ (e.kind = "back late" /\ v.awaiting /\ c.since # Never) => (c.since + 1)..pushed \subseteq gaps'
      \/ /\ e.kind \in Losses /\ Rows' = Rows /\ d.final = c.final
         /\ \/ d.since = c.since /\ c.since # Never
            \/ c.final # Never /\ d.since = Min({c.final, pushed})
            \/ d.since = pushed /\ \A b \in 1..pushed : Covered(b)
      \/ /\ e.kind \in {"connected", "error"} /\ Rows' = Rows
         /\ (w.awaiting => v.awaiting) /\ d.final = c.final /\ d.since = c.since
    BY SourceWrites
<1>7. /\ Single(q, s, v) /\ Turns(q, s, v) /\ Reached(q, s, Blocks, pushed)
      /\ Noted(v, c.final, c.since, Blocks, pushed)
    BY <1>4 DEF Flows
<1>8. c.final \in (0..pushed) \cup {Never} /\ c.since \in (0..pushed) \cup {Never}
    BY <1>1 DEF CollectorOf
<1>9. e.word \in 0..pushed /\ e.word \in Nat /\ \A x \in Events : x.word \in Nat
    BY <1>1 DEF Events
<1>10. 1 \in 1..Len(q) /\ q[1] = e
  <2>1. Len(q) \in Nat /\ Len(q) # 0 BY <1>2, EmptySeq
  <2>2. QED BY <1>2, <2>1
<1>11. row.word = e.word BY DEF Word
<1> HIDE DEF c, q, s, v, w, row
<1>12. Rows \subseteq Rows' /\ pushed' = pushed BY <1>2, <1>6
<1>13. (\A b : Covered(b) => Covered(b)') /\ Blocks \subseteq Blocks'
    BY <1>1, <1>5, <1>12, CoveredStays
(* What the event says all blocks up to it are. *)
<1>14. ASSUME e.kind \in Backs \cup {"word"}, NEW b \in 1..pushed, b <= e.word
       PROVE  b \in Blocks \/ (e.kind = "word" /\ b = e.word)
  <2>1. b \in Blocks \/ Promised(q, 1, b) BY <1>7, <1>10, <1>14 DEF Reached
  <2>2. Promised(q, 1, b) => Promise(e, b) BY <1>10 DEF Promised
  <2>3. Promise(e, b) => e.kind = "word" /\ b = e.word
    <3>1. ~(e.word < b) BY <1>1, <1>9, <1>14
    <3>2. QED BY <3>1 DEF Promise
  <2>4. QED BY <2>1, <2>2, <2>3
<1>15. e.kind = "word" => e.word \in Blocks'
  <2>1. SUFFICES ASSUME e.kind = "word" PROVE e.word \in Blocks' OBVIOUS
  <2>2. row \in Rows' /\ e.word \in 1..pushed
    <3>1. "word" \notin Losses /\ "word" \notin Backs BY DEF Losses, Backs
    <3>2. e.word # 0 BY <2>1 DEF Events
    <3>3. QED BY <1>6, <1>9, <2>1, <3>1, <3>2
  <2>3. QED BY <1>11, <1>12, <2>2 DEF Blocks, Covered
<1>16. \A b \in 1..pushed : Promise(e, b) => b \in Blocks'
  <2>1. TAKE b \in 1..pushed
  <2>2. HAVE Promise(e, b)
  <2>3. CASE e.kind = "word" BY <1>15, <2>2, <2>3 DEF Promise
  <2>4. CASE e.kind = "back late"
    <3>1. e.word < b /\ e.kind \in Backs BY <2>2, <2>4 DEF Promise, Backs
    <3>2. v.awaiting /\ c.since # Never
      <4>1. v.awaiting BY <1>7, <1>10, <3>1 DEF Turns
      <4>2. QED BY <1>7, <4>1 DEF Noted
    <3>3. "back late" \notin Losses /\ "back late" \notin {"word", "connected", "error"}
        BY DEF Losses
    <3>4. (c.since + 1)..pushed \subseteq gaps' BY <1>6, <2>4, <3>2, <3>3
    <3>5. CASE b <= c.since BY <1>7, <1>13, <3>2, <3>5 DEF Noted
    <3>6. CASE ~(b <= c.since)
      <4>1. c.since \in 0..pushed BY <1>8, <3>2
      <4>2. b \in (c.since + 1)..pushed BY <1>1, <3>6, <4>1
      <4>3. b \in gaps' BY <3>4, <4>2
      <4>4. QED BY <1>12, <4>3 DEF Blocks, Covered
    <3>7. QED BY <3>5, <3>6
  <2>5. QED BY <2>2, <2>3, <2>4 DEF Promise
<1>17. Noted(w, d.final, d.since, Blocks', pushed)
  <2>1. CASE e.kind = "word" /\ w = v /\ d.final = e.word /\ d.since = c.since
      BY <1>7, <1>13, <1>14, <1>15, <2>1 DEF Noted
  <2>2. CASE e.kind \in Backs /\ ~w.awaiting /\ d.since = Never /\ d.final = e.word
    <3>1. e.kind # "word" BY <2>2 DEF Backs
    <3>2. QED BY <1>13, <1>14, <2>2, <3>1 DEF Noted
  <2>3. CASE e.kind \in Losses /\ d.final = c.final /\ d.since = c.since /\ c.since # Never
      BY <1>7, <1>13, <2>3 DEF Noted
  <2>4. CASE e.kind \in Losses /\ d.final = c.final /\ c.final # Never /\ d.since = Min({c.final, pushed})
    <3>1. c.final \in 0..pushed BY <1>8, <2>4
    <3> DEFINE f == c.final
               m == Min({f, pushed})
    <3>2. f \in Int /\ pushed \in Int /\ f \in 0..pushed BY <1>1, <3>1
    <3> HIDE DEF f
    <3>3. m \in {f, pushed} /\ m <= f /\ m <= pushed BY <3>2, TwoMin
    <3> HIDE DEF m
    <3>4. m \in 0..pushed /\ \A b \in 1..pushed : b <= m => b <= f BY <3>2, <3>3
    <3>5. d.since = m /\ d.final = f /\ f = c.final BY <2>4 DEF m, f
    <3>6. m # Never BY <3>4 DEF Never
    <3>7. \A b \in 1..pushed : b <= f => b \in Blocks BY <1>7, <2>4, <3>5 DEF Noted
    <3>8. QED BY <1>13, <3>4, <3>5, <3>6, <3>7 DEF Noted
  <2>5. CASE e.kind \in Losses /\ d.final = c.final /\ d.since = pushed /\ \A b \in 1..pushed : Covered(b)
    <3>1. \A b \in 1..pushed : b \in Blocks' BY <1>13, <2>5 DEF Blocks
    <3>2. pushed # Never BY <1>1 DEF Never
    <3>3. QED BY <2>5, <3>1, <3>2 DEF Noted
  <2>6. CASE (w.awaiting => v.awaiting) /\ d.final = c.final /\ d.since = c.since
      BY <1>7, <1>13, <2>6 DEF Noted
  <2>7. QED BY <1>6, <2>1, <2>2, <2>3, <2>4, <2>5, <2>6
<1>18. w.gen = 0 BY <1>5, <1>7 DEF Single
<1>19. Flows(Tail(q), s, w, d.final, d.since, Blocks', pushed)
  <2> DEFINE C == Blocks
             D == Blocks'
             fin == c.final
             from == c.since
             fin2 == d.final
             from2 == d.since
  <2>1. C \subseteq D /\ Flows(q, s, v, fin, from, C, pushed) /\ Noted(w, fin2, from2, D, pushed)
        /\ \A b \in 1..pushed : Promise(Head(q), b) => b \in D
      BY <1>2, <1>4, <1>13, <1>16, <1>17
  <2>2. (w.failed => v.failed \/ Head(q).kind = "error") /\ (Head(q).kind \in Losses => w.awaiting)
      BY <1>2, <1>5
  <2> HIDE DEF C, D, fin, from, fin2, from2
  <2>3. Flows(Tail(q), s, w, fin2, from2, D, pushed)
      BY <1>1, <1>2, <1>9, <1>18, <2>1, <2>2, FlowsTail
  <2>4. QED BY <2>3 DEF D, fin2, from2
<1>20. SourceFlows'
  <2>1. Flows(inbox'[opened'][Source], stream'[Source], col'[opened'].view[Source], col'[opened'].final,
              col'[opened'].since, Blocks', pushed')
      BY <1>1, <1>2, <1>3, <1>19 DEF s, w, q
  <2>2. col'[opened'].at # "done" BY <1>1, <1>2, <1>3, <1>5
  <2>3. stream'[Source].phase = "ended" => stream'[Source].next > pushed' /\ capture' \notin {"recording", "paused"}
      BY <1>1, <1>2 DEF SourceFlows
  <2>4. QED BY <2>1, <2>2, <2>3 DEF SourceFlows
<1>21. Behind'
  <2>1. ASSUME NEW b \in 1..pushed', ~(Covered(b)') PROVE b > Through'
    <3>1. b \in 1..pushed /\ ~Covered(b) /\ b > Through BY <1>2, <1>13, <2>1 DEF Audio, Behind
    <3>2. b \notin Blocks' /\ b \notin Blocks BY <2>1, <3>1 DEF Blocks
    <3>3. /\ Through \in 0..pushed /\ \A r \in Rows : r.word <= Through BY <1>1, ThroughIs
    <3>4. Through' \in 0..pushed' /\ (Through' = 0 \/ \E r \in Rows' : r.word = Through')
      <4>1. Typed' /\ Numbers' /\ pushed' \in Nat BY <1>1, <1>2 DEF WriterInv
      <4> DEFINE R == Rows'
                 n == pushed'
      <4>2. n \in Nat /\ (\A r \in R : r.word \in 1..n) /\ Topped({0} \cup {r.word : r \in R})
          BY <4>1 DEF Typed, FactOf, Rows, Numbers
      <4> HIDE DEF R, n
      <4>3. LET t == Max({0} \cup {r.word : r \in R}) IN
            t \in 0..n /\ (t = 0 \/ \E r \in R : r.word = t)
          BY <4>2, GreatestWord
      <4>4. QED BY <4>3 DEF R, n, Through
    <3> HIDE DEF Through
    <3>5. CASE Through' = 0 BY <3>1, <3>5
    <3>6. CASE \E r \in Rows : r.word = Through' BY <3>1, <3>3, <3>4, <3>6
    <3>7. CASE e.kind = "word" /\ Through' = e.word
      <4>1. ~(b <= e.word) BY <1>14, <1>15, <3>1, <3>2, <3>7
      <4>2. QED BY <1>9, <3>1, <3>7, <4>1
    <3>8. QED BY <1>6, <1>11, <3>4, <3>5, <3>6, <3>7
  <2>2. QED BY <2>1 DEF Behind
<1>22. NotOwed' BY <1>1, <1>2, <1>3, <1>5 DEF Audio, NotOwed, c
<1>23. Unopened'
  <2>1. \A h \in Groups : h > opened => h # opened BY <1>1 DEF Groups
  <2>2. QED BY <1>1, <1>2, <1>3, <2>1 DEF Audio, Unopened
<1>24. TailIsRecorded' BY <1>2, <1>13 DEF Audio, TailIsRecorded
<1>25. QED BY <1>20, <1>21, <1>22, <1>23, <1>24 DEF Audio

-----------------------------------------------------------------------------
(* Everything else leaves the flow alone.                                    *)
LEMMA QuietKeeps ==
    ASSUME WriterInv, Audio, Besides, NotOwed'
    PROVE  Audio'
<1>1. Behind' /\ Unopened' /\ TailIsRecorded' /\ (Attended' => SourceFlows') BY BesidesKeeps
<1>2. QED BY <1>1 DEF Audio

(* The stop under way owes what it owed.                                     *)
LEMMA SameCall ==
    ASSUME Audio, call' = call, opened' = opened,
           stream[Source].phase = "ended" => stream'[Source].phase = "ended",
           (opened # None /\ col[opened].at = "done") => col'[opened].at = "done"
    PROVE  NotOwed'
    BY DEF Audio, NotOwed

(* The other lanes.                                                          *)
LEMMA AudioStreams ==
    ASSUME WriterInv, GroupAssumption, Audio, NEW l \in Lanes, l # Source, StreamStep(l)
    PROVE  Audio'
<1>1. Typed /\ StreamActs(l) /\ Source \in Lanes
  <2>1. Typed /\ Source \in Lanes BY DEF WriterInv, Typed, Lanes
  <2>2. QED BY <2>1, StreamActsIs
<1>2. \E r, es : Moves(l, r, es) BY <1>1 DEF StreamActs
<1>3. PICK r, es : Moves(l, r, es) BY <1>2
<1>4. /\ stream' = [stream EXCEPT ![l] = r] /\ inbox' = [inbox EXCEPT ![opened][l] = @ \o es]
      /\ UNCHANGED <<capture, pushed, said, gaps, opened, cancelled, col, call>>
    BY <1>3 DEF Moves
<1>5. stream'[Source] = stream[Source] /\ \A g \in Groups : inbox'[g][Source] = inbox[g][Source]
  <2>1. stream \in [Lanes -> StreamOf] /\ inbox \in [Groups -> [Lanes -> Seq(Events)]]
      BY <1>1 DEF Typed
  <2>2. QED BY <1>1, <1>4, <2>1
<1>6. Rows' = Rows /\ (Attended' <=> Attended) BY <1>4 DEF Rows, Attended
<1>7. opened # None => opened \in Groups BY <1>1 DEF Typed, TypeOK, Groups, None
<1>8. Besides BY <1>4, <1>5, <1>6, <1>7 DEF Besides, Attended
<1>9. NotOwed' BY <1>4, <1>5, SameCall
<1>10. QED BY <1>8, <1>9, QuietKeeps

(* A translation lane that is heard changes nothing of the source lane's.    *)
LEMMA OtherHeard ==
    ASSUME WriterInv, NEW g \in Groups, NEW l \in Lanes, l # Source, NEW e \in Events,
           NEW d \in CollectorOf, HeardAct(g, l, e, d)
    PROVE  /\ Rows' = Rows /\ gaps' = gaps /\ cancelled \subseteq cancelled'
           /\ d.view[Source] = col[g].view[Source] /\ d.final = col[g].final
           /\ d.since = col[g].since /\ d.at = col[g].at
<1> DEFINE c == Revived(col[g], l, e.gen)
<1>1. col[g] \in CollectorOf /\ e.gen \in Nat /\ Source \in Lanes \ {l}
    BY DEF WriterInv, Typed, Events, Lanes
<1>2. /\ \A k \in Lanes \ {l} : c.view[k] = col[g].view[k]
      /\ c.at = col[g].at /\ c.final = col[g].final /\ c.since = col[g].since
  <2> DEFINE b == col[g]
             n == e.gen
  <2>1. b \in CollectorOf /\ n \in Nat BY <1>1
  <2> HIDE DEF b, n
  <2>2. LET f == Revived(b, l, n) IN
        /\ \A k \in Lanes \ {l} : f.view[k] = b.view[k]
        /\ f.at = b.at /\ f.final = b.final /\ f.since = b.since
      BY <2>1, RevivedIs
  <2>3. QED BY <2>2 DEF b, n
<1>3. HeardIt(g, l, c, d, e) BY DEF HeardAct
<1> HIDE DEF c
<1>4. d.view[Source] = c.view[Source] BY <1>1, <1>3 DEF HeardIt
<1>5. \/ d = c /\ Told
      \/ HeardConnected(l, c, d) \/ HeardBack(l, c, d, e) \/ HeardLost(l, c, d, e)
      \/ HeardRow(g, l, c, d, e) \/ HeardFact(g, l, c, d, e) \/ HeardError(g, l, c, d)
    BY <1>3 DEF HeardIt
<1>6. Word(g, l, c, e, 0).lane # Source BY DEF Word
<1>7. said' = said => Rows' = Rows BY DEF Rows
<1>8. /\ Rows' = Rows /\ gaps' = gaps /\ cancelled \subseteq cancelled'
      /\ d.final = c.final /\ d.since = c.since /\ d.at = c.at
  <2>1. CASE d = c /\ Told BY <1>7, <2>1 DEF Told
  <2>2. CASE HeardConnected(l, c, d) BY <1>7, <2>2 DEF HeardConnected, Kept, Marks, Told
  <2>3. CASE HeardBack(l, c, d, e) BY <1>7, <2>3 DEF HeardBack
  <2>4. CASE HeardLost(l, c, d, e) BY <1>7, <2>4 DEF HeardLost, Kept
  <2>5. CASE HeardFact(g, l, c, d, e)
    <3>1. Rows' = Rows BY <1>6, <2>5 DEF HeardFact, Rows
    <3>2. QED BY <2>5, <3>1 DEF HeardFact
  <2>6. CASE HeardError(g, l, c, d) BY <1>7, <2>6 DEF HeardError, Kept, Marks
  <2>7. ~HeardRow(g, l, c, d, e) BY DEF HeardRow
  <2>8. QED BY <1>5, <2>1, <2>2, <2>3, <2>4, <2>5, <2>6, <2>7
<1>9. QED BY <1>1, <1>2, <1>4, <1>8

(* Whatever the collector hears, what was promised is covered.               *)
LEMMA AudioHears ==
    ASSUME WriterInv, WriterInv', Sole, Audio, ~Excused', NEW g \in Groups, NEW l \in Lanes, Hear(g, l)
    PROVE  Audio'
<1>1. Typed BY DEF WriterInv
<1>2. PICK e \in Events : \E d \in CollectorOf : HeardAct(g, l, e, d) BY <1>1, HearIs
<1>3. PICK d \in CollectorOf : HeardAct(g, l, e, d) BY <1>2
<1>4. CASE l = Source BY <1>3, <1>4, AudioHeard
<1>5. CASE l # Source
  <2>1. /\ Rows' = Rows /\ gaps' = gaps /\ cancelled \subseteq cancelled'
        /\ d.view[Source] = col[g].view[Source] /\ d.final = col[g].final
        /\ d.since = col[g].since /\ d.at = col[g].at
      BY <1>3, <1>5, OtherHeard
  <2>2. /\ col[g].at = "run" /\ inbox' = [inbox EXCEPT ![g][l] = Tail(@)] /\ col' = [col EXCEPT ![g] = d]
        /\ UNCHANGED <<capture, pushed, opened, remote, cleanup, stream, cuts, call, troubles>>
      BY <1>3 DEF HeardAct
  <2>3. col'[g] = d /\ \A h \in Groups : inbox'[h][Source] = inbox[h][Source]
    <3>1. inbox \in [Groups -> [Lanes -> Seq(Events)]] /\ col \in [Groups -> CollectorOf] /\ Source \in Lanes
        BY <1>1 DEF Typed, Lanes
    <3>2. QED BY <1>5, <2>2, <3>1
  <2>4. g = opened BY <2>2 DEF Sole, Alone, Writing
  <2>5. Besides BY <2>1, <2>2, <2>3, <2>4 DEF Besides, Attended
  <2>6. NotOwed' BY <2>1, <2>2, <2>3, <2>4, SameCall
  <2>7. QED BY <2>5, <2>6, QuietKeeps
<1>6. QED BY <1>4, <1>5

(* Only translation lanes are cut off.                                       *)
LEMMA AudioCut ==
    ASSUME WriterInv, GroupAssumption, Sole, Audio, NEW g \in Groups, NEW l \in Lanes, HearCut(g, l)
    PROVE  Audio'
<1>1. Typed BY DEF WriterInv
<1>2. PICK cut \in CutOf, d \in CollectorOf : CutAct(g, l, cut, d) BY <1>1, HearCutIs
<1> DEFINE c == Revived(col[g], l, cut.gen)
<1>3. /\ col[g].at = "run" /\ cut.lane = l /\ col' = [col EXCEPT ![g] = d]
      /\ Kept(c, d) /\ Marks(c, d) /\ \A k \in Lanes \ {l} : d.view[k] = c.view[k]
      /\ UNCHANGED <<capture, pushed, said, gaps, opened, remote, cleanup, cancelled, stream,
                     inbox, call, troubles, mishap>>
    BY <1>2 DEF CutAct
<1>4. Source \in Lanes \ {l} /\ cut.gen \in Nat /\ col[g] \in CollectorOf
    BY <1>1, <1>3 DEF CutOf, GroupAssumption, Lanes, Typed
<1>5. /\ \A k \in Lanes \ {l} : c.view[k] = col[g].view[k]
      /\ c.at = col[g].at /\ c.final = col[g].final /\ c.since = col[g].since
  <2> DEFINE b == col[g]
             n == cut.gen
  <2>1. b \in CollectorOf /\ n \in Nat BY <1>4
  <2> HIDE DEF b, n
  <2>2. LET f == Revived(b, l, n) IN
        /\ \A k \in Lanes \ {l} : f.view[k] = b.view[k]
        /\ f.at = b.at /\ f.final = b.final /\ f.since = b.since
      BY <2>1, RevivedIs
  <2>3. QED BY <2>2 DEF b, n
<1> HIDE DEF c
<1>6. d.view[Source] = col[g].view[Source] /\ d.final = col[g].final /\ d.since = col[g].since
      /\ d.at = col[g].at
    BY <1>3, <1>4, <1>5 DEF Kept, Marks
<1>7. g = opened BY <1>3 DEF Sole, Alone, Writing
<1>8. col'[g] = d /\ Rows' = Rows BY <1>1, <1>3 DEF Typed, Rows
<1>9. Besides BY <1>3, <1>6, <1>7, <1>8 DEF Besides, Attended
<1>10. NotOwed' BY <1>3, <1>6, <1>7, <1>8, SameCall
<1>11. QED BY <1>9, <1>10, QuietKeeps

(* A group that ends: nothing is left unheard if it is done.                 *)
LEMMA AudioEnds ==
    ASSUME WriterInv, GroupAssumption, Sole, Audio, NEW g \in Groups, Break(g) \/ Settle(g) \/ Drain(g)
    PROVE  Audio'
<1>1. Typed /\ Source \in Lanes /\ inbox \in [Groups -> [Lanes -> Seq(Events)]]
      /\ col \in [Groups -> CollectorOf]
    BY DEF WriterInv, Typed, Lanes
<1>2. /\ col[g].at \in {"run", "settling"}
      /\ UNCHANGED <<capture, pushed, said, gaps, opened, stream, call>>
      /\ cancelled \subseteq cancelled'
    BY DEF Break, Settle, Drain, record
<1>3. g = opened BY <1>2 DEF Sole, Alone, Writing
<1>4. Rows' = Rows BY <1>2 DEF Rows
<1>5. \A h \in Groups : inbox'[h][Source] \in {inbox[h][Source], << >>}
  <2>1. CASE UNCHANGED inbox BY <2>1
  <2>2. CASE Settle(g)
    <3>1. inbox'[g] = Silent /\ \A h \in Groups \ {g} : inbox'[h] = inbox[h]
        BY <1>1, <2>2, ForgetIs DEF Settle
    <3>2. QED BY <1>1, <3>1 DEF Silent
  <2>3. QED BY <2>1, <2>2 DEF Break, Drain, queues
<1>6. Attended' => /\ Drain(g)
  <2>1. CASE Break(g)
    <3>1. col'[g].at = "settling" BY <1>1, <2>1 DEF Break, CollectorOf
    <3>2. QED BY <1>2, <1>3, <3>1 DEF Attended
  <2>2. CASE Settle(g)
    <3>1. col'[g].at = "failed" BY <1>1, <2>2 DEF Settle, CollectorOf
    <3>2. QED BY <1>2, <1>3, <3>1 DEF Attended
  <2>3. QED BY <2>1, <2>2
<1>7. ASSUME Drain(g)
      PROVE  /\ Attended /\ inbox' = inbox /\ inbox[g][Source] = << >> /\ ~Runs(Source)
             /\ col'[g] = [col[g] EXCEPT !.at = "done"]
  <2>1. inbox' = inbox /\ inbox[g] = Silent /\ Closed(g) /\ col' = [col EXCEPT ![g].at = "done"]
        /\ col[g].at = "run"
      BY <1>7 DEF Drain, queues
  <2>2. ~Runs(Source) BY <1>1, <1>3, <2>1 DEF Closed, Runs
  <2>3. QED BY <1>1, <1>3, <2>1, <2>2 DEF Silent, Attended, None, Groups
<1>8. Drain(g) => /\ col'[g].view = col[g].view /\ col'[g].final = col[g].final
                  /\ col'[g].since = col[g].since
    BY <1>1, <1>7 DEF CollectorOf
<1>9. Besides BY <1>2, <1>3, <1>4, <1>5, <1>6, <1>7, <1>8 DEF Besides
<1>10. NotOwed' BY <1>2, <1>3, SameCall
<1>11. QED BY <1>9, <1>10, QuietKeeps

-----------------------------------------------------------------------------
(* Stopping, forgiving and replacing translation lanes leaves the source     *)
(* lane's stream where it is.                                                *)
LEMMA SourceIsKept ==
    ASSUME Typed, GroupAssumption, NEW dead, dead \subseteq Aux, NEW lanes, lanes \subseteq Aux, NEW next
    PROVE  LET s == stream[Source]
               a == Stopped(dead)[Source]
               b == Replaced(Stopped(dead), lanes, next)[Source]
               c == Replaced(Forgiven(Stopped(dead)), lanes, next)[Source]
           IN  /\ a = s /\ b = s
               /\ \A f \in {"phase", "next", "again", "gen", "stopped"} : c[f] = s[f]
<1>1. Source \in Lanes /\ Source \notin dead /\ Source \notin lanes /\ stream[Source] \in StreamOf
    BY DEF GroupAssumption, Lanes, Typed
<1>2. Stopped(dead)[Source] = stream[Source] BY <1>1 DEF Stopped
<1>3. Replaced(Stopped(dead), lanes, next)[Source] = stream[Source] BY <1>1, <1>2 DEF Replaced
<1>4. Forgiven(Stopped(dead))[Source] = [stream[Source] EXCEPT !.restarts = 0]
    BY <1>1, <1>2 DEF Forgiven
<1>5. Replaced(Forgiven(Stopped(dead)), lanes, next)[Source] = [stream[Source] EXCEPT !.restarts = 0]
    BY <1>1, <1>4 DEF Replaced
<1>6. \A f \in {"phase", "next", "again", "gen", "stopped"} :
         [stream[Source] EXCEPT !.restarts = 0][f] = stream[Source][f]
    BY <1>1 DEF StreamOf
<1>7. QED BY <1>2, <1>3, <1>5, <1>6

(* The collector and its queue stay as they are.                             *)
LEMMA HandsOff ==
    ASSUME WriterInv, Audio, UNCHANGED <<opened, said, inbox, col>>, gaps \subseteq gaps',
           cancelled \subseteq cancelled', SameSource,
           pushed' = pushed \/ (pushed' = pushed + 1 /\ capture = "recording" /\ capture' = capture),
           capture' \in {"recording", "paused"} => capture \in {"recording", "paused"},
           capture' = "completed" => capture = "completed" \/ TailIsRecorded',
           (call.op = "stop" /\ call' = call) \/ NotOwed' \/ call'.op # "stop"
    PROVE  Audio'
<1>1. Rows' = Rows /\ (Attended' <=> Attended) BY DEF Rows, Attended
<1>2. Besides BY <1>1 DEF Besides, SameSource, Attended
<1>3. stream'[Source].phase = stream[Source].phase BY DEF SameSource
<1>4. NotOwed'
  <2>1. CASE call' = call BY <1>3, <2>1, SameCall
  <2>2. CASE call'.op # "stop" BY <2>2 DEF NotOwed
  <2>3. QED BY <2>1, <2>2
<1>5. QED BY <1>2, <1>4, QuietKeeps

(* A block is pushed: nobody has said it yet.                                *)
LEMMA AudioPush ==
    ASSUME WriterInv, GroupAssumption, Audio, Push
    PROVE  Audio'
<1>1. Typed BY DEF WriterInv
<1>2. /\ capture = "recording" /\ call = NoCall /\ pushed' = pushed + 1
      /\ UNCHANGED <<capture, said, gaps, opened, inbox, col, call>>
    BY DEF Push, Free, record
<1>3. SameSource /\ cancelled \subseteq cancelled'
  <2>1. CASE UNCHANGED <<stream, cancelled>> BY <2>1 DEF SameSource
  <2>2. CASE \E wedged \in SUBSET Lanes : FanOut(wedged)
    <3>1. PICK wedged \in SUBSET Lanes : FanOut(wedged) BY <2>2
    <3> DEFINE dead == {l \in Aux : Refuses(l, wedged)}
    <3>2. cancelled \subseteq cancelled' BY <3>1 DEF FanOut, CleanUp
    <3>3. \/ stream' = stream \/ stream' = Stopped(dead)
          \/ \E lanes \in SUBSET Aux : stream' = Replaced(Stopped(dead), lanes, pushed + 2)
        BY <3>1 DEF FanOut
    <3>4. dead \subseteq Aux OBVIOUS
    <3> HIDE DEF dead
    <3>5. stream'[Source] = stream[Source] BY <1>1, <3>3, <3>4, SourceIsKept
    <3>6. QED BY <3>2, <3>5 DEF SameSource
  <2>3. QED BY <2>1, <2>2 DEF Push
<1>4. call'.op # "stop" BY <1>2 DEF NoCall
<1>5. QED BY <1>2, <1>3, <1>4, HandsOff

(* A pause or a resume may let go of the group; the collector hears on.      *)
LEMMA AudioPause ==
    ASSUME WriterInv, GroupAssumption, Audio, NEW op \in {"pause", "resume"}, Pause(op)
    PROVE  Audio'
<1>1. Typed BY DEF WriterInv
<1>2. /\ capture \in {"recording", "paused"} /\ capture' \in {"recording", "paused"} /\ call = NoCall
      /\ UNCHANGED <<pushed, said, gaps, opened, inbox, col>>
    BY DEF Pause, Free, record
<1>3. /\ SameSource /\ cancelled \subseteq cancelled' /\ call'.op # "stop"
  <2>1. CASE /\ UNCHANGED <<stream, cancelled>>
             /\ call' = IF op = "pause" THEN NoCall ELSE [NoCall EXCEPT !.op = op, !.at = "restart"]
      BY <2>1 DEF SameSource, NoCall
  <2>2. CASE \E wedged \in SUBSET Lanes : Control(op, wedged)
    <3>1. PICK wedged \in SUBSET Lanes : Control(op, wedged) BY <2>2
    <3> DEFINE dead == {l \in Aux : Refuses(l, wedged)}
    <3>2. cancelled \subseteq cancelled' BY <3>1 DEF Control
    <3>3. stream' = stream \/ stream' = Stopped(dead) BY <3>1 DEF Control
    <3>4. dead \subseteq Aux OBVIOUS
    <3>5. \/ call' = NoCall \/ call' = [NoCall EXCEPT !.op = op, !.at = "restart"]
          \/ call' = [NoCall EXCEPT !.op = op, !.at = "close", !.group = remote]
        BY <3>1 DEF Control
    <3>6. call'.op # "stop"
      <4>1. op # "stop" /\ NoCall.op # "stop" BY DEF NoCall
      <4>2. \A at, g : [NoCall EXCEPT !.op = op, !.at = at, !.group = g].op = op BY DEF NoCall
      <4>3. \A at : [NoCall EXCEPT !.op = op, !.at = at].op = op BY DEF NoCall
      <4>4. QED BY <3>5, <4>1, <4>2, <4>3
    <3> HIDE DEF dead
    <3>7. stream'[Source] = stream[Source] BY <1>1, <3>3, <3>4, SourceIsKept
    <3>8. QED BY <3>2, <3>6, <3>7 DEF SameSource
  <2>3. QED BY <2>1, <2>2 DEF Pause, owner
<1>4. capture' # "completed" BY <1>2
<1>5. QED BY <1>2, <1>3, <1>4, HandsOff

(* A restart of translation lanes, or a group let go of.                     *)
LEMMA AudioReopen ==
    ASSUME WriterInv, GroupAssumption, Audio, Reopen
    PROVE  Audio'
<1> DEFINE dead == {l \in Aux : Refuses(l, {})}
           lanes == Forgiven(Stopped(dead))
           again == {l \in Aux : lanes[l].stopped}
<1>1. Typed /\ Commands BY DEF WriterInv
<1>2. /\ call.at = "restart" /\ UNCHANGED <<capture, pushed, said, gaps, opened, inbox, col>>
      /\ cancelled \subseteq cancelled'
    BY DEF Reopen, record, owner, CleanUp
<1>3. stream' = stream \/ stream' = Replaced(lanes, again, pushed + 1) BY DEF Reopen
<1>4. call' = NoCall \/ call' = [call EXCEPT !.at = "join"] BY DEF Reopen, GoTo
<1>5. call'.op # "stop"
  <2>1. call \in CallOf /\ call.op # "stop" BY <1>1, <1>2 DEF Typed, Commands, Stage, NoCall
  <2>2. QED BY <1>4, <2>1 DEF NoCall, CallOf
<1>6. dead \subseteq Aux /\ again \subseteq Aux OBVIOUS
<1>7. SameSource
  <2> DEFINE next == pushed + 1
  <2> HIDE DEF dead, again, next
  <2>1. stream' = stream \/ stream' = Replaced(Forgiven(Stopped(dead)), again, next)
      BY <1>3 DEF next
  <2>2. \A f \in {"phase", "next", "again", "gen", "stopped"} :
           Replaced(Forgiven(Stopped(dead)), again, next)[Source][f] = stream[Source][f]
      BY <1>1, <1>6, SourceIsKept
  <2>3. QED BY <2>1, <2>2 DEF SameSource
<1>8. QED BY <1>2, <1>5, <1>7, HandsOff

-----------------------------------------------------------------------------
(* A command goes on.                                                        *)
LEMMA AudioGoesOn ==
    ASSUME WriterInv, GroupAssumption, Audio, Restart \/ Replace \/ Interrupt \/ Leave
    PROVE  Audio'
<1>1. Typed /\ Commands BY DEF WriterInv
<1>2. /\ UNCHANGED <<pushed, said, gaps, opened, stream, inbox, col>>
      /\ cancelled \subseteq cancelled'
    BY DEF Restart, Replace, Interrupt, Leave, record, KeepsStreams, queues
<1>3. SameSource BY <1>2 DEF SameSource
<1>4. call'.op # "stop"
  <2>1. CASE Restart BY <2>1 DEF Restart, NoCall
  <2>2. CASE Replace
    <3>1. call \in CallOf /\ call.op # "stop"
        BY <1>1, <2>2 DEF Replace, Typed, Commands, Stage, NoCall
    <3>2. \A at : [call EXCEPT !.at = at].op = call.op BY <3>1 DEF CallOf
    <3>3. QED BY <2>2, <3>1, <3>2 DEF Replace, GoTo
  <2>3. CASE Interrupt
    <3>1. \A at, g : [NoCall EXCEPT !.op = "interrupt", !.group = g, !.at = at].op = "interrupt"
        BY DEF NoCall
    <3>2. QED BY <2>3, <3>1 DEF Interrupt
  <2>4. CASE Leave BY <2>4 DEF Leave, NoCall
  <2>5. QED BY <2>1, <2>2, <2>3, <2>4
<1>5. /\ capture' \in {"recording", "paused"} => capture \in {"recording", "paused"}
      /\ capture' = "completed" => capture = "completed"
    BY DEF Restart, Replace, Interrupt, Leave, KeepsStreams
<1>6. QED BY <1>2, <1>3, <1>4, <1>5, HandsOff

(* The writer that is aborted is the one of the last group: its queues are   *)
(* forgotten, and the flow with them.                                        *)
LEMMA AudioAborts ==
    ASSUME WriterInv, GroupAssumption, Sole, Audio, NEW g \in Groups, Abort(g),
           UNCHANGED <<capture, pushed, said, gaps, opened, cancelled, stream>>, NotOwed'
    PROVE  Audio'
<1>1. Typed BY DEF WriterInv
<1>2. /\ col[g].at = "run" /\ col'[g].at = "aborted" BY <1>1, AbortIs
<1>3. g = opened BY <1>2 DEF Sole, Alone, Writing
<1>4. Rows' = Rows BY DEF Rows
<1>5. \A h \in Groups : inbox'[h][Source] \in {inbox[h][Source], << >>}
  <2>1. Source \in Lanes /\ inbox'[g] = Silent /\ \A h \in Groups \ {g} : inbox'[h] = inbox[h]
      BY <1>1, ForgetIs DEF Abort, Lanes
  <2>2. QED BY <2>1 DEF Silent
<1>6. ~Attended' BY <1>2, <1>3 DEF Attended
<1>7. Besides BY <1>4, <1>5, <1>6 DEF Besides
<1>8. QED BY <1>7, QuietKeeps

(* The cleanup aborts the writer it waits for.                               *)
LEMMA AudioCleanup ==
    ASSUME WriterInv, GroupAssumption, Sole, Audio, CleanupAborts
    PROVE  Audio'
<1>1. Typed /\ TypeOK BY DEF WriterInv, Typed
<1>2. cleanup \in Groups BY <1>1 DEF CleanupAborts, TypeOK, Groups, None, GroupAssumption
<1>3. /\ Abort(cleanup)
      /\ UNCHANGED <<capture, pushed, said, opened, stream, gaps, cancelled, call>>
    BY DEF CleanupAborts, KeepsStreams, owner
<1>4. col[cleanup].at = "run" BY <1>3 DEF Abort
<1>5. cleanup = opened BY <1>2, <1>4 DEF Sole, Alone, Writing
<1>6. NotOwed' BY <1>3, <1>4, <1>5, SameCall
<1>7. QED BY <1>2, <1>3, <1>6, AudioAborts

(* Who stops waiting for the old writer goes on with what it owes.           *)
LEMMA AudioJoin ==
    ASSUME WriterInv, GroupAssumption, Audio, Join
    PROVE  Audio'
<1>1. Typed /\ Commands BY DEF WriterInv
<1>2. /\ call.at = "join" /\ UNCHANGED <<capture, pushed, said, opened, stream, gaps, cancelled, inbox, col>>
      /\ \E at : call' = [call EXCEPT !.at = at]
    BY DEF Join, KeepsStreams, queues, GoTo
<1>3. call'.op = call.op /\ call'.group = call.group /\ call'.owed = call.owed
  <2>1. call \in CallOf BY <1>1 DEF Typed
  <2>2. QED BY <1>2, <2>1 DEF CallOf
<1>4. NotOwed' BY <1>2, <1>3 DEF Audio, NotOwed
<1>5. SameSource BY <1>2 DEF SameSource
<1>6. QED BY <1>2, <1>4, <1>5, HandsOff

(* A group that is shut down ends, or is aborted.                            *)
LEMMA AudioClose ==
    ASSUME WriterInv, GroupAssumption, Sole, Audio, Close
    PROVE  Audio'
<1>1. Typed /\ TypeOK /\ Commands BY DEF WriterInv, Typed
<1>2. /\ call.at = "close" /\ call.group \in Groups /\ call \in CallOf
      /\ UNCHANGED <<capture, pushed, said, opened, stream, gaps, cancelled>>
      /\ call.op \in {"pause", "resume", "interrupt"}
  <2>1. call.at = "close" /\ call.group # None /\ call \in CallOf
      BY <1>1 DEF Close, Commands, Typed
  <2>2. call.group \in Groups BY <1>1, <2>1 DEF CallOf, TypeOK, Groups, None, GroupAssumption
  <2>3. call.op \in {"pause", "resume", "interrupt"} BY <1>1, <2>1 DEF Commands, Stage, NoCall
  <2>4. QED BY <2>1, <2>2, <2>3 DEF Close, KeepsStreams
<1>3. call'.op # "stop"
  <2>1. \A at : [call EXCEPT !.at = at].op = call.op BY <1>2 DEF CallOf
  <2>2. call' = NoCall \/ \E at : call' = [call EXCEPT !.at = at] BY <1>2 DEF Close, GoTo
  <2>3. NoCall.op # "stop" /\ call.op # "stop" BY <1>2 DEF NoCall
  <2>4. QED BY <2>1, <2>2, <2>3
<1>4. NotOwed' BY <1>3 DEF NotOwed
<1>5. CASE Abort(call.group) BY <1>2, <1>4, <1>5, AudioAborts
<1>6. CASE UNCHANGED <<col, queues, troubles>>
  <2>1. SameSource /\ UNCHANGED inbox BY <1>2, <1>6 DEF SameSource, queues
  <2>2. QED BY <1>2, <1>4, <1>6, <2>1, HandsOff
<1>7. QED BY <1>5, <1>6 DEF Close

-----------------------------------------------------------------------------
(* The end of the recording.  A stop that owes no tail is one that ended the *)
(* last group in good order.                                                 *)
LEMMA AudioStop ==
    ASSUME WriterInv, GroupAssumption, Audio, ~Excused', Stop
    PROVE  Audio'
<1> DEFINE graceful == remote # None /\ ~Ended(remote) /\ remote \notin cancelled
                       /\ ~Refuses(Source, {})
           owed == cleanup # None \/ (remote # None /\ ~graceful)
           at == IF remote = None THEN "join" ELSE IF graceful THEN "streams" ELSE "drain"
<1>1. Typed /\ Commands BY DEF WriterInv
<1>2. /\ capture \in {"recording", "paused"} /\ capture' = "draining"
      /\ UNCHANGED <<pushed, said, gaps, opened, stream, inbox, col>>
      /\ cancelled \subseteq cancelled'
      /\ call' = [op |-> "stop", group |-> remote, at |-> at, owed |-> owed]
      /\ mishap' = mishap \cup (IF remote = None /\ cleanup = None THEN {"forgotten"} ELSE {})
    BY DEF Stop, record, queues, Blame
<1>3. ~(remote = None /\ cleanup = None) BY <1>2 DEF Excused
<1>4. ~owed => remote # None /\ at = "streams" BY <1>3
<1> HIDE DEF owed, at
<1>5. NotOwed'
  <2>1. call'.group = remote /\ call'.at = at /\ call'.owed = owed BY <1>2
  <2>2. remote \in {None, opened} BY <1>1 DEF Commands
  <2>3. QED BY <1>2, <1>4, <2>1, <2>2 DEF NotOwed
<1>6. SameSource BY <1>2 DEF SameSource
<1>7. QED BY <1>2, <1>5, <1>6, HandsOff

(* A source stream that has not ended leaves a tail to record.               *)
LEMMA AudioStreamsEnd ==
    ASSUME WriterInv, GroupAssumption, Audio, StreamsEnd
    PROVE  Audio'
<1> DEFINE owed == call.owed \/ stream[Source].phase # "ended"
<1>1. call \in CallOf BY DEF WriterInv, Typed
<1>2. /\ call.op = "stop" /\ UNCHANGED <<capture, pushed, said, opened, stream, gaps, inbox, col>>
      /\ cancelled \subseteq cancelled'
      /\ call' = [call EXCEPT !.at = "drain", !.owed = owed]
    BY DEF StreamsEnd, KeepsStreams, queues
<1> DEFINE ended == stream[Source].phase = "ended"
<1>3. ~owed => ~call.owed /\ ended OBVIOUS
<1> HIDE DEF owed
<1>4. call'.op = "stop" /\ call'.at = "drain" /\ call'.group = call.group /\ call'.owed = owed
    BY <1>1, <1>2 DEF CallOf
<1>5. NotOwed' BY <1>2, <1>3, <1>4 DEF Audio, NotOwed
<1>6. SameSource BY <1>2 DEF SameSource
<1>7. QED BY <1>2, <1>5, <1>6, HandsOff

(* So does a collector that is not done.                                     *)
LEMMA AudioCollectorEnds ==
    ASSUME WriterInv, GroupAssumption, Sole, Audio, CollectorEnds
    PROVE  Audio'
<1> DEFINE owed == call.owed \/ col'[call.group].at # "done"
           done == col'[call.group].at = "done"
<1>1. Typed /\ TypeOK /\ Commands /\ call \in CallOf BY DEF WriterInv, Typed
<1>2. /\ call.op = "stop" /\ call.at = "drain" /\ call.group \in Groups
      /\ UNCHANGED <<capture, pushed, said, opened, stream, gaps, cancelled>>
      /\ call' = [call EXCEPT !.at = "join", !.owed = owed]
  <2>1. call.at = "drain" /\ call.group # None BY <1>1 DEF CollectorEnds, Commands
  <2>2. call.group \in Groups BY <1>1, <2>1 DEF CallOf, TypeOK, Groups, None, GroupAssumption
  <2>3. QED BY <2>2 DEF CollectorEnds, KeepsStreams
<1>3. ~owed => ~call.owed /\ done OBVIOUS
<1> HIDE DEF owed
<1>4. call'.op = "stop" /\ call'.at = "join" /\ call'.group = call.group /\ call'.owed = owed
    BY <1>1, <1>2 DEF CallOf
<1>5. NotOwed' BY <1>2, <1>3, <1>4 DEF Audio, NotOwed
<1>6. CASE Abort(call.group) BY <1>2, <1>5, <1>6, AudioAborts
<1>7. CASE UNCHANGED <<col, queues, troubles>>
  <2>1. SameSource /\ UNCHANGED inbox BY <1>2, <1>7 DEF SameSource, queues
  <2>2. QED BY <1>2, <1>5, <1>7, <2>1, HandsOff
<1>8. QED BY <1>6, <1>7 DEF CollectorEnds

(* The tail: what is behind no row is a gap, or everything was said and      *)
(* heard.                                                                    *)
LEMMA AudioComplete ==
    ASSUME WriterInv, GroupAssumption, Audio, ~Excused', Complete
    PROVE  Audio'
<1>1. Typed /\ TypeOK /\ Numbers /\ pushed \in Nat BY DEF WriterInv, Typed, TypeOK
<1>2. /\ call.op = "stop" /\ call.at = "tail" /\ capture' = "completed" /\ call' = NoCall
      /\ UNCHANGED <<pushed, said, opened, cancelled, stream, inbox, col>>
      /\ IF call.owed THEN RecordGap ELSE UNCHANGED <<gaps, faults>>
    BY DEF Complete, queues
<1>3. gaps \subseteq gaps' BY <1>1, <1>2, RecordGapIs
<1>4. \A b : Covered(b) => Covered(b)'
  <2>1. Rows \subseteq Rows' BY <1>2 DEF Rows
  <2>2. QED BY <1>1, <1>2, <1>3, <2>1, CoveredStays
<1>5. ASSUME NEW b \in 1..pushed, opened # 0 PROVE Covered(b)'
  <2>1. CASE call.owed
    <3>1. Untranscribed \subseteq gaps' BY <1>1, <1>2, <2>1, RecordGapIs DEF Excused
    <3>2. Covered(b) \/ b > Through BY <1>5 DEF Audio, Behind
    <3>3. CASE Covered(b) BY <1>4, <3>3
    <3>4. CASE b > Through
      <4>1. Through \in Nat BY <1>1, GapsTyped
      <4> HIDE DEF Through
      <4>2. b \in Untranscribed BY <1>1, <1>5, <3>4, <4>1 DEF Untranscribed
      <4>3. QED BY <3>1, <4>2 DEF Covered
    <3>5. QED BY <3>2, <3>3, <3>4
  <2>2. CASE ~call.owed
    <3>1. stream[Source].phase = "ended" /\ col[opened].at = "done" /\ opened # None
        BY <1>2, <2>2 DEF Audio, NotOwed
    <3>2. SourceFlows BY <3>1 DEF Audio, Attended
    <3>3. stream[Source].next > pushed /\ inbox[opened][Source] = << >> /\ stream[Source].next \in Nat
      <4>1. stream[Source] \in StreamOf BY <1>1 DEF Typed, Lanes
      <4>2. stream[Source].next \in Nat BY <1>1, <4>1 DEF StreamOf
      <4>3. QED BY <3>1, <3>2, <4>2 DEF SourceFlows
    <3>4. b \in Blocks \/ Promised(<< >>, Len(<< >>), b)
        BY <1>1, <1>5, <3>2, <3>3 DEF SourceFlows, Flows, Reached
    <3>5. ~Promised(<< >>, Len(<< >>), b) BY DEF Promised
    <3>6. QED BY <1>4, <3>4, <3>5 DEF Blocks
  <2>3. QED BY <2>1, <2>2
<1>6. TailIsRecorded' BY <1>2, <1>5 DEF TailIsRecorded
<1>7. SameSource BY <1>2 DEF SameSource
<1>8. call'.op # "stop" BY <1>2 DEF NoCall
<1>9. QED BY <1>2, <1>3, <1>6, <1>7, <1>8, HandsOff

-----------------------------------------------------------------------------
(* A group begins at the live edge, once all that lies behind is covered.    *)
LEMMA FreshFlows ==
    ASSUME NEW p \in Nat, NEW C, 1..p \subseteq C, NEW at, NEW next, NEW epoch
    PROVE  Flows(<< >>, Stream(p + 1, 0, 0), Collector(at, next, epoch).view[Source], Never, Never, C, p)
<1> DEFINE s == Stream(p + 1, 0, 0)
           v == Collector(at, next, epoch).view[Source]
<1>1. s.phase = "dial" /\ s.again = FALSE /\ s.gen = 0 /\ s.stopped = FALSE BY DEF Stream
<1>2. v.gen = 0 /\ v.failed = FALSE /\ v.awaiting = FALSE
  <2>1. v = [View EXCEPT !.epoch = epoch] BY CollectorSees DEF Lanes
  <2>2. QED BY <2>1 DEF View
<1>3. Len(<< >>) = 0 /\ 1..0 = {} OBVIOUS
<1> HIDE DEF s, v
<1>4. Single(<< >>, s, v) BY <1>1, <1>2, <1>3 DEF Single
<1>5. Turns(<< >>, s, v) BY <1>1, <1>3 DEF Turns
<1>6. Reached(<< >>, s, C, p) BY <1>3 DEF Reached
<1>7. Noted(v, Never, Never, C, p) BY <1>2 DEF Noted
<1>8. QED BY <1>4, <1>5, <1>6, <1>7 DEF Flows, s, v

(* A group opens behind a gap: what nobody transcribed is recorded.          *)
LEMMA AudioOpens ==
    ASSUME WriterInv, GroupAssumption, Audio, ~Excused', Start,
           RecordGap, OpenGroup
    PROVE  Audio'
<1>1. Typed /\ TypeOK /\ Numbers /\ Commands /\ pushed \in Nat BY DEF WriterInv, Typed, TypeOK
<1>2. /\ call.at = "start" /\ call' = NoCall /\ opened < MaxGroups
      /\ UNCHANGED <<capture, pushed, said, inbox>>
    BY StartIs
<1>3. gaps \subseteq gaps' /\ Untranscribed \subseteq gaps' BY <1>1, RecordGapIs DEF Excused
<1>4. \A b : Covered(b) => Covered(b)'
  <2>1. Rows \subseteq Rows' BY <1>2 DEF Rows
  <2>2. QED BY <1>1, <1>2, <1>3, <2>1, CoveredStays
<1>5. ASSUME NEW b \in 1..pushed PROVE Covered(b)'
  <2>1. CASE Covered(b) BY <1>4, <2>1
  <2>2. CASE b > Through
    <3>1. Through \in Nat BY <1>1, GapsTyped
    <3> HIDE DEF Through
    <3>2. b \in Untranscribed BY <1>1, <1>5, <2>2, <3>1 DEF Untranscribed
    <3>3. QED BY <1>3, <3>2 DEF Covered
  <2>3. QED BY <2>1, <2>2 DEF Audio, Behind
<1>6. Behind' BY <1>2, <1>5 DEF Behind
<1>7. NotOwed' BY <1>2 DEF NotOwed, NoCall
<1>8. TailIsRecorded'
  <2>1. NoCall.at = "none" BY DEF NoCall
  <2>2. capture # "completed" BY <1>1, <1>2, <2>1 DEF Commands
  <2>3. QED BY <1>2, <2>2 DEF TailIsRecorded
<1>9. opened' = opened + 1 /\ opened \in Nat /\ opened + 1 \in Groups
    BY <1>1, <1>2 DEF OpenGroup, TypeOK, Groups, GroupAssumption
<1>10. Unopened' BY <1>2, <1>9 DEF Audio, Unopened, Groups
<1>11. SourceFlows'
  <2> DEFINE n == opened + 1
             p == pushed
             C == Blocks'
             s == Stream(p + 1, 0, 0)
             d == Collector("run", NextSequence, NextEpoch)
  <2>1. stream'[Source] = s /\ col'[n] = d BY <1>1, <1>9 DEF OpenGroup, Lanes, Typed
  <2>2. inbox'[n][Source] = << >> BY <1>2, <1>9 DEF Audio, Unopened
  <2>3. 1..p \subseteq C BY <1>2, <1>5 DEF Blocks
  <2>4. s.phase = "dial" /\ d.at = "run" /\ d.final = Never /\ d.since = Never
      BY DEF Stream, Collector
  <2>5. Flows(<< >>, s, d.view[Source], Never, Never, C, p)
    <3>1. p \in Nat BY <1>1
    <3> HIDE DEF C, p
    <3>2. QED BY <2>3, <3>1, FreshFlows
  <2> HIDE DEF s, d, n
  <2>6. Flows(inbox'[opened'][Source], stream'[Source], col'[opened'].view[Source],
              col'[opened'].final, col'[opened'].since, C, p)
      BY <1>9, <2>1, <2>2, <2>4, <2>5 DEF n
  <2>7. /\ stream'[Source].phase # "ended" /\ col'[opened'].at # "done"
    <3>1. stream'[Source].phase = "dial" /\ col'[opened'].at = "run" BY <1>9, <2>1, <2>4 DEF n
    <3>2. QED BY <3>1
  <2>8. QED BY <1>2, <2>6, <2>7 DEF SourceFlows
<1>12. QED BY <1>6, <1>7, <1>8, <1>10, <1>11 DEF Audio

(* A start that is refused records the gap too.                              *)
LEMMA AudioStart ==
    ASSUME WriterInv, GroupAssumption, Audio, ~Excused', Start
    PROVE  Audio'
<1>1. CASE RecordGap /\ OpenGroup BY <1>1, AudioOpens
<1>2. CASE gaps' = gaps \cup Untranscribed /\ UNCHANGED <<opened, owner, stream, col, mishap>>
  <2>1. /\ UNCHANGED <<capture, pushed, said, cancelled, inbox>> /\ call' = NoCall
      BY DEF Start, queues
  <2>2. SameSource /\ call'.op # "stop" BY <1>2, <2>1 DEF SameSource, NoCall
  <2>3. QED BY <1>2, <2>1, <2>2, HandsOff
<1>3. QED BY <1>1, <1>2 DEF Start

(* What the properties excuse stays excused.                                 *)
LEMMA MishapGrows ==
    ASSUME [Next]_vars
    PROVE  mishap \subseteq mishap'
<1>1. ASSUME NEW l \in Lanes, Connect(l) \/ Say(l) \/ Drop(l) \/ Die(l) \/ Finish(l)
      PROVE  mishap \subseteq mishap'
    BY <1>1 DEF Connect, Say, Drop, Die, Finish, faults
<1>2. ASSUME NEW g \in Groups, NEW l \in Lanes, Hear(g, l) PROVE mishap \subseteq mishap'
  <2> DEFINE e == Head(inbox[g][l])
             c == Revived(col[g], l, e.gen)
  <2>1. \/ Quiet
        \/ HearConnected(g, l, c) \/ HearBack(g, l, c, e) \/ HearLost(g, l, c, e)
        \/ HearWord(g, l, c, e) \/ HearError(g, l, c)
      BY <1>2 DEF Hear
  <2> HIDE DEF e, c
  <2>2. HearWord(g, l, c, e) => mishap \subseteq mishap' BY DEF HearWord, Blame
  <2>3. HearLost(g, l, c, e) => mishap \subseteq mishap' BY DEF HearLost, Blame
  <2>4. Quiet \/ HearConnected(g, l, c) \/ HearBack(g, l, c, e) \/ HearError(g, l, c) => mishap' = mishap
      BY DEF Quiet, HearConnected, HearBack, HearError
  <2>5. QED BY <2>1, <2>2, <2>3, <2>4
<1>3. ASSUME NEW g \in Groups, NEW l \in Lanes, HearCut(g, l) PROVE mishap \subseteq mishap'
    BY <1>3 DEF HearCut, faults
<1>4. ASSUME NEW g \in Groups, Break(g) \/ Settle(g) \/ Drain(g) PROVE mishap \subseteq mishap'
    BY <1>4 DEF Break, Settle, Drain, faults
<1>5. CASE Push
  <2>1. ASSUME NEW wedged \in SUBSET Lanes, FanOut(wedged) PROVE mishap \subseteq mishap'
      BY <2>1 DEF FanOut, Blame
  <2>2. QED BY <1>5, <2>1 DEF Push, faults
<1>6. CASE Pause("pause") \/ Pause("resume") \/ Restart \/ Reopen \/ Replace
    BY <1>6 DEF Pause, Restart, Reopen, Replace, faults
<1>7. CASE CleanupAborts \/ Join \/ Start \/ Close
    BY <1>7 DEF CleanupAborts, Join, Start, RecordGap, Close, Blame, faults
<1>8. CASE Stop \/ StreamsEnd \/ CollectorEnds \/ Complete \/ Interrupt \/ Leave
    BY <1>8 DEF Stop, StreamsEnd, CollectorEnds, Complete, RecordGap, Interrupt, Leave, Blame, faults
<1>9. CASE Over \/ UNCHANGED vars BY <1>9 DEF Over, vars
<1>10. QED BY <1>1, <1>2, <1>3, <1>4, <1>5, <1>6, <1>7, <1>8, <1>9 DEF Next

(* Nothing happens.                                                          *)
LEMMA AudioStutter ==
    ASSUME WriterInv, Audio, UNCHANGED vars
    PROVE  Audio'
<1>1. /\ UNCHANGED <<opened, said, inbox, col, gaps, cancelled, pushed, capture, call, stream>>
    BY DEF vars
<1>2. SameSource BY <1>1 DEF SameSource
<1>3. NotOwed' BY <1>1 DEF Audio, NotOwed
<1>4. QED BY <1>1, <1>2, <1>3, HandsOff

(* Every step keeps the invariant.                                           *)
LEMMA AudioStep ==
    ASSUME AudioInv, GroupAssumption, [Next]_vars
    PROVE  AudioInv'
<1>1. WriterInv /\ WriterInv' BY WriterStep DEF AudioInv
<1>2. SUFFICES ASSUME ~Excused' PROVE Audio' BY <1>1 DEF AudioInv
<1>3. ~Excused BY <1>2, MishapGrows DEF Excused
<1>4. Audio /\ Sole BY <1>3 DEF AudioInv, WriterInv, Excused
<1>5. ASSUME NEW l \in Lanes, Connect(l) \/ Say(l) \/ Drop(l) \/ Die(l) \/ Finish(l)
      PROVE  Audio'
  <2>1. StreamStep(l) BY <1>5 DEF StreamStep
  <2>2. CASE l = Source BY <1>1, <1>2, <1>4, <2>1, <2>2, AudioSpeaks
  <2>3. CASE l # Source BY <1>1, <1>4, <2>1, <2>3, AudioStreams
  <2>4. QED BY <2>2, <2>3
<1>6. ASSUME NEW g \in Groups, NEW l \in Lanes, Hear(g, l) \/ HearCut(g, l)
      PROVE  Audio'
    BY <1>1, <1>2, <1>4, <1>6, AudioHears, AudioCut
<1>7. ASSUME NEW g \in Groups, Break(g) \/ Settle(g) \/ Drain(g) PROVE Audio'
    BY <1>1, <1>4, <1>7, AudioEnds
<1>8. CASE Push \/ Pause("pause") \/ Pause("resume") BY <1>1, <1>4, <1>8, AudioPush, AudioPause
<1>9. CASE Restart \/ Replace \/ Interrupt \/ Leave BY <1>1, <1>4, <1>9, AudioGoesOn
<1>10. CASE Reopen \/ CleanupAborts \/ Join
    BY <1>1, <1>4, <1>10, AudioReopen, AudioCleanup, AudioJoin
<1>11. CASE Start \/ Close BY <1>1, <1>2, <1>4, <1>11, AudioStart, AudioClose
<1>12. CASE Stop \/ StreamsEnd \/ CollectorEnds \/ Complete
    BY <1>1, <1>2, <1>4, <1>12, AudioStop, AudioStreamsEnd, AudioCollectorEnds, AudioComplete
<1>13. CASE Over \/ UNCHANGED vars BY <1>1, <1>4, <1>13, AudioStutter DEF Over
<1>14. QED BY <1>5, <1>6, <1>7, <1>8, <1>9, <1>10, <1>11, <1>12, <1>13 DEF Next

(* A recording starts with nothing pushed.                                   *)
LEMMA AudioInit ==
    ASSUME GroupAssumption, Init
    PROVE  AudioInv
<1>1. WriterInv BY WriterInit
<1>2. pushed = 0 /\ capture = "recording" /\ call = NoCall /\ 1..0 = {} BY DEF Init
<1>3. Behind /\ NotOwed /\ TailIsRecorded BY <1>2 DEF Behind, NotOwed, NoCall, TailIsRecorded
<1>4. \A g \in Groups : inbox[g][Source] = << >> BY DEF Init, Silent, Lanes
<1>5. Unopened BY <1>4 DEF Unopened
<1>6. ASSUME Attended PROVE SourceFlows
  <2> DEFINE d == Collector("run", 1, 0)
             s == Stream(0 + 1, 0, 0)
             C == Blocks
  <2>1. opened = 1 /\ opened \in Groups
    <3>1. opened \in {0, 1} /\ opened # None /\ MaxGroups \in Nat /\ MaxGroups # 0
        BY <1>6 DEF Init, Attended, GroupAssumption
    <3>2. QED BY <3>1 DEF None, Groups
  <2>2. col[opened] = d /\ stream[Source] = s /\ inbox[opened][Source] = << >>
      BY <1>4, <2>1 DEF Init, Lanes
  <2>3. s.phase = "dial" /\ d.at = "run" /\ d.final = Never /\ d.since = Never
      BY DEF Stream, Collector
  <2>4. Flows(<< >>, s, d.view[Source], Never, Never, C, 0)
    <3>1. 1..0 \subseteq C BY <1>2
    <3> HIDE DEF C
    <3>2. QED BY <3>1, FreshFlows
  <2> HIDE DEF s, d
  <2>5. QED BY <1>2, <2>2, <2>3, <2>4 DEF SourceFlows
<1>7. QED BY <1>1, <1>3, <1>5, <1>6 DEF AudioInv, Audio

(* The invariant has the property.                                           *)
LEMMA AudioMeans ==
    ASSUME AudioInv
    PROVE  AudioIsAccounted
    BY DEF AudioInv, Audio, AudioIsAccounted, Excused

(* Every block of a completed recording is in a row or in a recorded gap,    *)
(* unless there was nothing to finish, no place to start the gap from, a gap *)
(* that could not be written or a detached writer                            *)
(* (preserve_untranscribed_tail, preserve_gap_after_transcribed_rows,        *)
(* RecoveryStarted).                                                         *)
THEOREM AudioAccounted ==
    Spec => []AudioIsAccounted
BY GroupAssumption, AudioInit, AudioStep, AudioMeans, PTL DEF Spec

-----------------------------------------------------------------------------
(* An event is sent to the end of a queue.                                   *)
LEMMA AppendIs ==
    ASSUME NEW Q, NEW q \in Seq(Q), NEW e \in Q
    PROVE  LET t == Append(q, e) IN
           /\ t \in Seq(Q) /\ Len(q) \in Nat /\ Len(t) = Len(q) + 1 /\ t[Len(q) + 1] = e
           /\ \A i \in 1..Len(q) : t[i] = q[i]
           /\ t # << >>
           /\ \A i \in 1..Len(t) : i \in 1..Len(q) \/ i = Len(q) + 1
           /\ q # << >> => Len(q) # 0
<1> DEFINE t == Append(q, e)
<1>1. /\ t \in Seq(Q) /\ Len(q) \in Nat /\ Len(t) = Len(q) + 1 /\ t[Len(q) + 1] = e
      /\ \A i \in 1..Len(q) : t[i] = q[i]
      /\ t # << >>
      /\ \A i \in 1..Len(t) : i \in 1..Len(q) \/ i = Len(q) + 1
      /\ \A i \in 1..Len(q) : q[i] \in Q
    BY AppendProperties, LenProperties
<1>2. q # << >> => Len(q) # 0 BY EmptySeq
<1>3. QED BY <1>1, <1>2

(* Positions of a queue and of the queue with one event more.                *)
LEMMA PlusOne ==
    ASSUME NEW a \in Nat, NEW b, b = a + 1, NEW n \in 0..a
    PROVE  /\ a \in 0..a /\ b \in 0..b /\ a <= b /\ b \in (n + 1)..b
           /\ \A j \in 1..a : j \in 0..a /\ j \in 0..b /\ j <= j
           /\ \A j \in 1..b : j \in 0..b
<1>1. QED OBVIOUS

(* A rejoining that is on its way stays on its way.                          *)
LEMMA RejoinsAppend ==
    ASSUME NEW Q, NEW q \in Seq(Q), NEW e \in Q, NEW n \in Nat, NEW gen,
           NEW j \in 0..Len(q), NEW k \in Int, j <= k, Rejoins(q, n, j, gen)
    PROVE  Rejoins(Append(q, e), n, k, gen)
<1> DEFINE t == Append(q, e)
<1>1. /\ t \in Seq(Q) /\ Len(q) \in Nat /\ Len(t) = Len(q) + 1 /\ t[Len(q) + 1] = e
      /\ \A i \in 1..Len(q) : t[i] = q[i]
      /\ t # << >>
      /\ \A i \in 1..Len(t) : i \in 1..Len(q) \/ i = Len(q) + 1
      /\ q # << >> => Len(q) # 0
    BY AppendIs
<1>2. PICK i \in (n + 1)..j : q[i].kind = "back late" /\ q[i].gen = gen BY DEF Rejoins
<1>3. Len(q) \in Nat BY <1>1
<1>4. i \in 1..Len(q) /\ i \in (n + 1)..k BY <1>3
<1>5. t[i] = q[i] BY <1>1, <1>4
<1>6. t[i].kind = "back late" /\ t[i].gen = gen BY <1>2, <1>5
<1> HIDE DEF t
<1>7. Rejoins(t, n, k, gen) BY <1>4, <1>6 DEF Rejoins
<1>8. QED BY <1>7 DEF t

(* The connections are those of the stream.                                  *)
LEMMA CarriesAppend ==
    ASSUME NEW Q, NEW q \in Seq(Q), NEW e \in Q, NEW s, NEW r, NEW n \in 0..Len(q), NEW m,
           Carries(q, s, n, m), Sends(s, r, e)
    PROVE  Carries(Append(q, e), r, n, m)
<1> DEFINE t == Append(q, e)
           a == Len(q)
           b == Len(t)
<1>1. /\ t \in Seq(Q) /\ Len(q) \in Nat /\ Len(t) = Len(q) + 1 /\ t[Len(q) + 1] = e
      /\ \A i \in 1..Len(q) : t[i] = q[i]
      /\ t # << >>
      /\ \A i \in 1..Len(t) : i \in 1..Len(q) \/ i = Len(q) + 1
      /\ q # << >> => Len(q) # 0
    BY AppendIs
<1>2. /\ a \in Nat /\ b = a + 1 /\ n \in 0..a /\ t[b] = e
      /\ \A i \in 1..a : t[i] = q[i]
      /\ \A i \in 1..b : i \in 1..a \/ i = b
    BY <1>1
<1>3. /\ a \in 0..a /\ b \in 0..b /\ a <= b /\ b \in (n + 1)..b
      /\ \A j \in 1..a : j \in 0..a /\ j \in 0..b /\ j <= j
      /\ \A j \in 1..b : j \in 0..b
    BY <1>2, PlusOne
<1>4. /\ \A j \in 1..a : n < j /\ q[j].kind = "word" /\ q[j].gen = m[1] =>
             q[j].leg = m[2] \/ Rejoins(q, n, j, m[1])
      /\ s.gen = m[1] => s.leg = m[2] \/ Rejoins(q, n, a, m[1])
    BY DEF Carries
<1>5. /\ \A j \in 1..a : Rejoins(q, n, j, m[1]) => Rejoins(t, n, j, m[1])
      /\ Rejoins(q, n, a, m[1]) => Rejoins(t, n, b, m[1])
  <2>1. \A j \in 0..a, k \in Int : j <= k /\ Rejoins(q, n, j, m[1]) => Rejoins(t, n, k, m[1])
    <3>1. n \in Nat BY <1>2, SMT
    <3>2. QED BY <3>1, RejoinsAppend, Zenon
  <2>2. \A j \in 1..a : j \in 0..a /\ j \in Int /\ j <= j BY <1>3
  <2>3. a \in 0..a /\ b \in Int /\ a <= b BY <1>2, <1>3
  <2> HIDE DEF t, a, b
  <2>4. QED BY <2>1, <2>2, <2>3, Zenon
<1> HIDE DEF t, a, b
<1>6. ASSUME NEW j \in 1..b, n < j, t[j].kind = "word", t[j].gen = m[1]
      PROVE  t[j].leg = m[2] \/ Rejoins(t, n, j, m[1])
  <2>1. CASE j \in 1..a
    <3>1. t[j] = q[j] BY <1>2, <2>1, Zenon
    <3>2. QED BY <1>4, <1>5, <1>6, <2>1, <3>1, Zenon
  <2>2. CASE j = b
    <3>1. t[j] = e /\ s.gen = m[1] /\ e.leg = s.leg BY <1>2, <1>6, <2>2, Zenon DEF Sends
    <3>2. QED BY <1>4, <1>5, <2>2, <3>1, Zenon
  <2>3. QED BY <1>2, <2>1, <2>2, Zenon
<1>7. ASSUME r.gen = m[1] PROVE r.leg = m[2] \/ Rejoins(t, n, b, m[1])
  <2>1. s.gen = m[1] /\ (s.leg = m[2] \/ Rejoins(t, n, b, m[1]))
      BY <1>4, <1>5, <1>7, Zenon DEF Sends
  <2>2. CASE e.kind = "back late"
    <3>1. t[b].kind = "back late" /\ t[b].gen = m[1] BY <1>2, <2>1, <2>2, Zenon DEF Sends
    <3>2. QED BY <1>3, <3>1, Zenon DEF Rejoins
  <2>3. QED BY <2>1, <2>2, Zenon DEF Sends
<1>8. Carries(t, r, n, m) BY <1>6, <1>7, Zenon DEF Carries, b
<1>9. QED BY <1>8 DEF t

(* So do the words that are on their way and the connections they are of.    *)
LEMMA LegsAppend ==
    ASSUME NEW Q, NEW q \in Seq(Q), NEW e \in Q, NEW s, NEW r, Legs(q, s), Sends(s, r, e)
    PROVE  Legs(Append(q, e), r)
<1> DEFINE t == Append(q, e)
           a == Len(q)
           b == Len(t)
<1>1. /\ t \in Seq(Q) /\ Len(q) \in Nat /\ Len(t) = Len(q) + 1 /\ t[Len(q) + 1] = e
      /\ \A i \in 1..Len(q) : t[i] = q[i]
      /\ t # << >>
      /\ \A i \in 1..Len(t) : i \in 1..Len(q) \/ i = Len(q) + 1
      /\ q # << >> => Len(q) # 0
    BY AppendIs
<1>2. /\ a \in Nat /\ b = a + 1 /\ t[b] = e
      /\ \A i \in 1..a : t[i] = q[i]
      /\ \A i \in 1..b : i \in 1..a \/ i = b
    BY <1>1
<1>3. \A i \in 1..a : \A m : Carries(q, s, i, m) => Carries(t, r, i, m)
  <2>1. \A i \in 1..a : i \in 0..a BY <1>2
  <2>2. \A i \in 0..a : \A m : Carries(q, s, i, m) => Carries(t, r, i, m)
      BY CarriesAppend, Zenon
  <2>3. QED BY <2>1, <2>2, Zenon
<1>4. \A i \in 1..a : q[i].kind = "word" => Carries(q, s, i, <<q[i].gen, q[i].leg>>) BY DEF Legs
<1> HIDE DEF t, a, b
<1>5. ASSUME NEW i \in 1..b, t[i].kind = "word"
      PROVE  Carries(t, r, i, <<t[i].gen, t[i].leg>>)
  <2>1. CASE i \in 1..a
    <3>1. t[i] = q[i] BY <1>2, <2>1, Zenon
    <3>2. QED BY <1>3, <1>4, <1>5, <2>1, <3>1, Zenon
  <2>2. CASE i = b
    <3>1. t[i] = e /\ e.leg = s.leg /\ r.leg = s.leg BY <1>2, <1>5, <2>2, Zenon DEF Sends
    <3>2. \A j \in 1..b : ~(i < j) BY <1>2, <2>2
    <3> DEFINE m == <<e.gen, e.leg>>
    <3>3. m[2] = e.leg OBVIOUS
    <3> HIDE DEF m
    <3>4. Carries(t, r, i, m) BY <3>1, <3>2, <3>3, Zenon DEF Carries, b
    <3>5. QED BY <3>1, <3>4, Zenon DEF m
  <2>3. QED BY <1>2, <2>1, <2>2, Zenon
<1>6. Legs(t, r) BY <1>5, Zenon DEF Legs, b
<1>7. QED BY <1>6 DEF t

(* A recovery is sent right after the loss it ends.                          *)
LEMMA LineAppend ==
    ASSUME NEW Q, NEW q \in Seq(Q), NEW e \in Q, NEW s, NEW r, NEW v, Line(q, s, v), Sends(s, r, e),
           s.gen \in Nat,
           e.kind \in Backs => s.again /\ s.phase = "dial",
           r.again /\ r.phase = "dial" => e.kind \in Losses
    PROVE  Line(Append(q, e), r, v)
<1>0. r.gen = s.gen /\ e.gen = s.gen BY Zenon DEF Sends
<1> DEFINE t == Append(q, e)
<1>1. /\ t \in Seq(Q) /\ Len(q) \in Nat /\ Len(t) = Len(q) + 1 /\ t[Len(q) + 1] = e
      /\ \A i \in 1..Len(q) : t[i] = q[i]
      /\ t # << >>
      /\ \A i \in 1..Len(t) : i \in 1..Len(q) \/ i = Len(q) + 1
      /\ q # << >> => Len(q) # 0
    BY AppendIs
<1> HIDE DEF t
<1>2. v.gen <= r.gen /\ \A i \in 1..Len(t) : t[i].gen <= r.gen BY <1>0, <1>1 DEF Line
<1>3. ASSUME NEW i \in 1..Len(t), t[i].kind \in Backs
      PROVE  IF i = 1 THEN t[1].gen <= v.gen /\ (t[1].gen = v.gen => v.failed \/ v.awaiting)
             ELSE t[i - 1].kind \in Losses /\ t[i - 1].gen = t[i].gen
  <2>1. CASE i \in 1..Len(q)
    <3>1. IF i = 1 THEN q[1].gen <= v.gen /\ (q[1].gen = v.gen => v.failed \/ v.awaiting)
          ELSE q[i - 1].kind \in Losses /\ q[i - 1].gen = q[i].gen
        BY <1>1, <1>3, <2>1 DEF Line
    <3>2. i # 1 => i - 1 \in 1..Len(q) BY <1>1, <2>1
    <3>3. t[i] = q[i] /\ (i # 1 => t[i - 1] = q[i - 1]) /\ (i = 1 => t[1] = q[1])
        BY <1>1, <2>1, <3>2
    <3>4. QED BY <3>1, <3>3
  <2>2. CASE i = Len(q) + 1
    <3>1. s.again /\ s.phase = "dial" /\ t[i] = e BY <1>1, <1>3, <2>2
    <3>2. IF q = << >> THEN s.gen = v.gen /\ (v.failed \/ v.awaiting)
          ELSE q[Len(q)].kind \in Losses /\ q[Len(q)].gen = s.gen
        BY <3>1 DEF Line
    <3>3. CASE q = << >>
      <4>1. i = 1 BY <2>2, <3>3
      <4>2. t[1] = e /\ e.gen = v.gen /\ v.gen <= v.gen BY <1>0, <3>1, <3>2, <3>3, <4>1
      <4>3. QED BY <3>2, <3>3, <4>1, <4>2
    <3>4. CASE q # << >>
      <4>1. i # 1 /\ i - 1 = Len(q) /\ t[i - 1] = q[Len(q)] BY <1>1, <2>2, <3>4
      <4>2. QED BY <1>0, <3>1, <3>2, <3>4, <4>1
    <3>5. QED BY <3>3, <3>4
  <2>3. QED BY <1>1, <2>1, <2>2
<1>4. (r.again /\ r.phase = "dial") => t[Len(t)].kind \in Losses /\ t[Len(t)].gen = r.gen
    BY <1>0, <1>1
<1>5. QED BY <1>1, <1>2, <1>3, <1>4 DEF Line, t

(* A stream that only ends, stops or is forgiven.                            *)
LEMMA LineSame ==
    ASSUME NEW q, NEW s, NEW r, NEW v, Line(q, s, v), Legs(q, s), r.gen = s.gen, r.leg = s.leg,
           r.again /\ r.phase = "dial" => s.again /\ s.phase = "dial"
    PROVE  Line(q, r, v) /\ Legs(q, r) /\ \A m : Timed(q, s, v, m) => Timed(q, r, v, m)
<1>1. Line(q, r, v) BY DEF Line
<1>2. \A n, m : Carries(q, s, n, m) => Carries(q, r, n, m) BY DEF Carries
<1>3. QED BY <1>1, <1>2 DEF Legs, Timed

(* A replacement is a generation of its own.                                 *)
LEMMA LineReplaced ==
    ASSUME NEW q, NEW s, NEW r, NEW v, Line(q, s, v), Legs(q, s), s.gen \in Nat, v.gen \in Nat,
           \A i \in 1..Len(q) : q[i].gen \in Nat,
           r.gen = s.gen + 1, ~r.again
    PROVE  Line(q, r, v) /\ Legs(q, r) /\ \A m : Timed(q, s, v, m) => Timed(q, r, v, m)
<1>1. v.gen <= s.gen /\ v.gen # r.gen /\ v.gen <= r.gen BY DEF Line
<1>2. \A i \in 1..Len(q) : q[i].gen <= r.gen /\ q[i].gen # r.gen BY DEF Line
<1>3. Line(q, r, v) BY <1>1, <1>2 DEF Line
<1>4. \A n, m : Carries(q, s, n, m) /\ m[1] # r.gen => Carries(q, r, n, m) BY DEF Carries
<1>5. Legs(q, r)
  <2>1. \A i \in 1..Len(q) : <<q[i].gen, q[i].leg>>[1] # r.gen BY <1>2
  <2>2. QED BY <1>4, <2>1 DEF Legs
<1>6. \A m : Timed(q, s, v, m) => Timed(q, r, v, m) BY <1>1, <1>4 DEF Timed
<1>7. QED BY <1>3, <1>5, <1>6

(* What is behind the head of a queue.                                       *)
LEMMA TailIs ==
    ASSUME NEW Q, NEW q \in Seq(Q), q # << >>
    PROVE  LET t == Tail(q) IN
           /\ t \in Seq(Q) /\ Len(t) \in Nat /\ Len(q) = Len(t) + 1 /\ q[1] = Head(q)
           /\ \A i \in 1..Len(t) : t[i] = q[i + 1]
           /\ \A i \in 1..Len(t) : i + 1 \in 1..Len(q)
           /\ 1 \in 1..Len(q)
           /\ Len(t) = 0 <=> t = << >>
<1> DEFINE t == Tail(q)
<1>1. t \in Seq(Q) /\ Len(q) \in Nat /\ q[1] = Head(q) /\ Len(q) # 0 BY EmptySeq
<1>2. Len(t) = Len(q) - 1 /\ \A i \in 1..Len(t) : t[i] = q[i + 1] BY <1>1
<1>3. Len(t) \in Nat /\ Len(q) = Len(t) + 1 BY <1>1, <1>2
<1>4. Len(t) = 0 <=> t = << >> BY <1>1, EmptySeq
<1> HIDE DEF t
<1>5. (\A i \in 1..Len(t) : i + 1 \in 1..Len(q)) /\ 1 \in 1..Len(q) BY <1>3
<1>6. /\ t \in Seq(Q) /\ Len(t) \in Nat /\ Len(q) = Len(t) + 1 /\ q[1] = Head(q)
      /\ \A i \in 1..Len(t) : t[i] = q[i + 1]
      /\ \A i \in 1..Len(t) : i + 1 \in 1..Len(q)
      /\ 1 \in 1..Len(q)
      /\ Len(t) = 0 <=> t = << >>
    BY <1>1, <1>2, <1>3, <1>4, <1>5
<1>7. QED BY <1>6 DEF t

(* A rejoining that is not the head is still on its way.                     *)
LEMMA RejoinsTail ==
    ASSUME NEW Q, NEW q \in Seq(Q), q # << >>, NEW n \in Nat, NEW gen, NEW j \in 0..Len(Tail(q))
    PROVE  /\ Rejoins(q, n + 1, j + 1, gen) => Rejoins(Tail(q), n, j, gen)
           /\ ~Edge(Head(q), gen) =>
                 (Rejoins(q, 0, j + 1, gen) => Rejoins(q, 1, j + 1, gen))
<1> DEFINE t == Tail(q)
<1>1. /\ t \in Seq(Q) /\ Len(t) \in Nat /\ Len(q) = Len(t) + 1 /\ q[1] = Head(q)
      /\ \A i \in 1..Len(t) : t[i] = q[i + 1]
      /\ \A i \in 1..Len(t) : i + 1 \in 1..Len(q)
      /\ 1 \in 1..Len(q)
      /\ Len(t) = 0 <=> t = << >>
    BY TailIs
<1> HIDE DEF t
<1>2. j \in 0..Len(t) /\ Len(t) \in Nat BY <1>1 DEF t
<1>3. ASSUME Rejoins(q, n + 1, j + 1, gen) PROVE Rejoins(t, n, j, gen)
  <2>1. PICK i \in (n + 1 + 1)..(j + 1) : q[i].kind = "back late" /\ q[i].gen = gen
      BY <1>3 DEF Rejoins
  <2> DEFINE k == i - 1
  <2>2. k \in (n + 1)..j /\ k \in 1..Len(t) /\ i = k + 1 BY <1>2
  <2> HIDE DEF k
  <2>3. t[k] = q[i] BY <1>1, <2>2
  <2>4. t[k].kind = "back late" /\ t[k].gen = gen BY <2>1, <2>3
  <2>5. QED BY <2>2, <2>4 DEF Rejoins
<1>4. ASSUME ~Edge(Head(q), gen), Rejoins(q, 0, j + 1, gen)
      PROVE  Rejoins(q, 1, j + 1, gen)
  <2>1. PICK i \in (0 + 1)..(j + 1) : q[i].kind = "back late" /\ q[i].gen = gen
      BY <1>4 DEF Rejoins
  <2>2. i # 1 BY <1>1, <1>4, <2>1, Zenon DEF Edge
  <2>3. i \in (1 + 1)..(j + 1) BY <1>2, <2>2
  <2>4. QED BY <2>1, <2>3 DEF Rejoins
<1>5. QED BY <1>3, <1>4 DEF t

(* What follows an event follows it when the head is gone.                   *)
LEMMA CarriesTail ==
    ASSUME NEW Q, NEW q \in Seq(Q), q # << >>, NEW s, NEW n \in 0..Len(Tail(q)), NEW m,
           Carries(q, s, n + 1, m)
    PROVE  Carries(Tail(q), s, n, m)
<1> DEFINE t == Tail(q)
           b == Len(t)
<1>1. /\ t \in Seq(Q) /\ Len(t) \in Nat /\ Len(q) = Len(t) + 1 /\ q[1] = Head(q)
      /\ \A i \in 1..Len(t) : t[i] = q[i + 1]
      /\ \A i \in 1..Len(t) : i + 1 \in 1..Len(q)
      /\ 1 \in 1..Len(q)
      /\ Len(t) = 0 <=> t = << >>
    BY TailIs
<1>2. n \in Nat /\ \A j \in 0..b : Rejoins(q, n + 1, j + 1, m[1]) => Rejoins(t, n, j, m[1])
  <2>1. n \in Nat BY <1>1
  <2>2. QED BY <2>1, RejoinsTail
<1> HIDE DEF t
<1>3. ASSUME NEW j \in 1..b, n < j, t[j].kind = "word", t[j].gen = m[1]
      PROVE  t[j].leg = m[2] \/ Rejoins(t, n, j, m[1])
  <2>1. j + 1 \in 1..Len(q) /\ n + 1 < j + 1 /\ j \in 0..b /\ t[j] = q[j + 1]
      BY <1>1, <1>2, <1>3
  <2>2. q[j + 1].leg = m[2] \/ Rejoins(q, n + 1, j + 1, m[1]) BY <1>3, <2>1, Zenon DEF Carries
  <2>3. QED BY <1>2, <2>1, <2>2, Zenon
<1>4. ASSUME s.gen = m[1] PROVE s.leg = m[2] \/ Rejoins(t, n, b, m[1])
  <2>1. Len(q) = b + 1 /\ b \in 0..b BY <1>1
  <2>2. s.leg = m[2] \/ Rejoins(q, n + 1, b + 1, m[1]) BY <1>4, <2>1, Zenon DEF Carries
  <2>3. QED BY <1>2, <2>1, <2>2, Zenon
<1>5. Carries(t, s, n, m) BY <1>3, <1>4, Zenon DEF Carries, b
<1>6. QED BY <1>5 DEF t

(* Past the head the lane is the same timeline, unless the head rejoins.     *)
LEMMA CarriesOn ==
    ASSUME NEW Q, NEW q \in Seq(Q), q # << >>, NEW s, NEW m, Carries(q, s, 0, m),
           ~Edge(Head(q), m[1])
    PROVE  Carries(Tail(q), s, 0, m)
<1> DEFINE t == Tail(q)
           a == Len(q)
           b == Len(t)
<1>1. /\ t \in Seq(Q) /\ Len(t) \in Nat /\ Len(q) = Len(t) + 1 /\ q[1] = Head(q)
      /\ \A i \in 1..Len(t) : t[i] = q[i + 1]
      /\ \A i \in 1..Len(t) : i + 1 \in 1..Len(q)
      /\ 1 \in 1..Len(q)
      /\ Len(t) = 0 <=> t = << >>
    BY TailIs
<1>2. b \in Nat /\ a = b + 1 BY <1>1
<1>3. \A j \in 0..b : Rejoins(q, 0, j + 1, m[1]) => Rejoins(q, 1, j + 1, m[1])
  <2>1. 0 \in Nat OBVIOUS
  <2>2. QED BY <2>1, RejoinsTail, Zenon
<1> HIDE DEF t, a, b
<1>4. \A i \in 1..a : Rejoins(q, 0, i, m[1]) => Rejoins(q, 1, i, m[1])
  <2>1. \A i \in 1..a : i - 1 \in 0..b /\ i - 1 + 1 = i BY <1>2
  <2>2. QED BY <1>3, <2>1
<1>5. /\ \A j \in 1..a : 1 < j => 0 < j
      /\ a \in 1..a
    BY <1>2
<1>6. /\ \A j \in 1..a : 0 < j /\ q[j].kind = "word" /\ q[j].gen = m[1] =>
             q[j].leg = m[2] \/ Rejoins(q, 0, j, m[1])
      /\ s.gen = m[1] => s.leg = m[2] \/ Rejoins(q, 0, a, m[1])
    BY Zenon DEF Carries, a
<1>7. Carries(q, s, 1, m)
  <2>1. /\ \A j \in 1..a : 1 < j /\ q[j].kind = "word" /\ q[j].gen = m[1] =>
               q[j].leg = m[2] \/ Rejoins(q, 1, j, m[1])
        /\ s.gen = m[1] => s.leg = m[2] \/ Rejoins(q, 1, a, m[1])
      BY <1>4, <1>5, <1>6, Zenon
  <2>2. QED BY <2>1, Zenon DEF Carries, a
<1>8. 0 \in 0..b /\ 0 + 1 = 1 BY <1>2
<1>9. Carries(t, s, 0, m) BY <1>7, <1>8, CarriesTail DEF t, b
<1>10. QED BY <1>9 DEF t

(* Behind a word that is heard come the words of its connection.             *)
LEMMA LegsTail ==
    ASSUME NEW Q, NEW q \in Seq(Q), q # << >>, NEW s, Legs(q, s)
    PROVE  /\ Legs(Tail(q), s)
           /\ Head(q).kind = "word" => Carries(Tail(q), s, 0, <<Head(q).gen, Head(q).leg>>)
<1> DEFINE t == Tail(q)
           b == Len(t)
<1>1. /\ t \in Seq(Q) /\ Len(t) \in Nat /\ Len(q) = Len(t) + 1 /\ q[1] = Head(q)
      /\ \A i \in 1..Len(t) : t[i] = q[i + 1]
      /\ \A i \in 1..Len(t) : i + 1 \in 1..Len(q)
      /\ 1 \in 1..Len(q)
      /\ Len(t) = 0 <=> t = << >>
    BY TailIs
<1>2. \A n \in 0..b : \A m : Carries(q, s, n + 1, m) => Carries(t, s, n, m) BY CarriesTail
<1> HIDE DEF t
<1>3. \A i \in 1..b : i \in 0..b /\ i + 1 \in 1..Len(q) /\ t[i] = q[i + 1] BY <1>1
<1>4. 0 \in 0..b /\ 0 + 1 = 1 BY <1>1
<1>5. \A i \in 1..Len(q) : q[i].kind = "word" => Carries(q, s, i, <<q[i].gen, q[i].leg>>)
    BY DEF Legs
<1>6. ASSUME NEW i \in 1..b, t[i].kind = "word"
      PROVE  Carries(t, s, i, <<t[i].gen, t[i].leg>>)
    BY <1>2, <1>3, <1>5, <1>6, Zenon
<1>7. Legs(t, s) BY <1>6, Zenon DEF Legs, b
<1>8. ASSUME Head(q).kind = "word"
      PROVE  Carries(t, s, 0, <<Head(q).gen, Head(q).leg>>)
  <2>1. Carries(q, s, 1, <<q[1].gen, q[1].leg>>) BY <1>1, <1>5, <1>8, Zenon
  <2>2. Carries(q, s, 0 + 1, <<q[1].gen, q[1].leg>>) BY <1>4, <2>1
  <2>3. QED BY <1>1, <1>2, <1>4, <2>2, Zenon
<1>9. QED BY <1>7, <1>8 DEF t

(* The next event is a recovery only of a lane that is awaited or has ended. *)
LEMMA LineTail ==
    ASSUME NEW Q, NEW q \in Seq(Q), q # << >>, NEW s, NEW v, NEW w, Line(q, s, v),
           s.gen \in Nat, w.gen \in Nat, Head(q).gen \in Nat, w.gen <= s.gen, Head(q).gen <= w.gen,
           Head(q).kind \in Losses /\ Head(q).gen = w.gen => w.failed \/ w.awaiting
    PROVE  Line(Tail(q), s, w)
<1> DEFINE t == Tail(q)
           e == Head(q)
<1>1. /\ t \in Seq(Q) /\ Len(t) \in Nat /\ Len(q) = Len(t) + 1 /\ q[1] = e
      /\ \A i \in 1..Len(t) : t[i] = q[i + 1]
      /\ \A i \in 1..Len(t) : i + 1 \in 1..Len(q)
      /\ 1 \in 1..Len(q)
      /\ Len(t) = 0 <=> t = << >>
    BY TailIs
<1>2. e.gen \in Nat /\ e.gen <= w.gen /\ (e.kind \in Losses /\ e.gen = w.gen => w.failed \/ w.awaiting)
    OBVIOUS
<1> HIDE DEF t, e
<1>3. \A i \in 1..Len(t) : t[i].gen <= s.gen BY <1>1 DEF Line
<1>4. ASSUME NEW i \in 1..Len(t), t[i].kind \in Backs
      PROVE  IF i = 1 THEN t[1].gen <= w.gen /\ (t[1].gen = w.gen => w.failed \/ w.awaiting)
             ELSE t[i - 1].kind \in Losses /\ t[i - 1].gen = t[i].gen
  <2>1. q[i].kind \in Losses /\ q[i].gen = t[i].gen
    <3>1. q[i + 1].kind \in Backs /\ i + 1 # 1 /\ i + 1 - 1 = i /\ i + 1 \in 1..Len(q)
          /\ t[i] = q[i + 1]
        BY <1>1, <1>4
    <3>2. IF i + 1 = 1 THEN q[1].gen <= v.gen /\ (q[1].gen = v.gen => v.failed \/ v.awaiting)
          ELSE q[i + 1 - 1].kind \in Losses /\ q[i + 1 - 1].gen = q[i + 1].gen
        BY <3>1 DEF Line
    <3>3. QED BY <3>1, <3>2
  <2>2. CASE i = 1 BY <1>1, <1>2, <2>1, <2>2
  <2>3. CASE i # 1
    <3> DEFINE k == i - 1
    <3>1. k \in 1..Len(t) /\ i = k + 1 BY <1>1, <2>3
    <3> HIDE DEF k
    <3>2. t[k] = q[i] BY <1>1, <3>1
    <3>3. QED BY <2>1, <2>3, <3>2 DEF k
  <2>4. QED BY <2>2, <2>3
<1>5. ASSUME s.again, s.phase = "dial"
      PROVE  IF t = << >> THEN s.gen = w.gen /\ (w.failed \/ w.awaiting)
             ELSE t[Len(t)].kind \in Losses /\ t[Len(t)].gen = s.gen
  <2>1. q[Len(q)].kind \in Losses /\ q[Len(q)].gen = s.gen BY <1>5 DEF Line
  <2>2. CASE t = << >>
    <3>1. Len(q) = 1 BY <1>1, <2>2
    <3>2. e.kind \in Losses /\ e.gen = s.gen BY <1>1, <2>1, <3>1
    <3>3. s.gen = w.gen BY <1>2, <3>2
    <3>4. QED BY <1>2, <2>2, <3>2, <3>3
  <2>3. CASE t # << >>
    <3>1. Len(t) \in 1..Len(t) /\ t[Len(t)] = q[Len(q)] BY <1>1, <2>3
    <3>2. QED BY <2>1, <2>3, <3>1
  <2>4. QED BY <2>2, <2>3
<1>6. Line(t, s, w) BY <1>3, <1>4, <1>5 DEF Line
<1>7. QED BY <1>6 DEF t

(* What a lane is seen as moves on with the queue as it is.                  *)
LEMMA LineView ==
    ASSUME NEW q, NEW s, NEW v, NEW w, Line(q, s, v), v.gen \in Nat, w.gen \in Nat, s.gen \in Nat,
           \A i \in 1..Len(q) : q[i].gen \in Nat,
           v.gen <= w.gen, w.gen <= s.gen,
           w.gen = v.gen /\ (v.failed \/ v.awaiting) => w.failed \/ w.awaiting
    PROVE  Line(q, s, w)
<1>1. ASSUME NEW i \in 1..Len(q), q[i].kind \in Backs
      PROVE  IF i = 1 THEN q[1].gen <= w.gen /\ (q[1].gen = w.gen => w.failed \/ w.awaiting)
             ELSE q[i - 1].kind \in Losses /\ q[i - 1].gen = q[i].gen
  <2>1. IF i = 1 THEN q[1].gen <= v.gen /\ (q[1].gen = v.gen => v.failed \/ v.awaiting)
        ELSE q[i - 1].kind \in Losses /\ q[i - 1].gen = q[i].gen
      BY <1>1 DEF Line
  <2>2. CASE i = 1
    <3>1. q[1].gen \in Nat /\ q[1].gen <= v.gen /\ (q[1].gen = v.gen => v.failed \/ v.awaiting)
        BY <2>1, <2>2
    <3>2. QED BY <2>2, <3>1
  <2>3. CASE i # 1 BY <2>1, <2>3
  <2>4. QED BY <2>2, <2>3
<1>2. ASSUME s.again, s.phase = "dial"
      PROVE  IF q = << >> THEN s.gen = w.gen /\ (w.failed \/ w.awaiting)
             ELSE q[Len(q)].kind \in Losses /\ q[Len(q)].gen = s.gen
  <2>1. IF q = << >> THEN s.gen = v.gen /\ (v.failed \/ v.awaiting)
        ELSE q[Len(q)].kind \in Losses /\ q[Len(q)].gen = s.gen
      BY <1>2 DEF Line
  <2>2. QED BY <2>1
<1>3. \A i \in 1..Len(q) : q[i].gen <= s.gen BY DEF Line
<1>4. QED BY <1>1, <1>2, <1>3 DEF Line

(* A lane that ends writes nothing more.                                     *)
LEMMA TimedView ==
    ASSUME NEW q, NEW s, NEW v, NEW w, w.gen = v.gen, v.failed => w.failed
    PROVE  \A m : Timed(q, s, v, m) => Timed(q, s, w, m)
    BY DEF Timed

(* A lane that hears no rejoining goes on with its connection.               *)
LEMMA TimedTail ==
    ASSUME NEW Q, NEW q \in Seq(Q), q # << >>, NEW s, NEW v, NEW w, w.gen = v.gen, v.failed => w.failed,
           w.failed \/ ~Edge(Head(q), v.gen)
    PROVE  \A m : Timed(q, s, v, m) => Timed(Tail(q), s, w, m)
<1>1. ASSUME NEW m, Timed(q, s, v, m), ~w.failed
      PROVE  Carries(Tail(q), s, 0, m)
  <2>1. Carries(q, s, 0, m) /\ ~Edge(Head(q), m[1]) BY <1>1 DEF Timed
  <2>2. QED BY <2>1, CarriesOn
<1>2. QED BY <1>1 DEF Timed

(* A word at the head is of the connection the epoch is of.                  *)
LEMMA HeadTimed ==
    ASSUME NEW Q, NEW q \in Seq(Q), q # << >>, NEW s, NEW v, NEW m \in Nat \X Nat, Timed(q, s, v, m),
           ~v.failed, Head(q).kind = "word", Head(q).gen = v.gen
    PROVE  m = <<Head(q).gen, Head(q).leg>>
<1>1. q[1] = Head(q) /\ 1 \in 1..Len(q) BY TailIs
<1>2. m[1] = v.gen /\ Carries(q, s, 0, m) BY DEF Timed
<1>3. 0 < 1 /\ \A i \in (0 + 1)..1 : i = 1 BY SMT
<1>4. ~Rejoins(q, 0, 1, m[1])
  <2>1. q[1].kind # "back late" BY <1>1
  <2>2. QED BY <1>3, <2>1, Zenon DEF Rejoins
<1>5. q[1].leg = m[2] BY <1>1, <1>2, <1>3, <1>4, Zenon DEF Carries
<1>6. QED BY <1>1, <1>2, <1>5

-----------------------------------------------------------------------------
(* Lanes go on in their epochs, or one of them alone begins an epoch that    *)
(* nobody has written in.                                                    *)
LEMMA EpochsKeep ==
    ASSUME NEW S, S \subseteq FactOf, NEW g, NEW c \in CollectorOf, NEW d \in CollectorOf,
           NEW Q, NEW P, NEW st, NEW sr, NEW K, NEW J, Epochs(S, g, c, Q, st, K),
           c.epoch <= d.epoch,
           \A l \in Lanes : Line(P[l], sr[l], d.view[l]) /\ Legs(P[l], sr[l]),
           \A l \in Lanes, cut \in J : cut.lane = l => cut.gen <= sr[l].gen,
           \A l \in Lanes :
              \/ GoesOn(Q[l], st[l], c.view[l], P[l], sr[l], d.view[l])
              \/ /\ d.view[l].epoch = d.epoch /\ c.epoch < d.epoch
                 /\ \A k \in Lanes \ {l} : d.view[k].epoch = c.view[k].epoch
    PROVE  Epochs(S, g, d, P, sr, J)
<1>1. /\ c.epoch \in Nat /\ d.epoch \in Nat
      /\ \A l \in Lanes : c.view[l].epoch \in Nat /\ d.view[l].epoch \in Nat
      /\ \A f \in S : f.epoch \in Nat
    BY DEF CollectorOf, ViewOf, FactOf
<1>2. /\ \A l \in Lanes : c.view[l].epoch <= c.epoch
      /\ \A f \in S : f.group = g => f.epoch <= c.epoch
      /\ \A f \in S, l \in Lanes : (f.group # g /\ f.lane # Source) => f.epoch < c.view[l].epoch
      /\ \A f \in S, l \in Lanes : (f.group = g /\ f.epoch = c.view[l].epoch) =>
             Timed(Q[l], st[l], c.view[l], f.from) /\ (f.lane # l => f.from = <<0, 0>>)
      /\ \A k, l \in Lanes : (k # l /\ c.view[k].epoch = c.view[l].epoch) =>
             Timed(Q[l], st[l], c.view[l], <<0, 0>>)
    BY DEF Epochs
<1> DEFINE Same(l) == GoesOn(Q[l], st[l], c.view[l], P[l], sr[l], d.view[l])
           Fresh(l) == /\ d.view[l].epoch = d.epoch /\ c.epoch < d.epoch
                       /\ \A k \in Lanes \ {l} : d.view[k].epoch = c.view[k].epoch
<1>3. /\ \A l \in Lanes : Same(l) \/ Fresh(l)
      /\ \A l \in Lanes : Same(l) => /\ d.view[l].epoch = c.view[l].epoch
                                     /\ \A m : Timed(Q[l], st[l], c.view[l], m) =>
                                                 Timed(P[l], sr[l], d.view[l], m)
    BY DEF GoesOn
<1>4. \A l \in Lanes : Fresh(l) => /\ d.view[l].epoch = d.epoch /\ c.epoch < d.epoch
                                   /\ \A k \in Lanes \ {l} : d.view[k].epoch = c.view[k].epoch
    OBVIOUS
<1> HIDE DEF Same, Fresh
<1>5. \A l \in Lanes : d.view[l].epoch <= d.epoch /\ c.view[l].epoch <= d.view[l].epoch
    BY <1>1, <1>2, <1>3, <1>4
<1>6. \A f \in S : f.group = g => f.epoch <= d.epoch BY <1>1, <1>2
<1>7. ASSUME NEW f \in S, NEW l \in Lanes, f.group # g, f.lane # Source
      PROVE  f.epoch < d.view[l].epoch
  <2>1. f.epoch < c.view[l].epoch BY <1>2, <1>7
  <2>2. QED BY <1>1, <1>5, <2>1
<1>8. ASSUME NEW f \in S, NEW l \in Lanes, f.group = g, f.epoch = d.view[l].epoch
      PROVE  Timed(P[l], sr[l], d.view[l], f.from) /\ (f.lane # l => f.from = <<0, 0>>)
  <2>1. CASE Same(l)
    <3>1. f.epoch = c.view[l].epoch BY <1>3, <1>8, <2>1
    <3>2. Timed(Q[l], st[l], c.view[l], f.from) /\ (f.lane # l => f.from = <<0, 0>>)
        BY <1>2, <1>8, <3>1
    <3>3. QED BY <1>3, <2>1, <3>2
  <2>2. CASE Fresh(l) BY <1>1, <1>2, <1>4, <1>8, <2>2
  <2>3. QED BY <1>3, <2>1, <2>2
<1>9. ASSUME NEW k \in Lanes, NEW l \in Lanes, k # l, d.view[k].epoch = d.view[l].epoch
      PROVE  Timed(P[l], sr[l], d.view[l], <<0, 0>>)
  <2>1. ~Fresh(l)
    <3>1. SUFFICES ASSUME Fresh(l) PROVE FALSE OBVIOUS
    <3>2. d.view[k].epoch = c.view[k].epoch /\ d.view[l].epoch = d.epoch /\ c.epoch < d.epoch
        BY <1>4, <1>9, <3>1
    <3>3. c.view[k].epoch <= c.epoch /\ c.view[k].epoch = d.epoch BY <1>2, <1>9, <3>2, Zenon
    <3>4. QED BY <1>1, <3>2, <3>3
  <2>2. ~Fresh(k)
    <3>1. SUFFICES ASSUME Fresh(k) PROVE FALSE OBVIOUS
    <3>2. d.view[l].epoch = c.view[l].epoch /\ d.view[k].epoch = d.epoch /\ c.epoch < d.epoch
        BY <1>4, <1>9, <3>1
    <3>3. c.view[l].epoch <= c.epoch /\ c.view[l].epoch = d.epoch BY <1>2, <1>9, <3>2, Zenon
    <3>4. QED BY <1>1, <3>2, <3>3
  <2>3. c.view[k].epoch = c.view[l].epoch BY <1>3, <1>9, <2>1, <2>2
  <2>4. Timed(Q[l], st[l], c.view[l], <<0, 0>>) BY <1>2, <1>9, <2>3
  <2>5. QED BY <1>3, <2>1, <2>4
<1>10. QED BY <1>5, <1>6, <1>7, <1>8, <1>9 DEF Epochs

(* What the head of a lane writes is of the connection of its epoch, the     *)
(* first one where the epoch is shared.                                      *)
LEMMA HeadsAre ==
    ASSUME NEW S, NEW g, NEW c, NEW Q, NEW st, NEW K, NEW l, NEW E, NEW w,
           Writes(S, g, c, Q, st, K, l, E, w)
    PROVE  Agrees(S, g, c, Q, st, l, w)
<1> DEFINE q == Q[l]
           s == st[l]
           v == c.view[l]
           e == Head(q)
<1>0. /\ S \subseteq FactOf /\ Epochs(S, g, c, Q, st, K)
      /\ l \in Lanes /\ q \in Seq(E) /\ q # << >> /\ Heads(w, g, l, c, e)
    BY DEF Writes
<1>1. /\ w.epoch = v.epoch /\ w.from = <<e.gen, e.leg>>
      /\ ~v.failed /\ e.kind = "word" /\ e.gen = v.gen
    BY <1>0 DEF Heads
<1>2. \A m \in Nat \X Nat : Timed(q, s, v, m) => m = w.from
  <2>1. q \in Seq(E) /\ q # << >> BY <1>0
  <2> HIDE DEF q, s, v
  <2>2. \A m \in Nat \X Nat : Timed(q, s, v, m) => m = <<Head(q).gen, Head(q).leg>>
      BY <1>1, <2>1, HeadTimed DEF e
  <2>3. QED BY <1>1, <2>2 DEF e
<1>3. /\ \A f \in S, k \in Lanes : (f.group = g /\ f.epoch = c.view[k].epoch) =>
             Timed(Q[k], st[k], c.view[k], f.from) /\ (f.lane # k => f.from = <<0, 0>>)
      /\ \A j, k \in Lanes : (j # k /\ c.view[j].epoch = c.view[k].epoch) =>
             Timed(Q[k], st[k], c.view[k], <<0, 0>>)
    BY <1>0 DEF Epochs
<1>4. ASSUME NEW f \in S, f.group = g, f.epoch = w.epoch
      PROVE  f.from = w.from /\ (f.lane # l => w.from = <<0, 0>>)
  <2>1. f.from \in Nat \X Nat BY <1>0 DEF FactOf
  <2>2. Timed(q, s, v, f.from) /\ (f.lane # l => f.from = <<0, 0>>)
      BY <1>0, <1>1, <1>3, <1>4, Zenon
  <2>3. QED BY <1>2, <2>1, <2>2, Zenon
<1>5. ASSUME NEW k \in Lanes, k # l, c.view[k].epoch = w.epoch
      PROVE  w.from = <<0, 0>> /\ Timed(Q[k], st[k], c.view[k], <<0, 0>>)
  <2>1. Timed(q, s, v, <<0, 0>>) /\ Timed(Q[k], st[k], c.view[k], <<0, 0>>)
      BY <1>0, <1>1, <1>3, <1>5, Zenon
  <2>2. <<0, 0>> \in Nat \X Nat OBVIOUS
  <2>3. QED BY <1>2, <2>1, <2>2, Zenon
<1>6. QED BY <1>4, <1>5, Zenon DEF Agrees

(* So the facts stay distinct when it is written.                            *)
LEMMA DistinctAdd ==
    ASSUME NEW S, NEW g, NEW c \in CollectorOf, NEW Q, NEW st, NEW K, NEW l, NEW E, NEW w,
           Writes(S, g, c, Q, st, K, l, E, w), Distinct(S)
    PROVE  Distinct(S \cup {w})
<1>1. /\ \A f \in S : (f.group = g /\ f.epoch = w.epoch) =>
            f.from = w.from /\ (f.lane # l => w.from = <<0, 0>>)
      /\ \A k \in Lanes : (k # l /\ c.view[k].epoch = w.epoch) =>
            w.from = <<0, 0>> /\ Timed(Q[k], st[k], c.view[k], <<0, 0>>)
  <2>1. Agrees(S, g, c, Q, st, l, w) BY HeadsAre
  <2>2. QED BY <2>1, Zenon DEF Agrees
<1>2. w.group = g /\ w.lane = l /\ w.epoch = c.view[l].epoch BY DEF Heads, Writes
<1>3. \A f \in S : (f.group # g /\ f.lane # Source) => f.epoch # w.epoch
  <2>1. \A f \in S : f.epoch \in Nat BY DEF FactOf, Writes
  <2>2. c.view[l].epoch \in Nat BY DEF CollectorOf, ViewOf, Writes
  <2>3. \A f \in S : (f.group # g /\ f.lane # Source) => f.epoch < c.view[l].epoch
      BY DEF Epochs, Writes
  <2>4. QED BY <1>2, <2>1, <2>2, <2>3
<1>4. ASSUME NEW f \in S, f.epoch = w.epoch, f.group = g \/ Source \notin {f.lane, w.lane}
      PROVE  /\ f.group = g
             /\ IF f.lane = w.lane THEN f.from = w.from
                ELSE f.from = <<0, 0>> /\ w.from = <<0, 0>>
  <2>1. f.group = g BY <1>3, <1>4
  <2>2. QED BY <1>1, <1>2, <1>4, <2>1, Zenon
<1>5. ASSUME NEW s \in S \cup {w}, NEW t \in S \cup {w}, s.epoch = t.epoch,
             s.group = t.group \/ Source \notin {s.lane, t.lane}
      PROVE  /\ s.group = t.group
             /\ IF s.lane = t.lane THEN s.from = t.from
                ELSE s.from = <<0, 0>> /\ t.from = <<0, 0>>
  <2>1. CASE s \in S /\ t \in S BY <1>5, <2>1, Zenon DEF Distinct
  <2>2. CASE s \in S /\ t = w BY <1>2, <1>4, <1>5, <2>2, Zenon
  <2>3. CASE s = w /\ t \in S
    <3>1. Source \notin {s.lane, t.lane} => Source \notin {t.lane, w.lane} BY <2>3
    <3>2. QED BY <1>2, <1>4, <1>5, <2>3, <3>1, Zenon
  <2>4. CASE s = w /\ t = w BY <2>4
  <2>5. QED BY <1>5, <2>1, <2>2, <2>3, <2>4
<1>6. QED BY <1>5, Zenon DEF Distinct

(* And so does what is known of the epochs.                                  *)
LEMMA EpochsAdd ==
    ASSUME NEW S, S \subseteq FactOf, NEW g, NEW c \in CollectorOf, NEW P, NEW st, NEW K,
           Epochs(S, g, c, P, st, K), NEW l \in Lanes, NEW w, Adds(w, g, l, c, P, st)
    PROVE  Epochs(S \cup {w}, g, c, P, st, K)
<1>1. /\ w.group = g /\ w.lane = l /\ w.epoch = c.view[l].epoch
      /\ Timed(P[l], st[l], c.view[l], w.from)
      /\ \A k \in Lanes : (k # l /\ c.view[k].epoch = w.epoch) => w.from = <<0, 0>>
    BY DEF Adds
<1>2. /\ \A k \in Lanes : Line(P[k], st[k], c.view[k]) /\ Legs(P[k], st[k])
      /\ \A k \in Lanes, cut \in K : cut.lane = k => cut.gen <= st[k].gen
      /\ \A k \in Lanes : c.view[k].epoch <= c.epoch
      /\ \A f \in S : f.group = g => f.epoch <= c.epoch
      /\ \A f \in S, k \in Lanes : (f.group # g /\ f.lane # Source) => f.epoch < c.view[k].epoch
      /\ \A f \in S, k \in Lanes : (f.group = g /\ f.epoch = c.view[k].epoch) =>
             Timed(P[k], st[k], c.view[k], f.from) /\ (f.lane # k => f.from = <<0, 0>>)
      /\ \A j, k \in Lanes : (j # k /\ c.view[j].epoch = c.view[k].epoch) =>
             Timed(P[k], st[k], c.view[k], <<0, 0>>)
    BY DEF Epochs
<1>3. \A f \in S \cup {w} : f.group = g => f.epoch <= c.epoch BY <1>1, <1>2, Zenon
<1>4. \A f \in S \cup {w}, k \in Lanes : (f.group # g /\ f.lane # Source) => f.epoch < c.view[k].epoch
    BY <1>1, <1>2, Zenon
<1>5. ASSUME NEW k \in Lanes, w.epoch = c.view[k].epoch
      PROVE  Timed(P[k], st[k], c.view[k], w.from) /\ (w.lane # k => w.from = <<0, 0>>)
  <2>1. CASE k = l BY <1>1, <2>1, Zenon
  <2>2. CASE k # l
    <3>1. w.from = <<0, 0>> BY <1>1, <1>5, <2>2, Zenon
    <3>2. Timed(P[k], st[k], c.view[k], <<0, 0>>) BY <1>1, <1>2, <1>5, <2>2, Zenon
    <3>3. QED BY <3>1, <3>2, Zenon
  <2>3. QED BY <2>1, <2>2
<1>6. \A f \in S \cup {w}, k \in Lanes : (f.group = g /\ f.epoch = c.view[k].epoch) =>
          Timed(P[k], st[k], c.view[k], f.from) /\ (f.lane # k => f.from = <<0, 0>>)
    BY <1>2, <1>5, Zenon
<1>7. QED BY <1>2, <1>3, <1>4, <1>6, Zenon DEF Epochs

(* A group that opens.                                                       *)
LEMMA EpochsFresh ==
    ASSUME NEW S, S \subseteq FactOf, NEW g, \A f \in S : f.group # g,
           NEW at, NEW next, NEW epoch \in Nat, \A f \in S : f.lane # Source => f.epoch < epoch,
           NEW n
    PROVE  Epochs(S, g, Collector(at, next, epoch), Silent, [l \in Lanes |-> Stream(n, 0, 0)], {})
<1> DEFINE s == Stream(n, 0, 0)
           v == [View EXCEPT !.epoch = epoch]
           c == Collector(at, next, epoch)
           st == [l \in Lanes |-> s]
<1>1. s.phase = "dial" /\ s.again = FALSE /\ s.gen = 0 /\ s.leg = 0 BY DEF Stream
<1>2. v.gen = 0 /\ v.epoch = epoch BY DEF View
<1>3. \A l \in Lanes : c.view[l] = v /\ Silent[l] = << >> /\ st[l] = s
    BY CollectorSees DEF Silent
<1>4. c.epoch = epoch BY DEF Collector
<1>5. Len(<< >>) = 0 /\ 1..0 = {} /\ 0 <= 0 /\ epoch <= epoch OBVIOUS
<1> HIDE DEF s, v, c, st
<1>6. Line(<< >>, s, v) /\ Legs(<< >>, s) BY <1>1, <1>2, <1>5 DEF Line, Legs
<1>7. Timed(<< >>, s, v, <<0, 0>>)
  <2>1. Carries(<< >>, s, 0, <<0, 0>>) BY <1>1, <1>5 DEF Carries
  <2>2. QED BY <1>2, <2>1 DEF Timed
<1>8. /\ \A l \in Lanes : Line(Silent[l], st[l], c.view[l]) /\ Legs(Silent[l], st[l])
      /\ \A l \in Lanes : Timed(Silent[l], st[l], c.view[l], <<0, 0>>)
      /\ \A l \in Lanes : c.view[l].epoch = epoch
    BY <1>2, <1>3, <1>6, <1>7, Zenon
<1>9. /\ \A l \in Lanes : c.view[l].epoch <= c.epoch
      /\ \A f \in S, l \in Lanes : (f.group # g /\ f.lane # Source) => f.epoch < c.view[l].epoch
    BY <1>4, <1>5, <1>8, Zenon
<1>10. Epochs(S, g, c, Silent, st, {}) BY <1>8, <1>9, Zenon DEF Epochs
<1>11. QED BY <1>10 DEF c, st, s

-----------------------------------------------------------------------------
(* An event that is sent leaves its lane in its epoch.                       *)
LEMMA SentAlong ==
    ASSUME NEW Q, NEW q \in Seq(Q), NEW e \in Q, NEW s, NEW r, NEW v, Line(q, s, v), Legs(q, s),
           s.gen \in Nat, Turn(s, r, e)
    PROVE  Along(q, s, v, Append(q, e), r)
<1> DEFINE t == Append(q, e)
<1>1. Line(t, r, v) BY LineAppend DEF Turn
<1>2. Sends(s, r, e) BY DEF Turn
<1>3. Legs(t, r) BY <1>2, LegsAppend
<1>4. \A m : Carries(q, s, 0, m) => Carries(t, r, 0, m)
  <2>1. 0 \in 0..Len(q) BY LenProperties
  <2>2. QED BY <1>2, <2>1, CarriesAppend
<1> HIDE DEF t
<1>5. \A m : Timed(q, s, v, m) => Timed(t, r, v, m) BY <1>4, Zenon DEF Timed
<1>6. Along(q, s, v, t, r) BY <1>1, <1>3, <1>5, Zenon DEF Along, GoesOn
<1>7. QED BY <1>6 DEF t

(* So do two.                                                                *)
LEMMA AlongAlong ==
    ASSUME NEW q, NEW s, NEW v, NEW t, NEW r, NEW u, NEW x, Along(q, s, v, t, r), Along(t, r, v, u, x)
    PROVE  Along(q, s, v, u, x)
    BY Zenon DEF Along, GoesOn

(* So does a stream that only changes its phase.                             *)
LEMMA SameAlong ==
    ASSUME NEW q, NEW s, NEW r, NEW v, Line(q, s, v), Legs(q, s), r.gen = s.gen, r.leg = s.leg,
           r.again /\ r.phase = "dial" => s.again /\ s.phase = "dial"
    PROVE  Along(q, s, v, q, r)
<1>1. Line(q, r, v) /\ Legs(q, r) /\ \A m : Timed(q, s, v, m) => Timed(q, r, v, m) BY LineSame
<1>2. QED BY <1>1, Zenon DEF Along, GoesOn

(* Whatever a stream does, what it sends goes on from what it has sent.      *)
LEMMA StreamAlong ==
    ASSUME Typed, opened \in Groups, NEW l \in Lanes, StreamActs(l), NEW v,
           Line(inbox[opened][l], stream[l], v), Legs(inbox[opened][l], stream[l])
    PROVE  \E r, es : /\ Moves(l, r, es)
                      /\ Along(inbox[opened][l], stream[l], v, inbox[opened][l] \o es, r)
                      /\ r.gen = stream[l].gen
<1> DEFINE s == stream[l]
           q == inbox[opened][l]
           Goal == \E r, es : Moves(l, r, es) /\ Along(q, s, v, q \o es, r) /\ r.gen = s.gen
<1>1. /\ s \in StreamOf /\ q \in Seq(Events) /\ s.gen \in Nat /\ s.next - 1 \in 0..pushed
      /\ s.next \in 0..(pushed + 1) /\ s.next # 0 /\ pushed \in Nat
    BY DEF Typed, TypeOK, StreamOf
<1>2. \A kind \in EventKinds, word \in 0..pushed : (kind = "word" => word # 0) =>
         LET e == Event(l, kind, word) IN
         e \in Events /\ e.kind = kind /\ e.gen = s.gen /\ e.leg = s.leg
    BY EventIs DEF Event
<1>3. Line(q, s, v) /\ Legs(q, s) OBVIOUS
<1>4. {"connected", "back", "back late", "word", "lost", "planned", "error"} \subseteq EventKinds
       /\ 0 \in 0..pushed
    BY <1>1 DEF EventKinds
<1>5. "connected" \notin Backs /\ "word" \notin Backs /\ "lost" \notin Backs /\ "planned" \notin Backs
      /\ "error" \notin Backs /\ "lost" \in Losses /\ "planned" \in Losses /\ "word" \notin Losses
    BY DEF Backs, Losses
<1> HIDE DEF s, q
<1>6. ASSUME NEW t \in Seq(Events), NEW a, NEW r, NEW kind \in EventKinds, NEW word \in 0..pushed,
             kind = "word" => word # 0, Line(t, a, v), Legs(t, a),
             a.gen = s.gen, r.gen = s.gen, a.leg = s.leg \/ kind # "word",
             r.leg = a.leg \/ kind = "back late",
             kind \in Backs => a.again /\ a.phase = "dial",
             r.again /\ r.phase = "dial" => kind \in Losses
      PROVE  Along(t, a, v, Append(t, Event(l, kind, word)), r)
  <2> DEFINE e == Event(l, kind, word)
  <2>1. e \in Events /\ e.kind = kind /\ e.gen = s.gen /\ e.leg = s.leg BY <1>2, <1>6, Zenon
  <2> HIDE DEF e
  <2>2. "word" # "back late" OBVIOUS
  <2>3. Sends(a, r, e) BY <1>6, <2>1, <2>2, Zenon DEF Sends
  <2>4. Turn(a, r, e) BY <1>6, <2>1, <2>3, Zenon DEF Turn
  <2>5. a.gen \in Nat BY <1>1, <1>6, Zenon
  <2>6. Along(t, a, v, Append(t, e), r) BY <1>6, <2>1, <2>4, <2>5, SentAlong, Zenon
  <2>7. QED BY <2>6 DEF e
<1>7. ASSUME NEW r, NEW kind \in EventKinds, NEW word \in 0..pushed,
             kind = "word" => word # 0, Moves(l, r, <<Event(l, kind, word)>>),
             r.gen = s.gen, r.leg = s.leg, kind \notin Backs,
             r.again /\ r.phase = "dial" => kind \in Losses
      PROVE  Goal
  <2> DEFINE e == Event(l, kind, word)
  <2>1. Along(q, s, v, Append(q, e), r) BY <1>1, <1>3, <1>6, <1>7, Zenon
  <2>2. e \in Events BY <1>2, <1>7, Zenon
  <2> HIDE DEF e
  <2>3. q \o <<e>> = Append(q, e) BY <1>1, <2>2, TwoEvents
  <2>4. Moves(l, r, <<e>>) /\ Along(q, s, v, q \o <<e>>, r) /\ r.gen = s.gen
      BY <1>7, <2>1, <2>3, Zenon DEF e
  <2>5. QED BY <2>4, Zenon
<1>8. ASSUME NEW kind \in Backs, NEW a, NEW r, s.phase = "dial", s.again,
             Moves(l, r, <<Event(l, kind, s.next - 1), Event(l, "connected", 0)>>),
             a.gen = s.gen, a.leg = s.leg \/ kind = "back late", a.phase = "up",
             r.gen = s.gen, r.leg = a.leg, r.phase = "up"
      PROVE  Goal
  <2> DEFINE n == s.next - 1
             e == Event(l, kind, n)
             f == Event(l, "connected", 0)
  <2>1. n \in 0..pushed /\ kind \in EventKinds /\ kind # "word" /\ "connected" \in EventKinds
        /\ "connected" # "word" /\ "up" # "dial"
      BY <1>1, <1>4, <1>8 DEF Backs
  <2> HIDE DEF n
  <2>2. e \in Events /\ f \in Events BY <1>2, <1>4, <2>1, Zenon
  <2>3. Along(q, s, v, Append(q, e), a) BY <1>1, <1>3, <1>6, <1>8, <2>1, Zenon
  <2>4. Line(Append(q, e), a, v) /\ Legs(Append(q, e), a) BY <2>3 DEF Along
  <2>5. Append(q, e) \in Seq(Events) BY <1>1, <2>2, AppendProperties
  <2> DEFINE t == Append(q, e)
  <2> HIDE DEF t
  <2>6. Along(t, a, v, Append(t, f), r)
    <3>1. t \in Seq(Events) /\ Line(t, a, v) /\ Legs(t, a) BY <2>4, <2>5 DEF t
    <3>2. a.leg = s.leg \/ "connected" # "word" BY <2>1
    <3>3. ~(r.again /\ r.phase = "dial") BY <1>8, <2>1, Zenon
    <3>4. QED BY <1>4, <1>5, <1>6, <1>8, <2>1, <3>1, <3>2, <3>3, Zenon
  <2>7. Along(q, s, v, Append(t, f), r) BY <2>3, <2>6, AlongAlong DEF t
  <2> HIDE DEF e, f
  <2>8. q \o <<e, f>> = Append(t, f) BY <1>1, <2>2, TwoEvents DEF t
  <2>9. Moves(l, r, <<e, f>>) /\ Along(q, s, v, q \o <<e, f>>, r) /\ r.gen = s.gen
      BY <1>8, <2>7, <2>8, Zenon DEF e, f, n
  <2>10. QED BY <2>9, Zenon
<1>11. ASSUME s.phase = "dial", ~s.again,
              Moves(l, [s EXCEPT !.phase = "up"], <<Event(l, "connected", 0)>>)
       PROVE  Goal
  <2> DEFINE r == [s EXCEPT !.phase = "up"]
  <2>1. r.gen = s.gen /\ r.leg = s.leg /\ r.phase = "up" /\ "up" # "dial" /\ "connected" # "word"
      BY <1>1 DEF StreamOf
  <2> HIDE DEF r
  <2>2. Moves(l, r, <<Event(l, "connected", 0)>>) BY <1>11 DEF r
  <2>3. QED BY <1>4, <1>5, <1>7, <2>1, <2>2, Zenon
<1>12. ASSUME s.phase = "dial", s.again,
              Moves(l, [s EXCEPT !.phase = "up", !.again = FALSE],
                    <<Event(l, "back", s.next - 1), Event(l, "connected", 0)>>)
       PROVE  Goal
  <2> DEFINE r == [s EXCEPT !.phase = "up", !.again = FALSE]
  <2>1. r.gen = s.gen /\ r.leg = s.leg /\ r.phase = "up" /\ "back" \in Backs
      BY <1>1 DEF StreamOf, Backs
  <2> HIDE DEF r
  <2>2. Moves(l, r, <<Event(l, "back", s.next - 1), Event(l, "connected", 0)>>) BY <1>12 DEF r
  <2>3. QED BY <1>8, <1>12, <2>1, <2>2, Zenon
<1>13. ASSUME s.phase = "dial", s.again,
              Moves(l, [s EXCEPT !.phase = "up", !.again = FALSE, !.next = pushed + 1, !.leg = @ + 1],
                    <<Event(l, "back late", s.next - 1), Event(l, "connected", 0)>>)
       PROVE  Goal
  <2> DEFINE r == [s EXCEPT !.phase = "up", !.again = FALSE, !.next = pushed + 1, !.leg = @ + 1]
  <2>1. r.gen = s.gen /\ r.phase = "up" /\ "back late" \in Backs BY <1>1 DEF StreamOf, Backs
  <2> HIDE DEF r
  <2>2. Moves(l, r, <<Event(l, "back late", s.next - 1), Event(l, "connected", 0)>>)
      BY <1>13 DEF r
  <2>3. QED BY <1>8, <1>13, <2>1, <2>2, Zenon
<1>14. ASSUME s.phase = "up", s.next <= pushed,
              Moves(l, [s EXCEPT !.next = @ + 1], <<Event(l, "word", s.next)>>)
       PROVE  Goal
  <2> DEFINE r == [s EXCEPT !.next = @ + 1]
  <2>1. r.gen = s.gen /\ r.leg = s.leg /\ r.phase = "up" /\ "up" # "dial"
      BY <1>1, <1>14 DEF StreamOf
  <2>2. s.next \in 0..pushed /\ s.next # 0 BY <1>1, <1>14
  <2> HIDE DEF r
  <2>3. Moves(l, r, <<Event(l, "word", s.next)>>) BY <1>14 DEF r
  <2>4. QED BY <1>4, <1>5, <1>7, <2>1, <2>2, <2>3, Zenon
<1>15. ASSUME NEW kind \in {"lost", "planned"},
              Moves(l, [s EXCEPT !.phase = "dial", !.again = TRUE], <<Event(l, kind, 0)>>)
       PROVE  Goal
  <2> DEFINE r == [s EXCEPT !.phase = "dial", !.again = TRUE]
  <2>1. r.gen = s.gen /\ r.leg = s.leg BY <1>1 DEF StreamOf
  <2>2. kind \in EventKinds /\ kind \notin Backs /\ kind \in Losses /\ kind # "word"
      BY DEF EventKinds, Backs, Losses
  <2> HIDE DEF r
  <2>3. Moves(l, r, <<Event(l, kind, 0)>>) BY <1>15 DEF r
  <2>4. QED BY <1>4, <1>7, <2>1, <2>2, <2>3, Zenon
<1>16. ASSUME Moves(l, [s EXCEPT !.phase = "died"], <<Event(l, "error", 0)>>)
       PROVE  Goal
  <2> DEFINE r == [s EXCEPT !.phase = "died"]
  <2>1. r.gen = s.gen /\ r.leg = s.leg /\ r.phase = "died" /\ "died" # "dial" /\ "error" # "word"
      BY <1>1 DEF StreamOf
  <2> HIDE DEF r
  <2>2. Moves(l, r, <<Event(l, "error", 0)>>) BY <1>16 DEF r
  <2>3. QED BY <1>4, <1>5, <1>7, <2>1, <2>2, Zenon
<1>17. ASSUME Moves(l, [s EXCEPT !.phase = "ended"], << >>)
       PROVE  Goal
  <2> DEFINE r == [s EXCEPT !.phase = "ended"]
  <2>1. r.gen = s.gen /\ r.leg = s.leg /\ r.phase = "ended" /\ "ended" # "dial"
      BY <1>1 DEF StreamOf
  <2> HIDE DEF r
  <2>2. Along(q, s, v, q, r) BY <1>3, <2>1, SameAlong, Zenon
  <2>3. q \o << >> = q BY <1>1, ConcatEmptySeq
  <2>4. Moves(l, r, << >>) /\ Along(q, s, v, q \o << >>, r) /\ r.gen = s.gen
      BY <1>17, <2>1, <2>2, <2>3, Zenon DEF r
  <2>5. QED BY <2>4, Zenon
<1>18. Goal BY <1>11, <1>12, <1>13, <1>14, <1>15, <1>16, <1>17, Zenon DEF StreamActs, s
<1>19. QED BY <1>18 DEF s, q

-----------------------------------------------------------------------------
(* Then the facts and what is on its way stay as they are.                   *)
LEMMA UndisturbedKeeps ==
    ASSUME OneLine, Undisturbed
    PROVE  OneLine'
<1>1. Distinct(said)' /\ Heeded' BY DEF OneLine, Undisturbed, Distinct, Heeded
<1>2. Unused' BY DEF OneLine, Undisturbed, Unused
<1>3. Attentive' => Timelines' BY DEF OneLine, Undisturbed, Timelines
<1>4. QED BY <1>1, <1>2, <1>3 DEF OneLine

(* A lane that nobody touches goes on.                                       *)
LEMMA GoesOnSame ==
    ASSUME NEW q, NEW s, NEW v, NEW w, w = v
    PROVE  GoesOn(q, s, v, q, s, w)
    BY DEF GoesOn

(* A stream connects, speaks, drops, dies or finishes: its lane goes on in   *)
(* its epoch, for what follows a late recovery is not yet heard.             *)
LEMMA EpochStreams ==
    ASSUME WriterInv, GroupAssumption, OneLine, NEW l \in Lanes, StreamStep(l)
    PROVE  OneLine'
<1>1. Typed /\ Runs(l) /\ StreamActs(l)
  <2>1. Typed BY DEF WriterInv
  <2>2. QED BY <2>1, StreamActsIs
<1>2. opened \in Groups BY <1>1 DEF Runs, Typed, TypeOK, Groups, None
<1>3. /\ stream \in [Lanes -> StreamOf] /\ inbox \in [Groups -> [Lanes -> Seq(Events)]]
      /\ col[opened] \in CollectorOf /\ said \subseteq FactOf
    BY <1>1, <1>2 DEF Typed
<1>4. \E r, es : /\ Moves(l, r, es)
                 /\ Attentive => /\ r.gen = stream[l].gen
                                 /\ Along(inbox[opened][l], stream[l], col[opened].view[l],
                                          inbox[opened][l] \o es, r)
  <2>1. CASE Attentive
    <3>1. Line(inbox[opened][l], stream[l], col[opened].view[l]) /\ Legs(inbox[opened][l], stream[l])
        BY <2>1 DEF OneLine, Timelines, Epochs
    <3> DEFINE v == col[opened].view[l]
    <3>2. Line(inbox[opened][l], stream[l], v) /\ Legs(inbox[opened][l], stream[l]) BY <3>1
    <3> HIDE DEF v
    <3>3. \E r, es : /\ Moves(l, r, es)
                     /\ Along(inbox[opened][l], stream[l], v, inbox[opened][l] \o es, r)
                     /\ r.gen = stream[l].gen
        BY <1>1, <1>2, <3>2, StreamAlong
    <3>4. QED BY <3>3, Zenon DEF v
  <2>2. CASE ~Attentive
    <3>1. \E r, es : Moves(l, r, es) BY <1>1 DEF StreamActs
    <3>2. QED BY <2>2, <3>1, Zenon
  <2>3. QED BY <2>1, <2>2
<1>5. PICK r, es : /\ Moves(l, r, es)
                   /\ Attentive => /\ r.gen = stream[l].gen
                                   /\ Along(inbox[opened][l], stream[l], col[opened].view[l],
                                            inbox[opened][l] \o es, r)
    BY <1>4
<1>6. /\ stream' = [stream EXCEPT ![l] = r] /\ inbox' = [inbox EXCEPT ![opened][l] = @ \o es]
      /\ UNCHANGED <<said, opened, col, cuts>>
    BY <1>5 DEF Moves
<1>7. /\ stream'[l] = r /\ inbox'[opened][l] = inbox[opened][l] \o es
      /\ \A k \in Lanes : k # l => stream'[k] = stream[k] /\ inbox'[opened][k] = inbox[opened][k]
      /\ \A g \in Groups : g # opened => inbox'[g] = inbox[g]
    BY <1>2, <1>3, <1>6
<1>8. Distinct(said)' /\ Heeded' /\ Unused'
  <2>1. \A g \in Groups : g > opened => g # opened BY <1>2 DEF Groups
  <2>2. QED BY <1>6, <1>7, <2>1 DEF OneLine, Distinct, Heeded, Unused
<1>9. ASSUME Attentive' PROVE Timelines'
  <2> DEFINE c == col[opened]
             Q == inbox[opened]
             P == inbox'[opened]
             st == stream
             sr == stream'
             K == cuts[opened]
             S == said
             g == opened
  <2>1. Attentive /\ Epochs(S, g, c, Q, st, K) BY <1>6, <1>9 DEF Attentive, OneLine, Timelines
  <2>2. /\ Along(Q[l], st[l], c.view[l], P[l], sr[l]) /\ sr[l].gen = st[l].gen
        /\ \A k \in Lanes : k # l => sr[k] = st[k] /\ P[k] = Q[k]
        /\ c \in CollectorOf /\ S \subseteq FactOf
      BY <1>3, <1>5, <1>7, <2>1
  <2> HIDE DEF c, Q, P, st, sr, K, S, g
  <2>3. /\ \A k \in Lanes : Line(Q[k], st[k], c.view[k]) /\ Legs(Q[k], st[k])
        /\ \A k \in Lanes, cut \in K : cut.lane = k => cut.gen <= st[k].gen
      BY <2>1 DEF Epochs
  <2>4. ASSUME NEW k \in Lanes
        PROVE  /\ Line(P[k], sr[k], c.view[k]) /\ Legs(P[k], sr[k])
               /\ GoesOn(Q[k], st[k], c.view[k], P[k], sr[k], c.view[k])
               /\ sr[k].gen = st[k].gen
    <3>1. CASE k = l BY <2>2, <3>1 DEF Along
    <3>2. CASE k # l BY <2>2, <2>3, <3>2, GoesOnSame
    <3>3. QED BY <3>1, <3>2
  <2>5. \A k \in Lanes, cut \in K : cut.lane = k => cut.gen <= sr[k].gen BY <2>3, <2>4
  <2>6. c.epoch <= c.epoch BY <2>2 DEF CollectorOf
  <2>7. Epochs(S, g, c, P, sr, K) BY <2>1, <2>2, <2>4, <2>5, <2>6, EpochsKeep
  <2>8. QED BY <1>6, <2>7 DEF Timelines, c, P, sr, K, S, g
<1>10. QED BY <1>8, <1>9 DEF OneLine

-----------------------------------------------------------------------------
(* What is heard.  A replacement begins an epoch.                            *)
LEMMA EpochsRevived ==
    ASSUME NEW S, S \subseteq FactOf, NEW g, NEW b \in CollectorOf, NEW l \in Lanes, NEW gen \in Nat,
           NEW Q \in [Lanes -> Seq(Events)], NEW st \in [Lanes -> StreamOf], NEW K,
           Epochs(S, g, b, Q, st, K), gen <= st[l].gen
    PROVE  Epochs(S, g, Revived(b, l, gen), Q, st, K)
<1>1. CASE gen <= b.view[l].gen BY <1>1, RevivedSame
<1>2. CASE gen > b.view[l].gen
  <2> DEFINE d == Revived(b, l, gen)
             v == b.view[l]
             w == [v EXCEPT !.gen = gen, !.failed = FALSE, !.epoch = b.epoch + 1]
  <2>1. /\ d \in CollectorOf /\ d.epoch = b.epoch + 1 /\ d.view[l] = w
        /\ \A k \in Lanes \ {l} : d.view[k] = b.view[k]
    <3>1. /\ d \in CollectorOf
          /\ \A k \in Lanes \ {l} : d.view[k] = b.view[k]
          /\ d.at = b.at /\ d.next = b.next /\ d.final = b.final /\ d.since = b.since
          /\ d.epoch = b.epoch + 1
          /\ d.view[l] = [b.view[l] EXCEPT !.gen = gen, !.failed = FALSE,
                                            !.epoch = b.epoch + 1]
        BY <1>2, RevivedNew
    <3>2. QED BY <3>1
  <2>2. /\ v \in ViewOf /\ b.epoch \in Nat /\ v.gen \in Nat BY DEF CollectorOf, ViewOf
  <2>3. w.gen = gen /\ w.epoch = b.epoch + 1 BY <2>2 DEF ViewOf
  <2>4. /\ st[l].gen \in Nat
        /\ \A i \in 1..Len(Q[l]) : Q[l][i].gen \in Nat
    <3>1. \A x \in Events : x.gen \in Nat BY DEF Events
    <3>2. Q[l] \in Seq(Events) OBVIOUS
    <3>3. \A i \in 1..Len(Q[l]) : Q[l][i] \in Events BY <3>2, ElementOfSeq
    <3>4. QED BY <3>1, <3>3 DEF StreamOf
  <2>5. /\ \A k \in Lanes : Line(Q[k], st[k], b.view[k]) /\ Legs(Q[k], st[k])
        /\ \A k \in Lanes, cut \in K : cut.lane = k => cut.gen <= st[k].gen
      BY DEF Epochs
  <2> HIDE DEF d, w
  <2>6. Line(Q[l], st[l], w)
    <3> DEFINE q == Q[l]
               s == st[l]
    <3>1. /\ Line(q, s, v) /\ v.gen \in Nat /\ w.gen \in Nat /\ s.gen \in Nat
          /\ \A i \in 1..Len(q) : q[i].gen \in Nat
          /\ v.gen <= w.gen /\ w.gen <= s.gen /\ w.gen # v.gen
        BY <1>2, <2>2, <2>3, <2>4, <2>5
    <3> HIDE DEF q, s, v
    <3>2. Line(q, s, w) BY <3>1, LineView
    <3>3. QED BY <3>2 DEF q, s
  <2>7. ASSUME NEW k \in Lanes
        PROVE  /\ Line(Q[k], st[k], d.view[k]) /\ Legs(Q[k], st[k])
               /\ \/ GoesOn(Q[k], st[k], b.view[k], Q[k], st[k], d.view[k])
                  \/ /\ d.view[k].epoch = d.epoch /\ b.epoch < d.epoch
                     /\ \A j \in Lanes \ {k} : d.view[j].epoch = b.view[j].epoch
    <3>1. CASE k = l
      <4>1. d.view[k].epoch = d.epoch /\ b.epoch < d.epoch BY <2>1, <2>2, <2>3, <3>1
      <4>2. \A j \in Lanes \ {k} : d.view[j].epoch = b.view[j].epoch BY <2>1, <3>1
      <4>3. Line(Q[k], st[k], d.view[k]) /\ Legs(Q[k], st[k]) BY <2>1, <2>5, <2>6, <3>1
      <4>4. QED BY <4>1, <4>2, <4>3
    <3>2. CASE k # l BY <2>1, <2>5, <3>2, GoesOnSame
    <3>3. QED BY <3>1, <3>2
  <2>8. b.epoch <= d.epoch BY <2>1, <2>2
  <2>9. Epochs(S, g, d, Q, st, K) BY <2>1, <2>5, <2>7, <2>8, EpochsKeep
  <2>10. QED BY <2>9 DEF d
<1>3. b.view[l].gen \in Nat BY DEF CollectorOf, ViewOf
<1>4. QED BY <1>1, <1>2, <1>3

(* An event is heard: the lane goes on, or begins an epoch.                  *)
LEMMA EpochsHeard ==
    ASSUME NEW S, S \subseteq FactOf, NEW g, NEW c \in CollectorOf, NEW d \in CollectorOf, NEW l \in Lanes,
           NEW Q \in [Lanes -> Seq(Events)], NEW st \in [Lanes -> StreamOf], NEW K,
           Epochs(S, g, c, Q, st, K), Q[l] # << >>, Notes(c, d, l, Head(Q[l]))
    PROVE  Epochs(S, g, d, [Q EXCEPT ![l] = Tail(@)], st, K)
<1> DEFINE q == Q[l]
           e == Head(q)
           s == st[l]
           v == c.view[l]
           w == d.view[l]
           P == [Q EXCEPT ![l] = Tail(@)]
<1>1. /\ q \in Seq(Events) /\ q # << >> /\ s.gen \in Nat /\ v.gen \in Nat /\ w.gen \in Nat
      /\ P[l] = Tail(q) /\ \A k \in Lanes \ {l} : P[k] = Q[k]
    BY DEF StreamOf, CollectorOf, ViewOf
<1>2. e \in Events /\ e.gen \in Nat
  <2>1. e \in Events BY <1>1, HeadTailProperties
  <2>2. QED BY <2>1 DEF Events
<1>3. /\ w.gen = v.gen /\ e.gen <= v.gen
      /\ c.epoch <= d.epoch /\ \A k \in Lanes \ {l} : d.view[k] = c.view[k]
      /\ e.kind \in Losses /\ e.gen = v.gen => w.failed \/ w.awaiting
      /\ \/ w.epoch = v.epoch /\ (v.failed => w.failed) /\ (w.failed \/ ~Edge(e, v.gen))
         \/ w.epoch = d.epoch /\ c.epoch < d.epoch
    BY DEF Notes
<1>4. /\ \A k \in Lanes : Line(Q[k], st[k], c.view[k]) /\ Legs(Q[k], st[k])
      /\ \A k \in Lanes, cut \in K : cut.lane = k => cut.gen <= st[k].gen
    BY DEF Epochs
<1>5. Line(q, s, v) /\ Legs(q, s) /\ w.gen <= s.gen
  <2>1. Line(q, s, v) /\ Legs(q, s) BY <1>4
  <2>2. v.gen <= s.gen BY <2>1 DEF Line
  <2>3. QED BY <1>3, <2>1, <2>2
<1> HIDE DEF q, s, v, w, P
<1>6. Line(Tail(q), s, w)
  <2>1. Head(q).gen \in Nat /\ Head(q).gen <= w.gen
        /\ (Head(q).kind \in Losses /\ Head(q).gen = w.gen => w.failed \/ w.awaiting)
      BY <1>2, <1>3
  <2>2. QED BY <1>1, <1>5, <2>1, LineTail
<1>7. Legs(Tail(q), s) BY <1>1, <1>5, LegsTail
<1>8. \/ GoesOn(q, s, v, Tail(q), s, w)
      \/ w.epoch = d.epoch /\ c.epoch < d.epoch
  <2>1. CASE w.epoch = v.epoch /\ (v.failed => w.failed) /\ (w.failed \/ ~Edge(e, v.gen))
    <3>1. \A m : Timed(q, s, v, m) => Timed(Tail(q), s, w, m) BY <1>1, <1>3, <2>1, TimedTail
    <3>2. QED BY <2>1, <3>1 DEF GoesOn
  <2>2. QED BY <1>3, <2>1
<1>9. ASSUME NEW k \in Lanes
      PROVE  /\ Line(P[k], st[k], d.view[k]) /\ Legs(P[k], st[k])
             /\ \/ GoesOn(Q[k], st[k], c.view[k], P[k], st[k], d.view[k])
                \/ /\ d.view[k].epoch = d.epoch /\ c.epoch < d.epoch
                   /\ \A j \in Lanes \ {k} : d.view[j].epoch = c.view[j].epoch
  <2>1. CASE k = l
    <3>1. Line(P[k], st[k], d.view[k]) /\ Legs(P[k], st[k]) BY <1>1, <1>6, <1>7, <2>1 DEF s, w
    <3>2. CASE GoesOn(q, s, v, Tail(q), s, w)
      <4>1. GoesOn(Q[k], st[k], c.view[k], P[k], st[k], d.view[k])
          BY <1>1, <2>1, <3>2 DEF q, s, v, w
      <4>2. QED BY <3>1, <4>1
    <3>3. CASE w.epoch = d.epoch /\ c.epoch < d.epoch
      <4>1. d.view[k].epoch = d.epoch /\ c.epoch < d.epoch BY <2>1, <3>3 DEF w
      <4>2. \A j \in Lanes \ {k} : d.view[j].epoch = c.view[j].epoch BY <1>3, <2>1
      <4>3. QED BY <3>1, <4>1, <4>2
    <3>4. QED BY <1>8, <3>2, <3>3
  <2>2. CASE k # l
    <3>1. P[k] = Q[k] /\ d.view[k] = c.view[k] BY <1>1, <1>3, <2>2
    <3>2. QED BY <1>4, <3>1, GoesOnSame
  <2>3. QED BY <2>1, <2>2
<1>10. Epochs(S, g, d, P, st, K) BY <1>3, <1>4, <1>9, EpochsKeep
<1>11. QED BY <1>10 DEF P

(* Whatever the collector hears, a lane goes on or begins an epoch: a        *)
(* recovery is heard while the lane is awaited.                              *)
LEMMA HeardNotes ==
    ASSUME NEW g, NEW c \in CollectorOf, NEW d \in CollectorOf, NEW l \in Lanes,
           NEW q \in Seq(Events), q # << >>, NEW s, Line(q, s, c.view[l]),
           Head(q).gen <= c.view[l].gen, HeardIt(g, l, c, d, Head(q)), ~HeardRefused(g, c, d)
    PROVE  Notes(c, d, l, Head(q))
<1> DEFINE e == Head(q)
           v == c.view[l]
           w == d.view[l]
<1>1. /\ v \in ViewOf /\ w \in ViewOf /\ c.epoch \in Nat /\ d.epoch \in Nat /\ v.gen \in Nat
      /\ e \in Events /\ e.gen \in Nat
  <2>1. v \in ViewOf /\ w \in ViewOf /\ c.epoch \in Nat /\ d.epoch \in Nat BY DEF CollectorOf
  <2>2. e \in Events BY HeadTailProperties
  <2> HIDE DEF v, w, e
  <2>3. v.gen \in Nat /\ e.gen \in Nat BY <2>1, <2>2 DEF ViewOf, Events
  <2>4. QED BY <2>1, <2>2, <2>3
<1>2. /\ \A k \in Lanes \ {l} : d.view[k] = c.view[k]
      /\ e.gen <= v.gen
    BY DEF HeardIt
<1>3. \/ Late(c, l, e.gen) /\ d = c
      \/ /\ ~Late(c, l, e.gen)
         /\ \/ e.kind = "connected" /\ HeardConnected(l, c, d)
            \/ e.kind \in {"back", "back late"} /\ HeardBack(l, c, d, e)
            \/ e.kind \in {"lost", "planned"} /\ HeardLost(l, c, d, e)
            \/ e.kind = "word" /\ (HeardRow(g, l, c, d, e) \/ HeardFact(g, l, c, d, e))
            \/ e.kind = "error" /\ HeardError(g, l, c, d)
    BY DEF HeardIt
<1>4. e.kind = "back late" => (e.gen = v.gen => v.failed \/ v.awaiting)
  <2>1. q[1] = e /\ 1 \in 1..Len(q) BY TailIs
  <2>2. "back late" \in Backs BY DEF Backs
  <2>3. Line(q, s, v) OBVIOUS
  <2> HIDE DEF e, v
  <2>4. ASSUME e.kind = "back late"
        PROVE  q[1].gen = v.gen => v.failed \/ v.awaiting
      BY <2>1, <2>2, <2>3, <2>4 DEF Line
  <2>5. QED BY <2>1, <2>4
<1>5. Late(c, l, e.gen) <=> e.gen < v.gen \/ v.failed BY DEF Late
<1> DEFINE Rest == /\ w.gen = v.gen /\ c.epoch <= d.epoch
                   /\ e.kind \in Losses /\ e.gen = v.gen => w.failed \/ w.awaiting
                   /\ \/ w.epoch = v.epoch /\ (v.failed => w.failed) /\ (w.failed \/ ~Edge(e, v.gen))
                      \/ w.epoch = d.epoch /\ c.epoch < d.epoch
<1>6. ASSUME Late(c, l, e.gen) /\ d = c
       PROVE  Rest
  <2>1. w = v BY <1>6
  <2> HIDE DEF v, w, e
  <2>2. c.epoch <= d.epoch /\ (e.gen = v.gen => v.failed) BY <1>1, <1>5, <1>6
  <2>3. QED BY <2>1, <2>2, Zenon DEF Edge
<1>7. ASSUME ~Late(c, l, e.gen) PROVE e.gen = v.gen /\ ~v.failed
  <2> HIDE DEF v, e
  <2>1. QED BY <1>1, <1>2, <1>5, <1>7
<1>8. ASSUME ~Late(c, l, e.gen) /\ e.kind = "connected" /\ HeardConnected(l, c, d)
       PROVE  Rest
  <2>1. w = [v EXCEPT !.connected = TRUE, !.awaiting = FALSE] /\ d.epoch = c.epoch
      BY <1>8 DEF HeardConnected, Kept
  <2>2. e.kind \notin Losses /\ ~Edge(e, v.gen) BY <1>8 DEF Losses, Edge
  <2> HIDE DEF v, w, e
  <2>3. w.gen = v.gen /\ w.epoch = v.epoch /\ w.failed = v.failed /\ c.epoch <= d.epoch
      BY <1>1, <2>1 DEF ViewOf
  <2>4. QED BY <2>2, <2>3, Zenon
<1>9. ASSUME ~Late(c, l, e.gen) /\ e.kind \in {"back", "back late"} /\ HeardBack(l, c, d, e)
       PROVE  Rest
  <2> DEFINE late == v.awaiting /\ e.kind = "back late"
  <2>1. /\ w = [v EXCEPT !.awaiting = FALSE, !.epoch = IF late THEN c.epoch + 1 ELSE @]
        /\ d.epoch = IF late THEN c.epoch + 1 ELSE c.epoch
      BY <1>9 DEF HeardBack
  <2>2. e.kind \notin Losses BY <1>9 DEF Losses
  <2>3. e.gen = v.gen /\ ~v.failed BY <1>7, <1>9
  <2>4. late \/ e.kind = "back" BY <1>4, <1>9, <2>3
  <2>5. e.kind = "back" => ~late /\ ~Edge(e, v.gen) BY DEF Edge
  <2> HIDE DEF v, w, e, late
  <2>6. ASSUME late PROVE Rest
    <3>1. w.gen = v.gen /\ w.epoch = d.epoch /\ c.epoch < d.epoch /\ c.epoch <= d.epoch
        BY <1>1, <2>1, <2>6 DEF ViewOf
    <3>2. QED BY <2>2, <3>1, Zenon
  <2>7. ASSUME ~late PROVE Rest
    <3>1. w.gen = v.gen /\ w.epoch = v.epoch /\ w.failed = v.failed /\ c.epoch <= d.epoch
        BY <1>1, <2>1, <2>7 DEF ViewOf
    <3>2. QED BY <2>2, <2>4, <2>5, <2>7, <3>1, Zenon
  <2>8. QED BY <2>6, <2>7
<1>10. ASSUME ~Late(c, l, e.gen) /\ e.kind \in {"lost", "planned"} /\ HeardLost(l, c, d, e)
       PROVE  Rest
  <2>1. w = [v EXCEPT !.awaiting = TRUE, !.connected = @ /\ e.kind = "planned"] /\ d.epoch = c.epoch
      BY <1>10 DEF HeardLost, Kept
  <2>2. ~Edge(e, v.gen) BY <1>10 DEF Edge
  <2> HIDE DEF v, w, e
  <2>3. w.gen = v.gen /\ w.epoch = v.epoch /\ w.failed = v.failed /\ w.awaiting /\ c.epoch <= d.epoch
      BY <1>1, <2>1 DEF ViewOf
  <2>4. QED BY <2>2, <2>3, Zenon
<1>11. ASSUME ~Late(c, l, e.gen) /\ e.kind = "word"
              /\ (HeardRow(g, l, c, d, e) \/ HeardFact(g, l, c, d, e))
       PROVE  Rest
  <2>1. d.view = c.view /\ d.epoch = c.epoch BY <1>11 DEF HeardRow, HeardFact
  <2>2. w = v BY <2>1
  <2>3. e.kind \notin Losses /\ ~Edge(e, v.gen) BY <1>11 DEF Losses, Edge
  <2> HIDE DEF v, w, e
  <2>4. c.epoch <= d.epoch BY <1>1, <2>1
  <2>5. QED BY <2>2, <2>3, <2>4, Zenon
<1>12. ASSUME ~Late(c, l, e.gen) /\ e.kind = "error" /\ HeardError(g, l, c, d)
       PROVE  Rest
  <2>1. w = [v EXCEPT !.connected = FALSE, !.failed = TRUE] /\ d.epoch = c.epoch
      BY <1>12 DEF HeardError, Kept
  <2> HIDE DEF v, w, e
  <2>2. w.gen = v.gen /\ w.epoch = v.epoch /\ w.failed /\ c.epoch <= d.epoch
      BY <1>1, <2>1 DEF ViewOf
  <2>3. QED BY <2>2, Zenon
<1>13. Rest BY <1>3, <1>6, <1>8, <1>9, <1>10, <1>11, <1>12, Zenon
<1> HIDE DEF Rest
<1>14. QED BY <1>2, <1>13, Zenon DEF Notes, Rest

(* A word that is written.                                                   *)
LEMMA EpochsWritten ==
    ASSUME NEW S, S \subseteq FactOf, NEW g, NEW c \in CollectorOf, NEW d \in CollectorOf, NEW l \in Lanes,
           NEW Q \in [Lanes -> Seq(Events)], NEW st \in [Lanes -> StreamOf], NEW K, NEW w,
           Epochs(S, g, c, Q, st, K), Distinct(S), Q[l] # << >>,
           Heads(w, g, l, c, Head(Q[l])), Notes(c, d, l, Head(Q[l])), d.view = c.view
    PROVE  Distinct(S \cup {w}) /\ Epochs(S \cup {w}, g, d, [Q EXCEPT ![l] = Tail(@)], st, K)
<1> DEFINE P == [Q EXCEPT ![l] = Tail(@)]
           e == Head(Q[l])
<1>1. Q[l] \in Seq(Events) /\ P[l] = Tail(Q[l]) OBVIOUS
<1>2. Writes(S, g, c, Q, st, K, l, Events, w) BY <1>1 DEF Writes
<1>3. Distinct(S \cup {w}) BY <1>2, DistinctAdd
<1>4. Epochs(S, g, d, P, st, K) BY EpochsHeard
<1>5. \A k \in Lanes : (k # l /\ c.view[k].epoch = w.epoch) => w.from = <<0, 0>>
  <2>1. Agrees(S, g, c, Q, st, l, w) BY <1>2, HeadsAre
  <2>2. QED BY <2>1 DEF Agrees
<1>6. Carries(Tail(Q[l]), st[l], 0, <<e.gen, e.leg>>)
  <2>1. Legs(Q[l], st[l]) /\ e.kind = "word" BY DEF Epochs, Heads
  <2> DEFINE q == Q[l]
  <2> HIDE DEF q
  <2>2. q \in Seq(Events) /\ q # << >> /\ Legs(q, st[l]) BY <1>1, <2>1 DEF q
  <2>3. /\ Legs(Tail(q), st[l])
        /\ Head(q).kind = "word" => Carries(Tail(q), st[l], 0, <<Head(q).gen, Head(q).leg>>)
      BY <2>2, LegsTail
  <2>4. QED BY <2>1, <2>3 DEF q
<1>7. /\ w.group = g /\ w.lane = l /\ w.epoch = c.view[l].epoch /\ w.from = <<e.gen, e.leg>>
      /\ e.gen = c.view[l].gen
    BY DEF Heads
<1>8. Timed(P[l], st[l], d.view[l], w.from)
  <2> HIDE DEF P, e
  <2>1. w.from[1] = d.view[l].gen BY <1>7
  <2>2. Carries(P[l], st[l], 0, w.from) BY <1>1, <1>6, <1>7
  <2>3. QED BY <2>1, <2>2, Zenon DEF Timed
<1> HIDE DEF P, e
<1>9. Adds(w, g, l, d, P, st) BY <1>5, <1>7, <1>8 DEF Adds
<1>10. Epochs(S \cup {w}, g, d, P, st, K) BY <1>4, <1>9, EpochsAdd
<1>11. QED BY <1>3, <1>10 DEF P

(* The queue of a lane whose generation is told.                             *)
LEMMA RevivedTold ==
    ASSUME NEW b \in CollectorOf, NEW l \in Lanes, NEW gen \in Nat
    PROVE  Revived(b, l, gen) \in CollectorOf /\ gen <= Revived(b, l, gen).view[l].gen
<1>1. b.view[l] \in ViewOf /\ b.view[l].gen \in Nat BY DEF CollectorOf, ViewOf
<1>2. CASE gen <= b.view[l].gen BY <1>2, RevivedSame
<1>3. CASE gen > b.view[l].gen
  <2> DEFINE d == Revived(b, l, gen)
             v == b.view[l]
  <2>1. /\ d \in CollectorOf
        /\ d.view[l] = [v EXCEPT !.gen = gen, !.failed = FALSE, !.epoch = b.epoch + 1]
    <3>1. /\ d \in CollectorOf
          /\ \A k \in Lanes \ {l} : d.view[k] = b.view[k]
          /\ d.at = b.at /\ d.next = b.next /\ d.final = b.final /\ d.since = b.since
          /\ d.epoch = b.epoch + 1
          /\ d.view[l] = [b.view[l] EXCEPT !.gen = gen, !.failed = FALSE,
                                            !.epoch = b.epoch + 1]
        BY <1>3, RevivedNew
    <3>2. QED BY <3>1
  <2> HIDE DEF d, v
  <2>2. v \in ViewOf BY <1>1 DEF v
  <2>3. d.view[l].gen = gen BY <2>1, <2>2 DEF ViewOf
  <2>4. QED BY <2>1, <2>3 DEF d
<1>4. QED BY <1>1, <1>2, <1>3

(* What is written is what is heard.                                         *)
LEMMA HeardWrites ==
    ASSUME NEW g, NEW c \in CollectorOf, NEW d, NEW l \in Lanes, NEW e, e.gen \in Nat,
           e.gen <= c.view[l].gen, HeardIt(g, l, c, d, e), ~HeardRefused(g, c, d)
    PROVE  \/ said' = said
           \/ \E w : said' = said \cup {w} /\ Heads(w, g, l, c, e) /\ d.view = c.view
<1>1. CASE Late(c, l, e.gen) /\ d = c /\ Told BY <1>1 DEF Told
<1>2. ASSUME ~Late(c, l, e.gen), e.kind = "word", NEW n, said' = said \cup {Word(g, l, c, e, n)},
             d.view = c.view, e.gen <= c.view[l].gen
      PROVE  \E w : said' = said \cup {w} /\ Heads(w, g, l, c, e) /\ d.view = c.view
  <2> DEFINE w == Word(g, l, c, e, n)
             k == c.view[l].gen
  <2>1. w.group = g /\ w.lane = l /\ w.epoch = c.view[l].epoch /\ w.from = <<e.gen, e.leg>>
      BY DEF Word
  <2>2. k \in Nat BY DEF CollectorOf, ViewOf
  <2>3. ~(e.gen < k) /\ ~c.view[l].failed BY <1>2 DEF Late
  <2> HIDE DEF w, k
  <2>4. e.gen = c.view[l].gen BY <1>2, <2>2, <2>3 DEF k
  <2>5. Heads(w, g, l, c, e) BY <1>2, <2>1, <2>3, <2>4 DEF Heads
  <2>6. said' = said \cup {w} BY <1>2 DEF w
  <2>7. QED BY <1>2, <2>5, <2>6
<1>3. CASE ~Late(c, l, e.gen) /\ e.kind = "word" /\ HeardRow(g, l, c, d, e)
  <2>1. said' = said \cup {Word(g, l, c, e, c.next)} /\ d.view = c.view BY <1>3 DEF HeardRow
  <2>2. QED BY <1>2, <1>3, <2>1
<1>4. CASE ~Late(c, l, e.gen) /\ e.kind = "word" /\ HeardFact(g, l, c, d, e)
  <2>1. said' = said \cup {Word(g, l, c, e, 0)} /\ d.view = c.view BY <1>4 DEF HeardFact
  <2>2. QED BY <1>2, <1>4, <2>1
<1>5. CASE ~Late(c, l, e.gen) /\ e.kind \in {"connected", "back", "back late", "lost", "planned", "error"}
           /\ (HeardConnected(l, c, d) \/ HeardBack(l, c, d, e) \/ HeardLost(l, c, d, e)
               \/ HeardError(g, l, c, d))
    BY <1>5 DEF HeardConnected, HeardBack, HeardLost, HeardError, Told
<1>6. QED BY <1>1, <1>3, <1>4, <1>5 DEF HeardIt

(* Whatever the collector hears and writes, an epoch is one timeline.        *)
LEMMA EpochHears ==
    ASSUME WriterInv, Sole, OneLine, NEW g \in Groups, NEW l \in Lanes, Hear(g, l)
    PROVE  OneLine'
<1>1. Typed BY DEF WriterInv
<1>2. PICK e \in Events : \E d \in CollectorOf : HeardAct(g, l, e, d) BY <1>1, HearIs
<1>3. PICK d \in CollectorOf : HeardAct(g, l, e, d) BY <1>2
<1>4. /\ inbox \in [Groups -> [Lanes -> Seq(Events)]] /\ col \in [Groups -> CollectorOf]
      /\ stream \in [Lanes -> StreamOf] /\ said \subseteq FactOf /\ e.gen \in Nat
    BY <1>1 DEF Typed, Events
<1> DEFINE b == col[g]
           n == e.gen
           c == Revived(b, l, n)
           Q == inbox[g]
           K == cuts[g]
           P == [Q EXCEPT ![l] = Tail(@)]
<1>5. /\ b.at = "run" /\ Q[l] # << >> /\ e = Head(Q[l])
      /\ inbox' = [inbox EXCEPT ![g][l] = Tail(@)] /\ col' = [col EXCEPT ![g] = d]
      /\ HeardIt(g, l, c, d, e)
      /\ opened' = opened /\ stream' = stream /\ cuts' = cuts
    BY <1>3 DEF HeardAct
<1>6. g = opened BY <1>5 DEF Sole, Alone, Writing
<1>7. /\ inbox'[g] = P /\ col'[g] = d /\ \A h \in Groups : h # g => inbox'[h] = inbox[h]
      /\ \A h \in Groups : h > g => h # g
    BY <1>4, <1>5 DEF Groups
<1>8. Unused' BY <1>5, <1>6, <1>7 DEF OneLine, Unused
<1>9. Epochs(said, g, b, Q, stream, K)
  <2>1. Attentive BY <1>4, <1>5, <1>6 DEF Attentive, Groups, None
  <2>2. QED BY <1>6, <2>1 DEF OneLine, Timelines
<1>10. b \in CollectorOf /\ Q \in [Lanes -> Seq(Events)] /\ n \in Nat BY <1>4
<1>11. n <= stream[l].gen
  <2>1. Line(Q[l], stream[l], b.view[l]) BY <1>9 DEF Epochs
  <2>2. Q[l] \in Seq(Events) BY <1>10
  <2>3. 1 \in 1..Len(Q[l]) /\ Q[l][1] = e BY <1>5, <2>2, TailIs
  <2>4. QED BY <2>1, <2>3 DEF Line
<1> HIDE DEF b, n, Q, K
<1>12. Epochs(said, g, c, Q, stream, K) BY <1>4, <1>9, <1>10, <1>11, EpochsRevived
<1>13. c \in CollectorOf /\ n <= c.view[l].gen BY <1>10, RevivedTold
<1> HIDE DEF c
<1>14. CASE HeardRefused(g, c, d)
  <2>1. d.at = "settling" /\ said' = said BY <1>10, <1>14 DEF HeardRefused, CollectorOf, b
  <2>2. ~Attentive' BY <1>5, <1>6, <1>7, <2>1 DEF Attentive
  <2>3. Distinct(said)' /\ Heeded' BY <1>5, <2>1 DEF OneLine, Distinct, Heeded
  <2>4. QED BY <1>8, <2>2, <2>3 DEF OneLine
<1>15. CASE ~HeardRefused(g, c, d)
  <2>1. Q[l] \in Seq(Events) /\ Line(Q[l], stream[l], c.view[l]) /\ Head(Q[l]).gen <= c.view[l].gen
      BY <1>5, <1>10, <1>12, <1>13 DEF Epochs, n
  <2>2. Notes(c, d, l, e)
    <3> DEFINE q == Q[l]
    <3> HIDE DEF q
    <3>1. /\ q \in Seq(Events) /\ q # << >> /\ e = Head(q) /\ Line(q, stream[l], c.view[l])
          /\ Head(q).gen <= c.view[l].gen
        BY <1>5, <2>1 DEF q
    <3>2. Notes(c, d, l, Head(q)) BY <1>5, <1>13, <1>15, <3>1, HeardNotes
    <3>3. QED BY <3>1, <3>2
  <2>3. \/ said' = said
        \/ \E w : said' = said \cup {w} /\ Heads(w, g, l, c, e) /\ d.view = c.view
      BY <1>4, <1>5, <1>13, <1>15, HeardWrites DEF n
  <2>4. Distinct(said) BY DEF OneLine
  <2>5. Distinct(said') /\ Epochs(said', g, d, P, stream, K) /\ Heeded'
    <3>1. CASE said' = said
      <4>1. Epochs(said, g, d, P, stream, K)
          BY <1>4, <1>5, <1>10, <1>12, <1>13, <2>2, EpochsHeard
      <4>2. QED BY <1>5, <2>4, <3>1, <4>1 DEF OneLine, Heeded
    <3>2. ASSUME NEW w, said' = said \cup {w}, Heads(w, g, l, c, e), d.view = c.view
          PROVE  Distinct(said') /\ Epochs(said', g, d, P, stream, K) /\ Heeded'
      <4>1. Distinct(said \cup {w}) /\ Epochs(said \cup {w}, g, d, P, stream, K)
          BY <1>4, <1>5, <1>10, <1>12, <1>13, <2>2, <2>4, <3>2, EpochsWritten
      <4>2. w.group = opened /\ opened <= opened BY <1>1, <1>6, <3>2 DEF Heads, Groups
      <4>3. Heeded' BY <1>5, <3>2, <4>2 DEF OneLine, Heeded
      <4>4. QED BY <3>2, <4>1, <4>3
    <3>3. QED BY <2>3, <3>1, <3>2
  <2>6. Timelines' BY <1>5, <1>6, <1>7, <2>5 DEF Timelines, K
  <2>7. Distinct(said)' BY <2>5 DEF Distinct
  <2>8. QED BY <1>8, <2>5, <2>6, <2>7 DEF OneLine
<1>16. QED BY <1>14, <1>15

(* It writes nothing more, whatever is still on its way to it.               *)
LEMMA EpochsCut ==
    ASSUME NEW S, S \subseteq FactOf, NEW g, NEW c \in CollectorOf, NEW d \in CollectorOf, NEW l \in Lanes,
           NEW Q \in [Lanes -> Seq(Events)], NEW st \in [Lanes -> StreamOf], NEW K, NEW J,
           Epochs(S, g, c, Q, st, K), J \subseteq K, CutOff(l, c, d)
    PROVE  Epochs(S, g, d, Q, st, J)
<1> DEFINE q == Q[l]
           s == st[l]
           v == c.view[l]
           w == d.view[l]
<1>1. /\ v \in ViewOf /\ v.gen \in Nat /\ s.gen \in Nat
      /\ \A i \in 1..Len(q) : q[i].gen \in Nat
  <2>1. \A x \in Events : x.gen \in Nat BY DEF Events
  <2>2. Q[l] \in Seq(Events) OBVIOUS
  <2>3. \A i \in 1..Len(Q[l]) : Q[l][i] \in Events BY <2>2, ElementOfSeq
  <2>4. v \in ViewOf /\ v.gen \in Nat /\ s.gen \in Nat BY DEF CollectorOf, ViewOf, StreamOf
  <2>5. QED BY <2>1, <2>3, <2>4
<1>2. /\ \A k \in Lanes : Line(Q[k], st[k], c.view[k]) /\ Legs(Q[k], st[k])
      /\ \A k \in Lanes, cut \in K : cut.lane = k => cut.gen <= st[k].gen
    BY DEF Epochs
<1>3. Line(q, s, v) /\ v.gen <= s.gen
  <2>1. Line(Q[l], st[l], c.view[l]) BY <1>2
  <2>2. QED BY <2>1 DEF Line
<1>4. /\ w = v \/ w = [v EXCEPT !.connected = FALSE, !.failed = TRUE]
      /\ d.epoch = c.epoch /\ \A k \in Lanes \ {l} : d.view[k] = c.view[k]
    BY DEF CutOff
<1> HIDE DEF q, s, v, w
<1>5. w.gen = v.gen /\ w.epoch = v.epoch /\ (v.failed => w.failed) /\ (w = v \/ w.failed)
    BY <1>1, <1>4 DEF ViewOf
<1>6. Line(q, s, w)
  <2>1. CASE w = v BY <1>3, <2>1
  <2>2. CASE w.failed
    <3>1. w.gen \in Nat /\ v.gen <= w.gen /\ w.gen <= s.gen BY <1>1, <1>3, <1>5
    <3>2. QED BY <1>1, <1>3, <2>2, <3>1, LineView
  <2>3. QED BY <1>5, <2>1, <2>2
<1>7. GoesOn(q, s, v, q, s, w)
  <2>1. \A m : Timed(q, s, v, m) => Timed(q, s, w, m) BY <1>5, TimedView
  <2>2. QED BY <1>5, <2>1 DEF GoesOn
<1>8. ASSUME NEW k \in Lanes
      PROVE  /\ Line(Q[k], st[k], d.view[k]) /\ Legs(Q[k], st[k])
             /\ GoesOn(Q[k], st[k], c.view[k], Q[k], st[k], d.view[k])
  <2>1. CASE k = l BY <1>2, <1>6, <1>7, <2>1 DEF q, s, v, w
  <2>2. CASE k # l
    <3>1. d.view[k] = c.view[k] BY <1>4, <2>2
    <3>2. QED BY <1>2, <3>1, GoesOnSame
  <2>3. QED BY <2>1, <2>2
<1>9. \A k \in Lanes, cut \in J : cut.lane = k => cut.gen <= st[k].gen BY <1>2
<1>10. c.epoch <= d.epoch BY <1>4 DEF CollectorOf
<1>11. QED BY <1>8, <1>9, <1>10, EpochsKeep

(* A discontinuity overtakes the words of its lane: they are of a lane that  *)
(* has ended.                                                                *)
LEMMA EpochCuts ==
    ASSUME WriterInv, Sole, OneLine, NEW g \in Groups, NEW l \in Lanes, HearCut(g, l)
    PROVE  OneLine'
<1>1. Typed BY DEF WriterInv
<1>2. PICK cut \in CutOf, d \in CollectorOf : CutAct(g, l, cut, d) BY <1>1, HearCutIs
<1>3. /\ inbox \in [Groups -> [Lanes -> Seq(Events)]] /\ col \in [Groups -> CollectorOf]
      /\ cuts \in [Groups -> SUBSET CutOf]
      /\ stream \in [Lanes -> StreamOf] /\ said \subseteq FactOf /\ cut.gen \in Nat
    BY <1>1 DEF Typed, CutOf
<1> DEFINE b == col[g]
           n == cut.gen
           c == Revived(b, l, n)
           Q == inbox[g]
           K == cuts[g]
           J == K \ {cut}
<1>4. /\ b.at = "run" /\ cut \in K /\ cut.lane = l
      /\ cuts' = [cuts EXCEPT ![g] = @ \ {cut}] /\ col' = [col EXCEPT ![g] = d]
      /\ CutOff(l, c, d)
      /\ opened' = opened /\ stream' = stream /\ inbox' = inbox /\ said' = said
    BY <1>2 DEF CutAct, Kept, CutOff
<1>5. g = opened BY <1>4 DEF Sole, Alone, Writing
<1>6. /\ cuts'[g] = J /\ col'[g] = d /\ \A h \in Groups : h # g => cuts'[h] = cuts[h]
      /\ \A h \in Groups : h > g => h # g
    BY <1>3, <1>4 DEF Groups
<1>7. Unused' /\ Distinct(said)' /\ Heeded'
    BY <1>4, <1>5, <1>6 DEF OneLine, Unused, Distinct, Heeded
<1>8. Epochs(said, g, b, Q, stream, K)
  <2>1. Attentive BY <1>3, <1>4, <1>5 DEF Attentive, Groups, None
  <2>2. QED BY <1>5, <2>1 DEF OneLine, Timelines
<1>9. b \in CollectorOf /\ Q \in [Lanes -> Seq(Events)] /\ n \in Nat BY <1>3
<1>10. n <= stream[l].gen BY <1>4, <1>8 DEF Epochs
<1> HIDE DEF b, n, Q, K
<1>11. Epochs(said, g, c, Q, stream, K) BY <1>3, <1>8, <1>9, <1>10, EpochsRevived
<1>12. c \in CollectorOf BY <1>9, RevivedTold
<1> HIDE DEF c
<1>13. J \subseteq K OBVIOUS
<1> HIDE DEF J
<1>14. Epochs(said, g, d, Q, stream, J) BY <1>3, <1>4, <1>9, <1>11, <1>12, <1>13, EpochsCut
<1>15. Timelines' BY <1>4, <1>5, <1>6, <1>14 DEF Timelines, Q
<1>16. QED BY <1>7, <1>15 DEF OneLine

-----------------------------------------------------------------------------
(* Nothing that is on its way changes.                                       *)
LEMMA FollowsLine ==
    ASSUME NEW q, NEW s, NEW r, NEW v, Line(q, s, v), Legs(q, s), Follows(s, r),
           s.gen \in Nat, v.gen \in Nat, \A i \in 1..Len(q) : q[i].gen \in Nat
    PROVE  /\ Line(q, r, v) /\ Legs(q, r) /\ GoesOn(q, s, v, q, r, v)
           /\ s.gen <= r.gen
<1>1. CASE /\ r.gen = s.gen /\ r.leg = s.leg
           /\ r.again /\ r.phase = "dial" => s.again /\ s.phase = "dial"
  <2>1. Line(q, r, v) /\ Legs(q, r) /\ \A m : Timed(q, s, v, m) => Timed(q, r, v, m)
      BY <1>1, LineSame
  <2>2. s.gen <= r.gen BY <1>1
  <2>3. QED BY <2>1, <2>2 DEF GoesOn
<1>2. CASE r.gen = s.gen + 1 /\ ~r.again
  <2>1. Line(q, r, v) /\ Legs(q, r) /\ \A m : Timed(q, s, v, m) => Timed(q, r, v, m)
      BY <1>2, LineReplaced
  <2>2. s.gen <= r.gen BY <1>2
  <2>3. QED BY <2>1, <2>2 DEF GoesOn
<1>3. QED BY <1>1, <1>2 DEF Follows

(* Nor does what is known of the epochs; the cuts name the connection that   *)
(* was there.                                                                *)
LEMMA EpochsFollow ==
    ASSUME NEW S, S \subseteq FactOf, NEW g, NEW c \in CollectorOf,
           NEW Q \in [Lanes -> Seq(Events)], NEW st \in [Lanes -> StreamOf], NEW sr, NEW J,
           NEW K, \A cut \in K : cut.gen \in Nat,
           Epochs(S, g, c, Q, st, K), \A l \in Lanes : sr[l].gen \in Nat /\ Follows(st[l], sr[l]),
           \A l \in Lanes, cut \in J : cut.lane = l => cut \in K \/ cut.gen = st[l].gen
    PROVE  Epochs(S, g, c, Q, sr, J)
<1>1. /\ \A k \in Lanes : Line(Q[k], st[k], c.view[k]) /\ Legs(Q[k], st[k])
      /\ \A k \in Lanes, cut \in K : cut.lane = k => cut.gen <= st[k].gen
    BY DEF Epochs
<1>2. ASSUME NEW k \in Lanes
      PROVE  /\ Line(Q[k], sr[k], c.view[k]) /\ Legs(Q[k], sr[k])
             /\ GoesOn(Q[k], st[k], c.view[k], Q[k], sr[k], c.view[k])
             /\ st[k].gen <= sr[k].gen
  <2> DEFINE q == Q[k]
             s == st[k]
             r == sr[k]
             v == c.view[k]
  <2>1. s.gen \in Nat /\ v.gen \in Nat BY DEF StreamOf, CollectorOf, ViewOf
  <2>2. \A i \in 1..Len(q) : q[i].gen \in Nat
    <3>1. \A x \in Events : x.gen \in Nat BY DEF Events
    <3>2. Q[k] \in Seq(Events) OBVIOUS
    <3>3. \A i \in 1..Len(Q[k]) : Q[k][i] \in Events BY <3>2, ElementOfSeq
    <3>4. QED BY <3>1, <3>3
  <2>3. Line(q, s, v) /\ Legs(q, s) /\ Follows(s, r) BY <1>1
  <2> HIDE DEF q, s, r, v
  <2>4. Line(q, r, v) /\ Legs(q, r) /\ GoesOn(q, s, v, q, r, v) /\ s.gen <= r.gen
      BY <2>1, <2>2, <2>3, FollowsLine
  <2>5. QED BY <2>4 DEF q, s, r, v
<1>3. ASSUME NEW k \in Lanes, NEW cut \in J, cut.lane = k
      PROVE  cut.gen <= sr[k].gen
  <2>1. st[k].gen <= sr[k].gen /\ st[k].gen \in Nat /\ sr[k].gen \in Nat BY <1>2 DEF StreamOf
  <2>2. CASE cut \in K
    <3>1. cut.gen <= st[k].gen /\ cut.gen \in Nat BY <1>1, <1>3, <2>2
    <3>2. QED BY <2>1, <3>1
  <2>3. CASE cut.gen = st[k].gen BY <2>1, <2>3
  <2>4. QED BY <1>3, <2>2, <2>3
<1>4. c.epoch <= c.epoch BY DEF CollectorOf
<1>5. QED BY <1>2, <1>3, <1>4, EpochsKeep

(* This is what stopping, forgiving and replacing lanes do.                  *)
LEMMA OwnerFollows ==
    ASSUME Typed, NEW dead, NEW lanes, NEW next, NEW l \in Lanes
    PROVE  /\ Follows(stream[l], stream[l]) /\ Follows(stream[l], Stopped(dead)[l])
           /\ Follows(stream[l], Replaced(Stopped(dead), lanes, next)[l])
           /\ Follows(stream[l], Replaced(Forgiven(Stopped(dead)), lanes, next)[l])
<1> DEFINE s == stream[l]
           a == Stopped(dead)[l]
           f == Forgiven(Stopped(dead))[l]
<1>1. s \in StreamOf BY DEF Typed
<1>2. /\ a = s \/ a = [s EXCEPT !.stopped = TRUE]
      /\ f = [a EXCEPT !.restarts = 0]
    BY DEF Stopped, Forgiven
<1>3. \A x : \/ Replaced(x, lanes, next)[l] = x[l]
             \/ Replaced(x, lanes, next)[l] = Stream(next, x[l].gen + 1, x[l].restarts + 1)
    BY DEF Replaced
<1>4. \A gen, n : Stream(next, gen, n).gen = gen /\ ~Stream(next, gen, n).again BY DEF Stream
<1> HIDE DEF s, a, f
<1>5. a.gen = s.gen /\ a.leg = s.leg /\ a.again = s.again /\ a.phase = s.phase /\ a \in StreamOf
    BY <1>1, <1>2 DEF StreamOf
<1>6. f.gen = s.gen /\ f.leg = s.leg /\ f.again = s.again /\ f.phase = s.phase
    BY <1>2, <1>5 DEF StreamOf
<1>7. Follows(s, s) /\ Follows(s, a) /\ Follows(s, f) BY <1>5, <1>6 DEF Follows
<1>8. /\ \A n : Follows(s, Stream(next, a.gen + 1, n))
      /\ \A n : Follows(s, Stream(next, f.gen + 1, n))
    BY <1>4, <1>5, <1>6 DEF Follows
<1>9. QED BY <1>3, <1>7, <1>8 DEF s, a, f

(* The words of a replacement are of a generation of its own.                *)
LEMMA OwnsKeeps ==
    ASSUME WriterInv, OneLine, Owns, \A l \in Lanes : stream'[l].gen \in Nat
    PROVE  OneLine'
<1>1. Typed /\ Commands BY DEF WriterInv
<1>2. /\ opened' = opened /\ said' = said /\ inbox' = inbox /\ col' = col
      /\ \A l \in Lanes : Follows(stream[l], stream'[l])
    BY DEF Owns
<1>3. /\ \A h \in Groups : h # opened => cuts'[h] = cuts[h]
      /\ \A l \in Lanes, cut \in cuts'[opened] :
            opened # None /\ cut.lane = l => cut \in cuts[opened] \/ cut.gen = stream[l].gen
  <2>1. CASE cuts' = cuts BY <2>1
  <2>2. CASE \E dead \in SUBSET Aux : Cut(dead) /\ remote # None
    <3>1. PICK dead \in SUBSET Aux : Cut(dead) /\ remote # None BY <2>2
    <3>2. remote = opened /\ remote \in Groups /\ cuts \in [Groups -> SUBSET CutOf]
        BY <1>1, <3>1 DEF Commands, Typed, TypeOK, Groups, None
    <3> DEFINE N == {[lane |-> l, gen |-> stream[l].gen] : l \in dead}
    <3>3. \A cut \in N : cut.gen = stream[cut.lane].gen OBVIOUS
    <3>4. cuts' = [cuts EXCEPT ![opened] = @ \cup N] BY <3>1, <3>2 DEF Cut
    <3> HIDE DEF N
    <3>5. cuts'[opened] = cuts[opened] \cup N /\ \A h \in Groups : h # opened => cuts'[h] = cuts[h]
        BY <3>2, <3>4
    <3>6. QED BY <3>3, <3>5
  <2>3. QED BY <2>1, <2>2 DEF Owns
<1>4. Distinct(said)' /\ Heeded' BY <1>2 DEF OneLine, Distinct, Heeded
<1>5. Unused'
  <2>1. \A h \in Groups : h > opened => h # opened BY <1>1 DEF Groups
  <2>2. QED BY <1>2, <1>3, <2>1 DEF OneLine, Unused
<1>6. ASSUME Attentive' PROVE Timelines'
  <2>1. Attentive BY <1>2, <1>6 DEF Attentive
  <2>2. opened \in Groups /\ opened # None
      BY <1>1, <2>1 DEF Attentive, Typed, TypeOK, Groups, None
  <2>3. /\ said \subseteq FactOf /\ col[opened] \in CollectorOf
        /\ inbox[opened] \in [Lanes -> Seq(Events)] /\ stream \in [Lanes -> StreamOf]
      BY <1>1, <2>2 DEF Typed
  <2>4. Epochs(said, opened, col[opened], inbox[opened], stream, cuts[opened])
      BY <2>1 DEF OneLine, Timelines
  <2>5. \A l \in Lanes, cut \in cuts'[opened] :
           cut.lane = l => cut \in cuts[opened] \/ cut.gen = stream[l].gen
      BY <1>3, <2>2
  <2> DEFINE sr == stream'
             J == cuts'[opened]
             K == cuts[opened]
             Q == inbox[opened]
             c == col[opened]
  <2>6. \A l \in Lanes : sr[l].gen \in Nat /\ Follows(stream[l], sr[l]) BY <1>2
  <2>7. \A cut \in K : cut.gen \in Nat BY <1>1, <2>2 DEF Typed, CutOf
  <2> HIDE DEF sr, J, K, Q, c
  <2>8. Epochs(said, opened, c, Q, sr, J)
      BY <2>3, <2>4, <2>5, <2>6, <2>7, EpochsFollow DEF J, K, Q, c
  <2>9. QED BY <1>2, <2>8 DEF Timelines, sr, J, Q, c
<1>7. QED BY <1>4, <1>5, <1>6 DEF OneLine

(* Generations are numbers.                                                  *)
LEMMA GenIsNat ==
    ASSUME Typed
    PROVE  \A l \in Lanes : stream[l].gen \in Nat
    BY DEF Typed, StreamOf

(* Audio and controls stop lanes, and replace them.                          *)
LEMMA EpochOwner ==
    ASSUME WriterInv, WriterInv', OneLine, Push \/ Pause("pause") \/ Pause("resume") \/ Reopen
    PROVE  OneLine'
<1>1. Typed /\ \A l \in Lanes : stream'[l].gen \in Nat
  <2>1. Typed /\ Typed' BY DEF WriterInv
  <2>2. \A l \in Lanes : stream'[l].gen \in Nat BY <2>1, GenIsNat DEF Typed, StreamOf
  <2>3. QED BY <2>1, <2>2
<1>2. UNCHANGED <<opened, said, inbox, col>> BY DEF Push, Pause, Reopen, record
<1>3. \/ stream' = stream /\ cuts' = cuts
      \/ /\ remote # None
         /\ \E dead \in SUBSET Aux :
              /\ Cut(dead)
              /\ \/ stream' = Stopped(dead)
                 \/ \E lanes, next : \/ stream' = Replaced(Stopped(dead), lanes, next)
                                     \/ stream' = Replaced(Forgiven(Stopped(dead)), lanes, next)
  <2>1. CASE Push
    <3>1. CASE UNCHANGED <<stream, cuts>> BY <3>1
    <3>2. ASSUME remote # None, NEW wedged \in SUBSET Lanes, FanOut(wedged)
          PROVE  \/ stream' = stream /\ cuts' = cuts
                 \/ \E dead \in SUBSET Aux :
                      /\ Cut(dead)
                      /\ \/ stream' = Stopped(dead)
                         \/ \E lanes, next : stream' = Replaced(Stopped(dead), lanes, next)
      <4> DEFINE dead == {l \in Aux : Refuses(l, wedged)}
      <4>1. dead \in SUBSET Aux OBVIOUS
      <4>2. \/ UNCHANGED <<stream, cuts>>
            \/ stream' = Stopped(dead) /\ Cut(dead)
            \/ Cut(dead) /\ \E lanes \in SUBSET Aux : stream' = Replaced(Stopped(dead), lanes, pushed + 2)
          BY <3>2 DEF FanOut
      <4> HIDE DEF dead
      <4>3. QED BY <4>1, <4>2
    <3>3. QED BY <2>1, <3>1, <3>2 DEF Push
  <2>2. CASE Pause("pause") \/ Pause("resume")
    <3>1. CASE UNCHANGED <<stream, cuts>> BY <3>1
    <3>2. ASSUME remote # None, NEW op, NEW wedged \in SUBSET Lanes, Control(op, wedged)
          PROVE  \/ stream' = stream /\ cuts' = cuts
                 \/ \E dead \in SUBSET Aux : Cut(dead) /\ stream' = Stopped(dead)
      <4> DEFINE dead == {l \in Aux : Refuses(l, wedged)}
      <4>1. dead \in SUBSET Aux OBVIOUS
      <4>2. \/ UNCHANGED <<stream, cuts>>
            \/ stream' = Stopped(dead) /\ Cut(dead)
          BY <3>2 DEF Control
      <4> HIDE DEF dead
      <4>3. QED BY <4>1, <4>2
    <3>3. QED BY <2>2, <3>1, <3>2 DEF Pause
  <2>3. CASE Reopen
    <3> DEFINE dead == {l \in Aux : Refuses(l, {})}
               lanes == Forgiven(Stopped(dead))
               again == {l \in Aux : lanes[l].stopped}
    <3>1. dead \in SUBSET Aux OBVIOUS
    <3>2. /\ remote # None
          /\ \/ UNCHANGED <<stream, cuts>>
             \/ Cut(dead) /\ stream' = Replaced(lanes, again, pushed + 1)
        BY <2>3 DEF Reopen
    <3> HIDE DEF dead, again
    <3>3. QED BY <3>1, <3>2
  <2>4. QED BY <2>1, <2>2, <2>3
<1>4. \A l \in Lanes : Follows(stream[l], stream'[l]) BY <1>1, <1>3, OwnerFollows
<1>5. cuts' = cuts \/ \E dead \in SUBSET Aux : Cut(dead) /\ remote # None BY <1>3
<1>6. Owns BY <1>2, <1>4, <1>5 DEF Owns
<1>7. QED BY <1>1, <1>6, OwnsKeeps

(* A group that opens begins behind every epoch.                             *)
LEMMA EpochStarts ==
    ASSUME WriterInv, GroupAssumption, OneLine, Start
    PROVE  OneLine'
<1>1. Typed /\ TypeOK /\ Numbers BY DEF WriterInv, Typed
<1>2. UNCHANGED <<said, inbox, cuts>> BY StartIs
<1>3. CASE UNCHANGED <<opened, remote, stream, col>>
  <2>1. Undisturbed BY <1>2, <1>3 DEF Undisturbed, Attentive
  <2>2. QED BY <2>1, UndisturbedKeeps
<1>4. CASE /\ opened' = opened + 1 /\ remote' = opened + 1 /\ opened + 1 \in Groups
           /\ stream' = [l \in Lanes |-> Stream(pushed + 1, 0, 0)]
           /\ col' = [col EXCEPT ![opened + 1] = Collector("run", NextSequence, NextEpoch)]
  <2>1. opened \in Nat /\ opened' > opened /\ opened' \in Groups
      BY <1>1, <1>4 DEF TypeOK, Groups
  <2>2. \A f \in said : f.group \in Nat /\ f.group <= opened
      BY <1>1 DEF OneLine, Heeded, Typed, FactOf, Groups
  <2>3. \A f \in said : f.group # opened' /\ f.group <= opened'
    <3>1. \A k \in Nat : k <= opened => k # opened' /\ k <= opened' BY <2>1 DEF Groups
    <3>2. QED BY <2>2, <3>1
  <2>4. Distinct(said)' /\ Heeded' BY <1>2, <2>3 DEF OneLine, Distinct, Heeded
  <2>5. inbox[opened'] = Silent /\ cuts[opened'] = {} BY <2>1 DEF OneLine, Unused
  <2>6. Unused'
    <3>1. \A h \in Groups : h > opened' => h > opened BY <2>1 DEF Groups
    <3>2. QED BY <1>2, <3>1 DEF OneLine, Unused, Silent
  <2>7. NextEpoch \in Nat /\ \A f \in said : f.lane # Source => f.epoch < NextEpoch
      BY <1>1, NextNumbers DEF Rows
  <2>8. col'[opened'] = Collector("run", NextSequence, NextEpoch) BY <1>1, <1>4 DEF Typed
  <2> DEFINE next == NextSequence
             epoch == NextEpoch
             n == pushed + 1
             g == opened'
  <2>9. said \subseteq FactOf /\ epoch \in Nat /\ \A f \in said : f.lane # Source => f.epoch < epoch
      BY <1>1, <2>7 DEF Typed
  <2>10. \A f \in said : f.group # g BY <2>3
  <2> HIDE DEF next, epoch, n, g
  <2>11. Epochs(said, g, Collector("run", next, epoch), Silent, [l \in Lanes |-> Stream(n, 0, 0)], {})
      BY <2>9, <2>10, EpochsFresh
  <2>12. Timelines' BY <1>2, <1>4, <2>5, <2>8, <2>11 DEF Timelines, next, epoch, n, g
  <2>13. QED BY <2>4, <2>6, <2>12 DEF OneLine
<1>5. QED BY <1>3, <1>4, StartIs

(* Nobody hears, or a collector ends.                                        *)
LEMMA EpochEnds ==
    ASSUME WriterInv, Sole, OneLine, NEW g \in Groups, Break(g) \/ Settle(g) \/ Drain(g)
    PROVE  OneLine'
<1>1. Typed BY DEF WriterInv
<1>2. /\ col[g].at \in {"run", "settling"} /\ UNCHANGED <<said, opened>>
      /\ \/ UNCHANGED <<inbox, cuts>>
         \/ Forget(g)
      /\ \E at \in {"settling", "failed", "done"} : col' = [col EXCEPT ![g].at = at]
    BY DEF Break, Settle, Drain, record, queues
<1>3. g = opened BY <1>2 DEF Sole, Alone, Writing
<1>4. ~Attentive'
  <2>1. PICK at \in {"settling", "failed", "done"} : col' = [col EXCEPT ![g].at = at] BY <1>2
  <2>2. col'[g].at = at /\ at # "run" BY <1>1, <2>1, AtIs
  <2>3. QED BY <1>2, <1>3, <2>2 DEF Attentive
<1>5. \A h \in Groups : inbox'[h] \in {inbox[h], Silent} /\ cuts'[h] \in {cuts[h], {}}
  <2>1. CASE UNCHANGED <<inbox, cuts>> BY <2>1
  <2>2. CASE Forget(g) BY <1>1, <2>2, ForgetIs
  <2>3. QED BY <1>2, <2>1, <2>2
<1>6. Undisturbed BY <1>2, <1>4, <1>5 DEF Undisturbed
<1>7. QED BY <1>6, UndisturbedKeeps

(* A collector that is aborted hears nothing more.                           *)
LEMMA EpochAborts ==
    ASSUME WriterInv, GroupAssumption, OneLine, NEW g \in Groups, Abort(g), UNCHANGED <<said, opened, stream>>
    PROVE  OneLine'
<1>1. Typed /\ Forget(g) BY DEF WriterInv, Abort
<1>2. /\ inbox'[g] = Silent /\ cuts'[g] = {}
      /\ \A h \in Groups \ {g} : inbox'[h] = inbox[h] /\ cuts'[h] = cuts[h]
    BY <1>1, ForgetIs
<1>3. col'[g].at = "aborted" /\ \A h \in Groups \ {g} : col'[h] = col[h] BY <1>1, AbortIs
<1>4. opened # None => opened \in Groups BY <1>1 DEF Typed, TypeOK, Groups, None
<1>5. Attentive' => Attentive /\ UNCHANGED <<col[opened], inbox[opened], cuts[opened], stream>>
    BY <1>2, <1>3, <1>4 DEF Attentive
<1>6. Undisturbed BY <1>2, <1>5 DEF Undisturbed
<1>7. QED BY <1>6, UndisturbedKeeps

(* Nor does anything change where no group, stream or queue is touched.      *)
LEMMA EpochRests ==
    ASSUME OneLine, UNCHANGED <<said, opened, stream, inbox, cuts, col>>
    PROVE  OneLine'
<1>1. Undisturbed BY DEF Undisturbed, Attentive
<1>2. QED BY <1>1, UndisturbedKeeps

(* Every step keeps the invariant.                                           *)
LEMMA EpochStep ==
    ASSUME EpochInv, GroupAssumption, [Next]_vars
    PROVE  EpochInv'
<1>1. WriterInv /\ WriterInv' BY WriterStep DEF EpochInv
<1>2. SUFFICES ASSUME "detached" \notin mishap' PROVE OneLine' BY <1>1 DEF EpochInv
<1>3. "detached" \notin mishap BY <1>2, MishapGrows
<1>4. OneLine /\ Sole /\ Typed /\ TypeOK /\ Commands
    BY <1>1, <1>3 DEF EpochInv, WriterInv, Typed
<1>5. ASSUME NEW l \in Lanes, Connect(l) \/ Say(l) \/ Drop(l) \/ Die(l) \/ Finish(l)
      PROVE  OneLine'
  <2>1. StreamStep(l) BY <1>5 DEF StreamStep
  <2>2. QED BY <1>1, <1>4, <2>1, EpochStreams
<1>6. ASSUME NEW g \in Groups, NEW l \in Lanes, Hear(g, l) \/ HearCut(g, l)
      PROVE  OneLine'
    BY <1>1, <1>4, <1>6, EpochHears, EpochCuts
<1>7. ASSUME NEW g \in Groups, Break(g) \/ Settle(g) \/ Drain(g) PROVE OneLine'
    BY <1>1, <1>4, <1>7, EpochEnds
<1>8. CASE Push \/ Pause("pause") \/ Pause("resume") \/ Reopen BY <1>1, <1>4, <1>8, EpochOwner
<1>9. CASE Start BY <1>1, <1>4, <1>9, EpochStarts
<1>10. CASE CleanupAborts
  <2>1. cleanup \in Groups BY <1>4, <1>10 DEF CleanupAborts, TypeOK, Groups, None
  <2>2. Abort(cleanup) /\ UNCHANGED <<said, opened, stream>>
      BY <1>10 DEF CleanupAborts, KeepsStreams
  <2>3. QED BY <1>1, <1>4, <2>1, <2>2, EpochAborts
<1>11. CASE Close \/ CollectorEnds
  <2>1. call.at \in {"close", "drain"} /\ call.group # None /\ call \in CallOf
      BY <1>4, <1>11 DEF Close, CollectorEnds, Commands, Typed
  <2>2. call.group \in Groups BY <1>4, <2>1 DEF CallOf, TypeOK, Groups, None
  <2>3. /\ UNCHANGED <<said, opened, stream>>
        /\ Abort(call.group) \/ UNCHANGED <<inbox, cuts, col>>
      BY <1>11 DEF Close, CollectorEnds, KeepsStreams, queues
  <2>4. QED BY <1>1, <1>4, <2>2, <2>3, EpochAborts, EpochRests
<1>12. CASE \/ Restart \/ Replace \/ Join \/ Stop \/ StreamsEnd \/ Complete \/ Interrupt \/ Leave
            \/ Over \/ UNCHANGED vars
  <2>1. UNCHANGED <<said, opened, stream, inbox, cuts, col>>
      BY <1>12 DEF Restart, Replace, Join, Stop, StreamsEnd, Complete, Interrupt, Leave, Over,
                   KeepsStreams, record, queues, vars
  <2>2. QED BY <1>4, <2>1, EpochRests
<1>13. QED BY <1>5, <1>6, <1>7, <1>8, <1>9, <1>10, <1>11, <1>12 DEF Next

(* A recording starts with nothing written.                                  *)
LEMMA EpochInit ==
    ASSUME GroupAssumption, Init
    PROVE  EpochInv
<1>1. WriterInv BY WriterInit
<1>2. /\ said = {} /\ inbox = [g \in Groups |-> Silent] /\ cuts = [g \in Groups |-> {}]
      /\ opened \in {0, 1} /\ stream = [l \in Lanes |-> Stream(1, 0, 0)]
      /\ col = [g \in Groups |-> Collector(IF g <= opened THEN "run" ELSE "none", 1, 0)]
    BY DEF Init
<1>3. Distinct(said) /\ Heeded /\ Unused BY <1>2 DEF Distinct, Heeded, Unused
<1>4. ASSUME Attentive PROVE Timelines
  <2>1. opened = 1 /\ 1 \in Groups /\ 1 <= 1
      BY <1>2, <1>4 DEF Attentive, None, Groups, GroupAssumption
  <2>2. /\ inbox[opened] = Silent /\ cuts[opened] = {} /\ stream = [l \in Lanes |-> Stream(1, 0, 0)]
        /\ col[opened] = Collector("run", 1, 0)
      BY <1>2, <2>1
  <2>3. said \subseteq FactOf /\ (\A f \in said : f.group # opened)
        /\ \A f \in said : f.lane # Source => f.epoch < 0
      BY <1>2
  <2>4. Epochs(said, opened, Collector("run", 1, 0), Silent, [l \in Lanes |-> Stream(1, 0, 0)], {})
      BY <2>3, EpochsFresh
  <2>5. QED BY <2>2, <2>4 DEF Timelines
<1>5. QED BY <1>1, <1>3, <1>4 DEF EpochInv, OneLine

(* The invariant has the property.                                           *)
LEMMA EpochMeans ==
    ASSUME EpochInv
    PROVE  OneTimelinePerEpoch
<1>1. CASE "detached" \in mishap BY <1>1 DEF OneTimelinePerEpoch
<1>2. CASE "detached" \notin mishap BY <1>2 DEF EpochInv, OneLine, Distinct, OneTimelinePerEpoch
<1>3. QED BY <1>1, <1>2

(* What was said in one epoch was said on one timeline: in a lane by one     *)
(* connection, in two lanes by the connections the group opened with, and    *)
(* never by two groups, unless a writer was detached (next_group_epoch in    *)
(* collect_stream_events_until_closed).                                      *)
THEOREM EpochsAreTimelines ==
    Spec => []OneTimelinePerEpoch
BY GroupAssumption, EpochInit, EpochStep, EpochMeans, PTL DEF Spec

-----------------------------------------------------------------------------
(* An ended connection is known from the queue, or from what joins it.       *)
LEMMA FailsAppend ==
    ASSUME NEW Q, NEW q \in Seq(Q), NEW e \in Q, NEW gen
    PROVE  Fails(Append(q, e), gen) <=> Fails(q, gen) \/ (e.kind = "error" /\ e.gen = gen)
<1> DEFINE t == Append(q, e)
           a == Len(q)
           b == a + 1
<1>1. /\ a \in Nat /\ Len(t) = b /\ t[b] = e /\ \A i \in 1..a : t[i] = q[i]
      /\ \A i \in 1..b : i \in 1..a \/ i = b
    BY AppendIs
<1>2. b \in 1..b /\ \A i \in 1..a : i \in 1..b BY <1>1
<1> HIDE DEF t, a, b
<1>3. Fails(t, gen) <=> \E i \in 1..b : t[i].kind = "error" /\ t[i].gen = gen BY <1>1 DEF Fails
<1>4. Fails(q, gen) <=> \E i \in 1..a : q[i].kind = "error" /\ q[i].gen = gen BY DEF Fails, a
<1>5. QED BY <1>1, <1>2, <1>3, <1>4, Zenon DEF t

(* What joins the queue is the last of it, and words hide nothing.           *)
LEMMA LastAppend ==
    ASSUME NEW Q, NEW q \in Seq(Q), NEW e \in Q
    PROVE  LET t == Append(q, e) IN
           /\ \A kinds : e.kind \in kinds => LastIs(t, kinds, e.gen)
           /\ e.kind = "word" => /\ Wordy(q) => Wordy(t)
                                 /\ \A kinds, gen : LastIs(q, kinds, gen) => LastIs(t, kinds, gen)
<1> DEFINE t == Append(q, e)
           a == Len(q)
           b == a + 1
<1>1. /\ a \in Nat /\ Len(t) = b /\ t[b] = e /\ \A i \in 1..a : t[i] = q[i]
      /\ \A i \in 1..b : i \in 1..a \/ i = b
    BY AppendIs
<1>2. b \in 1..b /\ (\A i \in 1..a : i \in 1..b) /\ \A i \in 1..b : ~(b < i) BY <1>1
<1> HIDE DEF t, a, b
<1>3. ASSUME NEW kinds, e.kind \in kinds PROVE LastIs(t, kinds, e.gen)
  <2>1. \A j \in 1..b : b < j => t[j].kind = "word" BY <1>2, Zenon
  <2>2. QED BY <1>1, <1>2, <1>3, <2>1, Zenon DEF LastIs
<1>4. ASSUME e.kind = "word", Wordy(q) PROVE Wordy(t) BY <1>1, <1>4, Zenon DEF Wordy, a
<1>5. ASSUME e.kind = "word", NEW kinds, NEW gen, LastIs(q, kinds, gen) PROVE LastIs(t, kinds, gen)
  <2>1. PICK i \in 1..a : /\ q[i].kind \in kinds /\ q[i].gen = gen
                          /\ \A j \in 1..a : i < j => q[j].kind = "word"
      BY <1>5 DEF LastIs, a
  <2>2. \A j \in 1..b : i < j => t[j].kind = "word" BY <1>1, <1>5, <2>1, Zenon
  <2>3. i \in 1..b /\ t[i] = q[i] BY <1>1, <1>2
  <2>4. QED BY <1>1, <2>1, <2>2, <2>3, Zenon DEF LastIs
<1>6. QED BY <1>3, <1>4, <1>5 DEF t

(* A stream that speaks.                                                     *)
LEMMA SentShows ==
    ASSUME NEW Q, NEW q \in Seq(Q), NEW e \in Q, NEW s, NEW r, NEW v, NEW C, Shows(q, s, v, C),
           s.gen \in Nat, ~s.stopped, s.phase # "died", Says(s, r, e)
    PROVE  Shows(Append(q, e), r, v, C)
<1> DEFINE t == Append(q, e)
<1>1. /\ r.gen = s.gen /\ e.gen = s.gen /\ ~r.stopped
      /\ e.kind = "error" <=> r.phase = "died"
    BY DEF Says
<1>2. Bounded(t, r, v, C)
  <2>1. /\ Len(t) = Len(q) + 1 /\ t[Len(q) + 1] = e /\ \A i \in 1..Len(q) : t[i] = q[i]
        /\ \A i \in 1..Len(t) : i \in 1..Len(q) \/ i = Len(q) + 1
      BY AppendIs
  <2>2. Bounded(q, s, v, C) /\ e.gen <= r.gen BY <1>1 DEF Shows
  <2> HIDE DEF t
  <2>3. \A i \in 1..Len(t) : t[i].gen <= r.gen BY <1>1, <2>1, <2>2 DEF Bounded
  <2>4. QED BY <1>1, <2>2, <2>3, Zenon DEF Bounded
<1>3. \A gen : Fails(t, gen) <=> Fails(q, gen) \/ (e.kind = "error" /\ e.gen = gen)
    BY FailsAppend
<1>4. /\ s.gen # 0 => Ends(q, v, C, s.gen - 1)
      /\ ~Ends(q, v, C, s.gen) /\ Tells(q, s, v)
    BY DEF Shows
<1>5. /\ LastIs(t, {"connected"}, s.gen) \/ e.kind # "connected"
      /\ LastIs(t, Losses, s.gen) \/ e.kind \notin Losses
      /\ e.kind = "word" => /\ Wordy(q) => Wordy(t)
                            /\ \A kinds, gen : LastIs(q, kinds, gen) => LastIs(t, kinds, gen)
  <2>1. /\ \A kinds : e.kind \in kinds => LastIs(t, kinds, e.gen)
        /\ e.kind = "word" => /\ Wordy(q) => Wordy(t)
                              /\ \A kinds, gen : LastIs(q, kinds, gen) => LastIs(t, kinds, gen)
      BY LastAppend
  <2>2. e.kind = "connected" => e.kind \in {"connected"} OBVIOUS
  <2> HIDE DEF t
  <2>3. QED BY <1>1, <2>1, <2>2, Zenon
<1> HIDE DEF t
<1>6. Tells(t, r, v)
  <2>1. /\ r.phase = "up" => e.kind = "connected" \/ (e.kind = "word" /\ s.phase = "up")
        /\ r.phase = "dial" => r.again /\ e.kind \in Losses
      BY DEF Says
  <2>2. s.phase = "up" => LastIs(q, {"connected"}, s.gen) \/ (Wordy(q) /\ v.gen = s.gen /\ v.connected)
      BY <1>4 DEF Tells
  <2>3. r.phase = "up" => LastIs(t, {"connected"}, r.gen) \/ (Wordy(t) /\ v.gen = r.gen /\ v.connected)
      BY <1>1, <1>5, <2>1, <2>2, Zenon
  <2>4. r.phase = "dial" => LastIs(t, Losses, r.gen) /\ r.again BY <1>1, <1>5, <2>1, Zenon
  <2>5. QED BY <2>3, <2>4, Zenon DEF Tells
<1>7. /\ (r.phase = "died") => Ends(t, v, C, r.gen)
      /\ r.gen # 0 => Ends(t, v, C, r.gen - 1)
      /\ r.phase # "died" => ~Ends(t, v, C, r.gen)
    BY <1>1, <1>3, <1>4, Zenon DEF Ends
<1>8. ~r.stopped /\ r.gen = s.gen BY <1>1
<1>9. QED BY <1>2, <1>6, <1>7, <1>8 DEF Shows, t

(* Whatever a stream does, the collector will know it.                       *)
LEMMA StreamShows ==
    ASSUME Typed, opened \in Groups, NEW l \in Lanes, Runs(l), StreamActs(l), NEW v, NEW C,
           Shows(inbox[opened][l], stream[l], v, C)
    PROVE  \E r, es : Moves(l, r, es) /\ Shows(inbox[opened][l] \o es, r, v, C)
<1> DEFINE s == stream[l]
           q == inbox[opened][l]
           Goal == \E r, es : Moves(l, r, es) /\ Shows(q \o es, r, v, C)
<1>1. /\ s \in StreamOf /\ q \in Seq(Events) /\ s.gen \in Nat /\ s.next - 1 \in 0..pushed
      /\ s.next \in 0..(pushed + 1) /\ s.next # 0 /\ pushed \in Nat
      /\ ~s.stopped /\ s.phase # "died"
    BY DEF Typed, TypeOK, StreamOf, Runs
<1>2. \A kind \in EventKinds, word \in 0..pushed : (kind = "word" => word # 0) =>
         LET e == Event(l, kind, word) IN e \in Events /\ e.kind = kind /\ e.gen = s.gen
    BY EventIs DEF Event
<1>3. Shows(q, s, v, C) OBVIOUS
<1>4. /\ {"connected", "back", "back late", "word", "lost", "planned", "error"} \subseteq EventKinds
      /\ 0 \in 0..pushed
    BY <1>1 DEF EventKinds
<1> HIDE DEF s, q
<1>5. ASSUME NEW t \in Seq(Events), NEW a, NEW r, NEW kind \in EventKinds, NEW word \in 0..pushed,
             kind = "word" => word # 0, Shows(t, a, v, C),
             a.gen = s.gen, r.gen = s.gen, ~a.stopped, ~r.stopped, a.phase # "died",
             kind = "error" <=> r.phase = "died",
             r.phase = "up" => kind = "connected" \/ (kind = "word" /\ a.phase = "up"),
             r.phase = "dial" => r.again /\ kind \in Losses
      PROVE  Shows(Append(t, Event(l, kind, word)), r, v, C)
  <2> DEFINE e == Event(l, kind, word)
  <2>1. e \in Events /\ e.kind = kind /\ e.gen = s.gen BY <1>2, <1>5, Zenon
  <2> HIDE DEF e
  <2>2. Says(a, r, e) BY <1>5, <2>1, Zenon DEF Says
  <2>3. a.gen \in Nat BY <1>1, <1>5, Zenon
  <2>4. Shows(Append(t, e), r, v, C) BY <1>5, <2>1, <2>2, <2>3, SentShows, Zenon
  <2>5. QED BY <2>4 DEF e
<1>6. ASSUME NEW r, NEW kind \in EventKinds, NEW word \in 0..pushed,
             kind = "word" => word # 0, Moves(l, r, <<Event(l, kind, word)>>),
             r.gen = s.gen, ~r.stopped, kind = "error" <=> r.phase = "died",
             r.phase = "up" => kind = "connected" \/ (kind = "word" /\ s.phase = "up"),
             r.phase = "dial" => r.again /\ kind \in Losses
      PROVE  Goal
  <2> DEFINE e == Event(l, kind, word)
  <2>1. Shows(Append(q, e), r, v, C) BY <1>1, <1>3, <1>5, <1>6, Zenon
  <2>2. e \in Events BY <1>2, <1>6, Zenon
  <2> HIDE DEF e
  <2>3. q \o <<e>> = Append(q, e) BY <1>1, <2>2, TwoEvents
  <2>4. Moves(l, r, <<e>>) /\ Shows(q \o <<e>>, r, v, C) BY <1>6, <2>1, <2>3, Zenon DEF e
  <2>5. QED BY <2>4, Zenon
<1>7. ASSUME NEW kind \in Backs, NEW a, NEW r,
             Moves(l, r, <<Event(l, kind, s.next - 1), Event(l, "connected", 0)>>),
             a.gen = s.gen, ~a.stopped, a.phase = "ended", r.gen = s.gen, ~r.stopped, r.phase = "up"
      PROVE  Goal
  <2> DEFINE n == s.next - 1
             e == Event(l, kind, n)
             f == Event(l, "connected", 0)
  <2>1. n \in 0..pushed /\ kind \in EventKinds /\ kind # "word" /\ kind # "error"
        /\ "connected" \in EventKinds /\ "connected" # "word" /\ "connected" # "error"
        /\ a.phase \notin {"up", "dial", "died"} /\ r.phase \notin {"dial", "died"}
      BY <1>1, <1>4, <1>7 DEF Backs
  <2> HIDE DEF n
  <2>2. e \in Events /\ f \in Events BY <1>2, <1>4, <2>1, Zenon
  <2>3. /\ a.phase # "up" /\ a.phase # "dial" /\ a.phase # "died"
        /\ r.phase # "dial" /\ r.phase # "died"
      BY <2>1
  <2>4. Shows(Append(q, e), a, v, C) BY <1>1, <1>3, <1>5, <1>7, <2>1, <2>3, Zenon
  <2>5. Append(q, e) \in Seq(Events) BY <1>1, <2>2, AppendProperties
  <2> DEFINE t == Append(q, e)
  <2> HIDE DEF t
  <2>6. Shows(Append(t, f), r, v, C)
    <3>1. t \in Seq(Events) /\ Shows(t, a, v, C) BY <2>4, <2>5 DEF t
    <3>2. QED BY <1>4, <1>5, <1>7, <2>1, <2>3, <3>1, Zenon
  <2> HIDE DEF e, f
  <2>7. q \o <<e, f>> = Append(t, f) BY <1>1, <2>2, TwoEvents DEF t
  <2>8. Moves(l, r, <<e, f>>) /\ Shows(q \o <<e, f>>, r, v, C)
      BY <1>7, <2>6, <2>7, Zenon DEF e, f, n
  <2>9. QED BY <2>8, Zenon
<1>11. ASSUME Moves(l, [s EXCEPT !.phase = "up"], <<Event(l, "connected", 0)>>)
       PROVE  Goal
  <2> DEFINE r == [s EXCEPT !.phase = "up"]
  <2>1. /\ r.gen = s.gen /\ ~r.stopped /\ r.phase = "up" /\ r.phase # "dial" /\ r.phase # "died"
        /\ "connected" # "word" /\ "connected" # "error"
      BY <1>1 DEF StreamOf
  <2> HIDE DEF r
  <2>2. Moves(l, r, <<Event(l, "connected", 0)>>) BY <1>11 DEF r
  <2>3. QED BY <1>4, <1>6, <2>1, <2>2, Zenon
<1>12. ASSUME NEW kind \in Backs, NEW r, ~r.stopped, r.gen = s.gen, r.phase = "up",
              Moves(l, r, <<Event(l, kind, s.next - 1), Event(l, "connected", 0)>>)
       PROVE  Goal
  <2> DEFINE a == [s EXCEPT !.phase = "ended"]
  <2>1. a.gen = s.gen /\ ~a.stopped /\ a.phase = "ended" BY <1>1 DEF StreamOf
  <2> HIDE DEF a
  <2>2. QED BY <1>7, <1>12, <2>1, Zenon
<1>13. ASSUME s.phase = "up", s.next <= pushed,
              Moves(l, [s EXCEPT !.next = @ + 1], <<Event(l, "word", s.next)>>)
       PROVE  Goal
  <2> DEFINE r == [s EXCEPT !.next = @ + 1]
  <2>1. /\ r.gen = s.gen /\ ~r.stopped /\ r.phase = "up" /\ r.phase # "dial" /\ r.phase # "died"
        /\ "word" # "error"
      BY <1>1, <1>13 DEF StreamOf
  <2>2. s.next \in 0..pushed /\ s.next # 0 BY <1>1, <1>13
  <2> HIDE DEF r
  <2>3. Moves(l, r, <<Event(l, "word", s.next)>>) BY <1>13 DEF r
  <2>4. QED BY <1>4, <1>6, <1>13, <2>1, <2>2, <2>3, Zenon
<1>14. ASSUME NEW kind \in {"lost", "planned"},
              Moves(l, [s EXCEPT !.phase = "dial", !.again = TRUE], <<Event(l, kind, 0)>>)
       PROVE  Goal
  <2> DEFINE r == [s EXCEPT !.phase = "dial", !.again = TRUE]
  <2>1. r.gen = s.gen /\ ~r.stopped /\ r.phase # "up" /\ r.phase # "died" /\ r.again
      BY <1>1 DEF StreamOf
  <2>2. kind \in EventKinds /\ kind \in Losses /\ kind # "word" /\ kind # "error"
      BY DEF EventKinds, Losses
  <2> HIDE DEF r
  <2>3. Moves(l, r, <<Event(l, kind, 0)>>) BY <1>14 DEF r
  <2>4. QED BY <1>4, <1>6, <2>1, <2>2, <2>3, Zenon
<1>15. ASSUME Moves(l, [s EXCEPT !.phase = "died"], <<Event(l, "error", 0)>>)
       PROVE  Goal
  <2> DEFINE r == [s EXCEPT !.phase = "died"]
  <2>1. /\ r.gen = s.gen /\ ~r.stopped /\ r.phase = "died" /\ r.phase # "dial" /\ r.phase # "up"
        /\ "error" # "word"
      BY <1>1 DEF StreamOf
  <2> HIDE DEF r
  <2>2. Moves(l, r, <<Event(l, "error", 0)>>) BY <1>15 DEF r
  <2>3. QED BY <1>4, <1>6, <2>1, <2>2, Zenon
<1>16. ASSUME Moves(l, [s EXCEPT !.phase = "ended"], << >>)
       PROVE  Goal
  <2> DEFINE r == [s EXCEPT !.phase = "ended"]
  <2>1. /\ r.gen = s.gen /\ ~r.stopped /\ r.phase # "dial" /\ r.phase # "up" /\ r.phase # "died"
      BY <1>1 DEF StreamOf
  <2> HIDE DEF r
  <2>2. Tells(q, r, v) BY <2>1 DEF Tells
  <2>3. Shows(q, r, v, C) BY <1>1, <1>3, <2>1, <2>2, Zenon DEF Shows, Bounded
  <2>4. q \o << >> = q BY <1>1, ConcatEmptySeq
  <2>5. Moves(l, r, << >>) /\ Shows(q \o << >>, r, v, C) BY <1>16, <2>3, <2>4, Zenon DEF r
  <2>6. QED BY <2>5, Zenon
<1>17. /\ \A r : r = [s EXCEPT !.phase = "up", !.again = FALSE] =>
                 ~r.stopped /\ r.gen = s.gen /\ r.phase = "up"
       /\ \A r : r = [s EXCEPT !.phase = "up", !.again = FALSE, !.next = pushed + 1, !.leg = @ + 1] =>
                 ~r.stopped /\ r.gen = s.gen /\ r.phase = "up"
       /\ "back" \in Backs /\ "back late" \in Backs
    BY <1>1 DEF StreamOf, Backs
<1>18. Goal BY <1>11, <1>12, <1>13, <1>14, <1>15, <1>16, <1>17, Zenon DEF StreamActs, s
<1>19. QED BY <1>18 DEF s, q

-----------------------------------------------------------------------------
(* What was known to have ended still is, and nothing else is.               *)
LEMMA SeesEnds ==
    ASSUME NEW q, NEW t, NEW v, NEW w, NEW e, NEW C, NEW D, Sees(v, w, e),
           v.gen \in Nat, e.gen \in Nat,
           \A gen : (Fails(q, gen) \/ gen \in C) <=>
                    (Fails(t, gen) \/ gen \in D \/ (e.kind = "error" /\ e.gen = gen))
    PROVE  /\ \A gen \in Int : Ends(q, v, C, gen) => Ends(t, w, D, gen)
           /\ \A gen \in Int : v.gen <= gen /\ e.gen <= gen /\ ~Ends(q, v, C, gen) => ~Ends(t, w, D, gen)
<1> DEFINE Err == e.kind = "error"
<1>1. /\ w.gen \in Nat /\ v.gen <= w.gen /\ e.gen <= w.gen
      /\ v.gen < e.gen => w.gen = e.gen
      /\ ~(v.gen < e.gen) => w.gen = v.gen
    BY DEF Sees
<1>2. /\ e.gen < v.gen => w = v
      /\ e.gen = v.gen => (v.failed => w.failed) /\ (w.failed => v.failed \/ Err)
      /\ v.gen < e.gen => (w.failed => Err)
      /\ e.gen = w.gen => (Err => w.failed)
    BY DEF Sees
<1>3. \A gen : (Fails(q, gen) \/ gen \in C) <=> (Fails(t, gen) \/ gen \in D \/ (Err /\ e.gen = gen))
    OBVIOUS
<1> HIDE DEF Err
<1>4. ASSUME NEW gen \in Int, Ends(q, v, C, gen) PROVE Ends(t, w, D, gen)
  <2>1. CASE v.gen > gen
    <3>1. w.gen > gen BY <1>1, <2>1
    <3>2. QED BY <3>1, Zenon DEF Ends
  <2>2. CASE v.gen = gen /\ v.failed
    <3>1. w.gen > gen \/ (w.gen = gen /\ ~(v.gen < e.gen)) BY <1>1, <2>2
    <3>2. ~(v.gen < e.gen) => e.gen < v.gen \/ e.gen = v.gen OBVIOUS
    <3>3. w.gen > gen \/ (w.gen = gen /\ w.failed) BY <1>2, <2>2, <3>1, <3>2, Zenon
    <3>4. QED BY <3>3, Zenon DEF Ends
  <2>3. CASE Fails(q, gen) \/ gen \in C
    <3>1. CASE Err /\ e.gen = gen
      <4>1. w.gen > gen \/ w.gen = gen BY <1>1, <3>1
      <4>2. w.gen > gen \/ (w.gen = gen /\ w.failed) BY <1>2, <3>1, <4>1, Zenon
      <4>3. QED BY <4>2, Zenon DEF Ends
    <3>2. QED BY <1>3, <2>3, <3>1, Zenon DEF Ends
  <2>4. QED BY <1>4, <2>1, <2>2, <2>3, Zenon DEF Ends
<1>5. ASSUME NEW gen \in Int, v.gen <= gen, e.gen <= gen, ~Ends(q, v, C, gen), Ends(t, w, D, gen)
      PROVE  FALSE
  <2>1. ~(v.gen = gen /\ v.failed) /\ ~Fails(q, gen) /\ gen \notin C BY <1>5, Zenon DEF Ends
  <2>2. ~Fails(t, gen) /\ gen \notin D /\ ~(Err /\ e.gen = gen) BY <1>3, <2>1, Zenon
  <2>3. ~(w.gen > gen) BY <1>1, <1>5
  <2>4. w.gen = gen /\ w.failed BY <1>5, <2>2, <2>3, Zenon DEF Ends
  <2>5. CASE v.gen < e.gen
    <3>1. e.gen = gen BY <1>1, <2>4, <2>5
    <3>2. QED BY <1>2, <2>2, <2>4, <2>5, <3>1, Zenon
  <2>6. CASE e.gen = v.gen
    <3>1. v.gen = gen /\ e.gen = gen BY <1>1, <2>4, <2>6
    <3>2. QED BY <1>2, <2>1, <2>2, <2>4, <2>6, <3>1, Zenon
  <2>7. CASE e.gen < v.gen
    <3>1. w = v BY <1>2, <2>7, Zenon
    <3>2. QED BY <2>1, <2>4, <3>1, Zenon
  <2>8. QED BY <2>5, <2>6, <2>7
<1>6. QED BY <1>4, <1>5, Zenon

(* What the queue holds is its first event and the rest.                     *)
LEMMA FailsTail ==
    ASSUME NEW Q, NEW q \in Seq(Q), q # << >>
    PROVE  LET e == Head(q)
               t == Tail(q)
           IN  /\ \A gen : Fails(q, gen) <=> Fails(t, gen) \/ (e.kind = "error" /\ e.gen = gen)
               /\ Wordy(q) => Wordy(t) /\ e.kind = "word"
               /\ \A kinds, gen : LastIs(q, kinds, gen) =>
                     LastIs(t, kinds, gen) \/ (Wordy(t) /\ e.kind \in kinds /\ e.gen = gen)
               /\ \A gen : (\A i \in 1..Len(q) : q[i].gen # gen) =>
                     e.gen # gen /\ \A i \in 1..Len(t) : t[i].gen # gen
<1> DEFINE e == Head(q)
           t == Tail(q)
           a == Len(q)
           b == Len(t)
<1>1. /\ b \in Nat /\ a = b + 1 /\ q[1] = e /\ 1 \in 1..a
      /\ \A i \in 1..b : t[i] = q[i + 1] /\ i + 1 \in 1..a
    BY TailIs
<1>2. \A i \in 1..a : i = 1 \/ (i - 1 \in 1..b /\ (i - 1) + 1 = i) BY <1>1
<1> HIDE DEF e, t, a, b
<1>3. \A i \in 1..a : i = 1 \/ \E j \in 1..b : i = j + 1 /\ q[i] = t[j] BY <1>1, <1>2
<1>4. \A gen : Fails(q, gen) <=> \E i \in 1..a : q[i].kind = "error" /\ q[i].gen = gen
    BY DEF Fails, a
<1>5. \A gen : Fails(t, gen) <=> \E i \in 1..b : t[i].kind = "error" /\ t[i].gen = gen
    BY DEF Fails, b
<1>6. ASSUME NEW gen PROVE Fails(q, gen) <=> Fails(t, gen) \/ (e.kind = "error" /\ e.gen = gen)
  <2>1. ASSUME Fails(q, gen) PROVE Fails(t, gen) \/ (e.kind = "error" /\ e.gen = gen)
      BY <1>1, <1>3, <1>4, <1>5, <2>1
  <2>2. ASSUME Fails(t, gen) PROVE Fails(q, gen) BY <1>1, <1>4, <1>5, <2>2
  <2>3. ASSUME e.kind = "error", e.gen = gen PROVE Fails(q, gen) BY <1>1, <1>4, <2>3
  <2>4. QED BY <2>1, <2>2, <2>3
<1>7. Wordy(q) => Wordy(t) /\ e.kind = "word" BY <1>1, Zenon DEF Wordy, a, b
<1>8. ASSUME NEW kinds, NEW gen, LastIs(q, kinds, gen)
      PROVE  LastIs(t, kinds, gen) \/ (Wordy(t) /\ e.kind \in kinds /\ e.gen = gen)
  <2>1. PICK i \in 1..a : /\ q[i].kind \in kinds /\ q[i].gen = gen
                          /\ \A j \in 1..a : i < j => q[j].kind = "word"
      BY <1>8 DEF LastIs, a
  <2>2. CASE i = 1
    <3>1. \A j \in 1..b : 1 < j + 1 BY <1>1
    <3>2. \A j \in 1..b : t[j].kind = "word" BY <1>1, <2>1, <2>2, <3>1, Zenon
    <3>3. QED BY <1>1, <2>1, <2>2, <3>2, Zenon DEF Wordy, b
  <2>3. ASSUME NEW k \in 1..b, i = k + 1, q[i] = t[k] PROVE LastIs(t, kinds, gen)
    <3>1. \A j \in 1..b : k < j => i < j + 1 BY <1>1, <2>3
    <3>2. \A j \in 1..b : k < j => t[j].kind = "word" BY <1>1, <2>1, <3>1, Zenon
    <3>3. QED BY <2>1, <2>3, <3>2, Zenon DEF LastIs, b
  <2>4. QED BY <1>3, <2>2, <2>3, Zenon
<1>9. ASSUME NEW gen, \A i \in 1..a : q[i].gen # gen
      PROVE  e.gen # gen /\ \A i \in 1..b : t[i].gen # gen
    BY <1>1, <1>9, Zenon
<1>10. \A gen : (\A i \in 1..a : q[i].gen # gen) => e.gen # gen /\ \A i \in 1..b : t[i].gen # gen
    BY <1>9, Zenon
<1>11. QED BY <1>6, <1>7, <1>8, <1>10, Zenon DEF e, t, a, b

(* What the collector makes of what is told, when it hears it.               *)
LEMMA SeesShows ==
    ASSUME NEW Q, NEW q \in Seq(Q), q # << >>, NEW s, NEW v, NEW w, NEW C, Shows(q, s, v, C),
           Sees(v, w, Head(q)), s.gen \in Nat, v.gen \in Nat, Head(q).gen \in Nat
    PROVE  Shows(Tail(q), s, w, C)
<1> DEFINE e == Head(q)
           t == Tail(q)
           n == s.gen
<1>1. /\ \A gen : Fails(q, gen) <=> Fails(t, gen) \/ (e.kind = "error" /\ e.gen = gen)
      /\ Wordy(q) => Wordy(t) /\ e.kind = "word"
      /\ \A kinds, gen : LastIs(q, kinds, gen) =>
            LastIs(t, kinds, gen) \/ (Wordy(t) /\ e.kind \in kinds /\ e.gen = gen)
      /\ \A gen : (\A i \in 1..Len(q) : q[i].gen # gen) =>
            e.gen # gen /\ \A i \in 1..Len(t) : t[i].gen # gen
    BY FailsTail
<1>2. /\ v.gen <= n /\ \A i \in 1..Len(q) : q[i].gen <= n
      /\ \A m \in C : m <= n
    BY DEF Shows, Bounded
<1>3. e.gen <= n /\ \A i \in 1..Len(t) : t[i].gen <= n
  <2>1. /\ q[1] = e /\ 1 \in 1..Len(q) /\ \A i \in 1..Len(t) : t[i] = q[i + 1] /\ i + 1 \in 1..Len(q)
      BY TailIs
  <2> HIDE DEF e, t, n
  <2>2. QED BY <1>2, <2>1, Zenon
<1>4. /\ w.gen \in Nat /\ w.gen <= n /\ n \in Int /\ n - 1 \in Int
      /\ w.gen = n => v.gen = n \/ e.gen = n
    BY <1>2, <1>3 DEF Sees
<1>5. /\ \A gen \in Int : Ends(q, v, C, gen) => Ends(t, w, C, gen)
      /\ \A gen \in Int : v.gen <= gen /\ e.gen <= gen /\ ~Ends(q, v, C, gen) => ~Ends(t, w, C, gen)
  <2>1. \A gen : (Fails(q, gen) \/ gen \in C) <=>
                 (Fails(t, gen) \/ gen \in C \/ (e.kind = "error" /\ e.gen = gen))
      BY <1>1, Zenon
  <2> HIDE DEF e, t
  <2>2. Sees(v, w, e) /\ e.gen \in Nat BY DEF e
  <2>3. QED BY <2>1, <2>2, SeesEnds
<1>6. Bounded(t, s, w, C)
  <2>1. w.failed => ~w.connected BY DEF Sees
  <2> HIDE DEF t
  <2>2. QED BY <1>2, <1>3, <1>4, <2>1, Zenon DEF Bounded, n
<1>7. ASSUME ~s.stopped PROVE Tells(t, s, w)
  <2>1. Tells(q, s, v) BY <1>7 DEF Shows
  <2>2. s.phase # "died" => ~Ends(t, w, C, n) BY <1>2, <1>3, <1>4, <1>5, <1>7 DEF Shows
  <2>3. ~Ends(t, w, C, n) /\ w.gen = n => ~w.failed BY DEF Ends
  <2>4. /\ e.gen = n => w.gen = n
        /\ (v.gen = n /\ e.gen # n) => w = v
        /\ e.gen = w.gen => /\ e.kind = "connected" => w.failed \/ w.connected
                            /\ e.kind \in Losses => w.failed \/ w.awaiting
        /\ (e.kind = "word" /\ e.gen = v.gen) => w = v
    <3>1. e.gen < v.gen => w = v BY DEF Sees
    <3>2. (v.gen = n /\ e.gen # n) => e.gen < v.gen BY <1>3
    <3>3. e.gen = n => w.gen = n BY <1>2 DEF Sees
    <3>4. QED BY <3>1, <3>2, <3>3 DEF Sees
  <2> HIDE DEF e, t, n
  <2>5. ASSUME s.phase = "up"
        PROVE  LastIs(t, {"connected"}, n) \/ (Wordy(t) /\ w.gen = n /\ w.connected)
    <3>1. LastIs(q, {"connected"}, n) \/ (Wordy(q) /\ v.gen = n /\ v.connected)
        BY <2>1, <2>5, Zenon DEF Tells, n
    <3>2. s.phase # "died" BY <2>5
    <3>3. w.gen = n => ~w.failed BY <2>2, <2>3, <3>2, Zenon
    <3>4. CASE LastIs(q, {"connected"}, n)
      <4> DEFINE kinds == {"connected"}
      <4>1. e.kind \in kinds => e.kind = "connected" OBVIOUS
      <4>2. LastIs(q, kinds, n) BY <3>4
      <4> HIDE DEF kinds
      <4>3. LastIs(t, kinds, n) \/ (Wordy(t) /\ e.kind = "connected" /\ e.gen = n)
          BY <1>1, <4>1, <4>2, Zenon
      <4>4. LastIs(t, kinds, n) \/ (Wordy(t) /\ w.gen = n /\ w.connected)
          BY <2>4, <3>3, <4>3, Zenon
      <4>5. QED BY <4>4 DEF kinds
    <3>5. CASE Wordy(q) /\ v.gen = n /\ v.connected BY <1>1, <2>4, <3>5, Zenon
    <3>6. QED BY <3>1, <3>4, <3>5
  <2>6. ASSUME s.phase = "dial", s.again
        PROVE  LastIs(t, Losses, n) \/ (Wordy(t) /\ w.gen = n /\ w.awaiting)
    <3>1. LastIs(q, Losses, n) \/ (Wordy(q) /\ v.gen = n /\ v.awaiting)
        BY <2>1, <2>6, Zenon DEF Tells, n
    <3>2. s.phase # "died" BY <2>6
    <3>3. w.gen = n => ~w.failed BY <2>2, <2>3, <3>2, Zenon
    <3>4. CASE LastIs(q, Losses, n) BY <1>1, <2>4, <3>3, <3>4, Zenon
    <3>5. CASE Wordy(q) /\ v.gen = n /\ v.awaiting BY <1>1, <2>4, <3>5, Zenon
    <3>6. QED BY <3>1, <3>4, <3>5
  <2>7. ASSUME s.phase = "dial", ~s.again
        PROVE  /\ \A i \in 1..Len(t) : t[i].gen # n
               /\ w.gen = n => n = 0 /\ ~w.connected
    <3>1. /\ \A i \in 1..Len(q) : q[i].gen # n
          /\ v.gen = n => n = 0 /\ ~v.connected
        BY <2>1, <2>7, Zenon DEF Tells, n
    <3>2. e.gen # n /\ \A i \in 1..Len(t) : t[i].gen # n BY <1>1, <3>1, Zenon
    <3>3. w.gen = n => w = v BY <1>4, <2>4, <3>2, Zenon
    <3>4. QED BY <3>1, <3>2, <3>3, Zenon
  <2>8. QED BY <2>5, <2>6, <2>7, Zenon DEF Tells, n
<1>8. /\ (s.stopped \/ s.phase = "died") => Ends(t, w, C, n)
      /\ n # 0 => Ends(t, w, C, n - 1)
      /\ (~s.stopped /\ s.phase # "died") => ~Ends(t, w, C, n)
    BY <1>2, <1>3, <1>4, <1>5 DEF Shows
<1>9. QED BY <1>6, <1>7, <1>8, Zenon DEF Shows

(* And of a cut of the generation n.                                         *)
LEMMA SeesCut ==
    ASSUME NEW q, NEW s, NEW v, NEW w, NEW C, NEW n \in C, n \in Nat, Shows(q, s, v, C),
           NEW e, e.kind = "error", e.gen = n, Sees(v, w, e), s.gen \in Nat, v.gen \in Nat
    PROVE  Shows(q, s, w, C \ {n})
<1> DEFINE D == C \ {n}
           m == s.gen
<1>1. /\ v.gen <= m /\ n <= m /\ \A x \in D : x <= m
      /\ \A i \in 1..Len(q) : q[i].gen <= m
    BY DEF Shows, Bounded
<1>2. /\ w.gen <= m /\ m \in Int /\ m - 1 \in Int /\ (w.failed => ~w.connected) BY <1>1 DEF Sees
<1>3. /\ \A gen \in Int : Ends(q, v, C, gen) => Ends(q, w, D, gen)
      /\ \A gen \in Int : v.gen <= gen /\ e.gen <= gen /\ ~Ends(q, v, C, gen) => ~Ends(q, w, D, gen)
  <2>1. \A gen : (Fails(q, gen) \/ gen \in C) <=>
                 (Fails(q, gen) \/ gen \in D \/ (e.kind = "error" /\ e.gen = gen))
    <3>1. \A gen : gen \in C <=> gen \in D \/ n = gen OBVIOUS
    <3> HIDE DEF D
    <3>2. QED BY <3>1, Zenon
  <2> HIDE DEF D
  <2>2. e.gen \in Nat OBVIOUS
  <2>3. QED BY <2>1, <2>2, SeesEnds
<1>4. Bounded(q, s, w, D)
  <2> HIDE DEF D
  <2>1. QED BY <1>1, <1>2, Zenon DEF Bounded, m
<1>5. /\ (s.stopped \/ s.phase = "died") => Ends(q, w, D, m)
      /\ m # 0 => Ends(q, w, D, m - 1)
      /\ (~s.stopped /\ s.phase # "died") => ~Ends(q, w, D, m)
    BY <1>1, <1>2, <1>3 DEF Shows
<1>6. ASSUME ~s.stopped PROVE Tells(q, s, w)
  <2>1. Tells(q, s, v) /\ (s.phase # "died" => ~Ends(q, v, C, m)) BY <1>6 DEF Shows
  <2>2. CASE s.phase = "died" BY <2>2 DEF Tells
  <2>3. CASE s.phase # "died"
    <3>1. n # m BY <2>1, <2>3 DEF Ends
    <3>2. /\ w.gen = m => w = v
          /\ v.gen = m => w = v
        BY <1>1, <3>1 DEF Sees
    <3>3. QED BY <2>1, <3>2, Zenon DEF Tells, m
  <2>4. QED BY <2>2, <2>3
<1>7. QED BY <1>4, <1>5, <1>6, Zenon DEF Shows, D, m

(* What the owner does to a stream is told by the cut it sends.              *)
LEMMA HandledShows ==
    ASSUME NEW q, NEW s, NEW r, NEW v, NEW C, NEW D, C \subseteq Nat, Shows(q, s, v, C), Handled(s, r, C, D),
           s.gen \in Nat, v.gen \in Nat, \A i \in 1..Len(q) : q[i].gen \in Nat
    PROVE  Shows(q, r, v, D)
<1> DEFINE n == s.gen
<1>1. /\ v.gen <= n /\ (v.failed => ~v.connected) /\ \A i \in 1..Len(q) : q[i].gen <= n
      /\ \A m \in C : m <= n
    BY DEF Shows, Bounded
<1>2. /\ D = C \/ D = C \cup {n}
      /\ \A m \in D : m <= n
    BY <1>1 DEF Handled
<1>3. \A gen : Ends(q, v, C, gen) => Ends(q, v, D, gen) BY <1>2 DEF Ends
<1>4. CASE /\ r.gen = s.gen /\ r.phase = s.phase /\ r.again = s.again /\ r.stopped = s.stopped
           /\ D = C
    BY <1>4 DEF Shows, Bounded, Tells
<1>5. s.stopped \/ n \in D => Ends(q, v, D, n) BY <1>3 DEF Shows, Ends
<1>6. CASE r.gen = s.gen /\ r.stopped /\ (s.stopped \/ s.gen \in D)
  <2>1. Bounded(q, r, v, D) BY <1>1, <1>2, <1>6 DEF Bounded
  <2>2. r.gen # 0 => Ends(q, v, D, r.gen - 1) BY <1>3, <1>6 DEF Shows
  <2>3. Ends(q, v, D, r.gen) BY <1>5, <1>6
  <2>4. QED BY <1>6, <2>1, <2>2, <2>3 DEF Shows
<1>7. CASE /\ r.gen = s.gen + 1 /\ r.phase = "dial" /\ ~r.again /\ ~r.stopped
           /\ s.stopped \/ s.gen \in D
  <2>1. Bounded(q, r, v, D)
    <3>1. D \subseteq Nat BY <1>2
    <3>2. /\ v.gen <= r.gen /\ (\A m \in D : m <= r.gen) /\ \A i \in 1..Len(q) : q[i].gen <= r.gen
        BY <1>1, <1>2, <1>7, <3>1
    <3>3. QED BY <1>1, <3>2, Zenon DEF Bounded
  <2>2. r.gen - 1 = n /\ r.phase # "died" /\ r.phase # "up" BY <1>7
  <2>3. ~Ends(q, v, D, r.gen) BY <1>1, <1>2, <1>7 DEF Ends, Fails
  <2>4. Tells(q, r, v)
    <3>1. \A i \in 1..Len(q) : q[i].gen # r.gen BY <1>1, <1>7
    <3>2. v.gen # r.gen BY <1>1, <1>7
    <3>3. QED BY <1>7, <2>2, <3>1, <3>2, Zenon DEF Tells
  <2>5. QED BY <1>5, <1>7, <2>1, <2>2, <2>3, <2>4 DEF Shows
<1>8. QED BY <1>4, <1>6, <1>7 DEF Handled

(* What is heard of a lane is what is seen of it.                            *)
LEMMA RevivedSees ==
    ASSUME NEW b \in CollectorOf, NEW l \in Lanes, NEW gen \in Nat
    PROVE  LET v == b.view[l]
               u == Revived(b, l, gen).view[l]
           IN  /\ v \in ViewOf /\ u \in ViewOf /\ v.gen \in Nat /\ u.gen \in Nat
               /\ u.gen = IF v.gen < gen THEN gen ELSE v.gen
               /\ gen <= v.gen => u = v
               /\ v.gen < gen => ~u.failed
               /\ u.connected = v.connected
<1> DEFINE v == b.view[l]
           u == Revived(b, l, gen).view[l]
<1>1. v \in ViewOf /\ v.gen \in Nat BY DEF CollectorOf, ViewOf
<1>2. CASE gen <= v.gen
  <2>1. u = v BY <1>2, RevivedSame
  <2>2. ~(v.gen < gen) BY <1>1, <1>2
  <2> HIDE DEF u, v
  <2>3. u \in ViewOf /\ u.gen = v.gen /\ u.gen \in Nat /\ u.connected = v.connected
      BY <1>1, <2>1
  <2>4. QED BY <1>1, <2>1, <2>2, <2>3 DEF u, v
<1>3. CASE v.gen < gen
  <2>1. u = [v EXCEPT !.gen = gen, !.failed = FALSE, !.epoch = b.epoch + 1]
    <3>1. gen > b.view[l].gen BY <1>1, <1>3
    <3>2. QED BY <3>1, RevivedNew
  <2>2. Revived(b, l, gen) \in CollectorOf BY RevivedIs
  <2>3. u \in ViewOf /\ u.gen = gen /\ ~u.failed /\ u.connected = v.connected
    <3>1. u \in ViewOf BY <2>2 DEF CollectorOf
    <3> HIDE DEF u, v
    <3>2. QED BY <1>1, <2>1, <3>1 DEF ViewOf
  <2>4. ~(gen <= v.gen) BY <1>1, <1>3
  <2>5. QED BY <1>1, <1>3, <2>3, <2>4
<1>4. QED BY <1>1, <1>2, <1>3

(* An event is late and changes nothing, or it is of the lane's last         *)
(* connection and does what it says.                                         *)
LEMMA HeardMeans ==
    ASSUME NEW g, NEW b \in CollectorOf, NEW l \in Lanes, NEW e \in Events, NEW d \in CollectorOf,
           HeardIt(g, l, Revived(b, l, e.gen), d, e), ~HeardRefused(g, Revived(b, l, e.gen), d)
    PROVE  LET v == b.view[l]
               w == d.view[l]
           IN  /\ d.at = b.at /\ \A k \in Lanes \ {l} : d.view[k] = b.view[k]
               /\ \/ /\ d = b /\ e.gen <= v.gen /\ (e.gen = v.gen => v.failed)
                     /\ cancelled' = cancelled
                  \/ /\ v.gen <= e.gen /\ (e.gen = v.gen => ~v.failed) /\ Takes(v, w, e)
                     /\ cancelled' = IF e.kind = "error" /\ l = Source THEN cancelled \cup {g}
                                     ELSE cancelled
<1> DEFINE c == Revived(b, l, e.gen)
           v == b.view[l]
           u == c.view[l]
           w == d.view[l]
<1>1. e.gen \in Nat BY DEF Events
<1>2. /\ v \in ViewOf /\ u \in ViewOf /\ v.gen \in Nat /\ u.gen \in Nat
      /\ u.gen = IF v.gen < e.gen THEN e.gen ELSE v.gen
      /\ e.gen <= v.gen => u = v
      /\ v.gen < e.gen => ~u.failed
      /\ u.connected = v.connected
    BY <1>1, RevivedSees
<1>3. Late(c, l, e.gen) <=> e.gen < u.gen \/ u.failed BY DEF Late
<1>4. \/ Late(c, l, e.gen) /\ d = c /\ Told
      \/ /\ ~Late(c, l, e.gen)
         /\ \/ e.kind = "connected" /\ HeardConnected(l, c, d)
            \/ e.kind \in {"back", "back late"} /\ HeardBack(l, c, d, e)
            \/ e.kind \in {"lost", "planned"} /\ HeardLost(l, c, d, e)
            \/ e.kind = "word" /\ (HeardRow(g, l, c, d, e) \/ HeardFact(g, l, c, d, e))
            \/ e.kind = "error" /\ HeardError(g, l, c, d)
    BY DEF HeardIt
<1>5. d.at = b.at /\ \A k \in Lanes \ {l} : d.view[k] = b.view[k]
  <2>1. c.at = b.at /\ \A k \in Lanes \ {l} : c.view[k] = b.view[k] BY <1>1, RevivedIs
  <2>2. \A k \in Lanes \ {l} : d.view[k] = c.view[k] BY DEF HeardIt
  <2>3. d.at = c.at
      BY <1>4 DEF HeardConnected, HeardBack, HeardLost, HeardRow, HeardFact, HeardError, Kept
  <2>4. QED BY <2>1, <2>2, <2>3
<1>6. CASE Late(c, l, e.gen) /\ d = c /\ Told
  <2>1. e.gen <= v.gen /\ (e.gen = v.gen => v.failed)
    <3> HIDE DEF c, v, u
    <3>1. QED BY <1>1, <1>2, <1>3, <1>6
  <2>2. d = b BY <1>6, <2>1, RevivedSame
  <2>3. QED BY <1>5, <1>6, <2>1, <2>2 DEF Told
<1>7. CASE ~Late(c, l, e.gen)
  <2>1. e.gen = u.gen /\ ~u.failed
    <3> HIDE DEF c, v, u
    <3>1. QED BY <1>1, <1>2, <1>3, <1>7
  <2>9. cancelled' = IF e.kind = "error" /\ l = Source THEN cancelled \cup {g} ELSE cancelled
      BY <1>4, <1>7, Zenon DEF HeardConnected, HeardBack, HeardLost, HeardRow, HeardFact, HeardError, Told
  <2> DEFINE Rest == /\ w.gen = u.gen /\ (w.failed <=> e.kind = "error")
                     /\ w.connected <=> \/ e.kind = "connected"
                                        \/ u.connected /\ e.kind \notin {"lost", "error"}
                     /\ e.kind \in Losses => w.awaiting
                     /\ e.kind = "word" => w = u
  <2>2. ASSUME e.kind = "connected", HeardConnected(l, c, d) PROVE Rest
    <3>1. w = [u EXCEPT !.connected = TRUE, !.awaiting = FALSE] BY <2>2 DEF HeardConnected
    <3>2. e.kind \notin Losses /\ e.kind = "connected" /\ e.kind # "error" /\ e.kind # "word"
        BY <2>2 DEF Losses
    <3> HIDE DEF u, w
    <3>3. w.gen = u.gen /\ ~w.failed /\ w.connected BY <1>2, <2>1, <3>1 DEF ViewOf
    <3>4. QED BY <3>2, <3>3, Zenon
  <2>3. ASSUME e.kind \in {"back", "back late"}, HeardBack(l, c, d, e) PROVE Rest
    <3> DEFINE late == u.awaiting /\ e.kind = "back late"
    <3>1. w = [u EXCEPT !.awaiting = FALSE, !.epoch = IF late THEN c.epoch + 1 ELSE @]
        BY <2>3 DEF HeardBack
    <3>2. e.kind \notin Losses /\ e.kind # "error" /\ e.kind # "word"
        /\ e.kind # "connected" /\ e.kind \notin {"lost", "error"}
        BY <2>3 DEF Losses
    <3> HIDE DEF u, w, late
    <3>3. w.gen = u.gen /\ ~w.failed /\ (w.connected <=> u.connected)
        BY <1>2, <2>1, <3>1 DEF ViewOf
    <3>4. QED BY <3>2, <3>3, Zenon
  <2>4. ASSUME e.kind \in {"lost", "planned"}, HeardLost(l, c, d, e) PROVE Rest
    <3>1. w = [u EXCEPT !.awaiting = TRUE, !.connected = @ /\ e.kind = "planned"]
        BY <2>4 DEF HeardLost
    <3>2. e.kind # "error" /\ e.kind # "word" /\ e.kind # "connected"
        /\ (e.kind = "planned" <=> e.kind \notin {"lost", "error"})
        BY <2>4
    <3> HIDE DEF u, w
    <3>3. /\ w.gen = u.gen /\ ~w.failed /\ w.awaiting
          /\ (w.connected <=> u.connected /\ e.kind = "planned")
        BY <1>2, <2>1, <3>1 DEF ViewOf
    <3>4. QED BY <3>2, <3>3, Zenon
  <2>5. ASSUME e.kind = "word", HeardRow(g, l, c, d, e) \/ HeardFact(g, l, c, d, e) PROVE Rest
    <3>1. d.view = c.view BY <2>5 DEF HeardRow, HeardFact
    <3>2. w = u BY <3>1
    <3>3. e.kind \notin Losses \cup {"lost", "error"} /\ e.kind # "error" /\ e.kind # "connected"
        BY <2>5 DEF Losses
    <3> HIDE DEF u, w
    <3>4. QED BY <2>1, <3>2, <3>3
  <2>6. ASSUME e.kind = "error", HeardError(g, l, c, d) PROVE Rest
    <3>1. w = [u EXCEPT !.connected = FALSE, !.failed = TRUE] BY <2>6 DEF HeardError
    <3>2. e.kind \notin Losses /\ e.kind # "connected" /\ e.kind # "word" /\ e.kind \in {"lost", "error"}
        BY <2>6 DEF Losses
    <3> HIDE DEF u, w
    <3>3. w.gen = u.gen /\ w.failed /\ ~w.connected BY <1>2, <3>1 DEF ViewOf
    <3>4. QED BY <2>6, <3>2, <3>3, Zenon
  <2>7. Rest BY <1>4, <1>7, <2>2, <2>3, <2>4, <2>5, <2>6, Zenon
  <2>8. v.gen <= e.gen /\ (e.gen = v.gen => ~v.failed) /\ Takes(v, w, e)
    <3> HIDE DEF c, v, u, w
    <3>1. v.gen <= e.gen /\ (e.gen = v.gen => u = v) BY <1>1, <1>2, <2>1
    <3>2. QED BY <1>2, <2>1, <2>7, <3>1 DEF Takes
  <2>10. QED BY <1>5, <2>8, <2>9
<1>8. QED BY <1>4, <1>6, <1>7

(* What is heard of a lane is what is seen of it.                            *)
LEMMA HeardSees ==
    ASSUME NEW g, NEW b \in CollectorOf, NEW l \in Lanes, NEW e \in Events, NEW d \in CollectorOf,
           b.view[l].failed => ~b.view[l].connected,
           HeardIt(g, l, Revived(b, l, e.gen), d, e), ~HeardRefused(g, Revived(b, l, e.gen), d)
    PROVE  Sees(b.view[l], d.view[l], e)
<1> DEFINE v == b.view[l]
           w == d.view[l]
<1>1. e.gen \in Nat /\ v.gen \in Nat BY DEF Events, CollectorOf, ViewOf
<1>2. \/ w = v /\ e.gen <= v.gen /\ (e.gen = v.gen => v.failed)
      \/ v.gen <= e.gen /\ (e.gen = v.gen => ~v.failed) /\ Takes(v, w, e)
  <2>1. /\ d.at = b.at /\ \A k \in Lanes \ {l} : d.view[k] = b.view[k]
        /\ \/ /\ d = b /\ e.gen <= v.gen /\ (e.gen = v.gen => v.failed)
              /\ cancelled' = cancelled
           \/ /\ v.gen <= e.gen /\ (e.gen = v.gen => ~v.failed) /\ Takes(v, w, e)
              /\ cancelled' = IF e.kind = "error" /\ l = Source THEN cancelled \cup {g}
                              ELSE cancelled
      BY HeardMeans
  <2>2. d = b => w = v OBVIOUS
  <2> HIDE DEF v, w
  <2>3. QED BY <2>1, <2>2, Zenon
<1>3. v.failed => ~v.connected OBVIOUS
<1> HIDE DEF v, w
<1>4. CASE w = v /\ e.gen <= v.gen /\ (e.gen = v.gen => v.failed)
    BY <1>1, <1>3, <1>4 DEF Sees, v, w
<1>5. CASE v.gen <= e.gen /\ (e.gen = v.gen => ~v.failed) /\ Takes(v, w, e)
  <2>1. w.gen = (IF v.gen < e.gen THEN e.gen ELSE v.gen) /\ ~(e.gen < v.gen)
      BY <1>1, <1>5 DEF Takes
  <2>2. Sees(v, w, e) BY <1>5, <2>1 DEF Sees, Takes
  <2>3. QED BY <2>2 DEF v, w
<1>6. QED BY <1>2, <1>4, <1>5 DEF v, w

(* A discontinuity is seen as the end of its connection.                     *)
LEMMA CutSees ==
    ASSUME NEW g, NEW b \in CollectorOf, b = col[g], NEW l \in Lanes, NEW cut \in CutOf, NEW d \in CollectorOf,
           b.view[l].failed => ~b.view[l].connected, CutAct(g, l, cut, d),
           NEW e, e.kind = "error", e.gen = cut.gen
    PROVE  Sees(b.view[l], d.view[l], e)
<1> DEFINE c == Revived(b, l, e.gen)
           v == b.view[l]
           u == c.view[l]
           w == d.view[l]
<1>1. e.gen \in Nat BY DEF CutOf
<1>2. /\ v \in ViewOf /\ u \in ViewOf /\ v.gen \in Nat /\ u.gen \in Nat
      /\ u.gen = IF v.gen < e.gen THEN e.gen ELSE v.gen
      /\ e.gen <= v.gen => u = v
      /\ v.gen < e.gen => ~u.failed
      /\ u.connected = v.connected
    BY <1>1, RevivedSees
<1>3. Late(c, l, e.gen) <=> e.gen < u.gen \/ u.failed BY DEF Late
<1>4. \/ Late(c, l, e.gen) /\ w = u
      \/ ~Late(c, l, e.gen) /\ w = [u EXCEPT !.connected = FALSE, !.failed = TRUE]
    BY DEF CutAct
<1>5. "error" \notin {"connected", "word"} \cup Losses BY DEF Losses
<1> HIDE DEF c, v, u, w
<1>6. CASE Late(c, l, e.gen) /\ w = u
  <2>1. /\ w = v /\ ~(v.gen < e.gen) /\ (e.gen = w.gen => w.failed) BY <1>1, <1>2, <1>3, <1>6
  <2>2. Sees(v, w, e)
    <3>1. v.failed => ~v.connected BY DEF v
    <3>2. QED BY <2>1, <3>1 DEF Sees
  <2>3. QED BY <2>2 DEF v, w
<1>7. CASE ~Late(c, l, e.gen) /\ w = [u EXCEPT !.connected = FALSE, !.failed = TRUE]
  <2>1. w.gen = u.gen /\ w.failed /\ ~w.connected BY <1>2, <1>7 DEF ViewOf
  <2>2. w.gen = (IF v.gen < e.gen THEN e.gen ELSE v.gen) /\ ~(e.gen < v.gen)
      BY <1>1, <1>2, <1>3, <1>7, <2>1
  <2>3. Sees(v, w, e) BY <1>5, <2>1, <2>2 DEF Sees
  <2>4. QED BY <2>3 DEF v, w
<1>8. QED BY <1>4, <1>6, <1>7

-----------------------------------------------------------------------------
(* What is known of the group that is there, and of its lanes.               *)
LEMMA PresentIs ==
    ASSUME WriterInv
    PROVE  /\ Typed /\ Commands /\ opened \in Nat
           /\ \A g \in Groups : col[g].at = "run" => g <= opened
           /\ remote # None =>
                 /\ remote \in Groups /\ remote = opened /\ ~(remote > opened)
                 /\ stream \in [Lanes -> StreamOf] /\ inbox[remote] \in [Lanes -> Seq(Events)]
                 /\ col[remote] \in CollectorOf /\ cuts[remote] \subseteq CutOf
                 /\ \A l \in Lanes : /\ stream[l].gen \in Nat /\ col[remote].view[l].gen \in Nat
                                     /\ Cuts(cuts[remote], l) \subseteq Nat
                                     /\ \A i \in 1..Len(inbox[remote][l]) :
                                           inbox[remote][l][i].gen \in Nat
<1>1. Typed /\ Commands /\ opened \in Nat BY DEF WriterInv, Typed, TypeOK
<1>2. \A g \in Groups : col[g].at = "run" => g <= opened BY <1>1 DEF Commands, Groups
<1>3. ASSUME remote # None
      PROVE  /\ remote \in Groups /\ remote = opened /\ ~(remote > opened)
             /\ stream \in [Lanes -> StreamOf] /\ inbox[remote] \in [Lanes -> Seq(Events)]
             /\ col[remote] \in CollectorOf /\ cuts[remote] \subseteq CutOf
  <2>1. remote \in Groups /\ remote = opened /\ ~(remote > opened)
      BY <1>1, <1>3 DEF Commands, Typed, TypeOK, Groups, None
  <2>2. QED BY <1>1, <2>1 DEF Typed
<1>4. ASSUME remote # None, NEW l \in Lanes
      PROVE  /\ stream[l].gen \in Nat /\ col[remote].view[l].gen \in Nat
             /\ Cuts(cuts[remote], l) \subseteq Nat
             /\ \A i \in 1..Len(inbox[remote][l]) : inbox[remote][l][i].gen \in Nat
  <2>1. stream[l].gen \in Nat /\ col[remote].view[l].gen \in Nat
      BY <1>3, <1>4 DEF StreamOf, CollectorOf, ViewOf
  <2>2. Cuts(cuts[remote], l) \subseteq Nat BY <1>3, <1>4 DEF Cuts, CutOf
  <2>3. \A x \in Events : x.gen \in Nat BY DEF Events
  <2>4. inbox[remote][l] \in Seq(Events) BY <1>3, <1>4
  <2>5. \A i \in 1..Len(inbox[remote][l]) : inbox[remote][l][i] \in Events BY <2>4, ElementOfSeq
  <2>6. QED BY <2>1, <2>2, <2>3, <2>5
<1>5. QED BY <1>1, <1>2, <1>3, <1>4

(* Then the collector sees what it saw.                                      *)
LEMMA UnseenKeeps ==
    ASSUME Watched, Unseen
    PROVE  Watched'
<1>1. Unused' BY DEF Watched, Unseen, Unused
<1>2. Tended' => Sights' BY DEF Watched, Unseen, Sights
<1>3. QED BY <1>1, <1>2 DEF Watched

(* A stream connects, speaks, drops, dies or finishes: it tells of it.       *)
LEMMA ViewStreams ==
    ASSUME WriterInv, GroupAssumption, Watched, NEW l \in Lanes, StreamStep(l)
    PROVE  Watched'
<1>1. Typed /\ Runs(l) /\ StreamActs(l) /\ opened \in Groups
  <2>1. Typed BY DEF WriterInv
  <2>2. Runs(l) /\ StreamActs(l) BY <2>1, StreamActsIs
  <2>3. QED BY <2>1, <2>2 DEF Runs, Typed, TypeOK, Groups, None
<1>2. remote # None => remote = opened BY PresentIs
<1>3. \E r, es : /\ Moves(l, r, es)
                 /\ Tended => Shows(inbox[opened][l] \o es, r, col[opened].view[l], Cuts(cuts[opened], l))
  <2>1. CASE Tended
    <3> DEFINE v == col[opened].view[l]
               C == Cuts(cuts[opened], l)
    <3>1. Shows(inbox[opened][l], stream[l], v, C) BY <1>2, <2>1 DEF Watched, Tended, Sights
    <3> HIDE DEF v, C
    <3>2. \E r, es : Moves(l, r, es) /\ Shows(inbox[opened][l] \o es, r, v, C)
        BY <1>1, <3>1, StreamShows
    <3>3. QED BY <3>2, Zenon DEF v, C
  <2>2. CASE ~Tended
    <3>1. \E r, es : Moves(l, r, es) BY <1>1 DEF StreamActs
    <3>2. QED BY <2>2, <3>1, Zenon
  <2>3. QED BY <2>1, <2>2
<1>4. PICK r, es : /\ Moves(l, r, es)
                   /\ Tended => Shows(inbox[opened][l] \o es, r, col[opened].view[l], Cuts(cuts[opened], l))
    BY <1>3
<1>5. /\ stream' = [stream EXCEPT ![l] = r] /\ inbox' = [inbox EXCEPT ![opened][l] = @ \o es]
      /\ UNCHANGED <<opened, remote, col, cuts>>
    BY <1>4 DEF Moves
<1>6. /\ stream'[l] = r /\ inbox'[opened][l] = inbox[opened][l] \o es
      /\ \A k \in Lanes : k # l => stream'[k] = stream[k] /\ inbox'[opened][k] = inbox[opened][k]
      /\ \A g \in Groups : g # opened => inbox'[g] = inbox[g]
    BY <1>1, <1>5 DEF Typed
<1>7. Unused'
  <2>1. \A g \in Groups : g > opened => g # opened BY <1>1 DEF Groups
  <2>2. QED BY <1>5, <1>6, <2>1 DEF Watched, Unused
<1>8. ASSUME Tended' PROVE Sights'
  <2>1. Tended /\ remote = opened BY <1>2, <1>5, <1>8 DEF Tended
  <2>2. ASSUME NEW k \in Lanes
        PROVE  Shows(inbox'[remote][k], stream'[k], col[remote].view[k], Cuts(cuts[remote], k))
    <3>1. CASE k = l BY <1>4, <1>6, <2>1, <3>1
    <3>2. CASE k # l BY <1>6, <2>1, <3>2 DEF Watched, Sights
    <3>3. QED BY <3>1, <3>2
  <2>3. QED BY <1>5, <2>2 DEF Sights
<1>9. QED BY <1>7, <1>8 DEF Watched

(* The collector hears an event of a lane.                                   *)
LEMMA ViewHears ==
    ASSUME WriterInv, Watched, NEW g \in Groups, NEW l \in Lanes, Hear(g, l)
    PROVE  Watched'
<1>1. Typed /\ opened \in Nat /\ (col[g].at = "run" => g <= opened) BY PresentIs
<1>2. PICK e \in Events : \E d \in CollectorOf : HeardAct(g, l, e, d) BY <1>1, HearIs
<1>3. PICK d \in CollectorOf : HeardAct(g, l, e, d) BY <1>2
<1>4. /\ col[g].at = "run" /\ inbox[g][l] # << >> /\ e = Head(inbox[g][l])
      /\ inbox' = [inbox EXCEPT ![g][l] = Tail(@)]
      /\ col' = [col EXCEPT ![g] = d]
      /\ HeardIt(g, l, Revived(col[g], l, e.gen), d, e)
      /\ UNCHANGED <<opened, remote, stream, cuts>>
    BY <1>3 DEF HeardAct
<1>5. /\ inbox'[g][l] = Tail(inbox[g][l]) /\ \A k \in Lanes \ {l} : inbox'[g][k] = inbox[g][k]
      /\ \A h \in Groups \ {g} : inbox'[h] = inbox[h] /\ col'[h] = col[h]
      /\ col'[g] = d /\ inbox[g][l] \in Seq(Events) /\ col[g] \in CollectorOf
    BY <1>1, <1>4 DEF Typed
<1>6. \A h \in Groups : h > opened => h # g BY <1>1, <1>4 DEF Groups
<1>7. CASE remote # g
  <2>1. remote # None => remote \in Groups \ {g} BY <1>7, PresentIs
  <2>2. Unseen BY <1>4, <1>5, <1>6, <2>1 DEF Unseen, Tended
  <2>3. QED BY <2>2, UnseenKeeps
<1>8. CASE remote = g
  <2>1. Unused' BY <1>4, <1>5, <1>6 DEF Watched, Unused
  <2>2. ASSUME Tended' PROVE Sights'
    <3>1. remote # None /\ Tended /\ Sights BY <1>4, <1>8, <2>2 DEF Tended, Watched
    <3>2. ~HeardRefused(g, Revived(col[g], l, e.gen), d)
      <4>1. d.at = "run" BY <1>4, <1>5, <1>8, <2>2 DEF Tended
      <4>2. [col[g] EXCEPT !.at = "settling"].at = "settling" BY <1>5 DEF CollectorOf
      <4>3. QED BY <4>1, <4>2 DEF HeardRefused
    <3> DEFINE b == col[g]
               q == inbox[g][l]
               s == stream[l]
               v == b.view[l]
               w == d.view[l]
               C == Cuts(cuts[g], l)
    <3>3. /\ s.gen \in Nat /\ v.gen \in Nat /\ Shows(q, s, v, C)
          /\ q \in Seq(Events) /\ q # << >> /\ e = Head(q) /\ e.gen \in Nat
      <4>1. s.gen \in Nat /\ v.gen \in Nat BY <1>8, <3>1, PresentIs
      <4>2. e.gen \in Nat BY DEF Events
      <4>3. QED BY <1>4, <1>5, <1>8, <3>1, <4>1, <4>2 DEF Sights
    <3>4. Sees(v, w, e)
      <4>1. b.view[l].failed => ~b.view[l].connected BY <3>3 DEF Shows, Bounded
      <4>2. b \in CollectorOf /\ HeardIt(g, l, Revived(b, l, e.gen), d, e)
            /\ ~HeardRefused(g, Revived(b, l, e.gen), d)
          BY <1>4, <1>5, <3>2
      <4> HIDE DEF b
      <4>3. QED BY <4>1, <4>2, HeardSees
    <3>5. \A k \in Lanes \ {l} : d.view[k] = b.view[k]
      <4>1. \A k \in Lanes \ {l} : d.view[k] = Revived(b, l, e.gen).view[k] BY <1>4 DEF HeardIt
      <4>2. \A k \in Lanes \ {l} : Revived(b, l, e.gen).view[k] = b.view[k]
          BY <1>5, <3>3, RevivedIs
      <4>3. QED BY <4>1, <4>2
    <3> HIDE DEF b, q, s, v, w, C
    <3>6. Shows(Tail(q), s, w, C) BY <3>3, <3>4, SeesShows
    <3>7. ASSUME NEW k \in Lanes
          PROVE  Shows(inbox'[g][k], stream[k], d.view[k], Cuts(cuts[g], k))
      <4>1. CASE k = l BY <1>5, <3>6, <4>1 DEF q, s, w, C
      <4>2. CASE k # l BY <1>5, <1>8, <3>1, <3>5, <4>2 DEF Sights, b
      <4>3. QED BY <4>1, <4>2
    <3>8. QED BY <1>4, <1>5, <1>8, <3>7 DEF Sights
  <2>3. QED BY <2>1, <2>2 DEF Watched
<1>9. QED BY <1>7, <1>8

(* A cut that is heard is one the lane waits for no more.                    *)
LEMMA CutsLess ==
    ASSUME NEW K, K \subseteq CutOf, NEW cut \in K
    PROVE  /\ Cuts(K \ {cut}, cut.lane) = Cuts(K, cut.lane) \ {cut.gen}
           /\ cut.gen \in Cuts(K, cut.lane)
           /\ \A k : k # cut.lane => Cuts(K \ {cut}, k) = Cuts(K, k)
<1>1. \A x \in K : x.lane = cut.lane /\ x.gen = cut.gen => x = cut BY DEF CutOf
<1>2. QED BY <1>1 DEF Cuts

(* The collector hears a discontinuity, before what is still queued.         *)
LEMMA ViewCuts ==
    ASSUME WriterInv, Watched, NEW g \in Groups, NEW l \in Lanes, HearCut(g, l)
    PROVE  Watched'
<1>1. Typed /\ opened \in Nat /\ (col[g].at = "run" => g <= opened) BY PresentIs
<1>2. PICK cut \in CutOf : \E d \in CollectorOf : CutAct(g, l, cut, d) BY <1>1, HearCutIs
<1>3. PICK d \in CollectorOf : CutAct(g, l, cut, d) BY <1>2
<1>4. /\ col[g].at = "run" /\ cut \in cuts[g] /\ cut.lane = l
      /\ cuts' = [cuts EXCEPT ![g] = @ \ {cut}]
      /\ col' = [col EXCEPT ![g] = d]
      /\ \A k \in Lanes \ {l} : d.view[k] = Revived(col[g], l, cut.gen).view[k]
      /\ UNCHANGED <<opened, remote, stream, inbox>>
    BY <1>3 DEF CutAct
<1>5. /\ cuts'[g] = cuts[g] \ {cut} /\ col'[g] = d
      /\ \A h \in Groups \ {g} : cuts'[h] = cuts[h] /\ col'[h] = col[h]
      /\ cuts[g] \subseteq CutOf /\ col[g] \in CollectorOf
    BY <1>1, <1>4 DEF Typed
<1>6. \A h \in Groups : h > opened => h # g BY <1>1, <1>4 DEF Groups
<1>7. CASE remote # g
  <2>1. remote # None => remote \in Groups \ {g} BY <1>7, PresentIs
  <2>2. Unseen BY <1>4, <1>5, <1>6, <2>1 DEF Unseen, Tended
  <2>3. QED BY <2>2, UnseenKeeps
<1>8. CASE remote = g
  <2>1. Unused' BY <1>4, <1>5, <1>6 DEF Watched, Unused
  <2>2. ASSUME Tended' PROVE Sights'
    <3>1. remote # None /\ Tended /\ Sights BY <1>4, <1>8, <2>2 DEF Tended, Watched
    <3> DEFINE b == col[g]
               q == inbox[g][l]
               s == stream[l]
               v == b.view[l]
               w == d.view[l]
               C == Cuts(cuts[g], l)
               n == cut.gen
               e == [kind |-> "error", gen |-> n]
    <3>2. s.gen \in Nat /\ v.gen \in Nat /\ Shows(q, s, v, C) /\ n \in Nat
      <4>1. s.gen \in Nat /\ v.gen \in Nat BY <1>8, <3>1, PresentIs
      <4>2. QED BY <1>8, <3>1, <4>1 DEF Sights, CutOf
    <3>3. /\ Cuts(cuts'[g], l) = C \ {n} /\ n \in C
          /\ \A k \in Lanes : k # l => Cuts(cuts'[g], k) = Cuts(cuts[g], k)
      <4> DEFINE K == cuts[g]
      <4>1. K \subseteq CutOf /\ cut \in K BY <1>4, <1>5
      <4> HIDE DEF K
      <4>2. /\ Cuts(K \ {cut}, cut.lane) = Cuts(K, cut.lane) \ {cut.gen}
            /\ cut.gen \in Cuts(K, cut.lane)
            /\ \A k : k # cut.lane => Cuts(K \ {cut}, k) = Cuts(K, k)
          BY <4>1, CutsLess
      <4>3. QED BY <1>4, <1>5, <4>2 DEF K
    <3>4. Sees(v, w, e) /\ e.kind = "error" /\ e.gen = n
      <4>1. v.failed => ~v.connected BY <3>2 DEF Shows, Bounded
      <4>2. e.kind = "error" /\ e.gen = n OBVIOUS
      <4> HIDE DEF e
      <4>3. b \in CollectorOf /\ b = col[g] /\ (b.view[l].failed => ~b.view[l].connected)
          BY <1>5, <4>1
      <4> HIDE DEF b
      <4>4. Sees(b.view[l], d.view[l], e) BY <1>3, <4>2, <4>3, CutSees
      <4>5. QED BY <4>2, <4>4
    <3>5. \A k \in Lanes \ {l} : d.view[k] = b.view[k]
      <4>1. \A k \in Lanes \ {l} : Revived(b, l, cut.gen).view[k] = b.view[k]
        <5>1. b \in CollectorOf /\ cut.gen \in Nat BY <1>5, <3>2
        <5> HIDE DEF b
        <5>2. QED BY <5>1, RevivedIs
      <4>2. QED BY <1>4, <4>1
    <3> HIDE DEF b, q, s, v, w, C, n, e
    <3>6. Shows(q, s, w, C \ {n}) BY <3>2, <3>3, <3>4, SeesCut
    <3>7. ASSUME NEW k \in Lanes
          PROVE  Shows(inbox[g][k], stream[k], d.view[k], Cuts(cuts'[g], k))
      <4>1. CASE k = l BY <3>3, <3>6, <4>1 DEF q, s, w
      <4>2. CASE k # l BY <1>8, <3>1, <3>3, <3>5, <4>2 DEF Sights, b
      <4>3. QED BY <4>1, <4>2
    <3>8. QED BY <1>4, <1>5, <1>8, <3>7 DEF Sights
  <2>3. QED BY <2>1, <2>2 DEF Watched
<1>9. QED BY <1>7, <1>8

(* The cuts of a lane are those of before, and the one it is sent now.       *)
LEMMA CutsMore ==
    ASSUME Typed, remote \in Groups, NEW dead \in SUBSET Aux, Cut(dead)
    PROVE  /\ \A l \in Lanes : Cuts(cuts'[remote], l) = CutLane(l, dead)
           /\ \A h \in Groups \ {remote} : cuts'[h] = cuts[h]
<1> DEFINE N == {[lane |-> l, gen |-> stream[l].gen] : l \in dead}
<1>1. cuts'[remote] = cuts[remote] \cup N /\ \A h \in Groups \ {remote} : cuts'[h] = cuts[h]
    BY DEF Cut, Typed
<1>2. ASSUME NEW l \in Lanes PROVE Cuts(cuts[remote] \cup N, l) = CutLane(l, dead)
  <2>1. {x \in N : x.lane = l} = IF l \in dead THEN {[lane |-> l, gen |-> stream[l].gen]} ELSE {}
      OBVIOUS
  <2> DEFINE M == {x \in N : x.lane = l}
             K == {x \in cuts[remote] : x.lane = l}
  <2>2. {x \in cuts[remote] \cup N : x.lane = l} = K \cup M OBVIOUS
  <2> HIDE DEF N
  <2>3. {cut.gen : cut \in K \cup M} = {cut.gen : cut \in K} \cup {cut.gen : cut \in M} OBVIOUS
  <2>4. {cut.gen : cut \in M} = IF l \in dead THEN {stream[l].gen} ELSE {}
    <3>1. M = IF l \in dead THEN {[lane |-> l, gen |-> stream[l].gen]} ELSE {} BY <2>1
    <3> HIDE DEF M
    <3>2. CASE l \in dead BY <3>1, <3>2
    <3>3. CASE l \notin dead BY <3>1, <3>3
    <3>4. QED BY <3>2, <3>3
  <2>5. Cuts(cuts[remote], l) = {cut.gen : cut \in K} BY DEF Cuts
  <2>6. Cuts(cuts[remote] \cup N, l) = {cut.gen : cut \in K \cup M} BY <2>2 DEF Cuts
  <2> DEFINE A == {cut.gen : cut \in K}
             B == {cut.gen : cut \in M}
  <2>7. /\ Cuts(cuts[remote] \cup N, l) = A \cup B /\ Cuts(cuts[remote], l) = A
        /\ B = IF l \in dead THEN {stream[l].gen} ELSE {}
      BY <2>3, <2>4, <2>5, <2>6
  <2> HIDE DEF A, B
  <2>8. QED BY <2>7 DEF CutLane
<1>3. QED BY <1>1, <1>2

(* Stopping, forgiving and replacing lanes leaves no end untold.             *)
LEMMA OwnerHandles ==
    ASSUME Typed, NEW l \in Lanes, NEW dead, NEW lanes, NEW next
    PROVE  LET C == Cuts(cuts[remote], l)
               D == CutLane(l, dead)
               s == stream[l]
           IN  /\ Handled(s, s, C, C)
               /\ Handled(s, Stopped(dead)[l], C, D)
               /\ (l \in lanes => Stopped(dead)[l].stopped) =>
                     Handled(s, Replaced(Stopped(dead), lanes, next)[l], C, D)
               /\ (l \in lanes => Forgiven(Stopped(dead))[l].stopped) =>
                     Handled(s, Replaced(Forgiven(Stopped(dead)), lanes, next)[l], C, D)
<1> DEFINE C == Cuts(cuts[remote], l)
           D == CutLane(l, dead)
           s == stream[l]
           a == Stopped(dead)[l]
           f == Forgiven(Stopped(dead))[l]
<1>1. s \in StreamOf BY DEF Typed
<1>2. /\ a = IF l \in dead THEN [s EXCEPT !.stopped = TRUE] ELSE s
      /\ f = [a EXCEPT !.restarts = 0]
      /\ D = IF l \in dead THEN C \cup {s.gen} ELSE C
    BY DEF Stopped, Forgiven, CutLane
<1>3. \A x : Replaced(x, lanes, next)[l] =
                IF l \in lanes THEN Stream(next, x[l].gen + 1, x[l].restarts + 1) ELSE x[l]
    BY DEF Replaced
<1>4. \A gen, n : /\ Stream(next, gen, n).gen = gen /\ ~Stream(next, gen, n).again
                  /\ Stream(next, gen, n).phase = "dial" /\ ~Stream(next, gen, n).stopped
    BY DEF Stream
<1> HIDE DEF C, D, s, a, f
<1>5. /\ a \in StreamOf /\ a.gen = s.gen /\ a.phase = s.phase /\ a.again = s.again
      /\ l \in dead => a.stopped /\ s.gen \in D /\ D = C \cup {s.gen}
      /\ l \notin dead => a.stopped = s.stopped /\ D = C
    BY <1>1, <1>2 DEF StreamOf
<1>6. /\ f.gen = a.gen /\ f.phase = a.phase /\ f.again = a.again /\ f.stopped = a.stopped
    BY <1>2, <1>5 DEF StreamOf
<1>7. D \in {C, C \cup {s.gen}} /\ (a.stopped => s.stopped \/ s.gen \in D) BY <1>5
<1>8. Handled(s, s, C, C) BY DEF Handled
<1>9. Handled(s, a, C, D) BY <1>5, <1>7 DEF Handled
<1>10. Handled(s, f, C, D) BY <1>5, <1>6, <1>7 DEF Handled
<1>11. ASSUME NEW n, NEW gen, gen = s.gen + 1, a.stopped
       PROVE  Handled(s, Stream(next, gen, n), C, D)
    BY <1>4, <1>7, <1>11 DEF Handled
<1>12. (l \in lanes => a.stopped) => Handled(s, Replaced(Stopped(dead), lanes, next)[l], C, D)
  <2>1. a.gen + 1 = s.gen + 1 BY <1>5
  <2>2. CASE l \in lanes BY <1>3, <1>11, <2>1, <2>2 DEF a
  <2>3. CASE l \notin lanes BY <1>3, <1>9, <2>3 DEF a
  <2>4. QED BY <2>2, <2>3
<1>13. (l \in lanes => f.stopped) => Handled(s, Replaced(Forgiven(Stopped(dead)), lanes, next)[l], C, D)
  <2>1. f.gen + 1 = s.gen + 1 /\ (f.stopped => a.stopped) BY <1>5, <1>6
  <2>2. CASE l \in lanes BY <1>3, <1>11, <2>1, <2>2 DEF f
  <2>3. CASE l \notin lanes BY <1>3, <1>10, <2>3 DEF f
  <2>4. QED BY <2>2, <2>3
<1>14. QED BY <1>8, <1>9, <1>12, <1>13 DEF C, D, s, a, f

(* This is all the owner does to lanes and cuts, with audio or a control.    *)
LEMMA OwnerTends ==
    ASSUME Push \/ Pause("pause") \/ Pause("resume") \/ Reopen
    PROVE  /\ UNCHANGED <<opened, inbox, col>>
           /\ cuts' = cuts \/ (remote # None /\ \E dead \in SUBSET Aux : Cut(dead))
           /\ \/ remote' = None
              \/ remote' = remote /\ UNCHANGED <<stream, cuts>>
              \/ remote' = remote /\ remote # None /\ \E dead \in SUBSET Aux : Tends(dead)
<1>1. UNCHANGED <<opened, inbox, col>> BY DEF Push, Pause, Reopen
<1> DEFINE Goal == /\ cuts' = cuts \/ (remote # None /\ \E dead \in SUBSET Aux : Cut(dead))
                   /\ \/ remote' = None
                      \/ remote' = remote /\ UNCHANGED <<stream, cuts>>
                      \/ remote' = remote /\ remote # None /\ \E dead \in SUBSET Aux : Tends(dead)
<1>2. CASE Push
  <2>1. ASSUME remote = None, UNCHANGED <<stream, cuts, owner, cancelled, health, faults>> PROVE Goal
      BY <2>1 DEF owner
  <2>2. ASSUME remote # None, NEW wedged \in SUBSET Lanes, FanOut(wedged) PROVE Goal
    <3> DEFINE dead == {l \in Aux : Refuses(l, wedged)}
    <3>1. dead \in SUBSET Aux OBVIOUS
    <3>2. \/ remote' = None /\ (UNCHANGED cuts \/ Cut(dead))
          \/ /\ Cut(dead) /\ remote' = remote
             /\ \E lanes \in SUBSET Aux :
                  /\ Reopens(Stopped(dead), lanes)
                  /\ stream' = Replaced(Stopped(dead), lanes, pushed + 2)
        BY <2>2 DEF FanOut, CleanUp, owner
    <3> HIDE DEF dead
    <3>3. \A lanes : Reopens(Stopped(dead), lanes) => \A l \in lanes : Stopped(dead)[l].stopped
        BY DEF Reopens, Due
    <3>4. remote' = None \/ (remote' = remote /\ Tends(dead))
      <4>1. CASE remote' = None BY <4>1
      <4>2. ASSUME Cut(dead), remote' = remote, NEW lanes \in SUBSET Aux, Reopens(Stopped(dead), lanes),
                   stream' = Replaced(Stopped(dead), lanes, pushed + 2)
            PROVE  Tends(dead)
          BY <3>3, <4>2, Zenon DEF Tends
      <4>3. QED BY <3>2, <4>1, <4>2
    <3>5. cuts' = cuts \/ Cut(dead) BY <3>2
    <3>6. QED BY <2>2, <3>1, <3>4, <3>5, Zenon
  <2>3. Goal BY <1>2, <2>1, <2>2 DEF Push
  <2>4. QED BY <1>1, <2>3
<1>3. CASE Pause("pause") \/ Pause("resume")
  <2>1. ASSUME remote = None, UNCHANGED <<stream, cuts, owner, cancelled, troubles>> PROVE Goal
      BY <2>1 DEF owner
  <2>2. ASSUME remote # None, NEW op, NEW wedged \in SUBSET Lanes, Control(op, wedged) PROVE Goal
    <3> DEFINE dead == {l \in Aux : Refuses(l, wedged)}
    <3>1. dead \in SUBSET Aux OBVIOUS
    <3>2. \/ remote' = None /\ (UNCHANGED cuts \/ Cut(dead))
          \/ Cut(dead) /\ remote' = remote /\ stream' = Stopped(dead)
        BY <2>2 DEF Control, owner
    <3> HIDE DEF dead
    <3>3. remote' = None \/ (remote' = remote /\ Tends(dead)) BY <3>2 DEF Tends
    <3>4. cuts' = cuts \/ Cut(dead) BY <3>2
    <3>5. QED BY <2>2, <3>1, <3>3, <3>4, Zenon
  <2>3. Goal BY <1>3, <2>1, <2>2 DEF Pause
  <2>4. QED BY <1>1, <2>3
<1>4. CASE Reopen
  <2> DEFINE dead == {l \in Aux : Refuses(l, {})}
             lanes == Forgiven(Stopped(dead))
             again == {l \in Aux : lanes[l].stopped}
  <2>1. dead \in SUBSET Aux /\ (\A l \in again : lanes[l].stopped) /\ remote # None
      BY <1>4 DEF Reopen
  <2>2. \/ remote' = remote /\ UNCHANGED <<stream, cuts>>
        \/ remote' = remote /\ Cut(dead) /\ stream' = Replaced(lanes, again, pushed + 1)
        \/ remote' = None /\ UNCHANGED cuts
      BY <1>4 DEF Reopen, CleanUp, owner
  <2> HIDE DEF dead, again
  <2>3. Cut(dead) /\ stream' = Replaced(lanes, again, pushed + 1) => Tends(dead)
      BY <2>1, Zenon DEF Tends
  <2>4. Goal BY <2>1, <2>2, <2>3, Zenon
  <2>5. QED BY <1>1, <2>4
<1>5. QED BY <1>2, <1>3, <1>4

(* So each lane is handled as the collector is told.                         *)
LEMMA TendsHandles ==
    ASSUME Typed, NEW dead \in SUBSET Aux, Tends(dead), NEW l \in Lanes
    PROVE  Handled(stream[l], stream'[l], Cuts(cuts[remote], l), CutLane(l, dead))
<1> DEFINE C == Cuts(cuts[remote], l)
           D == CutLane(l, dead)
           s == stream[l]
<1>1. /\ Handled(s, Stopped(dead)[l], C, D)
      /\ \A lanes, next : (l \in lanes => Stopped(dead)[l].stopped) =>
            Handled(s, Replaced(Stopped(dead), lanes, next)[l], C, D)
      /\ \A lanes, next : (l \in lanes => Forgiven(Stopped(dead))[l].stopped) =>
            Handled(s, Replaced(Forgiven(Stopped(dead)), lanes, next)[l], C, D)
    BY OwnerHandles
<1> HIDE DEF C, D, s
<1>2. CASE stream' = Stopped(dead) BY <1>1, <1>2 DEF C, D, s
<1>3. ASSUME NEW lanes, NEW next, \A k \in lanes : Stopped(dead)[k].stopped,
             stream' = Replaced(Stopped(dead), lanes, next)
      PROVE  Handled(s, stream'[l], C, D)
    BY <1>1, <1>3, Zenon
<1>4. ASSUME NEW lanes, NEW next, \A k \in lanes : Forgiven(Stopped(dead))[k].stopped,
             stream' = Replaced(Forgiven(Stopped(dead)), lanes, next)
      PROVE  Handled(s, stream'[l], C, D)
    BY <1>1, <1>4, Zenon
<1>5. Handled(s, stream'[l], C, D) BY <1>1, <1>3, <1>4 DEF Tends
<1>6. QED BY <1>5 DEF C, D, s

(* Audio and controls stop lanes, and tell the collector which.              *)
LEMMA ViewOwner ==
    ASSUME WriterInv, Watched, Push \/ Pause("pause") \/ Pause("resume") \/ Reopen
    PROVE  Watched'
<1>1. /\ UNCHANGED <<opened, inbox, col>>
      /\ cuts' = cuts \/ (remote # None /\ \E dead \in SUBSET Aux : Cut(dead))
      /\ \/ remote' = None
         \/ remote' = remote /\ UNCHANGED <<stream, cuts>>
         \/ remote' = remote /\ remote # None /\ \E dead \in SUBSET Aux : Tends(dead)
    BY OwnerTends
<1>2. /\ Typed
      /\ remote # None => remote \in Groups /\ ~(remote > opened)
    BY PresentIs
<1>3. Unused'
  <2>1. \A h \in Groups : h > opened => cuts'[h] = cuts[h] BY <1>1, <1>2, CutsMore
  <2>2. QED BY <1>1, <2>1 DEF Watched, Unused
<1>4. ASSUME Tended' PROVE Sights'
  <2>1. CASE remote' = None BY <1>4, <2>1 DEF Tended
  <2>2. CASE remote' = remote /\ UNCHANGED <<stream, cuts>>
      BY <1>1, <1>4, <2>2 DEF Watched, Tended, Sights
  <2>3. ASSUME remote' = remote, remote # None, NEW dead \in SUBSET Aux, Tends(dead)
        PROVE  Sights'
    <3>1. Sights /\ Cut(dead) BY <1>1, <1>4, <2>3 DEF Watched, Tended, Tends
    <3>2. ASSUME NEW l \in Lanes
          PROVE  Shows(inbox[remote][l], stream'[l], col[remote].view[l], Cuts(cuts'[remote], l))
      <4> DEFINE q == inbox[remote][l]
                 s == stream[l]
                 r == stream'[l]
                 v == col[remote].view[l]
                 C == Cuts(cuts[remote], l)
                 D == Cuts(cuts'[remote], l)
      <4>1. D = CutLane(l, dead) BY <1>2, <2>3, <3>1, CutsMore
      <4>2. Handled(s, r, C, D) BY <1>2, <2>3, <4>1, TendsHandles
      <4>3. /\ s.gen \in Nat /\ v.gen \in Nat /\ C \subseteq Nat /\ \A i \in 1..Len(q) : q[i].gen \in Nat
          BY <2>3, PresentIs
      <4>4. Shows(q, s, v, C) BY <3>1 DEF Sights
      <4> HIDE DEF q, s, r, v, C, D
      <4>5. Shows(q, r, v, D) BY <4>2, <4>3, <4>4, HandledShows
      <4>6. QED BY <4>5 DEF q, r, v, D
    <3>3. QED BY <1>1, <2>3, <3>2 DEF Sights
  <2>4. QED BY <1>1, <2>1, <2>2, <2>3
<1>5. QED BY <1>3, <1>4 DEF Watched

(* A group that opens has everything before it.                              *)
LEMMA ShowsFresh ==
    ASSUME NEW at, NEW next, NEW epoch, NEW n, NEW l \in Lanes
    PROVE  Shows(Silent[l], Stream(n, 0, 0), Collector(at, next, epoch).view[l], Cuts({}, l))
<1> DEFINE q == Silent[l]
           s == Stream(n, 0, 0)
           v == Collector(at, next, epoch).view[l]
           C == Cuts({}, l)
<1>1. v.gen = 0 /\ ~v.failed /\ ~v.connected
  <2>1. v = [View EXCEPT !.epoch = epoch] BY CollectorSees
  <2> HIDE DEF v
  <2>2. QED BY <2>1 DEF View
<1>2. /\ s.gen = 0 /\ s.phase = "dial" /\ ~s.again /\ ~s.stopped /\ s.phase # "up" /\ s.phase # "died"
    BY DEF Stream
<1>3. q = << >> /\ Len(q) = 0 /\ 1..Len(q) = {} BY DEF Silent
<1>4. C = {} BY DEF Cuts
<1> HIDE DEF q, s, v, C
<1>5. Bounded(q, s, v, C) BY <1>1, <1>2, <1>3, <1>4 DEF Bounded
<1>6. ~Ends(q, v, C, 0) BY <1>1, <1>3, <1>4 DEF Ends, Fails
<1>7. Tells(q, s, v) BY <1>1, <1>2, <1>3 DEF Tells
<1>8. Shows(q, s, v, C) BY <1>2, <1>5, <1>6, <1>7 DEF Shows
<1>9. QED BY <1>8 DEF q, s, v, C

(* A group opens with its lanes unseen.                                      *)
LEMMA ViewStarts ==
    ASSUME WriterInv, GroupAssumption, Watched, Start
    PROVE  Watched'
<1>1. Typed /\ opened \in Nat BY PresentIs
<1>2. UNCHANGED <<inbox, cuts>> /\ remote = None BY StartIs
<1>3. CASE UNCHANGED <<opened, remote, stream, col>>
  <2>1. Unseen BY <1>2, <1>3 DEF Unseen, Tended
  <2>2. QED BY <2>1, UnseenKeeps
<1>4. CASE /\ opened' = opened + 1 /\ remote' = opened + 1 /\ opened + 1 \in Groups
           /\ stream' = [l \in Lanes |-> Stream(pushed + 1, 0, 0)]
           /\ col' = [col EXCEPT ![opened + 1] = Collector("run", NextSequence, NextEpoch)]
  <2>1. opened' > opened /\ opened' \in Groups /\ remote' = opened' BY <1>1, <1>4
  <2>2. inbox[opened'] = Silent /\ cuts[opened'] = {} BY <2>1 DEF Watched, Unused
  <2>3. Unused'
    <3>1. \A h \in Groups : h > opened' => h > opened BY <1>1, <1>4 DEF Groups
    <3>2. QED BY <1>2, <3>1 DEF Watched, Unused, Silent
  <2>4. col'[opened'] = Collector("run", NextSequence, NextEpoch) BY <1>1, <1>4 DEF Typed
  <2>5. ASSUME NEW l \in Lanes
        PROVE  Shows(inbox'[remote'][l], stream'[l], col'[remote'].view[l], Cuts(cuts'[remote'], l))
    <3> DEFINE next == NextSequence
               epoch == NextEpoch
               n == pushed + 1
    <3>1. stream'[l] = Stream(n, 0, 0) /\ col'[remote'] = Collector("run", next, epoch)
          /\ inbox'[remote'] = Silent /\ cuts'[remote'] = {}
        BY <1>2, <1>4, <2>1, <2>2, <2>4
    <3> HIDE DEF next, epoch, n
    <3>2. Shows(Silent[l], Stream(n, 0, 0), Collector("run", next, epoch).view[l], Cuts({}, l))
        BY ShowsFresh
    <3>3. QED BY <3>1, <3>2
  <2>6. Sights' BY <2>5 DEF Sights
  <2>7. QED BY <2>3, <2>6 DEF Watched
<1>5. QED BY <1>3, <1>4, StartIs

(* A collector that breaks, settles or drains is not there to see.           *)
LEMMA ViewEnds ==
    ASSUME WriterInv, GroupAssumption, Watched, NEW g \in Groups, Break(g) \/ Settle(g) \/ Drain(g)
    PROVE  Watched'
<1>1. Typed BY DEF WriterInv
<1>2. /\ UNCHANGED <<opened, remote, stream>>
      /\ UNCHANGED <<inbox, cuts>> \/ Forget(g)
      /\ \E at \in {"settling", "failed", "done"} : col' = [col EXCEPT ![g].at = at]
    BY DEF Break, Settle, Drain, owner, queues
<1>3. col'[g].at # "run" /\ \A h \in Groups \ {g} : col'[h] = col[h]
  <2>1. PICK at \in {"settling", "failed", "done"} : col' = [col EXCEPT ![g].at = at] BY <1>2
  <2>2. QED BY <1>1, <2>1, AtIs
<1>4. /\ \A h \in Groups : inbox'[h] \in {inbox[h], Silent} /\ cuts'[h] \in {cuts[h], {}}
      /\ \A h \in Groups \ {g} : inbox'[h] = inbox[h] /\ cuts'[h] = cuts[h]
  <2>1. CASE UNCHANGED <<inbox, cuts>> BY <2>1
  <2>2. CASE Forget(g) BY <1>1, <2>2, ForgetIs
  <2>3. QED BY <1>2, <2>1, <2>2
<1>5. Unseen
  <2>1. remote # None => remote \in Groups BY PresentIs
  <2>2. QED BY <1>2, <1>3, <1>4, <2>1 DEF Unseen, Tended
<1>6. QED BY <1>5, UnseenKeeps

(* Nor is one that is aborted.                                               *)
LEMMA ViewAborts ==
    ASSUME WriterInv, GroupAssumption, Watched, NEW g \in Groups, Abort(g), UNCHANGED <<opened, remote, stream>>
    PROVE  Watched'
<1>1. Typed /\ Forget(g) BY DEF WriterInv, Abort
<1>2. /\ inbox'[g] = Silent /\ cuts'[g] = {}
      /\ \A h \in Groups \ {g} : inbox'[h] = inbox[h] /\ cuts'[h] = cuts[h]
    BY <1>1, ForgetIs
<1>3. col'[g].at = "aborted" /\ \A h \in Groups \ {g} : col'[h] = col[h] BY <1>1, AbortIs
<1>4. Unseen
  <2>1. remote # None => remote \in Groups BY PresentIs
  <2>2. QED BY <1>2, <1>3, <2>1 DEF Unseen, Tended
<1>5. QED BY <1>4, UnseenKeeps

(* Nor does anything change where no stream, queue or cut is touched.        *)
LEMMA ViewRests ==
    ASSUME Watched, UNCHANGED <<opened, stream, inbox, cuts, col>>, remote' \in {remote, None}
    PROVE  Watched'
<1>1. Unseen BY DEF Unseen, Tended
<1>2. QED BY <1>1, UnseenKeeps

(* Every step keeps the invariant.                                           *)
LEMMA ViewStep ==
    ASSUME ViewInv, GroupAssumption, [Next]_vars
    PROVE  ViewInv'
<1>1. WriterInv /\ WriterInv' /\ Watched /\ Typed /\ TypeOK /\ Commands
    BY WriterStep DEF ViewInv, WriterInv, Typed
<1>2. SUFFICES Watched' BY <1>1 DEF ViewInv
<1>3. ASSUME NEW l \in Lanes, Connect(l) \/ Say(l) \/ Drop(l) \/ Die(l) \/ Finish(l)
      PROVE  Watched'
  <2>1. StreamStep(l) BY <1>3 DEF StreamStep
  <2>2. QED BY <1>1, <2>1, ViewStreams
<1>4. ASSUME NEW g \in Groups, NEW l \in Lanes, Hear(g, l) \/ HearCut(g, l)
      PROVE  Watched'
    BY <1>1, <1>4, ViewHears, ViewCuts
<1>5. ASSUME NEW g \in Groups, Break(g) \/ Settle(g) \/ Drain(g) PROVE Watched'
    BY <1>1, <1>5, ViewEnds
<1>6. CASE Push \/ Pause("pause") \/ Pause("resume") \/ Reopen BY <1>1, <1>6, ViewOwner
<1>7. CASE Start BY <1>1, <1>7, ViewStarts
<1>8. CASE CleanupAborts
  <2>1. cleanup \in Groups BY <1>1, <1>8 DEF CleanupAborts, TypeOK, Groups, None
  <2>2. Abort(cleanup) /\ UNCHANGED <<opened, remote, stream>>
      BY <1>8 DEF CleanupAborts, KeepsStreams, owner
  <2>3. QED BY <1>1, <2>1, <2>2, ViewAborts
<1>9. CASE Close \/ CollectorEnds
  <2>1. call.at \in {"close", "drain"} /\ call.group # None /\ call \in CallOf
      BY <1>1, <1>9 DEF Close, CollectorEnds, Commands, Typed
  <2>2. call.group \in Groups BY <1>1, <2>1 DEF CallOf, TypeOK, Groups, None
  <2>3. /\ UNCHANGED <<opened, remote, stream>>
        /\ Abort(call.group) \/ UNCHANGED <<inbox, cuts, col>>
      BY <1>9 DEF Close, CollectorEnds, KeepsStreams, queues, owner
  <2>4. QED BY <1>1, <2>2, <2>3, ViewAborts, ViewRests
<1>10. CASE \/ Restart \/ Replace \/ Join \/ Stop \/ StreamsEnd \/ Complete \/ Interrupt \/ Leave
            \/ Over \/ UNCHANGED vars
  <2>1. UNCHANGED <<opened, stream, inbox, cuts, col>> /\ remote' \in {remote, None}
      BY <1>10 DEF Restart, Replace, Join, Stop, StreamsEnd, Complete, Interrupt, Leave, Over,
                   KeepsStreams, owner, queues, vars
  <2>2. QED BY <1>1, <2>1, ViewRests
<1>11. QED BY <1>3, <1>4, <1>5, <1>6, <1>7, <1>8, <1>9, <1>10 DEF Next

(* A recording starts with no group.                                         *)
LEMMA ViewInit ==
    ASSUME GroupAssumption, Init
    PROVE  ViewInv
<1>1. WriterInv BY WriterInit
<1>2. /\ inbox = [g \in Groups |-> Silent] /\ cuts = [g \in Groups |-> {}]
      /\ opened \in {0, 1} /\ stream = [l \in Lanes |-> Stream(1, 0, 0)]
      /\ col = [g \in Groups |-> Collector(IF g <= opened THEN "run" ELSE "none", 1, 0)]
    BY DEF Init
<1>3. Unused BY <1>2 DEF Unused
<1>4. ASSUME Tended, NEW l \in Lanes
      PROVE  Shows(inbox[remote][l], stream[l], col[remote].view[l], Cuts(cuts[remote], l))
  <2>1. remote \in Groups BY <1>1, <1>4, PresentIs DEF Tended
  <2> DEFINE at == IF remote <= opened THEN "run" ELSE "none"
  <2>2. /\ inbox[remote] = Silent /\ cuts[remote] = {} /\ stream[l] = Stream(1, 0, 0)
        /\ col[remote] = Collector(at, 1, 0)
      BY <1>2, <2>1
  <2> HIDE DEF at
  <2>3. Shows(Silent[l], Stream(1, 0, 0), Collector(at, 1, 0).view[l], Cuts({}, l))
      BY ShowsFresh
  <2>4. QED BY <2>2, <2>3
<1>5. QED BY <1>1, <1>3, <1>4 DEF ViewInv, Watched, Sights

(* Once all is heard, what is shown is what there is.                        *)
LEMMA ShowsMeans ==
    ASSUME NEW s, NEW v, Shows(<< >>, s, v, {}), s.gen \in Nat, v.gen \in Nat
    PROVE  /\ (s.phase = "up" /\ ~s.stopped) => (v.connected /\ ~v.failed /\ v.gen = s.gen)
           /\ (s.stopped \/ s.phase = "died") => v.failed
           /\ s.phase = "dial" => (~v.connected \/ v.awaiting)
<1> DEFINE q == << >>
<1>1. Len(q) = 0 /\ 1..Len(q) = {} OBVIOUS
<1>2. Shows(q, s, v, {}) OBVIOUS
<1> HIDE DEF q
<1>3. /\ v.gen <= s.gen /\ (v.failed => ~v.connected) BY <1>2 DEF Shows, Bounded
<1>4. /\ \A gen : Ends(q, v, {}, gen) => v.gen > gen \/ (v.gen = gen /\ v.failed)
      /\ \A kinds, gen : ~LastIs(q, kinds, gen)
    BY <1>1 DEF Ends, Fails, LastIs
<1>5. Ends(q, v, {}, s.gen) => v.failed BY <1>3, <1>4
<1>6. ASSUME s.phase = "up", ~s.stopped PROVE v.connected /\ ~v.failed /\ v.gen = s.gen
  <2>1. Tells(q, s, v) BY <1>2, <1>6 DEF Shows
  <2>2. v.connected /\ v.gen = s.gen BY <1>4, <1>6, <2>1 DEF Tells
  <2>3. QED BY <1>3, <2>2
<1>7. ASSUME s.stopped \/ s.phase = "died" PROVE v.failed BY <1>2, <1>5, <1>7 DEF Shows
<1>8. ASSUME s.phase = "dial", v.connected PROVE v.awaiting
  <2>1. ~v.failed BY <1>3, <1>8
  <2>2. ~s.stopped BY <1>7, <2>1
  <2>3. Tells(q, s, v) BY <1>2, <2>2 DEF Shows
  <2>4. CASE s.again BY <1>4, <1>8, <2>3, <2>4 DEF Tells
  <2>5. CASE ~s.again
    <3>1. v.gen # s.gen BY <1>8, <2>3, <2>5 DEF Tells
    <3>2. s.gen # 0 /\ ~(v.gen > s.gen - 1) BY <1>3, <3>1
    <3>3. Ends(q, v, {}, s.gen - 1) BY <1>2, <3>2 DEF Shows
    <3>4. QED BY <1>4, <2>1, <3>2, <3>3
  <2>6. QED BY <2>4, <2>5
<1>9. QED BY <1>6, <1>7, <1>8

(* The invariant has the property.                                           *)
LEMMA ViewMeans ==
    ASSUME ViewInv
    PROVE  ViewFollowsLane
<1>1. SUFFICES ASSUME Heard, NEW l \in Lanes
               PROVE  LET v == col[remote].view[l]
                      IN  /\ (stream[l].phase = "up" /\ ~stream[l].stopped) =>
                                 (v.connected /\ ~v.failed /\ v.gen = stream[l].gen)
                          /\ (stream[l].stopped \/ stream[l].phase = "died") => v.failed
                          /\ stream[l].phase = "dial" => (~v.connected \/ v.awaiting)
    BY DEF ViewFollowsLane
<1> DEFINE s == stream[l]
           v == col[remote].view[l]
<1>2. Sights /\ WriterInv BY <1>1 DEF Heard, ViewInv, Watched, Tended
<1>3. s.gen \in Nat /\ v.gen \in Nat BY <1>1, <1>2, PresentIs DEF Heard
<1>4. Shows(<< >>, s, v, {})
  <2>1. inbox[remote][l] = << >> /\ Cuts(cuts[remote], l) = {} BY <1>1 DEF Heard, Silent, Cuts
  <2>2. QED BY <1>2, <2>1 DEF Sights
<1> HIDE DEF s, v
<1>5. /\ (s.phase = "up" /\ ~s.stopped) => (v.connected /\ ~v.failed /\ v.gen = s.gen)
      /\ (s.stopped \/ s.phase = "died") => v.failed
      /\ s.phase = "dial" => (~v.connected \/ v.awaiting)
    BY <1>3, <1>4, ShowsMeans
<1>6. QED BY <1>5 DEF s, v

(* Once a collector has heard all that waits for it, what it shows of a lane *)
(* is what the lane is: connected when it is up, failed when it was stopped  *)
(* or died, waiting when it dials again, and never by words of an older      *)
(* connection, even where a group outlives its detachment                    *)
(* (handle_recording_stream_event).                                          *)
THEOREM CollectorSeesLanes ==
    Spec => []ViewFollowsLane
BY GroupAssumption, ViewInit, ViewStep, ViewMeans, PTL DEF Spec

-----------------------------------------------------------------------------
(* Where the last group is as it was, so is what is said of it.              *)
LEMMA ElsewhereKeeps ==
    ASSUME Unreplaced, Present, Reported, Elsewhere
    PROVE  Unreplaced' /\ Present' /\ Reported'
<1>1. Unreplaced' BY DEF Unreplaced, Elsewhere
<1>2. Present' BY DEF Present, Elsewhere, Attentive
<1>3. Attentive' /\ remote' # None => (health'.is = "live" <=> Live')
  <2>1. SUFFICES ASSUME Attentive', remote' # None PROVE health'.is = "live" <=> Live' OBVIOUS
  <2>2. health' = health /\ Attentive /\ remote # None /\ opened' = opened
        /\ col'[opened].view = col[opened].view
      BY <2>1 DEF Elsewhere
  <2>3. Live' <=> Live BY <2>2 DEF Live
  <2>4. QED BY <2>2, <2>3 DEF Reported
<1>4. Reported' BY <1>3 DEF Reported, Elsewhere, Down
<1>5. QED BY <1>1, <1>2, <1>4

(* Where a command is under way, the recording ends or a group is there,     *)
(* nothing is said of its absence.                                           *)
LEMMA GoneElsewhere ==
    ASSUME \/ ~(Free' /\ Recording' /\ remote' = None)
           \/ /\ Gone /\ Elsewhere /\ Free /\ remote = None
              /\ opened # None => col'[opened].at = col[opened].at
    PROVE  Gone'
<1>1. CASE ~(Free' /\ Recording' /\ remote' = None) BY <1>1 DEF Gone
<1>2. ASSUME Gone, Elsewhere, Free, remote = None, opened # None => col'[opened].at = col[opened].at,
             Recording'
      PROVE  Gone'
  <2>1. Recording /\ (health' = health \/ Down') BY <1>2 DEF Elsewhere
  <2>2. Down => Down' BY <2>1 DEF Down
  <2>3. Attentive' => col'[opened'].view[Source].failed \/ Fails(inbox'[opened'][Source], 0)
      BY <1>2, <2>1 DEF Elsewhere, Gone
  <2>4. opened' = opened /\ (opened' # None => col'[opened'].at = col[opened].at)
      BY <1>2 DEF Elsewhere
  <2>5. (opened' = None \/ col'[opened'].at \notin {"run", "settling"}) => Down'
      BY <1>2, <2>1, <2>2, <2>4 DEF Gone
  <2>6. QED BY <2>3, <2>5 DEF Gone, Fails
<1>3. QED BY <1>1, <1>2

(* The commands that touch neither streams nor collectors.                   *)
LEMMA HealthRests ==
    ASSUME WriterInv, Honest,
           \/ Restart \/ Replace \/ Join \/ Stop \/ StreamsEnd \/ Complete \/ Interrupt \/ Leave
           \/ Over \/ UNCHANGED vars
    PROVE  Honest'
<1>1. Commands /\ TypeOK /\ Unreplaced /\ Present /\ Reported BY DEF WriterInv, Typed, Honest
<1>2. /\ UNCHANGED <<opened, stream, inbox, col, health>> /\ remote' \in {remote, None}
      /\ mishap \subseteq mishap'
    BY DEF Restart, Replace, Join, Stop, StreamsEnd, Complete, Interrupt, Leave, RecordGap, Blame,
           Over, KeepsStreams, owner, queues, faults, record, vars
<1>3. /\ Recording' => Recording
      /\ remote' # None => (remote \in cancelled' => remote \in cancelled)
    BY <1>1 DEF Restart, Replace, Join, Stop, StreamsEnd, Complete, Interrupt, Leave, Commands,
           Over, KeepsStreams, Recording, owner, vars
<1>4. Restart \/ Replace \/ Join \/ StreamsEnd => call'.at \in {"restart", "start", "join", "tail", "leave", "drain"}
  <2>1. call \in CallOf BY DEF WriterInv, Typed
  <2>2. CASE Restart BY <2>2 DEF Restart, NoCall
  <2>3. \A at : GoTo(at) => call'.at = at BY <2>1 DEF CallOf, GoTo
  <2>4. CASE Replace \/ Join
    <3>1. \E at \in {"start", "join", "tail", "leave"} : GoTo(at) BY <2>4 DEF Replace, Join
    <3>2. QED BY <2>3, <3>1
  <2>5. CASE StreamsEnd BY <2>1, <2>5 DEF StreamsEnd, CallOf
  <2>6. QED BY <2>2, <2>4, <2>5
<1>5. call'.at = "close" => cleanup' = None
  <2>1. CASE Interrupt
    <3>1. call'.at = "close" => remote # None BY <2>1 DEF Interrupt, NoCall
    <3>2. QED BY <2>1, <3>1, <1>1 DEF Interrupt, TypeOK
  <2>2. CASE Stop \/ Complete \/ Leave BY <2>2 DEF Stop, Complete, Leave, NoCall
  <2>3. CASE Over \/ UNCHANGED vars BY <1>1, <2>3 DEF Over, vars, Present
  <2>4. QED BY <1>4, <2>1, <2>2, <2>3
<1>6. Elsewhere BY <1>2, <1>3, <1>5 DEF Elsewhere, Attentive
<1>7. Gone => Gone'
  <2>1. CASE Stop \/ Complete \/ Interrupt \/ Leave
    <3>1. ~Recording' BY <2>1 DEF Stop, Complete, Interrupt, Leave, Recording
    <3>2. QED BY <3>1, GoneElsewhere
  <2>2. CASE Restart \/ Replace \/ Join \/ StreamsEnd
    <3>1. call'.at # "none" BY <1>4, <2>2
    <3>2. ~Free' BY <3>1 DEF Free, NoCall
    <3>3. QED BY <3>2, GoneElsewhere
  <2>3. CASE Over \/ UNCHANGED vars
    <3>1. UNCHANGED vars BY <2>3 DEF Over
    <3>2. Free' <=> Free BY <3>1 DEF vars, Free
    <3>3. remote' = remote /\ col' = col /\ opened' = opened BY <3>1 DEF vars
    <3>4. QED BY <1>6, <3>2, <3>3, GoneElsewhere
  <2>4. QED BY <2>1, <2>2, <2>3
<1>8. Unreplaced' /\ Present' /\ Reported' BY <1>1, <1>6, ElsewhereKeeps
<1>9. QED BY <1>2, <1>7, <1>8 DEF Honest

(* Whatever it does, what a stream sends is of its connection.               *)
LEMMA StreamSends ==
    ASSUME Typed, NEW l \in Lanes, StreamActs(l)
    PROVE  \E r, es : SaysSo(l, r, es)
<1> DEFINE s == stream[l]
           Goal == \E r, es : SaysSo(l, r, es)
           Keeps(r) == r.gen = s.gen /\ (r.phase = "ended" => s.phase = "ended")
<1>1. s \in StreamOf /\ pushed \in Nat /\ 0 \in 0..pushed /\ s.next - 1 \in 0..pushed
    BY DEF Typed, TypeOK, StreamOf
<1>2. ASSUME NEW r, Keeps(r), NEW e \in Events, e.gen = s.gen, Moves(l, r, <<e>>) PROVE Goal
  <2>1. <<e>> \in Seq(Events) /\ \A i \in 1..Len(<<e>>) : <<e>>[i].gen = s.gen BY <1>2
  <2>2. QED BY <1>2, <2>1, Zenon DEF SaysSo
<1>3. ASSUME NEW r, Keeps(r), NEW e \in Events, NEW f \in Events, e.gen = s.gen, f.gen = s.gen,
             Moves(l, r, <<e, f>>)
      PROVE  Goal
  <2>1. <<e, f>> \in Seq(Events) /\ \A i \in 1..Len(<<e, f>>) : <<e, f>>[i].gen = s.gen BY <1>3
  <2>2. QED BY <1>3, <2>1, Zenon DEF SaysSo
<1>4. \A kind \in EventKinds, word \in 0..pushed : (kind = "word" => word # 0) =>
         Event(l, kind, word) \in Events /\ Event(l, kind, word).gen = s.gen
    BY EventIs
<1>5. {"connected", "back", "back late", "word", "lost", "planned", "error"} = EventKinds
    BY DEF EventKinds
<1>6. /\ Keeps([s EXCEPT !.phase = "up"]) /\ Keeps([s EXCEPT !.phase = "up", !.again = FALSE])
      /\ Keeps([s EXCEPT !.phase = "up", !.again = FALSE, !.next = pushed + 1, !.leg = @ + 1])
      /\ Keeps([s EXCEPT !.next = @ + 1]) /\ Keeps([s EXCEPT !.phase = "dial", !.again = TRUE])
      /\ Keeps([s EXCEPT !.phase = "died"]) /\ [s EXCEPT !.phase = "ended"].gen = s.gen
    BY <1>1 DEF StreamOf
<1>7. ASSUME NEW r, Keeps(r), NEW kind \in {"connected", "lost", "planned", "error"},
             Moves(l, r, <<Event(l, kind, 0)>>)
      PROVE  Goal
  <2>1. Event(l, kind, 0) \in Events /\ Event(l, kind, 0).gen = s.gen BY <1>1, <1>4, <1>5
  <2>2. QED BY <1>2, <1>7, <2>1, Zenon
<1>8. ASSUME NEW r, Keeps(r), NEW kind \in {"back", "back late"},
             Moves(l, r, <<Event(l, kind, s.next - 1), Event(l, "connected", 0)>>)
      PROVE  Goal
  <2>1. /\ Event(l, kind, s.next - 1) \in Events /\ Event(l, kind, s.next - 1).gen = s.gen
        /\ Event(l, "connected", 0) \in Events /\ Event(l, "connected", 0).gen = s.gen
      BY <1>1, <1>4, <1>5
  <2>2. QED BY <1>3, <1>8, <2>1, Zenon
<1>9. ASSUME s.next <= pushed, Moves(l, [s EXCEPT !.next = @ + 1], <<Event(l, "word", s.next)>>)
      PROVE  Goal
  <2>1. s.next \in 0..pushed /\ s.next # 0 BY <1>1, <1>9 DEF StreamOf
  <2>2. Event(l, "word", s.next) \in Events /\ Event(l, "word", s.next).gen = s.gen
      BY <1>4, <1>5, <2>1
  <2>3. QED BY <1>2, <1>6, <1>9, <2>2, Zenon
<1>10. ASSUME call.op = "stop", Moves(l, [s EXCEPT !.phase = "ended"], << >>) PROVE Goal
  <2> DEFINE r == [s EXCEPT !.phase = "ended"]
             es == << >>
  <2>1. es \in Seq(Events) /\ \A i \in 1..Len(es) : es[i].gen = s.gen OBVIOUS
  <2>2. Moves(l, r, es) /\ r.gen = s.gen BY <1>6, <1>10
  <2> HIDE DEF r, es
  <2>3. QED BY <1>10, <2>1, <2>2, Zenon DEF SaysSo
<1> HIDE DEF Goal, Keeps
<1>11. /\ \A kind \in {"connected", "lost", "planned", "error"} : \A r :
             Keeps(r) /\ Moves(l, r, <<Event(l, kind, 0)>>) => Goal
       /\ \A kind \in {"back", "back late"} : \A r :
             Keeps(r) /\ Moves(l, r, <<Event(l, kind, s.next - 1), Event(l, "connected", 0)>>) => Goal
    BY <1>7, <1>8, Zenon
<1>12. Goal BY <1>6, <1>9, <1>10, <1>11 DEF StreamActs
<1>13. QED BY <1>12 DEF Goal

(* A stream that speaks changes neither what is shown nor who is there.      *)
LEMMA HealthStreams ==
    ASSUME WriterInv, GroupAssumption, Honest, NEW l \in Lanes, StreamStep(l)
    PROVE  Honest'
<1>1. Typed /\ Commands /\ TypeOK /\ Unreplaced /\ Present /\ Reported /\ Runs(l) /\ StreamActs(l)
    BY StreamActsIs DEF WriterInv, Typed, Honest
<1>2. PICK r, es : SaysSo(l, r, es) BY <1>1, StreamSends
<1>3. /\ stream' = [stream EXCEPT ![l] = r] /\ inbox' = [inbox EXCEPT ![opened][l] = @ \o es]
      /\ UNCHANGED <<capture, health, opened, remote, cleanup, cancelled, col, call, mishap>>
    BY <1>2 DEF SaysSo, Moves
<1>4. opened \in Groups /\ Source \in Lanes BY <1>1 DEF Runs, TypeOK, Groups, None, Lanes
<1> DEFINE q == inbox[opened][Source]
           t == inbox'[opened][Source]
<1>5. /\ stream'[Source] = IF l = Source THEN r ELSE stream[Source]
      /\ t = IF l = Source THEN q \o es ELSE q
      /\ q \in Seq(Events)
    BY <1>1, <1>3, <1>4 DEF Typed
<1>6. /\ Len(q) \in Nat /\ Len(t) \in Nat /\ Len(q) <= Len(t)
      /\ \A i \in 1..Len(q) : t[i] = q[i]
      /\ stream[Source].gen = 0 => \A i \in 1..Len(t) : t[i].gen = 0 \/ (i \in 1..Len(q) /\ t[i] = q[i])
  <2>1. CASE l = Source
    <3> DEFINE u == q \o es
    <3>1. /\ Len(u) = Len(q) + Len(es) /\ Len(q) \in Nat /\ Len(es) \in Nat
          /\ \A i \in 1..Len(u) : u[i] = IF i <= Len(q) THEN q[i] ELSE es[i - Len(q)]
        BY <1>2, <1>5, ConcatProperties, LenProperties DEF SaysSo
    <3> HIDE DEF u
    <3>2. \A i \in 1..Len(u) : i <= Len(q) \/ i - Len(q) \in 1..Len(es) BY <3>1
    <3>3. t = u BY <1>5, <2>1 DEF u
    <3> HIDE DEF q, t
    <3>4. QED BY <1>2, <2>1, <3>1, <3>2, <3>3 DEF SaysSo
  <2>2. CASE l # Source
    <3>1. t = q /\ Len(q) \in Nat BY <1>5, <2>2, LenProperties
    <3>2. QED BY <3>1
  <2>3. QED BY <2>1, <2>2
<1> HIDE DEF q, t
<1>7. Unreplaced'
  <2>1. stream'[Source].gen = 0 BY <1>1, <1>2, <1>5 DEF Unreplaced, SaysSo
  <2>2. Recording' => stream'[Source].phase # "ended"
    <3>1. call.op = "stop" => ~Recording BY <1>1 DEF Commands, Recording
    <3>2. QED BY <1>1, <1>2, <1>3, <1>5, <3>1 DEF Unreplaced, Recording, SaysSo
  <2>3. Attentive' => /\ col'[opened].view[Source].gen = 0
                      /\ \A i \in 1..Len(t) : t[i].gen = 0
    <3>1. Attentive' => Attentive BY <1>3 DEF Attentive
    <3>2. QED BY <1>1, <1>3, <1>6, <3>1 DEF Unreplaced, q
  <2>4. QED BY <1>3, <2>1, <2>2, <2>3 DEF Unreplaced, t
<1>8. Present' /\ Reported' BY <1>1, <1>3 DEF Present, Reported, Attentive, Down, Live
<1>9. Gone => Gone'
  <2>1. Fails(q, 0) => Fails(t, 0) BY <1>6 DEF Fails
  <2>2. QED BY <1>3, <2>1 DEF Gone, Free, Recording, Attentive, Down, q, t
<1>10. QED BY <1>3, <1>7, <1>8, <1>9 DEF Honest

-----------------------------------------------------------------------------
(* The health that is reported of an event.                                  *)
LEMMA HearAnswers ==
    ASSUME Typed, NEW g \in Groups, NEW l \in Lanes, NEW e, NEW d, Hear(g, l), HeardAct(g, l, e, d)
    PROVE  IF Late(Revived(col[g], l, e.gen), l, e.gen) THEN health' = health ELSE Answers(l, d, e)
<1> DEFINE c == Revived(col[g], l, e.gen)
<1>1. e = Head(inbox[g][l]) /\ col'[g] = d BY DEF HeardAct, Typed
<1>2. \/ Late(c, l, e.gen) /\ Quiet
      \/ /\ ~Late(c, l, e.gen)
         /\ \/ e.kind = "connected" /\ HearConnected(g, l, c)
            \/ e.kind \in {"back", "back late"} /\ HearBack(g, l, c, e)
            \/ e.kind \in {"lost", "planned"} /\ HearLost(g, l, c, e)
            \/ e.kind = "word" /\ HearWord(g, l, c, e)
            \/ e.kind = "error" /\ HearError(g, l, c)
    BY <1>1 DEF Hear
<1> HIDE DEF c
<1>3. ASSUME e.kind = "connected", HearConnected(g, l, c) PROVE Answers(l, d, e)
  <2> DEFINE s == See(c, l, [c.view[l] EXCEPT !.connected = TRUE, !.awaiting = FALSE])
  <2>1. /\ col' = [col EXCEPT ![g] = s]
        /\ IF AllAccounted(s) THEN Report(IF \E k \in Lanes : s.view[k].failed THEN "down" ELSE "live", FALSE)
           ELSE UNCHANGED health
      BY <1>3 DEF HearConnected
  <2> HIDE DEF s
  <2>2. s = d BY <1>1, <2>1 DEF Typed
  <2>3. QED BY <1>3, <2>1, <2>2 DEF Answers, Report
<1>4. ASSUME e.kind \in {"back", "back late"}, HearBack(g, l, c, e) PROVE Answers(l, d, e)
    BY <1>4 DEF HearBack, Answers
<1>5. ASSUME e.kind \in {"lost", "planned"}, HearLost(g, l, c, e) PROVE Answers(l, d, e)
  <2>1. IF e.kind = "planned" THEN UNCHANGED health
        ELSE Report(IF l = Source THEN "connecting" ELSE "down", FALSE)
      BY <1>5 DEF HearLost
  <2>2. CASE e.kind = "planned" BY <2>1, <2>2 DEF Answers
  <2>3. CASE e.kind = "lost"
    <3>1. health'.is = IF l = Source THEN "connecting" ELSE "down" BY <2>1, <2>3 DEF Report
    <3>2. QED BY <2>3, <3>1 DEF Answers
  <2>4. QED BY <1>5, <2>2, <2>3
<1>6. ASSUME e.kind = "word", HearWord(g, l, c, e) PROVE Answers(l, d, e)
    BY <1>6 DEF HearWord, Answers
<1>7. ASSUME e.kind = "error", HearError(g, l, c) PROVE Answers(l, d, e)
    BY <1>7 DEF HearError, Answers, Report
<1>8. Quiet => health' = health BY DEF Quiet
<1>9. IF Late(c, l, e.gen) THEN health' = health ELSE Answers(l, d, e)
    BY <1>2, <1>3, <1>4, <1>5, <1>6, <1>7, <1>8, Zenon
<1>10. QED BY <1>9 DEF c

(* And what the collector, the token and the health are after it.            *)
LEMMA HearOutcome ==
    ASSUME Typed, NEW g \in Groups, NEW l \in Lanes, NEW e \in Events, NEW d \in CollectorOf,
           Hear(g, l), HeardAct(g, l, e, d), "collided" \notin mishap'
    PROVE  Outcome(g, l, e, d)
<1> DEFINE b == col[g]
           c == Revived(b, l, e.gen)
           v == b.view[l]
           w == d.view[l]
<1>1. b \in CollectorOf /\ HeardIt(g, l, c, d, e) /\ ~HeardRefused(g, c, d)
    BY DEF Typed, HeardAct, HeardRefused
<1>2. IF Late(c, l, e.gen) THEN health' = health ELSE Answers(l, d, e) BY HearAnswers
<1>3. e.gen \in Nat /\ v.gen \in Nat BY <1>1 DEF Events, CollectorOf, ViewOf
<1> HIDE DEF b
<1>4. /\ d.at = b.at /\ \A k \in Lanes \ {l} : d.view[k] = b.view[k]
      /\ \/ d = b /\ e.gen <= v.gen /\ (e.gen = v.gen => v.failed) /\ cancelled' = cancelled
         \/ /\ v.gen <= e.gen /\ (e.gen = v.gen => ~v.failed) /\ Takes(v, w, e)
            /\ cancelled' = IF e.kind = "error" /\ l = Source THEN cancelled \cup {g} ELSE cancelled
    BY <1>1, HeardMeans
<1>5. CASE d = b /\ e.gen <= v.gen /\ (e.gen = v.gen => v.failed) /\ cancelled' = cancelled
  <2>1. c = b BY <1>5, RevivedSame
  <2>2. Late(c, l, e.gen) BY <1>3, <1>5, <2>1 DEF Late
  <2>3. QED BY <1>2, <1>4, <1>5, <2>2 DEF Outcome, b
<1>6. CASE /\ v.gen <= e.gen /\ (e.gen = v.gen => ~v.failed) /\ Takes(v, w, e)
           /\ cancelled' = IF e.kind = "error" /\ l = Source THEN cancelled \cup {g} ELSE cancelled
  <2> DEFINE u == c.view[l]
  <2>1. /\ u.gen = IF v.gen < e.gen THEN e.gen ELSE v.gen
        /\ e.gen <= v.gen => u = v
        /\ v.gen < e.gen => ~u.failed
      BY <1>1, <1>3, RevivedSees
  <2>2. ~(e.gen < u.gen) /\ ~u.failed
    <3> HIDE DEF u, v
    <3>1. QED BY <1>3, <1>6, <2>1
  <2>3. ~Late(c, l, e.gen) BY <2>2 DEF Late
  <2>4. e.kind = "error" => w.failed BY <1>6 DEF Takes
  <2>5. QED BY <1>2, <1>4, <1>6, <2>3, <2>4 DEF Outcome, b
<1>7. QED BY <1>4, <1>5, <1>6

(* The failure of the source lane stays known, or stays on its way.          *)
LEMMA HealthHears ==
    ASSUME WriterInv, WriterInv', Watched, Honest, "detached" \notin mishap',
           mishap \subseteq mishap', NEW g \in Groups, NEW l \in Lanes, Hear(g, l)
    PROVE  Honest'
<1>1. Typed /\ Source \in Lanes /\ "collided" \notin mishap' BY DEF WriterInv, Sole, Lanes
<1>2. PICK e \in Events : \E d \in CollectorOf : HeardAct(g, l, e, d) BY <1>1, HearIs
<1>3. PICK d \in CollectorOf : HeardAct(g, l, e, d) BY <1>2
<1>4. /\ col[g].at = "run" /\ inbox[g][l] # << >> /\ e = Head(inbox[g][l])
      /\ inbox' = [inbox EXCEPT ![g][l] = Tail(@)] /\ col' = [col EXCEPT ![g] = d]
      /\ UNCHANGED <<capture, opened, remote, cleanup, stream, call>>
    BY <1>3 DEF HeardAct
<1>5. Outcome(g, l, e, d) BY <1>1, <1>3, HearOutcome
<1>6. g = opened /\ opened \in Groups /\ opened # None
  <2>1. WriterInv' => Sole' BY DEF WriterInv
  <2>2. d.at = "run" /\ col'[g] = d BY <1>1, <1>4, <1>5 DEF Outcome, Typed
  <2>3. g = opened BY <1>4, <2>1, <2>2 DEF Sole, Alone, Writing
  <2>4. QED BY <2>3 DEF Groups, None
<1> DEFINE q == inbox[opened][Source]
           t == inbox'[opened][Source]
           f == col[opened].view[Source]
           h == d.view[Source]
<1>7. /\ col'[opened] = d /\ d.at = "run" /\ col[opened].at = "run" /\ Attentive /\ Attentive'
      /\ t = IF l = Source THEN Tail(q) ELSE q
      /\ l = Source => q \in Seq(Events) /\ q # << >> /\ e = Head(q)
    BY <1>1, <1>4, <1>5, <1>6 DEF Outcome, Typed, Attentive
<1>8. /\ f.gen = 0 /\ (\A i \in 1..Len(q) : q[i].gen = 0)
      /\ l = Source => e.gen = 0 /\ \A i \in 1..Len(t) : t[i].gen = 0
  <2>1. f.gen = 0 /\ \A i \in 1..Len(q) : q[i].gen = 0 BY <1>7 DEF Honest, Unreplaced
  <2>2. ASSUME l = Source PROVE e.gen = 0 /\ \A i \in 1..Len(t) : t[i].gen = 0
    <3>1. q \in Seq(Events) /\ q # << >> /\ e = Head(q) /\ t = Tail(q) BY <1>7, <2>2
    <3> HIDE DEF q, t
    <3>2. e = q[1] /\ Len(q) \in Nat /\ Len(q) # 0 /\ Len(t) = Len(q) - 1
          /\ \A i \in 1..Len(t) : t[i] = q[i + 1]
        BY <3>1, HeadTailProperties, EmptySeq
    <3>3. 1 \in 1..Len(q) /\ \A i \in 1..Len(t) : i + 1 \in 1..Len(q) BY <3>2
    <3>4. QED BY <2>1, <3>2, <3>3
  <2>3. QED BY <2>1, <2>2
<1>9. /\ h.gen = 0 /\ (f.failed => h.failed)
      /\ h.failed => f.failed \/ health'.is = "down"
      /\ remote \in cancelled' => remote \in cancelled \/ h.failed
      /\ Fails(q, 0) => h.failed \/ Fails(t, 0)
  <2>1. CASE l # Source BY <1>1, <1>5, <1>6, <1>7, <1>8, <2>1 DEF Outcome, Fails
  <2>2. CASE l = Source
    <3>1. Fails(q, 0) => Fails(t, 0) \/ e.kind = "error"
      <4>1. q \in Seq(Events) /\ q # << >> /\ e = Head(q) /\ t = Tail(q) BY <1>7, <2>2
      <4> HIDE DEF q, t
      <4>2. QED BY <4>1, FailsTail
    <3>2. e.gen = f.gen BY <1>8, <2>2
    <3>3. \/ d = col[g] /\ cancelled' = cancelled
          \/ /\ ~f.failed /\ Takes(f, h, e) /\ Answers(l, d, e)
             /\ e.kind # "error" => cancelled' = cancelled
        BY <1>5, <1>6, <2>2, <3>2 DEF Outcome
    <3>4. e.kind = "error" => h.failed BY <1>5, <1>6, <2>2, <3>2 DEF Outcome
    <3>5. CASE d = col[g] /\ cancelled' = cancelled BY <1>6, <1>8, <3>1, <3>4, <3>5
    <3>6. CASE /\ ~f.failed /\ Takes(f, h, e) /\ Answers(l, d, e)
               /\ e.kind # "error" => cancelled' = cancelled
      <4>1. h.gen = 0 /\ (h.failed <=> e.kind = "error") BY <1>8, <2>2, <3>6 DEF Takes
      <4>2. e.kind = "error" => health'.is = "down" BY <3>6 DEF Answers
      <4>3. QED BY <3>1, <3>6, <4>1, <4>2
    <3>7. QED BY <3>3, <3>5, <3>6
  <2>3. QED BY <2>1, <2>2
<1>10. Unreplaced'
  <2>1. \A i \in 1..Len(t) : t[i].gen = 0 BY <1>7, <1>8
  <2>2. QED BY <1>4, <1>7, <1>9, <2>1 DEF Honest, Unreplaced, Recording
<1>11. Present' BY <1>4, <1>7, <1>9 DEF Honest, Present
<1>12. f.failed => Down'
  <2>1. ASSUME f.failed PROVE Down'
    <3>1. Down BY <1>7, <2>1 DEF Honest, Reported
    <3>2. health' = health => Down' BY <3>1 DEF Down
    <3>3. Answers(l, d, e) /\ (l = Source => e.gen = f.gen) => Down'
      <4>1. SUFFICES ASSUME Answers(l, d, e), l # Source PROVE Down'
        <5>1. l = Source => health' = health BY <1>5, <1>6, <1>8, <2>1 DEF Outcome
        <5>2. QED BY <3>2, <5>1
      <4>2. h.failed BY <1>9, <2>1
      <4>3. AllAccounted(d) /\ e.kind = "connected" => health'.is = "down"
          BY <1>1, <4>1, <4>2 DEF Answers
      <4>4. e.kind \in EventKinds BY DEF Events
      <4>5. QED BY <3>2, <4>1, <4>3, <4>4 DEF Answers, EventKinds, Down
    <3>4. QED BY <1>5, <1>8, <3>2, <3>3 DEF Outcome
  <2>2. QED BY <2>1
<1>13. ASSUME remote # None PROVE health'.is = "live" <=> Live'
  <2>1. remote = opened /\ Tended /\ Tended' BY <1>4, <1>7, <1>13, PresentIs DEF Tended
  <2>2. \A k \in Lanes : d.view[k].failed => ~d.view[k].connected
    <3>1. Watched' BY ViewHears
    <3>2. Sights' BY <2>1, <3>1 DEF Watched
    <3>3. QED BY <1>4, <1>7, <2>1, <3>2 DEF Sights, Shows, Bounded
  <2>3. health.is = "live" <=> Live BY <1>7, <1>13 DEF Honest, Reported
  <2>4. /\ Live <=> \A k \in Lanes : col[opened].view[k].connected
        /\ Live' <=> \A k \in Lanes : d.view[k].connected
      BY <1>4, <1>7 DEF Live
  <2>5. CASE d = col[g] /\ health' = health BY <1>6, <2>3, <2>4, <2>5
  <2>6. CASE Takes(col[g].view[l], d.view[l], e) /\ Answers(l, d, e)
    <3>1. /\ d.view[l].connected <=>
               e.kind = "connected" \/ (col[opened].view[l].connected /\ e.kind \notin {"lost", "error"})
          /\ \A k \in Lanes \ {l} : d.view[k] = col[opened].view[k]
        BY <1>5, <1>6, <2>6 DEF Takes, Outcome
    <3>2. CASE e.kind \in {"back", "back late", "planned", "word"}
      <4>1. Live' <=> Live BY <2>4, <3>1, <3>2
      <4>2. QED BY <2>3, <2>6, <3>2, <4>1 DEF Answers
    <3>3. CASE e.kind \in {"lost", "error"}
      <4>1. ~Live' BY <2>4, <3>1, <3>3
      <4>2. QED BY <2>6, <3>3, <4>1 DEF Answers
    <3>4. CASE e.kind = "connected"
      <4>1. CASE AllAccounted(d)
        <5>1. Live' <=> ~ \E k \in Lanes : d.view[k].failed BY <2>2, <2>4, <4>1 DEF AllAccounted
        <5>2. QED BY <2>6, <3>4, <4>1, <5>1 DEF Answers
      <4>2. CASE ~AllAccounted(d)
        <5>1. ~Live' BY <2>4, <4>2 DEF AllAccounted
        <5>2. ~Live BY <2>4, <3>1, <3>4, <4>2 DEF AllAccounted
        <5>3. QED BY <2>3, <2>6, <3>4, <4>2, <5>1, <5>2 DEF Answers
      <4>3. QED BY <4>1, <4>2
    <3>5. e.kind \in EventKinds BY DEF Events
    <3>6. QED BY <3>2, <3>3, <3>4, <3>5 DEF EventKinds
  <2>7. QED BY <1>5, <2>5, <2>6 DEF Outcome
<1>14. Reported'
  <2>1. h.failed => Down' BY <1>9, <1>12 DEF Down
  <2>2. QED BY <1>4, <1>7, <1>13, <2>1 DEF Reported
<1>15. Gone => Gone'
  <2>1. f.failed \/ Fails(q, 0) => h.failed \/ Fails(t, 0) BY <1>9
  <2>2. QED BY <1>4, <1>6, <1>7, <2>1 DEF Gone, Free, Recording
<1>16. QED BY <1>10, <1>11, <1>14, <1>15 DEF Honest

(* Only translation lanes are cut off, and then the group is not live.       *)
LEMMA HealthCuts ==
    ASSUME WriterInv, GroupAssumption, Sole, Honest, mishap \subseteq mishap',
           NEW g \in Groups, NEW l \in Lanes, HearCut(g, l)
    PROVE  Honest'
<1>1. Typed BY DEF WriterInv
<1>2. PICK cut \in CutOf, d \in CollectorOf : CutAct(g, l, cut, d) BY <1>1, HearCutIs
<1> DEFINE b == col[g]
           c == Revived(b, l, cut.gen)
<1>3. /\ col[g].at = "run" /\ cut.lane = l /\ col' = [col EXCEPT ![g] = d]
      /\ Kept(c, d) /\ \A k \in Lanes \ {l} : d.view[k] = c.view[k]
      /\ \/ Late(c, l, cut.gen) /\ d = c /\ health' = health
         \/ /\ health'.is = "down"
            /\ d.view[l] = [c.view[l] EXCEPT !.connected = FALSE, !.failed = TRUE]
      /\ UNCHANGED <<capture, opened, remote, cleanup, cancelled, stream, inbox, call>>
    BY <1>2 DEF CutAct, Report
<1>4. Source \in Lanes \ {l} /\ cut.gen \in Nat /\ b \in CollectorOf
    BY <1>1, <1>3 DEF CutOf, GroupAssumption, Lanes, Typed
<1>5. g = opened /\ opened \in Groups /\ col'[opened] = d
    BY <1>1, <1>3 DEF Sole, Alone, Writing, Typed
<1> HIDE DEF b
<1>6. /\ c.at = b.at /\ (\A k \in Lanes \ {l} : c.view[k] = b.view[k])
      /\ c.view[l] \in ViewOf /\ c.view[l].connected = b.view[l].connected
  <2> DEFINE n == cut.gen
             u == Revived(b, l, n)
  <2>1. n \in Nat /\ u = c BY <1>4
  <2> HIDE DEF c, n
  <2>2. u.at = b.at /\ (\A k \in Lanes \ {l} : u.view[k] = b.view[k]) BY <1>4, <2>1, RevivedIs
  <2>3. u.view[l] \in ViewOf /\ u.view[l].connected = b.view[l].connected
      BY <1>4, <2>1, RevivedSees
  <2> HIDE DEF u
  <2>4. QED BY <2>1, <2>2, <2>3
<1> HIDE DEF c
<1>7. d.at = "run" /\ \A k \in Lanes \ {l} : d.view[k] = b.view[k] BY <1>3, <1>6 DEF Kept, b
<1>8. \/ health' = health /\ (\A k \in Lanes : d.view[k].connected = b.view[k].connected)
      \/ health'.is = "down" /\ ~d.view[l].connected
  <2>1. CASE d = c /\ health' = health BY <1>6, <2>1
  <2>2. CASE /\ health'.is = "down"
             /\ d.view[l] = [c.view[l] EXCEPT !.connected = FALSE, !.failed = TRUE]
      BY <1>6, <2>2 DEF ViewOf
  <2>3. QED BY <1>3, <2>1, <2>2
<1>9. /\ col[opened].at = "run" /\ col'[opened].at = "run" /\ Attentive /\ (Attentive' <=> Attentive)
      /\ col'[opened].view[Source] = col[opened].view[Source] /\ (Down => Down')
    BY <1>3, <1>4, <1>5, <1>7, <1>8 DEF Attentive, Down, Groups, None, b
<1>10. Unreplaced' /\ Present' BY <1>3, <1>9 DEF Honest, Unreplaced, Present, Recording
<1>11. remote # None => (health'.is = "live" <=> Live')
  <2>1. /\ Live <=> \A k \in Lanes : b.view[k].connected
        /\ Live' <=> \A k \in Lanes : d.view[k].connected
      BY <1>3, <1>5 DEF Live, b
  <2>2. QED BY <1>8, <1>9, <2>1 DEF Honest, Reported
<1>12. Reported' BY <1>3, <1>9, <1>11 DEF Honest, Reported
<1>13. Gone => Gone' BY <1>3, <1>5, <1>9 DEF Gone, Free, Recording, Groups, None
<1>14. QED BY <1>10, <1>12, <1>13 DEF Honest

(* A collector that ends: by a failure, which is told, or because all is     *)
(* heard and nobody has the group any more.                                  *)
LEMMA HealthEnds ==
    ASSUME WriterInv, Sole, Honest, mishap \subseteq mishap',
           NEW g \in Groups, Break(g) \/ Settle(g) \/ Drain(g)
    PROVE  Honest'
<1>1. Typed /\ Commands /\ Source \in Lanes BY DEF WriterInv, Lanes
<1>2. g = opened /\ g # None
  <2>1. col[g].at \in {"run", "settling"} BY DEF Break, Settle, Drain
  <2>2. QED BY <2>1 DEF Sole, Alone, Writing, Groups, None
<1>3. /\ UNCHANGED <<capture, opened, remote, cleanup, stream, call>>
      /\ \/ col'[opened].at = "settling" /\ health' = health
         \/ col'[opened].at = "failed" /\ health'.is = "down"
         \/ /\ Drain(g) /\ col'[opened].at = "done" /\ health' = health
            /\ col[g].at = "run" /\ remote # g /\ inbox[g] = Silent
  <2>1. \A at : col' = [col EXCEPT ![g].at = at] => col'[opened].at = at
      BY <1>1, <1>2 DEF Typed, CollectorOf
  <2>2. UNCHANGED <<capture, opened, remote, cleanup, stream, call>>
      BY DEF Break, Settle, Drain, owner
  <2>3. Break(g) => col'[opened].at = "settling" /\ health' = health BY <2>1 DEF Break
  <2>4. Settle(g) => col'[opened].at = "failed" /\ health'.is = "down"
    <3>1. Settle(g) => col' = [col EXCEPT ![g].at = "failed"] /\ Report("down", TRUE)
        BY DEF Settle
    <3>2. Report("down", TRUE) => health'.is = "down" BY DEF Report
    <3>3. QED BY <2>1, <3>1, <3>2
  <2>5. Drain(g) => /\ col' = [col EXCEPT ![g].at = "done"] /\ health' = health
                    /\ col[g].at = "run" /\ remote # g /\ inbox[g] = Silent
      BY DEF Drain, Closed
  <2>6. QED BY <2>1, <2>2, <2>3, <2>4, <2>5
<1>4. ~Attentive' BY <1>3 DEF Attentive
<1> DEFINE Drains == col[g].at = "run" /\ remote # g /\ inbox[g] = Silent
<1>5. Drains => remote = None /\ (Gone => (Free /\ Recording => Down))
  <2>1. ASSUME Drains PROVE remote = None BY <1>1, <1>2, <2>1 DEF Commands
  <2>2. ASSUME Drains, Gone, Free, Recording PROVE Down
    <3>1. inbox[opened][Source] = << >> /\ Attentive BY <1>1, <1>2, <2>2 DEF Silent, Attentive
    <3>2. ~Fails(inbox[opened][Source], 0) BY <3>1 DEF Fails
    <3>3. QED BY <2>1, <2>2, <3>1, <3>2 DEF Gone, Honest, Reported
  <2>3. QED BY <2>1, <2>2
<1>6. Unreplaced' /\ Present' /\ Reported'
    BY <1>3, <1>4, <1>5 DEF Honest, Unreplaced, Present, Reported, Recording, Down
<1>7. Gone => Gone' BY <1>2, <1>3, <1>4, <1>5 DEF Gone, Free, Recording, Down
<1>8. QED BY <1>6, <1>7 DEF Honest

(* Those who wait for a collector no longer have no group.                   *)
LEMMA HealthAborts ==
    ASSUME WriterInv, Sole, Honest, mishap \subseteq mishap', CleanupAborts \/ Close \/ CollectorEnds
    PROVE  Honest'
<1>1. Typed /\ Commands /\ TypeOK /\ Unreplaced /\ Present /\ Reported
    BY DEF WriterInv, Typed, Honest
<1>2. /\ UNCHANGED <<capture, opened, stream, remote, cleanup>> /\ remote = None
      /\ health' = health \/ Down'
  <2>1. CASE CleanupAborts BY <1>1, <2>1 DEF CleanupAborts, KeepsStreams, owner, TypeOK
  <2>2. CASE Close BY <1>1, <2>2 DEF Close, KeepsStreams, owner, Commands, Report, Down
  <2>3. CASE CollectorEnds BY <1>1, <2>3 DEF CollectorEnds, KeepsStreams, owner, Commands
  <2>4. QED BY <2>1, <2>2, <2>3
<1>3. Attentive' => /\ Attentive /\ col'[opened].view = col[opened].view
                    /\ inbox'[opened][Source] = inbox[opened][Source]
  <2>1. ASSUME NEW g, Abort(g), Attentive', opened' = opened
        PROVE  /\ Attentive /\ col'[opened].view = col[opened].view
               /\ inbox'[opened][Source] = inbox[opened][Source]
    <3>1. opened \in Groups BY <1>1, <2>1 DEF Attentive, TypeOK, Groups, None
    <3>2. opened # g BY <1>1, <2>1, <3>1 DEF Abort, Typed, Attentive
    <3>3. QED BY <1>1, <2>1, <3>1, <3>2 DEF Abort, Forget, Typed, Attentive
  <2>2. \/ \E g : Abort(g)
        \/ UNCHANGED <<col, queues>>
      BY DEF CleanupAborts, Close, CollectorEnds
  <2>3. QED BY <1>2, <2>1, <2>2 DEF queues, Attentive
<1>9. \A at : GoTo(at) => call'.at = at BY <1>1 DEF Typed, CallOf, GoTo
<1>10. Close => \/ call.op = "pause" /\ call' = NoCall
                \/ call.op = "resume" /\ GoTo("restart")
                \/ call.op = "interrupt" /\ GoTo("join")
  <2>1. Close => call.op \in {"pause", "resume", "interrupt"}
      BY <1>1 DEF Close, Commands, Stage, NoCall
  <2>2. Close => CASE call.op = "pause" -> call' = NoCall
                   [] call.op = "resume" -> GoTo("restart")
                   [] call.op = "interrupt" -> GoTo("join")
      BY DEF Close
  <2>3. QED BY <2>1, <2>2
<1>4. call'.at = "close" => cleanup' = None
  <2>1. CASE CleanupAborts BY <1>1, <1>2, <2>1 DEF CleanupAborts, Present
  <2>2. CASE Close \/ CollectorEnds
    <3>1. call'.at # "close"
      <4>1. CASE Close BY <1>9, <1>10, <4>1 DEF NoCall
      <4>2. CASE CollectorEnds BY <1>1, <4>2 DEF CollectorEnds, Typed, CallOf
      <4>3. QED BY <2>2, <4>1, <4>2
    <3>2. QED BY <3>1
  <2>3. QED BY <2>1, <2>2
<1>5. Elsewhere BY <1>2, <1>3, <1>4 DEF Elsewhere, Recording
<1>6. Unreplaced' /\ Present' /\ Reported' BY <1>1, <1>5, ElsewhereKeeps
<1>7. mishap' \cap {"wedged", "abandoned"} = {} => Gone'
  <2>1. CASE CleanupAborts BY <2>1 DEF CleanupAborts, Blame
  <2>2. CASE CollectorEnds
    <3>1. ~Recording' BY <1>1, <1>2, <2>2 DEF CollectorEnds, Commands, Recording
    <3>2. QED BY <3>1 DEF Gone
  <2>3. CASE Close
    <3>1. CASE call.op = "pause"
      <4>1. Down' BY <2>3, <3>1 DEF Close, Report, Down
      <4>2. ~Attentive'
        <5>1. SUFFICES ASSUME Attentive' PROVE FALSE OBVIOUS
        <5>2. opened \in Writing
            BY <1>1, <1>3, <5>1 DEF Attentive, Writing, TypeOK, Groups, None
        <5>3. opened = call.group
            BY <1>1, <1>2, <2>3, <5>2 DEF Sole, Owned, Close, Present, Writing, Groups, None
        <5>4. CASE Ended(call.group) BY <1>3, <5>1, <5>3, <5>4 DEF Ended, Attentive
        <5>5. CASE Abort(call.group)
            BY <1>1, <1>2, <5>1, <5>2, <5>3, <5>5 DEF Abort, Attentive, Typed, Writing
        <5>6. QED BY <2>3, <5>4, <5>5 DEF Close
      <4>3. QED BY <4>1, <4>2 DEF Gone
    <3>2. CASE call.op # "pause"
      <4>1. call'.at \in {"restart", "join"} BY <1>9, <1>10, <2>3, <3>2
      <4>2. ~Free' BY <4>1 DEF Free, NoCall
      <4>3. QED BY <4>2 DEF Gone
    <3>3. QED BY <3>1, <3>2
  <2>4. QED BY <2>1, <2>2, <2>3
<1>8. QED BY <1>6, <1>7 DEF Honest

(* The owner stops and replaces translation lanes only.                      *)
LEMMA OwnerSpares ==
    ASSUME Typed, GroupAssumption, Push \/ Pause("pause") \/ Pause("resume") \/ Reopen
    PROVE  SameSource
<1> DEFINE Some == \E dead \in SUBSET Aux :
                      \/ stream' = Stopped(dead)
                      \/ \E lanes \in SUBSET Aux : \E next :
                            stream' \in {Replaced(Stopped(dead), lanes, next),
                                         Replaced(Forgiven(Stopped(dead)), lanes, next)}
<1>1. stream' = stream \/ Some
  <2>1. ASSUME NEW wedged, FanOut(wedged) PROVE stream' = stream \/ Some BY <2>1 DEF FanOut
  <2>2. ASSUME NEW wedged, NEW op, Control(op, wedged) PROVE stream' = stream \/ Some
      BY <2>2 DEF Control
  <2>3. Reopen => stream' = stream \/ Some BY DEF Reopen
  <2> HIDE DEF Some
  <2>4. Push => stream' = stream \/ Some BY <2>1 DEF Push
  <2>5. \A op : Pause(op) => stream' = stream \/ Some BY <2>2 DEF Pause
  <2>6. QED BY <2>3, <2>4, <2>5
<1>2. ASSUME NEW dead \in SUBSET Aux, stream' = Stopped(dead) PROVE SameSource
  <2>1. dead \subseteq Aux OBVIOUS
  <2>2. stream'[Source] = stream[Source] BY <1>2, <2>1, SourceIsKept
  <2>3. QED BY <2>2 DEF SameSource
<1>3. ASSUME NEW dead \in SUBSET Aux, NEW lanes \in SUBSET Aux, NEW next,
             stream' \in {Replaced(Stopped(dead), lanes, next), Replaced(Forgiven(Stopped(dead)), lanes, next)}
      PROVE  SameSource
  <2> DEFINE b == Replaced(Stopped(dead), lanes, next)[Source]
             c == Replaced(Forgiven(Stopped(dead)), lanes, next)[Source]
  <2>1. dead \subseteq Aux /\ lanes \subseteq Aux /\ stream'[Source] \in {b, c} BY <1>3
  <2>2. b = stream[Source]
        /\ \A f \in {"phase", "next", "again", "gen", "stopped"} : c[f] = stream[Source][f]
      BY <2>1, SourceIsKept
  <2> HIDE DEF b, c
  <2>3. QED BY <2>1, <2>2 DEF SameSource
<1>4. stream' = stream => SameSource BY DEF SameSource
<1>5. QED BY <1>1, <1>2, <1>3, <1>4

(* A group is given up by audio when it has failed, and nobody may know yet. *)
LEMMA GivenUp ==
    ASSUME WriterInv, GroupAssumption, Watched, Honest, Push, remote # None, remote' = None,
           mishap' \cap {"wedged", "abandoned"} = {}
    PROVE  /\ Attentive => col[opened].view[Source].failed \/ Fails(inbox[opened][Source], 0)
           /\ health' = health \/ Down'
<1>1. Typed /\ Source \in Lanes /\ Recording BY DEF WriterInv, Lanes, Push, Recording
<1>2. PICK wedged \in SUBSET Lanes : FanOut(wedged) BY DEF Push
<1>3. wedged = {} /\ (remote \in cancelled \/ Refuses(Source, {})) /\ (health' = health \/ Down')
  <2>1. wedged = {} \/ "wedged" \in mishap' BY <1>2 DEF FanOut, Blame, owner
  <2>2. wedged = {} BY <2>1
  <2>3. remote \in cancelled \/ Refuses(Source, wedged) BY <1>2 DEF FanOut, owner
  <2>4. health' = health \/ Report("down", TRUE) BY <1>2 DEF FanOut, owner
  <2>5. QED BY <2>2, <2>3, <2>4 DEF Report, Down
<1>4. ASSUME Attentive, remote \notin cancelled
      PROVE  col[opened].view[Source].failed \/ Fails(inbox[opened][Source], 0)
  <2> DEFINE q == inbox[opened][Source]
             v == col[opened].view[Source]
             s == stream[Source]
             C == Cuts(cuts[opened], Source)
  <2>1. s.phase = "died" /\ s.gen = 0 /\ v.gen = 0
      BY <1>1, <1>3, <1>4 DEF Refuses, Honest, Unreplaced
  <2>2. remote = opened /\ cuts[opened] \subseteq CutOf BY PresentIs
  <2>3. Shows(q, s, v, C) BY <1>1, <1>4, <2>2 DEF Watched, Tended, Sights, Attentive
  <2>4. C = {}
    <3>1. \A x \in cuts[opened] : x.lane # Source BY <2>2 DEF CutOf, GroupAssumption
    <3>2. QED BY <3>1 DEF Cuts
  <2> HIDE DEF q, v, s, C
  <2>5. Ends(q, v, C, 0) BY <2>1, <2>3 DEF Shows
  <2>6. v.failed \/ Fails(q, 0) BY <2>1, <2>4, <2>5 DEF Ends
  <2>7. QED BY <2>6 DEF q, v
<1>5. ASSUME Attentive, remote \in cancelled PROVE col[opened].view[Source].failed
    BY <1>5 DEF Honest, Present
<1>6. QED BY <1>3, <1>4, <1>5

(* Audio, a pause and a reopening: a group is given up without a word only   *)
(* where its end is known or on its way.                                     *)
LEMMA HealthOwner ==
    ASSUME WriterInv, GroupAssumption, Watched, Honest, mishap \subseteq mishap',
           Push \/ Pause("pause") \/ Pause("resume") \/ Reopen
    PROVE  Honest'
<1>1. Typed /\ Commands /\ TypeOK /\ Unreplaced /\ Present /\ Reported
    BY DEF WriterInv, Typed, Honest
<1>2. /\ UNCHANGED <<opened, inbox, col>> /\ remote' \in {remote, None} /\ SameSource
    BY <1>1, OwnerTends, OwnerSpares
<1>3. CASE Push
  <2>1. UNCHANGED <<capture, call>> /\ call = NoCall BY <1>3 DEF Push, Free
  <2>2. CASE remote = None
    <3>1. UNCHANGED <<cancelled, health, cleanup>> /\ remote' = None
        BY <1>3, <2>2 DEF Push, owner
    <3>2. Elsewhere BY <1>2, <2>1, <3>1 DEF Elsewhere, Recording, Attentive, SameSource, NoCall
    <3>3. Gone => Gone' BY <1>2, <2>1, <2>2, <3>2, GoneElsewhere DEF Free
    <3>4. QED BY <1>1, <3>2, <3>3, ElsewhereKeeps DEF Honest
  <2>3. CASE remote # None
    <3>1. PICK wedged \in SUBSET Lanes : FanOut(wedged) BY <1>3, <2>3 DEF Push
    <3>2. /\ remote' # None => UNCHANGED <<cancelled, health>>
          /\ health' = health \/ Report("down", TRUE)
        BY <3>1 DEF FanOut, CleanUp, owner
    <3>3. Elsewhere
        BY <1>2, <2>1, <3>2 DEF Elsewhere, Recording, Attentive, SameSource, NoCall, Report, Down
    <3>4. mishap' \cap {"wedged", "abandoned"} = {} => Gone'
      <4>1. SUFFICES ASSUME mishap' \cap {"wedged", "abandoned"} = {}, remote' = None, Recording' PROVE Gone'
          BY DEF Gone
      <4>2. /\ Attentive => col[opened].view[Source].failed \/ Fails(inbox[opened][Source], 0)
            /\ health' = health \/ Down'
          BY <1>3, <2>3, <4>1, GivenUp
      <4>3. remote = opened /\ opened # None BY <1>1, <2>3 DEF Commands
      <4>4. col[opened].at \notin {"run", "settling"} => Down'
        <5>1. col[opened].at \notin {"run", "settling"} => Down
            BY <1>1, <2>3 DEF Present, Reported
        <5>2. QED BY <4>2, <5>1 DEF Down
      <4>5. Attentive' <=> Attentive BY <1>2 DEF Attentive
      <4>6. QED BY <1>2, <4>2, <4>3, <4>4, <4>5 DEF Gone, Fails
    <3>5. QED BY <1>1, <3>3, <3>4, ElsewhereKeeps DEF Honest
  <2>4. QED BY <2>2, <2>3
<1>4. ASSUME NEW op \in {"pause", "resume"}, Pause(op) PROVE Honest'
  <2>1. /\ (Recording' => Recording) /\ Free /\ NoCall.at = "none"
        /\ [NoCall EXCEPT !.op = op, !.at = "restart"].at = "restart"
        /\ [NoCall EXCEPT !.op = op, !.at = "close", !.group = remote].at = "close"
      BY <1>4 DEF Pause, Recording, NoCall
  <2>2. CASE remote = None
    <3>1. /\ UNCHANGED <<cancelled, cleanup>> /\ remote' = None
          /\ health' = health \/ Report("down", TRUE)
          /\ call' = NoCall \/ call' = [NoCall EXCEPT !.op = op, !.at = "restart"]
        BY <1>4, <2>2 DEF Pause, owner
    <3>2. Elsewhere
      <4>1. call'.at # "close" BY <2>1, <3>1
      <4>2. Report("down", TRUE) => Down' BY DEF Report, Down
      <4>3. QED BY <1>2, <2>1, <3>1, <4>1, <4>2 DEF Elsewhere, Attentive, SameSource
    <3>3. Gone => Gone' BY <1>2, <2>1, <2>2, <3>2, GoneElsewhere
    <3>4. QED BY <1>1, <3>2, <3>3, ElsewhereKeeps DEF Honest
  <2>3. CASE remote # None
    <3>1. PICK wedged \in SUBSET Lanes : Control(op, wedged) BY <1>4, <2>3 DEF Pause
    <3>2. /\ cleanup = None /\ cleanup' = cleanup /\ health' = health
          /\ remote' # None => UNCHANGED cancelled
          /\ remote' # None \/ call' = [NoCall EXCEPT !.op = op, !.at = "close", !.group = remote]
      <4>1. cleanup = None /\ health' = health BY <1>1, <1>4, <2>3 DEF TypeOK, Pause
      <4>2. QED BY <2>3, <3>1, <4>1 DEF Control, owner
    <3>3. Elsewhere BY <1>2, <2>1, <3>2 DEF Elsewhere, Attentive, SameSource
    <3>4. ~(Free' /\ remote' = None) BY <2>1, <3>2 DEF Free
    <3>5. QED BY <1>1, <3>3, <3>4, ElsewhereKeeps DEF Honest, Gone
  <2>4. QED BY <2>2, <2>3
<1>5. CASE Reopen
  <2>1. /\ UNCHANGED <<capture, health>> /\ call.at = "restart" /\ remote # None
        /\ \/ call' = NoCall /\ UNCHANGED <<remote, cleanup, cancelled>>
           \/ remote' = None /\ call' = [call EXCEPT !.at = "join"]
      BY <1>5 DEF Reopen, CleanUp, GoTo, owner
  <2>2. call' = [call EXCEPT !.at = "join"] => call'.at = "join" BY <1>1 DEF Typed, CallOf
  <2>3. Elsewhere BY <1>2, <2>1, <2>2 DEF Elsewhere, Recording, Attentive, SameSource, NoCall
  <2>4. ~(Free' /\ remote' = None) BY <2>1, <2>2 DEF Free, NoCall
  <2>5. QED BY <1>1, <2>3, <2>4, ElsewhereKeeps DEF Honest, Gone
<1>6. QED BY <1>3, <1>4, <1>5

(* Nobody writes when a group opens, and none of its lanes is up yet.        *)
LEMMA HealthStarts ==
    ASSUME WriterInv, GroupAssumption, Sole, Watched, Honest, Start
    PROVE  Honest'
<1>1. Typed /\ Commands /\ TypeOK /\ Unreplaced /\ Source \in Lanes /\ opened \in Nat
    BY PresentIs DEF WriterInv, Typed, Honest, Lanes
<1>2. /\ call.at = "start" /\ call' = NoCall /\ NoCall.at = "none" /\ remote = None /\ cleanup = None
      /\ UNCHANGED <<capture, cancelled, inbox>>
    BY StartIs DEF NoCall
<1>3. CASE UNCHANGED <<opened, remote, stream, col>>
  <2>1. ~Attentive'
    <3>1. Attentive => opened \in Writing BY <1>1 DEF Attentive, Writing, TypeOK, Groups, None
    <3>2. ~Attentive BY <1>2, <3>1 DEF Sole, Owned, Writing, Groups, None
    <3>3. QED BY <1>3, <3>2 DEF Attentive
  <2>2. Down'
    <3>1. ~OpenGroup BY <1>1, <1>3 DEF OpenGroup
    <3>2. Report("down", TRUE) BY <3>1 DEF Start
    <3>3. QED BY <3>2 DEF Report, Down
  <2>3. Unreplaced' BY <1>1, <1>2, <1>3, <2>1 DEF Unreplaced, Recording
  <2>4. Present' /\ Reported' /\ Gone' BY <1>2, <1>3, <2>1, <2>2 DEF Present, Reported, Gone
  <2>5. QED BY <2>3, <2>4 DEF Honest
<1>4. CASE /\ opened' = opened + 1 /\ remote' = opened + 1 /\ opened + 1 \in Groups
           /\ stream' = [l \in Lanes |-> Stream(pushed + 1, 0, 0)]
           /\ col' = [col EXCEPT ![opened + 1] = Collector("run", NextSequence, NextEpoch)]
  <2>1. /\ stream'[Source].gen = 0 /\ stream'[Source].phase = "dial" BY <1>1, <1>4 DEF Stream
  <2>2. /\ col'[opened'].at = "run" /\ col'[opened'].view[Source].gen = 0
        /\ ~col'[opened'].view[Source].failed /\ ~col'[opened'].view[Source].connected
    <3> DEFINE next == NextSequence
               epoch == NextEpoch
    <3>1. col'[opened'] = Collector("run", next, epoch) BY <1>1, <1>4 DEF Typed
    <3> HIDE DEF next, epoch
    <3>2. QED BY <1>1, <3>1 DEF Collector, View
  <2>3. remote' # None /\ remote' \notin cancelled' BY <1>1, <1>2, <1>4 DEF TypeOK, None
  <2>4. Len(inbox'[opened'][Source]) = 0
    <3>1. opened' \in Groups /\ opened' > opened BY <1>1, <1>4
    <3>2. inbox'[opened'][Source] = << >> BY <1>1, <1>2, <3>1 DEF Watched, Unused, Silent
    <3>3. QED BY <3>2
  <2>5. health'.is = "connecting"
    <3>1. ~UNCHANGED opened BY <1>1, <1>4
    <3>2. Report("connecting", FALSE) BY <3>1 DEF Start
    <3>3. QED BY <3>2 DEF Report
  <2>6. Unreplaced' /\ Present' /\ Gone'
      BY <1>2, <2>1, <2>2, <2>3, <2>4 DEF Unreplaced, Present, Gone
  <2>7. ~Live' BY <1>1, <2>2 DEF Live
  <2>8. Reported' BY <2>2, <2>5, <2>7 DEF Reported
  <2>9. QED BY <2>6, <2>8 DEF Honest
<1>5. QED BY <1>3, <1>4, StartIs

(* Every step keeps what the health says true.                               *)
LEMMA HealthStep ==
    ASSUME HealthInv, GroupAssumption, [Next]_vars
    PROVE  HealthInv'
<1>1. ViewInv' /\ WriterInv /\ WriterInv' /\ Watched /\ mishap \subseteq mishap'
    BY ViewStep, MishapGrows DEF HealthInv, ViewInv
<1>2. SUFFICES ASSUME "detached" \notin mishap' PROVE Honest' BY <1>1 DEF HealthInv
<1>3. Honest /\ Sole BY <1>1, <1>2 DEF HealthInv, WriterInv
<1>4. ASSUME NEW l \in Lanes, Connect(l) \/ Say(l) \/ Drop(l) \/ Die(l) \/ Finish(l) PROVE Honest'
  <2>1. StreamStep(l) BY <1>4 DEF StreamStep
  <2>2. QED BY <1>1, <1>3, <2>1, HealthStreams
<1>5. ASSUME NEW g \in Groups, NEW l \in Lanes, Hear(g, l) \/ HearCut(g, l) PROVE Honest'
    BY <1>1, <1>2, <1>3, <1>5, HealthHears, HealthCuts
<1>6. ASSUME NEW g \in Groups, Break(g) \/ Settle(g) \/ Drain(g) PROVE Honest'
    BY <1>1, <1>3, <1>6, HealthEnds
<1>7. CASE Push \/ Pause("pause") \/ Pause("resume") \/ Reopen BY <1>1, <1>3, <1>7, HealthOwner
<1>8. CASE Start BY <1>1, <1>3, <1>8, HealthStarts
<1>9. CASE CleanupAborts \/ Close \/ CollectorEnds BY <1>1, <1>3, <1>9, HealthAborts
<1>10. CASE \/ Restart \/ Replace \/ Join \/ Stop \/ StreamsEnd \/ Complete \/ Interrupt \/ Leave
            \/ Over \/ UNCHANGED vars
    BY <1>1, <1>3, <1>10, HealthRests
<1>11. QED BY <1>4, <1>5, <1>6, <1>7, <1>8, <1>9, <1>10 DEF Next

(* And a start makes it so: it is connecting, or there is no group and it    *)
(* says so.                                                                  *)
LEMMA HealthInit ==
    ASSUME GroupAssumption, Init
    PROVE  HealthInv
<1>1. ViewInv /\ Source \in Lanes BY ViewInit DEF Lanes
<1>2. /\ call = NoCall /\ cancelled = {} /\ cleanup = None /\ NoCall.at = "none"
      /\ \/ opened = 1 /\ remote = 1 /\ health.is = "connecting"
         \/ opened = 0 /\ remote = None /\ health.is = "down"
      /\ stream[Source].gen = 0 /\ stream[Source].phase = "dial"
    BY <1>1 DEF Init, Stream, NoCall
<1>3. opened = 1 =>
          /\ col[opened].at = "run" /\ col[opened].view[Source].gen = 0
          /\ ~col[opened].view[Source].failed /\ ~col[opened].view[Source].connected
          /\ Len(inbox[opened][Source]) = 0
  <2>1. SUFFICES ASSUME opened = 1
                 PROVE  /\ col[opened].at = "run" /\ col[opened].view[Source].gen = 0
                        /\ ~col[opened].view[Source].failed /\ ~col[opened].view[Source].connected
                        /\ Len(inbox[opened][Source]) = 0
      OBVIOUS
  <2>2. opened \in Groups BY <2>1 DEF Groups, GroupAssumption
  <2>3. col[opened] = Collector("run", 1, 0) /\ inbox[opened][Source] = << >>
      BY <1>1, <2>1, <2>2 DEF Init, Silent
  <2>4. QED BY <1>1, <2>3 DEF Collector, View
<1>4. Attentive => opened = 1 BY <1>2 DEF Attentive, None
<1>5. Unreplaced /\ Present BY <1>2, <1>3, <1>4 DEF Unreplaced, Present, None
<1>6. Reported
  <2>1. opened = 1 => ~Live BY <1>1, <1>3 DEF Live
  <2>2. QED BY <1>2, <1>3, <1>4, <2>1 DEF Reported, None
<1>7. Gone BY <1>2, <1>4 DEF Gone, Down, None
<1>8. QED BY <1>1, <1>5, <1>6, <1>7 DEF HealthInv, Honest

(* What the collector sees of a stopped lane is a failure.                   *)
LEMMA HealthMeans ==
    ASSUME HealthInv
    PROVE  HealthIsHonest
<1>1. SUFFICES ASSUME Free, capture \in {"recording", "paused"}, "detached" \notin mishap
               PROVE  /\ HealthFollowsLanes
                      /\ GoneIsDown \/ mishap \cap {"wedged", "abandoned"} # {}
    BY DEF HealthIsHonest
<1>2. Honest /\ ViewInv /\ Commands /\ TypeOK /\ Watched
    BY <1>1 DEF HealthInv, ViewInv, WriterInv, Typed
<1>3. ASSUME Heard
      PROVE  health.is = "live" <=>
                 \A l \in Lanes : ~stream[l].stopped /\ col[remote].view[l].connected
  <2>1. remote = opened /\ remote # None /\ Attentive /\ Tended
      BY <1>2, <1>3 DEF Heard, Commands, Attentive, Tended
  <2>2. health.is = "live" <=> Live BY <1>2, <2>1 DEF Honest, Reported
  <2>3. \A l \in Lanes : stream[l].stopped => col[remote].view[l].failed
      BY <1>2, <1>3, ViewMeans DEF ViewFollowsLane
  <2>4. \A l \in Lanes : col[remote].view[l].failed => ~col[remote].view[l].connected
      BY <1>2, <2>1 DEF Watched, Sights, Shows, Bounded
  <2>5. QED BY <2>1, <2>2, <2>3, <2>4 DEF Live
<1>4. ASSUME remote = None, Writing = {}, mishap \cap {"wedged", "abandoned"} = {}
      PROVE  health.is = "down"
  <2>1. opened = None \/ col[opened].at \notin {"run", "settling"}
      BY <1>2, <1>4 DEF Writing, TypeOK, Groups, None
  <2>2. QED BY <1>1, <1>2, <1>4, <2>1 DEF Honest, Gone, Recording, Down
<1>5. QED BY <1>3, <1>4 DEF HealthFollowsLanes, GoneIsDown

(* The health that a recording shows is the one of its lanes                 *)
(* (update_remote_health): once all is heard it is live exactly when every   *)
(* lane is up, and down where no group is left; a wedged stream or an        *)
(* abandoned collector alone leaves a group whose end nobody reported.       *)
THEOREM HealthFollows ==
    Spec => []HealthIsHonest
BY GroupAssumption, HealthInit, HealthStep, HealthMeans, PTL DEF Spec

=============================================================================
