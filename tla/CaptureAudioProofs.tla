------------------------- MODULE CaptureAudioProofs -------------------------
(***************************************************************************)
(* Proofs about CaptureAudio, for any minute, block sizes, flush interval, *)
(* length and number of failing steps, crashes and power losses.           *)
(*                                                                         *)
(* The theorems rest on AudioInv.  It says for every position of the       *)
(* handler that is running what the disk and the rows already are (Doing): *)
(* which chunks hold their minute, which are flushed, which have their     *)
(* row.  An index row stands for a prefix of the recording and names a     *)
(* flushed file (Rows), and what was accepted is in the journal or indexed *)
(* (Keeps).                                                                *)
(*                                                                         *)
(* A power loss is the step that needs all of it: what an index row names  *)
(* is flushed and stays, and a journal that is still there is shortened to *)
(* no less than the index covers, unless the loss overtook it, which       *)
(* `overtaken' says.  The capture slot needs Control only: the row of an   *)
(* unfinished run, its owner, the handler and the registry of detached     *)
(* runs always agree (Owned).                                              *)
(* LaunchIndexesIt adds Rebuilt: what a recovery has rebuilt it has from   *)
(* the journal that is there, so the row takes its length unless the row   *)
(* says more already.                                                      *)
(***************************************************************************)
EXTENDS CaptureAudio, Integers, WellFoundedInduction, TLAPS

(* The steps that write the files of a recording, and those after them.     *)
Writing == {"tail", "chunk", "trim", "seal"}
Late == {"finalize", "index", "entry", "unlink"}

(* The handlers, and the steps each of them can be at.                      *)
Kinds == {"none", "start"} \cup Owning \cup Recovering

Places ==
    {"none", "key", "journal", "rollback", "mark", "close", "complete",
     "register", "row", "load"} \cup Writing \cup Late

(* What the variables hold, field by field.                                 *)
States == Unfinished \cup {"none", "interrupted", "completed", "failed", "purged"}

Runs == [state : States, counted : 0..MaxFrames, path : BOOLEAN]

Entries ==
    [status : {"absent", "recording", "interrupted", "completed"},
     frames : 0..MaxFrames]

Journals ==
    [on : BOOLEAN, frames : 0..MaxFrames, torn : BOOLEAN, flushed : Nat,
     made : BOOLEAN]

Files == [on : BOOLEAN, from : 0..MaxFrames, upto : 0..MaxFrames, sealed : BOOLEAN]

Owners ==
    [on : BOOLEAN, state : Unfinished, frames : 0..MaxFrames,
     minute : 0..Minute - 1, start : Nat, next : Chunks, usable : BOOLEAN,
     unsynced : Nat, wake : BOOLEAN, syncFailed : BOOLEAN]

Lives == [queue : Seq(Nat), written : Seq(Nat), failed : BOOLEAN]

Jobs ==
    [kind : Kinds, at : Places, n : Nat, frames : 0..MaxFrames, count : Nat,
     from : {"journal", "live", "index"}, finalized : BOOLEAN]

(* TypeOK with every field of every record. *)
Types ==
    /\ run \in Runs
    /\ index \in [Chunks -> Interval]
    /\ entry \in Entries
    /\ journal \in Journals
    /\ journal.flushed <= journal.frames
    /\ file \in [Chunks -> Files]
    /\ active \in Owners
    /\ live \in Lives
    /\ seen \in 0..MaxFrames
    /\ detached \in BOOLEAN
    /\ job \in Jobs
    /\ up \in BOOLEAN
    /\ accepted \in 0..MaxFrames
    /\ overtaken \in BOOLEAN
    /\ stranded \in BOOLEAN

(* Where each handler can be. *)
Placed ==
    /\ job.kind = "none" <=> job.at = "none"
    /\ job.kind = "start" => job.at \in {"key", "journal", "rollback"}
    /\ job.kind = "stop" => job.at \in {"close", "complete"} \cup Writing \cup Late
    /\ job.kind = "interrupt" => job.at \in {"mark", "close"} \cup Writing \cup Late
    /\ job.kind = "teardown" =>
          job.at \in {"close", "register", "row"} \cup Writing \cup Late
    /\ job.kind = "recover" => job.at \in {"row", "load", "chunk", "trim", "seal"} \cup Late
    /\ job.kind = "launch" => job.at \in {"load", "chunk", "trim", "seal"} \cup Late
    /\ ~job.finalized => job.kind = "teardown" /\ job.at \in {"register", "row"}
    /\ job.from = "index" =>
          job.kind \in Recovering /\ job.at \in {"index", "entry", "unlink"}
    /\ job.at \in {"mark", "close"} => job.n = 0
    /\ job.kind # "none" => up

(* What the run's row says while it has an owner or a handler works for it,   *)
(* and that it is never left behind.                                          *)
Owned ==
    /\ active.on =>
          /\ up /\ job.at = "none" /\ ~detached /\ ~journal.torn
          /\ run.state = active.state /\ active.state \in {"recording", "paused"}
    /\ job.kind = "start" => run.state = "recording"
    /\ job.kind = "stop" =>
          detached /\ run.state = IF job.at = "unlink" THEN "completed" ELSE "draining"
    /\ job.kind = "interrupt" =>
          run.state = IF job.at = "mark" THEN active.state ELSE "interrupted"
    /\ job.kind = "teardown" =>
          run.state = IF job.at \in Late THEN "interrupted" ELSE active.state
    /\ job.kind = "teardown" /\ job.at = "row" => detached
    /\ job.kind \in Recovering /\ job.at # "row" => run.state = "interrupted"
    /\ job.kind = "recover" => detached \/ run.state = "interrupted"
    /\ run.state = "completed" /\ job.kind = "none" => ~detached
    /\ run.state = "completed" => job.kind \in {"none", "stop"}
    /\ SlotIsReclaimable

(* Before its journal was made a run has nothing. *)
Unmade ==
    /\ run.state \in {"none", "failed", "purged"} => job.kind = "none" /\ ~journal.made
    /\ job.kind = "start" => ~journal.made
    /\ journal.on => journal.made
    /\ ~journal.made =>
          /\ journal.frames = 0 /\ ~journal.torn /\ accepted = 0 /\ seen = 0
          /\ run.counted = 0 /\ ~run.path /\ ~overtaken
          /\ ~detached /\ ~active.on
          /\ job.kind \in {"none", "start"} \/ (job.kind = "launch" /\ job.at = "load")

(* ... and neither chunks nor rows.                                         *)
Blank == ~journal.made => \A i \in Chunks : ~index[i].on /\ ~file[i].on

(* The live chunk writer is still there.                                    *)
Closing == active.on \/ job.at \in {"mark", "close"}

(* The full minutes the recorder has cut are in their files.                *)
Minutes == \A i \in 0..active.next - 1 :
               i \in Chunks /\ Contents(i) = Held(i * Minute, (i + 1) * Minute)

(* What the recorder counts is cut into full minutes and one it has begun... *)
Cut ==
    /\ active.next * Minute + active.minute = active.frames
    /\ active.start = active.next * Minute

(* ... and the live chunk writer holds and has written full minutes only.     *)
Live ==
    /\ live.queue # <<>> => Closing
    /\ Closing =>
          /\ active.next * Minute <= active.frames
          /\ active.usable => Cut
          /\ \A k \in 1..Len(live.queue) : live.queue[k] < active.next
          /\ \A i \in Chunks : ~index[i].on
          /\ \A i \in Chunks : file[i].on => Contents(i) = Held(i * Minute, (i + 1) * Minute)
    /\ job.at = "tail" => Cut /\ Minutes

(* The owner's count is the journal's and the handler's.                      *)
Owns ==
    active.on \/ job.kind \in Owning =>
        /\ journal.on /\ journal.made /\ ~overtaken
        /\ journal.frames = active.frames
        /\ job.at \notin {"none", "mark", "close"} /\ job.finalized =>
              job.frames = active.frames

(* So is the progress writer's.                                             *)
Counting ==
    run.state \in Unfinished /\ seen # 0 =>
        journal.on /\ ~overtaken /\ seen = journal.frames

(* How long the recording is: what the journal holds, then what the row says. *)
Length == IF journal.on THEN journal.frames ELSE run.counted

(* The index rows there are stand for a prefix of the recording's chunks, and  *)
(* each names a flushed file of exactly that span.                             *)
Rows(len) ==
    \A i \in Chunks : index[i].on =>
        /\ i < ChunkCount(len)
        /\ index[i] = Span(i, len)
        /\ file[i] = AsFile(index[i], TRUE)
        /\ \A j \in Chunks : j < i => index[j].on

(* Nothing accepted is lost: it is in the journal, or in the index. *)
Keeps(len) ==
    /\ journal.on => accepted = len
    /\ ~journal.on /\ journal.made =>
          accepted = len /\ journal.frames <= len /\ Indexed(len)

(* The first n chunks hold their part of a recording of that length.        *)
Wrote(n, frames) == \A i \in 0..n - 1 : i \in Chunks /\ Contents(i) = Span(i, frames)

(* All chunks of the recording are written, and the handler knows how many. *)
Whole(len) ==
    job.frames = len /\ job.count = ChunkCount(len) /\ Wrote(job.count, len)

(* ... and flushed.                                                         *)
Lasting(len) == Whole(len) /\ \A i \in 0..job.count - 1 : file[i].sealed

(* How far each step of a handler has brought the chunks and their rows.      *)
Doing(len) ==
    /\ job.at \in Writing => journal.on
    /\ job.at = "chunk" => job.n < ChunkCount(len) /\ Wrote(job.n, len)
    /\ job.at \in {"trim", "seal"} => Whole(len)
    /\ job.at \in {"register", "row"} /\ job.kind = "teardown" /\ job.finalized =>
          Lasting(len)
    /\ job.at \in Late \cup {"complete"} =>
          Lasting(len) /\ (job.from = "index" <=> ~journal.on)
    /\ job.at \in {"index", "entry", "complete", "unlink"} => run.counted = len
    /\ job.at = "index" /\ job.kind \in Recovering =>
          job.n < job.count /\ \A j \in 0..job.n - 1 : index[j] = Span(j, len)
    /\ job.at \in {"entry", "complete", "unlink"} => Indexed(len)
    /\ job.at = "complete" => entry = [status |-> "completed", frames |-> len]

(* The audio of the recording, unless a power loss overtook it.             *)
Sound == ~overtaken => Rows(Length) /\ Keeps(Length) /\ Doing(Length)

(* What does not depend on the audio.                                       *)
Control == Types /\ Placed /\ Owned /\ Unmade

(* The inductive invariant.                                                 *)
AudioInv ==
    /\ Control /\ Blank /\ Live /\ Owns /\ Counting /\ Sound /\ CompletedIsExact

-----------------------------------------------------------------------------
(* Chunks of Minute frames.                                                 *)
LEMMA Times ==
  ASSUME NEW i \in Nat
  PROVE  i * Minute \in Nat /\ (i + 1) * Minute = i * Minute + Minute
BY CaptureAssumption

(* A chunk ends where a later one begins, or before.                        *)
LEMMA Before ==
  ASSUME NEW i \in Nat, NEW j \in Nat, i < j
  PROVE  i * Minute + Minute <= j * Minute
BY CaptureAssumption

(* The chunk a frame is in.                                                 *)
LEMMA Quotient ==
  ASSUME NEW a \in Nat
  PROVE  /\ a \div Minute \in Nat
         /\ (a \div Minute) * Minute <= a
         /\ a < (a \div Minute) * Minute + Minute
BY CaptureAssumption

(* Chunks are those that begin within the longest recording.                *)
LEMMA ChunksAre ==
  ASSUME NEW i \in Nat
  PROVE  i \in Chunks <=> i * Minute <= MaxFrames
<1>1. MaxFrames \in Nat
  BY CaptureAssumption
<1> DEFINE q == MaxFrames \div Minute
<1>2. q \in Nat /\ q * Minute <= MaxFrames /\ MaxFrames < q * Minute + Minute
  BY <1>1, Quotient
<1>3. i \in Chunks <=> i <= q
  BY <1>2 DEF Chunks
<1>4. i < q => i * Minute + Minute <= q * Minute
  BY <1>2, Before
<1>5. q < i => q * Minute + Minute <= i * Minute
  BY <1>2, Before
<1>6. i * Minute \in Nat /\ q * Minute \in Nat /\ Minute \in Nat
  BY <1>2, Times, CaptureAssumption
<1> HIDE DEF q
<1>7. CASE i < q
  BY <1>1, <1>2, <1>3, <1>4, <1>6, <1>7
<1>8. CASE i = q
  BY <1>1, <1>2, <1>3, <1>6, <1>8
<1>9. CASE q < i
  BY <1>1, <1>2, <1>3, <1>5, <1>6, <1>9
<1> QED BY <1>2, <1>7, <1>8, <1>9

(* Chunks are numbers.                                                      *)
LEMMA ChunksNat == \A i \in Chunks : i \in Nat
<1>1. MaxFrames \div Minute \in Nat
  BY CaptureAssumption, Quotient
<1> QED BY <1>1 DEF Chunks

(* A recording has its first chunk, and those that begin before its end.    *)
LEMMA CountIs ==
  ASSUME NEW frames \in Nat
  PROVE  /\ ChunkCount(frames) \in Nat \ {0}
         /\ \A i \in Nat : i < ChunkCount(frames) <=> i = 0 \/ i * Minute < frames
<1>1. Minute \in Nat \ {0}
  BY CaptureAssumption
<1>2. CASE frames = 0
  <2>1. ChunkCount(frames) = 1
    BY <1>2 DEF ChunkCount
  <2>2. \A i \in Nat : i * Minute \in Nat
    BY Times
  <2> QED BY <1>2, <2>1, <2>2
<1>3. CASE frames # 0
  <2> DEFINE a == frames + Minute - 1
             q == a \div Minute
  <2>1. a \in Nat /\ a >= Minute
    BY <1>1, <1>3
  <2>2. q \in Nat /\ q * Minute <= a /\ a < q * Minute + Minute /\ q * Minute \in Nat
    <3> HIDE DEF a
    <3> QED BY <2>1, Quotient, Times
  <2>3. ChunkCount(frames) = q
    BY <1>3 DEF ChunkCount
  <2>4. a = frames + Minute - 1
    OBVIOUS
  <2> HIDE DEF q, a
  <2>5. q # 0
    <3>1. q = 0 => q * Minute = 0
      BY <1>1
    <3> QED BY <1>1, <2>1, <2>2, <3>1
  <2>6. ASSUME NEW i \in Nat
        PROVE  i < q <=> i = 0 \/ i * Minute < frames
    <3>1. i * Minute \in Nat
      BY Times
    <3>2. i < q => i * Minute + Minute <= q * Minute
      BY <2>2, Before
    <3>3. q < i => q * Minute + Minute <= i * Minute
      BY <2>2, Before
    <3>4. CASE i < q
      BY <1>1, <2>2, <2>4, <3>1, <3>2, <3>4
    <3>5. CASE i = q
      BY <1>1, <2>2, <2>4, <2>5, <3>1, <3>5
    <3>6. CASE q < i
      BY <1>1, <2>2, <2>4, <3>1, <3>3, <3>6
    <3> QED BY <2>2, <3>4, <3>5, <3>6
  <2> QED BY <2>2, <2>3, <2>5, <2>6
<1> QED BY <1>2, <1>3

(* Min and Max of two.                                                      *)
LEMMA MinOfTwo ==
  ASSUME NEW a \in Nat, NEW b \in Nat
  PROVE  Min({a, b}) = IF a <= b THEN a ELSE b
<1>1. CASE a <= b
  <2>1. \A x \in {a, b} : (\A y \in {a, b} : x <= y) <=> x = a
    BY <1>1
  <2> QED BY <1>1, <2>1 DEF Min
<1>2. CASE ~(a <= b)
  <2>1. \A x \in {a, b} : (\A y \in {a, b} : x <= y) <=> x = b
    BY <1>2
  <2> QED BY <1>2, <2>1 DEF Min
<1> QED BY <1>1, <1>2

(* The larger of two numbers.                                               *)
LEMMA MaxOfTwo ==
  ASSUME NEW a \in Nat, NEW b \in Nat
  PROVE  Max({a, b}) = IF b <= a THEN a ELSE b
<1>1. CASE b <= a
  <2>1. \A x \in {a, b} : (\A y \in {a, b} : x >= y) <=> x = a
    BY <1>1
  <2> QED BY <1>1, <2>1 DEF Max
<1>2. CASE ~(b <= a)
  <2>1. \A x \in {a, b} : (\A y \in {a, b} : x >= y) <=> x = b
    BY <1>2
  <2> QED BY <1>2, <2>1 DEF Max
<1> QED BY <1>1, <1>2

(* A chunk ends with its minute or with the recording.                      *)
LEMMA SpanIs ==
  ASSUME NEW i \in Nat, NEW frames \in Nat
  PROVE  Span(i, frames) =
           Held(i * Minute, IF frames <= i * Minute + Minute THEN frames
                            ELSE i * Minute + Minute)
<1>1. (i + 1) * Minute = i * Minute + Minute /\ i * Minute + Minute \in Nat
  BY Times, CaptureAssumption
<1> QED BY <1>1, MinOfTwo DEF Span

(* What a chunk holds is an interval of frames.                             *)
LEMMA SpanIsInterval ==
  ASSUME NEW i \in Chunks, NEW frames \in 0..MaxFrames
  PROVE  Span(i, frames) \in Interval
<1>1. i \in Nat /\ MaxFrames \in Nat /\ Minute \in Nat
  BY ChunksNat, CaptureAssumption
<1>2. i * Minute \in Nat /\ i * Minute <= MaxFrames
  BY <1>1, Times, ChunksAre
<1>3. frames \in Nat
  BY <1>1
<1>4. Span(i, frames) = Held(i * Minute, IF frames <= i * Minute + Minute THEN frames
                            ELSE i * Minute + Minute)
  BY <1>1, <1>3, SpanIs
<1> DEFINE t == i * Minute
<1> HIDE DEF t
<1>5. t \in 0..MaxFrames
  BY <1>1, <1>2 DEF t
<1>6. (IF frames <= t + Minute THEN frames ELSE t + Minute) \in 0..MaxFrames
  BY <1>1, <1>3, <1>5
<1>7. Span(i, frames) = Held(t, IF frames <= t + Minute THEN frames ELSE t + Minute)
  BY <1>4 DEF t
<1> QED BY <1>5, <1>6, <1>7 DEF Held, Interval

(* A recording's chunks are among those there can be. *)
LEMMA CountedAreChunks ==
  ASSUME NEW frames \in 0..MaxFrames
  PROVE  \A i \in 0..ChunkCount(frames) - 1 : i \in Chunks
<1> TAKE i \in 0..ChunkCount(frames) - 1
<1>1. frames \in Nat /\ MaxFrames \in Nat
  BY CaptureAssumption
<1>2. i \in Nat /\ i < ChunkCount(frames)
  BY <1>1, CountIs
<1>3. i = 0 \/ i * Minute < frames
  BY <1>1, <1>2, CountIs
<1>4. i * Minute \in Nat
  BY <1>2, Times
<1>5. i = 0 => i * Minute = 0
  BY CaptureAssumption
<1> DEFINE t == i * Minute
<1> HIDE DEF t
<1>6. t \in Nat /\ (i = 0 \/ t < frames) /\ (i = 0 => t = 0)
  BY <1>3, <1>4, <1>5 DEF t
<1>7. t <= MaxFrames
  BY <1>1, <1>6
<1> QED BY <1>2, <1>7, ChunksAre DEF t

(* A set of numbers has a least element.                                    *)
LEMMA Least ==
  ASSUME NEW D \in SUBSET Nat, D # {}
  PROVE  \E d \in D : \A e \in D : d <= e
<1>1. IsWellFoundedOn(OpToRel(<, Nat), Nat)
  BY NatLessThanWellFounded
<1>2. PICK d \in D : \A e \in D : ~(<<e, d>> \in OpToRel(<, Nat))
  BY <1>1, WFMin
<1>3. ASSUME NEW e \in D PROVE d <= e
  <2>1. ~(<<e, d>> \in OpToRel(<, Nat))
    BY <1>2
  <2>2. ~(e < d)
    BY <2>1, Zenon DEF OpToRel
  <2> QED BY <2>2
<1> QED BY <1>3

(* A bounded set of numbers has a greatest element, and Max is it.          *)
LEMMA Greatest ==
  ASSUME NEW N \in Nat, NEW S \in SUBSET (0..N), S # {}
  PROVE  Max(S) \in S /\ \A x \in S : x <= Max(S)
<1> DEFINE D == {N - x : x \in S}
<1>1. \A x \in S : x \in Nat /\ N - x \in Nat
  OBVIOUS
<1>2. D \in SUBSET Nat /\ D # {}
  BY <1>1
<1>3. PICK d \in D : \A e \in D : d <= e
  <2> HIDE DEF D
  <2> QED BY <1>2, Least
<1>4. PICK x \in S : d = N - x
  OBVIOUS
<1>5. \A y \in S : N - y \in D
  OBVIOUS
<1>6. \A y \in S : x >= y
  <2> TAKE y \in S
  <2>1. d <= N - y
    <3> HIDE DEF D
    <3> QED BY <1>3, <1>5
  <2>2. x \in Int /\ y \in Int
    BY <1>1
  <2> HIDE DEF D
  <2> QED BY <2>1, <2>2, <1>4
<1> QED BY <1>6 DEF Max

(* No more frames are indexed than Covered says. *)
LEMMA CoveredIs ==
  /\ Covered \in 0..MaxFrames
  /\ \A frames \in 1..MaxFrames : Indexed(frames) => frames <= Covered
<1> DEFINE S == {0} \cup {frames \in 1..MaxFrames : Indexed(frames)}
<1>1. MaxFrames \in Nat
  BY CaptureAssumption
<1>2. S \in SUBSET (0..MaxFrames) /\ S # {}
  BY <1>1
<1>3. Covered = Max(S)
  BY DEF Covered
<1>4. Max(S) \in S /\ \A x \in S : x <= Max(S)
  <2> HIDE DEF S
  <2> QED BY <1>1, <1>2, Greatest
<1> QED BY <1>2, <1>3, <1>4

(* Every recording has a first chunk.                                       *)
LEMMA ZeroIsChunk == 0 \in Chunks
<1>1. 0 * Minute = 0 /\ MaxFrames \in Nat
  BY CaptureAssumption
<1> QED BY <1>1, ChunksAre

(* The records a handler starts from.                                       *)
LEMMA IdleIs == Idle \in Jobs
BY CaptureAssumption DEF Idle, Jobs, Kinds, Places

(* A handler begins with the journal as its source, and finalized.          *)
LEMMA JobIs ==
  ASSUME NEW kind \in Kinds, NEW at \in Places
  PROVE  /\ Job(kind, at) \in Jobs
         /\ Job(kind, at).kind = kind /\ Job(kind, at).at = at
         /\ Job(kind, at).from = "journal" /\ Job(kind, at).finalized
<1>1. Idle \in Jobs /\ Idle.from = "journal" /\ Idle.finalized
  BY IdleIs DEF Idle
<1>2. Job(kind, at) = [Idle EXCEPT !.kind = kind, !.at = at]
  BY DEF Job
<1> QED BY <1>1, <1>2 DEF Jobs

(* The handlers that begin.                                                 *)
LEMMA JobsAre ==
  /\ Job("start", "key") \in Jobs /\ Job("interrupt", "mark") \in Jobs
  /\ Job("stop", "close") \in Jobs /\ Job("recover", "row") \in Jobs
  /\ Job("launch", "load") \in Jobs
BY JobIs DEF Kinds, Places, Owning, Recovering

(* Without an owner.                                                        *)
LEMMA NoOwnerIs == NoOwner \in Owners /\ NoLive \in Lives
<1>1. 0 \in 0..MaxFrames /\ 0 \in 0..Minute - 1
  BY CaptureAssumption
<1>2. <<>> \in Seq(Nat)
  OBVIOUS
<1> QED BY <1>1, <1>2, ZeroIsChunk DEF NoOwner, NoLive, Owners, Lives, Unfinished

-----------------------------------------------------------------------------
(* What a step does not touch. *)
LEMMA IndexedStays ==
  ASSUME NEW len, UNCHANGED <<index, file>>, Indexed(len)
  PROVE  Indexed(len)'
BY DEF Indexed, Span, AsFile, Held

(* Rows are about the index and the files.                                  *)
LEMMA RowsStay ==
  ASSUME NEW len, UNCHANGED <<index, file>>, Rows(len)
  PROVE  Rows(len)'
BY DEF Rows, Span, AsFile, Held

(* A completed run stays exact where its rows and files do.                 *)
LEMMA CompletedStays ==
  ASSUME CompletedIsExact, UNCHANGED <<index, file, entry, accepted>>,
         run'.counted = run.counted,
         run'.state = "completed" => run.state = "completed"
  PROVE  CompletedIsExact'
<1>1. PICK len : len = run.counted
  OBVIOUS
<1>2. Indexed(len) => Indexed(len)'
  BY IndexedStays
<1>3. Indexed(run.counted)' <=> Indexed(len)'
  BY <1>1 DEF Indexed
<1> QED BY <1>1, <1>2, <1>3 DEF CompletedIsExact

(* The same index, files and length. *)
LEMMA KeptStays ==
  ASSUME Sound, UNCHANGED <<index, file, accepted, overtaken>>,
         run'.counted = run.counted, journal'.on = journal.on,
         journal'.frames = journal.frames, journal'.made = journal.made
  PROVE  /\ Length' = Length
         /\ ~overtaken' => Rows(Length)' /\ Keeps(Length)'
<1>1. Length' = Length
  BY DEF Length
<1>2. PICK len : len = Length
  OBVIOUS
<1>3. Rows(len) => Rows(len)'
  BY RowsStay
<1>4. Indexed(len) => Indexed(len)'
  BY IndexedStays
<1>5. Keeps(len) => Keeps(len)'
  BY <1>4 DEF Keeps
<1>6. (Rows(Length)' <=> Rows(len)') /\ (Keeps(Length)' <=> Keeps(len)')
  <2>1. Length' = len'
    BY <1>1, <1>2
  <2> QED BY <1>1, <1>2 DEF Rows, Keeps, Indexed
<1> QED BY <1>1, <1>2, <1>3, <1>5, <1>6 DEF Sound

(* A handler that has yet to touch the audio, or will not. *)
Aside ==
    /\ job.at \notin Writing \cup Late \cup {"complete"}
    /\ job.at \in {"register", "row"} => job.kind # "teardown" \/ ~job.finalized

(* The audio stays sound under a handler that is aside.                     *)
LEMMA SoundAside ==
  ASSUME Sound, UNCHANGED <<index, file, accepted, overtaken>>,
         run'.counted = run.counted, journal'.on = journal.on,
         journal'.frames = journal.frames, journal'.made = journal.made,
         Aside'
  PROVE  Sound'
<1>1. Doing(Length)'
  BY DEF Aside, Doing, Late, Writing
<1>2. ~overtaken' => Rows(Length)' /\ Keeps(Length)'
  BY KeptStays
<1> QED BY <1>1, <1>2 DEF Sound

(* A file and what it holds. *)
LEMMA FileHolds ==
  ASSUME NEW i \in Chunks, NEW len, NEW sealed, file[i] = AsFile(Span(i, len), sealed)
  PROVE  Contents(i) = Span(i, len) /\ file[i].sealed = sealed /\ file[i].on
<1>1. PICK a, b : Span(i, len) = [on |-> TRUE, from |-> a, upto |-> b]
  BY DEF Span, Held
<1>2. file[i] = [on |-> TRUE, from |-> a, upto |-> b, sealed |-> sealed]
  BY <1>1 DEF AsFile
<1>3. /\ file[i].on = TRUE /\ file[i].from = a /\ file[i].upto = b
      /\ file[i].sealed = sealed
  BY <1>2
<1>4. Contents(i) = [on |-> TRUE, from |-> a, upto |-> b]
  BY <1>3 DEF Contents
<1> QED BY <1>1, <1>3, <1>4

(* Installing a chunk. *)
LEMMA InstalledIs ==
  ASSUME file \in [Chunks -> Files], NEW n, NEW span \in Interval,
         file' = Installed(n, span)
  PROVE  /\ file' \in [Chunks -> Files]
         /\ \A j \in Chunks : j # n => file'[j] = file[j]
         /\ n \in Chunks =>
               /\ file'[n] = AsFile(span, file[n].sealed /\ Contents(n) = span)
               /\ Contents(n)' = span
<1>1. n \in Chunks => AsFile(span, file[n].sealed /\ Contents(n) = span) \in Files
  BY DEF AsFile, Files, Interval
<1>2. file' = [j \in Chunks |->
                 IF j = n THEN AsFile(span, file[n].sealed /\ Contents(n) = span)
                          ELSE file[j]]
  BY DEF Installed
<1>3. file' \in [Chunks -> Files] /\ \A j \in Chunks : j # n => file'[j] = file[j]
  BY <1>1, <1>2
<1>4. ASSUME n \in Chunks
      PROVE  /\ file'[n] = AsFile(span, file[n].sealed /\ Contents(n) = span)
             /\ Contents(n)' = span
  <2>1. file'[n] = AsFile(span, file[n].sealed /\ Contents(n) = span)
    BY <1>2, <1>4
  <2>2. /\ file'[n].on = span.on /\ file'[n].from = span.from /\ file'[n].upto = span.upto
    BY <2>1 DEF AsFile
  <2>3. span = [on |-> span.on, from |-> span.from, upto |-> span.upto]
    BY DEF Interval
  <2> QED BY <2>1, <2>2, <2>3 DEF Contents
<1> QED BY <1>3, <1>4

(* A chunk written again as it was stays what its row says it is. *)
LEMMA InstallKeepsRows ==
  ASSUME file \in [Chunks -> Files], NEW n, NEW len, Span(n, len) \in Interval,
         file' = Installed(n, Span(n, len)), index' = index, Rows(len)
  PROVE  Rows(len)'
<1> SUFFICES ASSUME NEW i \in Chunks, index[i].on
             PROVE  file'[i] = AsFile(index[i], TRUE)
  BY DEF Rows
<1>1. index[i] = Span(i, len) /\ file[i] = AsFile(index[i], TRUE)
  BY DEF Rows
<1>2. CASE i # n
  <2>1. \A j \in Chunks : j # n => file'[j] = file[j]
    BY InstalledIs
  <2> QED BY <1>1, <1>2, <2>1
<1>3. CASE i = n
  <2>1. Contents(i) = Span(i, len) /\ file[i].sealed = TRUE
    BY <1>1, FileHolds
  <2>2. file'[i] = AsFile(Span(i, len), file[i].sealed /\ Contents(i) = Span(i, len))
    BY <1>3, InstalledIs
  <2> QED BY <1>1, <2>1, <2>2
<1> QED BY <1>2, <1>3

(* Start: the key store.                                                    *)
LEMMA StoreKeyInv ==
  ASSUME AudioInv, StoreKey
  PROVE  AudioInv'
<1> USE DEF AudioInv, Control, disk, memory, history, rows
<1>1. /\ job.at = "key" /\ job'.at \in {"journal", "rollback"}
      /\ job' \in Jobs /\ job'.kind = job.kind /\ job'.from = job.from
      /\ job'.finalized = job.finalized
      /\ UNCHANGED <<run, index, entry, journal, file, active, live, seen, detached, up,
                     accepted, overtaken, stranded>>
  BY DEF StoreKey, At, GoTo, Types, Jobs, Places
<1>2. job.kind = "start"
  BY <1>1 DEF Types, Jobs, Kinds, Placed, Owning, Recovering, Writing, Late
<1>8. Types'
  BY <1>1 DEF Types
<1>9. Placed' /\ Owned' /\ Unmade'
  BY <1>1, <1>2 DEF Placed, Owned, Unmade, SlotIsReclaimable, Owning, Recovering
<1>20. Blank'
  BY <1>1, <1>2 DEF Blank, Unmade
<1>21. Live'
  BY <1>1, <1>2 DEF Live, Closing, Cut, Minutes, Contents, Held, Owned, Placed
<1>22. Owns' /\ Counting'
  BY <1>1, <1>2 DEF Owns, Counting, Owned, Placed, Unmade, Owning, Recovering, Unfinished
<1>23. Sound'
  BY <1>1, <1>2, SoundAside DEF Aside, Writing, Late
<1>24. CompletedIsExact'
  BY <1>1, <1>2, CompletedStays
<1> QED BY <1>8, <1>9, <1>20, <1>21, <1>22, <1>23, <1>24

(* Start: the rollback of a start that failed.                              *)
LEMMA RollbackInv ==
  ASSUME AudioInv, Rollback
  PROVE  AudioInv'
<1> USE DEF AudioInv, Control, disk, memory, rows
<1>1. /\ job.at = "rollback" /\ job' = Idle /\ up
      /\ UNCHANGED <<index, journal, file, active, live, seen, detached, up,
                     accepted, overtaken>>
  BY DEF Rollback, At
<1>2. /\ run' \in Runs /\ run'.counted = run.counted /\ run'.path = run.path
      /\ run'.state \in {"purged", "failed", run.state}
      /\ stranded' \in BOOLEAN /\ (run'.state \in {"purged", "failed"} \/ stranded')
  BY DEF Rollback, Types, Runs, States
<1>3. entry' \in Entries
  BY DEF Rollback, Types, Entries
<1>4. job' \in Jobs /\ job'.kind = "none" /\ job'.at = "none" /\ job'.from = "journal"
      /\ job'.finalized
  BY <1>1, IdleIs DEF Idle
<1>5. job.kind = "start"
  BY <1>1 DEF Types, Jobs, Kinds, Placed, Owning, Recovering, Writing, Late
<1>8. Types'
  BY <1>1, <1>2, <1>3, <1>4 DEF Types
<1>7. run.state = "recording" /\ ~journal.made
  BY <1>5 DEF Owned, Unmade
<1>9. Placed' /\ Owned' /\ Unmade'
  BY <1>1, <1>2, <1>4, <1>5, <1>7
     DEF Placed, Owned, Unmade, SlotIsReclaimable, Owning, Recovering, Unfinished
<1>20. Blank'
  BY <1>1, <1>2, <1>3, <1>4, <1>5, <1>7 DEF Blank, Unmade
<1>21. Live'
  BY <1>1, <1>2, <1>3, <1>4, <1>5, <1>7 DEF Live, Closing, Cut, Minutes, Contents, Held, Owned, Placed
<1>22. Owns' /\ Counting'
  BY <1>1, <1>2, <1>3, <1>4, <1>5, <1>7 DEF Owns, Counting, Owned, Placed, Unmade, Owning, Recovering, Unfinished
<1>23. Sound'
  BY <1>1, <1>2, <1>3, <1>4, <1>5, <1>7, SoundAside DEF Aside, Writing, Late
<1>24. CompletedIsExact'
  BY <1>1, <1>2, <1>3, <1>4, <1>5, <1>7 DEF CompletedIsExact
<1> QED BY <1>8, <1>9, <1>20, <1>21, <1>22, <1>23, <1>24

(* A push whose record fails hands the run to the interruption.             *)
LEMMA PushFailsInv ==
  ASSUME AudioInv, PushFails
  PROVE  AudioInv'
<1> USE DEF AudioInv, Control, history, rows
<1>1. /\ job' = Job("interrupt", "mark") /\ up /\ active.on
      /\ active' = [active EXCEPT !.on = FALSE]
      /\ UNCHANGED <<run, index, entry, file, live, seen, detached, up,
                     accepted, overtaken, stranded>>
  BY DEF PushFails
<1>2. active' \in Owners /\ ~active'.on /\ active'.state = active.state
  BY <1>1 DEF Types, Owners
<1>3. /\ journal' \in Journals /\ journal'.on = journal.on /\ journal'.made = journal.made
      /\ journal'.frames = journal.frames /\ journal'.flushed = journal.flushed
  BY DEF PushFails, Types, Journals
<1>4. job' \in Jobs /\ job'.kind = "interrupt" /\ job'.at = "mark" /\ job'.from = "journal"
      /\ job'.finalized /\ job'.n = 0
  BY <1>1, JobsAre DEF Job, Idle
<1>8. Types'
  BY <1>1, <1>2, <1>3, <1>4 DEF Types
<1>6. run.state = active.state /\ journal.made /\ active.state \in {"recording", "paused"}
  BY <1>1 DEF Owned, Unmade
<1>9. Placed' /\ Owned' /\ Unmade'
  BY <1>1, <1>2, <1>3, <1>4, <1>6
     DEF Placed, Owned, Unmade, SlotIsReclaimable, Owning, Recovering, Unfinished
<1>20. Blank'
  BY <1>1, <1>2, <1>3, <1>4, <1>6 DEF Blank, Unmade
<1>21. Live'
  BY <1>1, <1>2, <1>3, <1>4, <1>6 DEF Live, Closing, Cut, Minutes, Contents, Held, Owned, Placed
<1>22. Owns' /\ Counting'
  BY <1>1, <1>2, <1>3, <1>4, <1>6 DEF Owns, Counting, Owned, Placed, Unmade, Owning, Recovering, Unfinished
<1>23. Sound'
  BY <1>1, <1>2, <1>3, <1>4, <1>6, SoundAside DEF Aside, Writing, Late
<1>24. CompletedIsExact'
  BY <1>1, <1>2, <1>3, <1>4, <1>6, CompletedStays
<1> QED BY <1>8, <1>9, <1>20, <1>21, <1>22, <1>23, <1>24

(* An interruption begins.                                                  *)
LEMMA InterruptBeginsInv ==
  ASSUME AudioInv, InterruptBegins
  PROVE  AudioInv'
<1> USE DEF AudioInv, Control, history, rows, disk
<1>1. /\ job' = Job("interrupt", "mark") /\ up /\ active.on
      /\ active' = [active EXCEPT !.on = FALSE]
      /\ UNCHANGED <<run, index, entry, journal, file, live, seen, detached, up,
                     accepted, overtaken, stranded>>
  BY DEF InterruptBegins, At
<1>2. active' \in Owners /\ ~active'.on /\ active'.state = active.state
  BY <1>1 DEF Types, Owners
<1>4. job' \in Jobs /\ job'.kind = "interrupt" /\ job'.at = "mark" /\ job'.from = "journal"
      /\ job'.finalized /\ job'.n = 0
  BY <1>1, JobsAre DEF Job, Idle
<1>8. Types'
  BY <1>1, <1>2, <1>4 DEF Types
<1>6. run.state = active.state /\ journal.made /\ active.state \in {"recording", "paused"}
  BY <1>1 DEF Owned, Unmade
<1>9. Placed' /\ Owned' /\ Unmade'
  BY <1>1, <1>2, <1>4, <1>6
     DEF Placed, Owned, Unmade, SlotIsReclaimable, Owning, Recovering, Unfinished
<1>20. Blank'
  BY <1>1, <1>2, <1>4, <1>6 DEF Blank, Unmade
<1>21. Live'
  BY <1>1, <1>2, <1>4, <1>6 DEF Live, Closing, Cut, Minutes, Contents, Held, Owned, Placed
<1>22. Owns' /\ Counting'
  BY <1>1, <1>2, <1>4, <1>6 DEF Owns, Counting, Owned, Placed, Unmade, Owning, Recovering, Unfinished
<1>23. Sound'
  BY <1>1, <1>2, <1>4, <1>6, SoundAside DEF Aside, Writing, Late
<1>24. CompletedIsExact'
  BY <1>1, <1>2, <1>4, <1>6, CompletedStays
<1> QED BY <1>8, <1>9, <1>20, <1>21, <1>22, <1>23, <1>24

(* Stop: the run drains and is registered as detached.                      *)
LEMMA StopBeginsInv ==
  ASSUME AudioInv, StopBegins
  PROVE  AudioInv'
<1> USE DEF AudioInv, Control, history, disk
<1>1. /\ job' = Job("stop", "close") /\ up /\ active.on /\ detached' = TRUE
      /\ active' = [active EXCEPT !.on = FALSE, !.state = "draining"]
      /\ run' = [run EXCEPT !.state = "draining"]
      /\ UNCHANGED <<index, entry, journal, file, live, seen, up,
                     accepted, overtaken, stranded>>
  BY DEF StopBegins, At
<1>2. active' \in Owners /\ ~active'.on /\ active'.state = "draining"
  BY <1>1 DEF Types, Owners, Unfinished
<1>3. run' \in Runs /\ run'.state = "draining"
  BY <1>1 DEF Types, Runs, States, Unfinished
<1>4. job' \in Jobs /\ job'.kind = "stop" /\ job'.at = "close" /\ job'.from = "journal"
      /\ job'.finalized /\ job'.n = 0
  BY <1>1, JobsAre DEF Job, Idle
<1>8. Types'
  BY <1>1, <1>2, <1>3, <1>4 DEF Types
<1>6. journal.made
  BY <1>1 DEF Unmade
<1>9. Placed' /\ Owned' /\ Unmade'
  BY <1>1, <1>2, <1>3, <1>4, <1>6
     DEF Placed, Owned, Unmade, SlotIsReclaimable, Owning, Recovering, Unfinished
<1>20. Blank'
  BY <1>1, <1>2, <1>3, <1>4, <1>6 DEF Blank, Unmade
<1>21. Live'
  BY <1>1, <1>2, <1>3, <1>4, <1>6 DEF Live, Closing, Cut, Minutes, Contents, Held, Owned, Placed
<1>22. Owns' /\ Counting'
  BY <1>1, <1>2, <1>3, <1>4, <1>6 DEF Owns, Counting, Owned, Placed, Unmade, Owning, Recovering, Unfinished
<1>23. Sound'
  BY <1>1, <1>2, <1>3, <1>4, <1>6, SoundAside DEF Aside, Writing, Late
<1>24. CompletedIsExact'
  BY <1>1, <1>2, <1>3, <1>4, <1>6, CompletedStays
<1> QED BY <1>8, <1>9, <1>20, <1>21, <1>22, <1>23, <1>24

(* Pause and resume.                                                        *)
LEMMA PauseInv ==
  ASSUME AudioInv, NEW paused \in BOOLEAN, Pause(paused)
  PROVE  AudioInv'
<1> USE DEF AudioInv, Control, history, disk
<1>1. PICK to \in {"paused", "recording"} :
        /\ run' = [run EXCEPT !.state = to] /\ active' = [active EXCEPT !.state = to]
        /\ up /\ active.on
        /\ UNCHANGED <<index, entry, journal, file, live, seen, detached, job, up,
                       accepted, overtaken, stranded>>
  BY DEF Pause
<1>2. active' \in Owners /\ active'.on /\ active'.state = to
  BY <1>1 DEF Types, Owners, Unfinished
<1>3. run' \in Runs /\ run'.state = to
  BY <1>1 DEF Types, Runs, States, Unfinished
<1>8. Types'
  BY <1>1, <1>2, <1>3 DEF Types
<1>6. journal.made /\ job.kind = "none" /\ job.at = "none" /\ ~journal.torn
  BY <1>1 DEF Unmade, Owned, Placed
<1>9. Placed' /\ Owned' /\ Unmade'
  BY <1>1, <1>2, <1>3, <1>6
     DEF Placed, Owned, Unmade, SlotIsReclaimable, Owning, Recovering, Unfinished
<1>20. Blank'
  BY <1>1, <1>2, <1>3, <1>6 DEF Blank, Unmade
<1>21. Live'
  BY <1>1, <1>2, <1>3, <1>6 DEF Live, Closing, Cut, Minutes, Contents, Held, Owned, Placed
<1>22. Owns' /\ Counting'
  BY <1>1, <1>2, <1>3, <1>6 DEF Owns, Counting, Owned, Placed, Unmade, Owning, Recovering, Unfinished
<1>23. Sound'
  BY <1>1, <1>2, <1>3, <1>6, SoundAside DEF Aside, Writing, Late
<1>24. CompletedIsExact'
  BY <1>1, <1>2, <1>3, <1>6, CompletedStays
<1> QED BY <1>8, <1>9, <1>20, <1>21, <1>22, <1>23, <1>24

(* Start: the row that takes the capture slot.                              *)
LEMMA StartRowInv ==
  ASSUME AudioInv, StartRow
  PROVE  AudioInv'
<1> USE DEF AudioInv, Control, StartRow, At, disk, memory, history
<1>1. job' = Job("start", "key") /\ job' \in Jobs
  BY JobsAre
<1>2. job'.kind = "start" /\ job'.at = "key" /\ job'.finalized /\ job'.from = "journal"
  BY <1>1 DEF Job, Idle
<1>8. Types'
  <2>1. run' \in Runs /\ entry' \in Entries
    BY DEF Types, Runs, Entries, States, Unfinished
  <2> QED BY <1>1, <2>1 DEF Types
<1>6. Placed'
  BY <1>2 DEF Placed, Recovering
<1>5. run'.state = "recording" /\ run'.counted = run.counted /\ run'.path = run.path
  BY DEF Types, Runs
<1>9. Owned' /\ Unmade'
  BY <1>2, <1>5 DEF Placed, Owned, Unmade, SlotIsReclaimable, Recovering
<1>20. Blank'
  BY <1>1, <1>2, <1>5 DEF Blank, Unmade
<1>21. Live'
  BY <1>1, <1>2, <1>5 DEF Live, Closing, Cut, Minutes, Contents, Held, Owned, Placed
<1>22. Owns' /\ Counting'
  BY <1>1, <1>2, <1>5 DEF Owns, Counting, Owned, Placed, Unmade, Owning, Recovering, Unfinished
<1>23. Sound'
  BY <1>1, <1>2, <1>5, SoundAside DEF Aside, Writing, Late
<1>24. CompletedIsExact'
  BY <1>1, <1>2, <1>5 DEF CompletedIsExact
<1> QED BY <1>8, <1>9, <1>20, <1>21, <1>22, <1>23, <1>24, <1>6

(* Start: the journal is made and the recorder owns the run.                *)
LEMMA OpenJournalInv ==
  ASSUME AudioInv, OpenJournal
  PROVE  AudioInv'
<1> USE DEF AudioInv, Control, disk, memory, history, rows
<1>1. /\ job.at = "journal" /\ up
      /\ UNCHANGED <<run, index, entry, file, seen, detached, up, accepted, overtaken, stranded>>
      /\ \/ /\ job' = Idle /\ active' = [NoOwner EXCEPT !.on = TRUE] /\ live' = NoLive
            /\ journal' = [journal EXCEPT !.on = TRUE, !.made = TRUE]
         \/ /\ job' = [job EXCEPT !.at = "rollback"]
            /\ UNCHANGED <<journal, active, live>>
  BY DEF OpenJournal, At, GoTo
<1>2. job.kind = "start" /\ run.state = "recording" /\ ~journal.torn /\ ~detached
      /\ ~journal.made /\ ~journal.on /\ ~overtaken /\ journal.frames = 0 /\ accepted = 0
      /\ run.counted = 0 /\ seen = 0
  BY <1>1 DEF Types, Jobs, Kinds, Placed, Owned, Unmade, Owning, Recovering, Writing, Late
<1>3. CASE job' = Idle /\ active' = [NoOwner EXCEPT !.on = TRUE] /\ live' = NoLive
           /\ journal' = [journal EXCEPT !.on = TRUE, !.made = TRUE]
  <2>1. active' \in Owners /\ active'.on /\ active'.state = "recording" /\ active'.frames = 0
        /\ active'.minute = 0 /\ active'.next = 0 /\ active'.start = 0
    BY <1>3, NoOwnerIs DEF NoOwner, Owners
  <2>2. /\ journal' \in Journals /\ journal'.on /\ journal'.made
        /\ journal'.frames = journal.frames /\ journal'.torn = journal.torn
        /\ journal'.flushed = journal.flushed
    BY <1>3 DEF Types, Journals
  <2>3. job'.kind = "none" /\ job'.at = "none" /\ job'.finalized /\ job'.from = "journal"
    BY <1>3 DEF Idle
  <2>4. Types'
    BY <1>1, <1>3, <2>1, <2>2, NoOwnerIs, IdleIs DEF Types
  <2>5. Placed' /\ Owned' /\ Unmade'
    BY <1>1, <1>2, <2>1, <2>2, <2>3
       DEF Placed, Owned, Unmade, SlotIsReclaimable, Owning, Recovering
  <2>6. \A i \in Chunks : ~index[i].on /\ ~file[i].on
    BY <1>2 DEF Blank
  <2>7. live'.queue = <<>> /\ Len(live'.queue) = 0
    BY <1>3 DEF NoLive
  <2>8. Blank' /\ Live'
    <3>1. 0 * Minute = 0
      BY CaptureAssumption
    <3>2. Cut' /\ active'.next * Minute <= active'.frames
      BY <2>1, <3>1 DEF Cut
    <3>3. \A k \in 1..Len(live'.queue) : FALSE
      BY <2>7
    <3>4. \A i \in Chunks : ~index'[i].on /\ ~file'[i].on
      BY <1>1, <2>6
    <3> QED BY <2>3, <2>7, <3>2, <3>3, <3>4 DEF Blank, Live
  <2>9. Owns' /\ Counting'
    BY <1>1, <1>2, <2>1, <2>2, <2>3 DEF Owns, Counting, Owning
  <2>10. Sound'
    <3>1. Rows(Length)' /\ Keeps(Length)'
      BY <1>1, <1>2, <2>2, <2>6 DEF Rows, Keeps, Length
    <3>2. Doing(Length)'
      BY <2>3 DEF Doing, Writing, Late
    <3> QED BY <3>1, <3>2 DEF Sound
  <2>11. CompletedIsExact'
    BY <1>1, <1>2 DEF CompletedIsExact
  <2> QED BY <2>4, <2>5, <2>8, <2>9, <2>10, <2>11
<1>4. CASE job' = [job EXCEPT !.at = "rollback"] /\ UNCHANGED <<journal, active, live>>
  <2>1. job' \in Jobs /\ job'.kind = job.kind /\ job'.at = "rollback"
        /\ job'.from = job.from /\ job'.finalized = job.finalized
    BY <1>4 DEF Types, Jobs, Places
  <2>2. Types'
    BY <1>1, <1>4, <2>1 DEF Types
  <2>3. Placed' /\ Owned' /\ Unmade'
    BY <1>1, <1>2, <1>4, <2>1
       DEF Placed, Owned, Unmade, SlotIsReclaimable, Owning, Recovering
  <2>4. Blank' /\ Live'
    BY <1>1, <1>2, <1>4, <2>1 DEF Blank, Live, Closing, Owned
  <2>5. Owns' /\ Counting'
    BY <1>1, <1>2, <1>4, <2>1 DEF Owns, Counting, Owning, Owned
  <2>6. Sound' /\ CompletedIsExact'
    BY <1>1, <1>2, <1>4, <2>1, SoundAside, CompletedStays DEF Aside, Writing, Late
  <2> QED BY <2>2, <2>3, <2>4, <2>5, <2>6
<1> QED BY <1>1, <1>3, <1>4

(* The journal is flushed.                                                  *)
LEMMA FlushInv ==
  ASSUME AudioInv, Flush
  PROVE  AudioInv'
<1> USE DEF AudioInv, Control, history, rows
<1>1. UNCHANGED <<run, index, entry, file, live, seen, detached, job, up,
                  accepted, overtaken, stranded>>
  BY DEF Flush
<1>2. /\ active' \in Owners /\ active'.on = active.on /\ active'.state = active.state
      /\ active'.frames = active.frames /\ active'.minute = active.minute
      /\ active'.next = active.next /\ active'.start = active.start
      /\ active'.usable = active.usable
  BY DEF Flush, Types, Owners
<1>3. /\ journal' \in Journals /\ journal'.on = journal.on /\ journal'.made = journal.made
      /\ journal'.frames = journal.frames /\ journal'.torn = journal.torn
      /\ journal'.flushed <= journal'.frames
  BY CaptureAssumption DEF Flush, Types, Journals
<1>8. Types'
  BY <1>1, <1>2, <1>3 DEF Types
<1>9. Placed' /\ Owned' /\ Unmade'
  BY <1>1, <1>2, <1>3 DEF Placed, Owned, Unmade, SlotIsReclaimable, Owning, Recovering
<1>10. Doing(Length)' <=> Doing(Length)
  <2>1. Length' = Length
    BY <1>1, <1>3 DEF Length
  <2> QED BY <1>1, <1>3, <2>1 DEF Doing, Lasting, Whole, Wrote, Contents, Span, Indexed, AsFile, Held
<1>20. Blank'
  BY <1>1, <1>2, <1>3 DEF Blank, Unmade
<1>21. Live'
  BY <1>1, <1>2, <1>3 DEF Live, Closing, Cut, Minutes, Contents, Held, Owned, Placed
<1>22. Owns' /\ Counting'
  BY <1>1, <1>2, <1>3 DEF Owns, Counting, Owned, Placed, Unmade, Owning, Recovering, Unfinished
<1>23. Sound'
  BY <1>1, <1>2, <1>3, <1>10, KeptStays DEF Sound
<1>24. CompletedIsExact'
  BY <1>1, <1>2, <1>3, CompletedStays
<1> QED BY <1>8, <1>9, <1>20, <1>21, <1>22, <1>23, <1>24

(* The progress writer counts the frames in the row.                        *)
LEMMA ProgressInv ==
  ASSUME AudioInv, Progress
  PROVE  AudioInv'
<1> USE DEF AudioInv, Control, history, memory, disk
<1>1. /\ up /\ seen > run.counted /\ run.state \in Unfinished
      /\ UNCHANGED <<index, entry, journal, file, active, live, seen, detached, job, up,
                     accepted, overtaken, stranded>>
  BY DEF Progress
<1>2. run' \in Runs /\ run'.counted = seen /\ run'.state = run.state /\ run'.path = run.path
  BY DEF Progress, Types, Runs
<1>3. seen # 0 /\ seen = journal.frames /\ journal.on /\ ~overtaken /\ journal.made
  BY <1>1 DEF Counting, Types, Runs, Unmade
<1>4. Length' = Length /\ Length = journal.frames
  BY <1>1, <1>3 DEF Length
<1>5. job.at \notin {"index", "entry", "complete", "unlink"}
  BY <1>1, <1>3, <1>4 DEF Sound, Doing, Types, Runs
<1>6. Doing(Length)'
  BY <1>1, <1>3, <1>4, <1>5
     DEF Sound, Doing, Lasting, Whole, Wrote, Contents, Span, Indexed, AsFile, Held
<1>7. Rows(Length)' /\ Keeps(Length)'
  BY <1>1, <1>3, <1>4 DEF Sound, Rows, Keeps, Span, AsFile, Held
<1>8. Types'
  BY <1>1, <1>2 DEF Types
<1>9. Placed' /\ Owned' /\ Unmade'
  BY <1>1, <1>2, <1>3 DEF Placed, Owned, Unmade, SlotIsReclaimable, Owning, Recovering
<1>20. Blank'
  BY <1>1, <1>2, <1>3 DEF Blank, Unmade
<1>21. Live'
  BY <1>1, <1>2, <1>3 DEF Live, Closing, Cut, Minutes, Contents, Held, Owned, Placed
<1>22. Owns' /\ Counting'
  BY <1>1, <1>2, <1>3 DEF Owns, Counting, Owned, Placed, Unmade, Owning, Recovering, Unfinished
<1>23. Sound'
  BY <1>6, <1>7 DEF Sound
<1>24. CompletedIsExact'
  BY <1>1, <1>2, <1>3 DEF CompletedIsExact, Unfinished
<1> QED BY <1>8, <1>9, <1>20, <1>21, <1>22, <1>23, <1>24

(* The interruption marks the row.                                          *)
LEMMA MarkInterruptedInv ==
  ASSUME AudioInv, MarkInterrupted
  PROVE  AudioInv'
<1> USE DEF AudioInv, Control, history, memory, disk
<1>1. /\ up /\ job.at = "mark"
      /\ UNCHANGED <<index, entry, journal, file, active, live, seen, detached, up,
                     accepted, overtaken, stranded>>
  BY DEF MarkInterrupted, At
<1>2. job.kind = "interrupt" /\ run.state = active.state /\ ~active.on /\ journal.made
      /\ run.state \in Unfinished /\ job.finalized /\ job.from # "index"
  BY <1>1 DEF Types, Jobs, Kinds, Owners, Placed, Owned, Unmade, Owning, Recovering,
              Writing, Late
<1>3. /\ run' \in Runs /\ run'.counted = run.counted /\ run'.path = run.path
      /\ job' \in Jobs /\ job'.from = job.from /\ job'.finalized = job.finalized
      /\ job'.at = "close" /\ job'.n = job.n
      /\ \/ run'.state = "interrupted" /\ job'.kind = "interrupt"
         \/ run'.state = run.state /\ job'.kind = "teardown"
  BY <1>2 DEF MarkInterrupted, GoTo, Types, Runs, States, Jobs, Kinds, Places, Owning
<1>8. Types'
  BY <1>1, <1>3 DEF Types
<1>7. Placed' /\ Unmade'
  BY <1>1, <1>2, <1>3 DEF Placed, Unmade, Owning, Recovering, Unfinished
<1>9. Owned'
  BY <1>1, <1>2, <1>3 DEF Owned, SlotIsReclaimable, Recovering, Unfinished, Writing, Late
<1>20. Blank'
  BY <1>1, <1>2, <1>3 DEF Blank, Unmade
<1>21. Live'
  BY <1>1, <1>2, <1>3 DEF Live, Closing, Cut, Minutes, Contents, Held, Owned, Placed
<1>22. Owns' /\ Counting'
  BY <1>1, <1>2, <1>3 DEF Owns, Counting, Owned, Placed, Unmade, Owning, Recovering, Unfinished
<1>23. Sound'
  BY <1>1, <1>2, <1>3, SoundAside DEF Aside, Writing, Late
<1>24. CompletedIsExact'
  BY <1>1, <1>2, <1>3, CompletedStays
<1> QED BY <1>8, <1>9, <1>20, <1>21, <1>22, <1>23, <1>24, <1>7

(* The live writer's chunks are not used but rebuilt.                       *)
LEMMA LiveUnusableInv ==
  ASSUME AudioInv, LiveUnusable
  PROVE  AudioInv'
<1> USE DEF AudioInv, Control, history, memory, disk, rows
<1>1. /\ up /\ (job.at = "tail" \/ (job.at = "seal" /\ job.from = "live"))
      /\ job' = [job EXCEPT !.at = "chunk", !.n = 0, !.from = "journal"]
      /\ UNCHANGED <<run, index, entry, journal, file, active, live, seen, detached, up,
                     accepted, overtaken, stranded>>
  BY DEF LiveUnusable, At
<1>2. /\ job' \in Jobs /\ job'.kind = job.kind /\ job'.at = "chunk" /\ job'.n = 0
      /\ job'.from = "journal" /\ job'.frames = job.frames /\ job'.finalized = job.finalized
  BY <1>1 DEF Types, Jobs, Places, Writing
<1>3. Length \in Nat /\ Length' = Length
  BY <1>1, CaptureAssumption DEF Types, Journals, Runs, Length
<1>4. ~overtaken => Doing(Length)'
  <2>1. 0 < ChunkCount(Length)
    BY <1>3, CountIs
  <2>2. Wrote(0, Length)'
    BY DEF Wrote
  <2>3. ~overtaken => journal.on
    BY <1>1 DEF Sound, Doing, Writing
  <2> QED BY <1>1, <1>2, <1>3, <2>1, <2>2, <2>3 DEF Doing, Writing, Late, Wrote
<1>8. Types'
  BY <1>1, <1>2 DEF Types
<1>9. Placed' /\ Owned' /\ Unmade'
  BY <1>1, <1>2
     DEF Types, Jobs, Kinds, Placed, Owned, Unmade, SlotIsReclaimable, Owning, Recovering,
         Writing, Late
<1>20. Blank'
  BY <1>1, <1>2 DEF Blank, Unmade
<1>21. Live'
  BY <1>1, <1>2 DEF Live, Closing, Cut, Minutes, Contents, Held, Owned, Placed
<1>22. Owns' /\ Counting'
  BY <1>1, <1>2 DEF Owns, Counting, Owned, Placed, Unmade, Owning, Recovering, Unfinished
<1>23. Sound'
  BY <1>1, <1>2, <1>4, KeptStays DEF Sound
<1>24. CompletedIsExact'
  BY <1>1, <1>2, CompletedStays
<1> QED BY <1>8, <1>9, <1>20, <1>21, <1>22, <1>23, <1>24

(* A run whose teardown failed is registered as detached.                   *)
LEMMA RegisterInv ==
  ASSUME AudioInv, Register
  PROVE  AudioInv'
<1> USE DEF AudioInv, Control, history, memory, disk, rows, Proceeds
<1>1. /\ up /\ job.at = "register" /\ detached' = TRUE
      /\ UNCHANGED <<run, index, entry, journal, file, active, live, seen, up,
                     accepted, overtaken, stranded>>
  BY DEF Register, At
<1>2. /\ job' \in Jobs /\ job'.kind = job.kind /\ job'.at = "row" /\ job'.n = job.n
      /\ job'.from = job.from /\ job'.frames = job.frames /\ job'.finalized = job.finalized
      /\ job'.count = job.count
  BY DEF Register, GoTo, Types, Jobs, Places
<1>3. job.kind = "teardown" /\ journal.made
  BY <1>1 DEF Types, Jobs, Kinds, Placed, Owns, Owning, Recovering, Writing, Late
<1>4. ~overtaken => Doing(Length)'
  <2>1. Length' = Length
    BY <1>1 DEF Length
  <2> QED BY <1>1, <1>2, <2>1
     DEF Sound, Doing, Lasting, Whole, Wrote, Contents, Span, AsFile, Held, Writing, Late
<1>8. Types'
  BY <1>1, <1>2 DEF Types
<1>9. Placed' /\ Owned' /\ Unmade'
  BY <1>1, <1>2, <1>3
     DEF Placed, Owned, Unmade, SlotIsReclaimable, Owning, Recovering, Writing, Late
<1>20. Blank'
  BY <1>1, <1>2, <1>3 DEF Blank, Unmade
<1>21. Live'
  BY <1>1, <1>2, <1>3 DEF Live, Closing, Cut, Minutes, Contents, Held, Owned, Placed
<1>22. Owns' /\ Counting'
  BY <1>1, <1>2, <1>3 DEF Owns, Counting, Owned, Placed, Unmade, Owning, Recovering, Unfinished
<1>23. Sound'
  BY <1>1, <1>2, <1>3, <1>4, KeptStays DEF Sound
<1>24. CompletedIsExact'
  BY <1>1, <1>2, <1>3, CompletedStays
<1> QED BY <1>8, <1>9, <1>20, <1>21, <1>22, <1>23, <1>24

(* A later start takes over a detached run.                                 *)
LEMMA RetryDetachedInv ==
  ASSUME AudioInv, RetryDetached
  PROVE  AudioInv'
<1> USE DEF AudioInv, Control, history, memory, disk, rows, Proceeds
<1>1. /\ up /\ job.at = "none" /\ detached /\ job' = Job("recover", "row")
      /\ UNCHANGED <<run, index, entry, journal, file, active, live, seen, detached, up,
                     accepted, overtaken, stranded>>
  BY DEF RetryDetached, At
<1>2. job' \in Jobs /\ job'.kind = "recover" /\ job'.at = "row" /\ job'.from = "journal"
      /\ job'.finalized
  BY <1>1, JobsAre DEF Job, Idle
<1>3. job.kind = "none" /\ journal.made /\ ~active.on /\ run.state # "completed"
  BY <1>1 DEF Placed, Owned, Unmade
<1>8. Types'
  BY <1>1, <1>2 DEF Types
<1>9. Placed' /\ Owned' /\ Unmade'
  BY <1>1, <1>2, <1>3
     DEF Placed, Owned, Unmade, SlotIsReclaimable, Owning, Recovering, Writing, Late
<1>20. Blank'
  BY <1>1, <1>2, <1>3 DEF Blank, Unmade
<1>21. Live'
  BY <1>1, <1>2, <1>3 DEF Live, Closing, Cut, Minutes, Contents, Held, Owned, Placed
<1>22. Owns' /\ Counting'
  BY <1>1, <1>2, <1>3 DEF Owns, Counting, Owned, Placed, Unmade, Owning, Recovering, Unfinished
<1>23. Sound'
  BY <1>1, <1>2, <1>3, SoundAside DEF Aside, Writing, Late
<1>24. CompletedIsExact'
  BY <1>1, <1>2, <1>3, CompletedStays
<1> QED BY <1>8, <1>9, <1>20, <1>21, <1>22, <1>23, <1>24

(* The app is launched.                                                     *)
LEMMA LaunchInv ==
  ASSUME AudioInv, Launch
  PROVE  AudioInv'
<1> USE DEF AudioInv, Control, history, memory, disk
<1>1. /\ ~up /\ up'
      /\ UNCHANGED <<index, entry, journal, file, active, live, seen, detached,
                     accepted, overtaken, stranded>>
  BY DEF Launch
<1>2. /\ run' \in Runs /\ run'.counted = run.counted /\ run'.path = run.path
      /\ run'.state = IF run.state \in Unfinished THEN "interrupted" ELSE run.state
  BY DEF Launch, Types, Runs, States
<1>3. /\ job' \in Jobs /\ job'.from = "journal" /\ job'.finalized
      /\ IF run'.state = "interrupted" THEN job'.kind = "launch" /\ job'.at = "load"
         ELSE job'.kind = "none" /\ job'.at = "none"
  BY JobsAre, IdleIs DEF Launch, Job, Idle
<1>4. job.kind = "none" /\ job.at = "none" /\ ~active.on
  BY <1>1 DEF Placed, Owned
<1>8. Types'
  BY <1>1, <1>2, <1>3 DEF Types
<1>9. Placed' /\ Owned' /\ Unmade'
  BY <1>1, <1>2, <1>3, <1>4
     DEF Placed, Owned, Unmade, SlotIsReclaimable, Owning, Recovering, Writing, Late, Unfinished
<1>20. Blank'
  BY <1>1, <1>2, <1>3, <1>4 DEF Blank, Unmade
<1>21. Live'
  BY <1>1, <1>2, <1>3, <1>4 DEF Live, Closing, Cut, Minutes, Contents, Held, Owned, Placed
<1>22. Owns' /\ Counting'
  BY <1>1, <1>2, <1>3, <1>4 DEF Owns, Counting, Owned, Placed, Unmade, Owning, Recovering, Unfinished
<1>23. Sound'
  BY <1>1, <1>2, <1>3, <1>4, SoundAside DEF Aside, Writing, Late
<1>24. CompletedIsExact'
  BY <1>1, <1>2, <1>3, <1>4, CompletedStays
<1> QED BY <1>8, <1>9, <1>20, <1>21, <1>22, <1>23, <1>24

(* The process dies; files and the page cache stay.                         *)
LEMMA CrashInv ==
  ASSUME AudioInv, Crash
  PROVE  AudioInv'
<1> USE DEF AudioInv, Control, rows
<1>1. /\ active' = NoOwner /\ live' = NoLive /\ seen' = 0 /\ ~detached' /\ ~stranded' /\ ~up'
      /\ detached' \in BOOLEAN /\ stranded' \in BOOLEAN /\ up' \in BOOLEAN
      /\ job' = Idle
      /\ UNCHANGED <<run, index, entry, file, accepted, overtaken>>
  BY DEF Crash, Dies
<1>2. /\ journal' \in Journals /\ journal'.on = journal.on /\ journal'.made = journal.made
      /\ journal'.frames = journal.frames /\ journal'.flushed = journal.flushed
      /\ journal.torn \/ active.on \/ ~journal'.torn
  BY DEF Crash, Types, Journals, Owners
<1>3. job'.kind = "none" /\ job'.at = "none" /\ job'.from = "journal" /\ job'.finalized
      /\ job' \in Jobs
  BY <1>1, IdleIs DEF Idle
<1>4. ~active'.on /\ live'.queue = <<>> /\ active' \in Owners /\ live' \in Lives
  BY <1>1, NoOwnerIs DEF NoOwner, NoLive
<1>5. seen' \in 0..MaxFrames
  BY <1>1, CaptureAssumption
<1>6. run.state \in {"none", "failed", "purged"} => ~journal.made
  BY DEF Unmade
<1>8. Types'
  BY <1>1, <1>2, <1>3, <1>4, <1>5 DEF Types
<1>9. Placed' /\ Owned' /\ Unmade'
  BY <1>1, <1>2, <1>3, <1>4, <1>6
     DEF Placed, Owned, Unmade, SlotIsReclaimable, Owning, Recovering, Writing, Late
<1>20. Blank'
  BY <1>1, <1>2, <1>3, <1>4 DEF Blank, Unmade
<1>21. Live'
  BY <1>1, <1>2, <1>3, <1>4 DEF Live, Closing, Cut, Minutes, Contents, Held, Owned, Placed
<1>22. Owns' /\ Counting'
  BY <1>1, <1>2, <1>3, <1>4 DEF Owns, Counting, Owned, Placed, Unmade, Owning, Recovering, Unfinished
<1>23. Sound'
  BY <1>1, <1>2, <1>3, <1>4, SoundAside DEF Aside, Writing, Late
<1>24. CompletedIsExact'
  BY <1>1, <1>2, <1>3, <1>4, CompletedStays
<1> QED BY <1>8, <1>9, <1>20, <1>21, <1>22, <1>23, <1>24

(* The row of a detached run is marked interrupted.                         *)
LEMMA FreeRowInv ==
  ASSUME AudioInv, FreeRow
  PROVE  AudioInv'
<1> USE DEF AudioInv, Control, history, disk
<1>1. /\ up /\ job.at = "row"
      /\ UNCHANGED <<index, entry, journal, file, active, live, seen, up,
                     accepted, overtaken, stranded>>
  BY DEF FreeRow, At
<1>2. /\ job.kind \in {"teardown", "recover"} /\ journal.made /\ ~active.on
      /\ job.from # "index" /\ (~job.finalized => job.kind = "teardown")
      /\ (job.kind = "teardown" => detached /\ run.state = active.state)
      /\ (job.kind = "recover" => job.finalized)
      /\ (job.kind = "recover" => detached \/ run.state = "interrupted")
      /\ run.state \notin {"none", "failed", "purged", "completed"}
  BY <1>1 DEF Types, Jobs, Kinds, Runs, Owners, Placed, Owned, Unmade, Owning, Recovering,
              Writing, Late, Unfinished
<1>3. run.state \in Unfinished \cup {"interrupted"}
  BY <1>2 DEF Types, Runs, States
<1>4. CASE job' = Idle /\ UNCHANGED <<run, detached>>
  <2>1. job'.kind = "none" /\ job'.at = "none" /\ job'.finalized /\ job'.from = "journal"
        /\ job' \in Jobs
    BY <1>4, IdleIs DEF Idle
  <2>2. Types'
    BY <1>1, <1>4, <2>1 DEF Types
  <2>3. Placed' /\ Owned' /\ Unmade'
    BY <1>1, <1>2, <1>3, <1>4, <2>1
       DEF Placed, Owned, Unmade, SlotIsReclaimable, Owning, Recovering, Unfinished
  <2>4. Blank' /\ Live'
    BY <1>1, <1>2, <1>4, <2>1 DEF Blank, Live, Closing
  <2>5. Owns' /\ Counting'
    BY <1>1, <1>2, <1>4, <2>1 DEF Owns, Counting, Owning
  <2>6. Sound' /\ CompletedIsExact'
    BY <1>1, <1>4, <2>1, SoundAside, CompletedStays DEF Aside, Writing, Late
  <2> QED BY <2>2, <2>3, <2>4, <2>5, <2>6
<1>5. CASE ~(job' = Idle /\ UNCHANGED <<run, detached>>)
  <2>1. /\ run' = [run EXCEPT !.state = IF @ \in Unfinished THEN "interrupted" ELSE @]
        /\ job' = IF ~(job.finalized /\ run'.state = "interrupted") THEN Idle
                  ELSE [job EXCEPT !.at = IF job.kind = "teardown" THEN "finalize" ELSE "load"]
        /\ detached' = (job.kind = "recover" /\ job.finalized /\ run'.state = "interrupted")
    BY <1>5 DEF FreeRow
  <2>2. /\ run' \in Runs /\ run'.counted = run.counted /\ run'.path = run.path
        /\ run'.state = "interrupted"
    BY <1>3, <2>1 DEF Types, Runs, States
  <2>3. /\ job' \in Jobs /\ job'.finalized
        /\ IF job.finalized
           THEN /\ job'.kind = job.kind /\ job'.from = job.from /\ job'.n = job.n
                /\ job'.frames = job.frames /\ job'.count = job.count
                /\ job'.at = IF job.kind = "teardown" THEN "finalize" ELSE "load"
           ELSE job'.kind = "none" /\ job'.at = "none" /\ job'.from = "journal"
    <3>1. CASE job.finalized
      <4>1. job' = [job EXCEPT !.at = IF job.kind = "teardown" THEN "finalize" ELSE "load"]
        BY <2>1, <2>2, <3>1
      <4> QED BY <3>1, <4>1 DEF Types, Jobs, Places, Late
    <3>2. CASE ~job.finalized
      BY <2>1, <3>2, IdleIs DEF Idle
    <3> QED BY <3>1, <3>2
  <2>4. detached' \in BOOLEAN /\ detached' = (job.kind = "recover")
    BY <1>2, <2>1, <2>2
  <2>5. Types'
    BY <1>1, <2>2, <2>3, <2>4 DEF Types
  <2>6. Placed' /\ Unmade'
    BY <1>1, <1>2, <2>2, <2>3, <2>4
       DEF Placed, Unmade, Owning, Recovering, Unfinished, Writing, Late
  <2>7. Owned'
    BY <1>1, <1>2, <2>2, <2>3, <2>4
       DEF Owned, SlotIsReclaimable, Owning, Recovering, Unfinished, Writing, Late
  <2>8. Blank' /\ Live'
    BY <1>1, <1>2, <2>3 DEF Blank, Live, Closing
  <2>9. Owns' /\ Counting'
    BY <1>1, <1>2, <2>2, <2>3 DEF Owns, Counting, Owning, Unfinished
  <2>10. ~overtaken => Doing(Length)'
    <3>1. Length' = Length
      BY <1>1, <2>2 DEF Length
    <3>2. CASE job'.at = "finalize"
      <4>1. job.kind = "teardown" /\ job.finalized /\ journal.on /\ job'.from # "index"
        BY <1>2, <2>3, <3>2 DEF Owns, Owning
      <4>2. ~overtaken => Lasting(Length)
        BY <1>1, <4>1 DEF Sound, Doing
      <4>3. Lasting(Length) => Lasting(Length)'
        BY <1>1, <2>3, <3>1, <4>1
           DEF Lasting, Whole, Wrote, Contents, Span, AsFile, Held
      <4> QED BY <1>1, <3>2, <4>1, <4>2, <4>3 DEF Doing, Writing, Late
    <3>3. CASE job'.at # "finalize"
      BY <2>3, <3>3 DEF Doing, Writing, Late
    <3> QED BY <3>2, <3>3
  <2>11. Sound'
    BY <1>1, <2>2, <2>10, KeptStays DEF Sound
  <2>12. CompletedIsExact'
    BY <2>2 DEF CompletedIsExact
  <2> QED BY <2>5, <2>6, <2>7, <2>8, <2>9, <2>11, <2>12
<1> QED BY <1>4, <1>5

(* However a handler ends early, what is on disk stays as it is. *)
LEMMA GivesUpInv ==
  ASSUME AudioInv, NEW k \in 0..1, GivesUp(k), up,
         job.at \notin {"none", "mark", "row"},
         job.at = "unlink" => job.kind \in Recovering,
         live.queue = <<>>
  PROVE  AudioInv'
<1> USE DEF AudioInv, Control, history, disk
<1>1. UNCHANGED <<index, entry, journal, file, active, live, seen, up,
                  accepted, overtaken, stranded>>
  BY DEF GivesUp
<1>2. ~active.on /\ job.kind \in Kinds /\ job.kind # "none"
  BY DEF Types, Jobs, Owned, Placed
<1>3. \/ /\ job.kind = "stop" /\ detached' = detached
         /\ \/ job' = Job("recover", "row") /\ run' = [run EXCEPT !.state = "interrupted"]
            \/ job' = Idle /\ run' = run
      \/ /\ job.kind = "interrupt" /\ job' = Idle /\ run' = run
         /\ detached' \in {TRUE, detached}
      \/ /\ job.kind = "teardown" /\ run.state \in Unfinished /\ run' = run
         /\ detached' = detached
         /\ job' = [job EXCEPT !.at = "register", !.finalized = FALSE]
      \/ /\ job.kind \in {"teardown"} \cup Recovering /\ run' = run
         /\ detached' = detached /\ job' = Idle
         /\ ~(job.kind = "teardown" /\ run.state \in Unfinished)
  BY DEF GivesUp, StopGivesUp, InterruptGivesUp, OtherGivesUp
<1>4. /\ run' \in Runs /\ run'.counted = run.counted /\ run'.path = run.path
      /\ run'.state # run.state =>
            run'.state = "interrupted" /\ job.kind = "stop" /\ job'.kind = "recover"
  BY <1>3, JobsAre DEF Types, Runs, States, Job, Idle
<1>5. /\ job' \in Jobs /\ job'.from \in {"journal", job.from}
      /\ \/ job'.kind = "none" /\ job'.at = "none" /\ job'.finalized /\ job'.from = "journal"
              /\ ~(job.kind = "teardown" /\ run.state \in Unfinished)
         \/ job'.kind = "recover" /\ job'.at = "row" /\ job.kind = "stop" /\ job'.finalized
              /\ job'.from = "journal"
         \/ job'.kind = "teardown" /\ job'.at = "register" /\ ~job'.finalized
              /\ job.kind = "teardown" /\ job'.from = job.from /\ run' = run
              /\ run.state \in Unfinished
  <2>1. Idle \in Jobs /\ Idle.kind = "none" /\ Idle.at = "none" /\ Idle.finalized
        /\ Idle.from = "journal"
    BY IdleIs DEF Idle
  <2>2. /\ Job("recover", "row") \in Jobs /\ Job("recover", "row").kind = "recover"
        /\ Job("recover", "row").at = "row" /\ Job("recover", "row").finalized
        /\ Job("recover", "row").from = "journal"
    BY JobsAre DEF Job, Idle
  <2>3. job' = [job EXCEPT !.at = "register", !.finalized = FALSE] =>
          /\ job' \in Jobs /\ job'.kind = job.kind /\ job'.from = job.from
          /\ job'.at = "register" /\ ~job'.finalized
    BY DEF Types, Jobs, Places
  <2> QED BY <1>3, <2>1, <2>2, <2>3
<1>6. detached' \in BOOLEAN /\ (detached => detached')
  BY <1>3 DEF Types
<1>7. journal.made \/ (job.kind = "launch" /\ job.at = "load") \/ job.kind = "start"
  BY <1>2 DEF Unmade
<1>10. job.kind # "start"
  BY <1>3 DEF Recovering
<1>11. /\ job.kind = "stop" => run.state = "draining" /\ detached
       /\ job.kind = "interrupt" => run.state = "interrupted"
       /\ job.kind = "teardown" => run.state \in {active.state, "interrupted"}
       /\ job.kind \in Recovering => run.state = "interrupted"
  BY <1>2 DEF Owned, Recovering
<1>12. job.kind = "interrupt" \/ detached' = detached
  BY <1>3 DEF Recovering
<1>8. Types'
  BY <1>1, <1>4, <1>5, <1>6 DEF Types
<1>13. Placed'
  BY <1>1, <1>5 DEF Placed, Owning, Recovering, Writing, Late
<1>14. job'.kind = "none" => run'.state # "completed" /\ (run'.state \in Unfinished => detached')
  <2>1. job.kind = "teardown" /\ job'.kind = "none" => run.state \notin Unfinished
    BY <1>5
  <2>2. job.kind \in {"stop", "interrupt", "teardown"} \cup Recovering
    BY <1>3
  <2>3. active.state \in Unfinished
    BY DEF Types, Owners
  <2>4. job'.kind = "none" => run'.state = run.state
    BY <1>4
  <2>5. run.state # "completed"
    BY <1>11, <2>2, <2>3 DEF Recovering, Unfinished
  <2>6. job'.kind = "none" /\ run.state \in Unfinished => job.kind = "stop"
    BY <1>11, <2>1, <2>2 DEF Recovering, Unfinished
  <2> QED BY <1>6, <1>11, <2>4, <2>5, <2>6
<1>15. Unmade'
  BY <1>1, <1>2, <1>4, <1>5, <1>6, <1>7, <1>10, <1>12
     DEF Unmade, Owning, Recovering, Unfinished
<1>16. run'.state \in {"none", "failed", "purged"} => FALSE
  BY <1>2, <1>4 DEF Unmade
<1>17. job'.kind = "teardown" => run'.state = active'.state
  <2>1. job'.kind = "teardown" => run.state \in Unfinished /\ job.kind = "teardown"
    BY <1>5
  <2> QED BY <1>1, <1>4, <1>5, <1>11, <2>1 DEF Unfinished
<1>9. Owned'
  BY <1>1, <1>2, <1>4, <1>5, <1>6, <1>11, <1>14, <1>17
     DEF Owned, SlotIsReclaimable, Owning, Recovering, Unfinished, Late, Writing
<1>20. Blank'
  BY <1>1, <1>2, <1>4, <1>5 DEF Blank, Unmade
<1>21. Live'
  BY <1>1, <1>2, <1>4, <1>5 DEF Live, Closing
<1>22. Owns' /\ Counting'
  BY <1>1, <1>2, <1>4, <1>5 DEF Owns, Counting, Owned, Placed, Unmade, Owning, Recovering, Unfinished
<1>23. Sound'
  BY <1>1, <1>2, <1>4, <1>5, SoundAside DEF Aside, Writing, Late
<1>24. CompletedIsExact'
  BY <1>1, <1>2, <1>4, <1>5, CompletedStays
<1> QED BY <1>8, <1>9, <1>20, <1>21, <1>22, <1>23, <1>24, <1>13, <1>15

(* The record of the recording says its length.                             *)
LEMMA RecordSessionInv ==
  ASSUME AudioInv, RecordSession, ~Fails
  PROVE  AudioInv'
<1> USE DEF AudioInv, Control, history, disk, memory, Proceeds
<1>1. /\ up /\ job.at = "entry"
      /\ entry' = [status |-> IF job.kind = "stop" THEN "completed" ELSE "interrupted",
                   frames |-> job.frames]
      /\ job' = [job EXCEPT !.at = IF job.kind = "stop" THEN "complete" ELSE "unlink"]
      /\ UNCHANGED <<run, index, journal, file, active, live, seen, detached, up,
                     accepted, overtaken, stranded>>
  BY DEF RecordSession, At, GoTo
<1>2. job' \in Jobs /\ job'.kind = job.kind /\ job'.from = job.from
      /\ job'.finalized = job.finalized /\ job'.frames = job.frames /\ job'.n = job.n
      /\ job'.count = job.count
      /\ job'.at = IF job.kind = "stop" THEN "complete" ELSE "unlink"
  BY <1>1 DEF Types, Jobs, Places, Late
<1>3. /\ job.kind \in Owning \cup Recovering /\ ~active.on /\ journal.made
      /\ job.kind # "stop" => run.state = "interrupted"
      /\ job.kind = "stop" => run.state = "draining"
  BY <1>1 DEF Types, Jobs, Kinds, Owned, Placed, Unmade, Owning, Recovering, Late, Writing
<1>4. entry' \in Entries
  BY <1>1 DEF Entries, Types, Jobs
<1>5. ~overtaken => Doing(Length)'
  <2> SUFFICES ASSUME ~overtaken PROVE Doing(Length)'
    OBVIOUS
  <2>1. Length' = Length
    BY <1>1 DEF Length
  <2>2. /\ Lasting(Length) /\ (job.from = "index" <=> ~journal.on)
        /\ run.counted = Length /\ Indexed(Length) /\ job.frames = Length
    BY <1>1 DEF Sound, Doing, Late, Lasting, Whole
  <2>3. Lasting(Length)'
    BY <1>1, <1>2, <2>1, <2>2 DEF Lasting, Whole, Wrote, Contents, Span, AsFile, Held
  <2>4. Indexed(Length)'
    BY <1>1, <2>1, <2>2 DEF Indexed, Span, AsFile, Held
  <2>5. job'.at = "complete" => entry' = [status |-> "completed", frames |-> Length']
    BY <1>1, <1>2, <2>1, <2>2
  <2> QED BY <1>1, <1>2, <2>1, <2>2, <2>3, <2>4, <2>5 DEF Doing, Late, Writing
<1>8. Types'
  BY <1>1, <1>2, <1>4 DEF Types
<1>6. Placed' /\ Unmade'
  BY <1>1, <1>2, <1>3 DEF Placed, Unmade, Owning, Recovering, Writing, Late
<1>9. Owned'
  BY <1>1, <1>2, <1>3 DEF Owned, SlotIsReclaimable, Owning, Recovering, Writing, Late
<1>20. Blank'
  BY <1>1, <1>2, <1>3 DEF Blank, Unmade
<1>21. Live'
  BY <1>1, <1>2, <1>3 DEF Live, Closing, Cut, Minutes, Contents, Held, Owned, Placed
<1>22. Owns' /\ Counting'
  BY <1>1, <1>2, <1>3 DEF Owns, Counting, Owned, Placed, Unmade, Owning, Recovering, Unfinished
<1>23. Sound'
  BY <1>1, <1>2, <1>3, <1>5, KeptStays DEF Sound
<1>24. CompletedIsExact'
  BY <1>1, <1>2, <1>3 DEF CompletedIsExact, Owning, Recovering
<1> QED BY <1>8, <1>9, <1>20, <1>21, <1>22, <1>23, <1>24, <1>6

(* Stop: the run is completed.                                              *)
LEMMA CompleteInv ==
  ASSUME AudioInv, Complete, ~Fails
  PROVE  AudioInv'
<1> USE DEF AudioInv, Control, history, disk, memory, Proceeds
<1>1. /\ up /\ job.at = "complete"
      /\ run' = [run EXCEPT !.state = "completed"]
      /\ job' = [job EXCEPT !.at = "unlink"]
      /\ UNCHANGED <<index, entry, journal, file, active, live, seen, detached, up,
                     accepted, overtaken, stranded>>
  BY DEF Complete, At, GoTo
<1>2. job' \in Jobs /\ job'.kind = job.kind /\ job'.from = job.from
      /\ job'.finalized = job.finalized /\ job'.frames = job.frames /\ job'.n = job.n
      /\ job'.count = job.count /\ job'.at = "unlink"
  BY <1>1 DEF Types, Jobs, Places, Late
<1>3. /\ run' \in Runs /\ run'.counted = run.counted /\ run'.path = run.path
      /\ run'.state = "completed"
  BY <1>1 DEF Types, Runs, States
<1>4. /\ job.kind = "stop" /\ ~active.on /\ journal.made /\ journal.on /\ ~overtaken
      /\ run.state = "draining" /\ detached
  BY <1>1 DEF Types, Jobs, Kinds, Owned, Owns, Placed, Unmade, Owning, Recovering, Late,
              Writing
<1>5. Length' = Length
  BY <1>1, <1>3 DEF Length
<1>6. /\ Lasting(Length) /\ (job.from = "index" <=> ~journal.on)
      /\ run.counted = Length /\ Indexed(Length) /\ accepted = Length
      /\ entry = [status |-> "completed", frames |-> Length]
  BY <1>1, <1>4 DEF Sound, Doing, Keeps
<1>7. Indexed(Length)'
  BY <1>1, <1>5, <1>6 DEF Indexed, Span, AsFile, Held
<1>10. Doing(Length)'
  <2>1. Lasting(Length)'
    BY <1>1, <1>2, <1>5, <1>6 DEF Lasting, Whole, Wrote, Contents, Span, AsFile, Held
  <2> QED BY <1>1, <1>2, <1>3, <1>5, <1>6, <1>7, <2>1 DEF Doing, Late, Writing
<1>8. Types'
  BY <1>1, <1>2, <1>3 DEF Types
<1>11. Placed' /\ Unmade'
  BY <1>1, <1>2, <1>3, <1>4 DEF Placed, Unmade, Owning, Recovering, Writing, Late
<1>9. Owned'
  BY <1>1, <1>2, <1>3, <1>4
     DEF Owned, SlotIsReclaimable, Owning, Recovering, Unfinished, Writing, Late
<1>12. CompletedIsExact'
  <2>1. Indexed(run.counted)'
    BY <1>3, <1>5, <1>6, <1>7 DEF Indexed
  <2>2. accepted \in Nat
    BY CaptureAssumption DEF Types
  <2> QED BY <1>1, <1>3, <1>6, <2>1, <2>2 DEF CompletedIsExact
<1>20. Blank'
  BY <1>1, <1>2, <1>3, <1>4 DEF Blank, Unmade
<1>21. Live'
  BY <1>1, <1>2, <1>3, <1>4 DEF Live, Closing, Cut, Minutes, Contents, Held, Owned, Placed
<1>22. Owns' /\ Counting'
  BY <1>1, <1>2, <1>3, <1>4 DEF Owns, Counting, Owned, Placed, Unmade, Owning, Recovering, Unfinished
<1>23. Sound'
  BY <1>1, <1>2, <1>3, <1>4, <1>10, KeptStays DEF Sound
<1> QED BY <1>8, <1>9, <1>20, <1>21, <1>22, <1>23, <1>11, <1>12

(* The journal goes last.                                                   *)
LEMMA UnlinkJournalInv ==
  ASSUME AudioInv, UnlinkJournal, ~(job.kind \in Recovering /\ Fails)
  PROVE  AudioInv'
<1> USE DEF AudioInv, Control, history, rows
<1>1. /\ up /\ job.at = "unlink" /\ job' = Idle
      /\ detached' = (detached /\ job.kind \notin {"stop", "recover"})
      /\ UNCHANGED <<run, index, entry, file, active, live, seen, up,
                     accepted, overtaken, stranded>>
  BY DEF UnlinkJournal, At
<1>2. job'.kind = "none" /\ job'.at = "none" /\ job'.finalized /\ job'.from = "journal"
      /\ job' \in Jobs
  BY <1>1, IdleIs DEF Idle
<1>3. /\ journal' \in Journals /\ journal'.frames = journal.frames
      /\ journal'.flushed = journal.flushed /\ journal'.torn = journal.torn
      /\ journal'.made = journal.made
      /\ journal'.on \in {FALSE, journal.on}
  BY DEF UnlinkJournal, Types, Journals
<1>4. /\ job.kind \in Owning \cup Recovering /\ ~active.on /\ journal.made
      /\ run.state = IF job.kind = "stop" THEN "completed" ELSE "interrupted"
  BY <1>1 DEF Types, Jobs, Kinds, Owned, Placed, Unmade, Owning, Recovering, Late, Writing
<1>5. ~overtaken => Sound'
  <2> SUFFICES ASSUME ~overtaken PROVE Sound'
    OBVIOUS
  <2>1. /\ run.counted = Length /\ Indexed(Length) /\ Rows(Length) /\ Keeps(Length)
    BY <1>1 DEF Sound, Doing
  <2>2. Length' = Length
    BY <1>1, <1>3, <2>1 DEF Length
  <2>3. PICK len : len = Length
    OBVIOUS
  <2>4. Rows(Length)'
    BY <1>1, <2>1, <2>2, RowsStay DEF Rows, Span, AsFile, Held
  <2>5. Indexed(Length)'
    BY <1>1, <2>1, <2>2 DEF Indexed, Span, AsFile, Held
  <2>6. journal.frames <= Length /\ accepted = Length
    <3>1. Length \in Nat /\ journal.frames \in Nat
      BY CaptureAssumption DEF Length, Types, Journals, Runs
    <3> QED BY <1>4, <2>1, <3>1 DEF Keeps, Length
  <2>7. Keeps(Length)'
    BY <1>1, <1>3, <2>2, <2>5, <2>6 DEF Keeps
  <2>8. Doing(Length)'
    BY <1>2 DEF Doing, Writing, Late
  <2> QED BY <2>4, <2>7, <2>8 DEF Sound
<1>6. overtaken => Sound'
  BY <1>1 DEF Sound
<1>8. Types'
  BY <1>1, <1>2, <1>3 DEF Types
<1>7. Placed' /\ Unmade'
  BY <1>1, <1>2, <1>3, <1>4 DEF Placed, Unmade, Owning, Recovering
<1>9. Owned'
  BY <1>1, <1>2, <1>4 DEF Owned, SlotIsReclaimable, Owning, Recovering, Unfinished
<1>20. Blank'
  BY <1>1, <1>2, <1>3, <1>4 DEF Blank, Unmade
<1>21. Live'
  BY <1>1, <1>2, <1>3, <1>4 DEF Live, Closing, Cut, Minutes, Contents, Held, Owned, Placed
<1>22. Owns' /\ Counting'
  BY <1>1, <1>2, <1>3, <1>4 DEF Owns, Counting, Owned, Placed, Unmade, Owning, Recovering, Unfinished
<1>23. Sound'
  BY <1>5, <1>6
<1>24. CompletedIsExact'
  BY <1>1, <1>2, <1>3, <1>4, CompletedStays
<1> QED BY <1>8, <1>9, <1>20, <1>21, <1>22, <1>23, <1>24, <1>7

(* The row says how long the recording is.                                  *)
LEMMA FinalizeInv ==
  ASSUME AudioInv, Finalize, ~Fails, ~GivesUp(0)
  PROVE  AudioInv'
<1> USE DEF AudioInv, Control, history, disk, memory, Proceeds
<1>1. /\ up /\ job.at = "finalize" /\ run.counted <= job.frames
      /\ run' = [run EXCEPT !.counted = job.frames, !.path = TRUE]
      /\ job' = [job EXCEPT !.at = "index", !.n = 0]
      /\ UNCHANGED <<index, entry, journal, file, active, live, seen, detached, up,
                     accepted, overtaken, stranded>>
  BY DEF Finalize, MayFinalize, At
<1>2. job' \in Jobs /\ job'.kind = job.kind /\ job'.from = job.from
      /\ job'.finalized = job.finalized /\ job'.frames = job.frames /\ job'.n = 0
      /\ job'.count = job.count /\ job'.at = "index"
  BY <1>1 DEF Types, Jobs, Places, Late
<1>3. /\ run' \in Runs /\ run'.counted = job.frames /\ run'.state = run.state
  BY <1>1 DEF Types, Runs, Jobs
<1>4. /\ job.kind \in Owning \cup Recovering /\ ~active.on /\ journal.made
      /\ run.state \in {"draining", "interrupted"} /\ job.from # "index"
  BY <1>1 DEF Types, Jobs, Kinds, Owned, Placed, Unmade, Owning, Recovering, Late, Writing
<1>5. ~overtaken => Sound'
  <2> SUFFICES ASSUME ~overtaken PROVE Sound'
    OBVIOUS
  <2>1. /\ Lasting(Length) /\ journal.on /\ Rows(Length) /\ Keeps(Length)
    BY <1>1, <1>4 DEF Sound, Doing, Late
  <2>2. Length' = Length
    BY <1>1, <2>1 DEF Length
  <2>3. job.frames = Length /\ job.count = ChunkCount(Length) /\ job.count # 0
        /\ job.count \in Nat
    <3>1. Length \in Nat
      BY CaptureAssumption DEF Length, Types, Journals, Runs
    <3> QED BY <2>1, <3>1, CountIs DEF Lasting, Whole
  <2>4. Rows(Length)' /\ Keeps(Length)'
    BY <1>1, <2>1, <2>2 DEF Rows, Span, AsFile, Held, Keeps
  <2>5. Lasting(Length)'
    BY <1>1, <1>2, <2>1, <2>2 DEF Lasting, Whole, Wrote, Contents, Span, AsFile, Held
  <2>6. Doing(Length)'
    <3>1. \A j \in 0..0 - 1 : FALSE
      OBVIOUS
    <3>2. 0 < job'.count
      BY <1>2, <2>3
    <3> QED BY <1>1, <1>2, <1>3, <1>4, <2>1, <2>2, <2>3, <2>5, <3>1, <3>2
            DEF Doing, Writing, Late
  <2> QED BY <2>4, <2>6 DEF Sound
<1>6. overtaken => Sound'
  BY <1>1 DEF Sound
<1>8. Types'
  BY <1>1, <1>2, <1>3 DEF Types
<1>7. Placed' /\ Unmade'
  BY <1>1, <1>2, <1>3, <1>4 DEF Placed, Unmade, Owning, Recovering, Late
<1>9. Owned'
  BY <1>1, <1>2, <1>3, <1>4 DEF Owned, SlotIsReclaimable, Owning, Recovering, Unfinished, Late
<1>20. Blank'
  BY <1>1, <1>2, <1>3, <1>4 DEF Blank, Unmade
<1>21. Live'
  BY <1>1, <1>2, <1>3, <1>4 DEF Live, Closing, Cut, Minutes, Contents, Held, Owned, Placed
<1>22. Owns' /\ Counting'
  BY <1>1, <1>2, <1>3, <1>4 DEF Owns, Counting, Owned, Placed, Unmade, Owning, Recovering, Unfinished
<1>23. Sound'
  BY <1>5, <1>6
<1>24. CompletedIsExact'
  BY <1>1, <1>2, <1>3, <1>4 DEF CompletedIsExact
<1> QED BY <1>8, <1>9, <1>20, <1>21, <1>22, <1>23, <1>24, <1>7

(* Recovery takes the journal, or without one what the row counts.          *)
LEMMA LoadAudioInv ==
  ASSUME AudioInv, LoadAudio, ~Fails, ~GivesUp(0)
  PROVE  AudioInv'
<1> USE DEF AudioInv, Control, history, disk, memory, rows, Proceeds
<1> DEFINE count == ChunkCount(run.counted)
<1>1. /\ up /\ job.at = "load"
      /\ \/ journal.on /\ job' = [job EXCEPT !.at = "chunk", !.n = 0]
         \/ /\ ~journal.on /\ run.path
            /\ job' = [job EXCEPT !.at = "index", !.from = "index", !.n = 0,
                                  !.frames = run.counted, !.count = count]
      /\ UNCHANGED <<run, index, entry, journal, file, active, live, seen, detached, up,
                     accepted, overtaken, stranded>>
  BY DEF LoadAudio, At
<1>2. run.counted \in 0..MaxFrames /\ run.counted \in Nat /\ count \in Nat /\ count # 0
      /\ journal.frames \in Nat
  BY CaptureAssumption, CountIs DEF Types, Runs, Journals
<1> HIDE DEF count
<1>3. /\ job' \in Jobs /\ job'.kind = job.kind /\ job'.finalized = job.finalized
      /\ job'.n = 0
      /\ \/ journal.on /\ job'.at = "chunk" /\ job'.from = job.from
         \/ /\ ~journal.on /\ run.path /\ job'.at = "index" /\ job'.from = "index"
            /\ job'.frames = run.counted /\ job'.count = count
  <2>1. job \in Jobs
    BY DEF Types
  <2>2. CASE journal.on /\ job' = [job EXCEPT !.at = "chunk", !.n = 0]
    BY <2>1, <2>2 DEF Jobs, Places, Late, Writing
  <2>3. CASE /\ ~journal.on /\ run.path
             /\ job' = [job EXCEPT !.at = "index", !.from = "index", !.n = 0,
                                   !.frames = run.counted, !.count = count]
    BY <1>2, <2>1, <2>3 DEF Jobs, Places, Late, Writing
  <2> QED BY <1>1, <2>2, <2>3
<1>4. /\ job.kind \in Recovering /\ ~active.on
      /\ run.state = "interrupted" /\ job.from # "index" /\ job.finalized
  BY <1>1 DEF Types, Jobs, Kinds, Owned, Placed, Owning, Recovering, Late, Writing
<1>5. journal.made
  BY <1>1 DEF Unmade
<1>6. ~overtaken => Doing(Length)'
  <2> SUFFICES ASSUME ~overtaken PROVE Doing(Length)'
    OBVIOUS
  <2>1. Length' = Length /\ Length \in Nat
    BY <1>1, <1>2 DEF Length
  <2>2. CASE journal.on
    <3>1. 0 < ChunkCount(Length)
      BY <2>1, CountIs
    <3>2. Wrote(0, Length)'
      BY DEF Wrote
    <3>3. job'.n < ChunkCount(Length)' /\ Wrote(job.n, Length)'
      BY <1>3, <2>1, <3>1, <3>2 DEF Wrote
    <3> QED BY <1>1, <1>3, <1>4, <2>2, <3>3 DEF Doing, Writing, Late
  <2>3. CASE ~journal.on
    <3>1. Length = run.counted /\ Indexed(Length)
      BY <1>5, <2>3 DEF Length, Sound, Keeps
    <3>2. job'.count = ChunkCount(Length) /\ job'.frames = Length
      BY <1>3, <2>3, <3>1 DEF count
    <3>3. Lasting(Length)'
      <4>1. \A i \in 0..ChunkCount(Length) - 1 :
               i \in Chunks /\ file[i] = AsFile(Span(i, Length), TRUE)
        BY <1>2, <3>1, CountedAreChunks DEF Indexed
      <4>2. \A i \in 0..ChunkCount(Length) - 1 :
               file[i].sealed /\ Contents(i) = Span(i, Length)
        BY <4>1, FileHolds
      <4> QED BY <1>1, <2>1, <3>2, <4>1, <4>2 DEF Lasting, Whole, Wrote, Contents, Span, Held
    <3>4. 0 < job'.count /\ \A j \in 0..job'.n - 1 : FALSE
      BY <1>2, <1>3, <2>3
    <3> QED BY <1>1, <1>3, <1>4, <2>1, <2>3, <3>1, <3>2, <3>3, <3>4 DEF Doing, Writing, Late
  <2> QED BY <2>2, <2>3
<1>8. Types'
  BY <1>1, <1>3 DEF Types
<1>7. Placed' /\ Unmade'
  BY <1>1, <1>3, <1>4, <1>5 DEF Placed, Unmade, Owning, Recovering, Late
<1>9. Owned'
  BY <1>1, <1>3, <1>4 DEF Owned, SlotIsReclaimable, Owning, Recovering, Unfinished, Late
<1>20. Blank'
  BY <1>1, <1>3, <1>4 DEF Blank, Unmade
<1>21. Live'
  BY <1>1, <1>3, <1>4 DEF Live, Closing, Cut, Minutes, Contents, Held, Owned, Placed
<1>22. Owns' /\ Counting'
  BY <1>1, <1>3, <1>4 DEF Owns, Counting, Owned, Placed, Unmade, Owning, Recovering, Unfinished
<1>23. Sound'
  BY <1>1, <1>3, <1>4, <1>6, KeptStays DEF Sound
<1>24. CompletedIsExact'
  BY <1>1, <1>3, <1>4, CompletedStays
<1> QED BY <1>8, <1>9, <1>20, <1>21, <1>22, <1>23, <1>24, <1>7

(* A push appends to the journal and cuts the minutes it fills.             *)
LEMMA PushInv ==
  ASSUME AudioInv, NEW n \in BlockSizes, Push(n)
  PROVE  AudioInv'
<1> USE DEF AudioInv, Control, rows
<1> DEFINE c == Counted(n)
<1>1. /\ up /\ active.on /\ active.state = "recording"
      /\ active.frames + n <= MaxFrames
      /\ journal' = Appended(n) /\ active' = Buffered(c, n)
      /\ live' = IF active'.next = active.next THEN live
                 ELSE [live EXCEPT !.queue = Append(@, active.next)]
      /\ seen' = active.frames + n /\ accepted' = accepted + n
      /\ UNCHANGED <<run, index, entry, file, detached, job, up, overtaken, stranded>>
  BY DEF Push
<1>2. n \in Nat /\ n \in 1..Minute /\ Minute \in Nat \ {0} /\ MaxFrames \in Nat
  BY CaptureAssumption
<1>3. /\ job.at = "none" /\ job.kind = "none" /\ ~journal.torn /\ journal.made /\ journal.on
      /\ run.state = "recording" /\ journal.frames = active.frames /\ ~overtaken
  BY <1>1 DEF Placed, Owned, Owns
<1>4. /\ active.frames \in Nat /\ active.minute \in 0..Minute - 1 /\ active.start \in Nat
      /\ active.next \in Chunks /\ active.next \in Nat /\ active.usable \in BOOLEAN
      /\ active.next * Minute \in Nat
  BY <1>2, ChunksNat, Times DEF Types, Owners
<1>5. c \in Owners /\ c.on /\ c.state = "recording" /\ c.frames = active.frames + n
      /\ c.minute = active.minute /\ c.start = active.start /\ c.next = active.next
      /\ c.usable = active.usable
  <2> DEFINE w == active.wake \/ active.unsynced + 1 >= FlushEvery
             u == IF active.unsynced + 1 >= FlushEvery THEN 0 ELSE active.unsynced + 1
             f == active.frames + n
  <2>1. c = [active EXCEPT !.frames = f, !.unsynced = u, !.wake = w]
    BY DEF Counted
  <2>2. w \in BOOLEAN /\ u \in Nat /\ f \in 0..MaxFrames
    BY <1>1, <1>2, <1>4 DEF Types, Owners
  <2>3. active \in Owners
    BY DEF Types
  <2> HIDE DEF c, w, u
  <2> QED BY <1>1, <2>1, <2>2, <2>3 DEF Owners
<1>6. /\ journal' \in Journals /\ journal'.on /\ journal'.made /\ ~journal'.torn
      /\ journal'.frames = active.frames + n /\ journal'.flushed = journal.flushed
      /\ journal'.flushed <= journal'.frames
  <2>1. journal' = [journal EXCEPT !.frames = @ + n]
    BY <1>1, <1>3 DEF Appended
  <2> QED BY <1>1, <1>2, <1>3, <2>1 DEF Types, Journals
<1>7. active.next * Minute <= active.frames /\ (active.usable => Cut)
      /\ (\A k \in 1..Len(live.queue) : live.queue[k] < active.next)
      /\ (\A i \in Chunks : ~index[i].on)
      /\ (\A i \in Chunks : file[i].on => Contents(i) = Held(i * Minute, (i + 1) * Minute))
  BY <1>1 DEF Live, Closing
<1> HIDE DEF c
<1> DEFINE Pushed ==
      /\ active' \in Owners /\ active'.on /\ active'.state = "recording"
      /\ active'.frames = active.frames + n /\ live' \in Lives
      /\ active'.next * Minute <= active'.frames /\ (active'.usable => Cut')
      /\ \A k \in 1..Len(live'.queue) : live'.queue[k] < active'.next
<1>10. ASSUME active.usable /\ active.minute + n >= Minute /\ ~live.failed
       PROVE  Pushed
  <2>1. active' = [c EXCEPT !.minute = @ + n - Minute, !.next = @ + 1, !.start = @ + Minute]
    BY <1>1, <1>5, <1>10 DEF Buffered
  <2>2. (active.next + 1) * Minute = active.next * Minute + Minute
    BY <1>4, Times
  <2>3. /\ active.next * Minute + active.minute = active.frames
        /\ active.start = active.next * Minute
    BY <1>7, <1>10 DEF Cut
  <2> DEFINE t == active.next * Minute
             u == (active.next + 1) * Minute
  <2>4. t \in Nat /\ u = t + Minute /\ t + active.minute = active.frames /\ active.start = t
    BY <1>4, <2>2, <2>3
  <2> HIDE DEF t, u
  <2>5. u <= active.frames + n /\ u <= MaxFrames
    BY <1>1, <1>2, <1>4, <1>10, <2>4
  <2>6. active.next + 1 \in Chunks
    BY <1>4, <2>5, ChunksAre DEF u
  <2>7. active.minute + n - Minute \in 0..Minute - 1
    BY <1>2, <1>4, <1>10
  <2>8. active.start + Minute \in Nat
    BY <1>2, <1>4
  <2>9. /\ active' \in Owners /\ active'.on /\ active'.state = "recording"
        /\ active'.frames = active.frames + n /\ active'.next = active.next + 1
        /\ active'.minute = active.minute + n - Minute /\ active'.start = active.start + Minute
    BY <1>5, <2>1, <2>6, <2>7, <2>8 DEF Owners
  <2>10. /\ live' = [live EXCEPT !.queue = Append(live.queue, active.next)]
    BY <1>1, <1>4, <2>9
  <2>11. live.queue \in Seq(Nat)
    BY DEF Types, Lives
  <2>12. live' \in Lives /\ live'.queue = Append(live.queue, active.next)
    <3>1. Append(live.queue, active.next) \in Seq(Nat)
      BY <1>4, <2>11
    <3>2. live \in Lives
      BY DEF Types
    <3> HIDE DEF c, t, u
    <3> QED BY <2>10, <3>1, <3>2 DEF Lives
  <2>13. \A k \in 1..Len(live'.queue) : live'.queue[k] < active.next + 1
    BY <1>4, <1>7, <2>11, <2>12
  <2>14. Cut'
    <3>1. u + (active.minute + n - Minute) = active.frames + n /\ active.start + Minute = u
      BY <1>2, <1>4, <2>4
    <3> QED BY <2>9, <3>1 DEF Cut, u
  <2>15. active'.next * Minute <= active'.frames
    BY <2>5, <2>9 DEF u
  <2> QED BY <1>1, <2>9, <2>12, <2>13, <2>14, <2>15
<1>11. ASSUME ~(active.usable /\ active.minute + n >= Minute /\ ~live.failed)
       PROVE  Pushed
  <2>1. \/ ~active.usable /\ active' = c
        \/ active.usable /\ active.minute + n < Minute /\ active' = [c EXCEPT !.minute = @ + n]
        \/ active' = [c EXCEPT !.usable = FALSE, !.minute = 0]
    <3>1. active.minute + n \in Nat
      BY <1>2, <1>4
    <3> QED BY <1>1, <1>2, <1>4, <1>5, <1>11, <3>1 DEF Buffered
  <2>2. 0 \in 0..Minute - 1
    BY <1>2
  <2>3. active.minute + n < Minute => active.minute + n \in 0..Minute - 1
    BY <1>2, <1>4
  <2>4. /\ active' \in Owners /\ active'.on /\ active'.state = "recording"
        /\ active'.frames = active.frames + n /\ active'.next = active.next
        /\ active'.start = active.start
        /\ active'.usable => active.usable /\ active'.minute = active.minute + n
    <3>1. CASE ~active.usable /\ active' = c
      BY <1>5, <3>1
    <3>2. CASE /\ active.usable /\ active.minute + n < Minute
               /\ active' = [c EXCEPT !.minute = @ + n]
      <4>1. active' = [c EXCEPT !.minute = active.minute + n]
        BY <1>5, <3>2
      <4> HIDE DEF c
      <4> QED BY <1>5, <2>3, <3>2, <4>1 DEF Owners
    <3>3. CASE active' = [c EXCEPT !.usable = FALSE, !.minute = 0]
      <4> HIDE DEF c
      <4> QED BY <1>5, <2>2, <3>3 DEF Owners
    <3> QED BY <2>1, <3>1, <3>2, <3>3
  <2>5. live' = live
    BY <1>1, <2>4
  <2>6. active'.usable => Cut'
    BY <1>2, <1>4, <1>7, <2>4 DEF Cut
  <2>7. active'.next * Minute <= active'.frames
    BY <1>2, <1>4, <1>7, <2>4
  <2> QED BY <1>1, <1>7, <2>4, <2>5, <2>6, <2>7 DEF Types
<1>12. Pushed
  BY <1>10, <1>11
<1>13. ~overtaken => accepted = journal.frames /\ Length' = journal.frames + n
  BY <1>1, <1>3, <1>6 DEF Sound, Keeps, Length
<1>14. accepted' \in 0..MaxFrames /\ seen' \in 0..MaxFrames
  BY <1>1, <1>2, <1>3, <1>4, <1>13
<1>8. Types'
  BY <1>1, <1>6, <1>12, <1>14 DEF Types
<1>9. Placed' /\ Owned' /\ Unmade'
  BY <1>1, <1>3, <1>6, <1>12 DEF Placed, Owned, Unmade, SlotIsReclaimable
<1>15. Sound'
  <2>1. Keeps(Length)'
    BY <1>1, <1>3, <1>6, <1>13 DEF Keeps, Length
  <2>2. Rows(Length)'
    BY <1>1, <1>7 DEF Rows
  <2>3. Doing(Length)'
    BY <1>1, <1>3 DEF Doing, Writing, Late
  <2> QED BY <2>1, <2>2, <2>3 DEF Sound
<1>16. Live'
  BY <1>1, <1>3, <1>7, <1>12 DEF Live, Closing, Contents, Held
<1>17. Owns' /\ Counting'
  BY <1>1, <1>3, <1>6, <1>12 DEF Owns, Counting, Owning
<1>20. Blank'
  BY <1>1, <1>3, <1>6 DEF Blank, Unmade
<1>21. CompletedIsExact'
  BY <1>1, <1>3, <1>6 DEF CompletedIsExact
<1> QED BY <1>8, <1>9, <1>20, <1>21, <1>15, <1>16, <1>17

(* The live writer writes a full minute.                                    *)
LEMMA WriteLiveInv ==
  ASSUME AudioInv, WriteLive
  PROVE  AudioInv'
<1> USE DEF AudioInv, Control, rows, history
<1>0. PICK i : i = Head(live.queue)
  OBVIOUS
<1> DEFINE span == Held(i * Minute, (i + 1) * Minute)
<1>1. /\ up /\ live.queue # <<>>
      /\ \/ /\ file' = Installed(i, span)
            /\ live' = [live EXCEPT !.queue = Tail(@), !.written = Append(@, i)]
         \/ /\ live' = [live EXCEPT !.queue = <<>>, !.failed = TRUE] /\ file' = file
      /\ UNCHANGED <<run, index, entry, journal, active, seen, detached, job, up,
                     accepted, overtaken, stranded>>
  BY <1>0 DEF WriteLive
<1>2. /\ Closing /\ active.next * Minute <= active.frames
      /\ (\A k \in 1..Len(live.queue) : live.queue[k] < active.next)
      /\ (\A j \in Chunks : ~index[j].on)
      /\ (\A j \in Chunks : file[j].on => Contents(j) = Held(j * Minute, (j + 1) * Minute))
  BY <1>1 DEF Live
<1>3. /\ journal.made /\ journal.on /\ job.at \in {"none", "mark", "close"}
      /\ run.state # "completed"
  <2>1. CASE active.on
    BY <2>1 DEF Owned, Owns
  <2>2. CASE job.at \in {"mark", "close"}
    <3>1. job.kind \in Owning
      BY <2>2 DEF Placed, Types, Jobs, Kinds, Owning, Recovering, Writing, Late
    <3>2. run.state \in {active.state, "draining", "interrupted"}
      BY <2>2, <3>1 DEF Owned, Owning, Writing, Late
    <3> QED BY <2>2, <3>1, <3>2 DEF Owns, Types, Owners, Unfinished
  <2> QED BY <1>2, <2>1, <2>2 DEF Closing
<1>4. live.queue \in Seq(Nat) /\ live.written \in Seq(Nat) /\ live \in Lives
  BY DEF Types, Lives
<1>5. i \in Nat /\ Tail(live.queue) \in Seq(Nat) /\ i < active.next
      /\ (\A k \in 1..Len(Tail(live.queue)) : Tail(live.queue)[k] < active.next)
  <2> DEFINE q == live.queue
  <2>1. q \in Seq(Nat) /\ q # <<>> /\ (\A k \in 1..Len(q) : q[k] < active.next) /\ i = Head(q)
    BY <1>0, <1>1, <1>2, <1>4
  <2> HIDE DEF q, AudioInv, Control
  <2>2. Len(q) \in Nat /\ Len(q) >= 1 /\ Head(q) = q[1] /\ q[1] \in Nat
    BY <2>1
  <2>3. Tail(q) \in Seq(Nat) /\ Len(Tail(q)) = Len(q) - 1
        /\ \A k \in 1..Len(q) - 1 : Tail(q)[k] = q[k + 1]
    BY <2>1, <2>2
  <2>4. \A k \in 1..Len(Tail(q)) : Tail(q)[k] < active.next
    BY <2>1, <2>2, <2>3
  <2> QED BY <2>1, <2>2, <2>3, <2>4 DEF q
<1>6. /\ MaxFrames \in Nat /\ active.frames \in 0..MaxFrames /\ active.next \in Nat
      /\ Minute \in Nat /\ Minute # 0
  BY CaptureAssumption, ChunksNat DEF Types, Owners
<1>7. i \in Chunks /\ i * Minute \in 0..MaxFrames /\ (i + 1) * Minute \in 0..MaxFrames
  <2> DEFINE t == i * Minute
             u == active.next * Minute
  <2>1. t \in Nat /\ u \in Nat /\ (i + 1) * Minute = t + Minute /\ t + Minute <= u
    BY <1>5, <1>6, Times, Before
  <2>2. u <= active.frames
    BY <1>2
  <2> HIDE DEF t, u
  <2>3. t \in 0..MaxFrames /\ t + Minute \in 0..MaxFrames
    BY <1>6, <2>1, <2>2
  <2>4. i \in Chunks
    BY <1>5, <2>3, ChunksAre DEF t
  <2> QED BY <2>1, <2>3, <2>4 DEF t
<1>10. span \in Interval
  BY <1>7 DEF Held, Interval
<1> HIDE DEF span
<1>11. /\ file' \in [Chunks -> Files]
       /\ \A j \in Chunks : file'[j].on =>
             [on |-> file'[j].on, from |-> file'[j].from, upto |-> file'[j].upto]
               = Held(j * Minute, (j + 1) * Minute)
  <2>1. CASE file' = file
    BY <1>2, <2>1 DEF Types, Contents
  <2>2. CASE file' = Installed(i, span)
    <3>1. /\ file' \in [Chunks -> Files]
          /\ \A j \in Chunks : j # i => file'[j] = file[j]
          /\ Contents(i)' = span
      <4>1. file \in [Chunks -> Files]
        BY DEF Types
      <4> HIDE DEF span, AudioInv, Control
      <4> QED BY <1>7, <1>10, <2>2, <4>1, InstalledIs
    <3>2. \A j \in Chunks : j # i => Contents(j)' = Contents(j) /\ file'[j].on = file[j].on
      BY <3>1 DEF Contents
    <3>3. \A j \in Chunks : file'[j].on => Contents(j)' = Held(j * Minute, (j + 1) * Minute)
      BY <1>2, <3>1, <3>2 DEF span
    <3> QED BY <3>1, <3>3 DEF Contents
  <2> QED BY <1>1, <2>1, <2>2
<1>12. /\ live' \in Lives /\ live'.queue \in {<<>>, Tail(live.queue)}
  <2>1. <<>> \in Seq(Nat) /\ Append(live.written, i) \in Seq(Nat)
    BY <1>4, <1>5
  <2> QED BY <1>1, <1>4, <1>5, <2>1 DEF Lives
<1>13. \A k \in 1..Len(live'.queue) : live'.queue[k] < active.next
  <2>1. CASE live'.queue = <<>>
    BY <2>1
  <2>2. CASE live'.queue = Tail(live.queue)
    BY <1>5, <2>2
  <2> QED BY <1>12, <2>1, <2>2
<1>8. Types'
  BY <1>1, <1>11, <1>12 DEF Types
<1>9. Placed' /\ Owned' /\ Unmade'
  BY <1>1 DEF Placed, Owned, Unmade, SlotIsReclaimable
<1>14. Live'
  <2>1. Closing' /\ job'.at # "tail"
    BY <1>1, <1>2, <1>3 DEF Closing
  <2>2. active.usable => Cut'
    BY <1>1, <1>2 DEF Live, Cut
  <2>3. \A j \in Chunks : file'[j].on => Contents(j)' = Held(j * Minute, (j + 1) * Minute)
    BY <1>11 DEF Contents
  <2> QED BY <1>1, <1>2, <1>13, <2>1, <2>2, <2>3 DEF Live, Held
<1>15. Sound'
  <2>1. Rows(Length)'
    BY <1>1, <1>2 DEF Rows
  <2>2. Doing(Length)'
    BY <1>1, <1>3 DEF Doing, Writing, Late
  <2>4. ~overtaken => Keeps(Length)'
    BY <1>1, <1>3 DEF Sound, Keeps, Length
  <2> QED BY <1>1, <2>1, <2>2, <2>4 DEF Sound
<1>20. Blank'
  BY <1>1, <1>3 DEF Blank, Unmade
<1>21. Owns' /\ Counting'
  BY <1>1, <1>3 DEF Owns, Counting, Owned, Placed, Unmade, Owning, Recovering, Unfinished
<1>22. CompletedIsExact'
  BY <1>1, <1>3 DEF CompletedIsExact
<1> QED BY <1>8, <1>9, <1>20, <1>21, <1>22, <1>14, <1>15

(* The journal is closed, and the live writer's chunks are used or rebuilt. *)
LEMMA CloseJournalInv ==
  ASSUME AudioInv, CloseJournal, ~Fails
  PROVE  AudioInv'
<1> USE DEF AudioInv, Control, rows, history, Proceeds
<1>1. /\ up /\ job.at = "close" /\ live.queue = <<>>
      /\ journal' = [journal EXCEPT !.flushed = journal.frames]
      /\ active' = [active EXCEPT !.wake = FALSE]
      /\ job' = [job EXCEPT !.at = IF LiveUsable THEN "tail" ELSE "chunk",
                            !.from = IF LiveUsable THEN "live" ELSE "journal",
                            !.frames = active.frames]
      /\ UNCHANGED <<run, index, entry, file, live, seen, detached, up,
                     accepted, overtaken, stranded>>
  BY DEF CloseJournal, At
<1>2. /\ job.kind \in Owning /\ ~active.on /\ journal.on /\ journal.made /\ ~overtaken
      /\ journal.frames = active.frames /\ job.finalized /\ job.n = 0
      /\ run.state # "completed" /\ Closing
  BY <1>1 DEF Types, Jobs, Kinds, Owners, Unfinished, Placed, Owned, Owns, Owning, Recovering,
              Writing, Late, Closing
<1>3. /\ journal' \in Journals /\ journal'.on = journal.on /\ journal'.made = journal.made
      /\ journal'.frames = journal.frames /\ journal'.torn = journal.torn
      /\ journal'.flushed <= journal'.frames /\ journal.frames \in Nat
  BY <1>1, CaptureAssumption DEF Types, Journals
<1>4. /\ active' \in Owners /\ active'.on = active.on /\ active'.state = active.state
      /\ active'.frames = active.frames /\ active'.minute = active.minute
      /\ active'.next = active.next /\ active'.start = active.start
  BY <1>1 DEF Types, Owners
<1>5. /\ job' \in Jobs /\ job'.kind = job.kind /\ job'.n = 0 /\ job'.finalized
      /\ job'.frames = active.frames /\ job'.from \in {"live", "journal"}
      /\ \/ job'.at = "tail" /\ LiveUsable
         \/ job'.at = "chunk"
  <2>1. job \in Jobs /\ active.frames \in 0..MaxFrames
    BY DEF Types, Owners
  <2> HIDE DEF AudioInv
  <2> QED BY <1>1, <1>2, <2>1 DEF Jobs, Places, Writing
<1>8. Types'
  BY <1>1, <1>3, <1>4, <1>5 DEF Types
<1>6. Placed' /\ Unmade'
  BY <1>1, <1>2, <1>3, <1>4, <1>5 DEF Placed, Unmade, Owning, Recovering, Writing
<1>9. Owned'
  BY <1>1, <1>2, <1>3, <1>4, <1>5
     DEF Owned, SlotIsReclaimable, Owning, Recovering, Writing, Late
<1>7. Live'
  <2>1. LiveUsable => Cut' /\ Minutes'
    <3> SUFFICES ASSUME LiveUsable PROVE Cut' /\ Minutes'
      OBVIOUS
    <3>1. Cut'
      BY <1>4 DEF LiveUsable, Cut
    <3>2. active.next \in Chunks /\ \A i \in 0..active.next - 1 : i \in Chunks
      BY ChunksNat, CaptureAssumption, Quotient DEF Types, Owners, Chunks
    <3>3. \A i \in 0..active.next - 1 : Contents(i) = Held(i * Minute, (i + 1) * Minute)
      BY <1>2, <3>2 DEF LiveUsable, Live
    <3> QED BY <1>1, <1>4, <3>1, <3>2, <3>3 DEF Minutes, Contents, Held
  <2> QED BY <1>1, <1>2, <1>4, <1>5, <2>1 DEF Live, Closing
<1>10. Doing(Length)'
  <2>1. Length' = Length /\ Length = journal.frames
    BY <1>1, <1>2, <1>3 DEF Length
  <2>2. 0 < ChunkCount(Length)
    BY <1>3, <2>1, CountIs
  <2>3. Wrote(0, Length)' /\ job'.n = 0
    BY <1>5 DEF Wrote
  <2> QED BY <1>2, <1>3, <1>5, <2>1, <2>2, <2>3 DEF Doing, Writing, Late, Wrote
<1>20. Blank'
  BY <1>1, <1>2, <1>3, <1>4, <1>5 DEF Blank, Unmade
<1>21. Owns' /\ Counting'
  BY <1>1, <1>2, <1>3, <1>4, <1>5 DEF Owns, Counting, Owned, Placed, Unmade, Owning, Recovering, Unfinished
<1>22. Sound'
  BY <1>1, <1>2, <1>3, <1>4, <1>5, <1>10, KeptStays DEF Sound
<1>23. CompletedIsExact'
  BY <1>1, <1>2, <1>3, <1>4, <1>5 DEF CompletedIsExact
<1> QED BY <1>8, <1>9, <1>20, <1>21, <1>22, <1>23, <1>6, <1>7

(* The minute the recorder had begun becomes the last chunk.                *)
LEMMA WriteTailInv ==
  ASSUME AudioInv, WriteTail
  PROVE  AudioInv'
<1> USE DEF AudioInv, Control, rows, history, memory, Proceeds
<1>0. PICK extra, count, x, t, f :
        /\ extra = (active.minute > 0 \/ active.next = 0)
        /\ count = active.next + (IF extra THEN 1 ELSE 0)
        /\ x = active.next /\ t = active.start /\ f = active.frames
  OBVIOUS
<1>1. /\ up /\ job.at = "tail"
      /\ file' = IF extra THEN Installed(x, Held(t, t + active.minute)) ELSE file
      /\ job' = [job EXCEPT !.at = "trim", !.count = count]
      /\ UNCHANGED <<run, index, entry, journal, active, live, seen, detached, up,
                     accepted, overtaken, stranded>>
  BY <1>0 DEF WriteTail, At
<1>2. /\ job.kind \in Owning /\ ~active.on /\ journal.on /\ journal.made /\ ~overtaken
      /\ journal.frames = f /\ job.frames = f /\ job.finalized
      /\ run.state # "completed" /\ job.from # "index"
  BY <1>0, <1>1 DEF Types, Jobs, Kinds, Owners, Unfinished, Placed, Owned, Owns, Owning,
              Recovering, Writing, Late
<1>3. /\ x \in Chunks /\ x \in Nat /\ t \in Nat /\ f \in 0..MaxFrames /\ f \in Nat
      /\ active.minute \in 0..Minute - 1 /\ Minute \in Nat \ {0} /\ MaxFrames \in Nat
      /\ t = x * Minute /\ t + active.minute = f
      /\ \A i \in 0..x - 1 : i \in Chunks /\ Contents(i) = Held(i * Minute, (i + 1) * Minute)
  BY <1>0, <1>1, CaptureAssumption, ChunksNat DEF Live, Cut, Minutes, Types, Owners
<1>4. (x + 1) * Minute = t + Minute
  BY <1>3, Times
<1>5. x = 0 => t = 0
  BY <1>3
<1>6. count \in Nat /\ count = ChunkCount(f)
  <2> DEFINE cc == ChunkCount(f)
  <2>1. cc \in Nat /\ cc # 0 /\ (x < cc <=> x = 0 \/ t < f)
        /\ (x + 1 < cc <=> x + 1 = 0 \/ t + Minute < f)
    <3>1. \A i \in Nat : i < cc <=> i = 0 \/ i * Minute < f
      BY <1>3, CountIs
    <3>2. cc \in Nat \ {0}
      BY <1>3, CountIs
    <3> HIDE DEF cc
    <3> QED BY <1>3, <1>4, <3>1, <3>2
  <2>2. x # 0 => x - 1 < cc
    <3>1. CASE x # 0
      <4>1. x - 1 \in Nat /\ (x - 1) * Minute \in Nat /\ (x - 1) * Minute + Minute <= x * Minute
        BY <1>3, <3>1, Times, Before
      <4> DEFINE v == (x - 1) * Minute
      <4>2. v \in Nat /\ v + Minute <= t
        BY <1>3, <4>1
      <4> HIDE DEF v
      <4>3. v < f
        BY <1>3, <4>2
      <4> QED BY <1>3, <4>1, <4>3, CountIs DEF v
    <3> QED BY <3>1
  <2> HIDE DEF cc
  <2>3. CASE active.minute > 0 \/ x = 0
    <3>1. count = x + 1
      BY <1>0, <1>3, <2>3
    <3>2. x < cc /\ ~(x + 1 < cc)
      BY <1>3, <1>5, <2>1, <2>3
    <3> QED BY <1>3, <2>1, <3>1, <3>2 DEF cc
  <2>4. CASE ~(active.minute > 0 \/ x = 0)
    <3>0. ~(active.minute > 0 \/ active.next = 0)
      BY <1>0, <2>4
    <3>1. count = x
      <4>1. ~extra
        BY <1>0, <3>0
      <4>2. count = active.next + (IF extra THEN 1 ELSE 0)
        BY <1>0
      <4>3. count = active.next + 0
        BY <4>1, <4>2
      <4> QED BY <1>0, <1>3, <4>3
    <3>2. x - 1 < cc /\ ~(x < cc)
      BY <1>3, <2>1, <2>2, <2>4
    <3> QED BY <1>3, <2>1, <3>1, <3>2 DEF cc
  <2> QED BY <2>3, <2>4
<1>7. \A i \in 0..x - 1 : Span(i, f) = Held(i * Minute, (i + 1) * Minute)
  <2> TAKE i \in 0..x - 1
  <2> DEFINE v == i * Minute
  <2>1. i \in Nat /\ v \in Nat /\ (i + 1) * Minute = v + Minute /\ v + Minute <= t
    BY <1>3, Times, Before
  <2>2. Span(i, f) = Held(v, IF f <= v + Minute THEN f ELSE v + Minute)
    BY <1>3, <2>1, SpanIs
  <2> HIDE DEF v
  <2>3. (IF f <= v + Minute THEN f ELSE v + Minute) = v + Minute
    BY <1>3, <2>1
  <2> QED BY <2>1, <2>2, <2>3 DEF v
<1>10. Span(x, f) = Held(t, t + active.minute)
  <2>1. Span(x, f) = Held(t, IF f <= t + Minute THEN f ELSE t + Minute)
    BY <1>3, SpanIs
  <2>2. (IF f <= t + Minute THEN f ELSE t + Minute) = t + active.minute
    BY <1>3
  <2> QED BY <2>1, <2>2
<1>11. Span(x, f) \in Interval /\ file \in [Chunks -> Files]
  BY <1>3, SpanIsInterval DEF Types
<1>12. /\ job' \in Jobs /\ job'.kind = job.kind /\ job'.finalized /\ job'.from = job.from
       /\ job'.frames = job.frames /\ job'.count = count /\ job'.at = "trim"
  <2>1. job \in Jobs
    BY DEF Types
  <2> HIDE DEF AudioInv
  <2> QED BY <1>1, <1>2, <1>6, <2>1 DEF Jobs, Places, Writing
<1> DEFINE Written ==
      /\ file' \in [Chunks -> Files]
      /\ \A i \in 0..count - 1 : i \in Chunks /\ Contents(i)' = Span(i, f)
      /\ Rows(f) => Rows(f)'
<1>13. ASSUME extra PROVE Written
  <2>1. file' = Installed(x, Span(x, f))
    BY <1>1, <1>10, <1>13
  <2> HIDE DEF AudioInv, Control
  <2>2. /\ file' \in [Chunks -> Files] /\ \A j \in Chunks : j # x => file'[j] = file[j]
        /\ Contents(x)' = Span(x, f)
    BY <1>3, <1>11, <2>1, InstalledIs
  <2>3. \A i \in 0..x - 1 : i \in Chunks /\ Contents(i)' = Span(i, f)
    BY <1>3, <1>7, <2>2 DEF Contents
  <2>4. \A i \in 0..count - 1 : i \in 0..x - 1 \/ i = x
    BY <1>0, <1>3, <1>13
  <2>5. \A i \in 0..count - 1 : i \in Chunks /\ Contents(i)' = Span(i, f)
    BY <1>3, <2>2, <2>3, <2>4
  <2>6. Rows(f) => Rows(f)'
    BY <1>1, <1>11, <2>1, InstallKeepsRows
  <2> QED BY <2>2, <2>5, <2>6
<1>14. ASSUME ~extra PROVE Written
  <2>1. \A i \in 0..count - 1 : i \in 0..x - 1
    BY <1>0, <1>3, <1>14
  <2>2. \A i \in 0..count - 1 : i \in Chunks /\ Contents(i)' = Span(i, f)
    BY <1>1, <1>3, <1>7, <1>14, <2>1 DEF Contents, Held
  <2>3. Rows(f) => Rows(f)'
    BY <1>1, <1>14, RowsStay
  <2> QED BY <1>1, <1>11, <1>14, <2>2, <2>3
<1>15. Written
  BY <1>13, <1>14
<1>16. Sound'
  <2>1. Length = f /\ Length' = f
    BY <1>1, <1>2 DEF Length
  <2>2. Rows(Length)' /\ Keeps(Length)'
    <3>1. Rows(f)' /\ Keeps(f)
      BY <1>2, <1>15, <2>1 DEF Sound
    <3> QED BY <1>1, <1>2, <2>1, <3>1 DEF Rows, Keeps
  <2>3. Whole(Length)'
    BY <1>2, <1>6, <1>12, <1>15, <2>1 DEF Whole, Wrote
  <2>4. Doing(Length)'
    BY <1>1, <1>2, <1>12, <2>3 DEF Doing, Writing, Late
  <2> QED BY <2>2, <2>4 DEF Sound
<1>8. Types'
  BY <1>1, <1>12, <1>15 DEF Types
<1>17. Placed' /\ Unmade'
  BY <1>1, <1>2, <1>12 DEF Placed, Unmade, Owning, Recovering, Writing
<1>9. Owned'
  BY <1>1, <1>2, <1>12 DEF Owned, SlotIsReclaimable, Owning, Recovering, Writing, Late
<1>18. Live' /\ Blank'
  BY <1>1, <1>2, <1>12 DEF Live, Closing, Blank
<1>20. Owns' /\ Counting'
  BY <1>1, <1>2, <1>12 DEF Owns, Counting, Owned, Placed, Unmade, Owning, Recovering, Unfinished
<1>21. CompletedIsExact'
  BY <1>1, <1>2, <1>12 DEF CompletedIsExact
<1> QED BY <1>8, <1>9, <1>20, <1>21, <1>17, <1>18, <1>16

(* A chunk is written from the journal.                                     *)
LEMMA RebuildChunkInv ==
  ASSUME AudioInv, RebuildChunk, ~Fails
  PROVE  AudioInv'
<1> USE DEF AudioInv, Control, rows, history, memory, Proceeds
<1>0. PICK f, n, count : f = journal.frames /\ n = job.n /\ count = ChunkCount(f)
  OBVIOUS
<1>1. /\ up /\ job.at = "chunk" /\ file' = Installed(n, Span(n, f))
      /\ job' = [job EXCEPT !.at = IF n + 1 = count THEN "trim" ELSE "chunk",
                            !.n = IF n + 1 = count THEN 0 ELSE @ + 1,
                            !.count = count,
                            !.frames = IF job.kind \in Recovering THEN f ELSE @]
      /\ UNCHANGED <<run, index, entry, journal, active, live, seen, detached, up,
                     accepted, overtaken, stranded>>
  BY <1>0 DEF RebuildChunk, At
<1>2. /\ job.kind \in Owning \cup Recovering /\ ~active.on /\ journal.made
      /\ job.finalized /\ run.state # "completed" /\ job.from # "index"
      /\ job.kind \in Owning => journal.on /\ job.frames = f /\ active.frames = f
  BY <1>0, <1>1 DEF Types, Jobs, Kinds, Owners, Unfinished, Placed, Owned, Owns, Unmade,
              Owning, Recovering, Writing, Late
<1>3. f \in 0..MaxFrames /\ f \in Nat /\ n \in Nat /\ count \in Nat /\ count # 0
  <2>1. f \in 0..MaxFrames /\ f \in Nat /\ n \in Nat
    BY <1>0, CaptureAssumption DEF Types, Journals, Jobs
  <2> QED BY <1>0, <2>1, CountIs
<1>4. /\ job' \in Jobs /\ job'.kind = job.kind /\ job'.finalized /\ job'.from = job.from
      /\ job'.frames = (IF job.kind \in Recovering THEN f ELSE job.frames)
      /\ job'.count = count
      /\ IF n + 1 = count THEN job'.at = "trim" /\ job'.n = 0
         ELSE job'.at = "chunk" /\ job'.n = n + 1
  <2> DEFINE at == IF n + 1 = count THEN "trim" ELSE "chunk"
             next == IF n + 1 = count THEN 0 ELSE n + 1
             frames == IF job.kind \in Recovering THEN f ELSE job.frames
  <2>1. job' = [job EXCEPT !.at = at, !.n = next, !.count = count, !.frames = frames]
    BY <1>0, <1>1
  <2>2. at \in Places /\ next \in Nat /\ frames \in 0..MaxFrames /\ job \in Jobs
    BY <1>3 DEF Types, Jobs, Places, Writing
  <2>3. /\ job' \in Jobs /\ job'.kind = job.kind /\ job'.finalized = job.finalized
        /\ job'.from = job.from /\ job'.frames = frames /\ job'.count = count
        /\ job'.at = at /\ job'.n = next
    <3> HIDE DEF AudioInv, at, next, frames
    <3> QED BY <1>3, <2>1, <2>2 DEF Jobs
  <2> QED BY <1>2, <2>3
<1>5. file' \in [Chunks -> Files]
  <2>1. file \in [Chunks -> Files]
    BY DEF Types
  <2>2. CASE n \in Chunks
    <3>1. Span(n, f) \in Interval
      BY <1>3, <2>2, SpanIsInterval
    <3> HIDE DEF AudioInv, Control
    <3> QED BY <1>1, <2>1, <3>1, InstalledIs
  <2>3. CASE n \notin Chunks
    <3>1. file' = file
      BY <1>1, <2>1, <2>3 DEF Installed
    <3> QED BY <2>1, <3>1
  <2> QED BY <2>2, <2>3
<1>6. ~overtaken => Sound'
  <2> SUFFICES ASSUME ~overtaken PROVE Sound'
    OBVIOUS
  <2>1. journal.on /\ Length = f /\ Rows(f) /\ Keeps(f) /\ n < count /\ Wrote(n, f)
    BY <1>0, <1>1 DEF Sound, Doing, Writing, Length
  <2>2. n \in Chunks
    BY <1>0, <1>3, <2>1, CountedAreChunks
  <2>3. Span(n, f) \in Interval /\ file \in [Chunks -> Files]
    BY <1>3, <2>2, SpanIsInterval DEF Types
  <2>4. /\ \A j \in Chunks : j # n => file'[j] = file[j]
        /\ Contents(n)' = Span(n, f)
    <3> HIDE DEF AudioInv, Control
    <3> QED BY <1>1, <2>2, <2>3, InstalledIs
  <2>5. \A i \in 0..n : i \in Chunks /\ Contents(i)' = Span(i, f)
    <3>1. \A i \in 0..n : i \in 0..n - 1 \/ i = n
      BY <1>3
    <3> QED BY <1>3, <2>1, <2>2, <2>4, <3>1 DEF Wrote, Contents
  <2>6. Rows(f)'
    <3> HIDE DEF AudioInv, Control
    <3> QED BY <1>1, <2>1, <2>3, InstallKeepsRows
  <2>7. Length' = f
    BY <1>1, <2>1 DEF Length
  <2>8. Rows(Length)' /\ Keeps(Length)'
    BY <1>1, <2>1, <2>6, <2>7 DEF Rows, Keeps
  <2>9. CASE n + 1 = count
    <3>1. job'.frames = f
      BY <1>2, <1>4
    <3>2. Whole(Length)'
      <4>1. \A i \in 0..count - 1 : i \in Chunks /\ Contents(i)' = Span(i, f)
        <5>1. count - 1 = n
          BY <1>3, <2>9
        <5> QED BY <2>5, <5>1
      <4>2. Wrote(count, f)'
        BY <4>1 DEF Wrote
      <4>3. job'.count = count /\ count = ChunkCount(f)
        BY <1>0, <1>4
      <4> QED BY <2>7, <3>1, <4>2, <4>3 DEF Whole, Wrote
    <3>3. Doing(Length)'
      BY <1>1, <1>4, <2>1, <2>9, <3>2 DEF Doing, Writing, Late
    <3> QED BY <2>8, <3>3 DEF Sound
  <2>10. CASE n + 1 # count
    <3>1. n + 1 < count /\ n + 1 < ChunkCount(Length)' /\ ChunkCount(Length)' = count
      BY <1>0, <1>3, <2>1, <2>7, <2>10
    <3>2. \A i \in 0..job'.n - 1 : i \in Chunks /\ Contents(i)' = Span(i, f)
      <4>1. job'.n = n + 1
        BY <1>4, <2>10
      <4>2. job'.n - 1 = n
        BY <1>3, <4>1
      <4> QED BY <2>5, <4>2
    <3>3. Wrote(job.n, Length)'
      BY <2>7, <3>2 DEF Wrote
    <3>4. Doing(Length)'
      BY <1>1, <1>4, <2>1, <2>10, <3>1, <3>3 DEF Doing, Writing, Late
    <3> QED BY <2>8, <3>4 DEF Sound
  <2> QED BY <2>9, <2>10
<1>7. overtaken => Sound'
  BY <1>1 DEF Sound
<1>8. Types'
  BY <1>1, <1>4, <1>5 DEF Types
<1>17. Placed' /\ Unmade'
  BY <1>1, <1>2, <1>4 DEF Placed, Owned, Unmade, Owning, Recovering, Writing
<1>9. Owned'
  BY <1>1, <1>2, <1>4 DEF Owned, SlotIsReclaimable, Owning, Recovering, Writing, Late
<1>18. Live' /\ Blank'
  BY <1>1, <1>2, <1>4 DEF Live, Closing, Blank
<1>19. Owns' /\ Counting'
  BY <1>0, <1>1, <1>2, <1>4 DEF Owns, Counting, Owning, Recovering
<1>20. CompletedIsExact'
  BY <1>1, <1>2, <1>4 DEF CompletedIsExact
<1> QED BY <1>8, <1>9, <1>20, <1>17, <1>18, <1>19, <1>6, <1>7

(* What no chunk of the recording is goes.                                  *)
LEMMA TrimChunksInv ==
  ASSUME AudioInv, TrimChunks
  PROVE  AudioInv'
<1> USE DEF AudioInv, Control, rows, history, memory, Proceeds
<1>0. PICK count : count = job.count
  OBVIOUS
<1>1. /\ up /\ job.at = "trim" /\ file' = Trimmed(count)
      /\ job' = [job EXCEPT !.at = "seal"]
      /\ UNCHANGED <<run, index, entry, journal, active, live, seen, detached, up,
                     accepted, overtaken, stranded>>
  BY <1>0 DEF TrimChunks, At, GoTo
<1>2. /\ job.kind \in Owning \cup Recovering /\ ~active.on /\ journal.made
      /\ job.finalized /\ run.state # "completed" /\ job.from # "index"
  BY <1>1 DEF Types, Jobs, Kinds, Owners, Unfinished, Placed, Owned, Owns, Unmade,
              Owning, Recovering, Writing, Late
<1>3. /\ job' \in Jobs /\ job'.kind = job.kind /\ job'.finalized = job.finalized
      /\ job'.from = job.from /\ job'.frames = job.frames /\ job'.count = count
      /\ job'.at = "seal"
  BY <1>0, <1>1 DEF Types, Jobs, Places, Writing
<1>4. file' \in [Chunks -> Files] /\ \A i \in Chunks : i < count => file'[i] = file[i]
  <2>1. file \in [Chunks -> Files] /\ count \in Nat
    BY <1>0 DEF Types, Jobs
  <2>2. AsFile(Nothing, FALSE) \in Files
    BY CaptureAssumption DEF AsFile, Nothing, Files
  <2>3. \A i \in Chunks : i \in Nat
    BY ChunksNat
  <2>4. file' = [i \in Chunks |-> IF i >= count /\ \A j \in count .. i : file[j].on
                      THEN AsFile(Nothing, FALSE) ELSE file[i]]
    BY <1>1 DEF Trimmed
  <2> DEFINE gone(i) == i >= count /\ \A j \in count .. i : file[j].on
  <2>5. file' = [i \in Chunks |-> IF gone(i) THEN AsFile(Nothing, FALSE) ELSE file[i]]
    BY <2>4
  <2>6. \A i \in Chunks : i < count => ~gone(i)
    BY <2>1, <2>3
  <2> HIDE DEF AudioInv, gone
  <2> QED BY <2>1, <2>2, <2>5, <2>6
<1>5. ~overtaken => Sound'
  <2> SUFFICES ASSUME ~overtaken PROVE Sound'
    OBVIOUS
  <2>1. PICK len : len = Length
    OBVIOUS
  <2>2. journal.on /\ Rows(len) /\ Keeps(len) /\ Whole(len) /\ count = ChunkCount(len)
        /\ len \in Nat
    BY <1>0, <1>1, <2>1, CaptureAssumption
       DEF Sound, Doing, Writing, Whole, Length, Types, Journals
  <2>3. Length' = len
    BY <1>1, <2>1 DEF Length
  <2>4. Rows(len)'
    BY <1>1, <1>4, <2>2 DEF Rows
  <2>5. \A i \in 0..count - 1 : i \in Chunks /\ Contents(i) = Span(i, len)
    BY <1>0, <2>2 DEF Whole, Wrote
  <2>6. \A i \in 0..count - 1 : i \in Chunks /\ Contents(i)' = Span(i, len)
    <3>1. \A i \in 0..count - 1 : i < count
      BY <2>2, CountIs
    <3> QED BY <1>4, <2>5, <3>1 DEF Contents
  <2>7. Whole(len)'
    BY <1>0, <1>3, <2>2, <2>6 DEF Whole, Wrote
  <2>8. Rows(Length)' /\ Keeps(Length)' /\ Whole(Length)'
    BY <1>1, <2>2, <2>3, <2>4, <2>7 DEF Rows, Keeps, Whole, Wrote
  <2>9. Doing(Length)'
    BY <1>1, <1>3, <2>2, <2>8 DEF Doing, Writing, Late
  <2> QED BY <2>8, <2>9 DEF Sound
<1>7. overtaken => Sound'
  BY <1>1 DEF Sound
<1>8. Types'
  BY <1>1, <1>3, <1>4 DEF Types
<1>17. Placed' /\ Unmade'
  BY <1>1, <1>2, <1>3 DEF Placed, Owned, Unmade, Owning, Recovering, Writing
<1>9. Owned'
  BY <1>1, <1>2, <1>3 DEF Owned, SlotIsReclaimable, Owning, Recovering, Writing, Late
<1>18. Live' /\ Blank'
  BY <1>1, <1>2, <1>3 DEF Live, Closing, Blank
<1>19. Owns' /\ Counting'
  BY <1>1, <1>2, <1>3 DEF Owns, Counting
<1>20. CompletedIsExact'
  BY <1>1, <1>2, <1>3 DEF CompletedIsExact
<1> QED BY <1>8, <1>9, <1>20, <1>17, <1>18, <1>19, <1>5, <1>7

(* The chunks are flushed.                                                  *)
LEMMA SealChunksInv ==
  ASSUME AudioInv, SealChunks, ~Fails
  PROVE  AudioInv'
<1> USE DEF AudioInv, Control, rows, history, memory, Proceeds
<1>1. /\ up /\ job.at = "seal" /\ file' = Sealed
      /\ job' = [job EXCEPT !.at = IF job.kind = "teardown" THEN "register" ELSE "finalize"]
      /\ UNCHANGED <<run, index, entry, journal, active, live, seen, detached, up,
                     accepted, overtaken, stranded>>
  BY DEF SealChunks, At, GoTo
<1>2. /\ job.kind \in Owning \cup Recovering /\ ~active.on /\ journal.made
      /\ job.finalized /\ run.state # "completed" /\ job.from # "index"
      /\ job.kind \notin {"teardown", "stop"} => run.state = "interrupted"
  BY <1>1 DEF Types, Jobs, Kinds, Owners, Unfinished, Placed, Owned, Owns, Unmade,
              Owning, Recovering, Writing, Late
<1>3. /\ job' \in Jobs /\ job'.kind = job.kind /\ job'.finalized = job.finalized
      /\ job'.from = job.from /\ job'.frames = job.frames /\ job'.count = job.count
      /\ job'.at = IF job.kind = "teardown" THEN "register" ELSE "finalize"
  BY <1>1 DEF Types, Jobs, Places, Writing, Late
<1>4. file' \in [Chunks -> Files]
      /\ \A i \in Chunks : /\ file'[i].sealed = file[i].on /\ file'[i].on = file[i].on
                           /\ file'[i].from = file[i].from /\ file'[i].upto = file[i].upto
  <2>1. file \in [Chunks -> Files]
    BY DEF Types
  <2> HIDE DEF AudioInv
  <2> QED BY <1>1, <2>1 DEF Sealed, Files
<1>5. ~overtaken => Sound'
  <2> SUFFICES ASSUME ~overtaken PROVE Sound'
    OBVIOUS
  <2>1. PICK len : len = Length
    OBVIOUS
  <2>2. journal.on /\ Rows(len) /\ Keeps(len) /\ Whole(len)
    BY <1>1, <2>1 DEF Sound, Doing, Writing, Whole
  <2>3. Length' = len
    BY <1>1, <2>1 DEF Length
  <2>4. Rows(len)'
    <3> SUFFICES ASSUME NEW i \in Chunks, index[i].on PROVE file'[i] = AsFile(index[i], TRUE)
      BY <1>1, <2>2 DEF Rows
    <3>1. file[i] = AsFile(index[i], TRUE) /\ index[i] = Span(i, len)
      BY <2>2 DEF Rows
    <3>2. file[i].sealed = TRUE /\ file[i].on = TRUE
      BY <3>1 DEF AsFile, Span, Held
    <3>3. file'[i] = file[i]
      <4>1. file'[i] \in Files /\ file[i] \in Files
        BY <1>4 DEF Types
      <4> QED BY <1>4, <3>2, <4>1 DEF Files
    <3> QED BY <3>1, <3>3
  <2>5. \A i \in 0..job.count - 1 : i \in Chunks /\ Contents(i) = Span(i, len)
    BY <2>2 DEF Whole, Wrote
  <2>6. \A i \in 0..job.count - 1 :
          i \in Chunks /\ Contents(i)' = Span(i, len) /\ file'[i].sealed
    <3> TAKE i \in 0..job.count - 1
    <3>1. i \in Chunks /\ Contents(i) = Span(i, len)
      BY <2>5
    <3>2. Contents(i)' = Contents(i)
      BY <1>4, <3>1 DEF Contents
    <3>3. file[i].on
      BY <3>1 DEF Contents, Span, Held
    <3> QED BY <1>4, <3>1, <3>2, <3>3
  <2>7. Lasting(len)'
    BY <1>3, <2>2, <2>6 DEF Lasting, Whole, Wrote
  <2>8. Rows(Length)' /\ Keeps(Length)' /\ Lasting(Length)'
    BY <1>1, <2>2, <2>3, <2>4, <2>7 DEF Rows, Keeps, Lasting, Whole, Wrote
  <2>9. Doing(Length)'
    BY <1>1, <1>2, <1>3, <2>2, <2>8 DEF Doing, Writing, Late
  <2> QED BY <2>8, <2>9 DEF Sound
<1>7. overtaken => Sound'
  BY <1>1 DEF Sound
<1>8. Types'
  BY <1>1, <1>3, <1>4 DEF Types
<1>17. Placed' /\ Unmade'
  BY <1>1, <1>2, <1>3 DEF Placed, Owned, Unmade, Owning, Recovering, Writing, Late
<1>9. Owned'
  BY <1>1, <1>2, <1>3 DEF Owned, SlotIsReclaimable, Owning, Recovering, Writing, Late
<1>18. Live' /\ Blank'
  BY <1>1, <1>2, <1>3 DEF Live, Closing, Blank
<1>19. Owns' /\ Counting'
  BY <1>1, <1>2, <1>3 DEF Owns, Counting
<1>20. CompletedIsExact'
  BY <1>1, <1>2, <1>3 DEF CompletedIsExact
<1> QED BY <1>8, <1>9, <1>20, <1>17, <1>18, <1>19, <1>5, <1>7

(* Chunks get their rows, all at once or one at a time.                     *)
LEMMA IndexChunksInv ==
  ASSUME AudioInv, IndexChunks, ~Fails
  PROVE  AudioInv'
<1> USE DEF AudioInv, Control, history, disk, memory, Proceeds
<1>0. PICK n, count, batch :
        /\ n = job.n /\ count = job.count
        /\ batch = (IF job.kind \in Recovering THEN {n} ELSE 0..count - 1)
  OBVIOUS
<1>1. /\ up /\ job.at = "index"
      /\ index' = [i \in Chunks |-> IF i \in batch THEN RowOf(i) ELSE index[i]]
      /\ job' = [job EXCEPT !.at = IF job.kind \in Owning \/ n + 1 = count
                                   THEN "entry" ELSE "index",
                            !.n = @ + 1]
      /\ UNCHANGED <<run, entry, journal, file, active, live, seen, detached, up,
                     accepted, overtaken, stranded>>
  BY <1>0 DEF IndexChunks, At
<1>2. /\ job.kind \in Owning \cup Recovering /\ ~active.on /\ journal.made
      /\ job.finalized /\ run.state # "completed"
      /\ (job.kind = "stop" => run.state = "draining")
      /\ (job.kind # "stop" => run.state = "interrupted")
      /\ job.frames \in 0..MaxFrames /\ n \in Nat /\ count \in Nat
  BY <1>0, <1>1 DEF Types, Jobs, Kinds, Owners, Unfinished, Placed, Owned, Owns, Unmade,
              Owning, Recovering, Writing, Late
<1>3. /\ job' \in Jobs /\ job'.kind = job.kind /\ job'.finalized = job.finalized
      /\ job'.from = job.from /\ job'.frames = job.frames /\ job'.count = count
      /\ job'.n = n + 1
      /\ job'.at = IF job.kind \in Owning \/ n + 1 = count THEN "entry" ELSE "index"
  <2> DEFINE at == IF job.kind \in Owning \/ n + 1 = count THEN "entry" ELSE "index"
  <2>1. job' = [job EXCEPT !.at = at, !.n = n + 1]
    BY <1>0, <1>1
  <2>2. at \in Places /\ n + 1 \in Nat /\ job \in Jobs
    BY <1>2 DEF Types, Places, Late
  <2>3. /\ job' \in Jobs /\ job'.kind = job.kind /\ job'.finalized = job.finalized
        /\ job'.from = job.from /\ job'.frames = job.frames /\ job'.count = job.count
        /\ job'.n = n + 1 /\ job'.at = at
    <3> HIDE DEF AudioInv, at
    <3> QED BY <2>1, <2>2 DEF Jobs
  <2> QED BY <1>0, <2>3
<1>4. index' \in [Chunks -> Interval]
  <2>1. \A i \in Chunks : RowOf(i) \in Interval
    <3> TAKE i \in Chunks
    <3>1. Span(i, job.frames) \in Interval
      BY <1>2, SpanIsInterval
    <3>2. Contents(i) \in Interval
      <4>1. file[i] \in Files
        BY DEF Types
      <4> QED BY <4>1 DEF Contents, Files, Interval
    <3> QED BY <3>1, <3>2 DEF RowOf
  <2>2. index \in [Chunks -> Interval]
    BY DEF Types
  <2> HIDE DEF AudioInv
  <2> QED BY <1>1, <2>1, <2>2
<1>5. ~overtaken => Sound'
  <2> SUFFICES ASSUME ~overtaken PROVE Sound'
    OBVIOUS
  <2>1. PICK len : len = Length
    OBVIOUS
  <2>2. /\ Rows(len) /\ Keeps(len) /\ Lasting(len) /\ (job.from = "index" <=> ~journal.on)
        /\ run.counted = len
        /\ job.kind \in Recovering => n < count /\ \A j \in 0..n - 1 : index[j] = Span(j, len)
    BY <1>0, <1>1, <2>1 DEF Sound, Doing, Late
  <2>3. /\ len \in Nat /\ job.frames = len /\ count = ChunkCount(len) /\ count # 0
        /\ \A i \in 0..count - 1 : i \in Chunks /\ Contents(i) = Span(i, len) /\ file[i].sealed
    <3>1. len \in Nat
      BY <2>2, CaptureAssumption DEF Types, Runs
    <3> QED BY <1>0, <2>2, <3>1, CountIs DEF Lasting, Whole, Wrote
  <2>4. Length' = len
    BY <1>1, <2>1 DEF Length
  <2>5. \A i \in 0..count - 1 :
          /\ i \in Chunks /\ Span(i, len).on /\ file[i] = AsFile(Span(i, len), TRUE)
          /\ i \in batch => index'[i] = Span(i, len)
          /\ i \notin batch => index'[i] = index[i]
    <3> TAKE i \in 0..count - 1
    <3>1. i \in Chunks /\ Contents(i) = Span(i, len) /\ file[i].sealed
      BY <2>3
    <3>2. RowOf(i) = Span(i, len)
      BY <2>3, <3>1 DEF RowOf
    <3>3. index'[i] = IF i \in batch THEN Span(i, len) ELSE index[i]
      BY <1>1, <3>1, <3>2
    <3>4. file[i] = AsFile(Contents(i), TRUE)
      <4>1. file[i] \in Files
        BY <3>1 DEF Types
      <4> QED BY <3>1, <4>1 DEF AsFile, Contents, Files
    <3>5. Span(i, len).on
      BY DEF Span, Held
    <3> QED BY <3>1, <3>3, <3>4, <3>5
  <2>6. \A i \in Chunks : i \in Nat /\ (i \in batch => i \in 0..count - 1)
    <3>1. \A i \in Chunks : i \in Nat
      BY ChunksNat
    <3> QED BY <1>0, <1>2, <2>2, <3>1
  <2>7. \A i \in Chunks : i \notin batch => index'[i] = index[i]
    BY <1>1
  <2>8. ASSUME NEW i \in Chunks, index[i].on
        PROVE  /\ i \in 0..count - 1 /\ index'[i] = Span(i, len)
               /\ \A j \in Chunks : j < i => index[j].on
    <3>1. i < count /\ index[i] = Span(i, len) /\ \A j \in Chunks : j < i => index[j].on
      <4>1. Rows(len) /\ count = ChunkCount(len)
        BY <2>2, <2>3
      <4> HIDE DEF AudioInv
      <4> QED BY <2>8, <4>1 DEF Rows
    <3>2. i \in 0..count - 1
      BY <1>2, <2>6, <3>1
    <3> QED BY <2>5, <3>1, <3>2
  <2>9. \A j \in Chunks : index[j].on => index'[j].on
    BY <2>5, <2>8
  <2>10. Rows(len)'
    <3> SUFFICES ASSUME NEW i \in Chunks, index'[i].on
                 PROVE  /\ i < ChunkCount(len) /\ index'[i] = Span(i, len)
                        /\ file[i] = AsFile(index'[i], TRUE)
                        /\ \A j \in Chunks : j < i => index'[j].on
      BY <1>1 DEF Rows
    <3>1. i \in 0..count - 1 /\ index'[i] = Span(i, len)
      BY <2>5, <2>6, <2>7, <2>8
    <3>2. i < ChunkCount(len)
      BY <1>2, <2>3, <3>1
    <3>3. file[i] = AsFile(index'[i], TRUE)
      BY <2>5, <3>1
    <3>4. ASSUME NEW j \in Chunks, j < i PROVE index'[j].on
      <4>1. CASE index[i].on
        BY <2>8, <2>9, <3>4, <4>1
      <4>2. CASE ~index[i].on
        <5>1. i \in batch
          BY <2>7, <4>2
        <5>2. j \in 0..count - 1
          BY <1>2, <2>6, <3>1, <3>4
        <5>3. CASE job.kind \in Recovering
          <6>1. i = n
            BY <1>0, <5>1, <5>3
          <6>2. index[j] = Span(j, len)
            BY <1>2, <2>2, <2>6, <3>4, <5>3, <6>1
          <6> QED BY <2>5, <5>2, <6>2
        <5>4. CASE job.kind \notin Recovering
          BY <1>0, <2>5, <5>2, <5>4
        <5> QED BY <5>3, <5>4
      <4> QED BY <4>1, <4>2
    <3> QED BY <3>1, <3>2, <3>3, <3>4
  <2>11. ASSUME \A i \in 0..count - 1 : index'[i] = Span(i, len)
         PROVE  Indexed(len)'
    BY <1>1, <2>3, <2>5, <2>11 DEF Indexed
  <2>12. Keeps(len)'
    <3>1. CASE journal.on
      BY <1>1, <2>2, <3>1 DEF Keeps
    <3>2. CASE ~journal.on
      <4>1. accepted = len /\ journal.frames <= len /\ Indexed(len)
        BY <1>2, <2>2, <3>2 DEF Keeps
      <4>2. \A i \in 0..count - 1 : index'[i] = Span(i, len)
        BY <2>3, <2>5, <4>1 DEF Indexed
      <4>3. Indexed(len)'
        BY <2>11, <4>2
      <4> QED BY <1>1, <3>2, <4>1, <4>3 DEF Keeps
    <3> QED BY <3>1, <3>2
  <2>13. Lasting(len)'
    BY <1>0, <1>1, <1>3, <2>2 DEF Lasting, Whole, Wrote, Contents, Span, Held
  <2>14. Rows(Length)' /\ Keeps(Length)' /\ Lasting(Length)'
    BY <2>4, <2>10, <2>12, <2>13 DEF Rows, Keeps, Lasting, Whole, Wrote, Indexed
  <2>15. CASE job.kind \in Owning \/ n + 1 = count
    <3>1. ASSUME NEW i \in 0..count - 1 PROVE index'[i] = Span(i, len)
      <4>1. CASE job.kind \in Recovering
        <5>1. n + 1 = count
          BY <2>15, <4>1 DEF Owning, Recovering
        <5>2. i = n \/ i \in 0..n - 1
          BY <1>2, <5>1
        <5>3. i \in batch \/ index[i] = Span(i, len)
          BY <1>0, <2>2, <4>1, <5>2
        <5> QED BY <2>5, <5>3
      <4>2. CASE job.kind \notin Recovering
        BY <1>0, <2>5, <4>2
      <4> QED BY <4>1, <4>2
    <3>2. Indexed(len)'
      BY <2>11, <3>1
    <3>3. Indexed(Length)' /\ run'.counted = Length' /\ job'.at = "entry"
      BY <1>1, <1>3, <2>2, <2>4, <2>15, <3>2 DEF Indexed
    <3>4. Doing(Length)'
      BY <1>1, <1>3, <2>2, <2>14, <3>3 DEF Doing, Writing, Late
    <3> QED BY <2>14, <3>4 DEF Sound
  <2>16. CASE ~(job.kind \in Owning \/ n + 1 = count)
    <3>1. job.kind \in Recovering /\ n + 1 # count /\ n < count
      BY <1>2, <2>2, <2>16
    <3>2. n + 1 < count /\ job'.at = "index" /\ job'.n = n + 1 /\ n + 1 - 1 = n
      BY <1>2, <1>3, <2>16, <3>1
    <3>3. \A j \in 0..n : index'[j] = Span(j, len)
      <4> TAKE j \in 0..n
      <4>1. j \in 0..count - 1 /\ (j = n \/ j \in 0..n - 1)
        BY <1>2, <3>1
      <4>2. j \in batch \/ index[j] = Span(j, len)
        BY <1>0, <2>2, <3>1, <4>1
      <4> QED BY <2>5, <4>1, <4>2
    <3>4. \A j \in 0..job'.n - 1 : index'[j] = Span(j, Length')
      <4>1. job'.n - 1 = n
        BY <1>2, <3>2
      <4> QED BY <2>4, <3>3, <4>1
    <3>5. job'.n < job'.count /\ run'.counted = Length'
      BY <1>1, <1>3, <2>2, <2>4, <3>2
    <3>6. Doing(Length)'
      BY <1>1, <1>3, <2>2, <2>14, <3>2, <3>4, <3>5 DEF Doing, Writing, Late
    <3> QED BY <2>14, <3>6 DEF Sound
  <2> QED BY <2>15, <2>16
<1>7. overtaken => Sound'
  BY <1>1 DEF Sound
<1>8. Types'
  BY <1>1, <1>3, <1>4 DEF Types
<1>17. Placed' /\ Unmade'
  BY <1>1, <1>2, <1>3 DEF Placed, Owned, Unmade, Owning, Recovering, Writing, Late
<1>9. Owned'
  BY <1>1, <1>2, <1>3 DEF Owned, SlotIsReclaimable, Owning, Recovering, Writing, Late
<1>18. Live' /\ Blank'
  BY <1>1, <1>2, <1>3 DEF Live, Closing, Blank
<1>19. Owns' /\ Counting'
  BY <1>1, <1>2, <1>3 DEF Owns, Counting
<1>20. CompletedIsExact'
  BY <1>1, <1>2, <1>3 DEF CompletedIsExact
<1> QED BY <1>8, <1>9, <1>20, <1>17, <1>18, <1>19, <1>5, <1>7

(* A power loss: of files and journal, what was not flushed may go.         *)
LEMMA PowerLossInv ==
  ASSUME AudioInv, PowerLoss
  PROVE  AudioInv'
<1> USE DEF AudioInv, Control, rows
<1>0. PICK kept \in journal.flushed .. journal.frames, torn \in {FALSE, journal.made},
           back \in {FALSE, journal.made},
           gone \in SUBSET {i \in Chunks : file[i].on /\ ~file[i].sealed} :
        /\ journal' = [journal EXCEPT !.on = @ \/ back, !.frames = kept,
                                      !.flushed = kept, !.torn = torn]
        /\ file' = [i \in Chunks |-> IF i \in gone THEN AsFile(Nothing, FALSE) ELSE file[i]]
        /\ overtaken' = (overtaken \/ (journal'.on /\ kept < Covered))
        /\ accepted' = Min({accepted, Max({Covered, IF journal'.on THEN kept ELSE 0})})
  BY DEF PowerLoss
<1>1. /\ active' = NoOwner /\ live' = NoLive /\ seen' = 0 /\ ~detached' /\ ~stranded' /\ ~up'
      /\ detached' \in BOOLEAN /\ stranded' \in BOOLEAN /\ up' \in BOOLEAN
      /\ job' = Idle
      /\ UNCHANGED <<run, index, entry>>
  BY DEF PowerLoss, Dies
<1>2. /\ journal \in Journals /\ file \in [Chunks -> Files] /\ accepted \in 0..MaxFrames
      /\ MaxFrames \in Nat /\ journal.flushed \in Nat /\ journal.frames \in 0..MaxFrames
      /\ accepted \in Nat /\ Covered \in 0..MaxFrames /\ Covered \in Nat
  BY CaptureAssumption, CoveredIs DEF Types, Journals
<1>3. kept \in 0..MaxFrames /\ kept \in Nat /\ kept <= journal.frames
  BY <1>0, <1>2
<1>4. /\ journal' \in Journals /\ journal'.made = journal.made /\ journal'.frames = kept
      /\ journal'.flushed = kept /\ journal'.torn = torn
      /\ (journal'.on <=> journal.on \/ back)
  <2>1. torn \in BOOLEAN /\ (journal.on \/ back) \in BOOLEAN
    BY <1>0, <1>2 DEF Journals
  <2> HIDE DEF AudioInv
  <2> QED BY <1>0, <1>2, <1>3, <2>1 DEF Journals
<1>5. /\ file' \in [Chunks -> Files]
      /\ \A i \in Chunks : file[i].sealed \/ ~file[i].on => file'[i] = file[i]
      /\ \A i \in Chunks : ~file[i].on => ~file'[i].on
  <2>1. AsFile(Nothing, FALSE) \in Files
    BY <1>2 DEF AsFile, Nothing, Files
  <2>2. \A i \in gone : i \in Chunks /\ file[i].on /\ ~file[i].sealed
    BY <1>0
  <2>3. file' = [i \in Chunks |-> IF i \in gone THEN AsFile(Nothing, FALSE) ELSE file[i]]
    BY <1>0
  <2> HIDE DEF AudioInv
  <2>4. file' \in [Chunks -> Files]
    BY <1>2, <2>1, <2>3
  <2>5. \A i \in Chunks : i \notin gone => file'[i] = file[i]
    BY <2>3
  <2> QED BY <2>2, <2>4, <2>5
<1>6. /\ accepted' \in 0..MaxFrames /\ accepted' <= accepted
      /\ accepted' = LET held == IF journal'.on /\ kept > Covered THEN kept ELSE Covered IN
                     IF accepted <= held THEN accepted ELSE held
  <2> DEFINE last == IF journal'.on THEN kept ELSE 0
             held == IF journal'.on /\ kept > Covered THEN kept ELSE Covered
  <2>1. last \in Nat
    BY <1>3
  <2>2. Max({Covered, last}) = IF last <= Covered THEN Covered ELSE last
    <3> HIDE DEF last
    <3> QED BY <1>2, <2>1, MaxOfTwo
  <2>3. Max({Covered, last}) = held /\ held \in Nat
    BY <1>2, <1>3, <2>2
  <2>4. accepted' = Min({accepted, held})
    BY <1>0, <2>3
  <2>5. accepted' = IF accepted <= held THEN accepted ELSE held
    <3> HIDE DEF held
    <3> QED BY <1>2, <2>3, <2>4, MinOfTwo
  <2> QED BY <1>2, <2>3, <2>5
<1>7. ASSUME NEW len, Indexed(len), len \in 0..MaxFrames
      PROVE  Indexed(len)' /\ len <= Covered
  <2>1. \A i \in 0..ChunkCount(len) - 1 : i \in Chunks /\ file[i] = AsFile(index[i], TRUE)
    BY <1>7, CountedAreChunks DEF Indexed
  <2>2. \A i \in 0..ChunkCount(len) - 1 : file'[i] = file[i]
    <3> TAKE i \in 0..ChunkCount(len) - 1
    <3>1. file[i].sealed
      <4>1. file[i] = AsFile(index[i], TRUE)
        BY <2>1
      <4> HIDE DEF AudioInv
      <4> QED BY <4>1 DEF AsFile
    <3> QED BY <1>5, <2>1, <3>1
  <2>3. Indexed(len)'
    BY <1>1, <1>7, <2>2 DEF Indexed
  <2>4. len = 0 \/ len \in 1..MaxFrames
    BY <1>2, <1>7
  <2> QED BY <1>2, <1>7, <2>3, <2>4, CoveredIs
<1>10. job'.kind = "none" /\ job'.at = "none" /\ job'.from = "journal" /\ job'.finalized
       /\ job' \in Jobs
  BY <1>1, IdleIs DEF Idle
<1>11. ~active'.on /\ live'.queue = <<>> /\ active' \in Owners /\ live' \in Lives
  BY <1>1, NoOwnerIs DEF NoOwner, NoLive
<1>12. overtaken' \in BOOLEAN /\ (overtaken => overtaken')
  <2>1. overtaken \in BOOLEAN
    BY DEF Types
  <2> QED BY <1>0, <2>1
<1>13. ~journal.made => /\ ~journal'.on /\ journal'.frames = 0 /\ ~journal'.torn
                        /\ accepted' = 0 /\ ~overtaken'
  <2> SUFFICES ASSUME ~journal.made
               PROVE  /\ ~journal'.on /\ journal'.frames = 0 /\ ~journal'.torn
                      /\ accepted' = 0 /\ ~overtaken'
    OBVIOUS
  <2>1. ~journal.on /\ journal.frames = 0 /\ accepted = 0 /\ ~overtaken
    BY DEF Unmade
  <2>2. ~back /\ ~torn
    BY <1>0
  <2> QED BY <1>0, <1>2, <1>3, <1>4, <1>6, <2>1, <2>2
<1>14. journal'.on => journal.made
  BY <1>0, <1>4 DEF Unmade
<1>8. Types'
  <2>1. seen' \in 0..MaxFrames /\ journal'.flushed <= journal'.frames
    BY <1>1, <1>2, <1>3, <1>4
  <2> QED BY <1>1, <1>4, <1>5, <1>6, <1>10, <1>11, <1>12, <2>1 DEF Types
<1>15. Placed' /\ Owned'
  BY <1>1, <1>10, <1>11 DEF Placed, Owned, SlotIsReclaimable, Owning, Recovering
<1>9. Unmade'
  BY <1>1, <1>4, <1>10, <1>11, <1>13, <1>14 DEF Unmade
<1>16. Blank'
  BY <1>1, <1>4, <1>5 DEF Blank
<1>17. Live' /\ Owns' /\ Counting'
  BY <1>1, <1>10, <1>11 DEF Live, Closing, Owns, Counting, Owning
<1>18. CompletedIsExact'
  <2> SUFFICES ASSUME run.state = "completed" PROVE CompletedIsExact'
    BY <1>1 DEF CompletedIsExact
  <2>1. PICK len : len = run.counted
    OBVIOUS
  <2>2. Indexed(len) /\ len \in 0..MaxFrames /\ len \in Nat /\ len >= accepted
    BY <1>2, <2>1 DEF CompletedIsExact, Types, Runs
  <2>3. Indexed(len)'
    BY <1>7, <2>2
  <2>4. accepted' <= len
    BY <1>2, <1>6, <2>2
  <2>5. Indexed(run.counted)'
    BY <1>1, <2>1, <2>3 DEF Indexed
  <2>6. run'.counted >= accepted'
    BY <1>1, <2>1, <2>2, <2>4, <1>6
  <2> QED BY <1>1, <2>5, <2>6 DEF CompletedIsExact
<1>19. ~overtaken' => Sound'
  <2> SUFFICES ASSUME ~overtaken' PROVE Sound'
    OBVIOUS
  <2>1. ~overtaken /\ (journal'.on => kept >= Covered)
    <3>1. ~(overtaken \/ (journal'.on /\ kept < Covered))
      BY <1>0
    <3> QED BY <1>2, <1>3, <3>1
  <2>2. PICK len : len = Length
    OBVIOUS
  <2>3. Rows(len) /\ Keeps(len) /\ len \in 0..MaxFrames /\ len \in Nat
    BY <1>2, <2>1, <2>2 DEF Sound, Length, Types, Runs, Journals
  <2>4. Doing(Length)'
    BY <1>10 DEF Doing, Writing, Late
  <2>5. CASE journal.on
    <3>1. len = journal.frames /\ accepted = len /\ journal'.on /\ Length' = kept
      BY <1>4, <2>2, <2>3, <2>5 DEF Length, Keeps
    <3>2. accepted' = kept
      BY <1>2, <1>3, <1>6, <2>1, <3>1
    <3>3. Keeps(kept)'
      BY <1>4, <3>1, <3>2 DEF Keeps
    <3>4. Rows(kept)'
      <4> SUFFICES ASSUME NEW i \in Chunks, index[i].on
                   PROVE  /\ i < ChunkCount(kept) /\ index[i] = Span(i, kept)
                          /\ file'[i] = AsFile(index[i], TRUE)
                          /\ \A j \in Chunks : j < i => index[j].on
        BY <1>1 DEF Rows
      <4>1. /\ i < ChunkCount(len) /\ index[i] = Span(i, len) /\ file[i] = AsFile(index[i], TRUE)
            /\ \A j \in Chunks : j < i => index[j].on
        BY <2>3 DEF Rows
      <4>2. file'[i] = file[i]
        <5>1. file[i].sealed
          BY <4>1 DEF AsFile
        <5> QED BY <1>5, <5>1
      <4>3. i < ChunkCount(kept) /\ Span(i, len) = Span(i, kept)
        <5>1. CASE kept = len
          BY <4>1, <5>1
        <5>2. CASE kept # len
          <6>0. kept < len /\ len # 0 /\ len \in 1..MaxFrames
            BY <1>2, <1>3, <2>3, <3>1, <5>2
          <6> DEFINE t == i * Minute
          <6>1. i \in Nat /\ t \in Nat /\ (i + 1) * Minute = t + Minute /\ Minute \in Nat \ {0}
            BY ChunksNat, Times, CaptureAssumption
          <6>2. Span(i, len) = Held(t, IF len <= t + Minute THEN len ELSE t + Minute)
            BY <2>3, <6>1, SpanIs
          <6>3. Span(i, kept) = Held(t, IF kept <= t + Minute THEN kept ELSE t + Minute)
            BY <1>3, <6>1, SpanIs
          <6>4. /\ i < ChunkCount(kept) <=> i = 0 \/ t < kept
                /\ i + 1 < ChunkCount(len) <=> i + 1 = 0 \/ t + Minute < len
            BY <1>3, <2>3, <6>1, CountIs
          <6>5. \A j \in 0..i : j \in Chunks /\ index[j].on
            <7>1. \A j \in 0..i : j \in Chunks /\ (j = i \/ j < i)
              <8>1. MaxFrames \div Minute \in Nat
                BY <1>2, <6>1, Quotient
              <8> HIDE DEF AudioInv
              <8> QED BY <6>1, <8>1 DEF Chunks
            <7> QED BY <4>1, <7>1
          <6>6. \A j \in 0..i : index[j] = Span(j, len) /\ file[j] = AsFile(index[j], TRUE)
            BY <2>3, <6>5 DEF Rows
          <6>7. CASE len <= t + Minute
            <7>1. ChunkCount(len) = i + 1
              <8>1. ChunkCount(len) \in Nat
                BY <2>3, CountIs
              <8> HIDE DEF t
              <8> QED BY <2>3, <4>1, <6>1, <6>4, <6>7, <8>1
            <7>2. Indexed(len)
              <8>1. \A j \in 0..ChunkCount(len) - 1 : j \in 0..i
                BY <6>1, <7>1
              <8> QED BY <6>6, <8>1 DEF Indexed
            <7>3. len <= Covered
              BY <6>0, <7>2, CoveredIs
            <7> QED BY <1>2, <1>3, <2>1, <2>3, <3>1, <6>0, <7>3
          <6>8. CASE t + Minute < len
            <7> DEFINE full == t + Minute
            <7>0. full \in Nat /\ full \in 1..MaxFrames
              <8> HIDE DEF t
              <8> QED BY <1>2, <2>3, <6>1, <6>8
            <7>1. ChunkCount(full) = i + 1
              <8> DEFINE cc == ChunkCount(full)
              <8>1. /\ cc \in Nat \ {0} /\ (i < cc <=> i = 0 \/ t < full)
                    /\ (i + 1 < cc <=> i + 1 = 0 \/ t + Minute < full)
                <9>1. \A j \in Nat : j < cc <=> j = 0 \/ j * Minute < full
                  BY <7>0, CountIs
                <9>2. cc \in Nat \ {0}
                  BY <7>0, CountIs
                <9>3. i + 1 \in Nat /\ i \in Nat
                  BY <6>1
                <9>4. i < cc <=> i = 0 \/ i * Minute < full
                  BY <9>1, <9>3
                <9>5. i + 1 < cc <=> i + 1 = 0 \/ (i + 1) * Minute < full
                  BY <9>1, <9>3
                <9> HIDE DEF cc, full
                <9> QED BY <6>1, <9>2, <9>4, <9>5
              <8> HIDE DEF t, cc
              <8> QED BY <6>1, <8>1 DEF cc
            <7>2. \A j \in 0..i : Span(j, full) = Span(j, len)
              <8> TAKE j \in 0..i
              <8> DEFINE v == j * Minute
              <8>1. j \in Nat /\ v \in Nat
                BY <6>1, Times
              <8>2. v <= t
                <9>1. j < i => v + Minute <= t
                  BY <6>1, <8>1, Before
                <9>2. j = i => v = t
                  OBVIOUS
                <9> HIDE DEF v, t
                <9> QED BY <6>1, <8>1, <9>1, <9>2
              <8>3. Span(j, full) = Held(v, IF full <= v + Minute THEN full ELSE v + Minute)
                BY <7>0, <8>1, SpanIs
              <8>4. Span(j, len) = Held(v, IF len <= v + Minute THEN len ELSE v + Minute)
                BY <2>3, <8>1, SpanIs
              <8> HIDE DEF v, t
              <8>5. (IF full <= v + Minute THEN full ELSE v + Minute)
                      = (IF len <= v + Minute THEN len ELSE v + Minute)
                BY <2>3, <6>1, <6>8, <8>1, <8>2
              <8> QED BY <8>3, <8>4, <8>5
            <7>3. Indexed(full)
              <8>1. \A j \in 0..ChunkCount(full) - 1 : j \in 0..i
                BY <6>1, <7>1
              <8> HIDE DEF full
              <8> QED BY <6>6, <7>2, <8>1 DEF Indexed
            <7>4. full <= Covered
              <8> HIDE DEF full
              <8> QED BY <7>0, <7>3, CoveredIs
            <7>5. full <= kept
              <8> HIDE DEF full
              <8> QED BY <1>2, <1>3, <2>1, <3>1, <7>0, <7>4
            <7>6. t < kept /\ (IF kept <= t + Minute THEN kept ELSE t + Minute) = t + Minute
                  /\ (IF len <= t + Minute THEN len ELSE t + Minute) = t + Minute
              <8> HIDE DEF t
              <8> QED BY <1>3, <2>3, <6>1, <6>8, <7>5
            <7> QED BY <6>2, <6>3, <6>4, <7>6
          <6> HIDE DEF t
          <6> QED BY <2>3, <6>1, <6>7, <6>8
        <5> QED BY <5>1, <5>2
      <4> QED BY <4>1, <4>2, <4>3
    <3>5. Rows(Length)' /\ Keeps(Length)'
      BY <3>1, <3>3, <3>4 DEF Rows, Keeps, Indexed
    <3> QED BY <2>4, <3>5 DEF Sound
  <2>6. CASE ~journal.on /\ journal.made
    <3>1. len = run.counted /\ accepted = len /\ journal.frames <= len /\ Indexed(len)
      BY <2>2, <2>3, <2>6 DEF Length, Keeps
    <3>2. len <= Covered /\ Indexed(len)'
      BY <1>7, <2>3, <3>1
    <3>3. accepted' = len
      BY <1>2, <1>3, <1>6, <2>3, <3>1, <3>2
    <3>4. journal'.on => kept = len
      BY <1>2, <1>3, <2>1, <2>3, <3>1, <3>2
    <3>5. Length' = len
      BY <1>1, <1>4, <3>1, <3>4 DEF Length
    <3>6. kept <= len
      BY <1>2, <1>3, <2>3, <3>1
    <3>7. Keeps(len)'
      BY <1>4, <3>2, <3>3, <3>6 DEF Keeps
    <3>8. Rows(len)'
      <4> SUFFICES ASSUME NEW i \in Chunks, index[i].on PROVE file'[i] = file[i]
        BY <1>1, <2>3 DEF Rows
      <4>1. file[i] = AsFile(index[i], TRUE)
        BY <2>3 DEF Rows
      <4>2. file[i].sealed
        <5> HIDE DEF AudioInv
        <5> QED BY <4>1 DEF AsFile
      <4> QED BY <1>5, <4>2
    <3>9. Rows(Length)' /\ Keeps(Length)'
      BY <3>5, <3>7, <3>8 DEF Rows, Keeps, Indexed
    <3> QED BY <2>4, <3>9 DEF Sound
  <2>7. CASE ~journal.on /\ ~journal.made
    <3>1. ~journal'.on /\ ~journal'.made
      BY <1>4, <1>13, <2>7
    <3>2. Rows(Length)'
      BY <1>1, <2>7 DEF Rows, Blank
    <3>3. Keeps(Length)'
      BY <3>1 DEF Keeps
    <3> QED BY <2>4, <3>2, <3>3 DEF Sound
  <2> QED BY <2>5, <2>6, <2>7
<1>20. overtaken' => Sound'
  BY DEF Sound
<1> QED BY <1>8, <1>9, <1>15, <1>16, <1>17, <1>18, <1>19, <1>20

-----------------------------------------------------------------------------
(* Initially there is nothing.                                              *)
LEMMA AudioInit == Init => AudioInv
<1> SUFFICES ASSUME Init PROVE AudioInv
  OBVIOUS
<1> USE DEF Init
<1>1. /\ job \in Jobs /\ job.kind = "none" /\ job.at = "none" /\ job.finalized
      /\ job.from = "journal" /\ job.n = 0
  BY IdleIs DEF Idle
<1>2. active \in Owners /\ live \in Lives /\ ~active.on /\ live.queue = <<>>
  BY NoOwnerIs DEF NoOwner, NoLive
<1>3. 0 \in 0..MaxFrames
  BY CaptureAssumption
<1>4. Nothing \in Interval /\ AsFile(Nothing, FALSE) \in Files
      /\ ~AsFile(Nothing, FALSE).on /\ ~Nothing.on
  BY <1>3 DEF Nothing, Interval, AsFile, Files
<1>5. index \in [Chunks -> Interval] /\ file \in [Chunks -> Files]
      /\ \A i \in Chunks : ~index[i].on /\ ~file[i].on
  BY <1>4
<1>6. run \in Runs /\ entry \in Entries /\ journal \in Journals
  BY <1>3 DEF Runs, States, Entries, Journals
<1>7. Types
  <2>1. journal.flushed <= journal.frames /\ 0 <= 0
    OBVIOUS
  <2>2. seen \in 0..MaxFrames /\ accepted \in 0..MaxFrames
    BY <1>3
  <2>3. /\ detached \in BOOLEAN /\ up \in BOOLEAN /\ overtaken \in BOOLEAN
        /\ stranded \in BOOLEAN
    OBVIOUS
  <2> HIDE DEF Init
  <2> QED BY <1>1, <1>2, <1>5, <1>6, <2>1, <2>2, <2>3 DEF Types
<1>8. Placed /\ Owned /\ Unmade
  BY <1>1, <1>2 DEF Placed, Owned, Unmade, SlotIsReclaimable, Owning, Recovering, Unfinished
<1>9. Blank /\ Live /\ Owns /\ Counting
  BY <1>1, <1>2, <1>5 DEF Blank, Live, Closing, Owns, Counting, Owning
<1>10. Sound
  <2>1. Rows(Length)
    BY <1>5 DEF Rows
  <2>2. Keeps(Length)
    BY DEF Keeps
  <2>3. Doing(Length)
    BY <1>1 DEF Doing, Writing, Late
  <2> QED BY <2>1, <2>2, <2>3 DEF Sound
<1>11. CompletedIsExact
  BY DEF CompletedIsExact
<1> QED BY <1>7, <1>8, <1>9, <1>10, <1>11 DEF AudioInv, Control

(* A handler's step either goes on or gives up. *)
LEMMA FailsInv ==
  ASSUME AudioInv, NEW k \in 0..1, GivesUp(k),
         \/ RebuildChunk \/ SealChunks \/ Finalize \/ IndexChunks \/ RecordSession \/ Complete
         \/ LoadAudio \/ CloseJournal \/ (UnlinkJournal /\ job.kind \in Recovering)
  PROVE  AudioInv'
<1>1. up /\ job.at \in {"chunk", "seal", "finalize", "index", "entry", "complete", "load",
                         "close", "unlink"}
      /\ (job.at = "unlink" => job.kind \in Recovering)
      /\ (job.at = "close" => live.queue = <<>>)
  BY DEF RebuildChunk, SealChunks, Finalize, IndexChunks, RecordSession, Complete, LoadAudio,
         CloseJournal, UnlinkJournal, At
<1>2. live.queue = <<>>
  BY <1>1 DEF AudioInv, Control, Live, Closing, Owned
<1> QED BY <1>1, <1>2, GivesUpInv

(* A step that changes nothing.                                             *)
LEMMA AudioStutters ==
  ASSUME AudioInv, UNCHANGED vars
  PROVE  AudioInv'
<1>1. UNCHANGED <<run, index, entry, journal, file, active, live, seen, detached, job, up,
                  accepted, overtaken, stranded>>
  BY DEF vars
<1>2. Control' /\ Blank' /\ Owns' /\ Counting'
  BY <1>1 DEF AudioInv, Control, Types, Placed, Owned, Unmade, SlotIsReclaimable, Blank, Owns,
              Counting
<1>3. Live'
  BY <1>1 DEF AudioInv, Live, Closing, Cut, Minutes, Contents, Held
<1>4. Doing(Length)' <=> Doing(Length)
  <2>1. Length' = Length
    BY <1>1 DEF Length
  <2> QED BY <1>1, <2>1 DEF Doing, Lasting, Whole, Wrote, Contents, Span, Indexed, AsFile, Held
<1>5. Sound'
  BY <1>1, <1>4, KeptStays DEF AudioInv, Sound
<1>6. CompletedIsExact'
  BY <1>1, CompletedStays DEF AudioInv
<1> QED BY <1>2, <1>3, <1>5, <1>6 DEF AudioInv

(* The invariant is inductive.                                              *)
LEMMA AudioStep == AudioInv /\ [Next]_vars => AudioInv'
<1> SUFFICES ASSUME AudioInv, [Next]_vars PROVE AudioInv'
  OBVIOUS
<1>1. CASE Start
  BY <1>1, StartRowInv, StoreKeyInv, OpenJournalInv, RollbackInv DEF Start
<1>2. CASE \E n \in BlockSizes : Push(n)
  BY <1>2, PushInv
<1>3. CASE \E paused \in BOOLEAN : Pause(paused)
  BY <1>3, PauseInv
<1>4. CASE Thread
  BY <1>4, FlushInv, WriteLiveInv, ProgressInv DEF Thread
<1>5. CASE PushFails \/ StopBegins \/ InterruptBegins \/ RetryDetached
  BY <1>5, PushFailsInv, StopBeginsInv, InterruptBeginsInv, RetryDetachedInv
<1>6. CASE Handler
  <2>1. CASE MarkInterrupted \/ WriteTail \/ LiveUnusable \/ TrimChunks \/ Register \/ FreeRow
    BY <2>1, MarkInterruptedInv, WriteTailInv, LiveUnusableInv, TrimChunksInv, RegisterInv,
       FreeRowInv
  <2>2. CASE RebuildChunk \/ SealChunks \/ IndexChunks \/ RecordSession \/ Complete \/ CloseJournal
    <3>1. CASE Fails
      <4>1. GivesUp(1) /\ 1 \in 0..1
        BY <3>1 DEF Fails
      <4> QED BY <2>2, <4>1, FailsInv
    <3>2. CASE ~Fails
      BY <2>2, <3>2, RebuildChunkInv, SealChunksInv, IndexChunksInv, RecordSessionInv,
         CompleteInv, CloseJournalInv
    <3> QED BY <3>1, <3>2
  <2>3. CASE Finalize \/ LoadAudio
    <3>1. CASE Fails
      <4>1. GivesUp(1) /\ 1 \in 0..1
        BY <3>1 DEF Fails
      <4> QED BY <2>3, <4>1, FailsInv
    <3>2. CASE GivesUp(0)
      <4>1. 0 \in 0..1
        OBVIOUS
      <4> QED BY <2>3, <3>2, <4>1, FailsInv
    <3>3. CASE ~Fails /\ ~GivesUp(0)
      BY <2>3, <3>3, FinalizeInv, LoadAudioInv
    <3> QED BY <3>1, <3>2, <3>3
  <2>4. CASE UnlinkJournal
    <3>1. CASE job.kind \in Recovering /\ Fails
      <4>1. GivesUp(1) /\ 1 \in 0..1
        BY <3>1 DEF Fails
      <4> QED BY <2>4, <3>1, <4>1, FailsInv
    <3>2. CASE ~(job.kind \in Recovering /\ Fails)
      BY <2>4, <3>2, UnlinkJournalInv
    <3> QED BY <3>1, <3>2
  <2> QED BY <1>6, <2>1, <2>2, <2>3, <2>4, Zenon DEF Handler
<1>7. CASE Launch \/ Crash \/ PowerLoss
  BY <1>7, LaunchInv, CrashInv, PowerLossInv
<1>8. CASE UNCHANGED vars
  BY <1>8, AudioStutters
<1> QED BY <1>1, <1>2, <1>3, <1>4, <1>5, <1>6, <1>7, <1>8, Zenon DEF Next

(* The invariant of the specification.                                      *)
LEMMA AudioInvHolds == Spec => []AudioInv
BY AudioInit, AudioStep, PTL DEF Spec

-----------------------------------------------------------------------------
(* It has the types of the module.                                          *)
LEMMA AudioTypes == AudioInv => TypeOK
<1> SUFFICES ASSUME Types PROVE TypeOK
  BY DEF AudioInv, Control
<1>1. \A i \in Chunks : Contents(i) \in Interval /\ file[i].sealed \in BOOLEAN
  <2> TAKE i \in Chunks
  <2>1. file[i] \in Files
    BY DEF Types
  <2> QED BY <2>1 DEF Files, Contents, Interval
<1>2. journal.flushed \in 0..journal.frames /\ journal.frames \in 0..MaxFrames
      /\ {journal.on, journal.torn, journal.made} \subseteq BOOLEAN
  BY CaptureAssumption DEF Types, Journals
<1>3. /\ run.state \in Unfinished \cup {"none", "interrupted", "completed", "failed", "purged"}
      /\ run.counted \in 0..MaxFrames /\ run.path \in BOOLEAN
  BY DEF Types, Runs, States
<1>4. /\ entry.status \in {"absent", "recording", "interrupted", "completed"}
      /\ entry.frames \in 0..MaxFrames
  BY DEF Types, Entries
<1>5. /\ active.state \in Unfinished /\ active.frames \in 0..MaxFrames
      /\ active.minute \in 0..Minute - 1 /\ active.next \in Chunks
  BY DEF Types, Owners
<1>6. job.kind \in {"none", "start"} \cup Owning \cup Recovering
  BY DEF Types, Jobs, Kinds
<1> QED BY <1>1, <1>2, <1>3, <1>4, <1>5, <1>6 DEF Types, TypeOK

(* The capture slot is never wedged while the process lives: the unfinished  *)
(* run has an owner, a handler or its mark in the registry (start, stop,     *)
(* interrupt and recover_registered_detached_notebook_capture), save after a *)
(* start that could not roll back.                                           *)
THEOREM SlotStaysReclaimable == Spec => []SlotIsReclaimable
<1>1. AudioInv => SlotIsReclaimable
  BY DEF AudioInv, Control, Owned
<1> QED BY <1>1, AudioInvHolds, PTL

(* Whatever crash, failing write or power loss, a completed run counts every *)
(* accepted frame, its index rows cover them and name flushed files with     *)
(* exactly their frames, and its record says the same length (stop's         *)
(* finalize_audio, the chunk index, the session record, then the state).     *)
THEOREM CompletedStaysExact == Spec => []CompletedIsExact
<1>1. AudioInv => CompletedIsExact
  BY DEF AudioInv
<1> QED BY <1>1, AudioInvHolds, PTL

(* An index row never names a chunk that is missing, shorter or of another   *)
(* minute, unless a power loss left the journal behind the index: rows are   *)
(* written from sealed chunks, and a rebuild writes them again as they are.  *)
THEOREM RowsNameTheirFiles == Spec => []IndexNamesFiles
<1>1. ASSUME AudioInv, NEW i \in Chunks, index[i].on, ~overtaken
      PROVE  Contents(i) = index[i]
  <2>1. PICK len : len = Length
    OBVIOUS
  <2>2. index[i] = Span(i, len) /\ file[i] = AsFile(index[i], TRUE)
    BY <1>1, <2>1 DEF AudioInv, Sound, Rows
  <2> QED BY <2>2, FileHolds
<1>2. AudioInv => IndexNamesFiles
  BY <1>1, AudioTypes DEF IndexNamesFiles
<1> QED BY <1>2, AudioInvHolds, PTL

(* Every accepted frame that no power loss took is in the journal or, once   *)
(* the journal is gone, in flushed chunks the index names exactly, unless a  *)
(* power loss left the journal behind the index: the journal goes last, and  *)
(* only after the chunks are sealed and indexed.                             *)
THEOREM AudioStaysKept == Spec => []AudioKeptUnlessOvertaken
<1>1. ASSUME AudioInv, ~overtaken PROVE AudioKept
  <2>1. accepted \in Nat /\ journal.frames \in Nat
    BY <1>1, CaptureAssumption DEF AudioInv, Control, Types, Journals
  <2>2. Keeps(Length)
    BY <1>1 DEF AudioInv, Sound
  <2>3. CASE journal.on
    BY <2>1, <2>2, <2>3 DEF Keeps, Length, AudioKept
  <2>4. CASE ~journal.on /\ journal.made
    BY <2>2, <2>4 DEF Keeps, AudioKept
  <2>5. CASE ~journal.made
    BY <1>1, <2>5 DEF AudioInv, Control, Unmade, AudioKept
  <2> QED BY <2>3, <2>4, <2>5
<1>2. AudioInv => AudioKeptUnlessOvertaken
  BY <1>1 DEF AudioKeptUnlessOvertaken
<1> QED BY <1>2, AudioInvHolds, PTL

-----------------------------------------------------------------------------
(* What a launch needs, too: faults are counted, and a recovery that has      *)
(* rebuilt the chunks has them from the journal there is.                     *)
Budgets == [faults : Nat, crashes : Nat, losses : Nat]

Rebuilt ==
    job.kind \in Recovering /\ job.at \in {"trim", "seal", "finalize"} =>
        job.frames = journal.frames

LaunchedInv == AudioInv /\ budget \in Budgets /\ Rebuilt

(* A step that fails is counted.                                            *)
LEMMA FaultsCount ==
  ASSUME budget \in Budgets, NEW k \in Nat, Faults(k)
  PROVE  budget' \in Budgets /\ budget'.faults = budget.faults + k
BY DEF Faults, Budgets

(* Whatever gives up counts that.                                           *)
LEMMA GivesUpCounts ==
  ASSUME budget \in Budgets, NEW k \in Nat, GivesUp(k)
  PROVE  budget' \in Budgets /\ budget'.faults >= budget.faults + k
<1>1. Faults(k) \/ Faults(k + 1)
  BY DEF GivesUp, StopGivesUp, InterruptGivesUp, OtherGivesUp
<1>2. k + 1 \in Nat /\ budget.faults \in Nat
  BY DEF Budgets
<1>3. CASE Faults(k)
  BY <1>2, <1>3, FaultsCount
<1>4. CASE Faults(k + 1)
  <2>1. budget' \in Budgets /\ budget'.faults = budget.faults + (k + 1)
    BY <1>2, <1>4, FaultsCount
  <2> QED BY <1>2, <2>1
<1> QED BY <1>1, <1>3, <1>4

(* No step counts otherwise.                                                *)
LEMMA BudgetsStay ==
  ASSUME budget \in Budgets, [Next]_vars
  PROVE  budget' \in Budgets
<1>0. 0 \in Nat /\ 1 \in Nat
  OBVIOUS
<1>1. CASE UNCHANGED budget
  BY <1>1
<1>2. CASE \E k \in Nat : Faults(k) \/ GivesUp(k)
  BY <1>2, FaultsCount, GivesUpCounts
<1>3. CASE Start
  <2>1. CASE Rollback
    <3>1. PICK failed \in BOOLEAN, purged \in BOOLEAN :
             Faults((IF failed THEN 0 ELSE 1) + (IF purged THEN 0 ELSE 1))
      BY <2>1 DEF Rollback
    <3>2. (IF failed THEN 0 ELSE 1) + (IF purged THEN 0 ELSE 1) \in Nat
      OBVIOUS
    <3> QED BY <1>2, <3>1, <3>2
  <2> QED BY <1>0, <1>1, <1>2, <1>3, <2>1 DEF Start, StartRow, StoreKey, OpenJournal
<1>4. CASE (\E n \in BlockSizes : Push(n)) \/ PushFails \/ (\E paused \in BOOLEAN : Pause(paused))
           \/ Thread
  BY <1>0, <1>1, <1>2, <1>4 DEF Push, PushFails, Pause, Thread, Flush, WriteLive, Progress
<1>5. CASE StopBegins \/ InterruptBegins \/ RetryDetached \/ Launch
  BY <1>1, <1>5 DEF StopBegins, InterruptBegins, RetryDetached, Launch, Proceeds
<1>6. CASE Handler
  BY <1>0, <1>1, <1>2, <1>6
     DEF Handler, MarkInterrupted, CloseJournal, WriteTail, LiveUnusable, RebuildChunk,
         TrimChunks, SealChunks, Finalize, IndexChunks, RecordSession, Complete, UnlinkJournal,
         Register, FreeRow, LoadAudio, Fails, Proceeds
<1>7. CASE Crash \/ PowerLoss
  <2>1. PICK n \in Nat : budget' = [budget EXCEPT !.crashes = n]
                        \/ budget' = [budget EXCEPT !.losses = n]
    <3>1. budget.crashes + 1 \in Nat /\ budget.losses + 1 \in Nat
      BY DEF Budgets
    <3>2. budget' = [budget EXCEPT !.crashes = budget.crashes + 1]
          \/ budget' = [budget EXCEPT !.losses = budget.losses + 1]
      BY <1>7 DEF Crash, PowerLoss
    <3> QED BY <3>1, <3>2
  <2> QED BY <2>1 DEF Budgets
<1>8. CASE UNCHANGED vars
  BY <1>1, <1>8 DEF vars
<1> QED BY <1>3, <1>4, <1>5, <1>6, <1>7, <1>8 DEF Next

(* A recovery does not change what the journal holds.                       *)
LEMMA RebuiltStays ==
  ASSUME AudioInv, Rebuilt, [Next]_vars
  PROVE  Rebuilt'
<1> DEFINE Far(j) == j.kind \in Recovering /\ j.at \in {"trim", "seal", "finalize"}
<1>1. /\ job \in Jobs /\ journal \in Journals /\ Placed
      /\ active.on => job.kind = "none"
      /\ ~up => job.kind = "none"
  BY DEF AudioInv, Control, Types, Owned, Placed
<1>2. CASE ~Far(job')
  BY <1>2 DEF Rebuilt
<1>3. CASE Far(job) /\ job'.frames = job.frames /\ journal'.frames = journal.frames
  BY <1>3 DEF Rebuilt
<1>4. \A kind \in Kinds, at \in Places : Job(kind, at).at = at /\ Job(kind, at).kind = kind
  BY JobIs
<1>5. Idle.kind = "none" /\ "none" \notin Recovering /\ "start" \notin Recovering
  BY DEF Idle, Recovering
<1>6. ASSUME NEW step, GoTo(step) PROVE job' = [job EXCEPT !.at = step]
  BY <1>6 DEF GoTo
<1>7. ASSUME NEW k, GivesUp(k) PROVE ~Far(job')
  <2>1. Job("recover", "row").at = "row"
    BY <1>4 DEF Kinds, Places, Recovering
  <2>2. job' = Job("recover", "row") \/ job'.kind = "none" \/ job'.at = "register"
    BY <1>1, <1>5, <1>7 DEF GivesUp, StopGivesUp, InterruptGivesUp, OtherGivesUp, Jobs
  <2> QED BY <2>1, <2>2 DEF Recovering, Late
<1>8. CASE UNCHANGED <<job, journal>>
  BY <1>2, <1>3, <1>8
<1>9. CASE Start \/ PushFails \/ StopBegins \/ InterruptBegins \/ RetryDetached \/ Launch
  <2>1. CASE StartRow \/ PushFails \/ StopBegins \/ InterruptBegins \/ RetryDetached \/ Launch
    <3>1. job' = Idle \/ \E kind \in Kinds, at \in Places \ {"trim", "seal", "finalize"} :
             job' = Job(kind, at)
      BY <2>1 DEF StartRow, PushFails, StopBegins, InterruptBegins, RetryDetached, Launch,
                  Kinds, Places, Owning, Recovering, Late
    <3> QED BY <1>2, <1>4, <1>5, <3>1
  <2>2. CASE StoreKey \/ OpenJournal \/ Rollback
    <3>1. job'.kind \in {"start", "none"}
      BY <1>1, <1>5, <2>2 DEF StoreKey, OpenJournal, Rollback, GoTo, At, Placed, Jobs, Owning,
                         Recovering, Writing, Late, Kinds
    <3> QED BY <1>2, <1>5, <3>1
  <2> QED BY <1>9, <2>1, <2>2 DEF Start
<1>10. CASE \E n \in BlockSizes : Push(n)
  BY <1>1, <1>2, <1>5, <1>10 DEF Push
<1>11. CASE (\E paused \in BOOLEAN : Pause(paused)) \/ Thread
  <2>1. UNCHANGED job /\ journal'.frames = journal.frames
    BY <1>1, <1>11 DEF Pause, Thread, Flush, WriteLive, Progress, Journals, disk
  <2> QED BY <1>2, <1>3, <2>1
<1>12. CASE \E k \in {0, 1} : GivesUp(k)
  BY <1>2, <1>7, <1>12
<1>13. CASE MarkInterrupted \/ CloseJournal \/ WriteTail \/ LiveUnusable \/ Register
            \/ Complete \/ UnlinkJournal
  <2>1. job'.kind \notin Recovering \/ job'.at \in {"chunk", "row"} \/ GivesUp(1)
    BY <1>1, <1>5, <1>13
       DEF MarkInterrupted, CloseJournal, WriteTail, LiveUnusable, Register, Complete,
           UnlinkJournal, GoTo, At, Placed, Jobs, Recovering, Fails, Writing, Late
  <2> QED BY <1>2, <1>12, <2>1 DEF Late
<1>14. CASE TrimChunks \/ SealChunks \/ Finalize \/ IndexChunks \/ RecordSession
  <2>1. CASE \E k \in {0, 1} : GivesUp(k)
    BY <1>12, <2>1
  <2>2. CASE ~\E k \in {0, 1} : GivesUp(k)
    <3>1. /\ job'.frames = job.frames /\ job'.kind = job.kind /\ journal' = journal
          /\ job'.at \in {"trim", "seal", "finalize"} => job.at \in {"trim", "seal"}
      BY <1>1, <1>14, <2>2
         DEF TrimChunks, SealChunks, Finalize, IndexChunks, RecordSession, GoTo, At, Jobs, Late,
             Fails, disk
    <3> QED BY <1>2, <1>3, <3>1
  <2> QED BY <2>1, <2>2
<1>15. CASE RebuildChunk
  <2>1. CASE GivesUp(1)
    BY <1>12, <2>1
  <2>2. CASE ~GivesUp(1)
    <3>1. job'.kind = job.kind /\ journal' = journal
          /\ (job.kind \in Recovering => job'.frames = journal.frames)
      BY <1>1, <1>15, <2>2 DEF RebuildChunk, Fails, Jobs
    <3> QED BY <3>1 DEF Rebuilt
  <2> QED BY <2>1, <2>2
<1>16. CASE FreeRow \/ LoadAudio
  <2>1. job'.kind \notin Recovering \/ job'.at \in {"load", "chunk", "index"}
        \/ \E k \in {0, 1} : GivesUp(k)
    BY <1>1, <1>5, <1>16 DEF FreeRow, LoadAudio, Jobs, Recovering, Fails
  <2> QED BY <1>2, <1>12, <2>1 DEF Late
<1>17. CASE Crash \/ PowerLoss
  BY <1>2, <1>5, <1>17 DEF Crash, PowerLoss, Dies
<1>18. CASE UNCHANGED vars
  BY <1>8, <1>18 DEF vars
<1>19. CASE Handler
  BY <1>13, <1>14, <1>15, <1>16, <1>19, Zenon DEF Handler
<1> QED BY <1>9, <1>10, <1>11, <1>17, <1>18, <1>19, Zenon DEF Next

(* The invariant with it.                                                   *)
LEMMA LaunchInvHolds == Spec => []LaunchedInv
<1>1. Init => LaunchedInv
  <2>1. Init => budget \in Budgets /\ job.kind = "none"
    BY DEF Init, Budgets, Idle
  <2> QED BY <2>1, AudioInit DEF LaunchedInv, Rebuilt, Recovering
<1>2. LaunchedInv /\ [Next]_vars => LaunchedInv'
  BY AudioStep, BudgetsStay, RebuiltStays DEF LaunchedInv
<1> QED BY <1>1, <1>2, PTL DEF Spec

(* A launch whose journal holds no less than the row counts and that meets   *)
(* no failing write ends with the recording's index, or with its journal     *)
(* gone (recover_interrupted_capture_audio_run, finalize_interrupted_audio). *)
THEOREM LaunchIndexesIt == Spec => LaunchIndexesUnlessBehind
<1>1. ASSUME LaunchedInv, [Next]_vars,
             job.kind = "launch", up', job'.kind = "none", budget'.faults = budget.faults,
             journal.frames >= run.counted, run'.state = "interrupted", journal'.on
      PROVE  FALSE
  <2>1. /\ job \in Jobs /\ journal \in Journals /\ Placed /\ up /\ budget \in Budgets
        /\ ~active.on /\ run.state = "interrupted" /\ job.kind \in Recovering
        /\ job.at \notin {"none", "key", "journal", "rollback", "mark", "close", "tail",
                          "complete", "register", "row"}
        /\ budget.faults \in Nat
    BY <1>1 DEF LaunchedInv, AudioInv, Control, Types, Owned, Placed, Recovering, Budgets, Late
  <2>2. ~GivesUp(1)
    <3>1. 1 \in Nat /\ (GivesUp(1) => budget'.faults >= budget.faults + 1)
      BY <2>1, GivesUpCounts
    <3> QED BY <1>1, <2>1, <3>1
  <2>3. ~Start /\ ~Thread /\ ~Launch /\ ~Crash /\ ~PowerLoss /\ ~StopBegins
        /\ ~InterruptBegins /\ ~RetryDetached /\ ~PushFails /\ ~UNCHANGED vars
        /\ (\A n \in BlockSizes : ~Push(n)) /\ (\A paused \in BOOLEAN : ~Pause(paused))
    BY <1>1, <2>1
       DEF Start, StartRow, StoreKey, OpenJournal, Rollback, At, Thread, Flush, WriteLive,
           Progress, Launch, Crash, PowerLoss, Dies, StopBegins, InterruptBegins, RetryDetached,
           PushFails, Push, Pause, vars
  <2>4. Handler
    BY <1>1, <2>3, Zenon DEF Next
  <2>5. ~MarkInterrupted /\ ~CloseJournal /\ ~WriteTail /\ ~Register /\ ~FreeRow /\ ~Complete
    BY <2>1 DEF MarkInterrupted, CloseJournal, WriteTail, Register, FreeRow, Complete, At
  <2>6. ~LiveUnusable /\ ~RebuildChunk /\ ~TrimChunks /\ ~SealChunks /\ ~IndexChunks
        /\ ~RecordSession
    BY <1>1, <2>1, <2>2
       DEF LiveUnusable, RebuildChunk, TrimChunks, SealChunks, IndexChunks, RecordSession, GoTo,
           Jobs, Fails
  <2>7. ~UnlinkJournal
    <3>1. UnlinkJournal => ~journal'.on
      BY <2>1, <2>2 DEF UnlinkJournal, Fails, Owning, Recovering, Journals
    <3> QED BY <1>1, <3>1
  <2>8. ~LoadAudio
    <3>1. LoadAudio => journal' = journal
      BY DEF LoadAudio, GivesUp, Fails, disk
    <3>2. LoadAudio /\ journal.on => job'.kind = "launch"
      BY <1>1, <2>1, <2>2 DEF LoadAudio, Fails, Jobs
    <3> QED BY <1>1, <3>1, <3>2
  <2>9. ~Finalize
    <3>1. Finalize => ~MayFinalize(job.frames) /\ job.at = "finalize"
      BY <1>1, <2>1, <2>2 DEF Finalize, Fails, Jobs, At
    <3>2. job.at = "finalize" => job.frames = journal.frames
      BY <1>1, <2>1 DEF LaunchedInv, Rebuilt
    <3> QED BY <1>1, <2>1, <3>1, <3>2 DEF MayFinalize
  <2> QED BY <2>4, <2>5, <2>6, <2>7, <2>8, <2>9, Zenon DEF Handler
<1>2. LaunchedInv /\ [Next]_vars =>
        (job.kind = "launch" /\ up' /\ job'.kind = "none"
           /\ budget'.faults = budget.faults /\ journal.frames >= run.counted
         => ~(run'.state = "interrupted" /\ journal'.on))
  BY <1>1
<1> QED BY <1>2, LaunchInvHolds, PTL DEF Spec, LaunchIndexesUnlessBehind

=============================================================================
