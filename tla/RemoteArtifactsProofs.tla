------------------------ MODULE RemoteArtifactsProofs ------------------------
(* What the journal promises and what a success leaves, for any tasks, any  *)
(* number of attempts and crashes, and any set of failures.                 *)
EXTENDS RemoteArtifacts, TLAPS

(* An attempt is under way. *)
Working == c.pc \notin {"start", "sweep", "idle"}

(* The attempt has its claim and has not closed it. *)
Claimed == Working /\ c.pc \notin {"open", "return"}

(* An attempt works on one task and under that task's latest number, and     *)
(* holds an id from the step that was answered with it.                      *)
AttemptShape ==
    /\ Working => c.n \in Attempts /\ \E t \in Tasks : Current(t) /\ c.n = made[t]
    /\ c.pc \in {"file", "create", "transcription", "poll"} => c.file
    /\ c.pc \in {"transcription", "poll"} => c.transcription
    /\ c.tokens => /\ c.file /\ c.transcription
                   /\ c.pc \in {"delete_transcription", "delete_file", "close", "return"}

(* What a clean attempt has deleted is gone.  An attempt that had an answer   *)
(* to every request knows of everything it made.                             *)
DeletedIsGone ==
    \A t \in Tasks : Working /\ Current(t) =>
        /\ c.tokens /\ c.clean /\ c.pc \in {"delete_file", "close", "return"}
             => c.n \notin transcriptions[t]
        /\ c.tokens /\ c.clean /\ c.pc \in {"close", "return"} => c.n \notin files[t]
        /\ t \notin blurred => /\ ~c.file => c.n \notin files[t]
                               /\ ~c.transcription => c.n \notin transcriptions[t]
                               /\ c.clean /\ c.pc \in {"delete_file", "close"}
                                    => c.n \notin transcriptions[t]
                               /\ c.clean /\ c.pc = "close" => c.n \notin files[t]

(* A sweep whose requests work has yet to visit every claim it inherited, and *)
(* has the inventory if one of them lacks an id.                              *)
SweepCovers ==
    /\ c.pc = "start" => inherited \subseteq OpenClaims
    /\ "sweep" \notin mishaps =>
        /\ c.pc = "sweep" => /\ inherited \subseteq c.t
                             /\ OpenClaims \subseteq c.t
                             /\ c.inventory \/ \A t \in c.t : ~MissesId(t)
        /\ c.pc \notin {"start", "sweep"} => inherited = {}

(* All that is at the provider for the task, and all its row names, is of     *)
(* one attempt.                                                               *)
SpeaksOf(t, n) ==
    /\ files[t] \subseteq {n} /\ transcriptions[t] \subseteq {n}
    /\ claim[t].open => claim[t].file \in {0, n} /\ claim[t].transcription \in {0, n}

(* A row that no second attempt has reused speaks of one attempt, which is    *)
(* the current one once that has opened it.                                   *)
Latest(t) ==
    /\ files[t] # {} \/ transcriptions[t] # {} => claim[t].open
    /\ \E n \in 0..made[t] : SpeaksOf(t, n)
    /\ Claimed /\ Current(t) => claim[t].open /\ SpeaksOf(t, made[t])

LatestOnly == \A t \in Tasks \ blurred : Latest(t)

IInv == TypeOK /\ AttemptShape /\ DeletedIsGone /\ SweepCovers /\ LatestOnly

-----------------------------------------------------------------------------
(* The updates an attempt or a sweep is put through leave it well formed.    *)
LEMMA ClientUpdates ==
  ASSUME c \in Client, NEW pc \in ClientPc
  PROVE  /\ AtRest(pc) \in Client
         /\ Goto(pc) => c' \in Client
         /\ c' = [c EXCEPT !.pc = pc, !.file = TRUE] => c' \in Client
         /\ c' = [c EXCEPT !.pc = pc, !.transcription = TRUE] => c' \in Client
         /\ c' = [c EXCEPT !.pc = pc, !.tokens = TRUE] => c' \in Client
         /\ c' = [c EXCEPT !.pc = pc, !.clean = FALSE] => c' \in Client
<1>1. AtRest(pc) \in Client
  BY ArtifactAssumption DEF AtRest, Client
<1>2. [c EXCEPT !.pc = pc] \in Client
  BY DEF Client
<1>3. /\ [c EXCEPT !.pc = pc, !.file = TRUE] \in Client
      /\ [c EXCEPT !.pc = pc, !.transcription = TRUE] \in Client
      /\ [c EXCEPT !.pc = pc, !.tokens = TRUE] \in Client
      /\ [c EXCEPT !.pc = pc, !.clean = FALSE] \in Client
  BY DEF Client
<1> QED BY <1>1, <1>2, <1>3 DEF Goto

(* The attempt keeps its shape, whatever step it takes. *)
LEMMA ClientTyped ==
  ASSUME TypeOK, [Next]_vars
  PROVE  c' \in Client
<1>0. c \in Client
  BY DEF TypeOK
<1>1. CASE BeginSweep
  <2>1. PICK inventory \in BOOLEAN :
          c' = [AtRest("sweep") EXCEPT !.t = OpenClaims, !.inventory = inventory]
    BY <1>1 DEF BeginSweep
  <2>2. OpenClaims \in SUBSET Tasks
    BY DEF OpenClaims
  <2>3. AtRest("sweep") \in Client
    BY <1>0, ClientUpdates DEF ClientPc
  <2> QED BY <2>1, <2>2, <2>3 DEF Client
<1>2. CASE EndSweep \/ Crash
  <2>1. \E pc \in ClientPc : c' = AtRest(pc)
    BY <1>2 DEF EndSweep, Crash, ClientPc
  <2> QED BY <1>0, <2>1, ClientUpdates
<1>3. ASSUME NEW t \in Tasks, SweepClaim(t) PROVE c' \in Client
  <2>1. c' = [c EXCEPT !.t = @ \ {t}]
    BY <1>3 DEF SweepClaim
  <2> QED BY <1>0, <2>1 DEF Client
<1>4. ASSUME NEW t \in Tasks, Dispatch(t) PROVE c' \in Client
  <2>1. c' = [AtRest("open") EXCEPT !.t = {t}, !.n = made[t] + 1]
    BY <1>4 DEF Dispatch
  <2>2. made[t] + 1 \in 0..MaxAttempts
    BY <1>4, ArtifactAssumption DEF Dispatch, TypeOK
  <2> QED BY <2>1, <2>2 DEF AtRest, Client, ClientPc
<1>5. CASE FetchTokens
  BY <1>0, <1>5, ClientUpdates DEF FetchTokens, ClientPc
<1>6. ASSUME NEW t \in Tasks,
             \/ OpenClaim(t) \/ RecordFile(t) \/ RecordTranscription(t) \/ DropFlow(t)
             \/ CloseClaim(t)
      PROVE c' \in Client
  <2>1. \E pc \in ClientPc : Goto(pc)
    BY <1>6 DEF OpenClaim, RecordFile, RecordTranscription, DropFlow, CloseClaim, ClientPc
  <2> QED BY <1>0, <2>1, ClientUpdates
<1>7. ASSUME NEW t \in Tasks, UploadFile(t) \/ CreateTranscription(t) \/ Return(t)
      PROVE c' \in Client
  BY <1>0, <1>7, ClientUpdates DEF UploadFile, CreateTranscription, Return, ClientPc
<1>8. ASSUME NEW t \in Tasks, DeleteTranscription(t) \/ DeleteFile(t) PROVE c' \in Client
  <2>1. \E pc \in ClientPc : Goto(pc) \/ c' = [c EXCEPT !.pc = pc, !.clean = FALSE]
    BY <1>8 DEF DeleteTranscription, DeleteFile, ClientPc
  <2> QED BY <1>0, <2>1, ClientUpdates
<1>9. CASE UNCHANGED vars
  BY <1>0, <1>9 DEF vars
<1> QED
  BY <1>1, <1>2, <1>3, <1>4, <1>5, <1>6, <1>7, <1>8, <1>9 DEF Next, AttemptStep

(* The provider's objects are named by attempts. *)
LEMMA RemoteTyped ==
  ASSUME TypeOK, AttemptShape, [Next]_vars
  PROVE  /\ files' \in [Tasks -> SUBSET Attempts]
         /\ transcriptions' \in [Tasks -> SUBSET Attempts]
<1> DEFINE Typed == /\ files' \in [Tasks -> SUBSET Attempts]
                    /\ transcriptions' \in [Tasks -> SUBSET Attempts]
<1> SUFFICES Typed
  OBVIOUS
<1> USE DEF TypeOK
<1>0. c.pc \in {"upload", "create"} => c.n \in Attempts
  BY DEF AttemptShape, Working
<1>1. ASSUME UNCHANGED <<files, transcriptions>> PROVE Typed
  BY <1>1
<1>2. ASSUME NEW t \in Tasks, SweepClaim(t) PROVE Typed
  BY <1>2 DEF SweepClaim
<1>3. ASSUME NEW t \in Tasks, UploadFile(t) \/ CreateTranscription(t) \/ DropFlow(t)
      PROVE Typed
  BY <1>0, <1>1, <1>3 DEF UploadFile, CreateTranscription, DropFlow
<1>4. ASSUME NEW t \in Tasks, DeleteTranscription(t) \/ DeleteFile(t) PROVE Typed
  BY <1>4 DEF DeleteTranscription, DeleteFile
<1>5. CASE Crash
  BY <1>0, <1>1, <1>5 DEF Crash
<1>6. ASSUME NEW t \in Tasks,
             \/ Dispatch(t) \/ OpenClaim(t) \/ RecordFile(t) \/ RecordTranscription(t)
             \/ CloseClaim(t) \/ Return(t)
      PROVE Typed
  BY <1>1, <1>6 DEF Dispatch, OpenClaim, RecordFile, RecordTranscription, CloseClaim, Return
<1>7. CASE BeginSweep \/ EndSweep \/ FetchTokens \/ UNCHANGED vars
  BY <1>1, <1>7 DEF BeginSweep, EndSweep, FetchTokens, vars
<1> QED BY <1>2, <1>3, <1>4, <1>5, <1>6, <1>7 DEF Next, AttemptStep

(* An id is only ever written into a whole row. *)
LEMMA ClaimTyped ==
  ASSUME TypeOK, [Next]_vars
  PROVE  claim' \in [Tasks -> Claim]
<1>0. c.n \in 0..MaxAttempts /\ claim \in [Tasks -> Claim]
  BY DEF TypeOK, Client
<1>1. ASSUME UNCHANGED claim PROVE claim' \in [Tasks -> Claim]
  BY <1>0, <1>1
<1>2. NoClaim \in Claim /\ [NoClaim EXCEPT !.open = TRUE] \in Claim
  <2>1. NoClaim \in Claim
    BY ArtifactAssumption DEF NoClaim, Claim
  <2> QED BY <2>1 DEF Claim
<1>3. ASSUME NEW t \in Tasks, SweepClaim(t) \/ OpenClaim(t) \/ CloseClaim(t)
      PROVE claim' \in [Tasks -> Claim]
  <2>1. \/ UNCHANGED claim
        \/ \E row \in Claim : claim' = [claim EXCEPT ![t] = row]
    BY <1>0, <1>2, <1>3 DEF SweepClaim, OpenClaim, CloseClaim
  <2> QED BY <1>0, <2>1
<1>4. ASSUME NEW t \in Tasks, RecordFile(t) \/ RecordTranscription(t)
      PROVE claim' \in [Tasks -> Claim]
  <2>1. /\ [claim[t] EXCEPT !.file = c.n] \in Claim
        /\ [claim[t] EXCEPT !.transcription = c.n] \in Claim
    BY <1>0 DEF Claim
  <2>2. \/ UNCHANGED claim
        \/ claim' = [claim EXCEPT ![t] = [claim[t] EXCEPT !.file = c.n]]
        \/ claim' = [claim EXCEPT ![t] = [claim[t] EXCEPT !.transcription = c.n]]
    BY <1>4 DEF RecordFile, RecordTranscription
  <2> QED BY <1>0, <2>1, <2>2
<1>5. ASSUME NEW t \in Tasks,
             \/ Dispatch(t) \/ UploadFile(t) \/ CreateTranscription(t) \/ DropFlow(t)
             \/ DeleteTranscription(t) \/ DeleteFile(t) \/ Return(t)
      PROVE claim' \in [Tasks -> Claim]
  BY <1>1, <1>5 DEF Dispatch, UploadFile, CreateTranscription, DropFlow,
     DeleteTranscription, DeleteFile, Return
<1>6. CASE BeginSweep \/ EndSweep \/ FetchTokens \/ Crash \/ UNCHANGED vars
  BY <1>1, <1>6 DEF BeginSweep, EndSweep, FetchTokens, Crash, vars
<1> QED BY <1>3, <1>4, <1>5, <1>6 DEF Next, AttemptStep

(* The attempt keeps its shape. *)
LEMMA ShapeStep ==
  ASSUME TypeOK, AttemptShape, [Next]_vars
  PROVE  AttemptShape'
<1> USE DEF AttemptShape, Working, Current
<1>0. c \in Client /\ made \in [Tasks -> 0..MaxAttempts]
  BY DEF TypeOK
<1>1. CASE BeginSweep \/ EndSweep \/ Crash
  <2>1. /\ AtRest("sweep") \in Client /\ ~AtRest("sweep").tokens
        /\ AtRest("sweep").pc = "sweep"
    BY <1>0, ClientUpdates DEF ClientPc, AtRest
  <2>2. c'.pc \in {"start", "sweep", "idle"} /\ ~c'.tokens
    <3>1. CASE BeginSweep
      BY <2>1, <3>1 DEF BeginSweep, Client
    <3> QED BY <1>1, <3>1 DEF EndSweep, Crash, AtRest
  <2> QED BY <2>2
<1>2. ASSUME NEW t \in Tasks, SweepClaim(t) PROVE AttemptShape'
  BY <1>0, <1>2 DEF SweepClaim, Client
<1>3. ASSUME NEW t \in Tasks, Dispatch(t) PROVE AttemptShape'
  <2>1. /\ c'.pc = "open" /\ c'.t = {t} /\ c'.n = made[t] + 1 /\ ~c'.tokens
        /\ made' = [made EXCEPT ![t] = @ + 1] /\ made[t] < MaxAttempts
    BY <1>3 DEF Dispatch, AtRest
  <2>2. made'[t] = made[t] + 1 /\ made[t] + 1 \in Attempts
    BY <1>0, <2>1, ArtifactAssumption DEF Attempts
  <2> QED BY <2>1, <2>2
<1>4. ASSUME NEW t \in Tasks,
             \/ OpenClaim(t) \/ UploadFile(t) \/ RecordFile(t) \/ CreateTranscription(t)
             \/ RecordTranscription(t)
      PROVE AttemptShape'
  BY <1>0, <1>4 DEF Client, Goto, OpenClaim, UploadFile, RecordFile, CreateTranscription,
     RecordTranscription
<1>5. CASE FetchTokens
  BY <1>0, <1>5 DEF Client, FetchTokens
<1>6. ASSUME NEW t \in Tasks,
             \/ DropFlow(t) \/ DeleteTranscription(t) \/ DeleteFile(t) \/ CloseClaim(t)
             \/ Return(t)
      PROVE AttemptShape'
  <2>1. CASE Return(t)
    BY <2>1 DEF Return, AtRest
  <2>2. CASE DropFlow(t) \/ CloseClaim(t)
    BY <1>0, <2>2 DEF Client, Goto, DropFlow, CloseClaim
  <2>3. CASE DeleteTranscription(t) \/ DeleteFile(t)
    BY <1>0, <2>3 DEF Client, Goto, DeleteTranscription, DeleteFile
  <2> QED BY <1>6, <2>1, <2>2, <2>3
<1>7. CASE UNCHANGED vars
  BY <1>7 DEF vars
<1> QED BY <1>1, <1>2, <1>3, <1>4, <1>5, <1>6, <1>7 DEF Next, AttemptStep

(* The queue's flag, the numbers and the histories keep their types. *)
LEMMA RestTyped ==
  ASSUME TypeOK, [Next]_vars
  PROVE  /\ queued' \in [Tasks -> BOOLEAN] /\ made' \in [Tasks -> 0..MaxAttempts]
         /\ inherited' \subseteq Tasks
         /\ crashes' \in 0..MaxCrashes /\ mishaps' \subseteq Failures /\ blurred' \subseteq Tasks
<1> DEFINE Typed == /\ queued' \in [Tasks -> BOOLEAN] /\ made' \in [Tasks -> 0..MaxAttempts]
                    /\ inherited' \subseteq Tasks
                    /\ crashes' \in 0..MaxCrashes /\ mishaps' \subseteq Failures
                    /\ blurred' \subseteq Tasks
<1> SUFFICES Typed
  OBVIOUS
<1> USE DEF TypeOK
<1>1. CASE BeginSweep \/ EndSweep \/ FetchTokens \/ UNCHANGED vars
  BY <1>1 DEF BeginSweep, EndSweep, FetchTokens, vars, Mishap
<1>2. CASE Crash
  BY <1>2, ArtifactAssumption DEF Crash, OpenClaims
<1>3. ASSUME NEW t \in Tasks, Dispatch(t) PROVE Typed
  BY <1>3, ArtifactAssumption DEF Dispatch
<1>4. ASSUME NEW t \in Tasks, SweepClaim(t) \/ CloseClaim(t) PROVE Typed
  BY <1>4 DEF SweepClaim, CloseClaim, Mishap
<1>5. ASSUME NEW t \in Tasks, Return(t) PROVE Typed
  BY <1>5 DEF Return, Mishap
<1>6. ASSUME NEW t \in Tasks,
             \/ OpenClaim(t) \/ UploadFile(t) \/ RecordFile(t) \/ CreateTranscription(t)
             \/ RecordTranscription(t) \/ DropFlow(t) \/ DeleteTranscription(t) \/ DeleteFile(t)
      PROVE Typed
  BY <1>6 DEF OpenClaim, UploadFile, RecordFile, CreateTranscription, RecordTranscription,
     DropFlow, DeleteTranscription, DeleteFile, Mishap
<1> QED BY <1>1, <1>2, <1>3, <1>4, <1>5, <1>6 DEF Next, AttemptStep

(* Every step of the sweep, the attempt and the process keeps the rows, the  *)
(* remote objects and the attempt well formed.                               *)
THEOREM TypeCorrect == Spec => []TypeOK
<1>1. Init => TypeOK /\ AttemptShape
  BY ArtifactAssumption DEF Init, TypeOK, AttemptShape, Working, Attempts, Claim, NoClaim,
     Client, ClientPc, AtRest
<1>2. TypeOK /\ AttemptShape /\ [Next]_vars => TypeOK' /\ AttemptShape'
  BY ShapeStep, ClientTyped, RemoteTyped, ClaimTyped, RestTyped DEF TypeOK
<1> QED BY <1>1, <1>2, PTL DEF Spec

(* Where a step may leave the sweep and the claims it has yet to visit. *)
LEMMA SweepStep ==
  ASSUME TypeOK, AttemptShape, SweepCovers, [Next]_vars
  PROVE  SweepCovers'
<1> USE DEF SweepCovers, OpenClaims, MissesId, Mishap
<1>0. c \in Client /\ claim \in [Tasks -> Claim] /\ inherited \subseteq Tasks
  BY DEF TypeOK
<1>1. CASE BeginSweep
  <2>1. AtRest("sweep") \in Client
    BY <1>0, ClientUpdates DEF ClientPc
  <2>2. PICK inventory \in BOOLEAN :
          /\ c' = [AtRest("sweep") EXCEPT !.t = OpenClaims, !.inventory = inventory]
          /\ IF inventory = \E t \in OpenClaims : MissesId(t)
             THEN UNCHANGED mishaps
             ELSE ~inventory /\ Mishap("sweep")
    BY <1>1 DEF BeginSweep
  <2>3. c'.pc = "sweep" /\ c'.t = OpenClaims /\ c'.inventory = inventory
    <3>1. AtRest("sweep").pc = "sweep"
      BY DEF AtRest
    <3> QED BY <2>1, <2>2, <3>1 DEF Client
  <2>4. c.pc = "start" /\ UNCHANGED <<claim, inherited>>
    BY <1>1 DEF BeginSweep
  <2> QED BY <2>2, <2>3, <2>4
<1>2. CASE Crash
  BY <1>2 DEF Crash, AtRest
<1>3. CASE EndSweep
  BY <1>3 DEF EndSweep, AtRest
<1>4. ASSUME NEW t \in Tasks, SweepClaim(t) PROVE SweepCovers'
  <2>1. /\ c'.pc = "sweep" /\ c'.t = c.t \ {t} /\ c'.inventory = c.inventory
        /\ c.pc = "sweep" /\ t \in c.t
    BY <1>0, <1>4 DEF SweepClaim, Client
  <2>2. \A u \in Tasks \ {t} : claim'[u] = claim[u]
    BY <1>0, <1>4 DEF SweepClaim
  <2>3. \/ inherited' = inherited \ {t} /\ ~claim'[t].open /\ mishaps' = mishaps
        \/ "sweep" \in mishaps'
        \/ ~c.inventory /\ MissesId(t) /\ mishaps' = mishaps
    BY <1>0, <1>4 DEF SweepClaim, NoClaim
  <2> QED BY <1>0, <2>1, <2>2, <2>3 DEF Client
<1>5. ASSUME NEW t \in Tasks, Dispatch(t) PROVE SweepCovers'
  BY <1>5 DEF Dispatch, AtRest
<1>6. ASSUME NEW t \in Tasks, Return(t) PROVE SweepCovers'
  BY <1>6 DEF Return, AtRest
<1>7. ASSUME \/ FetchTokens
             \/ \E t \in Tasks :
                  \/ OpenClaim(t) \/ UploadFile(t) \/ RecordFile(t) \/ CreateTranscription(t)
                  \/ RecordTranscription(t) \/ DropFlow(t) \/ DeleteTranscription(t)
                  \/ DeleteFile(t) \/ CloseClaim(t)
      PROVE SweepCovers'
  <2>1. /\ c.pc \notin {"start", "sweep"} /\ c'.pc \notin {"start", "sweep"}
        /\ mishaps \subseteq mishaps' /\ inherited' \subseteq inherited
    BY <1>0, <1>7 DEF Client, Goto, FetchTokens, OpenClaim, UploadFile, RecordFile,
       CreateTranscription, RecordTranscription, DropFlow, DeleteTranscription, DeleteFile,
       CloseClaim
  <2> QED BY <2>1
<1>8. CASE UNCHANGED vars
  BY <1>8 DEF vars
<1> QED BY <1>1, <1>2, <1>3, <1>4, <1>5, <1>6, <1>7, <1>8 DEF Next, AttemptStep

(* No step brings back what a clean attempt has deleted, nor makes an object *)
(* the attempt does not know of.                                             *)
LEMMA GoneStep ==
  ASSUME TypeOK, AttemptShape, DeletedIsGone, LatestOnly, [Next]_vars
  PROVE  DeletedIsGone'
<1> USE DEF DeletedIsGone, Working, Current
<1>0. /\ c \in Client
      /\ files \in [Tasks -> SUBSET Attempts]
      /\ transcriptions \in [Tasks -> SUBSET Attempts]
  BY DEF TypeOK
<1>1. CASE BeginSweep \/ EndSweep \/ Crash
  <2>1. AtRest("sweep") \in Client /\ AtRest("sweep").pc = "sweep"
    BY <1>0, ClientUpdates DEF ClientPc, AtRest
  <2>2. c'.pc \in {"start", "sweep", "idle"}
    <3>1. CASE BeginSweep
      BY <2>1, <3>1 DEF BeginSweep, Client
    <3> QED BY <1>1, <3>1 DEF EndSweep, Crash, AtRest
  <2> QED BY <2>2
<1>2. ASSUME NEW t \in Tasks, SweepClaim(t) \/ Return(t) PROVE DeletedIsGone'
  <2>1. c'.pc \in {"sweep", "idle"}
    BY <1>0, <1>2 DEF SweepClaim, Return, AtRest, Client
  <2> QED BY <2>1
<1>3. ASSUME NEW t \in Tasks, Dispatch(t) PROVE DeletedIsGone'
  <2>1. /\ c'.pc = "open" /\ c'.t = {t} /\ c'.n = made[t] + 1 /\ ~c'.tokens
        /\ UNCHANGED <<files, transcriptions, blurred>>
    BY <1>3 DEF Dispatch, AtRest
  <2>2. t \notin blurred => made[t] + 1 \notin files[t] /\ made[t] + 1 \notin transcriptions[t]
    <3>1. made[t] \in Nat /\ \A n \in 0..made[t] : n # made[t] + 1
      BY DEF TypeOK
    <3> QED BY <3>1 DEF LatestOnly, Latest, SpeaksOf
  <2> QED BY <2>1, <2>2
<1>4. ASSUME NEW t \in Tasks,
             \/ OpenClaim(t) \/ RecordFile(t) \/ RecordTranscription(t) \/ CloseClaim(t)
      PROVE DeletedIsGone'
  <2>1. /\ c' = [c EXCEPT !.pc = c'.pc] /\ c.t = {t}
        /\ c'.pc \in {"upload", "create", "poll", "return"}
        /\ c.pc = "close" \/ c.pc \in {"open", "file", "transcription"}
        /\ c'.pc = "return" /\ c'.tokens => c.pc = "close"
        /\ UNCHANGED <<files, transcriptions>> /\ blurred \subseteq blurred'
    BY <1>0, <1>4 DEF Client, Goto, OpenClaim, RecordFile, RecordTranscription, CloseClaim,
       AttemptShape
  <2> QED BY <1>0, <2>1 DEF Client
<1>5. ASSUME NEW t \in Tasks, UploadFile(t) \/ CreateTranscription(t) PROVE DeletedIsGone'
  <2>1. CASE UploadFile(t)
    BY <1>0, <2>1 DEF Client, UploadFile, AttemptShape
  <2>2. CASE CreateTranscription(t)
    BY <1>0, <2>2 DEF Client, CreateTranscription, AttemptShape
  <2> QED BY <1>5, <2>1, <2>2
<1>6. CASE FetchTokens
  BY <1>0, <1>6 DEF Client, FetchTokens
<1>7. ASSUME NEW t \in Tasks, DropFlow(t) PROVE DeletedIsGone'
  <2>1. /\ c' = [c EXCEPT !.pc = "delete_transcription"] /\ c.t = {t} /\ ~c.tokens
        /\ UNCHANGED <<files, transcriptions, blurred>> \/ t \in blurred'
    BY <1>7 DEF Goto, DropFlow, AttemptShape
  <2>2. /\ c'.t = c.t /\ c'.n = c.n /\ c'.pc = "delete_transcription" /\ ~c'.tokens
        /\ c'.file = c.file /\ c'.transcription = c.transcription
    BY <1>0, <2>1 DEF Client
  <2>3. c.pc \in {"upload", "create", "poll"}
    BY <1>7 DEF DropFlow
  <2>4. CASE UNCHANGED <<files, transcriptions, blurred>>
    BY <2>1, <2>2, <2>3, <2>4
  <2>5. CASE t \in blurred'
    BY <2>1, <2>2, <2>5
  <2> QED BY <2>1, <2>4, <2>5
<1>8. ASSUME NEW t \in Tasks, DeleteTranscription(t) PROVE DeletedIsGone'
  <2>1. /\ c.pc = "delete_transcription" /\ c'.pc = "delete_file" /\ c.t = {t}
        /\ UNCHANGED <<files, blurred>>
        /\ c'.t = c.t /\ c'.n = c.n /\ c'.tokens = c.tokens
        /\ c'.file = c.file /\ c'.transcription = c.transcription
    BY <1>0, <1>8 DEF Client, Goto, DeleteTranscription
  <2>2. transcriptions'[t] \subseteq transcriptions[t]
    BY <1>0, <1>8 DEF DeleteTranscription
  <2>3. c'.clean => ~c.transcription \/ c.n \notin transcriptions'[t]
    <3>1. \/ ~c.transcription
          \/ transcriptions' = [transcriptions EXCEPT ![t] = @ \ {c.n}]
          \/ c' = [c EXCEPT !.pc = "delete_file", !.clean = FALSE]
      BY <1>8 DEF DeleteTranscription
    <3>2. CASE transcriptions' = [transcriptions EXCEPT ![t] = @ \ {c.n}]
      BY <1>0, <3>2
    <3>3. CASE c' = [c EXCEPT !.pc = "delete_file", !.clean = FALSE]
      BY <1>0, <3>3 DEF Client
    <3> QED BY <3>1, <3>2, <3>3
  <2>4. c.tokens => c.transcription
    BY DEF AttemptShape
  <2> QED BY <2>1, <2>2, <2>3, <2>4
<1>9. ASSUME NEW t \in Tasks, DeleteFile(t) PROVE DeletedIsGone'
  <2>1. /\ c.pc = "delete_file" /\ c'.pc = "close" /\ c.t = {t}
        /\ UNCHANGED <<transcriptions, blurred>>
        /\ c'.t = c.t /\ c'.n = c.n /\ c'.tokens = c.tokens /\ (c'.clean => c.clean)
        /\ c'.file = c.file /\ c'.transcription = c.transcription
    BY <1>0, <1>9 DEF Client, Goto, DeleteFile
  <2>2. files'[t] \subseteq files[t]
    BY <1>0, <1>9 DEF DeleteFile
  <2>3. c'.clean => ~c.file \/ c.n \notin files'[t]
    <3>1. \/ ~c.file
          \/ files' = [files EXCEPT ![t] = @ \ {c.n}]
          \/ c' = [c EXCEPT !.pc = "close", !.clean = FALSE]
      BY <1>9 DEF DeleteFile
    <3>2. CASE files' = [files EXCEPT ![t] = @ \ {c.n}]
      BY <1>0, <3>2
    <3>3. CASE c' = [c EXCEPT !.pc = "close", !.clean = FALSE]
      BY <1>0, <3>3 DEF Client
    <3> QED BY <3>1, <3>2, <3>3
  <2>4. c.tokens => c.file
    BY DEF AttemptShape
  <2> QED BY <2>1, <2>2, <2>3, <2>4
<1>10. CASE UNCHANGED vars
  BY <1>10 DEF vars
<1> QED
  BY <1>1, <1>2, <1>3, <1>4, <1>5, <1>6, <1>7, <1>8, <1>9, <1>10 DEF Next, AttemptStep

(* A row that is not reused, of attempts that were answered, keeps speaking   *)
(* of all that is there.                                                      *)
LEMMA LatestStep ==
  ASSUME TypeOK, AttemptShape, DeletedIsGone, LatestOnly, [Next]_vars
  PROVE  LatestOnly'
<1> SUFFICES ASSUME NEW u \in Tasks \ blurred' PROVE Latest(u)'
  BY DEF LatestOnly
<1>0. /\ c \in Client /\ claim \in [Tasks -> Claim] /\ made \in [Tasks -> 0..MaxAttempts]
      /\ files \in [Tasks -> SUBSET Attempts]
      /\ transcriptions \in [Tasks -> SUBSET Attempts]
  BY DEF TypeOK
<1> USE DEF Latest, SpeaksOf, Working, Claimed, Current
<1>1. u \notin blurred
  BY DEF Next, AttemptStep, BeginSweep, EndSweep, FetchTokens, Crash, vars, SweepClaim,
     Dispatch, OpenClaim, UploadFile, RecordFile, CreateTranscription, RecordTranscription,
     DropFlow, DeleteTranscription, DeleteFile, CloseClaim, Return
<1>2. Latest(u)
  BY <1>1 DEF LatestOnly
<1>3. CASE BeginSweep
  <2>1. c'.pc = "sweep"
    <3>1. AtRest("sweep") \in Client /\ AtRest("sweep").pc = "sweep"
      BY <1>0, ClientUpdates DEF ClientPc, AtRest
    <3> QED BY <1>3, <3>1 DEF BeginSweep, Client
  <2> QED BY <1>2, <1>3, <2>1 DEF BeginSweep
<1>4. CASE EndSweep
  <2>1. c'.pc = "idle" /\ UNCHANGED <<files, transcriptions, claim, made>>
    BY <1>4 DEF EndSweep, AtRest
  <2> QED BY <1>2, <2>1
<1>5. CASE Crash
  <2>1. c'.pc = "start" /\ UNCHANGED <<claim, made>>
    BY <1>5 DEF Crash, AtRest
  <2>2. CASE files'[u] = files[u] /\ transcriptions'[u] = transcriptions[u]
    BY <1>2, <2>1, <2>2
  <2>3. CASE /\ c.pc \in {"upload", "create"} /\ c.t = {u}
             /\ files'[u] \subseteq files[u] \cup {c.n}
             /\ transcriptions'[u] \subseteq transcriptions[u] \cup {c.n}
    <3>1. c.n = made[u] /\ made'[u] \in 0..made'[u]
      BY <1>0, <2>1, <2>3 DEF AttemptShape
    <3>2. claim'[u].open /\ SpeaksOf(u, made[u])'
      BY <1>2, <2>1, <2>3, <3>1
    <3> QED BY <2>1, <3>1, <3>2
  <2>4. \/ files'[u] = files[u] /\ transcriptions'[u] = transcriptions[u]
        \/ /\ c.pc \in {"upload", "create"} /\ c.t = {u}
           /\ files'[u] \subseteq files[u] \cup {c.n}
           /\ transcriptions'[u] \subseteq transcriptions[u] \cup {c.n}
    BY <1>0, <1>5 DEF Crash
  <2> QED BY <2>2, <2>3, <2>4
<1>6. ASSUME NEW t \in Tasks, SweepClaim(t) PROVE Latest(u)'
  <2>1. /\ c.pc = "sweep" /\ c'.pc = "sweep" /\ t \in c.t
        /\ UNCHANGED made
    BY <1>0, <1>6 DEF SweepClaim, Client
  <2>2. CASE u # t
    <3>1. claim'[u] = claim[u] /\ files'[u] = files[u] /\ transcriptions'[u] = transcriptions[u]
      BY <1>0, <1>6, <2>2 DEF SweepClaim
    <3> QED BY <1>2, <2>1, <3>1
  <2>3. CASE u = t /\ claim' = claim
    <3>1. files'[u] \subseteq files[u] /\ transcriptions'[u] \subseteq transcriptions[u]
      BY <1>0, <1>6, <2>3 DEF SweepClaim
    <3> QED BY <1>2, <2>1, <2>3, <3>1
  <2>4. CASE u = t /\ claim' # claim
    <3>1. /\ c.inventory \/ ~MissesId(t)
          /\ files' = [files EXCEPT ![t] = @ \ KnownFiles(t)]
          /\ transcriptions' = [transcriptions EXCEPT ![t] = @ \ KnownTranscriptions(t)]
          /\ claim' = [claim EXCEPT ![t] = NoClaim]
      BY <1>6, <2>4 DEF SweepClaim
    <3>2. PICK n \in 0..made[u] : SpeaksOf(u, n)
      BY <1>2
    <3>3. files[t] \subseteq KnownFiles(t) /\ transcriptions[t] \subseteq KnownTranscriptions(t)
      BY <1>0, <1>2, <2>4, <3>1, <3>2 DEF KnownFiles, KnownTranscriptions, MissesId
    <3>4. ~claim'[t].open /\ files'[t] = {} /\ transcriptions'[t] = {}
      BY <1>0, <3>1, <3>3 DEF NoClaim
    <3> QED BY <2>1, <2>4, <3>2, <3>4
  <2> QED BY <2>2, <2>3, <2>4
<1>7. ASSUME NEW t \in Tasks, Dispatch(t) PROVE Latest(u)'
  <2>1. /\ c'.pc = "open" /\ made'[u] \in {made[u], made[u] + 1}
        /\ UNCHANGED <<files, transcriptions, claim>>
    BY <1>0, <1>7 DEF Dispatch, AtRest
  <2>2. PICK n \in 0..made[u] : SpeaksOf(u, n)
    BY <1>2
  <2>3. n \in 0..made'[u]
    BY <1>0, <2>1
  <2> QED BY <1>2, <2>1, <2>2, <2>3
<1>8. ASSUME NEW t \in Tasks, OpenClaim(t) PROVE Latest(u)'
  <2>1. /\ c.pc = "open" /\ c.t = {t} /\ c'.t = c.t /\ c'.pc \in {"upload", "return"}
        /\ UNCHANGED <<files, transcriptions, made>>
        /\ c'.pc = "return" => claim' = claim
        /\ c'.pc = "upload" /\ u = t =>
             ~claim[t].open /\ claim' = [claim EXCEPT ![t] = [NoClaim EXCEPT !.open = TRUE]]
        /\ u # t => claim'[u] = claim[u]
    BY <1>0, <1>8 DEF OpenClaim, Goto, Client
  <2>2. CASE c'.pc = "return" \/ u # t
    <3>1. claim'[u] = claim[u]
      BY <2>1, <2>2
    <3> QED BY <1>2, <2>1, <2>2, <3>1
  <2>3. CASE c'.pc = "upload" /\ u = t
    <3>1. claim'[u] = [NoClaim EXCEPT !.open = TRUE]
      BY <1>0, <2>1, <2>3
    <3>2. claim'[u].open /\ claim'[u].file = 0 /\ claim'[u].transcription = 0
      BY <3>1 DEF NoClaim
    <3>3. files[u] = {} /\ transcriptions[u] = {}
      BY <1>2, <2>1, <2>3
    <3>4. made'[u] \in 0..made'[u]
      BY <1>0, <2>1
    <3> QED BY <2>1, <3>2, <3>3, <3>4
  <2> QED BY <2>1, <2>2, <2>3
<1>9. ASSUME NEW t \in Tasks,
             \/ UploadFile(t) \/ CreateTranscription(t) \/ DropFlow(t)
             \/ DeleteTranscription(t) \/ DeleteFile(t)
      PROVE Latest(u)'
  <2>1. /\ c.t = {t} /\ c'.t = c.t /\ UNCHANGED <<claim, made>>
        /\ c'.pc \in {"file", "transcription", "delete_transcription", "delete_file", "close"}
        /\ c.pc \in {"upload", "create", "poll", "delete_transcription", "delete_file"}
    BY <1>0, <1>9 DEF UploadFile, CreateTranscription, DropFlow, DeleteTranscription,
       DeleteFile, Goto, Client
  <2>2. /\ files'[u] \subseteq files[u] \cup (IF u = t THEN {c.n} ELSE {})
        /\ transcriptions'[u] \subseteq transcriptions[u] \cup (IF u = t THEN {c.n} ELSE {})
    BY <1>0, <1>9 DEF UploadFile, CreateTranscription, DropFlow, DeleteTranscription, DeleteFile
  <2>3. c.n = made[t] /\ made'[u] \in 0..made'[u]
    BY <1>0, <2>1 DEF AttemptShape
  <2>4. CASE u # t
    BY <1>2, <2>1, <2>2, <2>4
  <2>5. CASE u = t
    <3>1. claim'[u].open /\ SpeaksOf(u, made[u])'
      BY <1>2, <2>1, <2>2, <2>3, <2>5
    <3> QED BY <2>1, <2>3, <3>1
  <2> QED BY <2>4, <2>5
<1>10. ASSUME NEW t \in Tasks, RecordFile(t) \/ RecordTranscription(t) PROVE Latest(u)'
  <2>1. /\ c.t = {t} /\ c'.t = c.t /\ UNCHANGED <<files, transcriptions, made>>
        /\ c'.pc \in {"create", "poll"} /\ c.pc \in {"file", "transcription"}
    BY <1>0, <1>10 DEF RecordFile, RecordTranscription, Goto, Client
  <2>2. /\ claim'[u].open = claim[u].open
        /\ claim'[u].file = claim[u].file \/ (u = t /\ claim'[u].file = c.n)
        /\ \/ claim'[u].transcription = claim[u].transcription
           \/ u = t /\ claim'[u].transcription = c.n
    BY <1>0, <1>10 DEF RecordFile, RecordTranscription, Claim
  <2>3. c.n = made[t] /\ made'[u] \in 0..made'[u]
    BY <1>0, <2>1 DEF AttemptShape
  <2>4. CASE u # t
    BY <1>2, <2>1, <2>2, <2>4
  <2>5. CASE u = t
    <3>1. claim'[u].open /\ SpeaksOf(u, made[u])'
      BY <1>2, <2>1, <2>2, <2>3, <2>5
    <3> QED BY <2>1, <2>3, <3>1
  <2> QED BY <2>4, <2>5
<1>11. CASE FetchTokens
  <2>1. /\ c'.t = c.t /\ c.pc = "poll" /\ c'.pc = "delete_transcription"
        /\ UNCHANGED <<files, transcriptions, claim, made>>
    BY <1>0, <1>11 DEF FetchTokens, Client
  <2> QED BY <1>2, <2>1
<1>12. ASSUME NEW t \in Tasks, CloseClaim(t) PROVE Latest(u)'
  <2>1. /\ c.t = {t} /\ c'.t = c.t /\ UNCHANGED <<files, transcriptions, made>>
        /\ c.pc = "close" /\ c'.pc = "return"
        /\ claim' = claim \/ (c.clean /\ claim' = [claim EXCEPT ![t] = NoClaim])
    BY <1>0, <1>12 DEF CloseClaim, Goto, Client
  <2>2. CASE claim' = claim \/ u # t
    <3>1. claim'[u] = claim[u]
      BY <1>0, <2>1, <2>2
    <3> QED BY <1>2, <2>1, <3>1
  <2>3. CASE c.clean /\ claim' = [claim EXCEPT ![t] = NoClaim] /\ u = t
    <3>1. c.n = made[t] /\ c.n \notin files[t] /\ c.n \notin transcriptions[t]
      BY <1>1, <2>1, <2>3 DEF AttemptShape, DeletedIsGone
    <3>2. files[t] = {} /\ transcriptions[t] = {}
      BY <1>2, <2>1, <2>3, <3>1
    <3>3. ~claim'[t].open
      BY <1>0, <2>3 DEF NoClaim
    <3>4. made'[u] \in 0..made'[u]
      BY <1>0, <2>1
    <3> QED BY <2>1, <2>3, <3>2, <3>3, <3>4
  <2> QED BY <2>1, <2>2, <2>3
<1>13. ASSUME NEW t \in Tasks, Return(t) PROVE Latest(u)'
  <2>1. /\ c'.pc = "idle" /\ UNCHANGED <<files, transcriptions, claim, made>>
    BY <1>13 DEF Return, AtRest
  <2> QED BY <1>2, <2>1
<1>14. CASE UNCHANGED vars
  BY <1>2, <1>14 DEF vars
<1> QED
  BY <1>3, <1>4, <1>5, <1>6, <1>7, <1>8, <1>9, <1>10, <1>11, <1>12, <1>13, <1>14
     DEF Next, AttemptStep

(* The whole invariant: the attempt, the sweep and the journal together.     *)
THEOREM Invariant == Spec => []IInv
<1>1. Init => IInv
  BY ArtifactAssumption DEF Init, IInv, TypeOK, AttemptShape, DeletedIsGone, SweepCovers,
     LatestOnly, Latest, SpeaksOf, Working, Claimed, OpenClaims, Attempts, Claim, NoClaim, Client,
     ClientPc, AtRest
<1>2. IInv /\ [Next]_vars => IInv'
  BY ShapeStep, GoneStep, SweepStep, LatestStep, ClientTyped, RemoteTyped, ClaimTyped, RestTyped
     DEF IInv, TypeOK
<1> QED BY <1>1, <1>2, PTL DEF Spec

(* The journal is the record of everything at the provider for every task    *)
(* whose rows were never reused and whose requests were all answered, and no *)
(* attempt runs beside an orphan's claim as long as the sweep's requests     *)
(* work.                                                                     *)
THEOREM JournalHonoured == Spec => []JournalIsHonoured
<1>1. IInv => JournalIsHonoured
  BY DEF IInv, JournalIsHonoured, JournalCoversUnlessBlurred, OrphansFirst, LatestOnly,
     Latest, SweepCovers
<1> QED BY <1>1, Invariant, PTL

(* A success leaves nothing of its own behind, whatever has failed before.   *)
THEOREM SuccessIsClean == Spec => []SuccessLeavesNothing
<1>1. IInv => SuccessLeavesNothing
  BY DEF IInv, SuccessLeavesNothing, Succeeded, DeletedIsGone, Working
<1> QED BY <1>1, Invariant, PTL

==============================================================================
