------------------------ MODULE TranscriptionPromise ------------------------
(***************************************************************************)
(* What post-stop transcription promises the owner of a recording, with    *)
(* the databases, the worker, the provider and crashes left out: the       *)
(* outcome of a request is final, a result is kept once it is obtained,    *)
(* success is reported only with a result, and the recording itself is let *)
(* go only when there is a result or the owner is deleting the session.    *)
(***************************************************************************)
CONSTANT Sessions

VARIABLES
    outcome,   \* what the owner is told
    result,    \* a provider result is stored
    kept,      \* the recording is still stored
    deleting   \* Delete Forever has begun and not finished

promiseVars == <<outcome, result, kept, deleting>>

Outcome == {"idle", "wanted", "done", "failed", "gone"}

Init ==
    /\ outcome = [s \in Sessions |-> "idle"]
    /\ result = [s \in Sessions |-> FALSE]
    /\ kept = [s \in Sessions |-> TRUE]
    /\ deleting = [s \in Sessions |-> FALSE]

Ask(s) ==
    /\ outcome[s] = "idle" /\ kept[s] /\ ~deleting[s]
    /\ outcome' = [outcome EXCEPT ![s] = "wanted"]
    /\ UNCHANGED <<result, kept, deleting>>

Obtain(s) ==
    /\ outcome[s] = "wanted" /\ ~result[s] /\ ~deleting[s]
    /\ result' = [result EXCEPT ![s] = TRUE]
    /\ UNCHANGED <<outcome, kept, deleting>>

Succeed(s) ==
    /\ outcome[s] = "wanted" /\ result[s] /\ ~deleting[s]
    /\ outcome' = [outcome EXCEPT ![s] = "done"]
    /\ UNCHANGED <<result, kept, deleting>>

Fail(s) ==
    /\ outcome[s] = "wanted" /\ ~deleting[s]
    /\ outcome' = [outcome EXCEPT ![s] = "failed"]
    /\ UNCHANGED <<result, kept, deleting>>

LetGo(s) ==
    /\ result[s] \/ deleting[s]
    /\ kept' = [kept EXCEPT ![s] = FALSE]
    /\ UNCHANGED <<outcome, result, deleting>>

Delete(s) ==
    /\ deleting' = [deleting EXCEPT ![s] = TRUE]
    /\ UNCHANGED <<outcome, result, kept>>

Erase(s) ==
    /\ deleting[s] /\ ~kept[s]
    /\ outcome' = [outcome EXCEPT ![s] = "gone"]
    /\ result' = [result EXCEPT ![s] = FALSE]
    /\ UNCHANGED <<kept, deleting>>

Forget(s) ==
    /\ deleting[s] /\ outcome[s] = "gone"
    /\ deleting' = [deleting EXCEPT ![s] = FALSE]
    /\ UNCHANGED <<outcome, result, kept>>

Next ==
    \E s \in Sessions :
        Ask(s) \/ Obtain(s) \/ Succeed(s) \/ Fail(s) \/ LetGo(s)
          \/ Delete(s) \/ Erase(s) \/ Forget(s)

Spec == Init /\ [][Next]_promiseVars
=============================================================================
