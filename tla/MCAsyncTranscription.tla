------------------------ MODULE MCAsyncTranscription ------------------------
(* One session, whose privacy level destroys its audio and which may be    *)
(* deleted, meets crashes and faults at every step.                        *)
EXTENDS AsyncTranscription

CONSTANT s1

OneSession == {s1}
=============================================================================
