--------------------------- MODULE MCCaptureAudio ---------------------------
(* Small instances of CaptureAudio for TLC.                                 *)
EXTENDS CaptureAudio
=============================================================================
