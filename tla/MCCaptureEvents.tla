--------------------------- MODULE MCCaptureEvents --------------------------
(* Small instances of CaptureEvents for TLC.                                *)
EXTENDS CaptureEvents
=============================================================================
