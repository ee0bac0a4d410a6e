--------------------------- MODULE MCSonioxStream ---------------------------
(* Instances of SonioxStream for TLC: MCSoniox.cfg checks what the lane      *)
(* keeps, the others one promise each that a comment makes and it breaks.    *)
EXTENDS SonioxStream
============================================================================
