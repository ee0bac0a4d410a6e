------------------------ MODULE MCRealtimeProjection ------------------------
(* Bounds for model checking RealtimeProjection: two auxiliary facts of one *)
(* row spoken in "own", the first of them heard in the wrong language.      *)
EXTENDS RealtimeProjection, TLC

MCFacts == {1, 2}
MCHeard == (1 :> {"target"}) @@ (2 :> {"own"})
=============================================================================
