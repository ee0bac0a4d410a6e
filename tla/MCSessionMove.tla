---------------------------- MODULE MCSessionMove ----------------------------
(* Two topics and the notebook of everything else: a move can be undone,    *)
(* meet another one and go on to a third notebook.                          *)
EXTENDS SessionMove

CONSTANTS n1, n2, unfiled, c1, c2

MCTopics == {n1, n2}
OneCall == {c1}
TwoCalls == {c1, c2}
AllKinds == {"fault", "crash", "peer", "deletion"}
NoKinds == {}
OnlyCrash == {"crash"}
OnlyPeer == {"peer"}
MCTabs == <<"realtime", "async">>

(* What both properties excuse is not explored any further. *)
Telling ==
    /\ "stranded" \notin mishap
    /\ "leftover" \in mishap => mishap \cap {"erased home", "kept older"} = {}

Alike == Permutations(MCTopics) \cup Permutations(TwoCalls)
=============================================================================
