--------------------------- MODULE MCProviderGroup ---------------------------
(* The source lane and one translation lane, two groups. *)
EXTENDS ProviderGroupInv, TLC

CONSTANTS source, fr

OneLane == {fr}
NoLane == {}
AllKinds == {"drop", "renew", "die", "wedge", "fault", "slow", "refuse"}

(* The collector is at most two events behind.  What became of a group that *)
(* has met the rows of another one is not followed.                         *)
Waiting == [g \in Groups |-> FoldSet(LAMBDA l, n : n + Len(inbox[g][l]), Cardinality(cuts[g]), Lanes)]
Close2 == "collided" \notin mishap /\ \A g \in Groups : Waiting[g] <= 2
=============================================================================
