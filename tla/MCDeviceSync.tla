---------------------------- MODULE MCDeviceSync ----------------------------
EXTENDS DeviceSync, TLC

CONSTANTS a, b, lib, topic, note, u1, u2, u3, r1

TwoDevices == {a, b}
OnePair == {{a, b}}

Anything == {"break", "restart", "fail", "race"}
Race == {"race"}
Fail == {"fail"}
Nothing == {}

(* The library document, edited on both devices.  a deletes b's entry where   *)
(* its rows do not have it (a participant); b leaves a's alone (a speaker's   *)
(* link that does not apply there).                                           *)
LibDocs == {lib}
NoNotes == {}
NoHome == << >>
LibEdits == {u1, u2}
LibReversals == {r1}
LibReverses == (r1 :> u2)
LibUpdates == LibEdits \cup LibReversals
LibMaker == (u1 :> a) @@ (u2 :> b) @@ (r1 :> a)
LibDocOf == [u \in LibUpdates |-> lib]

(* A topic with a note: a makes both, b edits the topic when it has it.       *)
NoReversals == {}
NoReverses == << >>
TopicDocs == {topic, note}
TopicNotes == {note}
TopicHome == (note :> topic)
TopicUpdates == {u1, u2, u3}
TopicCreates == {u1, u3}
TopicMaker == (u1 :> a) @@ (u2 :> b) @@ (u3 :> a)
TopicDocOf == (u1 :> topic) @@ (u2 :> topic) @@ (u3 :> note)
=============================================================================
