--------------------------- MODULE ReplicaPromise ---------------------------
(***************************************************************************)
(* What device sync promises the rows a user reads: a device's facts come  *)
(* from an edit made on some device, and no synchronisation takes away a   *)
(* fact the device already shows.                                          *)
(***************************************************************************)
CONSTANTS Devices, Updates

VARIABLE facts

Init == facts = [d \in Devices |-> {}]

Author(d) ==
    \E u \in Updates \ UNION {facts[e] : e \in Devices} :
        facts' = [facts EXCEPT ![d] = @ \cup {u}]

Learn(d) ==
    \E news \in SUBSET UNION {facts[e] : e \in Devices} :
        facts' = [facts EXCEPT ![d] = @ \cup news]

Next == \E d \in Devices : Author(d) \/ Learn(d)

Spec == Init /\ [][Next]_facts
=============================================================================
