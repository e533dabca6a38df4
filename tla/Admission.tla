------------------------------ MODULE Admission -----------------------------
(***************************************************************************)
(* What the registry contracts promise to those who follow their events: a *)
(* transaction admits nodes or expels nodes, and its events name exactly   *)
(* the nodes whose admission it changed.                                   *)
(***************************************************************************)
EXTENDS Naturals

CONSTANT Node

VARIABLES
    admitted,   \* nodes registered to some account
    logs        \* events of the last transaction

Init == admitted = {} /\ logs = {}

Admit(ns) ==
    /\ ns \cap admitted = {}
    /\ admitted' = admitted \cup ns
    /\ logs' = [type : {"Registered"}, node : ns]

Expel(ns) ==
    /\ ns \subseteq admitted
    /\ admitted' = admitted \ ns
    /\ logs' = [type : {"Deregistered"}, node : ns]

Next == \E ns \in SUBSET Node : Admit(ns) \/ Expel(ns)

Spec == Init /\ [][Next]_<<admitted, logs>>
=============================================================================
