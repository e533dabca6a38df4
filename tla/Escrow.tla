-------------------------------- MODULE Escrow --------------------------------
(***************************************************************************)
(* What one payment channel promises its two ends: an escrow that is       *)
(* opened any number of times, each incarnation of which pays a set of     *)
(* numbered claims, no number twice, and returns the rest when it closes.  *)
(***************************************************************************)
EXTENDS Integers

CONSTANT Index                  \* claim numbers

VARIABLES phase, deposit, incarnation, claimed

evars == <<phase, deposit, incarnation, claimed>>

Init ==
    /\ phase = "CLOSED" /\ deposit = 0 /\ incarnation = 0 /\ claimed = {}

Open ==
    /\ phase = "CLOSED" /\ phase' = "OPEN"
    /\ deposit' \in Nat \ {0}
    /\ incarnation' = incarnation + 1
    /\ claimed' = {}

TopUp ==
    /\ phase # "CLOSED"
    /\ deposit' \in Nat /\ deposit' > deposit
    /\ UNCHANGED <<phase, incarnation, claimed>>

\* A non-empty set of fresh claims is paid with one part of the deposit.
Pay ==
    /\ phase # "CLOSED"
    /\ deposit' \in Nat /\ deposit' < deposit
    /\ claimed' \in SUBSET Index
    /\ claimed \subseteq claimed' /\ claimed # claimed'
    /\ UNCHANGED <<phase, incarnation>>

Announce ==
    /\ phase # "CLOSED" /\ phase' = "PENDING_TO_CLOSE"
    /\ UNCHANGED <<deposit, incarnation, claimed>>

Release ==
    /\ phase # "CLOSED" /\ phase' = "CLOSED"
    /\ deposit' = 0 /\ claimed' = {}
    /\ UNCHANGED incarnation

Next == Open \/ TopUp \/ Pay \/ Announce \/ Release

Spec == Init /\ [][Next]_evars
===============================================================================
