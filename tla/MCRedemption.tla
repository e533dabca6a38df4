------------------------------ MODULE MCRedemption ------------------------------
(* One incoming channel.  In the first incarnation a plain ticket is followed   *)
(* by an aggregated one; the second incarnation uses index 0 again.             *)
EXTENDS Redemption

OneTicket == {[epoch |-> 1, index |-> 0, offset |-> 1]}

TwoTickets == OneTicket \cup {[epoch |-> 1, index |-> 1, offset |-> 2]}

TwoEpochs == TwoTickets \cup {[epoch |-> 2, index |-> 0, offset |-> 1]}

Reopened == OneTicket \cup {[epoch |-> 2, index |-> 0, offset |-> 1]}
=================================================================================
