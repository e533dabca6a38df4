------------------------ MODULE MCOutgoingTicketIndex ------------------------
(* Two tasks that send packets through one outgoing channel.                   *)
EXTENDS OutgoingTicketIndex
===============================================================================
