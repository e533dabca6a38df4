------------------------------- MODULE MCTickets -------------------------------
(* Three tickets, so that one may be acknowledged late and lie inside the range *)
(* of an aggregate; the stake could pay one ticket twice.                       *)
EXTENDS Tickets
================================================================================
