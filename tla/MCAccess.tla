------------------------------ MODULE MCAccess ------------------------------
(* One node: the rules for one peer never read the state of another, only the  *)
(* queues are shared.                                                          *)
EXTENDS Access
=============================================================================
