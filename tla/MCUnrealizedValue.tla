--------------------------- MODULE MCUnrealizedValue ---------------------------
(* Two tickets and one handler at a time are enough for the race of insert_ticket *)
(* with the task that empties the queue.                                          *)
EXTENDS UnrealizedValue
================================================================================
