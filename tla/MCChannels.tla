------------------------------ MODULE MCChannels ------------------------------
(* Two nodes, hence the two channels between them.                            *)
EXTENDS Channels
===============================================================================
