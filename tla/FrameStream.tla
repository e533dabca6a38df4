------------------------------ MODULE FrameStream ------------------------------
(***************************************************************************)
(* What a session promises to the application that reads from it: frames   *)
(* come in the order in which they were written, each at most once; some   *)
(* may be left out, and what was left out or has been passed never comes   *)
(* later.                                                                  *)
(***************************************************************************)
EXTENDS Naturals, Sequences

VARIABLES
    written,     \* number of frames the sender has written
    position,    \* frames below the position are delivered or left out
    delivered    \* the frames handed to the reader, in order

vars == <<written, position, delivered>>

Init ==
    /\ written = 0
    /\ position = 1
    /\ delivered = <<>>

Write ==
    /\ written' = written + 1
    /\ UNCHANGED <<position, delivered>>

\* The position moves over some written frames, and part of them is delivered.
Advance ==
    /\ position' > position
    /\ position' <= written + 1
    /\ SubSeq(delivered', 1, Len(delivered)) = delivered
    /\ \A i \in Len(delivered) + 1 .. Len(delivered') :
          /\ delivered'[i] \in position .. position' - 1
          /\ i > Len(delivered) + 1 => delivered'[i - 1] < delivered'[i]
    /\ UNCHANGED written

Next == Write \/ Advance

Spec == Init /\ [][Next]_vars
================================================================================
