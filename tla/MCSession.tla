------------------------------- MODULE MCSession -------------------------------
(* Three frames, the middle one of two segments: a frame can be incomplete while *)
(* its neighbours are complete.                                                 *)
EXTENDS Session

ThreeFrames == <<1, 2, 1>>
AllFeatures == {"AcknowledgeFrames", "RequestIncompleteFrames", "RetransmitFrames"}
================================================================================
