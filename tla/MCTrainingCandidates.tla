------------------------ MODULE MCTrainingCandidates ------------------------
(***************************************************************************)
(* Small instances of TrainingCandidates for TLC.                          *)
(***************************************************************************)
EXTENDS TrainingCandidates

CONSTANTS c1, c2, p1, p2
=============================================================================
