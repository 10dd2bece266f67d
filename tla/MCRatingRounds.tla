---------------------------- MODULE MCRatingRounds ----------------------------
(***************************************************************************)
(* Small instances of RatingRounds for TLC.                                *)
(***************************************************************************)
EXTENDS RatingRounds

CONSTANTS l1, d1, e1
===============================================================================
