---------------------------- MODULE MCGameRounds ----------------------------
(***************************************************************************)
(* Small instances of GameRounds for TLC.                                  *)
(***************************************************************************)
EXTENDS GameRounds, TLC

CONSTANTS a1, a2, a3

\* Delays in the order of the code's, of which they are about two thirds.
MCDuration == [borderless |-> 6, master |-> 4]

\* Three players, two of them with a second bonus, and one alone.
MCSeatings ==
    {[present |-> {a1, a2, a3}, bonuses |-> 1], [present |-> {a1, a2}, bonuses |-> 2],
     [present |-> {a1}, bonuses |-> 1]}

MCPair == {[present |-> {a1, a2}, bonuses |-> 1]}
==============================================================================
