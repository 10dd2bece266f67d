---------------------------- MODULE MCIntakeDrain ----------------------------
(***************************************************************************)
(* Small instances of IntakeDrain for TLC.                                 *)
(***************************************************************************)
EXTENDS IntakeDrain, TLC

CONSTANTS ra, rb, w1, d1, d2

\* A live watch on both runs, with or without events for what is there.
MCWatchSeeds ==
    {[pinned |-> {}, watch |-> {ra, rb}, cont |-> FALSE, active |-> TRUE,
      enqueue |-> e, spawn |-> FALSE] : e \in BOOLEAN}

\* One watched run whose checkpoints come one after another; the seed starts
\* a rating as soon as there are two.
MCGrowingSeeds ==
    {[pinned |-> {<<ra, 1>>}, watch |-> {ra}, cont |-> FALSE, active |-> TRUE,
      enqueue |-> TRUE, spawn |-> TRUE]}

MCNoSubmits == {}

\* Drain without rating, ask for a rating, insist on one.
MCDrainRequests ==
    {[spawn |-> FALSE, cont |-> FALSE, force |-> FALSE],
     [spawn |-> TRUE, cont |-> FALSE, force |-> FALSE],
     [spawn |-> TRUE, cont |-> TRUE, force |-> TRUE]}

MCNoDrainRequests == {}

==============================================================================
