--------------------------- MODULE MCIntakeService ---------------------------
(***************************************************************************)
(* Small instances of IntakeCalls for TLC.                                 *)
(***************************************************************************)
EXTENDS IntakeCalls, TLC

CONSTANTS ra, rb, w1, w2

\* A seed of an active intake that neither enqueues nor rates.
Plain(pinned, watch) ==
    [pinned |-> pinned, watch |-> watch, cont |-> FALSE, active |-> TRUE,
     enqueue |-> FALSE, spawn |-> FALSE]

\* A live watch on run ra; an explicit list that is rated at once and not
\* enqueued; a deactivation.
MCSeeds ==
    {[Plain({}, {ra}) EXCEPT !.enqueue = TRUE],
     [Plain({<<rb, 1>>}, {}) EXCEPT !.spawn = TRUE],
     [Plain({}, {ra}) EXCEPT !.active = FALSE]}

\* An exact reference, and a run to watch.
MCSubmits ==
    {[refs |-> {<<rb, 1>>}, watch |-> {}], [refs |-> {}, watch |-> {rb}]}

MCSubmitsSmall == {[refs |-> {<<rb, 1>>}, watch |-> {}]}

MCWriterSymmetry == Permutations(Writers)
==============================================================================
