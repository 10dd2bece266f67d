---------------------------- MODULE OwnerContract ----------------------------
(***************************************************************************)
(* What a game loop may expect of the owner of search, replay and model:   *)
(* it hands over transitions, these are replayed in the order of the game, *)
(* the learner makes one update for every Interval of them, none before    *)
(* the transitions it is for, and the search changes to the model of an    *)
(* update that was made.  Nothing is promised about when.                  *)
(***************************************************************************)
EXTENDS Naturals

CONSTANT Interval

VARIABLES
    handed,     \* transitions handed over
    replayed,   \* transitions in the replay store
    learned,    \* updates the learner made
    served      \* updates the search has

vars == <<handed, replayed, learned, served>>

Init == handed = 0 /\ replayed = 0 /\ learned = 0 /\ served = 0

Hand ==
    /\ handed' \in Nat /\ handed' > handed
    /\ UNCHANGED <<replayed, learned, served>>

Replay ==
    /\ replayed' \in replayed + 1 .. handed
    /\ UNCHANGED <<handed, learned, served>>

Learn ==
    /\ learned' \in learned + 1 .. replayed \div Interval
    /\ UNCHANGED <<handed, replayed, served>>

Serve ==
    /\ served' \in served + 1 .. learned
    /\ UNCHANGED <<handed, replayed, learned>>

Next == Hand \/ Replay \/ Learn \/ Serve

Spec == Init /\ [][Next]_vars
==============================================================================
