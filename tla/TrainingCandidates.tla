------------------------- MODULE TrainingCandidates -------------------------
(***************************************************************************)
(* From ratings to trainers.  A refresh turns the latest ratings into a    *)
(* leaderboard snapshot on the tournament volume, an assignment of         *)
(* opponents for each refresh pointer on the control volume, moves the     *)
(* pointers, and publishes the snapshot in a Dict.  Trainers follow their  *)
(* pointer while they train.  Refreshes are started by the scheduled tick  *)
(* or by hand; a leaderboard is also published, and its Dict entry         *)
(* repaired, by hand.                                                      *)
(*                                                                         *)
(* Every commit is a step.  Ratings are numbered by their round; a sha is  *)
(* the content it is of.  There is one trainer for each pointer.           *)
(***************************************************************************)
EXTENDS Integers, FiniteSetsExt

CONSTANTS
    Calls,                  \* refreshes, publications and repairs that may run at a time
    Pointers,               \* refresh pointers
    Kinds,                  \* kinds of calls by hand: manual, publish, repair
    MaxRating,
    MaxTicks, MaxByHand,    \* ticks, and calls by hand, in all
    MaxFaults, FaultKinds   \* crash, reset

ASSUME CandidatesAssumption ==
    /\ Kinds \subseteq {"manual", "publish", "repair"}
    /\ Pointers # {}
    /\ MaxRating \in Nat /\ MaxTicks \in Nat /\ MaxByHand \in Nat /\ MaxFaults \in Nat

VARIABLES
    rating,         \* round of the latest ratings (0: none yet)
    \* the tournament volume
    board,          \* leaderboard snapshots
    boardLatest,    \* the leaderboard's latest.json
    \* the control volume
    assignments,    \* assignment files
    pointers,       \* refresh pointers
    \* the Dict
    live,
    \* calls
    pc, call, ticks, byHand,
    \* trainers
    applied,        \* the assignment a trainer plays
    up,
    raced,          \* was a pointer written that the writer had not seen? (history)
    faults

countVars   == <<ticks, byHand>>
fileVars    == <<board, boardLatest, assignments, pointers, live>>
callVars    == <<pc, call, countVars>>
trainerVars == <<applied, up>>
vars == <<rating, fileVars, callVars, trainerVars, raced, faults>>

NoId   == [kind |-> "seed", rating |-> 0, gen |-> 0]
\* A snapshot of ratings; "by" is the call that built it, for its created_at.
NoSnap == [id |-> NoId, rating |-> 0, gen |-> 0, by |-> 0]
\* An assignment names the snapshot it was drawn from by id and generation.
Assignment(p, id, r, g) == [pointer |-> p, id |-> id, rating |-> r, gen |-> g]
Seed(p) == Assignment(p, NoId, 0, 0)
NoCall  == [kind |-> "none", by |-> 0, id |-> NoId, gen |-> 0, snap |-> NoSnap,
            previous |-> <<>>, seen |-> <<>>]

Init ==
    /\ rating = 0
    /\ board = {} /\ boardLatest = NoSnap /\ live = NoSnap
    /\ assignments = {Seed(p) : p \in Pointers}
    /\ pointers = [p \in Pointers |-> [names |-> Seed(p), gen |-> 0, source |-> NoSnap]]
    /\ pc = [c \in Calls |-> "idle"] /\ call = [c \in Calls |-> NoCall]
    /\ ticks = 0 /\ byHand = 0
    /\ applied = [p \in Pointers |-> Seed(p)]
    /\ up = [p \in Pointers |-> TRUE]
    /\ raced = FALSE /\ faults = 0

Fault(kind) == kind \in FaultKinds /\ faults < MaxFaults /\ faults' = faults + 1

\* The file of an id is overwritten; elsewhere it is a new one.
Write(files, f) == {g \in files : g.id # f.id} \cup {f}
WriteAssignments(new) ==
    {a \in assignments : \A b \in new : a.pointer # b.pointer \/ a.id # b.id} \cup new

\* Does the assignment a pointer names exist, with that content?
Resolves(p) == pointers[p].names \in assignments

(***************************************************************************)
(* Calls.                                                                  *)
(***************************************************************************)
Goto(c, step) == pc' = [pc EXCEPT ![c] = step]
End(c) == Goto(c, "idle") /\ call' = [call EXCEPT ![c] = NoCall]

\* Rounds are rated (RatingRounds).
Rate ==
    /\ rating < MaxRating
    /\ rating' = rating + 1
    /\ UNCHANGED <<fileVars, callVars, trainerVars, raced, faults>>

StartCall(c, kind, step) ==
    /\ pc[c] = "idle"
    /\ Goto(c, step)
    /\ call' = [call EXCEPT ![c] = [NoCall EXCEPT !.kind = kind, !.by = ticks + byHand + 1]]
    /\ UNCHANGED <<rating, fileVars, trainerVars, raced, faults>>

\* One tick runs at a time.
StartTick(c) ==
    /\ \A d \in Calls : call[d].kind # "tick"
    /\ ticks < MaxTicks /\ ticks' = ticks + 1 /\ UNCHANGED byHand
    /\ StartCall(c, "tick", "load")

StartByHand(c, kind, step) ==
    /\ kind \in Kinds
    /\ byHand < MaxByHand /\ byHand' = byHand + 1 /\ UNCHANGED ticks
    /\ StartCall(c, kind, step)

StartRefresh(c) == StartByHand(c, "manual", "prepare")
StartPublish(c) == StartByHand(c, "publish", "publish")
StartRepair(c)  == StartByHand(c, "repair", "repair")

\* The sha of the latest ratings.  A pointer has the sha of the snapshot instead.
RatingSha == [NoSnap EXCEPT !.id.kind = "rating", !.rating = rating]
AlreadyCurrent == \A p \in Pointers : pointers[p].source = RatingSha

\* Mutant: the tick picks the generation the pointers have.
LoadSameGeneration(c) ==
    LET gen == Max({pointers[p].gen : p \in Pointers})
    IN  /\ pc[c] = "load"
        /\ \/ (rating = 0 \/ AlreadyCurrent) /\ End(c)
           \/ /\ rating # 0 /\ ~ AlreadyCurrent
              /\ Goto(c, "prepare")
              /\ call' = [call EXCEPT ![c] = [@ EXCEPT !.gen = gen, !.id =
                              [kind |-> "auto", rating |-> rating, gen |-> gen]]]
        /\ UNCHANGED <<rating, fileVars, countVars, trainerVars, raced, faults>>

\* Mutant: the generation is counted on once for the ids and once for the pointers.
LoadTwoGenerations(c) ==
    LET gen == Max({pointers[p].gen : p \in Pointers}) + 2
    IN  /\ pc[c] = "load"
        /\ \/ (rating = 0 \/ AlreadyCurrent) /\ End(c)
           \/ /\ rating # 0 /\ ~ AlreadyCurrent
              /\ Goto(c, "prepare")
              /\ call' = [call EXCEPT ![c] = [@ EXCEPT !.gen = gen, !.id =
                              [kind |-> "auto", rating |-> rating, gen |-> gen]]]
        /\ UNCHANGED <<rating, fileVars, countVars, trainerVars, raced, faults>>

\* The tick reads ratings and pointers and picks the generation and the ids.
Load(c) ==
    LET gen == Max({pointers[p].gen : p \in Pointers}) + 1
    IN  /\ pc[c] = "load"
        /\ \/ (rating = 0 \/ AlreadyCurrent) /\ End(c)
           \/ /\ rating # 0 /\ ~ AlreadyCurrent
              /\ Goto(c, "prepare")
              /\ call' = [call EXCEPT ![c] = [@ EXCEPT !.gen = gen, !.id =
                              [kind |-> "auto", rating |-> rating, gen |-> gen]]]
        /\ UNCHANGED <<rating, fileVars, countVars, trainerVars, raced, faults>>

\* By hand, the generation is the round's.
Generation(c) == IF call[c].kind = "tick" THEN call[c].gen ELSE rating
SnapshotId(c) == IF call[c].kind = "tick" THEN call[c].id
                 ELSE [kind |-> "manual", rating |-> rating, gen |-> rating]

Built(c) == [id |-> SnapshotId(c), rating |-> rating, gen |-> Generation(c), by |-> call[c].by]

\* Mutant: a refresh may replace any generation.
PrepareAnyGeneration(c) ==
    /\ pc[c] = "prepare"
    /\ \/ /\ rating # 0 /\ \A p \in Pointers : Resolves(p)
          /\ Goto(c, "board")
          /\ call' = [call EXCEPT ![c] = [@ EXCEPT !.snap = Built(c), !.gen = Generation(c),
                          !.previous = [p \in Pointers |-> pointers[p].names]]]
       \/ (rating = 0 \/ \E p \in Pointers : ~ Resolves(p)) /\ End(c)
    /\ UNCHANGED <<rating, fileVars, countVars, trainerVars, raced, faults>>

\* Reload and read again; refuse a pointer that does not resolve, and one of the
\* same or a later generation.
Prepare(c) ==
    LET ok == /\ rating # 0
              /\ \A p \in Pointers : Resolves(p) /\ pointers[p].gen < Generation(c)
    IN  /\ pc[c] = "prepare"
        /\ \/ /\ ok /\ Goto(c, "board")
              /\ call' = [call EXCEPT ![c] = [@ EXCEPT !.snap = Built(c), !.gen = Generation(c),
                              !.previous = [p \in Pointers |-> pointers[p].names]]]
           \/ ~ ok /\ End(c)
        /\ UNCHANGED <<rating, fileVars, countVars, trainerVars, raced, faults>>

\* Mutant: the assignments are not committed before the pointers.
WriteBoardOnly(c) ==
    /\ pc[c] = "board"
    /\ board' = Write(board, call[c].snap) /\ boardLatest' = call[c].snap
    /\ Goto(c, "point")
    /\ call' = [call EXCEPT ![c].seen = [p \in Pointers |-> pointers[p].names]]
    /\ UNCHANGED <<rating, assignments, pointers, live, countVars, trainerVars, raced, faults>>

\* Commit the snapshot and the leaderboard's latest.json.
WriteBoard(c) ==
    /\ pc[c] = "board"
    /\ board' = Write(board, call[c].snap) /\ boardLatest' = call[c].snap
    /\ Goto(c, "assign")
    /\ UNCHANGED <<rating, assignments, pointers, live, call, countVars,
                   trainerVars, raced, faults>>

NewAssignment(c, p) == Assignment(p, call[c].snap.id, call[c].snap.rating, call[c].snap.gen)

\* Commit the assignments.  This is the last look at the pointers.
Assign(c) ==
    /\ pc[c] = "assign"
    /\ assignments' = WriteAssignments({NewAssignment(c, p) : p \in Pointers})
    /\ Goto(c, "point")
    /\ call' = [call EXCEPT ![c].seen = [p \in Pointers |-> pointers[p].names]]
    /\ UNCHANGED <<rating, board, boardLatest, pointers, live, countVars,
                   trainerVars, raced, faults>>

\* Commit the pointers, unless one was seen to have changed.
Point(c) ==
    /\ pc[c] = "point"
    /\ \/ /\ call[c].seen = call[c].previous
          /\ pointers' = [p \in Pointers |-> [names |-> NewAssignment(c, p),
                                               gen |-> call[c].gen, source |-> call[c].snap]]
          /\ raced' = (raced \/ \E p \in Pointers : pointers[p].names # call[c].seen[p])
          /\ Goto(c, "put") /\ UNCHANGED call
       \/ call[c].seen # call[c].previous /\ End(c) /\ UNCHANGED <<pointers, raced>>
    /\ UNCHANGED <<rating, board, boardLatest, assignments, live, countVars, trainerVars, faults>>

\* Publish the snapshot in the Dict.
Put(c) ==
    /\ pc[c] = "put"
    /\ live' = call[c].snap
    /\ End(c)
    /\ UNCHANGED <<rating, board, boardLatest, assignments, pointers, countVars,
                   trainerVars, raced, faults>>

\* A publication by hand: snapshot and latest.json, then the Dict.
Publish(c) ==
    LET snap == [id |-> [kind |-> "publish", rating |-> rating, gen |-> call[c].by],
                 rating |-> rating, gen |-> rating, by |-> call[c].by]
    IN  /\ pc[c] = "publish"
        /\ \/ /\ rating # 0
              /\ board' = Write(board, snap) /\ boardLatest' = snap
              /\ Goto(c, "put")
              /\ call' = [call EXCEPT ![c].snap = snap]
           \/ rating = 0 /\ End(c) /\ UNCHANGED <<board, boardLatest>>
        /\ UNCHANGED <<rating, assignments, pointers, live, countVars, trainerVars, raced, faults>>

\* A repair takes what latest.json says, if its snapshot is the same.
Repair(c) ==
    /\ pc[c] = "repair"
    /\ \/ /\ boardLatest \in board
          /\ Goto(c, "put")
          /\ call' = [call EXCEPT ![c].snap = boardLatest]
       \/ boardLatest \notin board /\ End(c)
    /\ UNCHANGED <<rating, fileVars, countVars, trainerVars, raced, faults>>

\* Also a commit, a copy or a check that fails.
Crash(c) ==
    /\ pc[c] # "idle" /\ Fault("crash")
    /\ End(c)
    /\ UNCHANGED <<rating, fileVars, countVars, trainerVars, raced>>

(***************************************************************************)
(* Trainers.                                                               *)
(***************************************************************************)
\* Before it collects games at the start of an interval a trainer reloads and
\* follows its pointer.  Whatever it cannot load it tries again before the next.
Collect(p) ==
    /\ up[p] /\ Resolves(p) /\ pointers[p].names # applied[p]
    /\ applied' = [applied EXCEPT ![p] = pointers[p].names]
    /\ UNCHANGED <<rating, fileVars, callVars, up, raced, faults>>

\* The environments do not come back from the reset: the training fails.
ResetFails(p) ==
    /\ up[p] /\ Resolves(p) /\ pointers[p].names # applied[p]
    /\ Fault("reset")
    /\ up' = [up EXCEPT ![p] = FALSE]
    /\ UNCHANGED <<rating, fileVars, callVars, applied, raced>>

CallStep(c) ==
    \/ Load(c) \/ Prepare(c) \/ WriteBoard(c) \/ Assign(c) \/ Point(c) \/ Put(c)
    \/ Publish(c) \/ Repair(c)

Next ==
    \/ Rate
    \/ \E c \in Calls : \/ StartTick(c) \/ StartRefresh(c) \/ StartPublish(c) \/ StartRepair(c)
                        \/ CallStep(c) \/ Crash(c)
    \/ \E p \in Pointers : Collect(p) \/ ResetFails(p)

Spec == Init /\ [][Next]_vars

\* The tick is scheduled, calls that run make progress, trainers train.
Fairness ==
    /\ \A c \in Calls : WF_vars(StartTick(c)) /\ WF_vars(CallStep(c))
    /\ \A p \in Pointers : WF_vars(Collect(p))

FairSpec == Spec /\ Fairness
------------------------------------------------------------------------------
TypeOK ==
    /\ rating \in 0..MaxRating /\ faults \in 0..MaxFaults
    /\ ticks \in 0..MaxTicks /\ byHand \in 0..MaxByHand
    /\ pc \in [Calls -> {"idle", "load", "prepare", "board", "assign", "point", "put",
                         "publish", "repair"}]
    /\ \A s \in board \cup {boardLatest, live} :
          s.rating <= MaxRating /\ s.by <= MaxTicks + MaxByHand
    /\ \A p \in Pointers : /\ pointers[p].names.pointer = p /\ applied[p].pointer = p
                           /\ pointers[p].gen \in 0..(MaxTicks + MaxRating)
    /\ up \in [Pointers -> BOOLEAN]

\* A refresh pointer always names an assignment that is on the volume with the
\* content it had when the pointer was written, whichever call died half way and
\* whichever ran beside it: no trainer is ever left with a pointer it cannot follow.
PointersResolve == \A p \in Pointers : Resolves(p)

\* No trainer goes back to an assignment of an earlier generation, although those
\* made by hand count generations otherwise, unless a refresh wrote over a pointer
\* that another had moved since its last look.
TrainersMoveForward ==
    [][raced' \/ \A p \in Pointers : applied'[p].gen >= applied[p].gen]_applied

\* Ratings reach every trainer that is up within two ticks that do not die, unless
\* a refresh wrote over a pointer that another had moved since its last look.
RatingsReachTrainers ==
    \A r \in 1..MaxRating, p \in Pointers :
        rating = r /\ ticks <= MaxTicks - 2 - MaxFaults
            ~> (applied[p].rating >= r \/ ~ up[p] \/ raced)

\* A tick that finds the pointers drawn from the latest ratings changes nothing.
CurrentPointersStay ==
    [][\A p \in Pointers : pointers[p].names.rating = rating => pointers'[p] = pointers[p]]_pointers
==============================================================================
