----------------------------- MODULE RatingRounds -----------------------------
(***************************************************************************)
(* Rating rounds on the tournament volume: loops that start rounds, the    *)
(* games of a round, reducers, and drains that recover what was abandoned. *)
(*                                                                         *)
(* A container reads the volume as it was at its last reload or commit;    *)
(* what it writes reaches the others with its next commit, file by file.   *)
(* Reading, deciding and writing are therefore separate steps, and a       *)
(* process carries what it read ("seen") from one to the other.            *)
(*                                                                         *)
(* A pool is its number of checkpoints, since pools only grow, and its     *)
(* games are numbered: pool p has games 1..p-1.  The intake, its queue and *)
(* the claim of the rating run are in IntakeDrain.                         *)
(***************************************************************************)
EXTENDS Integers, FiniteSetsExt

CONSTANTS
    Loops, Drains, Reducers,    \* calls that may run at a time
    MaxRound, MaxPool,
    RoundCount,                 \* round_count: rounds of one loop
    DiesAt,                     \* numbers of played games at which games may die
    MaxFaults,
    FaultKinds                  \* what may go wrong, MaxFaults times in all

ASSUME RoundsAssumption ==
    /\ MaxRound \in Nat /\ MaxPool \in Nat /\ MaxPool >= 2
    /\ RoundCount \in Nat \ {0}
    /\ DiesAt \subseteq Nat /\ MaxFaults \in Nat

VARIABLES
    pool,       \* checkpoints in the intake manifest
    \* the tournament volume
    config,     \* has a loop written the run's config.json?
    input,      \* pool of each round's input.json (0: none)
    progress,   \* status in each round's progress.json
    ratings,    \* each round's ratings.json
    latest,     \* latest.json
    root,       \* the run's progress.json
    \* the games of a round
    played,     \* games with a summary on the volume
    live,       \* games being played (0: their containers are gone)
    quiet,      \* no input or game for ten minutes
    old,        \* input an hour old
    \* calls
    lpc, loop,  \* rating loops
    cpc, call,  \* the round call of each loop
    rpc, red,   \* reducers
    dpc, drain,
    due,        \* what the drain tick's mount says
    claim,      \* reduce claim of each round
    faults

volumeVars == <<config, input, progress, ratings, latest, root>>
gameVars   == <<played, live, quiet, old>>
loopVars   == <<lpc, loop, cpc, call>>
drainVars  == <<dpc, drain, due, claim>>
redVars    == <<rpc, red>>
vars == <<pool, volumeVars, gameVars, loopVars, redVars, drainVars, faults>>

RoundIds  == 0..MaxRound
Pools     == 2..MaxPool
Snapshot  == [round : RoundIds \cup {-1}, pool : {0} \cup Pools]
NoLatest  == [round |-> -1, pool |-> 0]
NoRatings == [pool |-> 0, global |-> FALSE, games |-> 0, partial |-> FALSE]
NoRoot    == [round |-> -1, status |-> "none"]
NoView    == [latest |-> NoLatest, root |-> -1]
NoLoop    == [pool |-> 0, idx |-> 0, left |-> 0, seen |-> NoLatest]
NoCall    == [pool |-> 0, idx |-> 0, seen |-> NoView, partial |-> FALSE,
              games |-> 0, kind |-> "none", snap |-> NoRatings]
NoDrain   == [pool |-> 0, latest |-> 0, round |-> 0, partial |-> FALSE,
              takeover |-> FALSE, seen |-> NoView]

Games(p) == p - 1

TypeOK ==
    /\ pool \in Pools
    /\ input \in [RoundIds -> {0} \cup Pools]
    /\ progress \in [RoundIds -> {"none", "waiting", "running", "skipped", "complete"}]
    /\ \A r \in RoundIds : /\ ratings[r].pool \in {0} \cup Pools
                           /\ ratings[r].games \in 0..Games(MaxPool)
    /\ latest \in Snapshot /\ root.round \in RoundIds \cup {-1}
    /\ played \in [RoundIds -> 0..Games(MaxPool)]
    /\ live \in [RoundIds -> 0..Games(MaxPool)]
    /\ quiet \in [RoundIds -> BOOLEAN] /\ old \in [RoundIds -> BOOLEAN]
    /\ config \in BOOLEAN
    /\ lpc \in [Loops -> {"idle", "queued", "start", "wait"}]
    /\ \A l \in Loops : loop[l].idx \in RoundIds
    /\ cpc \in [Loops -> {"none", "begin", "open", "play", "write", "done"}]
    /\ rpc \in [Reducers -> {"idle", "read", "write"}]
    /\ dpc \in [Drains -> {"idle", "load", "judge", "skip", "reduce", "spawn"}]
    /\ due \in BOOLEAN
    /\ claim \in [RoundIds -> {"none", "fresh", "aged"}]
    /\ faults \in 0..MaxFaults

Init ==
    /\ pool = 2
    /\ config = FALSE /\ input = [r \in RoundIds |-> 0] /\ progress = [r \in RoundIds |-> "none"]
    /\ ratings = [r \in RoundIds |-> NoRatings]
    /\ latest = NoLatest /\ root = NoRoot
    /\ played = [r \in RoundIds |-> 0] /\ live = [r \in RoundIds |-> 0]
    /\ quiet = [r \in RoundIds |-> FALSE] /\ old = [r \in RoundIds |-> FALSE]
    /\ lpc = [l \in Loops |-> "idle"] /\ loop = [l \in Loops |-> NoLoop]
    /\ cpc = [l \in Loops |-> "none"] /\ call = [l \in Loops |-> NoCall]
    /\ rpc = [r \in Reducers |-> "idle"] /\ red = [r \in Reducers |-> NoCall]
    /\ dpc = [d \in Drains |-> "idle"] /\ drain = [d \in Drains |-> NoDrain]
    /\ due = FALSE
    /\ claim = [r \in RoundIds |-> "none"]
    /\ faults = 0

Fault(kind) == kind \in FaultKinds /\ faults < MaxFaults /\ faults' = faults + 1

(***************************************************************************)
(* What the volume says.                                                   *)
(***************************************************************************)
View == [latest |-> latest, root |-> root.round]

Complete(r)   == played[r] >= Games(input[r])
UnratedRounds == {r \in RoundIds : /\ input[r] # 0 /\ r > latest.round
                                   /\ progress[r] # "skipped" /\ ratings[r].pool = 0}
Existing == config \/ root # NoRoot \/ latest # NoLatest

WriterFinished ==
    /\ UnratedRounds = {}
    /\ IF root = NoRoot THEN latest # NoLatest
       ELSE \/ latest # NoLatest /\ root.round <= latest.round
            \/ root.status \in {"skipped", "complete"}
            \/ root.status = "waiting" /\ root.round > latest.round

\* Where a loop starts: behind the latest round and every skipped one.
StartIndex ==
    Max({latest.round} \cup {r \in RoundIds : r > latest.round /\ progress[r] = "skipped"}) + 1

\* May ratings of pool p for round r replace the latest ratings that were seen?
Publishes(seen, r, p) == r >= seen.round /\ p >= seen.pool

\* Progress of a round; the run's progress too, unless a newer round was seen.
WriteProgress(r, status, seen) ==
    /\ progress' = [progress EXCEPT ![r] = status]
    /\ root' = IF r < Max({seen.latest.round, seen.root}) THEN root
               ELSE [round |-> r, status |-> status]

\* A round's ratings, the latest ratings if nothing newer was seen, progress.
WriteOutputs(r, p, games, partial, seen) ==
    LET publish == Publishes(seen.latest, r, p)
    IN  /\ ratings' = [ratings EXCEPT ![r] = [pool |-> p, global |-> publish,
                                              games |-> games, partial |-> partial]]
        /\ latest' = IF publish THEN [round |-> r, pool |-> p] ELSE latest
        /\ WriteProgress(r, "complete", seen)
        /\ UNCHANGED <<config, input>>

(***************************************************************************)
(* The rating loop and its round calls.                                    *)
(***************************************************************************)
EndLoop(l) == lpc' = [lpc EXCEPT ![l] = "idle"] /\ loop' = [loop EXCEPT ![l] = NoLoop]
EndCall(l) == cpc' = [cpc EXCEPT ![l] = "none"] /\ call' = [call EXCEPT ![l] = NoCall]
Return(l, kind, snap) ==
    /\ cpc' = [cpc EXCEPT ![l] = "done"]
    /\ call' = [call EXCEPT ![l] = [NoCall EXCEPT !.idx = call[l].idx, !.kind = kind,
                                                  !.snap = snap]]

\* The loop reloads, announces itself with the run's config, and sees where to
\* start.
ConfigLoop(l) ==
    /\ lpc[l] = "queued" /\ StartIndex <= MaxRound
    /\ lpc' = [lpc EXCEPT ![l] = "start"]
    /\ loop' = [loop EXCEPT ![l] = [@ EXCEPT !.idx = StartIndex, !.left = RoundCount,
                                             !.seen = latest]]
    /\ config' = TRUE
    /\ UNCHANGED <<pool, input, progress, ratings, latest, root, gameVars, cpc, call,
                   redVars, drainVars, faults>>

\* It calls the first round.
StartLoop(l) ==
    /\ lpc[l] = "start"
    /\ lpc' = [lpc EXCEPT ![l] = "wait"]
    /\ cpc' = [cpc EXCEPT ![l] = "begin"]
    /\ call' = [call EXCEPT ![l] = [NoCall EXCEPT !.pool = loop[l].pool, !.idx = loop[l].idx]]
    /\ UNCHANGED <<pool, volumeVars, gameVars, loop, redVars, drainVars, faults>>

\* A round call reloads and looks whether the round was rated or begun before.
BeginRound(l) ==
    LET r == call[l].idx
    IN  /\ cpc[l] = "begin"
        /\ \/ ratings[r].pool # 0 /\ Return(l, "rated", ratings[r])
           \/ /\ ratings[r].pool = 0 /\ input[r] # 0
              /\ \/ progress[r] = "skipped" /\ Return(l, "skipped", NoRatings)
                 \/ /\ progress[r] # "skipped"
                    /\ input[r] # call[l].pool \/ ~ Complete(r)
                    /\ Return(l, "running", NoRatings)
                 \/ /\ progress[r] # "skipped"
                    /\ input[r] = call[l].pool /\ Complete(r)
                    /\ cpc' = [cpc EXCEPT ![l] = "write"]
                    /\ call' = [call EXCEPT ![l].seen = View]
           \/ /\ ratings[r].pool = 0 /\ input[r] = 0
              /\ cpc' = [cpc EXCEPT ![l] = "open"]
              /\ call' = [call EXCEPT ![l].seen = View]
        /\ UNCHANGED <<pool, volumeVars, gameVars, lpc, loop, redVars, drainVars, faults>>

\* It writes the round's input and lets the games play.
OpenRound(l) ==
    LET r == call[l].idx
    IN  /\ cpc[l] = "open"
        /\ input' = [input EXCEPT ![r] = call[l].pool]
        /\ WriteProgress(r, "running", call[l].seen)
        /\ live' = [live EXCEPT ![r] = Max({@, Games(call[l].pool)})]
        /\ quiet' = [quiet EXCEPT ![r] = FALSE] /\ old' = [old EXCEPT ![r] = FALSE]
        /\ cpc' = [cpc EXCEPT ![l] = "play"]
        /\ UNCHANGED <<pool, config, ratings, latest, played, lpc, loop, redVars, drainVars,
                       faults>>
        /\ call' = [call EXCEPT ![l].seen = View']

\* All games answered: the ratings, judged by what the call saw at the start.
WriteRound(l) ==
    LET r == call[l].idx
    IN  /\ \/ cpc[l] = "write"
           \/ cpc[l] = "play" /\ played[r] >= Games(call[l].pool)
        /\ WriteOutputs(r, call[l].pool, Min({played[r], Games(call[l].pool)}), FALSE,
                        call[l].seen)
        /\ Return(l, "rated", ratings'[r])
        /\ UNCHANGED <<pool, gameVars, lpc, loop, redVars, drainVars, faults>>

\* Its games are gone: the call fails, and the loop that waits for it.
FailRound(l) ==
    /\ cpc[l] = "play"
    /\ live[call[l].idx] = 0 /\ played[call[l].idx] < Games(call[l].pool)
    /\ EndCall(l) /\ EndLoop(l)
    /\ UNCHANGED <<pool, volumeVars, gameVars, redVars, drainVars, faults>>

\* The loop publishes what the round returned, judged by its own mount, and goes
\* on; behind an unfinished round it ends, and a skipped one has no snapshot to
\* go on from.
TakeRound(l) ==
    LET r == call[l].idx
        snap == call[l].snap
        publish == snap.global /\ Publishes(loop[l].seen, r, snap.pool)
    IN  /\ lpc[l] = "wait" /\ cpc[l] = "done"
        /\ IF call[l].kind = "rated" /\ publish
           THEN latest' = [round |-> r, pool |-> snap.pool]
           ELSE UNCHANGED latest
        /\ IF call[l].kind = "rated" /\ loop[l].left > 1 /\ r < MaxRound
           THEN /\ loop' = [loop EXCEPT ![l] = [loop[l] EXCEPT !.idx = r + 1, !.left = @ - 1,
                                 !.seen = IF publish THEN latest' ELSE @]]
                /\ cpc' = [cpc EXCEPT ![l] = "begin"]
                /\ call' = [call EXCEPT ![l] = [NoCall EXCEPT !.pool = loop[l].pool,
                                                              !.idx = r + 1]]
                /\ UNCHANGED lpc
           ELSE EndLoop(l) /\ EndCall(l)
        /\ UNCHANGED <<pool, config, input, progress, ratings, root, gameVars, redVars,
                       drainVars, faults>>

\* A round call goes on without its loop; nobody takes its result.
DropRound(l) ==
    /\ lpc[l] = "idle" /\ cpc[l] = "done"
    /\ EndCall(l)
    /\ UNCHANGED <<pool, volumeVars, gameVars, lpc, loop, redVars, drainVars, faults>>

CrashLoop(l) ==
    /\ lpc[l] # "idle" /\ Fault("loop")
    /\ EndLoop(l)
    /\ UNCHANGED <<pool, volumeVars, gameVars, cpc, call, redVars, drainVars>>

CrashRound(l) ==
    /\ cpc[l] \in {"begin", "open", "play", "write"} /\ Fault("call")
    /\ EndCall(l) /\ EndLoop(l)
    /\ UNCHANGED <<pool, volumeVars, gameVars, redVars, drainVars>>

(***************************************************************************)
(* Games, and time.                                                        *)
(***************************************************************************)
OverOrSkipped(r) == ratings[r].pool # 0 \/ progress[r] = "skipped"

\* Mutant: a game that is played again counts again.
PlayAnyGame(r) ==
    /\ live[r] > 0
    /\ played' = [played EXCEPT ![r] = @ + 1]
    /\ quiet' = [quiet EXCEPT ![r] = FALSE]
    /\ UNCHANGED <<pool, volumeVars, live, old, loopVars, redVars, drainVars, faults>>

PlayGame(r) ==
    /\ played[r] < live[r]
    /\ played' = [played EXCEPT ![r] = @ + 1]
    /\ quiet' = [quiet EXCEPT ![r] = FALSE]
    /\ UNCHANGED <<pool, volumeVars, live, old, loopVars, redVars, drainVars, faults>>

GamesDie(r) ==
    /\ played[r] < live[r] /\ played[r] \in DiesAt /\ Fault("games")
    /\ live' = [live EXCEPT ![r] = 0]
    /\ UNCHANGED <<pool, volumeVars, played, quiet, old, loopVars, redVars, drainVars>>

\* Ten minutes without output.  While games are played that is a slow game.
Quieten(r) ==
    /\ input[r] # 0 /\ ~ OverOrSkipped(r) /\ ~ quiet[r]
    /\ IF played[r] < live[r] THEN Fault("slow") ELSE UNCHANGED faults
    /\ quiet' = [quiet EXCEPT ![r] = TRUE]
    /\ UNCHANGED <<pool, volumeVars, played, live, old, loopVars, redVars, drainVars>>

\* An hour since the round's input.
GrowOld(r) ==
    /\ input[r] # 0 /\ ~ OverOrSkipped(r) /\ ~ old[r]
    /\ IF played[r] < live[r] THEN Fault("slow") ELSE UNCHANGED faults
    /\ old' = [old EXCEPT ![r] = TRUE]
    /\ UNCHANGED <<pool, volumeVars, played, live, quiet, loopVars, redVars, drainVars>>

GrowPool ==
    /\ pool < MaxPool
    /\ pool' = pool + 1
    /\ UNCHANGED <<volumeVars, gameVars, loopVars, redVars, drainVars, faults>>

(***************************************************************************)
(* Reducers: started by a drain, or by hand for any round.                 *)
(***************************************************************************)
EndReduce(e) == rpc' = [rpc EXCEPT ![e] = "idle"] /\ red' = [red EXCEPT ![e] = NoCall]

\* Mutant: whatever is there is reduced.
ReadAnyRound(e) ==
    LET r == red[e].idx
    IN  /\ rpc[e] = "read"
        /\ rpc' = [rpc EXCEPT ![e] = "write"]
        /\ red' = [red EXCEPT ![e] = [@ EXCEPT !.pool = input[r], !.seen = View,
                                              !.games = Min({played[r], Games(input[r])})]]
        /\ UNCHANGED <<pool, volumeVars, gameVars, loopVars, drainVars, faults>>

ReadRound(e) ==
    LET r == red[e].idx
    IN  /\ rpc[e] = "read"
        /\ IF Complete(r) \/ red[e].partial
           THEN /\ rpc' = [rpc EXCEPT ![e] = "write"]
                /\ red' = [red EXCEPT ![e] =
                      [@ EXCEPT !.pool = input[r], !.seen = View,
                                !.games = Min({played[r], Games(input[r])})]]
           ELSE EndReduce(e)
        /\ UNCHANGED <<pool, volumeVars, gameVars, loopVars, drainVars, faults>>

ReduceRound(e) ==
    /\ rpc[e] = "write"
    /\ WriteOutputs(red[e].idx, red[e].pool, red[e].games, red[e].partial, red[e].seen)
    /\ EndReduce(e)
    /\ UNCHANGED <<pool, gameVars, loopVars, drainVars, faults>>

RescueRound(e, r, partial) ==
    /\ rpc[e] = "idle" /\ input[r] # 0 /\ Fault("rescue")
    /\ rpc' = [rpc EXCEPT ![e] = "read"]
    /\ red' = [red EXCEPT ![e] = [NoCall EXCEPT !.idx = r, !.partial = partial]]
    /\ UNCHANGED <<pool, volumeVars, gameVars, loopVars, drainVars>>

CrashReducer(e) ==
    /\ rpc[e] # "idle" /\ Fault("reducer")
    /\ EndReduce(e)
    /\ UNCHANGED <<pool, volumeVars, gameVars, loopVars, drainVars>>

\* A progress report, asked for by hand, writes what the files say, whatever the
\* progress was before.
ReportProgress(r) ==
    /\ Fault("report")
    /\ WriteProgress(r, IF input[r] = 0 THEN "waiting"
                        ELSE IF Complete(r) THEN "complete" ELSE "running", View)
    /\ UNCHANGED <<pool, config, input, ratings, latest, gameVars, loopVars, redVars,
                   drainVars>>

(***************************************************************************)
(* Drains.                                                                 *)
(***************************************************************************)
Goto(d, step) == dpc' = [dpc EXCEPT ![d] = step]
EndDrain(d) == Goto(d, "idle") /\ drain' = [drain EXCEPT ![d] = NoDrain]

\* The rounds the tick's status report calls active.
ActiveRounds == {r \in RoundIds : /\ input[r] # 0 /\ ratings[r].pool = 0
                                  /\ progress[r] # "skipped" /\ r >= latest.round - 1}

\* Mutant: the tick waits for an active round, whatever became of it.
TickDueBehindNoRound ==
    IF ActiveRounds = {} THEN pool > latest.pool
    ELSE pool > latest.pool /\ latest.pool > 0 /\ input[Max(ActiveRounds)] <= latest.pool

\* Does the tick start a drain?  Behind an active round only when that round has
\* output that stopped, or covers no more than the latest ratings.
TickDue ==
    LET current == Max(ActiveRounds)
    IN  IF ActiveRounds = {} THEN pool > latest.pool
        ELSE \/ played[current] > 0 /\ (quiet[current] \/ (old[current] /\ ~ Complete(current)))
             \/ pool > latest.pool /\ latest.pool > 0 /\ input[current] <= latest.pool

\* The tick's container mounts the volume; it does not reload it.
Mount ==
    /\ due # TickDue
    /\ due' = TickDue
    /\ UNCHANGED <<pool, volumeVars, gameVars, loopVars, redVars, dpc, drain, claim, faults>>

\* The tick starts a drain, or a drain is requested by hand.
StartDrain(d) ==
    /\ dpc[d] = "idle"
    /\ (due /\ UNCHANGED faults) \/ (~ due /\ Fault("request"))
    /\ Goto(d, "load")
    /\ UNCHANGED <<pool, volumeVars, gameVars, loopVars, redVars, drain, due, claim>>

\* With the writer finished a drain spawns a loop for a larger pool; else it looks
\* after the oldest unrated round.
Continue(d, p, rated, finished, unrated) ==
    \/ finished /\ p > rated /\ Goto(d, "spawn")
       /\ drain' = [drain EXCEPT ![d] = [NoDrain EXCEPT !.pool = p, !.latest = rated]]
    \/ ~ finished /\ unrated # {} /\ Goto(d, "judge")
         /\ drain' = [drain EXCEPT ![d] =
               [NoDrain EXCEPT !.pool = p, !.latest = rated, !.round = Min(unrated)]]
    \/ (IF finished THEN p <= rated ELSE unrated = {}) /\ EndDrain(d)

Load(d) ==
    /\ dpc[d] = "load"
    /\ Continue(d, pool, latest.pool, Existing => WriterFinished, UnratedRounds)
    /\ UNCHANGED <<pool, volumeVars, gameVars, loopVars, redVars, due, claim, faults>>

Different(d, r)      == input[r] # drain[d].pool
\* Mutant: a round need not be an hour old.
PartialReduceSoon(d, r) == ~ Different(d, r) /\ played[r] > 0 /\ ~ Complete(r)

PartialReduce(d, r)  == ~ Different(d, r) /\ old[r] /\ played[r] > 0 /\ ~ Complete(r)
AlreadyRated(d, r)   == drain[d].latest > 0 /\ input[r] <= drain[d].latest

\* Mutant: a round of another pool without output is skipped at once.
SkipWithoutOutput(d, r) ==
    /\ ~ PartialReduce(d, r)
    /\ \/ Different(d, r) /\ played[r] = 0
       \/ Different(d, r) /\ drain[d].pool > input[r] /\ AlreadyRated(d, r)
       \/ quiet[r] /\ ~ Complete(r)

SkipRound(d, r) ==
    /\ ~ PartialReduce(d, r)
    /\ \/ Different(d, r) /\ played[r] = 0 /\ (AlreadyRated(d, r) \/ quiet[r])
       \/ Different(d, r) /\ drain[d].pool > input[r] /\ AlreadyRated(d, r)
       \/ quiet[r] /\ ~ Complete(r)

\* Reload, and decide what becomes of the round.
Judge(d) ==
    LET r == drain[d].round
        partial == PartialReduce(d, r)
    IN  /\ dpc[d] = "judge"
        /\ \/ SkipRound(d, r) /\ Goto(d, "skip")
                /\ drain' = [drain EXCEPT ![d].seen = View]
           \/ /\ ~ SkipRound(d, r) /\ (Complete(r) \/ partial)
              /\ IF claim[r] = "fresh" THEN EndDrain(d)
                 ELSE /\ Goto(d, "reduce")
                      /\ drain' = [drain EXCEPT ![d].partial = partial,
                                                ![d].takeover = claim[r] = "aged"]
           \/ ~ SkipRound(d, r) /\ ~ Complete(r) /\ ~ partial /\ EndDrain(d)
        /\ UNCHANGED <<pool, volumeVars, gameVars, loopVars, redVars, due, claim, faults>>

\* The round's progress becomes "skipped"; the next round, or a loop.
Skip(d) ==
    /\ dpc[d] = "skip"
    /\ WriteProgress(drain[d].round, "skipped", drain[d].seen)
    /\ UNCHANGED <<config, input, ratings, latest>>
    /\ Continue(d, drain[d].pool, drain[d].latest, WriterFinished', UnratedRounds')
    /\ UNCHANGED <<pool, gameVars, loopVars, redVars, due, claim, faults>>

\* Claim the reduction and spawn it.
Reduce(d) ==
    LET r == drain[d].round
    IN  /\ dpc[d] = "reduce"
        /\ IF drain[d].takeover \/ claim[r] = "none"
           THEN /\ claim' = [claim EXCEPT ![r] = "fresh"]
                /\ \E e \in Reducers :
                      /\ rpc[e] = "idle"
                      /\ rpc' = [rpc EXCEPT ![e] = "read"]
                      /\ red' = [red EXCEPT ![e] =
                            [NoCall EXCEPT !.idx = r, !.partial = drain[d].partial]]
           ELSE UNCHANGED <<claim, redVars>>
        /\ EndDrain(d)
        /\ UNCHANGED <<pool, volumeVars, gameVars, loopVars, due, faults>>

\* The claim of the run keeps a drain from spawning a loop beside another, or for
\* ratings published since it looked (IntakeDrain says when it is taken over).
Outrun(d) ==
    \/ \E l \in Loops : lpc[l] # "idle" \/ cpc[l] # "none"
    \/ latest.pool # drain[d].latest

Spawn(d) ==
    /\ dpc[d] = "spawn"
    /\ IF Outrun(d) THEN UNCHANGED <<lpc, loop>>
       ELSE \E l \in Loops : /\ lpc' = [lpc EXCEPT ![l] = "queued"]
                             /\ loop' = [loop EXCEPT ![l].pool = drain[d].pool]
    /\ EndDrain(d)
    /\ UNCHANGED <<pool, volumeVars, gameVars, cpc, call, redVars, due, claim, faults>>

CrashDrain(d) ==
    /\ dpc[d] # "idle" /\ Fault("drain")
    /\ EndDrain(d)
    /\ UNCHANGED <<pool, volumeVars, gameVars, loopVars, redVars, due, claim>>

\* A day passes over a reduce claim nobody works for.
AgeClaim(r) ==
    /\ claim[r] = "fresh"
    /\ \A e \in Reducers : rpc[e] = "idle" \/ red[e].idx # r
    /\ ~ OverOrSkipped(r)
    /\ claim' = [claim EXCEPT ![r] = "aged"]
    /\ UNCHANGED <<pool, volumeVars, gameVars, loopVars, redVars, dpc, drain, due, faults>>

LoopStep(l) ==
    \/ ConfigLoop(l) \/ StartLoop(l) \/ BeginRound(l) \/ OpenRound(l)
    \/ WriteRound(l) \/ FailRound(l) \/ TakeRound(l) \/ DropRound(l)
ReducerStep(e) == ReadRound(e) \/ ReduceRound(e)
DrainStep(d) == Load(d) \/ Judge(d) \/ Skip(d) \/ Reduce(d) \/ Spawn(d)

Next ==
    \/ \E l \in Loops : LoopStep(l) \/ CrashLoop(l) \/ CrashRound(l)
    \/ \E e \in Reducers : ReducerStep(e) \/ CrashReducer(e)
    \/ \E e \in Reducers, r \in RoundIds, partial \in BOOLEAN : RescueRound(e, r, partial)
    \/ \E d \in Drains : StartDrain(d) \/ DrainStep(d) \/ CrashDrain(d)
    \/ \E r \in RoundIds : \/ PlayGame(r) \/ GamesDie(r) \/ Quieten(r) \/ GrowOld(r)
                           \/ ReportProgress(r) \/ AgeClaim(r)
    \/ GrowPool \/ Mount

Spec == Init /\ [][Next]_vars

\* Calls that run make progress, the tick is scheduled and gets a new container
\* now and then, games end, and time passes.
Fairness ==
    /\ \A l \in Loops : WF_vars(LoopStep(l))
    /\ \A e \in Reducers : WF_vars(ReducerStep(e))
    /\ \A d \in Drains : WF_vars(due /\ StartDrain(d)) /\ WF_vars(DrainStep(d))
    /\ \A r \in RoundIds : /\ WF_vars(PlayGame(r)) /\ WF_vars(AgeClaim(r))
                           /\ WF_vars(faults' = faults /\ (Quieten(r) \/ GrowOld(r)))
    /\ WF_vars(Mount)

FairSpec == Spec /\ Fairness
------------------------------------------------------------------------------
\* Ratings count every game of their pool, unless they were reduced from part of
\* the games on purpose: a round is rated from what is on the volume only when
\* all its games are.
RatingsAreComplete ==
    \A r \in RoundIds :
        ratings[r].pool # 0 /\ ~ ratings[r].partial => ratings[r].games >= Games(ratings[r].pool)

\* A drain gives a round up only when its games are gone, or when a round of as
\* many checkpoints has been rated, however late the drain acts on what it read.
\* (That round need not be the latest any more: a late reduction may put an older
\* one back.)
OnlyDeadRoundsAreSkipped ==
    [][\A r \in RoundIds :
          progress'[r] = "skipped" /\ progress[r] # "skipped"
              => \/ played[r] >= live[r]
                 \/ \E s \in RoundIds : ratings[s].pool >= input[r]]_progress

\* The ratings of a round never lose games: a reduction started for a round that
\* seemed dead does not replace what the round itself has written meanwhile.
RatingsNeverLoseGames ==
    [][\A r \in RoundIds : ratings'[r].games >= ratings[r].games]_ratings

\* Once the intake holds a pool the scheduled tick alone sees to it that it is
\* eventually rated, though the games of a round die behind some output, and
\* whatever is reduced or reported by hand.
PoolIsRated == \A p \in Pools : (pool = p) ~> (latest.pool >= p)
==============================================================================
