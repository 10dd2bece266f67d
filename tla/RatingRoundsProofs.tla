-------------------------- MODULE RatingRoundsProofs --------------------------
(***************************************************************************)
(* Proofs about rating rounds: types, that ratings count every game unless *)
(* they were reduced from part of them on purpose, and that a round's      *)
(* ratings never lose games where silence means death.                     *)
(***************************************************************************)
EXTENDS RatingRounds, FiniteSetTheorems, WellFoundedInduction, TLAPS

(***************************************************************************)
(* Records, spelled out.                                                   *)
(***************************************************************************)
PoolOrNone == {0} \cup Pools
RoundOrNone == RoundIds \cup {-1}
GameCounts == 0..Games(MaxPool)
Ratings == [pool : PoolOrNone, global : BOOLEAN, games : GameCounts, partial : BOOLEAN]
Views == [latest : Snapshot, root : RoundOrNone]
LoopRecords == [pool : PoolOrNone, idx : RoundIds, left : Int, seen : Snapshot]
CallRecords == [pool : PoolOrNone, idx : RoundIds, seen : Views, partial : BOOLEAN,
                games : GameCounts, kind : {"none", "rated", "skipped", "running"},
                snap : Ratings]
DrainRecords == [pool : PoolOrNone, latest : PoolOrNone, round : RoundIds, partial : BOOLEAN,
                 takeover : BOOLEAN, seen : Views]

VolumeTypes ==
    /\ pool \in Pools /\ config \in BOOLEAN
    /\ input \in [RoundIds -> PoolOrNone]
    /\ progress \in [RoundIds -> {"none", "waiting", "running", "skipped", "complete"}]
    /\ ratings \in [RoundIds -> Ratings]
    /\ latest \in Snapshot
    /\ root \in [round : RoundOrNone,
                status : {"none", "waiting", "running", "skipped", "complete"}]

GameTypes ==
    /\ played \in [RoundIds -> GameCounts] /\ live \in [RoundIds -> GameCounts]
    /\ quiet \in [RoundIds -> BOOLEAN] /\ old \in [RoundIds -> BOOLEAN]

LoopTypes ==
    /\ lpc \in [Loops -> {"idle", "queued", "start", "wait"}] /\ loop \in [Loops -> LoopRecords]
    /\ cpc \in [Loops -> {"none", "begin", "open", "play", "write", "done"}]
    /\ call \in [Loops -> CallRecords]

ReducerTypes ==
    /\ rpc \in [Reducers -> {"idle", "read", "write"}] /\ red \in [Reducers -> CallRecords]

DrainTypes ==
    /\ dpc \in [Drains -> {"idle", "load", "judge", "skip", "reduce", "spawn"}]
    /\ drain \in [Drains -> DrainRecords]
    /\ due \in BOOLEAN
    /\ claim \in [RoundIds -> {"none", "fresh", "aged"}]

(***************************************************************************)
(* The invariant, by the kind of process.                                  *)
(***************************************************************************)
VolumeInv == VolumeTypes /\ RatingsAreComplete

\* A loop under way has a pool, and a round it is about to rate has all its games.
LoopInv ==
    /\ LoopTypes
    /\ \A l \in Loops :
          /\ lpc[l] # "idle" => loop[l].pool \in Pools
          /\ cpc[l] \in {"begin", "open", "play", "write"} => call[l].pool \in Pools
          /\ cpc[l] = "write" => played[call[l].idx] >= Games(call[l].pool)

\* A reducer works on a round that was opened, and what it is about to write
\* counts every game, or is partial on purpose.
ReducerInv ==
    /\ ReducerTypes
    /\ \A e \in Reducers :
          /\ rpc[e] # "idle" => input[red[e].idx] # 0
          /\ rpc[e] = "write" => /\ red[e].pool \in Pools
                                 /\ ~ red[e].partial => red[e].games >= Games(red[e].pool)

\* A drain under way has a pool, and looks after a round that was opened.
DrainInv ==
    /\ DrainTypes
    /\ \A d \in Drains :
          /\ dpc[d] \in {"judge", "skip", "spawn"} => drain[d].pool \in Pools
          /\ dpc[d] \in {"judge", "skip", "reduce"} => input[drain[d].round] # 0

RoundsInv ==
    /\ VolumeInv /\ GameTypes /\ LoopInv /\ ReducerInv /\ DrainInv
    /\ faults \in 0..MaxFaults

(***************************************************************************)
(* Where a round is silent only when its games are gone, and no reduction  *)
(* is started by hand, a round that is reduced is settled.                 *)
(***************************************************************************)
SilenceIsDeath == "slow" \notin FaultKinds /\ "rescue" \notin FaultKinds

Settled(r) == input[r] # 0 /\ played[r] >= live[r]

Busy(l) == lpc[l] # "idle" \/ cpc[l] # "none"

\* One loop at a time, which opens rounds that nobody opened before.
OneLoopInv ==
    /\ \A k, l \in Loops : Busy(k) /\ Busy(l) => k = l
    /\ \A l \in Loops :
          /\ cpc[l] = "open" => input[call[l].idx] = 0
          /\ cpc[l] \in {"play", "write"} => input[call[l].idx] = call[l].pool

\* Whatever somebody takes for rated is covered by a round's ratings.
Covered(p) == \E s \in RoundIds : ratings[s].pool >= p

TakenInv ==
    /\ Covered(latest.pool)
    /\ \A l \in Loops : Covered(call[l].snap.pool)

\* A silent round is settled, and so is a rated one, whose ratings count what
\* was played.
GamesInv ==
    \A r \in RoundIds :
        /\ input[r] = 0 => /\ played[r] = 0 /\ live[r] = 0 /\ ~ quiet[r] /\ ~ old[r]
                           /\ ratings[r].pool = 0
        /\ input[r] # 0 => played[r] <= Games(input[r]) /\ live[r] <= Games(input[r])
        /\ quiet[r] \/ old[r] => played[r] >= live[r]
        /\ ratings[r].pool = 0 => ratings[r].games = 0
        /\ ratings[r].pool # 0 => /\ Settled(r)
                                  /\ ratings[r].games = played[r] /\ ratings[r].pool = input[r]

\* Reducers work on settled rounds, and write what was played.
SettledInv ==
    \A e \in Reducers :
        /\ rpc[e] # "idle" => Settled(red[e].idx)
        /\ rpc[e] = "write" => /\ red[e].games = played[red[e].idx]
                               /\ red[e].pool = input[red[e].idx]

\* Drains give up settled rounds, or rounds no larger than one that is rated.
GivenUpInv ==
    \A d \in Drains :
        /\ Covered(drain[d].latest)
        /\ dpc[d] = "reduce" => Settled(drain[d].round)
        /\ dpc[d] = "skip" => Settled(drain[d].round) \/ Covered(input[drain[d].round])

SilenceInv == RoundsInv /\ OneLoopInv /\ TakenInv /\ GamesInv /\ SettledInv /\ GivenUpInv

(***************************************************************************)
(* The least and the greatest of a set.                                    *)
(***************************************************************************)
\* A set of natural numbers has a least element.
LEMMA LeastExists == ASSUME NEW T \in SUBSET Nat, T # {} PROVE \E x \in T : \A y \in T : x <= y
<1> DEFINE Upto == {0..x : x \in T}
<1>1. \A x \in T : 0..x \in FiniteSubsetsOf(Nat) BY FS_Interval DEF FiniteSubsetsOf
<1>2. Upto \subseteq FiniteSubsetsOf(Nat) /\ Upto # {} BY <1>1
<1>3. PICK I \in Upto : \A J \in Upto : ~ (<<J, I>> \in StrictSubsetOrdering(Nat))
  <2> HIDE DEF Upto
  <2> QED BY <1>2, WFMin, FS_StrictSubsetOrderingWellFounded
<1>4. PICK x \in T : I = 0..x OBVIOUS
<1>5. ASSUME NEW y \in T, y < x PROVE FALSE
  <2>1. 0..y \subseteq I /\ 0..y # I BY <1>4, <1>5
  <2>2. <<0..y, I>> \in StrictSubsetOrdering(Nat) BY <2>1, <1>4 DEF StrictSubsetOrdering
  <2>3. 0..y \in Upto OBVIOUS
  <2> QED BY <1>3, <2>2, <2>3
<1> QED BY <1>4, <1>5

LEMMA MinIsIn == ASSUME NEW S \in SUBSET Nat, S # {} PROVE Min(S) \in S
BY LeastExists DEF Min

\* A set that starts at -1 and has a bound has a greatest element.
LEMMA MaxIsIn ==
    ASSUME NEW S \in SUBSET Int, S # {}, NEW k \in Nat, \A x \in S : -1 <= x /\ x <= k
    PROVE  Max(S) \in S
<1> DEFINE T == {u \in Nat : \A x \in S : x + 1 <= u}
<1>1. PICK u \in T : \A y \in T : u <= y
  <2>1. k + 1 \in T OBVIOUS
  <2> QED BY <2>1, LeastExists
<1>2. u - 1 \in S
  <2>1. SUFFICES ASSUME u - 1 \notin S PROVE FALSE OBVIOUS
  <2>2. PICK x \in S : TRUE OBVIOUS
  <2>3. u - 1 \in T BY <2>1, <2>2
  <2> QED BY <1>1, <2>3
<1>3. \E x \in S : \A y \in S : x >= y BY <1>1, <1>2
<1> QED BY <1>3 DEF Max

LEMMA TwoNumbers ==
    ASSUME NEW a \in Int, NEW b \in Int
    PROVE  /\ Min({a, b}) = IF a <= b THEN a ELSE b
           /\ Max({a, b}) = IF a <= b THEN b ELSE a
           /\ Max({a, b}) \in {a, b}
<1>1. \E x \in {a, b} : \A y \in {a, b} : x <= y BY SMT
<1>2. \E x \in {a, b} : \A y \in {a, b} : x >= y BY SMT
<1>3. Min({a, b}) \in {a, b} /\ \A y \in {a, b} : Min({a, b}) <= y BY <1>1 DEF Min
<1>4. Max({a, b}) \in {a, b} /\ \A y \in {a, b} : Max({a, b}) >= y BY <1>2 DEF Max
<1> QED BY <1>3, <1>4

(***************************************************************************)
(* Types of the operators.                                                 *)
(***************************************************************************)
LEMMA NumberTypes ==
    /\ Pools \subseteq Nat /\ PoolOrNone \subseteq Nat /\ RoundIds \subseteq Nat
    /\ 0 \in RoundIds /\ -1 \notin RoundIds /\ 0 \notin Pools
    /\ Games(MaxPool) \in Nat /\ 0 \in GameCounts /\ GameCounts \subseteq Nat
    /\ \A p \in Pools : Games(p) \in GameCounts /\ Games(p) >= 1
BY RoundsAssumption DEF Pools, PoolOrNone, RoundIds, Games, GameCounts

LEMMA CountIsNat == ASSUME NEW n \in GameCounts PROVE n \in Nat
BY NumberTypes

LEMMA PoolGames ==
    ASSUME NEW p \in Pools
    PROVE  p # 0 /\ p \in PoolOrNone /\ Games(p) \in GameCounts /\ Games(p) \in Nat
BY NumberTypes DEF PoolOrNone

LEMMA NothingTypes ==
    /\ NoLatest \in Snapshot /\ NoRatings \in Ratings /\ NoView \in Views
    /\ NoLoop \in LoopRecords /\ NoCall \in CallRecords /\ NoDrain \in DrainRecords
    /\ NoRoot \in [round : RoundOrNone,
                   status : {"none", "waiting", "running", "skipped", "complete"}]
<1>1. NoLatest \in Snapshot BY DEF NoLatest, Snapshot
<1>2. NoRatings \in Ratings BY NumberTypes DEF NoRatings, Ratings, PoolOrNone
<1>3. NoView \in Views BY <1>1 DEF NoView, Views, RoundOrNone
<1>4. NoLoop \in LoopRecords BY <1>1, NumberTypes DEF NoLoop, LoopRecords, PoolOrNone
<1>5. NoCall \in CallRecords BY <1>2, <1>3, NumberTypes DEF NoCall, CallRecords, PoolOrNone
<1>6. NoDrain \in DrainRecords BY <1>3, NumberTypes DEF NoDrain, DrainRecords, PoolOrNone
<1>7. NoRoot \in [round : RoundOrNone,
                  status : {"none", "waiting", "running", "skipped", "complete"}]
  BY DEF NoRoot, RoundOrNone
<1> QED BY <1>1, <1>2, <1>3, <1>4, <1>5, <1>6, <1>7

LEMMA ViewType == ASSUME VolumeTypes PROVE View \in Views
BY DEF VolumeTypes, View, Views

\* A loop starts at a round index.
LEMMA StartType ==
    ASSUME VolumeTypes, StartIndex <= MaxRound PROVE StartIndex \in RoundIds
<1> DEFINE S == {latest.round} \cup {r \in RoundIds : r > latest.round /\ progress[r] = "skipped"}
<1>1. latest.round \in RoundIds \cup {-1} BY DEF VolumeTypes, Snapshot
<1>2. S \in SUBSET Int /\ S # {} /\ \A x \in S : -1 <= x /\ x <= MaxRound
  BY <1>1, RoundsAssumption DEF RoundIds
<1>3. MaxRound \in Nat /\ StartIndex = Max(S) + 1 BY RoundsAssumption DEF StartIndex
<1> HIDE DEF S
<1>4. Max(S) \in S BY <1>2, <1>3, MaxIsIn
<1>5. Max(S) \in Int /\ Max(S) >= -1 BY <1>2, <1>4
<1> QED BY <1>3, <1>5 DEF RoundIds

\* What a process writes is of its type.
LEMMA ProgressTypes ==
    ASSUME VolumeTypes, NEW r \in RoundIds,
           NEW status \in {"none", "waiting", "running", "skipped", "complete"}, NEW seen,
           WriteProgress(r, status, seen)
    PROVE  /\ progress' \in [RoundIds -> {"none", "waiting", "running", "skipped", "complete"}]
           /\ root' \in [round : RoundOrNone,
                         status : {"none", "waiting", "running", "skipped", "complete"}]
<1>1. /\ progress' = [progress EXCEPT ![r] = status]
      /\ root' \in {root, [round |-> r, status |-> status]}
  BY DEF WriteProgress
<1> QED BY <1>1 DEF VolumeTypes, RoundOrNone

LEMMA OutputTypes ==
    ASSUME VolumeTypes, NEW r \in RoundIds, NEW p \in Pools, NEW games \in GameCounts,
           NEW partial \in BOOLEAN, NEW seen, WriteOutputs(r, p, games, partial, seen),
           pool' = pool
    PROVE  VolumeTypes'
<1> DEFINE publish == Publishes(seen.latest, r, p)
           new == [pool |-> p, global |-> publish, games |-> games, partial |-> partial]
<1>1. publish \in BOOLEAN BY DEF Publishes
<1>2. /\ ratings' = [ratings EXCEPT ![r] = new]
      /\ latest' \in {latest, [round |-> r, pool |-> p]}
      /\ WriteProgress(r, "complete", seen) /\ UNCHANGED <<config, input>>
  BY DEF WriteOutputs
<1> HIDE DEF publish
<1>3. new \in Ratings BY <1>1 DEF Ratings, PoolOrNone
<1> HIDE DEF new
<1>4. latest' \in Snapshot BY <1>2 DEF VolumeTypes, Snapshot
<1> QED BY <1>2, <1>3, <1>4, ProgressTypes DEF VolumeTypes

(***************************************************************************)
(* What the other processes do to the invariant of one kind.               *)
(***************************************************************************)
\* Rounds stay open, and games stay played.
Grows == \A r \in RoundIds : /\ input[r] # 0 => input'[r] # 0
                             /\ played'[r] >= played[r]

LEMMA StoppedGrows ==
    ASSUME VolumeTypes, GameTypes, UNCHANGED <<input, played>> PROVE Grows
<1>1. \A r \in RoundIds : played[r] \in Nat BY NumberTypes DEF GameTypes
<1> QED BY <1>1 DEF Grows

LEMMA LoopsStay == ASSUME LoopInv, GameTypes, GameTypes', UNCHANGED loopVars, Grows PROVE LoopInv'
<1>1. UNCHANGED <<lpc, loop, cpc, call>> BY DEF loopVars
<1>2. LoopTypes' BY <1>1 DEF LoopInv, LoopTypes
<1>3. ASSUME NEW l \in Loops, cpc[l] = "write" PROVE played'[call[l].idx] >= Games(call[l].pool)
  <2>1. call[l].idx \in RoundIds /\ call[l].pool \in Pools
    BY <1>3 DEF LoopInv, LoopTypes, CallRecords
  <2>2. /\ played[call[l].idx] \in Nat /\ played'[call[l].idx] \in Nat
        /\ Games(call[l].pool) \in Nat
    BY <2>1, NumberTypes DEF GameTypes
  <2> QED BY <1>3, <2>1, <2>2 DEF LoopInv, Grows
<1> QED BY <1>1, <1>2, <1>3 DEF LoopInv

LEMMA ReducersStay == ASSUME ReducerInv, UNCHANGED redVars, Grows PROVE ReducerInv'
<1>1. UNCHANGED <<rpc, red>> BY DEF redVars
<1>2. ReducerTypes' BY <1>1 DEF ReducerInv, ReducerTypes
<1>3. \A e \in Reducers : red[e].idx \in RoundIds BY DEF ReducerInv, ReducerTypes, CallRecords
<1> QED BY <1>1, <1>2, <1>3 DEF ReducerInv, Grows

LEMMA DrainsStay ==
    ASSUME DrainInv, UNCHANGED <<dpc, drain>>, Grows, due' \in BOOLEAN,
           claim' \in [RoundIds -> {"none", "fresh", "aged"}]
    PROVE  DrainInv'
<1>1. DrainTypes' BY DEF DrainInv, DrainTypes
<1>2. \A d \in Drains : drain[d].round \in RoundIds BY DEF DrainInv, DrainTypes, DrainRecords
<1> QED BY <1>1, <1>2 DEF DrainInv, Grows

LEMMA VolumeStays == ASSUME VolumeInv, UNCHANGED <<pool, volumeVars>> PROVE VolumeInv'
BY DEF VolumeInv, VolumeTypes, RatingsAreComplete, volumeVars

LEMMA GamesStay == ASSUME GameTypes, UNCHANGED gameVars PROVE GameTypes'
BY DEF GameTypes, gameVars

(***************************************************************************)
(* What a process does to its own kind.                                    *)
(***************************************************************************)
LEMMA LoopUpdate ==
    ASSUME LoopInv, GameTypes, GameTypes', Grows, NEW l \in Loops,
           NEW at \in {"idle", "queued", "start", "wait"}, NEW x \in LoopRecords,
           NEW step \in {"none", "begin", "open", "play", "write", "done"}, NEW c \in CallRecords,
           lpc' = [lpc EXCEPT ![l] = at], loop' = [loop EXCEPT ![l] = x],
           cpc' = [cpc EXCEPT ![l] = step], call' = [call EXCEPT ![l] = c],
           at # "idle" => x.pool \in Pools,
           step \in {"begin", "open", "play", "write"} => c.pool \in Pools,
           step = "write" => played'[c.idx] >= Games(c.pool)
    PROVE  LoopInv'
<1>1. LoopTypes' BY DEF LoopInv, LoopTypes
<1>2. /\ lpc'[l] = at /\ loop'[l] = x /\ cpc'[l] = step /\ call'[l] = c
      /\ \A k \in Loops : k # l => /\ lpc'[k] = lpc[k] /\ loop'[k] = loop[k]
                                   /\ cpc'[k] = cpc[k] /\ call'[k] = call[k]
  BY DEF LoopInv, LoopTypes
<1>3. ASSUME NEW k \in Loops, k # l, cpc[k] = "write"
      PROVE  played'[call[k].idx] >= Games(call[k].pool)
  <2>1. call[k].idx \in RoundIds /\ call[k].pool \in Pools
    BY <1>3 DEF LoopInv, LoopTypes, CallRecords
  <2>2. /\ played[call[k].idx] \in Nat /\ played'[call[k].idx] \in Nat
        /\ Games(call[k].pool) \in Nat
    BY <2>1, NumberTypes DEF GameTypes
  <2> QED BY <1>3, <2>1, <2>2 DEF LoopInv, Grows
<1> QED BY <1>1, <1>2, <1>3 DEF LoopInv

\* The variables of a loop that a step leaves alone.
LEMMA LoopSelf ==
    ASSUME LoopInv, NEW l \in Loops
    PROVE  /\ lpc = [lpc EXCEPT ![l] = lpc[l]] /\ loop = [loop EXCEPT ![l] = loop[l]]
           /\ cpc = [cpc EXCEPT ![l] = cpc[l]] /\ call = [call EXCEPT ![l] = call[l]]
           /\ lpc[l] \in {"idle", "queued", "start", "wait"} /\ loop[l] \in LoopRecords
           /\ cpc[l] \in {"none", "begin", "open", "play", "write", "done"}
           /\ call[l] \in CallRecords
BY DEF LoopInv, LoopTypes

LEMMA ReducerUpdate ==
    ASSUME ReducerInv, Grows, NEW e \in Reducers, NEW at \in {"idle", "read", "write"},
           NEW c \in CallRecords, rpc' = [rpc EXCEPT ![e] = at], red' = [red EXCEPT ![e] = c],
           at # "idle" => input'[c.idx] # 0,
           at = "write" => c.pool \in Pools /\ (~ c.partial => c.games >= Games(c.pool))
    PROVE  ReducerInv'
<1>1. ReducerTypes' BY DEF ReducerInv, ReducerTypes
<1>2. /\ rpc'[e] = at /\ red'[e] = c
      /\ \A k \in Reducers : k # e => rpc'[k] = rpc[k] /\ red'[k] = red[k]
  BY DEF ReducerInv, ReducerTypes
<1>3. \A k \in Reducers : red[k].idx \in RoundIds BY DEF ReducerInv, ReducerTypes, CallRecords
<1> QED BY <1>1, <1>2, <1>3 DEF ReducerInv, Grows

LEMMA DrainUpdate ==
    ASSUME DrainInv, Grows, NEW d \in Drains,
           NEW at \in {"idle", "load", "judge", "skip", "reduce", "spawn"}, NEW x \in DrainRecords,
           dpc' = [dpc EXCEPT ![d] = at], drain' = [drain EXCEPT ![d] = x], due' = due,
           claim' \in [RoundIds -> {"none", "fresh", "aged"}],
           at \in {"judge", "skip", "spawn"} => x.pool \in Pools,
           at \in {"judge", "skip", "reduce"} => input'[x.round] # 0
    PROVE  DrainInv'
<1>1. DrainTypes' BY DEF DrainInv, DrainTypes
<1>2. /\ dpc'[d] = at /\ drain'[d] = x
      /\ \A k \in Drains : k # d => dpc'[k] = dpc[k] /\ drain'[k] = drain[k]
  BY DEF DrainInv, DrainTypes
<1>3. \A k \in Drains : drain[k].round \in RoundIds BY DEF DrainInv, DrainTypes, DrainRecords
<1> QED BY <1>1, <1>2, <1>3 DEF DrainInv, Grows

\* Ratings that are written are complete or partial on purpose.
LEMMA OutputsKeep ==
    ASSUME VolumeInv, NEW r \in RoundIds, NEW p \in Pools, NEW games \in GameCounts,
           NEW partial \in BOOLEAN, NEW seen, WriteOutputs(r, p, games, partial, seen),
           pool' = pool, ~ partial => games >= Games(p)
    PROVE  VolumeInv'
<1>1. VolumeTypes' BY OutputTypes DEF VolumeInv
<1> DEFINE publish == Publishes(seen.latest, r, p)
           new == [pool |-> p, global |-> publish, games |-> games, partial |-> partial]
<1>2. ratings' = [ratings EXCEPT ![r] = new] BY DEF WriteOutputs
<1>3. new.pool = p /\ new.games = games /\ new.partial = partial OBVIOUS
<1> HIDE DEF publish, new
<1>4. \A s \in RoundIds : ratings'[s] = IF s = r THEN new ELSE ratings[s]
  BY <1>2 DEF VolumeInv, VolumeTypes
<1>5. RatingsAreComplete' BY <1>3, <1>4 DEF VolumeInv, RatingsAreComplete
<1> QED BY <1>1, <1>5 DEF VolumeInv

LEMMA FaultType ==
    ASSUME faults \in 0..MaxFaults, NEW kind, Fault(kind) PROVE faults' \in 0..MaxFaults
BY RoundsAssumption DEF Fault

(***************************************************************************)
(* The steps of a loop.                                                    *)
(***************************************************************************)
\* A loop's own step: the games, reducers and drains stay.
LEMMA LoopStepFrame ==
    ASSUME RoundsInv, VolumeInv', LoopInv', UNCHANGED <<gameVars, redVars, drainVars>>,
           faults' \in 0..MaxFaults, Grows
    PROVE  RoundsInv'
<1>1. GameTypes' BY GamesStay DEF RoundsInv
<1>2. ReducerInv' BY ReducersStay DEF RoundsInv
<1>3. DrainInv' BY DrainsStay DEF RoundsInv, drainVars, DrainInv, DrainTypes
<1> QED BY <1>1, <1>2, <1>3 DEF RoundsInv

LEMMA SameGrows ==
    ASSUME RoundsInv, UNCHANGED <<input, played>> PROVE Grows
BY StoppedGrows DEF RoundsInv, VolumeInv

LEMMA ConfigKeeps == ASSUME RoundsInv, NEW l \in Loops, ConfigLoop(l) PROVE RoundsInv'
<1> DEFINE x == [loop[l] EXCEPT !.idx = StartIndex, !.left = RoundCount, !.seen = latest]
<1>1. /\ lpc[l] = "queued" /\ StartIndex <= MaxRound /\ config' = TRUE
      /\ lpc' = [lpc EXCEPT ![l] = "start"] /\ loop' = [loop EXCEPT ![l] = x]
      /\ UNCHANGED <<pool, input, progress, ratings, latest, root, gameVars, cpc, call,
                     redVars, drainVars, faults>>
  BY DEF ConfigLoop
<1>2. Grows BY <1>1, SameGrows DEF gameVars
<1>3. VolumeInv' BY <1>1 DEF RoundsInv, VolumeInv, VolumeTypes, RatingsAreComplete
<1>4. StartIndex \in RoundIds /\ latest \in Snapshot /\ RoundCount \in Int
  BY <1>1, StartType, RoundsAssumption DEF RoundsInv, VolumeInv, VolumeTypes
<1>5. x \in LoopRecords /\ x.pool = loop[l].pool
  BY <1>4, LoopSelf DEF RoundsInv, LoopRecords
<1>6. loop[l].pool \in Pools BY <1>1 DEF RoundsInv, LoopInv
<1> HIDE DEF x
<1>7. GameTypes' BY <1>1, GamesStay DEF RoundsInv
<1>8. LoopInv'
  <2>1. /\ cpc' = [cpc EXCEPT ![l] = cpc[l]] /\ call' = [call EXCEPT ![l] = call[l]]
        /\ cpc[l] \in {"none", "begin", "open", "play", "write", "done"}
        /\ call[l] \in CallRecords
    BY <1>1, LoopSelf DEF RoundsInv
  <2>2. cpc[l] \in {"begin", "open", "play", "write"} => call[l].pool \in Pools
    BY DEF RoundsInv, LoopInv
  <2>3. cpc[l] = "write" => played'[call[l].idx] >= Games(call[l].pool)
    BY <1>1 DEF RoundsInv, LoopInv, gameVars
  <2>4. LoopInv /\ GameTypes BY DEF RoundsInv
  <2>5. lpc' = [lpc EXCEPT ![l] = "start"] /\ loop' = [loop EXCEPT ![l] = x] BY <1>1
  <2> QED BY <1>2, <1>5, <1>6, <1>7, <2>1, <2>2, <2>3, <2>4, <2>5, LoopUpdate
<1> QED BY <1>1, <1>2, <1>3, <1>8, LoopStepFrame DEF RoundsInv

\* A step of a loop that calls, or of its call, with the loop itself as it was.
LEMMA CallUpdate ==
    ASSUME RoundsInv, GameTypes', Grows, NEW l \in Loops, UNCHANGED <<lpc, loop>>,
           NEW step \in {"none", "begin", "open", "play", "write", "done"}, NEW c \in CallRecords,
           cpc' = [cpc EXCEPT ![l] = step], call' = [call EXCEPT ![l] = c],
           step \in {"begin", "open", "play", "write"} => c.pool \in Pools,
           step = "write" => played'[c.idx] >= Games(c.pool)
    PROVE  LoopInv'
<1>1. LoopInv /\ GameTypes BY DEF RoundsInv
<1>2. LoopTypes' BY <1>1 DEF LoopInv, LoopTypes
<1>3. /\ cpc'[l] = step /\ call'[l] = c
      /\ \A k \in Loops : k # l => cpc'[k] = cpc[k] /\ call'[k] = call[k]
  BY <1>1 DEF LoopInv, LoopTypes
<1>4. ASSUME NEW k \in Loops, k # l, cpc[k] = "write"
      PROVE  played'[call[k].idx] >= Games(call[k].pool)
  <2>1. call[k].idx \in RoundIds /\ call[k].pool \in Pools
    BY <1>1, <1>4 DEF LoopInv, LoopTypes, CallRecords
  <2>2. /\ played[call[k].idx] \in Nat /\ played'[call[k].idx] \in Nat
        /\ Games(call[k].pool) \in Nat
    BY <1>1, <2>1, NumberTypes DEF GameTypes
  <2> QED BY <1>1, <1>4, <2>1, <2>2 DEF LoopInv, Grows
<1> QED BY <1>1, <1>2, <1>3, <1>4 DEF LoopInv

LEMMA StartKeeps == ASSUME RoundsInv, NEW l \in Loops, StartLoop(l) PROVE RoundsInv'
<1> DEFINE c == [NoCall EXCEPT !.pool = loop[l].pool, !.idx = loop[l].idx]
<1>1. /\ lpc[l] = "start" /\ lpc' = [lpc EXCEPT ![l] = "wait"] /\ cpc' = [cpc EXCEPT ![l] = "begin"]
      /\ call' = [call EXCEPT ![l] = c]
      /\ UNCHANGED <<pool, volumeVars, gameVars, loop, redVars, drainVars, faults>>
  BY DEF StartLoop
<1>2. Grows BY <1>1, SameGrows DEF gameVars, volumeVars
<1>3. VolumeInv' /\ GameTypes' BY <1>1, VolumeStays, GamesStay DEF RoundsInv
<1>4. loop[l].pool \in Pools /\ loop[l].idx \in RoundIds /\ loop[l] \in LoopRecords
      /\ loop' = [loop EXCEPT ![l] = loop[l]]
  BY <1>1, LoopSelf DEF RoundsInv, LoopInv, LoopRecords
<1>5. c \in CallRecords /\ c.pool = loop[l].pool
  BY <1>4, NothingTypes DEF CallRecords, PoolOrNone, NoCall
<1> HIDE DEF c
<1>6. LoopInv' BY <1>1, <1>2, <1>3, <1>4, <1>5, LoopUpdate DEF RoundsInv
<1> QED BY <1>1, <1>2, <1>3, <1>6, LoopStepFrame DEF RoundsInv

\* What a round call returns.
LEMMA ReturnType ==
    ASSUME LoopInv, NEW l \in Loops, NEW kind \in {"rated", "skipped", "running"},
           NEW snap \in Ratings, Return(l, kind, snap)
    PROVE  \E c \in CallRecords : /\ cpc' = [cpc EXCEPT ![l] = "done"]
                                  /\ call' = [call EXCEPT ![l] = c]
                                  /\ c.idx = call[l].idx /\ c.snap = snap
<1> DEFINE c == [NoCall EXCEPT !.idx = call[l].idx, !.kind = kind, !.snap = snap]
<1>1. call[l].idx \in RoundIds BY DEF LoopInv, LoopTypes, CallRecords
<1>2. c \in CallRecords /\ c.idx = call[l].idx /\ c.snap = snap
  BY <1>1, NothingTypes DEF CallRecords, NoCall
<1>3. cpc' = [cpc EXCEPT ![l] = "done"] /\ call' = [call EXCEPT ![l] = c] BY DEF Return
<1> HIDE DEF c
<1> QED BY <1>2, <1>3

LEMMA BeginKeeps == ASSUME RoundsInv, NEW l \in Loops, BeginRound(l) PROVE RoundsInv'
<1> DEFINE r == call[l].idx
           c == [call[l] EXCEPT !.seen = View]
<1>1. /\ cpc[l] = "begin"
      /\ UNCHANGED <<pool, volumeVars, gameVars, lpc, loop, redVars, drainVars, faults>>
  BY DEF BeginRound
<1>2. Grows BY <1>1, SameGrows DEF gameVars, volumeVars
<1>3. VolumeInv' /\ GameTypes' BY <1>1, VolumeStays, GamesStay DEF RoundsInv
<1>4. r \in RoundIds /\ call[l].pool \in Pools /\ call[l] \in CallRecords
  BY <1>1 DEF RoundsInv, LoopInv, LoopTypes, CallRecords
<1>5. ratings[r] \in Ratings /\ NoRatings \in Ratings
  BY <1>4, NothingTypes DEF RoundsInv, VolumeInv, VolumeTypes
<1>6. c \in CallRecords /\ c.pool = call[l].pool /\ c.idx = r
  BY <1>4, ViewType DEF RoundsInv, VolumeInv, CallRecords
<1>7. \/ Return(l, "rated", ratings[r]) \/ Return(l, "skipped", NoRatings)
      \/ Return(l, "running", NoRatings)
      \/ /\ cpc' = [cpc EXCEPT ![l] = "open"] /\ call' = [call EXCEPT ![l] = c]
      \/ /\ cpc' = [cpc EXCEPT ![l] = "write"] /\ call' = [call EXCEPT ![l] = c]
         /\ input[r] = call[l].pool /\ Complete(r)
  BY DEF BeginRound
<1> HIDE DEF c
<1>8. LoopInv'
  <2>1. CASE Return(l, "rated", ratings[r])
    BY <1>1, <1>2, <1>3, <1>5, <2>1, ReturnType, CallUpdate DEF RoundsInv
  <2>2. CASE Return(l, "skipped", NoRatings) \/ Return(l, "running", NoRatings)
    BY <1>1, <1>2, <1>3, <1>5, <2>2, ReturnType, CallUpdate DEF RoundsInv
  <2>3. CASE cpc' = [cpc EXCEPT ![l] = "open"] /\ call' = [call EXCEPT ![l] = c]
    BY <1>1, <1>2, <1>3, <1>4, <1>6, <2>3, CallUpdate
  <2>4. CASE /\ cpc' = [cpc EXCEPT ![l] = "write"] /\ call' = [call EXCEPT ![l] = c]
             /\ input[r] = call[l].pool /\ Complete(r)
    <3>1. played'[c.idx] >= Games(c.pool) BY <1>1, <1>6, <2>4 DEF Complete, gameVars
    <3> QED BY <1>1, <1>2, <1>3, <1>4, <1>6, <2>4, <3>1, CallUpdate
  <2> QED BY <1>7, <2>1, <2>2, <2>3, <2>4
<1> QED BY <1>1, <1>2, <1>3, <1>8, LoopStepFrame DEF RoundsInv

LEMMA OpenKeeps == ASSUME RoundsInv, NEW l \in Loops, OpenRound(l) PROVE RoundsInv'
<1> DEFINE r == call[l].idx
           p == call[l].pool
           v == View'
           c == [call[l] EXCEPT !.seen = v]
<1>1. /\ cpc[l] = "open" /\ input' = [input EXCEPT ![r] = p]
      /\ WriteProgress(r, "running", call[l].seen)
      /\ live' = [live EXCEPT ![r] = Max({live[r], Games(p)})]
      /\ quiet' = [quiet EXCEPT ![r] = FALSE] /\ old' = [old EXCEPT ![r] = FALSE]
      /\ cpc' = [cpc EXCEPT ![l] = "play"] /\ call' = [call EXCEPT ![l] = c]
      /\ UNCHANGED <<pool, config, ratings, latest, played, lpc, loop, redVars, drainVars, faults>>
  BY DEF OpenRound
<1>2. r \in RoundIds /\ p \in Pools /\ call[l] \in CallRecords
  BY <1>1 DEF RoundsInv, LoopInv, LoopTypes, CallRecords
<1>3. p # 0 /\ Games(p) \in GameCounts /\ Games(p) \in Nat /\ p \in PoolOrNone
  BY <1>2, PoolGames
<1>4. VolumeTypes'
  BY <1>1, <1>2, <1>3, ProgressTypes DEF RoundsInv, VolumeInv, VolumeTypes
<1>5. VolumeInv' BY <1>1, <1>4 DEF RoundsInv, VolumeInv, RatingsAreComplete
<1>6. v \in Views BY <1>4, ViewType DEF View, Views, VolumeTypes
<1> HIDE DEF v
<1>7. c \in CallRecords /\ c.pool = p BY <1>2, <1>6 DEF CallRecords
<1>8. Max({live[r], Games(p)}) \in GameCounts
  <2>1. live[r] \in GameCounts /\ live[r] \in Nat BY <1>2, CountIsNat DEF RoundsInv, GameTypes
  <2> DEFINE a == live[r]
             b == Games(p)
  <2>3. a \in Int /\ b \in Int BY <1>3, <2>1
  <2> HIDE DEF a, b
  <2>4. Max({a, b}) \in {a, b} BY <2>3, TwoNumbers
  <2>2. Max({live[r], Games(p)}) \in {live[r], Games(p)} BY <2>4 DEF a, b
  <2> QED BY <1>3, <2>1, <2>2
<1>9. GameTypes' BY <1>1, <1>8 DEF RoundsInv, GameTypes
<1>10. \A s \in RoundIds : played[s] \in Nat BY NumberTypes DEF RoundsInv, GameTypes
<1>11. Grows BY <1>1, <1>3, <1>10 DEF Grows, RoundsInv, VolumeInv, VolumeTypes
<1> HIDE DEF c
<1>12. LoopInv' BY <1>1, <1>2, <1>7, <1>9, <1>11, CallUpdate
<1>13. ReducerInv' BY <1>1, <1>11, ReducersStay DEF RoundsInv
<1>14. DrainInv' BY <1>1, <1>11, DrainsStay DEF RoundsInv, drainVars, DrainInv, DrainTypes
<1> QED BY <1>1, <1>5, <1>9, <1>12, <1>13, <1>14 DEF RoundsInv

LEMMA WriteKeeps == ASSUME RoundsInv, NEW l \in Loops, WriteRound(l) PROVE RoundsInv'
<1> DEFINE r == call[l].idx
           p == call[l].pool
           games == Min({played[r], Games(p)})
           full == FALSE
           snap == ratings'[r]
<1>1. /\ cpc[l] = "write" \/ (cpc[l] = "play" /\ played[r] >= Games(p))
      /\ WriteOutputs(r, p, games, full, call[l].seen) /\ full \in BOOLEAN
      /\ Return(l, "rated", snap)
      /\ UNCHANGED <<pool, gameVars, lpc, loop, redVars, drainVars, faults>>
  BY DEF WriteRound
<1>2. r \in RoundIds /\ p \in Pools /\ played[r] >= Games(p)
  BY <1>1 DEF RoundsInv, LoopInv, LoopTypes, CallRecords
<1>3. played[r] \in Nat /\ Games(p) \in Nat /\ Games(p) \in GameCounts
  <2>1. played[r] \in GameCounts BY <1>2 DEF RoundsInv, GameTypes
  <2> QED BY <1>2, <2>1, PoolGames, CountIsNat
<1>4. games = Games(p) BY <1>2, <1>3, TwoNumbers
<1> HIDE DEF games, full
<1>10. games >= Games(p) BY <1>3, <1>4
<1>5. VolumeInv' BY <1>1, <1>2, <1>3, <1>4, <1>10, OutputsKeep DEF RoundsInv
<1>6. snap \in Ratings BY <1>2, <1>5 DEF VolumeInv, VolumeTypes
<1>7. Grows BY <1>1, SameGrows DEF gameVars, WriteOutputs
<1>8. GameTypes' BY <1>1, GamesStay DEF RoundsInv
<1>9. LoopInv' BY <1>1, <1>6, <1>7, <1>8, ReturnType, CallUpdate DEF RoundsInv
<1> QED BY <1>1, <1>5, <1>7, <1>9, LoopStepFrame DEF RoundsInv

\* A loop or a call that is over.
LEMMA EndKeeps ==
    ASSUME RoundsInv, NEW l \in Loops, VolumeInv', faults' \in 0..MaxFaults,
           UNCHANGED <<input, gameVars, redVars, drainVars>>,
           EndLoop(l) \/ UNCHANGED <<lpc, loop>>,
           EndCall(l) \/ UNCHANGED <<cpc, call>>
    PROVE  RoundsInv'
<1>1. Grows /\ GameTypes' BY SameGrows, GamesStay DEF gameVars, RoundsInv
<1>2. PICK at \in {"idle", "queued", "start", "wait"}, x \in LoopRecords :
         /\ lpc' = [lpc EXCEPT ![l] = at] /\ loop' = [loop EXCEPT ![l] = x]
         /\ at # "idle" => x.pool \in Pools
  BY LoopSelf, NothingTypes DEF EndLoop, RoundsInv, LoopInv
<1>3. PICK step \in {"none", "begin", "open", "play", "write", "done"}, c \in CallRecords :
         /\ cpc' = [cpc EXCEPT ![l] = step] /\ call' = [call EXCEPT ![l] = c]
         /\ step \in {"begin", "open", "play", "write"} => c.pool \in Pools
         /\ step = "write" => played'[c.idx] >= Games(c.pool)
  <2>1. CASE EndCall(l)
    <3>1. cpc' = [cpc EXCEPT ![l] = "none"] /\ call' = [call EXCEPT ![l] = NoCall]
      BY <2>1 DEF EndCall
    <3> QED BY <3>1, NothingTypes
  <2>2. CASE UNCHANGED <<cpc, call>>
    <3>1. cpc[l] = "write" => played'[call[l].idx] >= Games(call[l].pool)
      BY DEF RoundsInv, LoopInv, gameVars
    <3> QED BY <2>2, <3>1, LoopSelf DEF RoundsInv, LoopInv
  <2> QED BY <2>1, <2>2
<1>4. LoopInv' BY <1>1, <1>2, <1>3, LoopUpdate DEF RoundsInv
<1> QED BY <1>1, <1>4, LoopStepFrame

LEMMA EndsKeep ==
    ASSUME RoundsInv, NEW l \in Loops, FailRound(l) \/ DropRound(l) \/ CrashLoop(l) \/ CrashRound(l)
    PROVE  RoundsInv'
<1>1. /\ UNCHANGED <<pool, volumeVars, gameVars, redVars, drainVars>>
      /\ EndLoop(l) \/ UNCHANGED <<lpc, loop>>
      /\ EndCall(l) \/ UNCHANGED <<cpc, call>>
  BY DEF FailRound, DropRound, CrashLoop, CrashRound
<1>2. faults' \in 0..MaxFaults
  BY FaultType DEF FailRound, DropRound, CrashLoop, CrashRound, RoundsInv
<1>3. VolumeInv' BY <1>1, VolumeStays DEF RoundsInv
<1> QED BY <1>1, <1>2, <1>3, EndKeeps DEF volumeVars

LEMMA TakeKeeps == ASSUME RoundsInv, NEW l \in Loops, TakeRound(l) PROVE RoundsInv'
<1> DEFINE r == call[l].idx
           snap == call[l].snap
           publish == snap.global /\ Publishes(loop[l].seen, r, snap.pool)
           x == [loop[l] EXCEPT !.idx = r + 1, !.left = @ - 1,
                                !.seen = IF publish THEN latest' ELSE @]
           c == [NoCall EXCEPT !.pool = loop[l].pool, !.idx = r + 1]
<1>1. /\ lpc[l] = "wait" /\ cpc[l] = "done"
      /\ latest' \in {latest, [round |-> r, pool |-> snap.pool]}
      /\ UNCHANGED <<pool, config, input, progress, ratings, root, gameVars, redVars,
                     drainVars, faults>>
  BY DEF TakeRound
<1>2. r \in RoundIds /\ snap \in Ratings /\ loop[l].pool \in Pools /\ loop[l] \in LoopRecords
  BY <1>1 DEF RoundsInv, LoopInv, LoopTypes, CallRecords
<1>3. latest' \in Snapshot
  BY <1>1, <1>2 DEF RoundsInv, VolumeInv, VolumeTypes, Snapshot, Ratings, PoolOrNone
<1>4. VolumeInv' BY <1>1, <1>3 DEF RoundsInv, VolumeInv, VolumeTypes, RatingsAreComplete
<1>5. \/ EndLoop(l) /\ EndCall(l)
      \/ /\ r < MaxRound /\ loop' = [loop EXCEPT ![l] = x] /\ cpc' = [cpc EXCEPT ![l] = "begin"]
         /\ call' = [call EXCEPT ![l] = c] /\ UNCHANGED lpc
  BY DEF TakeRound
<1>6. CASE EndLoop(l) /\ EndCall(l) BY <1>1, <1>4, <1>6, EndKeeps DEF RoundsInv
<1>7. CASE /\ r < MaxRound /\ loop' = [loop EXCEPT ![l] = x] /\ cpc' = [cpc EXCEPT ![l] = "begin"]
           /\ call' = [call EXCEPT ![l] = c] /\ UNCHANGED lpc
  <2>1. r + 1 \in RoundIds BY <1>2, <1>7, RoundsAssumption DEF RoundIds
  <2> DEFINE seen == IF publish THEN latest' ELSE loop[l].seen
             next == r + 1
             left == loop[l].left - 1
  <2>2. seen \in Snapshot /\ next \in RoundIds /\ left \in Int
    BY <1>2, <1>3, <2>1 DEF LoopRecords
  <2>8. x = [loop[l] EXCEPT !.idx = next, !.left = left, !.seen = seen] OBVIOUS
  <2> HIDE DEF x, seen, next, left
  <2>3. x \in LoopRecords /\ x.pool = loop[l].pool BY <1>2, <2>2, <2>8 DEF LoopRecords
  <2>4. c \in CallRecords /\ c.pool = loop[l].pool
    BY <1>2, <2>1, NothingTypes DEF CallRecords, PoolOrNone, NoCall
  <2> HIDE DEF c
  <2>5. lpc' = [lpc EXCEPT ![l] = "wait"] BY <1>1, <1>7 DEF RoundsInv, LoopInv, LoopTypes
  <2>6. Grows /\ GameTypes' BY <1>1, SameGrows, GamesStay DEF gameVars, RoundsInv
  <2>7. LoopInv' BY <1>2, <1>7, <2>3, <2>4, <2>5, <2>6, LoopUpdate DEF RoundsInv
  <2> QED BY <1>1, <1>4, <2>6, <2>7, LoopStepFrame DEF RoundsInv
<1> QED BY <1>5, <1>6, <1>7

(***************************************************************************)
(* Games, and time.                                                        *)
(***************************************************************************)
LEMMA GamesFrame ==
    ASSUME RoundsInv, GameTypes', \A r \in RoundIds : played'[r] >= played[r],
           UNCHANGED <<pool, volumeVars, loopVars, redVars, drainVars>>, faults' \in 0..MaxFaults
    PROVE  RoundsInv'
<1>1. Grows BY DEF Grows, volumeVars
<1>2. VolumeInv' BY VolumeStays DEF RoundsInv
<1>3. LoopInv' BY <1>1, LoopsStay DEF RoundsInv
<1>4. ReducerInv' BY <1>1, ReducersStay DEF RoundsInv
<1>5. DrainInv' BY <1>1, DrainsStay DEF RoundsInv, drainVars, DrainInv, DrainTypes
<1> QED BY <1>2, <1>3, <1>4, <1>5 DEF RoundsInv

LEMMA PlayKeeps == ASSUME RoundsInv, NEW r \in RoundIds, PlayGame(r) PROVE RoundsInv'
<1> DEFINE n == played[r]
           m == live[r]
<1>1. /\ n < m /\ played' = [played EXCEPT ![r] = n + 1] /\ quiet' = [quiet EXCEPT ![r] = FALSE]
      /\ UNCHANGED <<pool, volumeVars, live, old, loopVars, redVars, drainVars, faults>>
  BY DEF PlayGame
<1>2. n \in GameCounts /\ m \in GameCounts BY DEF RoundsInv, GameTypes
<1> HIDE DEF n, m
<1>3. n + 1 \in GameCounts /\ n + 1 >= n BY <1>1, <1>2, NumberTypes DEF GameCounts
<1>4. GameTypes' BY <1>1, <1>3 DEF RoundsInv, GameTypes
<1>5. ASSUME NEW s \in RoundIds PROVE played'[s] >= played[s]
  <2>1. played[s] \in Nat BY CountIsNat DEF RoundsInv, GameTypes
  <2>2. played'[s] = IF s = r THEN n + 1 ELSE played[s] BY <1>1 DEF RoundsInv, GameTypes
  <2> QED BY <1>3, <2>1, <2>2 DEF n
<1> QED BY <1>1, <1>4, <1>5, GamesFrame DEF RoundsInv

LEMMA TimeKeeps ==
    ASSUME RoundsInv, NEW r \in RoundIds, GamesDie(r) \/ Quieten(r) \/ GrowOld(r)
    PROVE  RoundsInv'
<1>1. /\ UNCHANGED <<pool, volumeVars, played, loopVars, redVars, drainVars>>
      /\ live' \in {live, [live EXCEPT ![r] = 0]} /\ quiet' \in {quiet, [quiet EXCEPT ![r] = TRUE]}
      /\ old' \in {old, [old EXCEPT ![r] = TRUE]}
  BY DEF GamesDie, Quieten, GrowOld
<1>2. faults' \in 0..MaxFaults BY FaultType DEF GamesDie, Quieten, GrowOld, RoundsInv
<1>3. GameTypes'
  <2>1. live' \in [RoundIds -> GameCounts]
    BY <1>1, NumberTypes DEF RoundsInv, GameTypes
  <2>2. quiet' \in [RoundIds -> BOOLEAN] /\ old' \in [RoundIds -> BOOLEAN]
    BY <1>1 DEF RoundsInv, GameTypes
  <2>3. played' \in [RoundIds -> GameCounts] BY <1>1 DEF RoundsInv, GameTypes
  <2> QED BY <2>1, <2>2, <2>3 DEF GameTypes
<1>4. \A s \in RoundIds : played'[s] >= played[s]
  BY <1>1, SameGrows DEF Grows, volumeVars
<1> QED BY <1>1, <1>2, <1>3, <1>4, GamesFrame

LEMMA GrowKeeps == ASSUME RoundsInv, GrowPool PROVE RoundsInv'
<1>1. /\ pool < MaxPool /\ pool' = pool + 1
      /\ UNCHANGED <<volumeVars, gameVars, loopVars, redVars, drainVars, faults>>
  BY DEF GrowPool
<1>2. pool \in Pools BY DEF RoundsInv, VolumeInv, VolumeTypes
<1>3. pool + 1 \in Pools BY <1>1, <1>2, RoundsAssumption DEF Pools
<1>4. VolumeInv' BY <1>1, <1>3 DEF RoundsInv, VolumeInv, VolumeTypes, RatingsAreComplete, volumeVars
<1>5. Grows BY <1>1, SameGrows DEF volumeVars, gameVars
<1>6. LoopInv' BY <1>1, <1>5, LoopsStay, GamesStay DEF RoundsInv
<1> QED BY <1>1, <1>4, <1>5, <1>6, LoopStepFrame DEF RoundsInv

(***************************************************************************)
(* Reducers and reports.                                                   *)
(***************************************************************************)
LEMMA ReducerFrame ==
    ASSUME RoundsInv, VolumeInv', ReducerInv',
           UNCHANGED <<input, gameVars, loopVars, dpc, drain, due>>,
           claim' \in [RoundIds -> {"none", "fresh", "aged"}], faults' \in 0..MaxFaults
    PROVE  RoundsInv'
<1>1. Grows /\ GameTypes' BY SameGrows, GamesStay DEF gameVars, RoundsInv
<1>2. LoopInv' BY <1>1, LoopsStay DEF RoundsInv
<1>3. DrainInv' BY <1>1, DrainsStay DEF RoundsInv, DrainInv, DrainTypes
<1> QED BY <1>1, <1>2, <1>3 DEF RoundsInv

\* A reducer that is over.
LEMMA EndReduceKeeps ==
    ASSUME RoundsInv, NEW e \in Reducers, EndReduce(e), VolumeInv',
           UNCHANGED <<input, gameVars, loopVars, drainVars>>, faults' \in 0..MaxFaults
    PROVE  RoundsInv'
<1>1. Grows BY SameGrows DEF gameVars
<1>2. rpc' = [rpc EXCEPT ![e] = "idle"] /\ red' = [red EXCEPT ![e] = NoCall] BY DEF EndReduce
<1>3. ReducerInv' BY <1>1, <1>2, NothingTypes, ReducerUpdate DEF RoundsInv
<1> QED BY <1>3, ReducerFrame DEF drainVars, RoundsInv, DrainInv, DrainTypes

LEMMA ReadKeeps == ASSUME RoundsInv, NEW e \in Reducers, ReadRound(e) PROVE RoundsInv'
<1> DEFINE r == red[e].idx
           p == input[r]
           n == played[r]
           games == Min({n, Games(p)})
           c == [red[e] EXCEPT !.pool = p, !.seen = View, !.games = games]
<1>1. rpc[e] = "read" /\ UNCHANGED <<pool, volumeVars, gameVars, loopVars, drainVars, faults>>
  BY DEF ReadRound
<1>2. r \in RoundIds /\ red[e] \in CallRecords /\ p # 0
  BY <1>1 DEF RoundsInv, ReducerInv, ReducerTypes, CallRecords
<1>3. p \in Pools /\ n \in GameCounts
  BY <1>2 DEF RoundsInv, VolumeInv, VolumeTypes, GameTypes, PoolOrNone
<1>4. VolumeInv' BY <1>1, VolumeStays DEF RoundsInv
<1>5. \/ EndReduce(e)
      \/ /\ n >= Games(p) \/ red[e].partial
         /\ rpc' = [rpc EXCEPT ![e] = "write"] /\ red' = [red EXCEPT ![e] = c]
  BY DEF ReadRound, Complete
<1>6. CASE EndReduce(e) BY <1>1, <1>4, <1>6, EndReduceKeeps DEF RoundsInv, volumeVars
<1>7. CASE /\ n >= Games(p) \/ red[e].partial
           /\ rpc' = [rpc EXCEPT ![e] = "write"] /\ red' = [red EXCEPT ![e] = c]
  <2> DEFINE v == View
             g == Games(p)
  <2>1. v \in Views BY ViewType DEF RoundsInv, VolumeInv
  <2>2. n \in Nat /\ g \in GameCounts /\ g \in Nat /\ p \in PoolOrNone
    BY <1>3, PoolGames, CountIsNat
  <2> HIDE DEF g, n, p, r
  <2>3. games = IF n <= g THEN n ELSE g BY <2>2, TwoNumbers DEF g
  <2>4. games \in GameCounts /\ (n >= g => games = g) BY <1>3, <2>2, <2>3
  <2> HIDE DEF games, v
  <2>5. c = [red[e] EXCEPT !.pool = p, !.seen = v, !.games = games] BY DEF v
  <2> HIDE DEF c
  <2>6. /\ c \in CallRecords /\ c.pool = p /\ c.games = games /\ c.partial = red[e].partial
        /\ c.idx = red[e].idx
    BY <1>2, <2>1, <2>2, <2>4, <2>5 DEF CallRecords
  <2>7. ~ c.partial => c.games >= Games(c.pool) BY <1>7, <2>2, <2>4, <2>6 DEF g
  <2>8. Grows /\ input'[c.idx] # 0 BY <1>1, <1>2, <2>6, SameGrows DEF gameVars, volumeVars, p, r
  <2>9. ReducerInv' BY <1>3, <1>7, <2>6, <2>7, <2>8, ReducerUpdate DEF RoundsInv
  <2> QED BY <1>1, <1>4, <2>9, ReducerFrame
      DEF volumeVars, drainVars, RoundsInv, DrainInv, DrainTypes
<1> QED BY <1>5, <1>6, <1>7

LEMMA ReduceRoundKeeps == ASSUME RoundsInv, NEW e \in Reducers, ReduceRound(e) PROVE RoundsInv'
<1>1. /\ rpc[e] = "write" /\ EndReduce(e)
      /\ WriteOutputs(red[e].idx, red[e].pool, red[e].games, red[e].partial, red[e].seen)
      /\ UNCHANGED <<pool, gameVars, loopVars, drainVars, faults>>
  BY DEF ReduceRound
<1>2. /\ red[e].idx \in RoundIds /\ red[e].pool \in Pools /\ red[e].games \in GameCounts
      /\ red[e].partial \in BOOLEAN
      /\ ~ red[e].partial => red[e].games >= Games(red[e].pool)
  BY <1>1 DEF RoundsInv, ReducerInv, ReducerTypes, CallRecords
<1>3. VolumeInv' BY <1>1, <1>2, OutputsKeep DEF RoundsInv
<1> QED BY <1>1, <1>3, EndReduceKeeps DEF RoundsInv, WriteOutputs

LEMMA RescueKeeps ==
    ASSUME RoundsInv, NEW e \in Reducers, NEW r \in RoundIds, NEW partial \in BOOLEAN,
           RescueRound(e, r, partial)
    PROVE  RoundsInv'
<1> DEFINE c == [NoCall EXCEPT !.idx = r, !.partial = partial]
<1>1. /\ input[r] # 0 /\ Fault("rescue")
      /\ rpc' = [rpc EXCEPT ![e] = "read"] /\ red' = [red EXCEPT ![e] = c]
      /\ UNCHANGED <<pool, volumeVars, gameVars, loopVars, drainVars>>
  BY DEF RescueRound
<1>2. c \in CallRecords /\ c.idx = r BY NothingTypes DEF CallRecords, NoCall
<1> HIDE DEF c
<1>3. Grows /\ input'[r] # 0 BY <1>1, SameGrows DEF gameVars, volumeVars
<1>4. ReducerInv' BY <1>1, <1>2, <1>3, ReducerUpdate DEF RoundsInv
<1>5. VolumeInv' /\ faults' \in 0..MaxFaults BY <1>1, VolumeStays, FaultType DEF RoundsInv
<1> QED BY <1>1, <1>4, <1>5, ReducerFrame DEF volumeVars, drainVars, RoundsInv, DrainInv, DrainTypes

LEMMA CrashReducerKeeps == ASSUME RoundsInv, NEW e \in Reducers, CrashReducer(e) PROVE RoundsInv'
<1>1. /\ Fault("reducer") /\ EndReduce(e)
      /\ UNCHANGED <<pool, volumeVars, gameVars, loopVars, drainVars>>
  BY DEF CrashReducer
<1>2. VolumeInv' /\ faults' \in 0..MaxFaults BY <1>1, VolumeStays, FaultType DEF RoundsInv
<1> QED BY <1>1, <1>2, EndReduceKeeps DEF volumeVars

LEMMA ReportKeeps == ASSUME RoundsInv, NEW r \in RoundIds, ReportProgress(r) PROVE RoundsInv'
<1> DEFINE status == IF input[r] = 0 THEN "waiting"
                     ELSE IF Complete(r) THEN "complete" ELSE "running"
<1>1. /\ Fault("report") /\ WriteProgress(r, status, View)
      /\ UNCHANGED <<pool, config, input, ratings, latest, gameVars, loopVars, redVars, drainVars>>
  BY DEF ReportProgress
<1>2. status \in {"none", "waiting", "running", "skipped", "complete"} OBVIOUS
<1> HIDE DEF status
<1>3. VolumeTypes' BY <1>1, <1>2, ProgressTypes DEF RoundsInv, VolumeInv, VolumeTypes
<1>4. VolumeInv' BY <1>1, <1>3 DEF RoundsInv, VolumeInv, RatingsAreComplete
<1>5. faults' \in 0..MaxFaults BY <1>1, FaultType DEF RoundsInv
<1>6. ReducerInv' BY <1>1, SameGrows, ReducersStay DEF RoundsInv, gameVars
<1> QED BY <1>1, <1>4, <1>5, <1>6, ReducerFrame DEF drainVars, RoundsInv, DrainInv, DrainTypes

(***************************************************************************)
(* Drains.                                                                 *)
(***************************************************************************)
LEMMA DrainFrame ==
    ASSUME RoundsInv, VolumeInv', DrainInv', UNCHANGED <<input, gameVars, loopVars, redVars>>,
           faults' \in 0..MaxFaults
    PROVE  RoundsInv'
<1>1. Grows /\ GameTypes' BY SameGrows, GamesStay DEF gameVars, RoundsInv
<1>2. LoopInv' BY <1>1, LoopsStay DEF RoundsInv
<1>3. ReducerInv' BY <1>1, ReducersStay DEF RoundsInv
<1> QED BY <1>1, <1>2, <1>3 DEF RoundsInv

LEMMA DrainSelf ==
    ASSUME DrainInv, NEW d \in Drains
    PROVE  drain = [drain EXCEPT ![d] = drain[d]] /\ drain[d] \in DrainRecords
BY DEF DrainInv, DrainTypes

LEMMA MountKeeps == ASSUME RoundsInv, Mount PROVE RoundsInv'
<1>1. /\ due' = TickDue
      /\ UNCHANGED <<pool, volumeVars, gameVars, loopVars, redVars, dpc, drain, claim, faults>>
  BY DEF Mount
<1>2. TickDue \in BOOLEAN
  <2> DEFINE current == Max(ActiveRounds)
             larger == pool > latest.pool
             stopped == /\ played[current] > 0
                        /\ quiet[current] \/ (old[current] /\ ~ Complete(current))
             again == pool > latest.pool /\ latest.pool > 0 /\ input[current] <= latest.pool
  <2>1. TickDue = IF ActiveRounds = {} THEN larger ELSE stopped \/ again BY DEF TickDue
  <2>2. (stopped \/ again) \in BOOLEAN OBVIOUS
  <2>3. larger \in BOOLEAN OBVIOUS
  <2> HIDE DEF larger, stopped, again
  <2> QED BY <2>1, <2>2, <2>3
<1>3. DrainInv' BY <1>1, <1>2 DEF RoundsInv, DrainInv, DrainTypes, volumeVars
<1>4. VolumeInv' BY <1>1, VolumeStays DEF RoundsInv
<1> QED BY <1>1, <1>3, <1>4, DrainFrame DEF volumeVars, RoundsInv

LEMMA EndDrainKeeps ==
    ASSUME RoundsInv, NEW d \in Drains, EndDrain(d), due' = due,
           claim' \in [RoundIds -> {"none", "fresh", "aged"}], UNCHANGED <<input, played>>
    PROVE  DrainInv'
<1>1. dpc' = [dpc EXCEPT ![d] = "idle"] /\ drain' = [drain EXCEPT ![d] = NoDrain]
  BY DEF EndDrain, Goto
<1>2. Grows BY SameGrows
<1> QED BY <1>1, <1>2, NothingTypes, DrainUpdate DEF RoundsInv

LEMMA StartDrainKeeps == ASSUME RoundsInv, NEW d \in Drains, StartDrain(d) PROVE RoundsInv'
<1>1. /\ dpc' = [dpc EXCEPT ![d] = "load"]
      /\ UNCHANGED <<pool, volumeVars, gameVars, loopVars, redVars, drain, due, claim>>
  BY DEF StartDrain, Goto
<1>2. faults' \in 0..MaxFaults BY FaultType DEF StartDrain, RoundsInv
<1>3. Grows BY <1>1, SameGrows DEF volumeVars, gameVars
<1>4. drain' = [drain EXCEPT ![d] = drain[d]] /\ drain[d] \in DrainRecords
  BY <1>1, DrainSelf DEF RoundsInv
<1>5. claim' \in [RoundIds -> {"none", "fresh", "aged"}] BY <1>1 DEF RoundsInv, DrainInv, DrainTypes
<1>6. DrainInv' BY <1>1, <1>3, <1>4, <1>5, DrainUpdate DEF RoundsInv
<1>7. VolumeInv' BY <1>1, VolumeStays DEF RoundsInv
<1> QED BY <1>1, <1>2, <1>6, <1>7, DrainFrame DEF volumeVars

LEMMA ContinueKeeps ==
    ASSUME RoundsInv, NEW d \in Drains, NEW p \in Pools, NEW rated \in PoolOrNone,
           NEW finished \in BOOLEAN, NEW unrated \in SUBSET RoundIds,
           \A r \in unrated : input[r] # 0, Continue(d, p, rated, finished, unrated),
           UNCHANGED <<input, played, due, claim>>
    PROVE  DrainInv'
<1>1. Grows BY SameGrows
<1>2. claim' \in [RoundIds -> {"none", "fresh", "aged"}] BY DEF RoundsInv, DrainInv, DrainTypes
<1>3. ASSUME dpc' = [dpc EXCEPT ![d] = "spawn"],
             drain' = [drain EXCEPT ![d] = [NoDrain EXCEPT !.pool = p, !.latest = rated]]
      PROVE  DrainInv'
  <2> DEFINE x == [NoDrain EXCEPT !.pool = p, !.latest = rated]
  <2>1. x \in DrainRecords /\ x.pool = p BY PoolGames, NothingTypes DEF DrainRecords, NoDrain
  <2> HIDE DEF x
  <2> QED BY <1>1, <1>2, <1>3, <2>1, DrainUpdate DEF RoundsInv, x
<1>4. ASSUME unrated # {}, dpc' = [dpc EXCEPT ![d] = "judge"],
             drain' = [drain EXCEPT ![d] = [NoDrain EXCEPT !.pool = p, !.latest = rated,
                                                           !.round = Min(unrated)]]
      PROVE  DrainInv'
  <2> DEFINE r == Min(unrated)
             x == [NoDrain EXCEPT !.pool = p, !.latest = rated, !.round = r]
  <2>1. r \in unrated BY <1>4, MinIsIn, NumberTypes
  <2> HIDE DEF r
  <2>2. x \in DrainRecords /\ x.pool = p /\ x.round = r
    BY <2>1, PoolGames, NothingTypes DEF DrainRecords, NoDrain
  <2>3. drain' = [drain EXCEPT ![d] = x] BY <1>4 DEF r
  <2> HIDE DEF x
  <2> QED BY <1>1, <1>2, <1>4, <2>1, <2>2, <2>3, DrainUpdate DEF RoundsInv
<1>5. CASE EndDrain(d) BY <1>2, <1>5, EndDrainKeeps
<1> QED BY <1>3, <1>4, <1>5 DEF Continue, Goto

LEMMA WriterType == WriterFinished \in BOOLEAN
<1>1. (root = NoRoot) \in BOOLEAN OBVIOUS
<1> QED BY <1>1 DEF WriterFinished

LEMMA LoadKeeps == ASSUME RoundsInv, NEW d \in Drains, Load(d) PROVE RoundsInv'
<1> DEFINE finished == Existing => WriterFinished
           rated == latest.pool
<1>1. /\ Continue(d, pool, rated, finished, UnratedRounds)
      /\ UNCHANGED <<pool, volumeVars, gameVars, loopVars, redVars, due, claim, faults>>
  BY DEF Load
<1>2. pool \in Pools /\ rated \in PoolOrNone
  BY DEF RoundsInv, VolumeInv, VolumeTypes, Snapshot, PoolOrNone
<1>3. finished \in BOOLEAN OBVIOUS
<1>4. UnratedRounds \in SUBSET RoundIds /\ \A r \in UnratedRounds : input[r] # 0
  BY DEF UnratedRounds
<1> HIDE DEF finished, rated
<1>5. DrainInv' BY <1>1, <1>2, <1>3, <1>4, ContinueKeeps DEF volumeVars, gameVars
<1>6. VolumeInv' BY <1>1, VolumeStays DEF RoundsInv
<1> QED BY <1>1, <1>5, <1>6, DrainFrame DEF volumeVars, RoundsInv

LEMMA JudgeKeeps == ASSUME RoundsInv, NEW d \in Drains, Judge(d) PROVE RoundsInv'
<1> DEFINE r == drain[d].round
           partial == PartialReduce(d, r)
           takeover == claim[r] = "aged"
           x == [drain[d] EXCEPT !.seen = View]
           y == [drain[d] EXCEPT !.partial = partial, !.takeover = takeover]
<1>1. /\ dpc[d] = "judge"
      /\ UNCHANGED <<pool, volumeVars, gameVars, loopVars, redVars, due, claim, faults>>
  BY DEF Judge
<1>2. /\ drain[d] \in DrainRecords /\ drain[d].pool \in Pools /\ input[r] # 0
      /\ claim' \in [RoundIds -> {"none", "fresh", "aged"}] /\ Grows /\ input' = input
  BY <1>1, SameGrows DEF RoundsInv, DrainInv, DrainTypes, volumeVars, gameVars
<1>3. partial \in BOOLEAN /\ takeover \in BOOLEAN BY DEF PartialReduce
<1>4. x \in DrainRecords /\ x.pool = drain[d].pool /\ x.round = r
  BY <1>2, ViewType DEF RoundsInv, VolumeInv, DrainRecords
<1>5. \/ EndDrain(d)
      \/ dpc' = [dpc EXCEPT ![d] = "skip"] /\ drain' = [drain EXCEPT ![d] = x]
      \/ dpc' = [dpc EXCEPT ![d] = "reduce"] /\ drain' = [drain EXCEPT ![d] = y]
  BY DEF Judge, Goto
<1> HIDE DEF partial, takeover, x
<1>6. y \in DrainRecords /\ y.round = r BY <1>2, <1>3 DEF DrainRecords
<1> HIDE DEF y
<1>7. DrainInv'
  <2>1. CASE EndDrain(d) BY <1>1, <1>2, <2>1, EndDrainKeeps DEF volumeVars, gameVars
  <2>2. CASE dpc' = [dpc EXCEPT ![d] = "skip"] /\ drain' = [drain EXCEPT ![d] = x]
    BY <1>1, <1>2, <1>4, <2>2, DrainUpdate DEF RoundsInv
  <2>3. CASE dpc' = [dpc EXCEPT ![d] = "reduce"] /\ drain' = [drain EXCEPT ![d] = y]
    BY <1>1, <1>2, <1>6, <2>3, DrainUpdate DEF RoundsInv
  <2> QED BY <1>5, <2>1, <2>2, <2>3
<1>8. VolumeInv' BY <1>1, VolumeStays DEF RoundsInv
<1> QED BY <1>1, <1>7, <1>8, DrainFrame DEF volumeVars, RoundsInv

LEMMA SkipKeeps == ASSUME RoundsInv, NEW d \in Drains, Skip(d) PROVE RoundsInv'
<1> DEFINE r == drain[d].round
           p == drain[d].pool
           rated == drain[d].latest
           finished == WriterFinished'
           unrated == UnratedRounds'
<1>1. /\ dpc[d] = "skip" /\ WriteProgress(r, "skipped", drain[d].seen)
      /\ UNCHANGED <<pool, config, input, ratings, latest, gameVars, loopVars, redVars, due, claim,
                     faults>>
      /\ Continue(d, p, rated, finished, unrated)
  BY DEF Skip
<1>2. r \in RoundIds /\ p \in Pools /\ rated \in PoolOrNone
  BY <1>1 DEF RoundsInv, DrainInv, DrainTypes, DrainRecords
<1>3. finished \in BOOLEAN
  <2>1. (root' = NoRoot) \in BOOLEAN OBVIOUS
  <2> QED BY <2>1 DEF WriterFinished
<1>4. unrated \in SUBSET RoundIds /\ \A s \in unrated : input[s] # 0 BY <1>1 DEF UnratedRounds
<1> HIDE DEF finished, unrated, r, p, rated
<1>5. DrainInv' BY <1>1, <1>2, <1>3, <1>4, ContinueKeeps DEF gameVars
<1>6. VolumeTypes' BY <1>1, <1>2, ProgressTypes DEF RoundsInv, VolumeInv, VolumeTypes
<1>7. VolumeInv' BY <1>1, <1>6 DEF RoundsInv, VolumeInv, RatingsAreComplete
<1> QED BY <1>1, <1>5, <1>7, DrainFrame DEF RoundsInv

LEMMA ReduceKeeps == ASSUME RoundsInv, NEW d \in Drains, Reduce(d) PROVE RoundsInv'
<1> DEFINE r == drain[d].round
           c == [NoCall EXCEPT !.idx = r, !.partial = drain[d].partial]
<1>1. /\ dpc[d] = "reduce" /\ EndDrain(d) /\ claim' \in {claim, [claim EXCEPT ![r] = "fresh"]}
      /\ UNCHANGED <<pool, volumeVars, gameVars, loopVars, due, faults>>
      /\ \/ UNCHANGED redVars
         \/ \E e \in Reducers : rpc' = [rpc EXCEPT ![e] = "read"] /\ red' = [red EXCEPT ![e] = c]
  BY DEF Reduce, redVars
<1>2. r \in RoundIds /\ drain[d].partial \in BOOLEAN /\ input[r] # 0
  BY <1>1 DEF RoundsInv, DrainInv, DrainTypes, DrainRecords
<1>3. c \in CallRecords /\ c.idx = r BY <1>2, NothingTypes DEF CallRecords, NoCall
<1> HIDE DEF c
<1>4. Grows /\ input' = input BY <1>1, SameGrows DEF volumeVars, gameVars
<1>5. claim' \in [RoundIds -> {"none", "fresh", "aged"}]
  BY <1>1 DEF RoundsInv, DrainInv, DrainTypes
<1>6. DrainInv' BY <1>1, <1>5, EndDrainKeeps DEF volumeVars, gameVars
<1>7. ReducerInv'
  <2>1. CASE UNCHANGED redVars BY <1>4, <2>1, ReducersStay DEF RoundsInv
  <2>2. ASSUME NEW e \in Reducers, rpc' = [rpc EXCEPT ![e] = "read"], red' = [red EXCEPT ![e] = c]
        PROVE  ReducerInv'
    BY <1>2, <1>3, <1>4, <2>2, ReducerUpdate DEF RoundsInv
  <2> QED BY <1>1, <2>1, <2>2
<1>8. VolumeInv' /\ GameTypes' BY <1>1, VolumeStays, GamesStay DEF RoundsInv
<1>9. LoopInv' BY <1>1, <1>4, <1>8, LoopsStay DEF RoundsInv
<1> QED BY <1>1, <1>6, <1>7, <1>8, <1>9 DEF RoundsInv

LEMMA SpawnKeeps == ASSUME RoundsInv, NEW d \in Drains, Spawn(d) PROVE RoundsInv'
<1> DEFINE p == drain[d].pool
<1>1. /\ dpc[d] = "spawn" /\ EndDrain(d)
      /\ UNCHANGED <<pool, volumeVars, gameVars, cpc, call, redVars, due, claim, faults>>
      /\ \/ UNCHANGED <<lpc, loop>>
         \/ \E l \in Loops : /\ lpc' = [lpc EXCEPT ![l] = "queued"]
                             /\ loop' = [loop EXCEPT ![l] = [loop[l] EXCEPT !.pool = p]]
  BY DEF Spawn
<1>2. p \in Pools BY <1>1 DEF RoundsInv, DrainInv
<1> HIDE DEF p
<1>3. Grows BY <1>1, SameGrows DEF volumeVars, gameVars
<1>4. claim' \in [RoundIds -> {"none", "fresh", "aged"}] BY <1>1 DEF RoundsInv, DrainInv, DrainTypes
<1>5. DrainInv' BY <1>1, <1>4, EndDrainKeeps DEF volumeVars, gameVars
<1>6. VolumeInv' /\ GameTypes' BY <1>1, VolumeStays, GamesStay DEF RoundsInv
<1>7. LoopInv'
  <2>1. CASE UNCHANGED <<lpc, loop>>
    BY <1>1, <1>3, <1>6, <2>1, LoopsStay DEF RoundsInv, loopVars
  <2>2. ASSUME NEW l \in Loops, lpc' = [lpc EXCEPT ![l] = "queued"],
               loop' = [loop EXCEPT ![l] = [loop[l] EXCEPT !.pool = p]]
        PROVE  LoopInv'
    <3> DEFINE x == [loop[l] EXCEPT !.pool = p]
    <3>1. x \in LoopRecords /\ x.pool = p
      BY <1>2, PoolGames, LoopSelf DEF RoundsInv, LoopRecords
    <3>2. loop' = [loop EXCEPT ![l] = x] BY <2>2
    <3> HIDE DEF x
    <3>3. /\ cpc' = [cpc EXCEPT ![l] = cpc[l]] /\ call' = [call EXCEPT ![l] = call[l]]
          /\ cpc[l] \in {"none", "begin", "open", "play", "write", "done"}
          /\ call[l] \in CallRecords
      BY <1>1, LoopSelf DEF RoundsInv
    <3>4. /\ cpc[l] \in {"begin", "open", "play", "write"} => call[l].pool \in Pools
          /\ cpc[l] = "write" => played'[call[l].idx] >= Games(call[l].pool)
      BY <1>1 DEF RoundsInv, LoopInv, gameVars
    <3> QED BY <1>2, <1>3, <1>6, <2>2, <3>1, <3>2, <3>3, <3>4, LoopUpdate DEF RoundsInv
  <2> QED BY <1>1, <2>1, <2>2
<1>8. ReducerInv' BY <1>1, <1>3, ReducersStay DEF RoundsInv
<1> QED BY <1>1, <1>5, <1>6, <1>7, <1>8 DEF RoundsInv

LEMMA CrashDrainKeeps == ASSUME RoundsInv, NEW d \in Drains, CrashDrain(d) PROVE RoundsInv'
<1>1. /\ Fault("drain") /\ EndDrain(d)
      /\ UNCHANGED <<pool, volumeVars, gameVars, loopVars, redVars, due, claim>>
  BY DEF CrashDrain
<1>2. claim' \in [RoundIds -> {"none", "fresh", "aged"}] BY <1>1 DEF RoundsInv, DrainInv, DrainTypes
<1>3. DrainInv' BY <1>1, <1>2, EndDrainKeeps DEF volumeVars, gameVars
<1>4. VolumeInv' /\ faults' \in 0..MaxFaults BY <1>1, VolumeStays, FaultType DEF RoundsInv
<1> QED BY <1>1, <1>3, <1>4, DrainFrame DEF volumeVars

LEMMA AgeKeeps == ASSUME RoundsInv, NEW r \in RoundIds, AgeClaim(r) PROVE RoundsInv'
<1>1. /\ claim' = [claim EXCEPT ![r] = "aged"]
      /\ UNCHANGED <<pool, volumeVars, gameVars, loopVars, redVars, dpc, drain, due, faults>>
  BY DEF AgeClaim
<1>2. claim' \in [RoundIds -> {"none", "fresh", "aged"}] /\ due' \in BOOLEAN
  BY <1>1 DEF RoundsInv, DrainInv, DrainTypes
<1>3. Grows BY <1>1, SameGrows DEF volumeVars, gameVars
<1>4. DrainInv' BY <1>1, <1>2, <1>3, DrainsStay DEF RoundsInv
<1>5. VolumeInv' BY <1>1, VolumeStays DEF RoundsInv
<1> QED BY <1>1, <1>4, <1>5, DrainFrame DEF volumeVars, RoundsInv

LEMMA RoundsInvKept == RoundsInv /\ [Next]_vars => RoundsInv'
<1> SUFFICES ASSUME RoundsInv, [Next]_vars PROVE RoundsInv' OBVIOUS
<1>1. ASSUME NEW l \in Loops, LoopStep(l) \/ CrashLoop(l) \/ CrashRound(l) PROVE RoundsInv'
  BY <1>1, ConfigKeeps, StartKeeps, BeginKeeps, OpenKeeps, WriteKeeps, TakeKeeps, EndsKeep
  DEF LoopStep
<1>2. ASSUME NEW e \in Reducers, ReducerStep(e) \/ CrashReducer(e) PROVE RoundsInv'
  BY <1>2, ReadKeeps, ReduceRoundKeeps, CrashReducerKeeps DEF ReducerStep
<1>3. CASE \E e \in Reducers, r \in RoundIds, partial \in BOOLEAN : RescueRound(e, r, partial)
  BY <1>3, RescueKeeps
<1>4. ASSUME NEW d \in Drains, StartDrain(d) \/ DrainStep(d) \/ CrashDrain(d) PROVE RoundsInv'
  BY <1>4, StartDrainKeeps, LoadKeeps, JudgeKeeps, SkipKeeps, ReduceKeeps, SpawnKeeps,
     CrashDrainKeeps
  DEF DrainStep
<1>5. ASSUME NEW r \in RoundIds,
             \/ PlayGame(r) \/ GamesDie(r) \/ Quieten(r) \/ GrowOld(r)
             \/ ReportProgress(r) \/ AgeClaim(r)
      PROVE  RoundsInv'
  BY <1>5, PlayKeeps, TimeKeeps, ReportKeeps, AgeKeeps
<1>6. CASE GrowPool \/ Mount BY <1>6, GrowKeeps, MountKeeps
<1>7. CASE UNCHANGED vars
  <2>1. UNCHANGED <<pool, volumeVars, gameVars, loopVars, redVars, dpc, drain, due, claim, faults>>
    BY <1>7 DEF vars, drainVars
  <2>2. Grows BY <2>1, SameGrows DEF volumeVars, gameVars
  <2>3. DrainInv' BY <2>1, <2>2, DrainsStay DEF RoundsInv, DrainInv, DrainTypes
  <2>4. VolumeInv' BY <2>1, VolumeStays DEF RoundsInv
  <2> QED BY <2>1, <2>3, <2>4, DrainFrame DEF volumeVars, RoundsInv
<1> QED BY <1>1, <1>2, <1>3, <1>4, <1>5, <1>6, <1>7 DEF Next

LEMMA RoundsInvBegins == Init => RoundsInv
<1> SUFFICES ASSUME Init PROVE RoundsInv OBVIOUS
<1>1. VolumeInv
  <2>1. pool \in Pools BY RoundsAssumption DEF Init, Pools
  <2>2. 0 \in PoolOrNone BY DEF PoolOrNone
  <2>3. VolumeTypes BY <2>1, <2>2, NothingTypes DEF Init, VolumeTypes
  <2>4. \A r \in RoundIds : ratings[r].pool = 0 BY DEF Init, NoRatings
  <2> QED BY <2>3, <2>4 DEF VolumeInv, RatingsAreComplete
<1>2. GameTypes BY NumberTypes DEF Init, GameTypes
<1>3. LoopInv BY NothingTypes DEF Init, LoopInv, LoopTypes
<1>4. ReducerInv BY NothingTypes DEF Init, ReducerInv, ReducerTypes
<1>5. DrainInv BY NothingTypes DEF Init, DrainInv, DrainTypes
<1> QED BY <1>1, <1>2, <1>3, <1>4, <1>5, RoundsAssumption DEF Init, RoundsInv

\* The inductive invariant, whatever dies, is slow, or is done by hand.
THEOREM RoundsInvariant == Spec => []RoundsInv
BY RoundsInvBegins, RoundsInvKept, PTL DEF Spec

LEMMA RoundsTypes == RoundsInv => TypeOK
BY DEF RoundsInv, VolumeInv, VolumeTypes, GameTypes, LoopInv, LoopTypes, ReducerInv, ReducerTypes,
       DrainInv, DrainTypes, TypeOK, PoolOrNone, GameCounts, Ratings, LoopRecords, RoundOrNone

\* The types of the volume, the games and every call.
THEOREM RoundsTypeCorrect == Spec => []TypeOK
BY RoundsTypes, RoundsInvariant, PTL

\* Ratings count every game of their pool, unless they were reduced from part of
\* the games on purpose.
THEOREM RatingsCountEveryGame == Spec => []RatingsAreComplete
<1>1. RoundsInv => RatingsAreComplete BY DEF RoundsInv, VolumeInv
<1> QED BY <1>1, RoundsInvariant, PTL

(***************************************************************************)
(* Where silence is death: what stays settled and what stays covered.      *)
(***************************************************************************)
SettledNext(r) == input'[r] # 0 /\ played'[r] >= live'[r]
CoveredNext(p) == \E s \in RoundIds : ratings'[s].pool >= p

\* A round keeps its pool; a settled one its games too; ratings keep theirs.
Endures ==
    \A r \in RoundIds :
        /\ input[r] # 0 => input'[r] = input[r]
        /\ Settled(r) => SettledNext(r) /\ played'[r] = played[r]
        /\ ratings'[r].pool >= ratings[r].pool

LEMMA CountTypes ==
    ASSUME RoundsInv
    PROVE  /\ \A r \in RoundIds :
                 /\ input[r] \in PoolOrNone /\ input[r] \in Nat
                 /\ played[r] \in Nat /\ live[r] \in Nat
                 /\ quiet[r] \in BOOLEAN /\ old[r] \in BOOLEAN
                 /\ ratings[r].pool \in Nat /\ ratings[r].games \in Nat
           /\ latest.pool \in Nat
           /\ \A l \in Loops : call[l].idx \in RoundIds /\ call[l].snap.pool \in Nat
           /\ \A e \in Reducers : red[e].idx \in RoundIds
           /\ \A d \in Drains : drain[d].round \in RoundIds /\ drain[d].latest \in Nat
<1>1. \A r \in RoundIds : input[r] \in PoolOrNone /\ ratings[r] \in Ratings
  BY DEF RoundsInv, VolumeInv, VolumeTypes
<1>2. latest.pool \in Nat BY NumberTypes DEF RoundsInv, VolumeInv, VolumeTypes, Snapshot, PoolOrNone
<1>3. \A l \in Loops : call[l] \in CallRecords BY DEF RoundsInv, LoopInv, LoopTypes
<1>4. \A e \in Reducers : red[e] \in CallRecords BY DEF RoundsInv, ReducerInv, ReducerTypes
<1>5. \A d \in Drains : drain[d] \in DrainRecords BY DEF RoundsInv, DrainInv, DrainTypes
<1>6. \A r \in RoundIds : /\ played[r] \in Nat /\ live[r] \in Nat
                          /\ quiet[r] \in BOOLEAN /\ old[r] \in BOOLEAN
  BY NumberTypes DEF RoundsInv, GameTypes
<1>7. \A x \in Ratings : x.pool \in Nat /\ x.games \in Nat BY NumberTypes DEF Ratings
<1>8. \A c \in CallRecords : c.idx \in RoundIds /\ c.snap.pool \in Nat BY <1>7 DEF CallRecords
<1>9. \A x \in DrainRecords : x.round \in RoundIds /\ x.latest \in Nat
  BY NumberTypes DEF DrainRecords
<1> QED BY <1>1, <1>2, <1>3, <1>4, <1>5, <1>6, <1>7, <1>8, <1>9, NumberTypes

LEMMA SameEndures ==
    ASSUME RoundsInv, UNCHANGED <<input, played, live, ratings>> PROVE Endures
BY CountTypes DEF Endures, Settled, SettledNext

LEMMA NextPools == ASSUME RoundsInv' PROVE \A r \in RoundIds : ratings'[r].pool \in Nat
<1>1. ratings' \in [RoundIds -> Ratings] BY DEF RoundsInv, VolumeInv, VolumeTypes
<1> QED BY <1>1, NumberTypes DEF Ratings

LEMMA CoveredStays ==
    ASSUME RoundsInv, RoundsInv', Endures, NEW p \in Nat, Covered(p) PROVE CoveredNext(p)
<1>1. PICK s \in RoundIds : ratings[s].pool >= p BY DEF Covered
<1>2. ratings[s].pool \in Nat /\ ratings'[s].pool \in Nat BY CountTypes, NextPools
<1>3. ratings'[s].pool >= p BY <1>1, <1>2 DEF Endures
<1> QED BY <1>3 DEF CoveredNext

LEMMA NothingCovered == ASSUME RoundsInv PROVE Covered(0)
<1>1. 0 \in RoundIds /\ ratings[0].pool \in Nat BY NumberTypes, CountTypes
<1> QED BY <1>1 DEF Covered

(***************************************************************************)
(* What the other processes do to a part of that invariant.                *)
(***************************************************************************)
LEMMA OneLoopStays ==
    ASSUME OneLoopInv, UNCHANGED <<lpc, cpc, call, input>> PROVE OneLoopInv'
BY DEF OneLoopInv, Busy

LEMMA TakenStays ==
    ASSUME SilenceInv, RoundsInv', Endures, CoveredNext(latest'.pool), UNCHANGED call
    PROVE  TakenInv'
<1>1. \A l \in Loops : CoveredNext(call[l].snap.pool)
  BY CountTypes, CoveredStays DEF SilenceInv, TakenInv
<1> QED BY <1>1 DEF TakenInv, Covered, CoveredNext

LEMMA GamesInvStays ==
    ASSUME GamesInv, UNCHANGED <<input, gameVars, ratings>> PROVE GamesInv'
BY DEF GamesInv, gameVars, Settled

LEMMA SettledStays ==
    ASSUME SilenceInv, RoundsInv', Endures, UNCHANGED redVars PROVE SettledInv'
<1>1. UNCHANGED <<rpc, red>> BY DEF redVars
<1>2. ASSUME NEW e \in Reducers, rpc[e] # "idle"
      PROVE  /\ SettledNext(red[e].idx) /\ played'[red[e].idx] = played[red[e].idx]
             /\ input'[red[e].idx] = input[red[e].idx]
  BY <1>2, CountTypes DEF SilenceInv, SettledInv, Endures, Settled
<1> QED BY <1>1, <1>2 DEF SilenceInv, SettledInv, Settled, SettledNext

LEMMA GivenUpUpdate ==
    ASSUME SilenceInv, RoundsInv', Endures, NEW d \in Drains,
           \A k \in Drains : k # d => dpc'[k] = dpc[k] /\ drain'[k] = drain[k],
           CoveredNext(drain'[d].latest),
           dpc'[d] = "reduce" => SettledNext(drain'[d].round),
           dpc'[d] = "skip" => SettledNext(drain'[d].round) \/ CoveredNext(input'[drain'[d].round])
    PROVE  GivenUpInv'
<1>1. ASSUME NEW k \in Drains, k # d
      PROVE  /\ CoveredNext(drain[k].latest)
             /\ dpc[k] = "reduce" => SettledNext(drain[k].round)
             /\ dpc[k] = "skip" => \/ SettledNext(drain[k].round)
                                   \/ CoveredNext(input'[drain[k].round])
  <2>1. drain[k].round \in RoundIds /\ drain[k].latest \in Nat BY CountTypes DEF SilenceInv
  <2>2. CoveredNext(drain[k].latest) BY <2>1, CoveredStays DEF SilenceInv, GivenUpInv
  <2>3. dpc[k] = "reduce" => SettledNext(drain[k].round)
    BY <2>1 DEF SilenceInv, GivenUpInv, Endures
  <2>4. ASSUME dpc[k] = "skip", ~ SettledNext(drain[k].round)
        PROVE  CoveredNext(input'[drain[k].round])
    <3>1. Covered(input[drain[k].round]) BY <2>1, <2>4 DEF SilenceInv, GivenUpInv, Endures
    <3>2. input[drain[k].round] # 0 BY <2>4 DEF SilenceInv, RoundsInv, DrainInv
    <3>3. input'[drain[k].round] = input[drain[k].round] BY <2>1, <3>2 DEF Endures
    <3>4. input[drain[k].round] \in Nat BY <2>1, CountTypes DEF SilenceInv
    <3> QED BY <3>1, <3>3, <3>4, CoveredStays DEF SilenceInv
  <2> QED BY <2>2, <2>3, <2>4
<1> QED BY <1>1 DEF GivenUpInv, Covered, CoveredNext, Settled, SettledNext

LEMMA GivenUpStays ==
    ASSUME SilenceInv, RoundsInv', Endures, UNCHANGED <<dpc, drain>> PROVE GivenUpInv'
<1>1. SUFFICES ASSUME NEW d \in Drains PROVE GivenUpInv' BY DEF GivenUpInv
<1>2. drain[d].round \in RoundIds /\ drain[d].latest \in Nat BY CountTypes DEF SilenceInv
<1>3. CoveredNext(drain[d].latest) BY <1>2, CoveredStays DEF SilenceInv, GivenUpInv
<1>4. dpc[d] = "reduce" => SettledNext(drain[d].round)
  BY <1>2 DEF SilenceInv, GivenUpInv, Endures
<1>5. ASSUME dpc[d] = "skip", ~ SettledNext(drain[d].round)
      PROVE  CoveredNext(input'[drain[d].round])
  <2>1. Covered(input[drain[d].round]) BY <1>2, <1>5 DEF SilenceInv, GivenUpInv, Endures
  <2>2. input[drain[d].round] # 0 BY <1>5 DEF SilenceInv, RoundsInv, DrainInv
  <2>3. input'[drain[d].round] = input[drain[d].round] BY <1>2, <2>2 DEF Endures
  <2>4. input[drain[d].round] \in Nat BY <1>2, CountTypes DEF SilenceInv
  <2> QED BY <2>1, <2>3, <2>4, CoveredStays DEF SilenceInv
<1> QED BY <1>3, <1>4, <1>5, GivenUpUpdate

\* Nothing that a round consists of changes.
LEMMA SilenceFrame ==
    ASSUME SilenceInv, RoundsInv', UNCHANGED <<input, ratings, gameVars>>,
           OneLoopInv', TakenInv', SettledInv', GivenUpInv'
    PROVE  SilenceInv'
BY GamesInvStays DEF SilenceInv

(***************************************************************************)
(* Where silence is death: loops.                                          *)
(***************************************************************************)
\* A step of the one loop there is.
LEMMA OneLoopUpdate ==
    ASSUME OneLoopInv, NEW l \in Loops, \A k \in Loops : Busy(k) => k = l,
           \A k \in Loops : k # l => lpc'[k] = lpc[k] /\ cpc'[k] = cpc[k],
           cpc'[l] = "open" => input'[call'[l].idx] = 0,
           cpc'[l] \in {"play", "write"} => input'[call'[l].idx] = call'[l].pool
    PROVE  OneLoopInv'
<1>1. \A k \in Loops : k # l => lpc'[k] = "idle" /\ cpc'[k] = "none" BY DEF Busy
<1> QED BY <1>1 DEF OneLoopInv, Busy

\* A step of a loop that leaves the rounds as they are.
LEMMA LoopSilence ==
    ASSUME SilenceInv, RoundsInv', NEW l \in Loops, Busy(l),
           UNCHANGED <<input, ratings, gameVars, redVars, drainVars>>,
           \A k \in Loops : k # l => /\ lpc'[k] = lpc[k] /\ cpc'[k] = cpc[k]
                                     /\ call'[k] = call[k],
           cpc'[l] = "open" => input[call'[l].idx] = 0,
           cpc'[l] \in {"play", "write"} => input[call'[l].idx] = call'[l].pool,
           Covered(call'[l].snap.pool), Covered(latest'.pool)
    PROVE  SilenceInv'
<1>1. Endures BY SameEndures DEF SilenceInv, gameVars
<1>2. OneLoopInv' BY OneLoopUpdate DEF SilenceInv, OneLoopInv
<1>3. TakenInv'
  <2>1. \A k \in Loops : Covered(call'[k].snap.pool) BY DEF SilenceInv, TakenInv
  <2> QED BY <2>1 DEF TakenInv, Covered
<1>4. SettledInv' /\ GivenUpInv' BY <1>1, SettledStays, GivenUpStays DEF drainVars
<1> QED BY <1>2, <1>3, <1>4, SilenceFrame

\* A loop's own variables after its step.
LEMMA LoopAt ==
    ASSUME RoundsInv, NEW l \in Loops
    PROVE  /\ \A x : /\ [lpc EXCEPT ![l] = x][l] = x /\ [cpc EXCEPT ![l] = x][l] = x
                     /\ [call EXCEPT ![l] = x][l] = x
           /\ \A x, k \in Loops : k # l => /\ [lpc EXCEPT ![l] = x][k] = lpc[k]
                                           /\ [cpc EXCEPT ![l] = x][k] = cpc[k]
                                           /\ [call EXCEPT ![l] = x][k] = call[k]
BY DEF RoundsInv, LoopInv, LoopTypes

LEMMA ConfigSilence ==
    ASSUME SilenceInv, RoundsInv', NEW l \in Loops, ConfigLoop(l) PROVE SilenceInv'
<1>1. /\ lpc[l] = "queued" /\ lpc' = [lpc EXCEPT ![l] = "start"]
      /\ UNCHANGED <<input, ratings, latest, gameVars, cpc, call, redVars, drainVars>>
  BY DEF ConfigLoop
<1>2. Busy(l) BY <1>1 DEF Busy
<1>3. \A k \in Loops : k # l => lpc'[k] = lpc[k] BY <1>1, LoopAt DEF SilenceInv
<1>4. /\ cpc[l] = "open" => input[call[l].idx] = 0
      /\ cpc[l] \in {"play", "write"} => input[call[l].idx] = call[l].pool
      /\ Covered(call[l].snap.pool) /\ Covered(latest.pool)
  BY DEF SilenceInv, OneLoopInv, TakenInv
<1> QED BY <1>1, <1>2, <1>3, <1>4, LoopSilence

\* A call of nothing yet, and no call.
LEMMA NoCallSilence ==
    ASSUME SilenceInv, RoundsInv', NEW l \in Loops, Busy(l),
           UNCHANGED <<input, ratings, gameVars, redVars, drainVars>>,
           \A k \in Loops : k # l => /\ lpc'[k] = lpc[k] /\ cpc'[k] = cpc[k]
                                     /\ call'[k] = call[k],
           cpc'[l] \in {"none", "begin"}, call'[l].snap = NoRatings, Covered(latest'.pool)
    PROVE  SilenceInv'
<1>1. Covered(call'[l].snap.pool) BY NothingCovered DEF SilenceInv, NoRatings
<1> QED BY <1>1, LoopSilence

LEMMA StartSilence ==
    ASSUME SilenceInv, RoundsInv', NEW l \in Loops, StartLoop(l) PROVE SilenceInv'
<1> DEFINE c == [NoCall EXCEPT !.pool = loop[l].pool, !.idx = loop[l].idx]
<1>1. /\ lpc[l] = "start" /\ lpc' = [lpc EXCEPT ![l] = "wait"] /\ cpc' = [cpc EXCEPT ![l] = "begin"]
      /\ call' = [call EXCEPT ![l] = c]
      /\ UNCHANGED <<volumeVars, gameVars, redVars, drainVars>>
  BY DEF StartLoop
<1>2. Busy(l) /\ c.snap = NoRatings BY <1>1 DEF Busy, NoCall
<1> HIDE DEF c
<1>3. /\ cpc'[l] = "begin" /\ call'[l] = c
      /\ \A k \in Loops : k # l => /\ lpc'[k] = lpc[k] /\ cpc'[k] = cpc[k]
                                   /\ call'[k] = call[k]
  BY <1>1, LoopAt DEF SilenceInv
<1>4. Covered(latest.pool) BY DEF SilenceInv, TakenInv
<1> QED BY <1>1, <1>2, <1>3, <1>4, NoCallSilence DEF volumeVars

LEMMA BeginSilence ==
    ASSUME SilenceInv, RoundsInv', NEW l \in Loops, BeginRound(l) PROVE SilenceInv'
<1> DEFINE r == call[l].idx
           v == View
           seen == [call[l] EXCEPT !.seen = v]
<1>1. /\ cpc[l] = "begin"
      /\ UNCHANGED <<volumeVars, gameVars, lpc, redVars, drainVars>>
      /\ \/ Return(l, "rated", ratings[r])
         \/ Return(l, "skipped", NoRatings) \/ Return(l, "running", NoRatings)
         \/ /\ input[r] = call[l].pool /\ cpc' = [cpc EXCEPT ![l] = "write"]
            /\ call' = [call EXCEPT ![l] = seen]
         \/ /\ input[r] = 0 /\ cpc' = [cpc EXCEPT ![l] = "open"]
            /\ call' = [call EXCEPT ![l] = seen]
  BY DEF BeginRound
<1>2. Busy(l) /\ Covered(latest.pool) /\ Covered(call[l].snap.pool)
  BY <1>1 DEF Busy, SilenceInv, TakenInv
<1>3. r \in RoundIds /\ call[l] \in CallRecords
  BY CountTypes DEF SilenceInv, RoundsInv, LoopInv, LoopTypes
<1>4. seen.idx = r /\ seen.pool = call[l].pool /\ seen.snap = call[l].snap BY <1>3 DEF CallRecords
<1>5. ASSUME NEW kind \in {"rated", "skipped", "running"}, NEW snap, Covered(snap.pool),
             Return(l, kind, snap)
      PROVE  SilenceInv'
  <2> DEFINE c == [NoCall EXCEPT !.idx = call[l].idx, !.kind = kind, !.snap = snap]
  <2>1. c.snap = snap BY DEF NoCall
  <2>2. cpc' = [cpc EXCEPT ![l] = "done"] /\ call' = [call EXCEPT ![l] = c] BY <1>5 DEF Return
  <2> HIDE DEF c
  <2>3. /\ cpc'[l] = "done" /\ call'[l] = c
        /\ \A k \in Loops : k # l => cpc'[k] = cpc[k] /\ call'[k] = call[k]
    BY <2>2, LoopAt DEF SilenceInv
  <2> QED BY <1>1, <1>2, <1>5, <2>1, <2>3, LoopSilence DEF volumeVars
<1>6. CASE Return(l, "rated", ratings[r])
  <2>1. Covered(ratings[r].pool) BY <1>3, CountTypes DEF Covered, SilenceInv
  <2> QED BY <1>5, <1>6, <2>1
<1>7. CASE Return(l, "skipped", NoRatings) \/ Return(l, "running", NoRatings)
  <2>1. Covered(NoRatings.pool) BY NothingCovered DEF SilenceInv, NoRatings
  <2> QED BY <1>5, <1>7, <2>1
<1> HIDE DEF seen
<1>8. ASSUME NEW step \in {"write", "open"}, cpc' = [cpc EXCEPT ![l] = step],
             call' = [call EXCEPT ![l] = seen],
             step = "open" => input[r] = 0, step = "write" => input[r] = call[l].pool
      PROVE  SilenceInv'
  <2>1. /\ cpc'[l] = step /\ call'[l] = seen
        /\ \A k \in Loops : k # l => cpc'[k] = cpc[k] /\ call'[k] = call[k]
    BY <1>8, LoopAt DEF SilenceInv
  <2> QED BY <1>1, <1>2, <1>4, <1>8, <2>1, LoopSilence DEF volumeVars
<1> QED BY <1>1, <1>6, <1>7, <1>8

LEMMA EndsSilence ==
    ASSUME SilenceInv, RoundsInv', NEW l \in Loops, Busy(l),
           UNCHANGED <<input, ratings, latest, gameVars, redVars, drainVars>>,
           UNCHANGED lpc \/ EndLoop(l), UNCHANGED <<cpc, call>> \/ EndCall(l)
    PROVE  SilenceInv'
<1>1. \A k \in Loops : k # l => lpc'[k] = lpc[k] BY LoopAt DEF EndLoop, SilenceInv
<1>2. Covered(latest.pool) BY DEF SilenceInv, TakenInv
<1>3. CASE UNCHANGED <<cpc, call>>
  <2>1. /\ cpc[l] = "open" => input[call[l].idx] = 0
        /\ cpc[l] \in {"play", "write"} => input[call[l].idx] = call[l].pool
        /\ Covered(call[l].snap.pool)
    BY DEF SilenceInv, OneLoopInv, TakenInv
  <2> QED BY <1>1, <1>2, <1>3, <2>1, LoopSilence
<1>4. CASE EndCall(l)
  <2>1. cpc' = [cpc EXCEPT ![l] = "none"] /\ call' = [call EXCEPT ![l] = NoCall]
    BY <1>4 DEF EndCall
  <2>2. /\ cpc'[l] = "none" /\ call'[l] = NoCall
        /\ \A k \in Loops : k # l => cpc'[k] = cpc[k] /\ call'[k] = call[k]
    BY <2>1, LoopAt DEF SilenceInv
  <2>3. call'[l].snap = NoRatings BY <2>2 DEF NoCall
  <2> QED BY <1>1, <1>2, <2>2, <2>3, NoCallSilence
<1> QED BY <1>3, <1>4

LEMMA EndStepsSilence ==
    ASSUME SilenceInv, RoundsInv', NEW l \in Loops,
           FailRound(l) \/ DropRound(l) \/ CrashLoop(l) \/ CrashRound(l)
    PROVE  SilenceInv'
<1>1. /\ Busy(l) /\ UNCHANGED <<volumeVars, gameVars, redVars, drainVars>>
  BY DEF FailRound, DropRound, CrashLoop, CrashRound, Busy
<1>2. (UNCHANGED lpc \/ EndLoop(l)) /\ (UNCHANGED <<cpc, call>> \/ EndCall(l))
  BY DEF FailRound, DropRound, CrashLoop, CrashRound
<1> QED BY <1>1, <1>2, EndsSilence DEF volumeVars

LEMMA TakeSilence ==
    ASSUME SilenceInv, RoundsInv', NEW l \in Loops, TakeRound(l) PROVE SilenceInv'
<1> DEFINE r == call[l].idx
           c == [NoCall EXCEPT !.pool = loop[l].pool, !.idx = r + 1]
<1>1. /\ lpc[l] = "wait"
      /\ UNCHANGED <<input, ratings, gameVars, redVars, drainVars>>
      /\ UNCHANGED latest \/ latest' = [round |-> r, pool |-> call[l].snap.pool]
      /\ \/ /\ cpc' = [cpc EXCEPT ![l] = "begin"] /\ call' = [call EXCEPT ![l] = c]
            /\ UNCHANGED lpc
         \/ EndLoop(l) /\ EndCall(l)
  BY DEF TakeRound
<1>2. Busy(l) BY <1>1 DEF Busy
<1>3. Covered(latest'.pool) BY <1>1 DEF SilenceInv, TakenInv
<1>4. CASE /\ cpc' = [cpc EXCEPT ![l] = "begin"] /\ call' = [call EXCEPT ![l] = c]
           /\ UNCHANGED lpc
  <2>1. c.snap = NoRatings BY DEF NoCall
  <2> HIDE DEF c
  <2>2. /\ cpc'[l] = "begin" /\ call'[l] = c
        /\ \A k \in Loops : k # l => cpc'[k] = cpc[k] /\ call'[k] = call[k]
    BY <1>4, LoopAt DEF SilenceInv
  <2> QED BY <1>1, <1>2, <1>3, <1>4, <2>1, <2>2, NoCallSilence
<1>5. CASE EndLoop(l) /\ EndCall(l)
  <2>1. /\ lpc' = [lpc EXCEPT ![l] = "idle"] /\ cpc' = [cpc EXCEPT ![l] = "none"]
        /\ call' = [call EXCEPT ![l] = NoCall]
    BY <1>5 DEF EndLoop, EndCall
  <2>2. /\ cpc'[l] = "none" /\ call'[l] = NoCall
        /\ \A k \in Loops : k # l => /\ lpc'[k] = lpc[k] /\ cpc'[k] = cpc[k]
                                     /\ call'[k] = call[k]
    BY <2>1, LoopAt DEF SilenceInv
  <2>3. call'[l].snap = NoRatings BY <2>2 DEF NoCall
  <2> QED BY <1>1, <1>2, <1>3, <2>2, <2>3, NoCallSilence
<1> QED BY <1>1, <1>4, <1>5

(***************************************************************************)
(* Where silence is death: rounds are opened, played and rated.            *)
(***************************************************************************)
LEMMA OpenSilence ==
    ASSUME SilenceInv, RoundsInv', NEW l \in Loops, OpenRound(l) PROVE SilenceInv'
<1> DEFINE r == call[l].idx
           p == call[l].pool
           n == live[r]
           m == Max({n, Games(p)})
           v == View'
           c == [call[l] EXCEPT !.seen = v]
<1>1. /\ cpc[l] = "open" /\ input' = [input EXCEPT ![r] = p] /\ live' = [live EXCEPT ![r] = m]
      /\ quiet' = [quiet EXCEPT ![r] = FALSE] /\ old' = [old EXCEPT ![r] = FALSE]
      /\ cpc' = [cpc EXCEPT ![l] = "play"] /\ call' = [call EXCEPT ![l] = c]
      /\ UNCHANGED <<ratings, latest, played, lpc, redVars, drainVars>>
  BY DEF OpenRound
<1>2. /\ r \in RoundIds /\ p \in Pools /\ input[r] = 0 /\ call[l] \in CallRecords
  BY <1>1, CountTypes DEF SilenceInv, OneLoopInv, RoundsInv, LoopInv, LoopTypes
<1>3. n = 0 /\ played[r] = 0 /\ ratings[r].pool = 0 BY <1>2 DEF SilenceInv, GamesInv
<1>4. c.idx = r /\ c.pool = p /\ c.snap = call[l].snap BY <1>2 DEF CallRecords
<1>5. Busy(l) BY <1>1 DEF Busy
<1> HIDE DEF c, p, n
<1>6. m = Games(p) /\ m \in Nat
  <2> DEFINE g == Games(p)
  <2>1. g \in Nat BY <1>2, PoolGames
  <2>2. m = Max({0, g}) BY <1>3
  <2> HIDE DEF g, m
  <2>3. m = g BY <2>1, <2>2, TwoNumbers
  <2> QED BY <2>1, <2>3 DEF g
<1> HIDE DEF m, r
<1>7. /\ cpc'[l] = "play" /\ call'[l] = c
      /\ \A k \in Loops : k # l => cpc'[k] = cpc[k] /\ call'[k] = call[k]
  <2>1. cpc' = [cpc EXCEPT ![l] = "play"] /\ call' = [call EXCEPT ![l] = c] BY <1>1
  <2> QED BY <2>1, LoopAt DEF SilenceInv
<1>8. /\ input'[r] = p /\ live'[r] = m /\ ~ quiet'[r] /\ ~ old'[r]
      /\ \A s \in RoundIds : s # r => /\ input'[s] = input[s] /\ live'[s] = live[s]
                                      /\ quiet'[s] = quiet[s] /\ old'[s] = old[s]
  BY <1>1, <1>2 DEF SilenceInv, RoundsInv, VolumeInv, VolumeTypes, GameTypes
<1>9. p # 0 BY <1>2, PoolGames
<1>10. Endures
  <2>1. \A s \in RoundIds : ratings'[s].pool >= ratings[s].pool
    BY <1>1, CountTypes DEF SilenceInv
  <2> QED BY <1>1, <1>2, <1>8, <2>1 DEF Endures, Settled, SettledNext
<1>11. OneLoopInv'
  <2>1. \A k \in Loops : Busy(k) => k = l BY <1>5 DEF SilenceInv, OneLoopInv
  <2> QED BY <1>1, <1>4, <1>7, <1>8, <2>1, OneLoopUpdate DEF SilenceInv
<1>12. TakenInv'
  <2>1. \A k \in Loops : Covered(call'[k].snap.pool)
    BY <1>4, <1>7 DEF SilenceInv, TakenInv
  <2> QED BY <1>1, <2>1 DEF SilenceInv, TakenInv, Covered
<1>13. GamesInv'
  <2>1. ASSUME NEW s \in RoundIds, s # r
        PROVE  /\ input[s] = 0 => /\ played[s] = 0 /\ live[s] = 0 /\ ~ quiet[s] /\ ~ old[s]
                                  /\ ratings[s].pool = 0
               /\ input[s] # 0 => played[s] <= Games(input[s]) /\ live[s] <= Games(input[s])
               /\ quiet[s] \/ old[s] => played[s] >= live[s]
               /\ ratings[s].pool = 0 => ratings[s].games = 0
               /\ ratings[s].pool # 0 =>
                     /\ Settled(s) /\ ratings[s].games = played[s] /\ ratings[s].pool = input[s]
    BY DEF SilenceInv, GamesInv
  <2>2. played[r] <= Games(p) /\ ratings[r].games = 0
    BY <1>2, <1>3, <1>6 DEF SilenceInv, GamesInv
  <2>3. m <= Games(p) BY <1>6
  <2> QED BY <1>1, <1>3, <1>8, <1>9, <2>1, <2>2, <2>3 DEF GamesInv, Settled
<1>14. SettledInv' /\ GivenUpInv'
  BY <1>1, <1>10, SettledStays, GivenUpStays DEF drainVars
<1> QED BY <1>11, <1>12, <1>13, <1>14 DEF SilenceInv

\* Ratings of what was played of a settled round.
LEMMA OutputsSilence ==
    ASSUME SilenceInv, RoundsInv', NEW r \in RoundIds, NEW p, NEW partial, NEW seen,
           WriteOutputs(r, p, played[r], partial, seen), Settled(r), p = input[r],
           UNCHANGED gameVars
    PROVE  /\ Endures /\ GamesInv' /\ CoveredNext(latest'.pool) /\ ratings'[r].pool = p
           /\ \A s \in RoundIds : ratings'[s].games >= ratings[s].games
<1> DEFINE publish == Publishes(seen.latest, r, p)
           n == played[r]
           new == [pool |-> p, global |-> publish, games |-> n, partial |-> partial]
<1>1. /\ ratings' = [ratings EXCEPT ![r] = new] /\ UNCHANGED input
      /\ UNCHANGED latest \/ latest' = [round |-> r, pool |-> p]
  BY DEF WriteOutputs
<1>2. new.pool = p /\ new.games = n OBVIOUS
<1> HIDE DEF publish, new
<1>3. /\ ratings'[r] = new /\ \A s \in RoundIds : s # r => ratings'[s] = ratings[s]
  BY <1>1 DEF SilenceInv, RoundsInv, VolumeInv, VolumeTypes
<1>4. p \in Nat /\ p # 0 /\ n \in Nat /\ p = input[r] BY CountTypes DEF Settled, SilenceInv
<1>5. (ratings[r].pool = 0 \/ ratings[r].pool = p) /\ (ratings[r].games = 0 \/ ratings[r].games = n)
  BY DEF SilenceInv, GamesInv
<1>6. UNCHANGED <<input, played, live, quiet, old>> BY <1>1 DEF gameVars
<1>7. Endures
  <2>1. ASSUME NEW s \in RoundIds PROVE ratings'[s].pool >= ratings[s].pool
    <3>1. ratings[s].pool \in Nat BY CountTypes DEF SilenceInv
    <3>2. CASE s = r BY <1>2, <1>3, <1>4, <1>5, <3>1, <3>2
    <3>3. CASE s # r BY <1>3, <3>1, <3>3
    <3> QED BY <3>2, <3>3
  <2> QED BY <1>6, <2>1 DEF Endures, Settled, SettledNext
<1>8. ASSUME NEW s \in RoundIds PROVE ratings'[s].games >= ratings[s].games
  <2>1. ratings[s].games \in Nat BY CountTypes DEF SilenceInv
  <2>2. CASE s = r BY <1>2, <1>3, <1>4, <1>5, <2>1, <2>2
  <2>3. CASE s # r BY <1>3, <2>1, <2>3
  <2> QED BY <2>2, <2>3
<1>9. CoveredNext(latest'.pool)
  <2>1. CASE UNCHANGED latest
    BY <1>7, <2>1, CoveredStays, CountTypes DEF SilenceInv, TakenInv
  <2>2. CASE latest' = [round |-> r, pool |-> p]
    <3>1. ratings'[r].pool >= latest'.pool BY <1>2, <1>3, <1>4, <2>2
    <3> QED BY <3>1 DEF CoveredNext
  <2> QED BY <1>1, <2>1, <2>2
<1>10. GamesInv'
  <2>1. ASSUME NEW s \in RoundIds
        PROVE  /\ input[s] = 0 => /\ played[s] = 0 /\ live[s] = 0 /\ ~ quiet[s] /\ ~ old[s]
                                  /\ ratings'[s].pool = 0
               /\ input[s] # 0 => played[s] <= Games(input[s]) /\ live[s] <= Games(input[s])
               /\ quiet[s] \/ old[s] => played[s] >= live[s]
               /\ ratings'[s].pool = 0 => ratings'[s].games = 0
               /\ ratings'[s].pool # 0 =>
                     /\ Settled(s) /\ ratings'[s].games = played[s] /\ ratings'[s].pool = input[s]
    <3>1. CASE s = r BY <1>2, <1>3, <1>4, <3>1 DEF SilenceInv, GamesInv, n
    <3>2. CASE s # r BY <1>3, <3>2 DEF SilenceInv, GamesInv
    <3> QED BY <3>1, <3>2
  <2> QED BY <1>6, <2>1 DEF GamesInv, Settled
<1> QED BY <1>2, <1>3, <1>7, <1>8, <1>9, <1>10

\* The call of the loop rates a round whose games are all there.
LEMMA WriteSilence ==
    ASSUME SilenceInv, RoundsInv', NEW l \in Loops, WriteRound(l)
    PROVE  SilenceInv' /\ \A s \in RoundIds : ratings'[s].games >= ratings[s].games
<1> DEFINE r == call[l].idx
           p == call[l].pool
           n == played[r]
           snap == ratings'[r]
           c == [NoCall EXCEPT !.idx = r, !.kind = "rated", !.snap = snap]
<1>1. /\ cpc[l] \in {"play", "write"} /\ (cpc[l] = "play" => n >= Games(p))
      /\ WriteOutputs(r, p, Min({n, Games(p)}), FALSE, call[l].seen)
      /\ cpc' = [cpc EXCEPT ![l] = "done"] /\ call' = [call EXCEPT ![l] = c]
      /\ UNCHANGED <<gameVars, lpc, redVars, drainVars>>
  BY DEF WriteRound, Return
<1>2. r \in RoundIds /\ p \in Pools /\ input[r] = p /\ n >= Games(p)
  BY <1>1, CountTypes DEF SilenceInv, OneLoopInv, RoundsInv, LoopInv
<1>3. p # 0 /\ n \in Nat /\ Games(p) \in Nat /\ live[r] \in Nat
  BY <1>2, PoolGames, CountTypes DEF SilenceInv
<1>4. n <= Games(p) /\ live[r] <= Games(p) BY <1>2, <1>3 DEF SilenceInv, GamesInv
<1>5. Busy(l) BY <1>1 DEF Busy
<1>6. c.snap = snap BY DEF NoCall
<1> HIDE DEF c, n, p, snap
<1>7. Min({n, Games(p)}) = n BY <1>3, <1>4, TwoNumbers
<1>8. n >= live[r] BY <1>2, <1>3, <1>4
<1>9. Settled(r) BY <1>2, <1>3, <1>8 DEF Settled, n
<1>10. WriteOutputs(r, p, played[r], FALSE, call[l].seen) BY <1>1, <1>7 DEF n
<1> HIDE DEF r
<1>11. /\ Endures /\ GamesInv' /\ CoveredNext(latest'.pool) /\ ratings'[r].pool = p
       /\ \A s \in RoundIds : ratings'[s].games >= ratings[s].games
  BY <1>1, <1>2, <1>9, <1>10, OutputsSilence
<1>12. /\ cpc'[l] = "done" /\ call'[l] = c
       /\ \A k \in Loops : k # l => cpc'[k] = cpc[k] /\ call'[k] = call[k]
  <2>1. cpc' = [cpc EXCEPT ![l] = "done"] /\ call' = [call EXCEPT ![l] = c] BY <1>1
  <2> QED BY <2>1, LoopAt DEF SilenceInv
<1>13. OneLoopInv'
  <2>1. \A k \in Loops : Busy(k) => k = l BY <1>5 DEF SilenceInv, OneLoopInv
  <2> QED BY <1>1, <1>12, <2>1, OneLoopUpdate DEF SilenceInv
<1>14. TakenInv'
  <2>1. ratings'[r].pool \in Nat BY <1>2, NextPools
  <2>2. CoveredNext(snap.pool) BY <1>2, <2>1 DEF CoveredNext, snap
  <2>3. \A k \in Loops : k # l => CoveredNext(call[k].snap.pool)
    BY <1>11, CountTypes, CoveredStays DEF SilenceInv, TakenInv
  <2> QED BY <1>6, <1>11, <1>12, <2>2, <2>3 DEF TakenInv, Covered, CoveredNext
<1>15. SettledInv' /\ GivenUpInv'
  BY <1>1, <1>11, SettledStays, GivenUpStays DEF drainVars
<1> QED BY <1>11, <1>13, <1>14, <1>15 DEF SilenceInv

(***************************************************************************)
(* Where silence is death: games, and time.                                *)
(***************************************************************************)
LEMMA GamesSilence ==
    ASSUME SilenceInv, RoundsInv', GamesInv',
           UNCHANGED <<volumeVars, loopVars, redVars, drainVars>>,
           \A r \in RoundIds : Settled(r) => SettledNext(r) /\ played'[r] = played[r]
    PROVE  SilenceInv'
<1>1. UNCHANGED <<input, ratings, latest, lpc, cpc, call, dpc, drain>>
  BY DEF volumeVars, loopVars, drainVars
<1>2. Endures BY <1>1, CountTypes DEF Endures, SilenceInv
<1>3. CoveredNext(latest'.pool)
  BY <1>1, <1>2, CountTypes, CoveredStays DEF SilenceInv, TakenInv
<1>4. OneLoopInv' /\ TakenInv' BY <1>1, <1>2, <1>3, OneLoopStays, TakenStays DEF SilenceInv
<1>5. SettledInv' /\ GivenUpInv' BY <1>1, <1>2, SettledStays, GivenUpStays
<1> QED BY <1>4, <1>5 DEF SilenceInv

LEMMA PlaySilence ==
    ASSUME SilenceInv, RoundsInv', NEW r \in RoundIds, PlayGame(r) PROVE SilenceInv'
<1> DEFINE n == played[r]
           m == live[r]
           g == Games(input[r])
<1>1. /\ n < m /\ played' = [played EXCEPT ![r] = n + 1] /\ quiet' = [quiet EXCEPT ![r] = FALSE]
      /\ UNCHANGED <<volumeVars, live, old, loopVars, redVars, drainVars>>
  BY DEF PlayGame
<1>2. n \in Nat /\ m \in Nat BY CountTypes DEF SilenceInv
<1>3. input[r] # 0 BY <1>1 DEF SilenceInv, GamesInv
<1>4. g \in Nat
  <2>1. input[r] \in Pools BY <1>3 DEF SilenceInv, RoundsInv, VolumeInv, VolumeTypes, PoolOrNone
  <2> QED BY <2>1, PoolGames
<1>5. m <= g BY <1>3 DEF SilenceInv, GamesInv
<1>6. ~ (n >= m) BY <1>1, <1>2
<1>7. ~ old[r] /\ ~ Settled(r) BY <1>6 DEF SilenceInv, GamesInv, Settled
<1>8. ratings[r].pool = 0 /\ ratings[r].games = 0 BY <1>7 DEF SilenceInv, GamesInv
<1>9. UNCHANGED <<input, ratings>> BY <1>1 DEF volumeVars
<1>10. /\ played'[r] = n + 1 /\ ~ quiet'[r]
       /\ \A s \in RoundIds : s # r => played'[s] = played[s] /\ quiet'[s] = quiet[s]
  BY <1>1 DEF SilenceInv, RoundsInv, GameTypes
<1> HIDE DEF n, m, g
<1>11. n + 1 <= g BY <1>1, <1>2, <1>4, <1>5
<1>12. GamesInv'
  <2>1. ASSUME NEW s \in RoundIds, s # r
        PROVE  /\ input[s] = 0 => /\ played[s] = 0 /\ live[s] = 0 /\ ~ quiet[s] /\ ~ old[s]
                                  /\ ratings[s].pool = 0
               /\ input[s] # 0 => played[s] <= Games(input[s]) /\ live[s] <= Games(input[s])
               /\ quiet[s] \/ old[s] => played[s] >= live[s]
               /\ ratings[s].pool = 0 => ratings[s].games = 0
               /\ ratings[s].pool # 0 =>
                     /\ Settled(s) /\ ratings[s].games = played[s] /\ ratings[s].pool = input[s]
    BY DEF SilenceInv, GamesInv
  <2>2. played'[r] <= Games(input[r]) /\ live[r] <= Games(input[r])
    BY <1>5, <1>10, <1>11 DEF g, m
  <2> QED BY <1>1, <1>3, <1>7, <1>8, <1>9, <1>10, <2>1, <2>2 DEF GamesInv, Settled
<1>13. \A s \in RoundIds : Settled(s) => SettledNext(s) /\ played'[s] = played[s]
  BY <1>1, <1>7, <1>9, <1>10 DEF Settled, SettledNext
<1> QED BY <1>1, <1>12, <1>13, GamesSilence

LEMMA DieSilence ==
    ASSUME SilenceInv, RoundsInv', NEW r \in RoundIds, GamesDie(r) PROVE SilenceInv'
<1>1. /\ live' = [live EXCEPT ![r] = 0] /\ ~ (played[r] >= live[r])
      /\ UNCHANGED <<volumeVars, played, quiet, old, loopVars, redVars, drainVars>>
  <2>1. played[r] \in Nat /\ live[r] \in Nat BY CountTypes DEF SilenceInv
  <2> QED BY <2>1 DEF GamesDie
<1>2. UNCHANGED <<input, ratings>> BY <1>1 DEF volumeVars
<1>3. /\ live'[r] = 0 /\ \A s \in RoundIds : s # r => live'[s] = live[s]
  BY <1>1 DEF SilenceInv, RoundsInv, GameTypes
<1>4. played[r] >= 0 BY CountTypes DEF SilenceInv
<1>5. ratings[r].pool = 0 BY <1>1 DEF SilenceInv, GamesInv, Settled
<1>6. input[r] # 0 => 0 <= Games(input[r])
  <2>1. input[r] # 0 => input[r] \in Pools
    BY DEF SilenceInv, RoundsInv, VolumeInv, VolumeTypes, PoolOrNone
  <2> QED BY <2>1, PoolGames
<1>7. GamesInv' BY <1>1, <1>2, <1>3, <1>4, <1>5, <1>6 DEF SilenceInv, GamesInv, Settled
<1>8. \A s \in RoundIds : Settled(s) => SettledNext(s) /\ played'[s] = played[s]
  BY <1>1, <1>2, <1>3, <1>4 DEF Settled, SettledNext
<1> QED BY <1>1, <1>7, <1>8, GamesSilence

\* Time passes over rounds whose games are over or gone.
LEMMA TimeSilence ==
    ASSUME SilenceIsDeath, SilenceInv, RoundsInv', NEW r \in RoundIds, Quieten(r) \/ GrowOld(r)
    PROVE  SilenceInv'
<1>1. /\ input[r] # 0 /\ ~ (played[r] < live[r])
      /\ quiet' \in {quiet, [quiet EXCEPT ![r] = TRUE]} /\ old' \in {old, [old EXCEPT ![r] = TRUE]}
      /\ UNCHANGED <<volumeVars, played, live, loopVars, redVars, drainVars>>
  BY DEF Quieten, GrowOld, Fault, SilenceIsDeath
<1>2. played[r] >= live[r]
  <2>1. played[r] \in Nat /\ live[r] \in Nat BY CountTypes DEF SilenceInv
  <2> QED BY <1>1, <2>1
<1>3. UNCHANGED <<input, ratings>> BY <1>1 DEF volumeVars
<1>4. \A s \in RoundIds : s # r => quiet'[s] = quiet[s] /\ old'[s] = old[s]
  BY <1>1 DEF SilenceInv, RoundsInv, GameTypes
<1>5. GamesInv' BY <1>1, <1>2, <1>3, <1>4 DEF SilenceInv, GamesInv, Settled
<1>6. \A s \in RoundIds : Settled(s) => SettledNext(s) /\ played'[s] = played[s]
  BY <1>1, <1>3 DEF Settled, SettledNext
<1> QED BY <1>1, <1>5, <1>6, GamesSilence

(***************************************************************************)
(* Where silence is death: reducers and reports.                           *)
(***************************************************************************)
\* A step that leaves rounds and loops alone.
LEMMA AsideSilence ==
    ASSUME SilenceInv, RoundsInv', UNCHANGED <<input, ratings, latest, gameVars, loopVars>>,
           UNCHANGED redVars \/ SettledInv', UNCHANGED <<dpc, drain>> \/ GivenUpInv'
    PROVE  SilenceInv'
<1>1. UNCHANGED <<lpc, cpc, call>> BY DEF loopVars
<1>2. Endures BY SameEndures DEF SilenceInv, gameVars
<1>3. OneLoopInv' BY <1>1, OneLoopStays DEF SilenceInv
<1>4. CoveredNext(latest'.pool) BY DEF SilenceInv, TakenInv, Covered, CoveredNext
<1>5. TakenInv' BY <1>1, <1>2, <1>4, TakenStays
<1>6. SettledInv' /\ GivenUpInv' BY <1>2, SettledStays, GivenUpStays
<1> QED BY <1>3, <1>5, <1>6, SilenceFrame

\* A reducer's next state.
LEMMA SettledUpdate ==
    ASSUME SilenceInv, RoundsInv', Endures, NEW e \in Reducers,
           \A k \in Reducers : k # e => rpc'[k] = rpc[k] /\ red'[k] = red[k],
           rpc'[e] # "idle" => SettledNext(red'[e].idx),
           rpc'[e] = "write" => /\ red'[e].games = played'[red'[e].idx]
                                /\ red'[e].pool = input'[red'[e].idx]
    PROVE  SettledInv'
<1>1. ASSUME NEW k \in Reducers, rpc[k] # "idle"
      PROVE  /\ SettledNext(red[k].idx) /\ played'[red[k].idx] = played[red[k].idx]
             /\ input'[red[k].idx] = input[red[k].idx]
  BY <1>1, CountTypes DEF SilenceInv, SettledInv, Endures, Settled
<1> QED BY <1>1 DEF SilenceInv, SettledInv, Settled, SettledNext

LEMMA ReducerAt ==
    ASSUME RoundsInv, NEW e \in Reducers
    PROVE  /\ \A x : [rpc EXCEPT ![e] = x][e] = x /\ [red EXCEPT ![e] = x][e] = x
           /\ \A x, k \in Reducers : k # e => /\ [rpc EXCEPT ![e] = x][k] = rpc[k]
                                              /\ [red EXCEPT ![e] = x][k] = red[k]
BY DEF RoundsInv, ReducerInv, ReducerTypes

LEMMA EndReduceSettled ==
    ASSUME SilenceInv, RoundsInv', Endures, NEW e \in Reducers, EndReduce(e) PROVE SettledInv'
<1>1. /\ rpc'[e] = "idle"
      /\ \A k \in Reducers : k # e => rpc'[k] = rpc[k] /\ red'[k] = red[k]
  <2>1. rpc' = [rpc EXCEPT ![e] = "idle"] /\ red' = [red EXCEPT ![e] = NoCall] BY DEF EndReduce
  <2> QED BY <2>1, ReducerAt DEF SilenceInv
<1> QED BY <1>1, SettledUpdate

LEMMA ReadSilence ==
    ASSUME SilenceInv, RoundsInv', NEW e \in Reducers, ReadRound(e) PROVE SilenceInv'
<1> DEFINE r == red[e].idx
           p == input[r]
           n == played[r]
           games == Min({n, Games(p)})
           c == [red[e] EXCEPT !.pool = p, !.seen = View, !.games = games]
<1>1. /\ rpc[e] = "read"
      /\ UNCHANGED <<input, ratings, latest, gameVars, loopVars, drainVars>>
      /\ \/ EndReduce(e)
         \/ rpc' = [rpc EXCEPT ![e] = "write"] /\ red' = [red EXCEPT ![e] = c]
  BY DEF ReadRound, volumeVars
<1>2. Endures BY <1>1, SameEndures DEF SilenceInv, gameVars
<1>3. CASE EndReduce(e) BY <1>1, <1>2, <1>3, EndReduceSettled, AsideSilence DEF drainVars
<1>4. CASE rpc' = [rpc EXCEPT ![e] = "write"] /\ red' = [red EXCEPT ![e] = c]
  <2>1. /\ r \in RoundIds /\ Settled(r) /\ n \in Nat /\ red[e] \in CallRecords
    BY <1>1, CountTypes DEF SilenceInv, SettledInv, RoundsInv, ReducerInv, ReducerTypes
  <2>2. Games(p) \in Nat /\ n <= Games(p)
    <3>1. p \in Pools
      BY <2>1 DEF Settled, SilenceInv, RoundsInv, VolumeInv, VolumeTypes, PoolOrNone
    <3> QED BY <2>1, <3>1, PoolGames DEF Settled, SilenceInv, GamesInv
  <2>3. games = n
    <3> HIDE DEF n, p
    <3> QED BY <2>1, <2>2, TwoNumbers
  <2> HIDE DEF games
  <2>4. c.idx = r /\ c.pool = p /\ c.games = n BY <2>1, <2>3 DEF CallRecords
  <2>5. /\ rpc'[e] = "write" /\ red'[e] = c
        /\ \A k \in Reducers : k # e => rpc'[k] = rpc[k] /\ red'[k] = red[k]
    <3> HIDE DEF c
    <3> QED BY <1>4, ReducerAt DEF SilenceInv
  <2>6. SettledNext(r) BY <1>2, <2>1 DEF Endures
  <2>7. played'[r] = n /\ input'[r] = p BY <1>1 DEF gameVars
  <2> HIDE DEF c, r, n, p
  <2>8. SettledInv' BY <1>2, <2>4, <2>5, <2>6, <2>7, SettledUpdate
  <2> QED BY <1>1, <2>8, AsideSilence DEF drainVars
<1> QED BY <1>1, <1>3, <1>4

LEMMA ReduceSilence ==
    ASSUME SilenceInv, RoundsInv', NEW e \in Reducers, ReduceRound(e)
    PROVE  SilenceInv' /\ \A s \in RoundIds : ratings'[s].games >= ratings[s].games
<1> DEFINE r == red[e].idx
<1>1. /\ rpc[e] = "write" /\ EndReduce(e)
      /\ WriteOutputs(r, red[e].pool, red[e].games, red[e].partial, red[e].seen)
      /\ UNCHANGED <<gameVars, loopVars, drainVars>>
  BY DEF ReduceRound
<1>2. /\ r \in RoundIds /\ Settled(r) /\ red[e].games = played[r] /\ red[e].pool = input[r]
  BY <1>1, CountTypes DEF SilenceInv, SettledInv
<1>3. WriteOutputs(r, red[e].pool, played[r], red[e].partial, red[e].seen) BY <1>1, <1>2
<1>4. /\ Endures /\ GamesInv' /\ CoveredNext(latest'.pool)
      /\ \A s \in RoundIds : ratings'[s].games >= ratings[s].games
  BY <1>1, <1>2, <1>3, OutputsSilence
<1>5. UNCHANGED <<input, lpc, cpc, call, dpc, drain>> BY <1>1 DEF WriteOutputs, loopVars, drainVars
<1>6. OneLoopInv' /\ TakenInv' BY <1>4, <1>5, OneLoopStays, TakenStays DEF SilenceInv
<1>7. SettledInv' /\ GivenUpInv' BY <1>1, <1>4, <1>5, EndReduceSettled, GivenUpStays
<1> QED BY <1>4, <1>6, <1>7 DEF SilenceInv

LEMMA CrashReducerSilence ==
    ASSUME SilenceInv, RoundsInv', NEW e \in Reducers, CrashReducer(e) PROVE SilenceInv'
<1>1. EndReduce(e) /\ UNCHANGED <<input, ratings, latest, gameVars, loopVars, drainVars>>
  BY DEF CrashReducer, volumeVars
<1>2. Endures BY <1>1, SameEndures DEF SilenceInv, gameVars
<1> QED BY <1>1, <1>2, EndReduceSettled, AsideSilence DEF drainVars

(***************************************************************************)
(* Where silence is death: drains.                                         *)
(***************************************************************************)
LEMMA DrainAt ==
    ASSUME RoundsInv, NEW d \in Drains
    PROVE  /\ \A x : [dpc EXCEPT ![d] = x][d] = x /\ [drain EXCEPT ![d] = x][d] = x
           /\ \A x, k \in Drains : k # d => /\ [dpc EXCEPT ![d] = x][k] = dpc[k]
                                            /\ [drain EXCEPT ![d] = x][k] = drain[k]
BY DEF RoundsInv, DrainInv, DrainTypes

\* A drain that goes on with what it took for rated, or with nothing.
LEMMA DrainGoesOn ==
    ASSUME SilenceInv, RoundsInv', Endures, NEW d \in Drains,
           NEW at \in {"idle", "load", "judge", "spawn"}, NEW x, CoveredNext(x.latest),
           dpc' = [dpc EXCEPT ![d] = at], drain' = [drain EXCEPT ![d] = x]
    PROVE  GivenUpInv'
<1>1. /\ dpc'[d] = at /\ drain'[d] = x
      /\ \A k \in Drains : k # d => dpc'[k] = dpc[k] /\ drain'[k] = drain[k]
  BY DrainAt DEF SilenceInv
<1> QED BY <1>1, GivenUpUpdate

LEMMA EndDrainSilence ==
    ASSUME SilenceInv, RoundsInv', Endures, NEW d \in Drains, EndDrain(d) PROVE GivenUpInv'
<1>1. dpc' = [dpc EXCEPT ![d] = "idle"] /\ drain' = [drain EXCEPT ![d] = NoDrain]
  BY DEF EndDrain, Goto
<1>2. CoveredNext(NoDrain.latest)
  BY NothingCovered, CoveredStays DEF SilenceInv, NoDrain
<1> QED BY <1>1, <1>2, DrainGoesOn

LEMMA ContinueSilence ==
    ASSUME SilenceInv, RoundsInv', Endures, NEW d \in Drains, NEW p, NEW rated, CoveredNext(rated),
           NEW finished, NEW unrated, Continue(d, p, rated, finished, unrated)
    PROVE  GivenUpInv'
<1> DEFINE x == [NoDrain EXCEPT !.pool = p, !.latest = rated]
           y == [NoDrain EXCEPT !.pool = p, !.latest = rated, !.round = Min(unrated)]
<1>1. \/ EndDrain(d)
      \/ dpc' = [dpc EXCEPT ![d] = "spawn"] /\ drain' = [drain EXCEPT ![d] = x]
      \/ dpc' = [dpc EXCEPT ![d] = "judge"] /\ drain' = [drain EXCEPT ![d] = y]
  BY DEF Continue, Goto
<1>2. x.latest = rated /\ y.latest = rated BY DEF NoDrain
<1> HIDE DEF x, y
<1> QED BY <1>1, <1>2, EndDrainSilence, DrainGoesOn

LEMMA StartDrainSilence ==
    ASSUME SilenceInv, RoundsInv', NEW d \in Drains, StartDrain(d) PROVE SilenceInv'
<1>1. /\ dpc' = [dpc EXCEPT ![d] = "load"]
      /\ UNCHANGED <<input, ratings, latest, gameVars, loopVars, redVars, drain>>
  BY DEF StartDrain, Goto, volumeVars
<1>2. Endures BY <1>1, SameEndures DEF SilenceInv, gameVars
<1>3. drain' = [drain EXCEPT ![d] = drain[d]] BY <1>1, DrainSelf DEF SilenceInv, RoundsInv
<1>4. CoveredNext(drain[d].latest)
  BY <1>2, CountTypes, CoveredStays DEF SilenceInv, GivenUpInv
<1> QED BY <1>1, <1>2, <1>3, <1>4, DrainGoesOn, AsideSilence

LEMMA LoadSilence ==
    ASSUME SilenceInv, RoundsInv', NEW d \in Drains, Load(d) PROVE SilenceInv'
<1>1. /\ Continue(d, pool, latest.pool, Existing => WriterFinished, UnratedRounds)
      /\ UNCHANGED <<input, ratings, latest, gameVars, loopVars, redVars>>
  BY DEF Load, volumeVars
<1>2. Endures BY <1>1, SameEndures DEF SilenceInv, gameVars
<1>3. CoveredNext(latest.pool)
  BY <1>2, CountTypes, CoveredStays DEF SilenceInv, TakenInv
<1> QED BY <1>1, <1>2, <1>3, ContinueSilence, AsideSilence

\* A drain gives up a round that is silent, or no larger than what it took for
\* rated; it has a round reduced that is complete, or an hour old.
LEMMA JudgeSilence ==
    ASSUME SilenceInv, RoundsInv', NEW d \in Drains, Judge(d) PROVE SilenceInv'
<1> DEFINE r == drain[d].round
           v == View
           partial == PartialReduce(d, r)
           takeover == claim[r] = "aged"
           x == [drain[d] EXCEPT !.seen = v]
           y == [drain[d] EXCEPT !.partial = partial, !.takeover = takeover]
<1>1. /\ dpc[d] = "judge"
      /\ UNCHANGED <<input, ratings, latest, gameVars, loopVars, redVars>>
      /\ \/ EndDrain(d)
         \/ /\ SkipRound(d, r) /\ dpc' = [dpc EXCEPT ![d] = "skip"]
            /\ drain' = [drain EXCEPT ![d] = x]
         \/ /\ Complete(r) \/ PartialReduce(d, r)
            /\ dpc' = [dpc EXCEPT ![d] = "reduce"] /\ drain' = [drain EXCEPT ![d] = y]
  BY DEF Judge, Goto, volumeVars
<1>2. Endures BY <1>1, SameEndures DEF SilenceInv, gameVars
<1>3. /\ r \in RoundIds /\ input[r] # 0 /\ input[r] \in Pools /\ drain[d] \in DrainRecords
      /\ drain[d].latest \in Nat
  BY <1>1, CountTypes
  DEF SilenceInv, RoundsInv, DrainInv, DrainTypes, VolumeInv, VolumeTypes, PoolOrNone
<1>4. /\ x.latest = drain[d].latest /\ x.round = r /\ y.latest = drain[d].latest /\ y.round = r
  BY <1>3 DEF DrainRecords
<1>5. CoveredNext(drain[d].latest) BY <1>2, <1>3, CoveredStays DEF SilenceInv, GivenUpInv
<1>6. quiet[r] \/ old[r] => SettledNext(r)
  BY <1>2, <1>3 DEF SilenceInv, GamesInv, Settled, Endures
<1>7. ASSUME Complete(r) PROVE SettledNext(r)
  <2>1. /\ played[r] \in Nat /\ live[r] \in Nat /\ Games(input[r]) \in Nat
        /\ live[r] <= Games(input[r])
    BY <1>3, CountTypes, PoolGames DEF SilenceInv, GamesInv
  <2>2. played[r] >= live[r] BY <1>7, <2>1 DEF Complete
  <2> QED BY <1>2, <1>3, <2>2 DEF Settled, Endures
<1>8. AlreadyRated(d, r) => CoveredNext(input'[r])
  <2>1. SUFFICES ASSUME input[r] <= drain[d].latest PROVE CoveredNext(input[r])
    BY <1>1 DEF AlreadyRated
  <2>2. PICK s \in RoundIds : ratings'[s].pool >= drain[d].latest BY <1>5 DEF CoveredNext
  <2>3. input[r] \in Nat /\ ratings'[s].pool \in Nat BY <1>3, NumberTypes, NextPools
  <2>4. ratings'[s].pool >= input[r] BY <1>3, <2>1, <2>2, <2>3
  <2> QED BY <2>4 DEF CoveredNext
<1> HIDE DEF x, y, r
<1>9. CASE EndDrain(d) BY <1>1, <1>2, <1>9, EndDrainSilence, AsideSilence
<1>10. CASE /\ SkipRound(d, r) /\ dpc' = [dpc EXCEPT ![d] = "skip"]
            /\ drain' = [drain EXCEPT ![d] = x]
  <2>1. SettledNext(r) \/ CoveredNext(input'[r]) BY <1>6, <1>8, <1>10 DEF SkipRound
  <2>2. /\ dpc'[d] = "skip" /\ drain'[d] = x
        /\ \A k \in Drains : k # d => dpc'[k] = dpc[k] /\ drain'[k] = drain[k]
    BY <1>10, DrainAt DEF SilenceInv
  <2>3. GivenUpInv' BY <1>2, <1>4, <1>5, <2>1, <2>2, GivenUpUpdate
  <2> QED BY <1>1, <2>3, AsideSilence
<1>11. CASE /\ Complete(r) \/ PartialReduce(d, r)
            /\ dpc' = [dpc EXCEPT ![d] = "reduce"] /\ drain' = [drain EXCEPT ![d] = y]
  <2>1. SettledNext(r) BY <1>6, <1>7, <1>11 DEF PartialReduce
  <2>2. /\ dpc'[d] = "reduce" /\ drain'[d] = y
        /\ \A k \in Drains : k # d => dpc'[k] = dpc[k] /\ drain'[k] = drain[k]
    BY <1>11, DrainAt DEF SilenceInv
  <2>3. GivenUpInv' BY <1>2, <1>4, <1>5, <2>1, <2>2, GivenUpUpdate
  <2> QED BY <1>1, <2>3, AsideSilence
<1> QED BY <1>1, <1>9, <1>10, <1>11

LEMMA SkipSilence ==
    ASSUME SilenceInv, RoundsInv', NEW d \in Drains, Skip(d) PROVE SilenceInv'
<1>1. /\ Continue(d, drain[d].pool, drain[d].latest, WriterFinished', UnratedRounds')
      /\ UNCHANGED <<input, ratings, latest, gameVars, loopVars, redVars>>
  BY DEF Skip
<1>2. Endures BY <1>1, SameEndures DEF SilenceInv, gameVars
<1>3. CoveredNext(drain[d].latest)
  BY <1>2, CountTypes, CoveredStays DEF SilenceInv, GivenUpInv
<1> DEFINE p == drain[d].pool
           rated == drain[d].latest
           finished == WriterFinished'
           unrated == UnratedRounds'
<1>4. Continue(d, p, rated, finished, unrated) /\ CoveredNext(rated) BY <1>1, <1>3
<1> HIDE DEF p, rated, finished, unrated
<1> QED BY <1>1, <1>2, <1>4, ContinueSilence, AsideSilence

\* The reducer a drain spawns works on the settled round of the drain.
LEMMA ReduceDrainSilence ==
    ASSUME SilenceInv, RoundsInv', NEW d \in Drains, Reduce(d) PROVE SilenceInv'
<1> DEFINE r == drain[d].round
           c == [NoCall EXCEPT !.idx = r, !.partial = drain[d].partial]
<1>1. /\ dpc[d] = "reduce" /\ EndDrain(d)
      /\ UNCHANGED <<input, ratings, latest, gameVars, loopVars>>
      /\ \/ UNCHANGED redVars
         \/ \E e \in Reducers : rpc' = [rpc EXCEPT ![e] = "read"] /\ red' = [red EXCEPT ![e] = c]
  BY DEF Reduce, redVars, volumeVars
<1>2. Endures BY <1>1, SameEndures DEF SilenceInv, gameVars
<1>3. GivenUpInv' BY <1>1, <1>2, EndDrainSilence
<1>4. SettledNext(r) BY <1>1, <1>2, CountTypes DEF SilenceInv, GivenUpInv, Endures
<1>5. c.idx = r BY DEF NoCall
<1> HIDE DEF c
<1>6. ASSUME NEW e \in Reducers, rpc' = [rpc EXCEPT ![e] = "read"], red' = [red EXCEPT ![e] = c]
      PROVE  SettledInv'
  <2>1. /\ rpc'[e] = "read" /\ red'[e] = c
        /\ \A k \in Reducers : k # e => rpc'[k] = rpc[k] /\ red'[k] = red[k]
    BY <1>6, ReducerAt DEF SilenceInv
  <2> QED BY <1>2, <1>4, <1>5, <2>1, SettledUpdate
<1> QED BY <1>1, <1>3, <1>6, AsideSilence

\* A loop is spawned only where no other is busy.
LEMMA SpawnSilence ==
    ASSUME SilenceInv, RoundsInv', NEW d \in Drains, Spawn(d) PROVE SilenceInv'
<1>1. /\ EndDrain(d) /\ UNCHANGED <<input, ratings, latest, gameVars, cpc, call, redVars>>
      /\ \/ UNCHANGED lpc
         \/ ~ Outrun(d) /\ \E l \in Loops : lpc' = [lpc EXCEPT ![l] = "queued"]
  BY DEF Spawn, volumeVars
<1>2. Endures BY <1>1, SameEndures DEF SilenceInv, gameVars
<1>3. GivenUpInv' /\ SettledInv' BY <1>1, <1>2, EndDrainSilence, SettledStays
<1>4. CoveredNext(latest'.pool)
  BY <1>1, <1>2, CountTypes, CoveredStays DEF SilenceInv, TakenInv
<1>5. TakenInv' BY <1>1, <1>2, <1>4, TakenStays
<1>6. OneLoopInv'
  <2>1. CASE UNCHANGED lpc BY <1>1, <2>1, OneLoopStays DEF SilenceInv
  <2>2. ASSUME ~ Outrun(d), NEW l \in Loops, lpc' = [lpc EXCEPT ![l] = "queued"]
        PROVE  OneLoopInv'
    <3>1. \A k \in Loops : ~ Busy(k) BY <2>2 DEF Outrun, Busy
    <3>2. \A k \in Loops : k # l => lpc'[k] = lpc[k] BY <2>2, LoopAt DEF SilenceInv
    <3>3. cpc'[l] = "none" BY <1>1, <3>1 DEF Busy
    <3> QED BY <1>1, <3>1, <3>2, <3>3, OneLoopUpdate DEF SilenceInv
  <2> QED BY <1>1, <2>1, <2>2
<1> QED BY <1>1, <1>3, <1>5, <1>6, SilenceFrame

LEMMA CrashDrainSilence ==
    ASSUME SilenceInv, RoundsInv', NEW d \in Drains, CrashDrain(d) PROVE SilenceInv'
<1>1. EndDrain(d) /\ UNCHANGED <<input, ratings, latest, gameVars, loopVars, redVars>>
  BY DEF CrashDrain, volumeVars
<1>2. Endures BY <1>1, SameEndures DEF SilenceInv, gameVars
<1> QED BY <1>1, <1>2, EndDrainSilence, AsideSilence

\* Reports, pools, the tick's mount and claims leave all that alone.
LEMMA OtherSilence ==
    ASSUME SilenceInv, RoundsInv',
           \/ GrowPool \/ Mount \/ UNCHANGED vars
           \/ \E r \in RoundIds : ReportProgress(r) \/ AgeClaim(r)
    PROVE  SilenceInv'
<1>1. UNCHANGED <<input, ratings, latest, gameVars, loopVars, redVars, dpc, drain>>
  BY DEF GrowPool, Mount, vars, ReportProgress, AgeClaim, volumeVars, drainVars
<1> QED BY <1>1, AsideSilence

(***************************************************************************)
(* What silence that is death gives.                                       *)
(***************************************************************************)
\* The ratings of a round are written by its call and by reducers.
LEMMA GamesOfRatings ==
    ASSUME SilenceInv, RoundsInv', [Next]_vars
    PROVE  \A r \in RoundIds : ratings'[r].games >= ratings[r].games
<1>1. ASSUME UNCHANGED ratings PROVE \A r \in RoundIds : ratings'[r].games >= ratings[r].games
  BY <1>1, CountTypes DEF SilenceInv
<1>2. \/ UNCHANGED ratings
      \/ \E l \in Loops : WriteRound(l)
      \/ \E e \in Reducers : ReduceRound(e)
  <2>1. ASSUME NEW l \in Loops, LoopStep(l) \/ CrashLoop(l) \/ CrashRound(l)
        PROVE  UNCHANGED ratings \/ WriteRound(l)
    BY <2>1
    DEF LoopStep, ConfigLoop, StartLoop, BeginRound, OpenRound, FailRound, TakeRound, DropRound,
        CrashLoop, CrashRound, volumeVars
  <2>2. ASSUME NEW e \in Reducers, ReducerStep(e) \/ CrashReducer(e)
        PROVE  UNCHANGED ratings \/ ReduceRound(e)
    BY <2>2 DEF ReducerStep, ReadRound, CrashReducer, volumeVars
  <2>3. CASE \E e \in Reducers, r \in RoundIds, partial \in BOOLEAN : RescueRound(e, r, partial)
    BY <2>3 DEF RescueRound, volumeVars
  <2>4. ASSUME NEW d \in Drains, StartDrain(d) \/ DrainStep(d) \/ CrashDrain(d)
        PROVE  UNCHANGED ratings
    BY <2>4 DEF StartDrain, DrainStep, Load, Judge, Skip, Reduce, Spawn, CrashDrain, volumeVars
  <2>5. ASSUME NEW r \in RoundIds,
               \/ PlayGame(r) \/ GamesDie(r) \/ Quieten(r) \/ GrowOld(r)
               \/ ReportProgress(r) \/ AgeClaim(r)
        PROVE  UNCHANGED ratings
    BY <2>5 DEF PlayGame, GamesDie, Quieten, GrowOld, ReportProgress, AgeClaim, volumeVars
  <2>6. CASE GrowPool \/ Mount \/ UNCHANGED vars BY <2>6 DEF GrowPool, Mount, vars, volumeVars
  <2> QED BY <2>1, <2>2, <2>3, <2>4, <2>5, <2>6 DEF Next
<1> QED BY <1>1, <1>2, WriteSilence, ReduceSilence

\* Only a drain gives a round up.
LEMMA GivenUpByDrains ==
    ASSUME SilenceInv, [Next]_vars, NEW r \in RoundIds, progress'[r] = "skipped",
           progress[r] # "skipped"
    PROVE  \E d \in Drains : dpc[d] = "skip" /\ drain[d].round = r
<1>1. ASSUME NEW s \in RoundIds, NEW status, NEW seen, WriteProgress(s, status, seen)
      PROVE  s = r /\ status = "skipped"
  <2>1. progress' = [progress EXCEPT ![s] = status] BY <1>1 DEF WriteProgress
  <2> QED BY <2>1 DEF SilenceInv, RoundsInv, VolumeInv, VolumeTypes
<1>2. ~ UNCHANGED progress OBVIOUS
<1>3. ASSUME NEW l \in Loops, LoopStep(l) \/ CrashLoop(l) \/ CrashRound(l) PROVE FALSE
  <2>1. call[l].idx \in RoundIds BY CountTypes DEF SilenceInv
  <2>2. WriteRound(l) => FALSE BY <1>1, <2>1 DEF WriteRound, WriteOutputs
  <2>3. OpenRound(l) => FALSE BY <1>1, <2>1 DEF OpenRound
  <2> QED BY <1>2, <1>3, <2>2, <2>3
      DEF LoopStep, ConfigLoop, StartLoop, BeginRound, FailRound, TakeRound, DropRound,
          CrashLoop, CrashRound, volumeVars
<1>4. ASSUME NEW e \in Reducers, ReducerStep(e) \/ CrashReducer(e) PROVE FALSE
  <2>1. red[e].idx \in RoundIds BY CountTypes DEF SilenceInv
  <2>2. ReduceRound(e) => FALSE BY <1>1, <2>1 DEF ReduceRound, WriteOutputs
  <2> QED BY <1>2, <1>4, <2>2 DEF ReducerStep, ReadRound, CrashReducer, volumeVars
<1>5. ASSUME NEW d \in Drains, StartDrain(d) \/ DrainStep(d) \/ CrashDrain(d)
      PROVE  dpc[d] = "skip" /\ drain[d].round = r
  <2>1. drain[d].round \in RoundIds BY CountTypes DEF SilenceInv
  <2>2. Skip(d) => dpc[d] = "skip" /\ drain[d].round = r BY <1>1, <2>1 DEF Skip
  <2> QED BY <1>2, <1>5, <2>2
      DEF StartDrain, DrainStep, Load, Judge, Reduce, Spawn, CrashDrain, volumeVars
<1>6. ASSUME NEW s \in RoundIds,
             \/ PlayGame(s) \/ GamesDie(s) \/ Quieten(s) \/ GrowOld(s)
             \/ ReportProgress(s) \/ AgeClaim(s)
      PROVE  FALSE
  <2>1. ReportProgress(s) => FALSE BY <1>1 DEF ReportProgress
  <2> QED BY <1>2, <1>6, <2>1 DEF PlayGame, GamesDie, Quieten, GrowOld, AgeClaim, volumeVars
<1>7. CASE \E e \in Reducers, s \in RoundIds, partial \in BOOLEAN : RescueRound(e, s, partial)
  BY <1>2, <1>7 DEF RescueRound, volumeVars
<1>8. CASE GrowPool \/ Mount \/ UNCHANGED vars
  BY <1>2, <1>8 DEF GrowPool, Mount, vars, volumeVars
<1> QED BY <1>3, <1>4, <1>5, <1>6, <1>7, <1>8 DEF Next

LEMMA SilenceKept ==
    ASSUME SilenceIsDeath PROVE SilenceInv /\ [Next]_vars => SilenceInv'
<1> SUFFICES ASSUME SilenceInv, [Next]_vars PROVE SilenceInv' OBVIOUS
<1>1. RoundsInv' BY RoundsInvKept DEF SilenceInv
<1>2. ASSUME NEW l \in Loops, LoopStep(l) \/ CrashLoop(l) \/ CrashRound(l) PROVE SilenceInv'
  BY <1>1, <1>2, ConfigSilence, StartSilence, BeginSilence, OpenSilence, WriteSilence, TakeSilence,
     EndStepsSilence
  DEF LoopStep
<1>3. ASSUME NEW e \in Reducers, ReducerStep(e) \/ CrashReducer(e) PROVE SilenceInv'
  BY <1>1, <1>3, ReadSilence, ReduceSilence, CrashReducerSilence DEF ReducerStep
<1>4. ~ \E e \in Reducers, r \in RoundIds, partial \in BOOLEAN : RescueRound(e, r, partial)
  BY DEF RescueRound, Fault, SilenceIsDeath
<1>5. ASSUME NEW d \in Drains, StartDrain(d) \/ DrainStep(d) \/ CrashDrain(d) PROVE SilenceInv'
  BY <1>1, <1>5, StartDrainSilence, LoadSilence, JudgeSilence, SkipSilence, ReduceDrainSilence,
     SpawnSilence, CrashDrainSilence
  DEF DrainStep
<1>6. ASSUME NEW r \in RoundIds, PlayGame(r) \/ GamesDie(r) \/ Quieten(r) \/ GrowOld(r)
      PROVE  SilenceInv'
  BY <1>1, <1>6, PlaySilence, DieSilence, TimeSilence
<1>7. CASE \/ GrowPool \/ Mount \/ UNCHANGED vars
           \/ \E r \in RoundIds : ReportProgress(r) \/ AgeClaim(r)
  BY <1>1, <1>7, OtherSilence
<1> QED BY <1>2, <1>3, <1>4, <1>5, <1>6, <1>7 DEF Next

LEMMA SilenceBegins == Init => SilenceInv
<1> SUFFICES ASSUME Init PROVE SilenceInv OBVIOUS
<1>1. RoundsInv BY RoundsInvBegins
<1>2. Covered(0) BY <1>1, NothingCovered
<1>3. /\ \A l \in Loops : lpc[l] = "idle" /\ cpc[l] = "none" /\ call[l] = NoCall
      /\ \A e \in Reducers : rpc[e] = "idle"
      /\ \A d \in Drains : dpc[d] = "idle" /\ drain[d] = NoDrain
      /\ latest = NoLatest
  BY DEF Init
<1>4. \A r \in RoundIds : /\ input[r] = 0 /\ played[r] = 0 /\ live[r] = 0 /\ ~ quiet[r] /\ ~ old[r]
                          /\ ratings[r] = NoRatings
  BY DEF Init
<1>5. OneLoopInv BY <1>3 DEF OneLoopInv, Busy
<1>6. TakenInv BY <1>2, <1>3 DEF TakenInv, NoLatest, NoCall, NoRatings
<1>7. GamesInv BY <1>4 DEF GamesInv, NoRatings
<1>8. SettledInv BY <1>3 DEF SettledInv
<1>9. GivenUpInv BY <1>2, <1>3 DEF GivenUpInv, NoDrain
<1> QED BY <1>1, <1>5, <1>6, <1>7, <1>8, <1>9 DEF SilenceInv

\* Where silence is death, whatever else crashes, the ratings of a round never
\* lose games: a reduction that a drain starts finds all the games there will be.
THEOREM RatingsKeepTheirGames == ASSUME SilenceIsDeath PROVE Spec => RatingsNeverLoseGames
<1>1. SilenceInv /\ SilenceInv' /\ [Next]_vars
      => [\A r \in RoundIds : ratings'[r].games >= ratings[r].games]_ratings
  BY GamesOfRatings DEF SilenceInv
<1> QED BY <1>1, SilenceBegins, SilenceKept, PTL DEF Spec, RatingsNeverLoseGames

\* And a drain gives a round up only when its games are gone, or when a round of
\* as many checkpoints has been rated.
THEOREM DrainsSkipDeadRounds == ASSUME SilenceIsDeath PROVE Spec => OnlyDeadRoundsAreSkipped
<1>1. ASSUME SilenceInv, [Next]_vars, NEW r \in RoundIds, progress'[r] = "skipped",
             progress[r] # "skipped"
      PROVE  played[r] >= live[r] \/ \E s \in RoundIds : ratings[s].pool >= input[r]
  BY <1>1, GivenUpByDrains DEF SilenceInv, GivenUpInv, Settled, Covered
<1>2. SilenceInv /\ [Next]_vars
      => [\A r \in RoundIds :
             progress'[r] = "skipped" /\ progress[r] # "skipped"
                 => \/ played[r] >= live[r]
                    \/ \E s \in RoundIds : ratings[s].pool >= input[r]]_progress
  BY <1>1
<1> QED BY <1>2, SilenceBegins, SilenceKept, PTL DEF Spec, OnlyDeadRoundsAreSkipped
=============================================================================
