----------------------------- MODULE GameRounds -----------------------------
(***************************************************************************)
(* The rounds of a game in CurvyTronSourceEnv (env/source_env.py): timers  *)
(* start and stop a round, frames kill avatars and catch bonuses, players  *)
(* leave, and bonuses wear off after the round they were caught in.        *)
(*                                                                         *)
(* Where avatars are is left out: a frame may kill any avatars that the    *)
(* walls or the trails can kill, and let one of the others catch a bonus.  *)
(* Time passes in whole units; everything due at an instant fires, in the  *)
(* order of advance_timers, before a frame or a call happens at it.        *)
(***************************************************************************)
EXTENDS Integers, FiniteSets, Sequences, FiniteSetsExt

CONSTANTS
    Avatars,      \* the players' avatars
    MaxScore,     \* the score that wins the game
    WarmUp,       \* from a new round to its game:start
    TrailDelay,   \* from game:start to the first trails
    WarmDown,     \* from the end of a round to its game:stop
    Duration,     \* how long each kind of bonus lasts
    PopDelays,    \* the times from one bonus to the next
    Seatings,     \* who may be present at first, with a bound: the bonuses of the game
    MaxRounds,    \* bound: rounds of the game
    MaxLeaves     \* bound: players that leave

Off == -1
Kinds == {"borderless", "master"}

ASSUME GameAssumption ==
    /\ IsFiniteSet(Avatars) /\ Avatars # {}
    /\ {MaxScore, WarmUp, TrailDelay, WarmDown} \subseteq Nat
    /\ PopDelays \subseteq Nat \ {0}
    /\ Duration \in [Kinds -> Nat \ {0}]
    /\ Seatings \subseteq [present : SUBSET Avatars, bonuses : Nat]
    /\ {MaxRounds, MaxLeaves} \subseteq Nat

\* The trails start before the next round can, and at the default bonus rate before
\* the first bonus appears.
ASSUME DelayAssumption ==
    /\ TrailDelay <= WarmDown
    /\ \A d \in PopDelays : TrailDelay <= d

VARIABLES
    drain,        \* do timers run the frames, or does the caller step
    maxBonuses,   \* bound: bonuses that appear in this game
    started, inRound, worldActive, borderless,
    present, alive, \* the avatars still in the game, and in the round
    printing,     \* the avatars whose print manager is active
    invincible,
    score, roundScore,
    deaths,       \* who is out of the round: the absent, then frame by frame
    timer,        \* the time left of each timer, or Off
    floor,        \* the bonuses to catch
    gameStack,    \* the caught bonuses in force on the game
    stack,        \* and on each avatar
    expiring,     \* the caught bonuses, with the time left of each
    round, popped, leaves,
    sinceStart    \* history: time since this round's game:start

fixedVars == <<drain, maxBonuses>>
scoreVars == <<score, roundScore>>
bonusVars == <<borderless, invincible, gameStack, stack, expiring>>
boundVars == <<round, popped, leaves>>
vars == <<fixedVars, started, inRound, worldActive, present, alive, printing, scoreVars,
          deaths, timer, floor, bonusVars, boundVars, sinceStart>>

Bonuses == [id : 1..maxBonuses, kind : Kinds]
Nobody == [a \in Avatars |-> {}]
Zero == [a \in Avatars |-> 0]

\* reset: the first round of a game for whoever is present.
Init ==
    /\ drain \in BOOLEAN
    /\ \E s \in Seatings : present = s.present /\ maxBonuses = s.bonuses
    /\ started = TRUE /\ inRound = TRUE /\ worldActive = FALSE /\ borderless = FALSE
    /\ alive = present /\ deaths = <<Avatars \ present>>
    /\ printing = {} /\ invincible = {}
    /\ score = Zero /\ roundScore = Zero
    /\ timer = [start |-> WarmUp, print |-> Off, pop |-> Off, stop |-> Off]
    /\ floor = {} /\ gameStack = {} /\ stack = Nobody /\ expiring = {}
    /\ round = 1 /\ popped = 0 /\ leaves = 0 /\ sinceStart = 0
------------------------------------------------------------------------------
(***************************************************************************)
(* The end of a round.                                                     *)
(***************************************************************************)

Out == UNION {deaths[i] : i \in DOMAIN deaths}

\* The last one alive (or the only player) gets the most a round can give.
Winners == IF Cardinality(Avatars) = 1 THEN Avatars ELSE alive'
WinnerScore == Max({Cardinality(Avatars) - 1, 1})

EndRound(rs) ==
    /\ score' = [a \in Avatars |->
                    score[a] + rs[a] + (IF a \in Winners THEN WinnerScore ELSE 0)]
    /\ roundScore' = Zero
    /\ inRound' = FALSE
    /\ timer' = [timer EXCEPT !.stop = WarmDown]

\* Mutant: what happens after the round is over ends it again.
CheckRoundEndAgain(rs) ==
    IF Cardinality(alive') <= 1
    THEN EndRound(rs)
    ELSE roundScore' = rs /\ UNCHANGED <<score, inRound, timer>>

\* _check_round_end, once the deaths are booked as rs.
CheckRoundEnd(rs) ==
    IF inRound /\ Cardinality(alive') <= 1
    THEN EndRound(rs)
    ELSE roundScore' = rs /\ UNCHANGED <<score, inRound, timer>>
------------------------------------------------------------------------------
(***************************************************************************)
(* Bonuses.                                                                *)
(***************************************************************************)

\* A caught bonus goes on its target's stack, its expiry is scheduled, and
\* the stack takes effect: no walls, or an invincible avatar without trail.
Apply(a, b) ==
    /\ expiring' = expiring \union {[bonus |-> b, holder |-> a, left |-> Duration[b.kind]]}
    /\ IF b.kind = "borderless"
       THEN /\ gameStack' = gameStack \union {b} /\ borderless' = TRUE
            /\ UNCHANGED invincible
       ELSE /\ invincible' = invincible \union {a}
            /\ UNCHANGED <<gameStack, borderless>>

\* Mutant: what wears off takes the effects of the rest of the stack along.
ExpireAll(e) ==
    /\ expiring' = expiring \ {e}
    /\ LET held == started /\ e.bonus \in stack[e.holder]
       IN  /\ borderless' = IF e.bonus \in gameStack THEN FALSE ELSE borderless
           /\ gameStack' = gameStack \ {e.bonus}
           /\ stack' = IF held THEN [stack EXCEPT ![e.holder] = @ \ {e.bonus}] ELSE stack
           /\ invincible' = IF held THEN invincible \ {e.holder} ELSE invincible
           /\ printing' = IF held THEN printing \union {e.holder} ELSE printing
    /\ UNCHANGED <<fixedVars, started, inRound, worldActive, present, alive, scoreVars, deaths,
                   timer, floor, boundVars, sinceStart>>

\* A bonus wears off: it has an effect only while it is still on a stack,
\* and what is left of the stack stays in force.
Expire(e) ==
    /\ expiring' = expiring \ {e}
    /\ LET held == started /\ e.bonus \in stack[e.holder]
           last == held /\ stack[e.holder] = {e.bonus}
       IN  /\ gameStack' = gameStack \ {e.bonus}
           /\ borderless' = IF e.bonus \in gameStack THEN gameStack' # {} ELSE borderless
           /\ stack' = IF held THEN [stack EXCEPT ![e.holder] = @ \ {e.bonus}] ELSE stack
           /\ invincible' = IF last THEN invincible \ {e.holder} ELSE invincible
           /\ printing' = IF last THEN printing \union {e.holder} ELSE printing
    /\ UNCHANGED <<fixedVars, started, inRound, worldActive, present, alive, scoreVars, deaths,
                   timer, floor, boundVars, sinceStart>>

\* When the next bonus is due; none is after the last of the instance.
NextPop(n) == IF n < maxBonuses THEN PopDelays ELSE {Off}

\* The bonus manager puts a bonus on the floor and schedules the next; kinds
\* that neither spare an avatar nor stop its trail are not kept.
PopBonus ==
    /\ \/ UNCHANGED <<floor, popped>>
       \/ /\ popped' = popped + 1
          /\ \E k \in Kinds : floor' = floor \union {[id |-> popped', kind |-> k]}
    /\ \E d \in NextPop(popped') : timer' = [timer EXCEPT !.pop = d]
    /\ UNCHANGED <<fixedVars, started, inRound, worldActive, present, alive, printing, scoreVars,
                   deaths, bonusVars, round, leaves, sinceStart>>
------------------------------------------------------------------------------
(***************************************************************************)
(* Frames and players that leave.                                          *)
(***************************************************************************)

NothingDue ==
    /\ \A t \in DOMAIN timer : timer[t] # 0
    /\ \A e \in expiring : e.left # 0

\* A wall kills unless the game is borderless, a trail unless the avatar is
\* invincible.
Mortal(a) == ~ borderless \/ a \notin invincible

\* Mutant: deaths of the frame count for each other.
DeathScoreAfter(dead) == Cardinality(Out \union dead)

\* Everybody who dies in a frame gets as many points as were out before it.
DeathScore(dead) == Cardinality(Out)

\* _update_game: some die, one of the others may catch a bonus.
Frame(dead, caught) ==
    /\ started /\ worldActive /\ (drain \/ inRound) /\ NothingDue
    /\ dead # {} \/ caught # {}
    /\ alive' = alive \ dead
    /\ deaths' = IF dead = {} THEN deaths ELSE Append(deaths, dead)
    /\ floor' = floor \ {c.bonus : c \in caught}
    /\ stack' = [a \in Avatars |->
                    IF a \in dead THEN {}
                    ELSE stack[a] \union {c.bonus : c \in {d \in caught :
                            d.by = a /\ d.bonus.kind = "master"}}]
    /\ printing' = printing \ (dead \union {c.by : c \in {d \in caught :
                                                  d.bonus.kind = "master"}})
    /\ IF caught = {} THEN UNCHANGED <<expiring, gameStack, borderless, invincible>>
       ELSE \A c \in caught : Apply(c.by, c.bonus)
    /\ LET rs == [a \in Avatars |->
                    roundScore[a] + (IF a \in dead THEN DeathScore(dead) ELSE 0)]
       IN  IF dead = {} THEN UNCHANGED <<scoreVars, inRound, timer>> ELSE CheckRoundEnd(rs)
    /\ UNCHANGED <<fixedVars, started, worldActive, present, boundVars, sinceStart>>

\* Mutant: a player leaves without the round noticing.
RemoveUnnoticed(a) ==
    /\ started /\ a \in present /\ leaves < MaxLeaves /\ NothingDue
    /\ present' = present \ {a} /\ alive' = alive \ {a}
    /\ printing' = printing \ {a} /\ invincible' = invincible \ {a}
    /\ stack' = [stack EXCEPT ![a] = {}]
    /\ roundScore' = [roundScore EXCEPT ![a] = 0] /\ leaves' = leaves + 1
    /\ UNCHANGED <<fixedVars, started, inRound, worldActive, borderless, score, deaths, timer,
                   floor, gameStack, expiring, round, popped, sinceStart>>

\* remove_avatar: the avatar dies outside any frame, and for good.
Remove(a) ==
    /\ started /\ a \in present /\ leaves < MaxLeaves /\ NothingDue
    /\ present' = present \ {a} /\ alive' = alive \ {a}
    /\ printing' = printing \ {a} /\ invincible' = invincible \ {a}
    /\ stack' = [stack EXCEPT ![a] = {}]
    /\ CheckRoundEnd([roundScore EXCEPT ![a] = 0])
    /\ leaves' = leaves + 1
    /\ UNCHANGED <<fixedVars, started, worldActive, borderless, deaths, floor, gameStack, expiring,
                   round, popped, sinceStart>>
------------------------------------------------------------------------------
(***************************************************************************)
(* Timers.                                                                 *)
(***************************************************************************)

\* game:start: the world takes bodies, the trails and the bonuses are due.
StartGame ==
    /\ worldActive' = TRUE /\ floor' = {} /\ sinceStart' = 0
    /\ \E d \in NextPop(popped) :
          timer' = [timer EXCEPT !.start = Off, !.print = TrailDelay, !.pop = d]
    /\ UNCHANGED <<fixedVars, started, inRound, present, alive, printing, scoreVars, deaths,
                   bonusVars, boundVars>>

\* The print managers of all avatars start, the dead and the absent included.
StartPrinting ==
    /\ printing' = IF started THEN Avatars ELSE {}
    /\ timer' = [timer EXCEPT !.print = Off]
    /\ UNCHANGED <<fixedVars, started, inRound, worldActive, present, alive, scoreVars, deaths,
                   floor, bonusVars, boundVars, sinceStart>>

\* _is_won: nobody to play against, or one leader who has enough.
Leaders ==
    {a \in present : score[a] >= MaxScore /\ \A b \in present : score[b] <= score[a]}
Won ==
    \/ present = {}
    \/ Cardinality(Avatars) > 1 /\ Cardinality(present) <= 1
    \/ Cardinality(Leaders) = 1

Stopped == [timer EXCEPT !.stop = Off, !.pop = Off]

\* Mutant: the print managers run on into the next round.
NewRoundPrinting ==
    /\ inRound' = TRUE /\ alive' = present /\ deaths' = <<Avatars \ present>>
    /\ roundScore' = [a \in Avatars |-> IF a \in present THEN 0 ELSE roundScore[a]]
    /\ stack' = [a \in Avatars |-> IF a \in present THEN {} ELSE stack[a]]
    /\ invincible' = invincible \ present
    /\ timer' = [Stopped EXCEPT !.start = WarmUp]
    /\ round' = round + 1
    /\ UNCHANGED <<started, present, printing>>

\* Mutant: the list of deaths goes on from round to round.
NewRoundDeaths ==
    /\ inRound' = TRUE /\ alive' = present /\ deaths' = deaths
    /\ roundScore' = [a \in Avatars |-> IF a \in present THEN 0 ELSE roundScore[a]]
    /\ stack' = [a \in Avatars |-> IF a \in present THEN {} ELSE stack[a]]
    /\ invincible' = invincible \ present /\ printing' = printing \ present
    /\ timer' = [Stopped EXCEPT !.start = WarmUp]
    /\ round' = round + 1
    /\ UNCHANGED <<started, present>>

\* _new_round: the present avatars start afresh, the absent are out.
NewRound ==
    /\ inRound' = TRUE /\ alive' = present /\ deaths' = <<Avatars \ present>>
    /\ roundScore' = [a \in Avatars |-> IF a \in present THEN 0 ELSE roundScore[a]]
    /\ stack' = [a \in Avatars |-> IF a \in present THEN {} ELSE stack[a]]
    /\ invincible' = invincible \ present /\ printing' = printing \ present
    /\ timer' = [Stopped EXCEPT !.start = WarmUp]
    /\ round' = round + 1
    /\ UNCHANGED <<started, present>>

\* _end_game: no avatars are left; the bonuses' expiry timers are.
EndGame ==
    /\ started' = FALSE
    /\ present' = {} /\ alive' = {} /\ printing' = {} /\ invincible' = {} /\ stack' = Nobody
    /\ timer' = Stopped
    /\ UNCHANGED <<inRound, deaths, roundScore, round>>

\* Mutant: a game without a winner is not continued.
StopGameIfWon ==
    /\ Won
    /\ EndGame
    /\ worldActive' = FALSE /\ floor' = {} /\ gameStack' = {} /\ sinceStart' = 0
    /\ UNCHANGED <<fixedVars, score, borderless, expiring, popped, leaves>>

\* game:stop.
StopGame ==
    /\ IF Won THEN EndGame ELSE round < MaxRounds /\ NewRound
    /\ worldActive' = FALSE /\ floor' = {} /\ gameStack' = {} /\ sinceStart' = 0
    /\ UNCHANGED <<fixedVars, score, borderless, expiring, popped, leaves>>

\* What advance_timers fires first of all that is due.
Fire ==
    LET due(t) == timer[t] = 0
        wornOff == {e \in expiring : e.left = 0}
    IN  \/ due("start") /\ StartGame
        \/ due("print") /\ ~ due("start") /\ StartPrinting
        \/ due("pop") /\ ~ due("start") /\ ~ due("print") /\ PopBonus
        \/ /\ ~ due("start") /\ ~ due("print") /\ ~ due("pop")
           /\ \E e \in wornOff : Expire(e)
        \/ /\ due("stop") /\ ~ due("start") /\ ~ due("print") /\ ~ due("pop") /\ wornOff = {}
           /\ StopGame

\* Time passes to the next unit, once nothing is due.
Tick ==
    /\ NothingDue
    /\ expiring # {} \/ \E t \in DOMAIN timer : timer[t] # Off
    /\ timer' = [t \in DOMAIN timer |-> IF timer[t] = Off THEN Off ELSE timer[t] - 1]
    /\ expiring' = {[e EXCEPT !.left = @ - 1] : e \in expiring}
    /\ sinceStart' = IF worldActive THEN Min({sinceStart + 1, TrailDelay}) ELSE 0
    /\ UNCHANGED <<fixedVars, started, inRound, worldActive, present, alive, printing, scoreVars,
                   deaths, floor, borderless, invincible, gameStack, stack, boundVars>>

\* Who may catch what in a frame that kills the dead: one, or nobody.
Catches(dead) == {{}} \union {{[by |-> a, bonus |-> b]} : a \in alive \ dead, b \in floor}

Next ==
    \/ Fire \/ Tick
    \/ \E dead \in SUBSET {a \in alive : Mortal(a)} :
          \E caught \in Catches(dead) : Frame(dead, caught)
    \/ \E a \in Avatars : Remove(a)

\* The caller keeps advancing the timers, whatever else it does.
Spec == Init /\ [][Next]_vars /\ WF_vars(Fire) /\ WF_vars(Tick)
------------------------------------------------------------------------------
(***************************************************************************)
(* Properties.                                                             *)
(***************************************************************************)

TypeOK ==
    /\ {drain, started, inRound, worldActive, borderless} \subseteq BOOLEAN
    /\ maxBonuses \in Nat
    /\ alive \subseteq present /\ present \subseteq Avatars
    /\ printing \subseteq Avatars /\ invincible \subseteq Avatars
    /\ score \in [Avatars -> Nat] /\ roundScore \in [Avatars -> Nat]
    /\ deaths \in Seq(SUBSET Avatars)
    /\ \A i, j \in DOMAIN deaths : i # j => deaths[i] \intersect deaths[j] = {}
    /\ timer \in [{"start", "print", "pop", "stop"} -> Nat \union {Off}]
    /\ floor \subseteq Bonuses /\ gameStack \subseteq Bonuses
    /\ stack \in [Avatars -> SUBSET Bonuses]
    /\ expiring \subseteq [bonus : Bonuses, holder : Avatars, left : Nat]

\* A round of two or more players is over as soon as fewer than two of them
\* are alive, whether they died in a frame or left.
RoundsNeedTwo ==
    (started /\ inRound /\ Cardinality(Avatars \ deaths[1]) >= 2) => Cardinality(alive) >= 2

\* Nobody leaves a trail before TrailDelay has passed since the game:start of
\* the round, although the timers of one round outlive it.
TrailsWait == (printing \intersect present # {}) => sinceStart = TrailDelay

\* A bonus on a stack is in force: no walls while a borderless one is, and an
\* invincible avatar without a trail while a master one is - also after an
\* earlier one of the same kind has worn off.
StackedBonusesHold ==
    /\ gameStack # {} => borderless
    /\ \A a \in alive : stack[a] # {} => a \in invincible /\ a \notin printing

\* Scores move when a round ends, once per round: who dies or leaves while
\* the round warms down changes nothing.
RoundsScoreOnce == [][score' # score => inRound /\ ~ inRound']_vars

\* What a round gives orders its players by how long they lived: later in the
\* round is more, the same frame is the same, and the survivor gets the most.
LongerLivesScoreMore ==
    [][inRound /\ ~ inRound' =>
         LET gain(a) == score'[a] - score[a]
             end(a) == IF a \in alive' THEN Len(deaths') + 1
                       ELSE CHOOSE i \in DOMAIN deaths' : a \in deaths'[i]
         IN  \A a, b \in present' \ deaths'[1] : end(a) < end(b) <=> gain(a) < gain(b)]_vars

\* A round that was opened starts and, once over, is followed by another or by
\* the end of the game.
RoundsMoveOn ==
    /\ (started /\ inRound /\ ~ worldActive) ~> (worldActive \/ ~ started)
    /\ (started /\ ~ inRound /\ round < MaxRounds) ~> (inRound \/ ~ started)

\* The walls are only open while a borderless bonus is in force.
WallsComeBack == borderless => gameStack # {}
==============================================================================
