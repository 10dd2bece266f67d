-------------------------- MODULE GameRoundsProofs ---------------------------
(***************************************************************************)
(* Proofs about the rounds of a game: when they end, that nobody leaves a  *)
(* trail too early, that stacked bonuses hold, and what a round scores.    *)
(***************************************************************************)
EXTENDS GameRounds, FiniteSetTheorems, TLAPS

(***************************************************************************)
(* Who is out of the round, and whether another can follow.                *)
(***************************************************************************)
Few == present = {} \/ (Cardinality(Avatars) > 1 /\ Cardinality(present) <= 1)

RoundInv ==
    /\ deaths # <<>> /\ \A i \in DOMAIN deaths : alive \intersect deaths[i] = {}
    /\ popped \in 0..maxBonuses /\ sinceStart \in 0..TrailDelay
    /\ timer["pop"] # Off => popped < maxBonuses
    /\ ~ started => present = {}
    /\ RoundsNeedTwo

(***************************************************************************)
(* The timers that run together.  A round that is over before its          *)
(* game:start has lost its players and is the last.  Those of any other    *)
(* have their trails before it stops.                                      *)
(***************************************************************************)
ClockInv ==
    /\ inRound <=> timer["stop"] = Off
    /\ worldActive <=> timer["start"] = Off
    /\ ~ worldActive => timer["print"] = Off /\ timer["pop"] = Off /\ floor = {}
    /\ ~ worldActive /\ inRound => alive = present
    /\ ~ worldActive /\ ~ inRound => Few

TrailInv ==
    /\ timer["print"] # Off => sinceStart + timer["print"] = TrailDelay
    /\ timer["print"] # Off /\ timer["pop"] # Off => timer["print"] <= timer["pop"]
    /\ timer["print"] # Off /\ ~ inRound /\ ~ Few => timer["print"] <= timer["stop"]
    /\ worldActive /\ timer["print"] = Off => sinceStart = TrailDelay
    /\ printing \intersect present # {} => worldActive /\ timer["print"] = Off
    /\ floor # {} => timer["print"] = Off

StackInv ==
    /\ \A a \in Avatars : stack[a] # {} =>
          started /\ a \in alive /\ worldActive /\ timer["print"] = Off
    /\ StackedBonusesHold

GameInv ==
    /\ TypeOK /\ RoundInv /\ StackInv
    /\ started => ClockInv /\ TrailInv

(***************************************************************************)
(* What a round with these deaths has given so far: who died in a frame    *)
(* has a point for each player that was out before, whoever is alive none. *)
(***************************************************************************)
OutBefore(D, i) == UNION {D[j] : j \in 1..(i - 1)}

Gains(D, A, P, rs) ==
    /\ \A i \in 2..Len(D) : D[i] # {}
    /\ \A a \in P : a \in A \/ \E i \in 2..Len(D) : a \in D[i]
    /\ \A a \in A : rs[a] = 0
    /\ \A i \in 2..Len(D) : \A a \in D[i] \intersect P : rs[a] = Cardinality(OutBefore(D, i))

GainInv == started /\ inRound => Gains(deaths, alive, present, roundScore)

(***************************************************************************)
(* Arithmetic, sets, and what the invariants say of one another.           *)
(***************************************************************************)
LEMMA MinOfTwo ==
    ASSUME NEW a \in Nat, NEW b \in Nat
    PROVE  Min({a, b}) = IF a <= b THEN a ELSE b
  <1> DEFINE m == IF a <= b THEN a ELSE b
  <1>1. m \in {a, b} /\ \A y \in {a, b} : m <= y
    OBVIOUS
  <1>2. \A x \in {a, b} : (\A y \in {a, b} : x <= y) => x = m
    OBVIOUS
  <1> QED
    BY <1>1, <1>2 DEF Min

LEMMA Sizes ==
    ASSUME NEW S, NEW T, S \subseteq T, T \subseteq Avatars
    PROVE  /\ Cardinality(S) \in Nat /\ Cardinality(T) \in Nat /\ Cardinality(S) <= Cardinality(T)
           /\ IsFiniteSet(S) /\ IsFiniteSet(T)
  <1>1. IsFiniteSet(T)
    BY GameAssumption, FS_Subset
  <1>2. IsFiniteSet(S) /\ Cardinality(S) <= Cardinality(T)
    BY <1>1, FS_Subset
  <1> QED
    BY <1>1, <1>2, FS_CardinalityType

LEMMA FewGrows == ASSUME TypeOK, present' \subseteq present, Few PROVE Few'
  <1>1. present \subseteq Avatars
    BY DEF TypeOK
  <1>2. /\ Cardinality(present') \in Nat /\ Cardinality(present) \in Nat
        /\ Cardinality(present') <= Cardinality(present)
    BY <1>1, Sizes
  <1>3. CASE present = {}
    BY <1>3 DEF Few
  <1>4. CASE present # {}
    BY <1>2, <1>4 DEF Few
  <1> QED
    BY <1>3, <1>4

\* A round that is not over with more than a few players goes on to another.
LEMMA FewHaveWon == Few => Won
  BY DEF Few, Won

LEMMA Assumed ==
    /\ MaxScore \in Nat /\ WarmUp \in Nat /\ TrailDelay \in Nat /\ WarmDown \in Nat
    /\ MaxRounds \in Nat /\ MaxLeaves \in Nat
    /\ PopDelays \subseteq Nat \ {0} /\ TrailDelay <= WarmDown
    /\ \A d \in PopDelays : d \in Nat /\ TrailDelay <= d
    /\ \A k \in Kinds : Duration[k] \in Nat
  BY GameAssumption, DelayAssumption

LEMMA Typed ==
    ASSUME TypeOK
    PROVE  /\ drain \in BOOLEAN /\ started \in BOOLEAN /\ inRound \in BOOLEAN
           /\ worldActive \in BOOLEAN /\ borderless \in BOOLEAN /\ maxBonuses \in Nat
           /\ \A t \in {"start", "print", "pop", "stop"} : timer[t] \in Nat \/ timer[t] = Off
           /\ DOMAIN timer = {"start", "print", "pop", "stop"}
  BY DEF TypeOK

\* One timer is set, or several.
TimerSet(start, print, pop, stop) ==
    /\ timer'["start"] = start /\ timer'["print"] = print
    /\ timer'["pop"] = pop /\ timer'["stop"] = stop

LEMMA PopDue ==
    ASSUME NEW n \in Nat, NEW d \in NextPop(n), maxBonuses \in Nat, n <= maxBonuses
    PROVE  /\ d \in Nat \union {Off}
           /\ d # Off => n < maxBonuses /\ d \in Nat /\ TrailDelay <= d /\ d > 0
  <1>1. CASE n < maxBonuses
    BY <1>1, Assumed DEF NextPop
  <1>2. CASE ~ n < maxBonuses
    BY <1>2 DEF NextPop
  <1> QED
    BY <1>1, <1>2

(***************************************************************************)
(* Steps that the round does not notice.                                   *)
(***************************************************************************)
LEMMA RoundFrame ==
    ASSUME RoundInv, UNCHANGED <<deaths, alive, present, started, inRound, popped, maxBonuses>>,
           sinceStart' \in 0..TrailDelay,
           timer'["pop"] = timer["pop"] \/ timer'["pop"] = Off \/ popped < maxBonuses
    PROVE  RoundInv'
  BY DEF RoundInv, RoundsNeedTwo

(***************************************************************************)
(* The start of a round's game.                                            *)
(***************************************************************************)
LEMMA StartGameKeeps == ASSUME GameInv, StartGame, timer["start"] = 0 PROVE GameInv'
  <1>1. PICK d \in NextPop(popped) :
           timer' = [timer EXCEPT !.start = Off, !.print = TrailDelay, !.pop = d]
    BY DEF StartGame
  <1>2. /\ worldActive' = TRUE /\ floor' = {} /\ sinceStart' = 0
        /\ UNCHANGED <<fixedVars, started, inRound, present, alive, printing, scoreVars, deaths,
                       bonusVars, boundVars>>
    BY DEF StartGame
  <1>3. TypeOK /\ RoundInv /\ StackInv /\ popped \in Nat /\ popped <= maxBonuses
    BY DEF GameInv, RoundInv, TypeOK
  <1>4. /\ d \in Nat \union {Off}
        /\ d # Off => popped < maxBonuses /\ d \in Nat /\ TrailDelay <= d
    BY <1>3, PopDue DEF TypeOK
  <1>5. TimerSet(Off, TrailDelay, d, timer["stop"])
    BY <1>1, <1>3 DEF TimerSet, TypeOK
  <1>6. timer' \in [{"start", "print", "pop", "stop"} -> Nat \union {Off}]
    BY <1>1, <1>3, <1>4, Assumed DEF TypeOK
  <1>7. TypeOK'
    BY <1>2, <1>3, <1>6 DEF TypeOK, Bonuses, fixedVars, scoreVars, bonusVars
  <1>8. RoundInv'
    BY <1>2, <1>3, <1>4, <1>5, Assumed, RoundFrame DEF TimerSet, fixedVars, boundVars
  <1>9. started => ~ worldActive /\ printing \intersect present = {} /\ \A a \in Avatars : stack[a] = {}
    BY <1>3, Typed DEF GameInv, ClockInv, TrailInv, StackInv, Off
  <1>10. StackInv'
    <2>1. \A a \in Avatars : stack[a] = {}
      BY <1>3, <1>9 DEF StackInv
    <2> QED
      BY <1>2, <1>3, <2>1 DEF StackInv, StackedBonusesHold, bonusVars
  <1>11. ASSUME started PROVE ClockInv' /\ TrailInv'
    <2>1. ClockInv /\ TrailInv /\ ~ worldActive
      BY <1>9, <1>11 DEF GameInv
    <2>2. ClockInv'
      BY <1>2, <1>5, <2>1 DEF ClockInv, TimerSet
    <2>3. ~ inRound => Few'
      BY <1>2, <2>1 DEF ClockInv, Few
    <2>4. TrailInv'
      BY <1>2, <1>4, <1>5, <1>9, <1>11, <2>1, <2>3, Assumed DEF TrailInv, TimerSet, Off
    <2> QED
      BY <2>2, <2>4
  <1> QED
    BY <1>2, <1>7, <1>8, <1>10, <1>11 DEF GameInv

(***************************************************************************)
(* Trails, and the bonuses that appear.                                    *)
(***************************************************************************)
LEMMA StartPrintingKeeps ==
    ASSUME GameInv, StartPrinting, timer["print"] = 0, timer["start"] # 0
    PROVE  GameInv'
  <1>1. /\ printing' = IF started THEN Avatars ELSE {}
        /\ timer' = [timer EXCEPT !.print = Off]
        /\ UNCHANGED <<fixedVars, started, inRound, worldActive, present, alive, scoreVars, deaths,
                       floor, bonusVars, boundVars, sinceStart>>
    BY DEF StartPrinting
  <1>2. TypeOK /\ RoundInv /\ StackInv
    BY DEF GameInv
  <1>3. /\ TimerSet(timer["start"], Off, timer["pop"], timer["stop"])
        /\ timer' \in [{"start", "print", "pop", "stop"} -> Nat \union {Off}]
    BY <1>1, <1>2 DEF TimerSet, TypeOK
  <1>4. TypeOK'
    BY <1>1, <1>2, <1>3 DEF TypeOK, Bonuses, fixedVars, scoreVars, bonusVars
  <1>5. RoundInv'
    BY <1>1, <1>2, <1>3, RoundFrame DEF TimerSet, RoundInv, fixedVars, boundVars
  <1>6. StackInv'
    <2>1. \A a \in Avatars : stack[a] = {}
      BY <1>2 DEF StackInv, Off
    <2> QED
      BY <1>1, <1>2, <2>1 DEF StackInv, StackedBonusesHold, bonusVars
  <1>7. ASSUME started PROVE ClockInv' /\ TrailInv'
    <2>1. ClockInv /\ TrailInv
      BY <1>7 DEF GameInv
    <2>2. worldActive /\ sinceStart = TrailDelay
      BY <1>2, <2>1, Assumed DEF ClockInv, TrailInv, RoundInv, Off
    <2>3. ClockInv'
      BY <1>1, <1>3, <2>1 DEF ClockInv, TimerSet, Few
    <2>4. TrailInv'
      BY <1>1, <1>3, <2>1, <2>2 DEF TrailInv, TimerSet
    <2> QED
      BY <2>3, <2>4
  <1> QED
    BY <1>1, <1>4, <1>5, <1>6, <1>7 DEF GameInv

LEMMA PopBonusKeeps ==
    ASSUME GameInv, PopBonus, timer["pop"] = 0, timer["print"] # 0
    PROVE  GameInv'
  <1>1. /\ \/ UNCHANGED <<floor, popped>>
           \/ /\ popped' = popped + 1
              /\ \E k \in Kinds : floor' = floor \union {[id |-> popped', kind |-> k]}
        /\ UNCHANGED <<fixedVars, started, inRound, worldActive, present, alive, printing, scoreVars,
                       deaths, bonusVars, round, leaves, sinceStart>>
    BY DEF PopBonus
  <1>2. PICK d \in NextPop(popped') : timer' = [timer EXCEPT !.pop = d]
    BY DEF PopBonus
  <1>3. TypeOK /\ RoundInv /\ StackInv /\ maxBonuses \in Nat
    BY DEF GameInv, TypeOK
  <1>4. popped' \in 0..maxBonuses /\ popped \in Nat /\ popped < maxBonuses
    BY <1>1, <1>3 DEF RoundInv, Off
  <1>5. /\ d \in Nat \union {Off}
        /\ d # Off => popped' < maxBonuses /\ d \in Nat /\ TrailDelay <= d
    BY <1>3, <1>4, PopDue
  <1>6. /\ TimerSet(timer["start"], timer["print"], d, timer["stop"])
        /\ timer' \in [{"start", "print", "pop", "stop"} -> Nat \union {Off}]
    BY <1>2, <1>3, <1>5 DEF TimerSet, TypeOK
  <1>7. floor' \subseteq Bonuses
    <2>1. \A k \in Kinds : [id |-> popped + 1, kind |-> k] \in Bonuses
      BY <1>3, <1>4 DEF Bonuses
    <2> QED
      BY <1>1, <1>3, <2>1 DEF TypeOK
  <1>8. TypeOK'
    BY <1>1, <1>3, <1>6, <1>7 DEF TypeOK, Bonuses, fixedVars, scoreVars, bonusVars
  <1>9. RoundInv'
    BY <1>1, <1>3, <1>4, <1>5, <1>6 DEF RoundInv, RoundsNeedTwo, TimerSet, fixedVars
  <1>10. StackInv'
    BY <1>1, <1>3, <1>6 DEF StackInv, StackedBonusesHold, TimerSet, bonusVars
  <1>11. ASSUME started PROVE ClockInv' /\ TrailInv'
    <2>1. ClockInv /\ TrailInv
      BY <1>11 DEF GameInv
    \* Trails come first: a bonus that appears finds them started.
    <2>2. timer["print"] = Off /\ worldActive
      BY <1>3, <2>1, Typed DEF ClockInv, TrailInv, Off
    <2>3. ClockInv'
      BY <1>1, <1>6, <2>1, <2>2 DEF ClockInv, TimerSet, Few
    <2>4. TrailInv'
      BY <1>1, <1>6, <2>1, <2>2 DEF TrailInv, TimerSet, Few
    <2> QED
      BY <2>3, <2>4
  <1> QED
    BY <1>1, <1>8, <1>9, <1>10, <1>11 DEF GameInv

(***************************************************************************)
(* A bonus wears off.                                                      *)
(***************************************************************************)
LEMMA ExpireKeeps ==
    ASSUME GameInv, NEW e \in expiring, Expire(e)
    PROVE  GameInv'
  <1> DEFINE h == e.holder
             b == e.bonus
             held == started /\ b \in stack[h]
             last == held /\ stack[h] = {b}
  <1>1. /\ expiring' = expiring \ {e}
        /\ gameStack' = gameStack \ {b}
        /\ borderless' = IF b \in gameStack THEN gameStack' # {} ELSE borderless
        /\ stack' = IF held THEN [stack EXCEPT ![h] = @ \ {b}] ELSE stack
        /\ invincible' = IF last THEN invincible \ {h} ELSE invincible
        /\ printing' = IF last THEN printing \union {h} ELSE printing
        /\ UNCHANGED <<fixedVars, started, inRound, worldActive, present, alive, scoreVars, deaths,
                       timer, floor, boundVars, sinceStart>>
    BY DEF Expire
  <1>2. TypeOK /\ RoundInv /\ StackInv
    BY DEF GameInv
  <1>3. b \in Bonuses /\ h \in Avatars
    BY <1>2 DEF TypeOK
  <1> HIDE DEF h, b
  <1>4. /\ stack' \in [Avatars -> SUBSET Bonuses] /\ stack'[h] = IF held THEN stack[h] \ {b} ELSE stack[h]
        /\ \A a \in Avatars : a # h => stack'[a] = stack[a]
    BY <1>1, <1>2, <1>3 DEF TypeOK
  <1>5. borderless' \in BOOLEAN
    BY <1>1, <1>2, Typed
  <1>6. TypeOK'
    BY <1>1, <1>2, <1>3, <1>4, <1>5 DEF TypeOK, Bonuses, fixedVars, scoreVars
  <1>7. RoundInv'
    BY <1>1, <1>2, RoundFrame DEF RoundInv, fixedVars, boundVars
  <1>8. last => h \in alive /\ worldActive /\ timer["print"] = Off /\ started
    BY <1>2, <1>3 DEF StackInv
  <1>9. StackInv'
    <2>1. gameStack' # {} => borderless'
      BY <1>1, <1>2 DEF StackInv, StackedBonusesHold
    <2>2. ASSUME NEW a \in Avatars, stack'[a] # {}
          PROVE  stack[a] # {} /\ (a # h \/ ~ last)
      <3>1. CASE a = h
        BY <1>4, <2>2, <3>1
      <3>2. CASE a # h
        BY <1>4, <2>2, <3>2
      <3> QED
        BY <3>1, <3>2
    <2>3. ASSUME NEW a \in alive, stack'[a] # {} PROVE a \in invincible' /\ a \notin printing'
      <3>1. a \in Avatars
        BY <1>1, <1>6 DEF TypeOK
      <3>2. a \in invincible /\ a \notin printing /\ (a # h \/ ~ last)
        BY <1>2, <2>2, <2>3, <3>1 DEF StackInv, StackedBonusesHold
      <3> QED
        BY <1>1, <3>2
    <2> QED
      BY <1>1, <1>2, <2>1, <2>2, <2>3 DEF StackInv, StackedBonusesHold
  <1>10. ASSUME started PROVE ClockInv' /\ TrailInv'
    <2>1. ClockInv /\ TrailInv
      BY <1>10 DEF GameInv
    <2>2. ClockInv'
      BY <1>1, <2>1 DEF ClockInv, Few
    <2>3. printing' \intersect present # {} => worldActive /\ timer["print"] = Off
      BY <1>1, <1>8, <2>1 DEF TrailInv
    <2>4. TrailInv'
      BY <1>1, <2>1, <2>3 DEF TrailInv, Few
    <2> QED
      BY <2>2, <2>4
  <1> QED
    BY <1>1, <1>6, <1>7, <1>9, <1>10 DEF GameInv

(***************************************************************************)
(* Time passes.                                                            *)
(***************************************************************************)
LEMMA TickKeeps == ASSUME GameInv, Tick PROVE GameInv'
  <1>1. /\ NothingDue
        /\ timer' = [t \in DOMAIN timer |-> IF timer[t] = Off THEN Off ELSE timer[t] - 1]
        /\ expiring' = {[e EXCEPT !.left = @ - 1] : e \in expiring}
        /\ sinceStart' = IF worldActive THEN Min({sinceStart + 1, TrailDelay}) ELSE 0
        /\ UNCHANGED <<fixedVars, started, inRound, worldActive, present, alive, printing, scoreVars,
                       deaths, floor, borderless, invincible, gameStack, stack, boundVars>>
    BY DEF Tick
  <1>2. TypeOK /\ RoundInv /\ StackInv /\ sinceStart \in 0..TrailDelay
    BY DEF GameInv, RoundInv
  <1>3. \A t \in {"start", "print", "pop", "stop"} :
           \/ timer[t] = Off /\ timer'[t] = Off
           \/ timer[t] \in Nat /\ timer[t] > 0 /\ timer'[t] = timer[t] - 1
    BY <1>1, <1>2, Typed DEF NothingDue
  <1>4. timer' \in [{"start", "print", "pop", "stop"} -> Nat \union {Off}]
    <2>1. timer' = [t \in {"start", "print", "pop", "stop"} |->
                       IF timer[t] = Off THEN Off ELSE timer[t] - 1]
      BY <1>1, <1>2, Typed
    <2>2. \A t \in {"start", "print", "pop", "stop"} : timer'[t] \in Nat \union {Off}
      BY <1>3
    <2> QED
      BY <2>1, <2>2
  <1>5. expiring' \subseteq [bonus : Bonuses, holder : Avatars, left : Nat]
    <2> SUFFICES ASSUME NEW e \in expiring
                 PROVE  [e EXCEPT !.left = @ - 1] \in [bonus : Bonuses, holder : Avatars, left : Nat]
      BY <1>1
    <2>1. e \in [bonus : Bonuses, holder : Avatars, left : Nat] /\ e.left # 0
      BY <1>1, <1>2 DEF NothingDue, TypeOK
    <2>2. e.left - 1 \in Nat
      BY <2>1
    <2> QED
      BY <2>1, <2>2
  <1>6. TypeOK'
    BY <1>1, <1>2, <1>4, <1>5 DEF TypeOK, Bonuses, fixedVars, scoreVars
  <1>7. sinceStart' \in 0..TrailDelay
        /\ sinceStart' = IF ~ worldActive THEN 0
                         ELSE IF sinceStart < TrailDelay THEN sinceStart + 1 ELSE TrailDelay
    <2>1. sinceStart \in Nat /\ sinceStart <= TrailDelay /\ TrailDelay \in Nat
      BY <1>2, Assumed
    <2>2. Min({sinceStart + 1, TrailDelay}) = IF sinceStart + 1 <= TrailDelay THEN sinceStart + 1
                                              ELSE TrailDelay
      BY <2>1, MinOfTwo
    <2> QED
      BY <1>1, <2>1, <2>2
  <1>8. RoundInv'
    <2>1. timer'["pop"] # Off => timer["pop"] # Off
      BY <1>3 DEF Off
    <2> QED
      BY <1>1, <1>2, <1>7, <2>1 DEF RoundInv, RoundsNeedTwo, fixedVars, boundVars
  <1>9. StackInv'
    <2>1. timer["print"] = Off => timer'["print"] = Off
      BY <1>3 DEF Off
    <2> QED
      BY <1>1, <1>2, <2>1 DEF StackInv, StackedBonusesHold
  <1>10. ASSUME started PROVE ClockInv' /\ TrailInv'
    <2>1. ClockInv /\ TrailInv
      BY <1>10 DEF GameInv
    <2>2. \A t \in {"start", "print", "pop", "stop"} : timer'[t] = Off <=> timer[t] = Off
      BY <1>3 DEF Off
    <2>3. ClockInv'
      BY <1>1, <2>1, <2>2 DEF ClockInv, Few
    <2>4. timer["print"] # Off =>
             /\ worldActive /\ sinceStart' + timer'["print"] = TrailDelay
             /\ timer["pop"] # Off => timer'["print"] <= timer'["pop"]
             /\ ~ inRound /\ ~ Few => timer'["print"] <= timer'["stop"]
      <3> SUFFICES ASSUME timer["print"] # Off
                   PROVE  /\ worldActive /\ sinceStart' + timer'["print"] = TrailDelay
                          /\ timer["pop"] # Off => timer'["print"] <= timer'["pop"]
                          /\ ~ inRound /\ ~ Few => timer'["print"] <= timer'["stop"]
        OBVIOUS
      <3>1. /\ timer["print"] \in Nat /\ timer["print"] > 0 /\ timer'["print"] = timer["print"] - 1
            /\ sinceStart + timer["print"] = TrailDelay
        BY <1>3, <2>1 DEF TrailInv
      <3>2. worldActive /\ sinceStart < TrailDelay
        BY <1>2, <2>1, <3>1, Assumed DEF ClockInv
      <3>3. timer["pop"] # Off => timer'["print"] <= timer'["pop"]
        BY <1>3, <2>1, <3>1 DEF TrailInv
      <3>4. ~ inRound /\ ~ Few => timer'["print"] <= timer'["stop"]
        BY <1>3, <2>1, <3>1 DEF TrailInv, ClockInv
      <3> QED
        BY <1>2, <1>7, <3>1, <3>2, <3>3, <3>4, Assumed
    <2>5. worldActive /\ timer["print"] = Off => sinceStart' = TrailDelay
      BY <1>2, <1>7, <2>1, Assumed DEF TrailInv
    <2>6. TrailInv'
      BY <1>1, <2>1, <2>2, <2>4, <2>5 DEF TrailInv, Few
    <2> QED
      BY <2>3, <2>6
  <1> QED
    BY <1>1, <1>6, <1>8, <1>9, <1>10 DEF GameInv

(***************************************************************************)
(* The end of a round.                                                     *)
(***************************************************************************)
LEMMA MaxOfTwo ==
    ASSUME NEW a \in Nat, NEW b \in Nat
    PROVE  Max({a, b}) = IF a >= b THEN a ELSE b
  <1> DEFINE m == IF a >= b THEN a ELSE b
  <1>1. m \in {a, b} /\ \A y \in {a, b} : m >= y
    OBVIOUS
  <1>2. \A x \in {a, b} : (\A y \in {a, b} : x >= y) => x = m
    OBVIOUS
  <1> QED
    BY <1>1, <1>2 DEF Max

LEMMA WinnersGet ==
    /\ Cardinality(Avatars) \in Nat /\ Cardinality(Avatars) >= 1 /\ WinnerScore \in Nat
    /\ WinnerScore >= 1 /\ WinnerScore >= Cardinality(Avatars) - 1
  <1>1. Cardinality(Avatars) \in Nat /\ Cardinality(Avatars) # 0
    BY GameAssumption, FS_CardinalityType, FS_EmptySet
  <1>2. Cardinality(Avatars) - 1 \in Nat
    BY <1>1
  <1> QED
    BY <1>1, <1>2, MaxOfTwo DEF WinnerScore

\* A round is over only when it should be, and then its end is in WarmDown.
LEMMA RoundChecked ==
    ASSUME TypeOK, NEW rs \in [Avatars -> Nat], CheckRoundEnd(rs), alive' \subseteq alive
    PROVE  /\ score' \in [Avatars -> Nat] /\ roundScore' \in [Avatars -> Nat]
           /\ timer' \in [{"start", "print", "pop", "stop"} -> Nat \union {Off}]
           /\ \A t \in {"start", "print", "pop"} : timer'[t] = timer[t]
           /\ inRound' \in BOOLEAN
           /\ \/ inRound' = inRound /\ timer'["stop"] = timer["stop"]
                 /\ (inRound => Cardinality(alive') >= 2)
              \/ inRound /\ ~ inRound' /\ timer'["stop"] = WarmDown /\ Cardinality(alive') <= 1
  <1>1. /\ score \in [Avatars -> Nat] /\ inRound \in BOOLEAN
        /\ timer \in [{"start", "print", "pop", "stop"} -> Nat \union {Off}]
        /\ alive \subseteq Avatars
    BY Typed DEF TypeOK
  <1>2. Cardinality(alive') \in Nat
    BY <1>1, Sizes
  <1>3. CASE inRound /\ Cardinality(alive') <= 1
    <2>1. EndRound(rs)
      BY <1>3 DEF CheckRoundEnd
    <2>2. \A a \in Avatars : score[a] + rs[a] + (IF a \in Winners THEN WinnerScore ELSE 0) \in Nat
      BY <1>1, WinnersGet
    <2>3. score' \in [Avatars -> Nat]
      BY <2>1, <2>2 DEF EndRound
    <2>4. timer' = [timer EXCEPT !.stop = WarmDown] /\ roundScore' = Zero /\ inRound' = FALSE
      BY <2>1 DEF EndRound
    <2> QED
      BY <1>1, <1>3, <2>3, <2>4, Assumed DEF Zero
  <1>4. CASE ~ (inRound /\ Cardinality(alive') <= 1)
    BY <1>1, <1>2, <1>4 DEF CheckRoundEnd
  <1> QED
    BY <1>3, <1>4

\* A round is stopped when it is over, and the next one has no trails yet to come.
LEMMA StopGameKeeps ==
    ASSUME GameInv, StopGame, timer["stop"] = 0, timer["print"] # 0
    PROVE  GameInv'
  <1>1. /\ worldActive' = FALSE /\ floor' = {} /\ gameStack' = {} /\ sinceStart' = 0
        /\ UNCHANGED <<fixedVars, score, borderless, expiring, popped, leaves>>
        /\ IF Won THEN EndGame ELSE NewRound
    BY DEF StopGame
  <1>2. TypeOK /\ RoundInv /\ StackInv /\ 0 \in 0..TrailDelay
    BY Assumed DEF GameInv
  <1>3. CASE Won
    <2>1. /\ started' = FALSE
          /\ present' = {} /\ alive' = {} /\ printing' = {} /\ invincible' = {} /\ stack' = Nobody
          /\ timer' = [timer EXCEPT !.stop = Off, !.pop = Off]
          /\ UNCHANGED <<inRound, deaths, roundScore, round>>
      BY <1>1, <1>3 DEF EndGame, Stopped
    <2>2. /\ timer' \in [{"start", "print", "pop", "stop"} -> Nat \union {Off}]
          /\ timer'["pop"] = Off
      BY <1>2, <2>1 DEF TypeOK
    <2>3. TypeOK'
      BY <1>1, <1>2, <2>1, <2>2 DEF TypeOK, Bonuses, Nobody, fixedVars
    <2>4. RoundInv'
      BY <1>1, <1>2, <2>1, <2>2 DEF RoundInv, RoundsNeedTwo, fixedVars
    <2>5. StackInv'
      BY <1>1, <2>1 DEF StackInv, StackedBonusesHold, Nobody
    <2> QED
      BY <2>1, <2>3, <2>4, <2>5 DEF GameInv
  <1>4. CASE ~ Won
    <2>1. /\ inRound' = TRUE /\ alive' = present /\ deaths' = <<Avatars \ present>>
          /\ roundScore' = [a \in Avatars |-> IF a \in present THEN 0 ELSE roundScore[a]]
          /\ stack' = [a \in Avatars |-> IF a \in present THEN {} ELSE stack[a]]
          /\ invincible' = invincible \ present /\ printing' = printing \ present
          /\ timer' = [[timer EXCEPT !.stop = Off, !.pop = Off] EXCEPT !.start = WarmUp]
          /\ UNCHANGED <<started, present>>
      BY <1>1, <1>4 DEF NewRound, Stopped
    <2>2. /\ timer' \in [{"start", "print", "pop", "stop"} -> Nat \union {Off}]
          /\ TimerSet(WarmUp, timer["print"], Off, Off)
      BY <1>2, <2>1, Assumed DEF TypeOK, TimerSet
    <2>3. present \subseteq Avatars /\ \A a \in Avatars : stack[a] # {} => a \in present
      BY <1>2 DEF TypeOK, StackInv
    <2>4. \A a \in Avatars : stack'[a] = {}
      BY <2>1, <2>3
    <2>5. TypeOK'
      <3>1. roundScore' \in [Avatars -> Nat] /\ stack' \in [Avatars -> SUBSET Bonuses]
        BY <1>2, <2>1 DEF TypeOK
      <3>2. deaths' \in Seq(SUBSET Avatars) /\ DOMAIN deaths' = {1}
        BY <2>1
      <3> QED
        BY <1>1, <1>2, <2>1, <2>2, <3>1, <3>2 DEF TypeOK, Bonuses, fixedVars
    \* Who can go on are two, or one that is alone in the game.
    <2>6. RoundsNeedTwo'
      <3>1. deaths'[1] = Avatars \ present /\ Avatars \ (Avatars \ present) = present
        BY <2>1, <2>3
      <3> QED
        BY <2>1, <3>1 DEF RoundsNeedTwo
    <2>7. RoundInv'
      <3>1. deaths' # <<>> /\ \A i \in DOMAIN deaths' : alive' \intersect deaths'[i] = {}
        BY <2>1
      <3> QED
        BY <1>1, <1>2, <2>1, <2>2, <2>6, <3>1 DEF RoundInv, TimerSet, fixedVars
    <2>8. StackInv'
      <3>1. alive' \subseteq Avatars
        BY <2>1, <2>3
      <3> QED
        BY <1>1, <2>4, <3>1 DEF StackInv, StackedBonusesHold
    <2>9. ASSUME started PROVE ClockInv' /\ TrailInv'
      <3>1. ClockInv /\ TrailInv /\ ~ Few /\ ~ inRound
        BY <1>4, <2>9, FewHaveWon DEF GameInv, ClockInv, Off
      <3>2. timer["print"] = Off
        BY <1>2, <3>1, Typed DEF TrailInv, Off
      <3>3. WarmUp # Off
        BY Assumed DEF Off
      <3>4. ClockInv'
        BY <1>1, <2>1, <2>2, <3>2, <3>3 DEF ClockInv, TimerSet
      <3>5. TrailInv'
        BY <1>1, <2>1, <2>2, <3>2 DEF TrailInv, TimerSet
      <3> QED
        BY <3>4, <3>5
    <2> QED
      BY <2>1, <2>5, <2>7, <2>8, <2>9 DEF GameInv
  <1> QED
    BY <1>3, <1>4

(***************************************************************************)
(* A frame.                                                                *)
(***************************************************************************)
\* What a step that books deaths, or none, makes of the round.
Checked ==
    \/ inRound' = inRound /\ timer'["stop"] = timer["stop"]
    \/ inRound /\ ~ inRound' /\ timer'["stop"] = WarmDown

LEMMA ClockChecked ==
    ASSUME TypeOK, RoundInv, ClockInv, TrailInv, Checked,
           \A t \in {"start", "print", "pop"} : timer'[t] = timer[t],
           UNCHANGED <<worldActive, sinceStart>>, floor' \subseteq floor,
           present' \subseteq present, ~ worldActive /\ alive = present => alive' = present',
           ~ worldActive /\ inRound /\ ~ inRound' => Few',
           printing' \subseteq printing
    PROVE  ClockInv' /\ TrailInv'
  <1>1. Few => Few'
    BY FewGrows
  <1>2. WarmDown # Off /\ WarmDown \in Nat /\ TrailDelay \in Nat /\ TrailDelay <= WarmDown
    BY Assumed DEF Off
  <1>3. inRound \in BOOLEAN
    BY Typed
  <1>4. ClockInv'
    BY <1>1, <1>2, <1>3 DEF ClockInv, Checked
  <1>5. TrailInv'
    <2>1. timer["print"] # Off => timer["print"] <= TrailDelay /\ timer["print"] \in Nat
      <3>1. sinceStart \in 0..TrailDelay /\ (timer["print"] \in Nat \/ timer["print"] = Off)
        BY Typed DEF RoundInv
      <3> QED
        BY <1>2, <3>1 DEF TrailInv
    <2>2. printing' \intersect present' # {} => printing \intersect present # {}
      OBVIOUS
    <2>3. timer["print"] # Off /\ ~ inRound' /\ ~ Few' => timer["print"] <= timer'["stop"]
      BY <1>1, <1>2, <1>3, <2>1 DEF TrailInv, Checked
    <2> QED
      BY <1>1, <1>2, <2>2, <2>3 DEF TrailInv
  <1> QED
    BY <1>4, <1>5

LEMMA OneCatches ==
    ASSUME NEW dead, NEW caught \in Catches(dead), caught # {}
    PROVE  \E by \in alive \ dead, b \in floor : \E c : caught = {c} /\ c.by = by /\ c.bonus = b
  <1>1. PICK by \in alive \ dead, b \in floor : caught = {[by |-> by, bonus |-> b]}
    BY DEF Catches
  <1> DEFINE c == [by |-> by, bonus |-> b]
  <1>2. caught = {c} /\ c.by = by /\ c.bonus = b
    BY <1>1
  <1> HIDE DEF c
  <1> QED
    BY <1>2

LEMMA FrameKeeps ==
    ASSUME GameInv, NEW dead \in SUBSET alive, NEW caught \in Catches(dead), Frame(dead, caught)
    PROVE  GameInv'
  <1> DEFINE masters == {c \in caught : c.bonus.kind = "master"}
             rs == [a \in Avatars |-> roundScore[a] + (IF a \in dead THEN DeathScore(dead) ELSE 0)]
  <1>1. /\ started /\ worldActive
        /\ alive' = alive \ dead
        /\ deaths' = IF dead = {} THEN deaths ELSE Append(deaths, dead)
        /\ floor' = floor \ {c.bonus : c \in caught}
        /\ stack' = [a \in Avatars |->
                        IF a \in dead THEN {}
                        ELSE stack[a] \union {c.bonus : c \in {d \in caught :
                                d.by = a /\ d.bonus.kind = "master"}}]
        /\ printing' = printing \ (dead \union {c.by : c \in masters})
        /\ IF caught = {} THEN UNCHANGED <<expiring, gameStack, borderless, invincible>>
           ELSE \A c \in caught : Apply(c.by, c.bonus)
        /\ IF dead = {} THEN UNCHANGED <<scoreVars, inRound, timer>> ELSE CheckRoundEnd(rs)
        /\ UNCHANGED <<fixedVars, started, worldActive, present, boundVars, sinceStart>>
    BY DEF Frame
  <1>2. TypeOK /\ RoundInv /\ StackInv /\ ClockInv /\ TrailInv
    BY <1>1 DEF GameInv
  <1>3. dead \subseteq Avatars /\ alive \subseteq Avatars /\ present \subseteq Avatars
    BY <1>2 DEF TypeOK
  <1>4. Out \subseteq Avatars /\ DeathScore(dead) \in Nat
    <2>1. \A i \in DOMAIN deaths : deaths[i] \subseteq Avatars
      BY <1>2 DEF TypeOK
    <2>2. Out \subseteq Avatars
      BY <2>1 DEF Out
    <2> QED
      BY <2>2, Sizes DEF DeathScore
  <1>5. rs \in [Avatars -> Nat]
    BY <1>2, <1>4 DEF TypeOK
  <1> HIDE DEF rs
  <1>6. /\ score' \in [Avatars -> Nat] /\ roundScore' \in [Avatars -> Nat]
        /\ timer' \in [{"start", "print", "pop", "stop"} -> Nat \union {Off}]
        /\ \A t \in {"start", "print", "pop"} : timer'[t] = timer[t]
        /\ inRound' \in BOOLEAN /\ Checked
        /\ inRound /\ inRound' /\ dead # {} => Cardinality(alive') >= 2
    <2>1. CASE dead = {}
      BY <1>1, <1>2, <2>1, Typed DEF Checked, TypeOK, scoreVars
    <2>2. CASE dead # {}
      <3>1. CheckRoundEnd(rs) /\ alive' \subseteq alive
        BY <1>1, <2>2
      <3> QED
        BY <1>2, <1>5, <3>1, RoundChecked DEF Checked
    <2> QED
      BY <2>1, <2>2
  \* What is caught is on the stack of who caught it, and in force.
  <1>7. /\ floor' \subseteq floor /\ printing' \subseteq printing
        /\ expiring' \subseteq [bonus : Bonuses, holder : Avatars, left : Nat]
        /\ gameStack' \subseteq Bonuses /\ borderless' \in BOOLEAN
        /\ gameStack' # {} => borderless'
        /\ invincible' \subseteq Avatars /\ invincible \subseteq invincible'
        /\ stack' \in [Avatars -> SUBSET Bonuses]
        /\ \A a \in Avatars : stack'[a] # {} =>
              /\ a \notin dead
              /\ stack[a] # {} \/ (floor # {} /\ a \in alive /\ a \in invincible' /\ a \notin printing')
    <2>1. /\ floor \subseteq Bonuses /\ gameStack \subseteq Bonuses /\ borderless \in BOOLEAN
          /\ expiring \subseteq [bonus : Bonuses, holder : Avatars, left : Nat]
          /\ stack \in [Avatars -> SUBSET Bonuses] /\ invincible \subseteq Avatars
          /\ gameStack # {} => borderless
      BY <1>2, Typed DEF TypeOK, StackInv, StackedBonusesHold
    <2>2. CASE masters = {}
      <3>1. printing' \subseteq printing /\ floor' \subseteq floor
            /\ stack' = [a \in Avatars |-> IF a \in dead THEN {} ELSE stack[a]]
        <4>1. \A a \in Avatars : {d \in caught : d.by = a /\ d.bonus.kind = "master"} = {}
          BY <2>2
        <4>2. \A a \in Avatars : {c.bonus : c \in {d \in caught :
                                      d.by = a /\ d.bonus.kind = "master"}} = {}
          BY <4>1
        <4> QED
          BY <1>1, <4>2
      <3>2. /\ stack' \in [Avatars -> SUBSET Bonuses]
            /\ \A a \in Avatars : stack'[a] # {} => a \notin dead /\ stack[a] # {}
        BY <2>1, <3>1
      <3>3. CASE caught = {}
        BY <1>1, <2>1, <3>1, <3>2, <3>3
      <3>4. CASE caught # {}
        <4>1. PICK by \in alive \ dead, b \in floor : \E c : caught = {c} /\ c.by = by /\ c.bonus = b
          BY <3>4, OneCatches
        <4>5. PICK c : caught = {c} /\ c.by = by /\ c.bonus = b
          BY <4>1
        <4>2. b \in Bonuses /\ b.kind = "borderless" /\ Apply(by, b)
          <5>1. b.kind # "master"
            BY <2>2, <4>5
          <5>2. b \in Bonuses
            BY <2>1
          <5>3. b.kind \in {"borderless", "master"}
            BY <5>2 DEF Bonuses, Kinds
          <5>4. Apply(by, b)
            BY <1>1, <4>5
          <5> QED
            BY <5>1, <5>2, <5>3, <5>4
        <4>3. [bonus |-> b, holder |-> by, left |-> Duration[b.kind]]
                 \in [bonus : Bonuses, holder : Avatars, left : Nat]
          BY <1>3, <4>2, Assumed DEF Kinds
        <4>4. /\ expiring' = expiring \union {[bonus |-> b, holder |-> by, left |-> Duration[b.kind]]}
              /\ gameStack' = gameStack \union {b} /\ borderless' = TRUE /\ UNCHANGED invincible
          BY <4>2 DEF Apply
        <4> QED
          BY <2>1, <3>1, <3>2, <4>2, <4>3, <4>4
      <3> QED
        BY <3>3, <3>4
    <2>3. CASE masters # {}
      <3>1. PICK by \in alive \ dead, b \in floor : \E c : caught = {c} /\ c.by = by /\ c.bonus = b
        BY <2>3, OneCatches
      <3>8. PICK got : caught = {got} /\ got.by = by /\ got.bonus = b
        BY <3>1
      <3>2. b \in Bonuses /\ b.kind = "master" /\ Apply(by, b) /\ by \in Avatars
        <4>1. Apply(by, b) /\ b.kind = "master"
          BY <1>1, <2>3, <3>8
        <4> QED
          BY <1>3, <2>1, <4>1
      <3>3. [bonus |-> b, holder |-> by, left |-> Duration[b.kind]]
               \in [bonus : Bonuses, holder : Avatars, left : Nat]
        BY <1>3, <3>2, Assumed DEF Kinds
      <3>4. /\ expiring' = expiring \union {[bonus |-> b, holder |-> by, left |-> Duration[b.kind]]}
            /\ invincible' = invincible \union {by} /\ UNCHANGED <<gameStack, borderless>>
        BY <3>2 DEF Apply
      <3>5. /\ {c.by : c \in masters} = {by}
            /\ \A a \in Avatars : {c.bonus : c \in {d \in caught :
                                      d.by = a /\ d.bonus.kind = "master"}} = IF a = by THEN {b} ELSE {}
        <4>1. masters = {got} /\ {c.by : c \in masters} = {by}
          BY <3>2, <3>8
        <4>2. \A a \in Avatars : {d \in caught : d.by = a /\ d.bonus.kind = "master"}
                                    = IF a = by THEN {got} ELSE {}
          BY <3>2, <3>8
        <4> QED
          BY <3>8, <4>1, <4>2
      <3>6. /\ printing' = printing \ (dead \union {by})
            /\ stack' = [a \in Avatars |-> IF a \in dead THEN {}
                                           ELSE stack[a] \union (IF a = by THEN {b} ELSE {})]
            /\ floor' \subseteq floor
        BY <1>1, <3>5
      <3>7. /\ stack' \in [Avatars -> SUBSET Bonuses]
            /\ \A a \in Avatars : stack'[a] # {} => a \notin dead /\ (stack[a] # {} \/ a = by)
        BY <2>1, <3>2, <3>6
      <3> QED
        BY <2>1, <3>1, <3>2, <3>3, <3>4, <3>6, <3>7
    <2> QED
      BY <2>2, <2>3
  <1> HIDE DEF masters
  <1>8. /\ deaths' \in Seq(SUBSET Avatars) /\ deaths' # <<>> /\ deaths'[1] = deaths[1]
        /\ \A i, j \in DOMAIN deaths' : i # j => deaths'[i] \intersect deaths'[j] = {}
        /\ \A i \in DOMAIN deaths' : alive' \intersect deaths'[i] = {}
    <2>1. /\ deaths \in Seq(SUBSET Avatars) /\ deaths # <<>>
          /\ \A i, j \in DOMAIN deaths : i # j => deaths[i] \intersect deaths[j] = {}
          /\ \A i \in DOMAIN deaths : alive \intersect deaths[i] = {}
      BY <1>2 DEF TypeOK, RoundInv
    <2>2. CASE dead = {}
      BY <1>1, <2>1, <2>2
    <2>3. CASE dead # {}
      <3>1. /\ deaths' = Append(deaths, dead) /\ Len(deaths) \in Nat /\ Len(deaths) >= 1
            /\ deaths' \in Seq(SUBSET Avatars) /\ deaths' # <<>> /\ DOMAIN deaths = 1..Len(deaths)
            /\ DOMAIN deaths' = 1..Len(deaths) \union {Len(deaths) + 1}
        BY <1>1, <1>3, <2>1, <2>3
      <3>2. /\ \A i \in 1..Len(deaths) : deaths'[i] = deaths[i]
            /\ deaths'[Len(deaths) + 1] = dead
        BY <2>1, <3>1
      <3>3. 1 \in 1..Len(deaths)
        BY <3>1
      <3> QED
        BY <1>1, <2>1, <3>1, <3>2, <3>3
    <2> QED
      BY <2>2, <2>3
  <1>9. TypeOK'
    BY <1>1, <1>2, <1>6, <1>7, <1>8, Typed DEF TypeOK, Bonuses, fixedVars
  <1>10. RoundsNeedTwo'
    BY <1>1, <1>2, <1>6, <1>8, Typed DEF RoundsNeedTwo, RoundInv, Checked
  <1>11. RoundInv'
    BY <1>1, <1>2, <1>6, <1>8, <1>10 DEF RoundInv, fixedVars, boundVars
  <1>12. StackInv'
    <2>1. ASSUME NEW a \in Avatars, stack'[a] # {}
          PROVE  /\ a \in alive' /\ worldActive /\ timer["print"] = Off
                 /\ a \in invincible' /\ a \notin printing'
      <3>1. CASE stack[a] # {}
        BY <1>1, <1>2, <1>7, <2>1, <3>1 DEF StackInv, StackedBonusesHold
      <3>2. CASE stack[a] = {}
        BY <1>1, <1>2, <1>7, <2>1, <3>2 DEF TrailInv
      <3> QED
        BY <3>1, <3>2
    <2>2. alive' \subseteq Avatars
      BY <1>1, <1>3
    <2> QED
      BY <1>1, <1>6, <1>7, <2>1, <2>2 DEF StackInv, StackedBonusesHold
  <1>13. ClockInv' /\ TrailInv'
    BY <1>1, <1>2, <1>6, <1>7, ClockChecked
  <1> QED
    BY <1>1, <1>9, <1>11, <1>12, <1>13 DEF GameInv

(***************************************************************************)
(* A player leaves.                                                        *)
(***************************************************************************)
LEMMA RemoveKeeps == ASSUME GameInv, NEW a \in Avatars, Remove(a) PROVE GameInv'
  <1> DEFINE rs == [roundScore EXCEPT ![a] = 0]
  <1>1. /\ started /\ a \in present
        /\ present' = present \ {a} /\ alive' = alive \ {a}
        /\ printing' = printing \ {a} /\ invincible' = invincible \ {a}
        /\ stack' = [stack EXCEPT ![a] = {}]
        /\ CheckRoundEnd(rs)
        /\ UNCHANGED <<fixedVars, started, worldActive, borderless, deaths, floor, gameStack,
                       expiring, round, popped, sinceStart>>
    BY DEF Remove
  <1>2. TypeOK /\ RoundInv /\ StackInv /\ ClockInv /\ TrailInv
    BY <1>1 DEF GameInv
  <1>3. rs \in [Avatars -> Nat] /\ alive' \subseteq alive
    BY <1>1, <1>2 DEF TypeOK
  <1> HIDE DEF rs
  <1>4. /\ score' \in [Avatars -> Nat] /\ roundScore' \in [Avatars -> Nat]
        /\ timer' \in [{"start", "print", "pop", "stop"} -> Nat \union {Off}]
        /\ \A t \in {"start", "print", "pop"} : timer'[t] = timer[t]
        /\ inRound' \in BOOLEAN /\ Checked
        /\ inRound /\ inRound' => Cardinality(alive') >= 2
        /\ inRound /\ ~ inRound' => Cardinality(alive') <= 1
    BY <1>1, <1>2, <1>3, RoundChecked, Typed DEF Checked
  <1>5. /\ stack' \in [Avatars -> SUBSET Bonuses] /\ stack'[a] = {}
        /\ \A b \in Avatars : b # a => stack'[b] = stack[b]
    BY <1>1, <1>2 DEF TypeOK
  <1>6. TypeOK'
    BY <1>1, <1>2, <1>4, <1>5 DEF TypeOK, Bonuses, fixedVars
  <1>7. RoundInv'
    <2>1. RoundsNeedTwo'
      BY <1>1, <1>2, <1>4, Typed DEF RoundsNeedTwo, RoundInv, Checked
    <2> QED
      BY <1>1, <1>2, <1>4, <2>1 DEF RoundInv, fixedVars
  <1>8. StackInv'
    <2>1. \A b \in Avatars : stack'[b] # {} => b # a /\ stack[b] # {}
      BY <1>5
    <2>2. alive' \subseteq Avatars
      BY <1>1, <1>2 DEF TypeOK
    <2> QED
      BY <1>1, <1>2, <1>4, <2>1, <2>2 DEF StackInv, StackedBonusesHold
  <1>9. ClockInv' /\ TrailInv'
    <2>1. ~ worldActive /\ inRound /\ ~ inRound' => Few'
      <3> SUFFICES ASSUME ~ worldActive, inRound, ~ inRound' PROVE Few'
        OBVIOUS
      <3>1. alive' = present' /\ Cardinality(present') <= 1
        BY <1>1, <1>2, <1>4 DEF ClockInv
      <3>2. CASE Cardinality(Avatars) > 1
        BY <3>1, <3>2 DEF Few
      <3>3. CASE ~ Cardinality(Avatars) > 1
        <4>1. present \subseteq Avatars /\ IsFiniteSet(Avatars) /\ Cardinality(Avatars) = 1
          BY <1>2, <3>3, GameAssumption, WinnersGet DEF TypeOK
        <4>2. PICK b : Avatars = {b}
          BY <4>1, FS_Singleton
        <4>3. present' = {}
          BY <1>1, <4>1, <4>2
        <4> QED
          BY <4>3 DEF Few
      <3> QED
        BY <3>2, <3>3
    <2> QED
      BY <1>1, <1>2, <1>4, <2>1, ClockChecked
  <1> QED
    BY <1>1, <1>6, <1>7, <1>8, <1>9 DEF GameInv

(***************************************************************************)
(* All steps.                                                              *)
(***************************************************************************)
LEMMA FireKeeps == ASSUME GameInv, Fire PROVE GameInv'
  <1>1. CASE timer["start"] = 0 /\ StartGame
    BY <1>1, StartGameKeeps
  <1>2. CASE timer["print"] = 0 /\ timer["start"] # 0 /\ StartPrinting
    BY <1>2, StartPrintingKeeps
  <1>3. CASE timer["pop"] = 0 /\ timer["print"] # 0 /\ PopBonus
    BY <1>3, PopBonusKeeps
  <1>4. CASE \E e \in expiring : Expire(e)
    BY <1>4, ExpireKeeps
  <1>5. CASE timer["stop"] = 0 /\ timer["print"] # 0 /\ StopGame
    BY <1>5, StopGameKeeps
  <1> QED
    BY <1>1, <1>2, <1>3, <1>4, <1>5 DEF Fire

LEMMA NextKeeps == GameInv /\ [Next]_vars => GameInv'
  <1> SUFFICES ASSUME GameInv, [Next]_vars PROVE GameInv'
    OBVIOUS
  <1>1. CASE Fire
    BY <1>1, FireKeeps
  <1>2. CASE Tick
    BY <1>2, TickKeeps
  <1>3. ASSUME NEW dead \in SUBSET {a \in alive : Mortal(a)}, NEW caught \in Catches(dead),
               Frame(dead, caught)
        PROVE  GameInv'
    <2>1. dead \in SUBSET alive
      OBVIOUS
    <2> QED
      BY <1>3, <2>1, FrameKeeps
  <1>4. ASSUME NEW a \in Avatars, Remove(a) PROVE GameInv'
    BY <1>4, RemoveKeeps
  <1>5. CASE UNCHANGED vars
    BY <1>5 DEF vars, fixedVars, scoreVars, bonusVars, boundVars, GameInv, TypeOK, Bonuses, RoundInv,
       RoundsNeedTwo, ClockInv, TrailInv, StackInv, StackedBonusesHold, Few
  <1> QED
    BY <1>1, <1>2, <1>3, <1>4, <1>5 DEF Next

LEMMA InitHolds == Init => GameInv
  <1> SUFFICES ASSUME Init PROVE GameInv
    OBVIOUS
  <1>1. /\ drain \in BOOLEAN /\ started = TRUE /\ inRound = TRUE /\ worldActive = FALSE
        /\ borderless = FALSE
        /\ alive = present /\ deaths = <<Avatars \ present>>
        /\ printing = {} /\ invincible = {} /\ score = Zero /\ roundScore = Zero
        /\ timer = [start |-> WarmUp, print |-> Off, pop |-> Off, stop |-> Off]
        /\ floor = {} /\ gameStack = {} /\ stack = Nobody /\ expiring = {}
        /\ popped = 0 /\ sinceStart = 0
    BY DEF Init
  <1>2. present \subseteq Avatars /\ maxBonuses \in Nat
    BY GameAssumption DEF Init
  <1>3. /\ timer \in [{"start", "print", "pop", "stop"} -> Nat \union {Off}]
        /\ timer["start"] = WarmUp /\ timer["print"] = Off /\ timer["pop"] = Off
        /\ timer["stop"] = Off /\ WarmUp # Off
    BY <1>1, Assumed DEF Off
  <1>4. TypeOK
    <2>1. deaths \in Seq(SUBSET Avatars) /\ DOMAIN deaths = {1}
      BY <1>1
    <2> QED
      BY <1>1, <1>2, <1>3, <2>1 DEF TypeOK, Zero, Nobody
  <1>5. RoundInv
    <2>1. deaths[1] = Avatars \ present /\ Avatars \ (Avatars \ present) = present
      BY <1>1, <1>2
    <2>2. RoundsNeedTwo
      BY <1>1, <2>1 DEF RoundsNeedTwo
    <2>3. deaths # <<>> /\ \A i \in DOMAIN deaths : alive \intersect deaths[i] = {}
      BY <1>1
    <2>4. popped \in 0..maxBonuses /\ sinceStart \in 0..TrailDelay
      BY <1>1, <1>2, Assumed
    <2> QED
      BY <1>1, <1>3, <2>2, <2>3, <2>4 DEF RoundInv
  <1>6. StackInv
    BY <1>1, <1>2 DEF StackInv, StackedBonusesHold, Nobody
  <1>7. ClockInv /\ TrailInv
    BY <1>1, <1>3 DEF ClockInv, TrailInv
  <1> QED
    BY <1>4, <1>5, <1>6, <1>7 DEF GameInv

\* Timers, deaths, stacks and trails fit together at every step: which timers run at the
\* same time, and that what is caught in a round is in force or gone.
THEOREM GameInvariant == Spec => []GameInv
  BY InitHolds, NextKeeps, PTL DEF Spec

(***************************************************************************)
(* What it means.                                                          *)
(***************************************************************************)
\* Timers that run together, rounds that follow one another and bonuses that outlive
\* both keep all variables in their sets, for any delays that keep the order of the code's.
THEOREM GameTypeCorrect == Spec => []TypeOK
  BY GameInvariant, PTL DEF GameInv

\* No round of two or more players goes on with fewer than two of them alive.
THEOREM RoundsEndInTime == Spec => []RoundsNeedTwo
  BY GameInvariant, PTL DEF GameInv, RoundInv

\* Nobody leaves a trail before it is time, although the timers that start trails
\* survive the end of a round and a bonus that wears off starts a trail of its own.
THEOREM TrailsWaitForever == Spec => []TrailsWait
  <1>1. GameInv => TrailsWait
    BY Typed DEF GameInv, RoundInv, TrailInv, TrailsWait
  <1> QED
    BY <1>1, GameInvariant, PTL

\* Bonuses of one kind hold until the last of them has worn off.
THEOREM StacksHold == Spec => []StackedBonusesHold
  BY GameInvariant, PTL DEF GameInv, StackInv

\* Scores are given once a round, at its end.
THEOREM ScoresMoveOnce == Spec => RoundsScoreOnce
  <1>1. ASSUME TypeOK, [Next]_vars PROVE [score' # score => inRound /\ ~ inRound']_vars
    <2> SUFFICES ASSUME Next, score' # score PROVE inRound /\ ~ inRound'
      BY <1>1
    <2>1. ASSUME NEW rs, CheckRoundEnd(rs) PROVE inRound /\ ~ inRound'
      BY <2>1 DEF CheckRoundEnd, EndRound
    <2>2. CASE Fire
      BY <2>2 DEF Fire, StartGame, StartPrinting, PopBonus, Expire, StopGame, scoreVars
    <2>3. CASE Tick
      BY <2>3 DEF Tick, scoreVars
    <2>4. ASSUME NEW dead, NEW caught, Frame(dead, caught) PROVE inRound /\ ~ inRound'
      BY <2>1, <2>4 DEF Frame, scoreVars
    <2>5. ASSUME NEW a, Remove(a) PROVE inRound /\ ~ inRound'
      BY <2>1, <2>5 DEF Remove
    <2> QED
      BY <2>2, <2>3, <2>4, <2>5 DEF Next
  <1> QED
    BY <1>1, GameTypeCorrect, PTL DEF Spec, RoundsScoreOnce

(***************************************************************************)
(* What a round gives.                                                     *)
(***************************************************************************)
EndOf(D, A, x) == IF x \in A THEN Len(D) + 1 ELSE CHOOSE i \in DOMAIN D : x \in D[i]
GainOf(A, rs, x) == rs[x] + (IF x \in A THEN WinnerScore ELSE 0)

\* The deaths of a round: everybody dies once, and who is alive has not.
Deaths(D, A) ==
    /\ D \in Seq(SUBSET Avatars) /\ A \in SUBSET Avatars
    /\ \A i, j \in DOMAIN D : i # j => D[i] \intersect D[j] = {}
    /\ \A i \in DOMAIN D : A \intersect D[i] = {}

LEMMA OutIsFinite ==
    ASSUME NEW D, NEW A, Deaths(D, A), NEW i \in 1..(Len(D) + 1)
    PROVE  /\ OutBefore(D, i) \subseteq Avatars /\ IsFiniteSet(OutBefore(D, i))
           /\ Cardinality(OutBefore(D, i)) \in Nat
  <1>1. /\ Len(D) \in Nat /\ DOMAIN D = 1..Len(D)
        /\ \A j \in 1..Len(D) : D[j] \subseteq Avatars
    BY DEF Deaths
  <1>2. 1..(i - 1) \subseteq 1..Len(D)
    BY <1>1
  <1>3. OutBefore(D, i) \subseteq Avatars
    BY <1>1, <1>2 DEF OutBefore
  <1> QED
    BY <1>3, Sizes

\* Who died, died in one frame, with all that were out before it behind him.
LEMMA DiedIn ==
    ASSUME NEW D, NEW A, NEW P, NEW rs, Deaths(D, A), Gains(D, A, P, rs),
           NEW x \in P, x \notin A
    PROVE  /\ EndOf(D, A, x) \in 2..Len(D) /\ x \in D[EndOf(D, A, x)]
           /\ \A i \in 1..Len(D) : x \in D[i] => i = EndOf(D, A, x)
           /\ GainOf(A, rs, x) = Cardinality(OutBefore(D, EndOf(D, A, x)))
  <1>1. Len(D) \in Nat /\ DOMAIN D = 1..Len(D)
    BY DEF Deaths
  <1>2. PICK k \in 2..Len(D) : x \in D[k]
    BY DEF Gains
  <1>3. \A i \in 1..Len(D) : x \in D[i] => i = k
    BY <1>1, <1>2 DEF Deaths
  <1>4. EndOf(D, A, x) = k
    BY <1>1, <1>2, <1>3 DEF EndOf
  <1>5. rs[x] = Cardinality(OutBefore(D, k))
    BY <1>2 DEF Gains
  <1>6. rs[x] \in Nat
    <2>1. k \in 1..(Len(D) + 1)
      BY <1>1, <1>2
    <2> QED
      BY <1>5, <2>1, OutIsFinite
  <1> QED
    BY <1>2, <1>3, <1>4, <1>5, <1>6 DEF GainOf

LEMMA LaterGetsMore ==
    ASSUME NEW D, NEW A, NEW P \in SUBSET Avatars, NEW rs, Deaths(D, A), Gains(D, A, P, rs),
           NEW a \in P, NEW b \in P, EndOf(D, A, a) < EndOf(D, A, b)
    PROVE  GainOf(A, rs, a) < GainOf(A, rs, b)
  <1> DEFINE i == EndOf(D, A, a)
             k == EndOf(D, A, b)
  <1>1. Len(D) \in Nat /\ DOMAIN D = 1..Len(D)
    BY DEF Deaths
  <1>2. k = Len(D) + 1 \/ k \in 2..Len(D)
    BY DiedIn DEF EndOf
  <1>3. a \notin A
    BY <1>1, <1>2 DEF EndOf
  <1>4. /\ i \in 2..Len(D) /\ a \in D[i] /\ \A j \in 1..Len(D) : a \in D[j] => j = i
        /\ GainOf(A, rs, a) = Cardinality(OutBefore(D, i))
    BY <1>3, DiedIn
  <1>5. i < k
    OBVIOUS
  <1> HIDE DEF i
  <1>6. /\ OutBefore(D, i) \subseteq Avatars /\ IsFiniteSet(OutBefore(D, i))
        /\ Cardinality(OutBefore(D, i)) \in Nat
    <2>1. i \in 1..(Len(D) + 1)
      BY <1>1, <1>4
    <2> QED
      BY <2>1, OutIsFinite
  <1>7. a \notin OutBefore(D, i)
    <2>1. \A j \in 1..(i - 1) : j \in 1..Len(D) /\ j # i
      BY <1>1, <1>4
    <2> QED
      BY <1>4, <2>1 DEF OutBefore
  <1>8. CASE b \in A
    <2>1. GainOf(A, rs, b) = WinnerScore
      BY <1>8, WinnersGet DEF GainOf, Gains
    <2>2. b \notin OutBefore(D, i) /\ a # b
      <3>1. \A j \in 1..(i - 1) : j \in 1..Len(D)
        BY <1>1, <1>4
      <3> QED
        BY <1>1, <1>3, <1>8, <3>1 DEF OutBefore, Deaths
    <2>3. /\ IsFiniteSet(Avatars \ {a}) /\ Cardinality(Avatars \ {a}) = Cardinality(Avatars) - 1
          /\ IsFiniteSet((Avatars \ {a}) \ {b})
          /\ Cardinality((Avatars \ {a}) \ {b}) = Cardinality(Avatars) - 1 - 1
      <3>1. IsFiniteSet(Avatars) /\ a \in Avatars /\ b \in Avatars \ {a}
        BY <2>2, GameAssumption
      <3>2. /\ IsFiniteSet(Avatars \ {a})
            /\ Cardinality(Avatars \ {a}) = Cardinality(Avatars) - 1
        BY <3>1, FS_RemoveElement
      <3>3. /\ IsFiniteSet((Avatars \ {a}) \ {b})
            /\ Cardinality((Avatars \ {a}) \ {b}) = Cardinality(Avatars \ {a}) - 1
        BY <3>1, <3>2, FS_RemoveElement
      <3> QED
        BY <3>2, <3>3
    <2>4. OutBefore(D, i) \subseteq (Avatars \ {a}) \ {b}
      BY <1>6, <1>7, <2>2
    <2>5. Cardinality(OutBefore(D, i)) <= Cardinality((Avatars \ {a}) \ {b})
      BY <2>3, <2>4, FS_Subset
    <2> QED
      BY <1>4, <1>6, <2>1, <2>3, <2>5, WinnersGet
  <1>9. CASE b \notin A
    <2>1. k \in 2..Len(D) /\ GainOf(A, rs, b) = Cardinality(OutBefore(D, k))
      BY <1>9, DiedIn
    <2> HIDE DEF k
    <2>2. OutBefore(D, i) \subseteq OutBefore(D, k) /\ a \in OutBefore(D, k)
      <3>1. i \in 1..(k - 1) /\ 1..(i - 1) \subseteq 1..(k - 1)
        BY <1>1, <1>4, <1>5, <2>1
      <3> QED
        BY <1>4, <3>1 DEF OutBefore
    <2>3. IsFiniteSet(OutBefore(D, k)) /\ Cardinality(OutBefore(D, k)) \in Nat
      <3>1. k \in 1..(Len(D) + 1)
        BY <1>1, <2>1
      <3> QED
        BY <3>1, OutIsFinite
    <2>4. /\ Cardinality(OutBefore(D, i)) <= Cardinality(OutBefore(D, k))
          /\ Cardinality(OutBefore(D, i)) # Cardinality(OutBefore(D, k))
      BY <1>7, <2>2, <2>3, FS_Subset
    <2> QED
      BY <1>4, <1>6, <2>1, <2>3, <2>4
  <1> QED
    BY <1>8, <1>9

LEMMA SameGetsSame ==
    ASSUME NEW D, NEW A, NEW P, NEW rs, Deaths(D, A), Gains(D, A, P, rs),
           NEW a \in P, NEW b \in P, EndOf(D, A, a) = EndOf(D, A, b)
    PROVE  GainOf(A, rs, a) = GainOf(A, rs, b)
  <1>1. Len(D) \in Nat
    BY DEF Deaths
  <1>2. CASE a \in A /\ b \in A
    BY <1>2 DEF GainOf, Gains
  <1>3. CASE a \notin A /\ b \notin A
    BY <1>3, DiedIn
  <1>4. CASE a \in A /\ b \notin A
    <2>1. EndOf(D, A, b) \in 2..Len(D) /\ EndOf(D, A, a) = Len(D) + 1
      BY <1>4, DiedIn DEF EndOf
    <2> QED
      BY <1>1, <2>1
  <1>5. CASE a \notin A /\ b \in A
    <2>1. EndOf(D, A, a) \in 2..Len(D) /\ EndOf(D, A, b) = Len(D) + 1
      BY <1>5, DiedIn DEF EndOf
    <2> QED
      BY <1>1, <2>1
  <1> QED
    BY <1>2, <1>3, <1>4, <1>5

LEMMA GainsFollowEnds ==
    ASSUME NEW D, NEW A, NEW P \in SUBSET Avatars, NEW rs, Deaths(D, A), Gains(D, A, P, rs),
           NEW a \in P, NEW b \in P
    PROVE  /\ EndOf(D, A, a) < EndOf(D, A, b) <=> GainOf(A, rs, a) < GainOf(A, rs, b)
           /\ GainOf(A, rs, a) \in Nat /\ GainOf(A, rs, b) \in Nat
  <1>1. \A x \in P : EndOf(D, A, x) \in Nat /\ GainOf(A, rs, x) \in Nat
    <2> SUFFICES ASSUME NEW x \in P PROVE EndOf(D, A, x) \in Nat /\ GainOf(A, rs, x) \in Nat
      OBVIOUS
    <2>1. Len(D) \in Nat
      BY DEF Deaths
    <2>2. CASE x \in A
      BY <2>1, <2>2, WinnersGet DEF EndOf, GainOf, Gains
    <2>3. CASE x \notin A
      <3>1. EndOf(D, A, x) \in 2..Len(D) /\ GainOf(A, rs, x) = Cardinality(OutBefore(D, EndOf(D, A, x)))
        BY <2>3, DiedIn
      <3>2. EndOf(D, A, x) \in 1..(Len(D) + 1)
        BY <2>1, <3>1
      <3> QED
        BY <3>1, <3>2, OutIsFinite
    <2> QED
      BY <2>2, <2>3
  <1>2. EndOf(D, A, a) < EndOf(D, A, b) => GainOf(A, rs, a) < GainOf(A, rs, b)
    BY LaterGetsMore
  <1>3. EndOf(D, A, b) < EndOf(D, A, a) => GainOf(A, rs, b) < GainOf(A, rs, a)
    BY LaterGetsMore
  <1>4. EndOf(D, A, a) = EndOf(D, A, b) => GainOf(A, rs, a) = GainOf(A, rs, b)
    BY SameGetsSame
  <1>5. /\ EndOf(D, A, a) \in Nat /\ EndOf(D, A, b) \in Nat
        /\ GainOf(A, rs, a) \in Nat /\ GainOf(A, rs, b) \in Nat
    BY <1>1
  <1> QED
    BY <1>2, <1>3, <1>4, <1>5

(***************************************************************************)
(* Frames and departures book what they should.                            *)
(***************************************************************************)
LEMMA BeforeAppended ==
    ASSUME NEW D \in Seq(SUBSET Avatars), NEW dead, NEW i \in 1..(Len(D) + 1)
    PROVE  OutBefore(Append(D, dead), i) = OutBefore(D, i)
  <1>1. \A j \in 1..(i - 1) : Append(D, dead)[j] = D[j]
    OBVIOUS
  <1> QED
    BY <1>1 DEF OutBefore

LEMMA FrameGains ==
    ASSUME GameInv, GainInv, inRound, NEW dead \in SUBSET alive, NEW caught, Frame(dead, caught),
           dead # {}
    PROVE  \E rs \in [Avatars -> Nat] :
              CheckRoundEnd(rs) /\ Gains(deaths', alive', present', rs) /\ Deaths(deaths', alive')
  <1> DEFINE rs == [a \in Avatars |-> roundScore[a] + (IF a \in dead THEN DeathScore(dead) ELSE 0)]
             n == Len(deaths)
  <1>1. /\ started /\ alive' = alive \ dead /\ present' = present
        /\ deaths' = Append(deaths, dead) /\ CheckRoundEnd(rs)
    BY DEF Frame
  <1>2. /\ deaths \in Seq(SUBSET Avatars) /\ deaths # <<>> /\ n \in Nat /\ n >= 1
        /\ DOMAIN deaths = 1..n /\ alive \subseteq present /\ present \subseteq Avatars
        /\ roundScore \in [Avatars -> Nat]
        /\ \A i, j \in 1..n : i # j => deaths[i] \intersect deaths[j] = {}
        /\ \A i \in 1..n : alive \intersect deaths[i] = {}
    <2>1. /\ deaths \in Seq(SUBSET Avatars) /\ deaths # <<>>
          /\ alive \subseteq present /\ present \subseteq Avatars
          /\ roundScore \in [Avatars -> Nat]
      BY DEF GameInv, TypeOK, RoundInv
    <2>2. n \in Nat /\ n >= 1 /\ DOMAIN deaths = 1..n
      BY <2>1
    <2>3. /\ \A i, j \in DOMAIN deaths : i # j => deaths[i] \intersect deaths[j] = {}
          /\ \A i \in DOMAIN deaths : alive \intersect deaths[i] = {}
      BY DEF GameInv, TypeOK, RoundInv
    <2> HIDE DEF n
    <2> QED
      BY <2>1, <2>2, <2>3
  <1>3. Gains(deaths, alive, present, roundScore)
    BY <1>1 DEF GainInv
  <1>4. /\ deaths' \in Seq(SUBSET Avatars) /\ Len(deaths') = n + 1 /\ DOMAIN deaths' = 1..(n + 1)
        /\ \A i \in 1..n : deaths'[i] = deaths[i]
        /\ deaths'[n + 1] = dead
        /\ 1..(n + 1) = 1..n \union {n + 1} /\ 2..(n + 1) = 2..n \union {n + 1}
        /\ 2..n \subseteq 1..n
    BY <1>1, <1>2
  <1>5. Out = OutBefore(deaths, n + 1)
    <2>1. 1..(n + 1 - 1) = 1..n
      BY <1>2
    <2> QED
      BY <1>2, <2>1 DEF Out, OutBefore
  <1>6. Out \subseteq Avatars /\ Cardinality(Out) \in Nat
    <2>1. \A i \in DOMAIN deaths : deaths[i] \subseteq Avatars
      BY <1>2
    <2>2. Out \subseteq Avatars
      BY <2>1 DEF Out
    <2> QED
      BY <2>2, Sizes
  <1>7. /\ rs \in [Avatars -> Nat]
        /\ \A a \in Avatars : a \notin dead => rs[a] = roundScore[a]
        /\ \A a \in dead : rs[a] = Cardinality(Out)
    <2>1. \A a \in dead : a \in Avatars /\ roundScore[a] = 0
      BY <1>2, <1>3 DEF Gains
    <2> QED
      BY <1>2, <1>6, <2>1 DEF DeathScore
  <1> HIDE DEF rs, n
  <1>8. \A i \in 1..(n + 1) : OutBefore(deaths', i) = OutBefore(deaths, i)
    BY <1>1, <1>2, BeforeAppended DEF n
  <1>9. Deaths(deaths', alive')
    <2>1. alive' \in SUBSET Avatars
      BY <1>1, <1>2
    <2>2. \A i \in 1..(n + 1) : alive' \intersect deaths'[i] = {}
      BY <1>1, <1>2, <1>4
    <2>3. \A i, j \in 1..(n + 1) : i # j => deaths'[i] \intersect deaths'[j] = {}
      BY <1>2, <1>4
    <2> QED
      BY <1>4, <2>1, <2>2, <2>3 DEF Deaths
  <1>10. Gains(deaths', alive', present', rs)
    <2>1. \A i \in 2..(n + 1) : deaths'[i] # {}
      BY <1>3, <1>4 DEF Gains, n
    <2>2. \A a \in present : a \in alive \ dead \/ \E i \in 2..(n + 1) : a \in deaths'[i]
      <3> SUFFICES ASSUME NEW a \in present, a \notin alive \ dead
                   PROVE  \E i \in 2..(n + 1) : a \in deaths'[i]
        OBVIOUS
      <3>1. CASE a \in dead
        BY <1>4, <3>1
      <3>2. CASE a \notin dead
        <4>1. PICK i \in 2..n : a \in deaths[i]
          BY <1>3, <3>2 DEF Gains, n
        <4> QED
          BY <1>4, <4>1
      <3> QED
        BY <3>1, <3>2
    <2>3. \A a \in alive \ dead : rs[a] = 0
      BY <1>2, <1>3, <1>7 DEF Gains
    <2>4. ASSUME NEW i \in 2..(n + 1), NEW a \in deaths'[i] \intersect present
          PROVE  rs[a] = Cardinality(OutBefore(deaths', i))
      <3>1. CASE i = n + 1
        BY <1>4, <1>5, <1>7, <1>8, <3>1
      <3>2. CASE i \in 2..n
        <4>1. a \in deaths[i] /\ a \notin dead /\ a \in Avatars
          BY <1>2, <1>4, <2>4, <3>2
        <4>2. rs[a] = Cardinality(OutBefore(deaths, i))
          BY <1>3, <1>7, <3>2, <4>1 DEF Gains, n
        <4> QED
          BY <1>4, <1>8, <3>2, <4>2
      <3> QED
        BY <1>4, <3>1, <3>2
    <2> QED
      BY <1>1, <1>4, <2>1, <2>2, <2>3, <2>4 DEF Gains
  <1> QED
    BY <1>1, <1>7, <1>9, <1>10

LEMMA RemoveGains ==
    ASSUME GameInv, GainInv, inRound, NEW a \in Avatars, Remove(a)
    PROVE  \E rs \in [Avatars -> Nat] :
              CheckRoundEnd(rs) /\ Gains(deaths', alive', present', rs) /\ Deaths(deaths', alive')
  <1> DEFINE rs == [roundScore EXCEPT ![a] = 0]
  <1>1. /\ started /\ alive' = alive \ {a} /\ present' = present \ {a}
        /\ UNCHANGED deaths /\ CheckRoundEnd(rs)
    BY DEF Remove
  <1>2. /\ roundScore \in [Avatars -> Nat] /\ present \subseteq Avatars /\ alive \subseteq Avatars
        /\ Deaths(deaths, alive)
    BY DEF GameInv, TypeOK, RoundInv, Deaths
  <1>3. Gains(deaths, alive, present, roundScore)
    BY <1>1 DEF GainInv
  <1>4. rs \in [Avatars -> Nat] /\ \A b \in Avatars : b # a => rs[b] = roundScore[b]
    BY <1>2
  <1> HIDE DEF rs
  <1>5. Gains(deaths', alive', present', rs)
    BY <1>1, <1>2, <1>3, <1>4 DEF Gains
  <1>6. Deaths(deaths', alive')
    BY <1>1, <1>2 DEF Deaths
  <1> QED
    BY <1>1, <1>4, <1>5, <1>6

\* Steps of a round that books something.
Booked ==
    \E rs \in [Avatars -> Nat] :
       CheckRoundEnd(rs) /\ Gains(deaths', alive', present', rs) /\ Deaths(deaths', alive')

LEMMA RoundSteps ==
    ASSUME GameInv, GainInv, [Next]_vars, started, inRound
    PROVE  Booked \/ UNCHANGED <<deaths, alive, present, roundScore, inRound>>
  <1>1. CASE Fire
    <2>1. timer["stop"] = Off
      BY DEF GameInv, ClockInv
    <2>2. ~ StopGame \/ timer["stop"] # 0
      BY <2>1 DEF Off
    <2> QED
      BY <1>1, <2>2 DEF Fire, StartGame, StartPrinting, PopBonus, Expire, scoreVars, Off
  <1>2. CASE Tick
    BY <1>2 DEF Tick, scoreVars
  <1>3. ASSUME NEW dead \in SUBSET {a \in alive : Mortal(a)}, NEW caught \in Catches(dead),
               Frame(dead, caught)
        PROVE  Booked \/ UNCHANGED <<deaths, alive, present, roundScore, inRound>>
    <2>1. dead \in SUBSET alive
      OBVIOUS
    <2>2. CASE dead = {}
      BY <1>3, <2>2 DEF Frame, scoreVars
    <2>3. CASE dead # {}
      BY <1>3, <2>1, <2>3, FrameGains DEF Booked
    <2> QED
      BY <2>2, <2>3
  <1>4. ASSUME NEW a \in Avatars, Remove(a) PROVE Booked
    BY <1>4, RemoveGains DEF Booked
  <1>5. CASE UNCHANGED vars
    BY <1>5 DEF vars, scoreVars
  <1> QED
    BY <1>1, <1>2, <1>3, <1>4, <1>5 DEF Next

LEMMA GainsKept ==
    ASSUME GameInv, GainInv, [Next]_vars
    PROVE  GainInv'
  <1> SUFFICES ASSUME started', inRound' PROVE Gains(deaths', alive', present', roundScore')
    BY DEF GainInv
  <1>1. started /\ started \in BOOLEAN /\ inRound \in BOOLEAN /\ TypeOK
    <2>1. TypeOK /\ started \in BOOLEAN /\ inRound \in BOOLEAN
      BY Typed DEF GameInv
    <2>2. started' => started
      BY <2>1 DEF Next, Fire, StartGame, StartPrinting, PopBonus, Expire, StopGame, NewRound, EndGame,
                  Tick, Frame, Remove, vars
    <2> QED
      BY <2>1, <2>2
  <1>2. CASE inRound
    <2>1. CASE Booked
      <3>1. PICK rs \in [Avatars -> Nat] :
               CheckRoundEnd(rs) /\ Gains(deaths', alive', present', rs)
        BY <2>1 DEF Booked
      <3>2. roundScore' = rs
        BY <3>1 DEF CheckRoundEnd, EndRound
      <3> QED
        BY <3>1, <3>2
    <2>2. CASE UNCHANGED <<deaths, alive, present, roundScore, inRound>>
      BY <1>1, <1>2, <2>2 DEF GainInv
    <2> QED
      BY <1>1, <1>2, <2>1, <2>2, RoundSteps
  \* A new round.
  <1>3. CASE ~ inRound
    <2>1. /\ alive' = present /\ deaths' = <<Avatars \ present>> /\ present' = present
          /\ roundScore' = [a \in Avatars |-> IF a \in present THEN 0 ELSE roundScore[a]]
      <3>1. \A rs : CheckRoundEnd(rs) => ~ inRound'
        BY <1>3 DEF CheckRoundEnd
      <3>2. CASE Fire
        BY <1>1, <1>3, <3>2 DEF Fire, StartGame, StartPrinting, PopBonus, Expire, StopGame, NewRound,
                                EndGame
      <3>3. ~ Tick
        BY <1>3 DEF Tick
      <3>4. ASSUME NEW dead, NEW caught, Frame(dead, caught) PROVE FALSE
        BY <1>3, <3>1, <3>4 DEF Frame
      <3>5. ASSUME NEW a, Remove(a) PROVE FALSE
        BY <3>1, <3>5 DEF Remove
      <3>6. ~ UNCHANGED vars
        BY <1>3 DEF vars
      <3> QED
        BY <3>2, <3>3, <3>4, <3>5, <3>6 DEF Next
    <2>2. present \subseteq Avatars
      BY <1>1 DEF TypeOK
    <2>3. 2..Len(deaths') = {}
      BY <2>1
    <2>4. \A a \in alive' : roundScore'[a] = 0
      BY <2>1, <2>2
    <2> QED
      BY <2>1, <2>3, <2>4 DEF Gains
  <1> QED
    BY <1>1, <1>2, <1>3

LEMMA GainsStart == Init => GainInv
  <1> SUFFICES ASSUME Init PROVE Gains(deaths, alive, present, roundScore)
    BY DEF GainInv
  <1>1. /\ alive = present /\ deaths = <<Avatars \ present>> /\ roundScore = Zero
        /\ present \subseteq Avatars
    BY GameAssumption DEF Init
  <1>2. 2..Len(deaths) = {}
    BY <1>1
  <1> QED
    BY <1>1, <1>2 DEF Gains, Zero

\* What a step that ends a round gives.
LongerIsMore ==
    inRound /\ ~ inRound' =>
         LET gain(a) == score'[a] - score[a]
             end(a) == IF a \in alive' THEN Len(deaths') + 1
                       ELSE CHOOSE i \in DOMAIN deaths' : a \in deaths'[i]
         IN  \A a, b \in present' \ deaths'[1] : end(a) < end(b) <=> gain(a) < gain(b)

LEMMA EndsAreFair == ASSUME GameInv, GainInv, [Next]_vars PROVE [LongerIsMore]_vars
  <1> SUFFICES ASSUME inRound, ~ inRound', NEW a \in present', NEW b \in present'
               PROVE  EndOf(deaths', alive', a) < EndOf(deaths', alive', b)
                         <=> score'[a] - score[a] < score'[b] - score[b]
    BY DEF LongerIsMore, EndOf
  <1>1. started /\ TypeOK
    <2>1. TypeOK /\ started \in BOOLEAN
      BY Typed DEF GameInv
    <2>2. CASE Fire
      BY <2>2 DEF Fire, StartGame, StartPrinting, PopBonus, Expire, StopGame, NewRound, EndGame
    <2>3. CASE Tick
      BY <2>3 DEF Tick
    <2>4. CASE UNCHANGED vars
      BY <2>4 DEF vars
    <2> QED
      BY <2>1, <2>2, <2>3, <2>4 DEF Next, Frame, Remove
  <1>2. Booked
    BY <1>1, RoundSteps
  <1>3. PICK rs \in [Avatars -> Nat] :
           CheckRoundEnd(rs) /\ Gains(deaths', alive', present', rs) /\ Deaths(deaths', alive')
    BY <1>2 DEF Booked
  <1>4. \A x \in Avatars : score'[x] = score[x] + rs[x] + (IF x \in Winners THEN WinnerScore ELSE 0)
    BY <1>3 DEF CheckRoundEnd, EndRound
  <1>5. present' \subseteq Avatars /\ score' \in [Avatars -> Nat] /\ score \in [Avatars -> Nat]
    BY <1>1, NextKeeps DEF GameInv, TypeOK
  <1>6. CASE a = b
    <2>1. score'[a] - score[a] \in Int
      BY <1>5
    <2>2. ~ EndOf(deaths', alive', a) < EndOf(deaths', alive', a)
      BY <1>3, <1>5, GainsFollowEnds
    <2> QED
      BY <1>6, <2>1, <2>2
  <1>7. CASE a # b
    <2>1. Cardinality(Avatars) # 1
      BY <1>5, <1>7, GameAssumption, FS_Singleton
    <2>2. Winners = alive'
      BY <2>1 DEF Winners
    <2>3. \A x \in present' : score'[x] - score[x] = GainOf(alive', rs, x)
      <3> SUFFICES ASSUME NEW x \in present' PROVE score'[x] - score[x] = GainOf(alive', rs, x)
        OBVIOUS
      <3> DEFINE w == IF x \in alive' THEN WinnerScore ELSE 0
      <3>1. x \in Avatars /\ score[x] \in Nat /\ rs[x] \in Nat /\ w \in Nat
        BY <1>5, WinnersGet
      <3>2. score'[x] = score[x] + rs[x] + w /\ GainOf(alive', rs, x) = rs[x] + w
        BY <1>4, <2>2, <3>1 DEF GainOf
      <3> HIDE DEF w
      <3> QED
        BY <3>1, <3>2
    <2> QED
      BY <1>3, <1>5, <2>3, GainsFollowEnds
  <1> QED
    BY <1>6, <1>7

\* Who lives longer scores more, who dies in the same frame the same, and who is left
\* the most: in every round, for any number of players and however many leave.
THEOREM LongerLivesPay == Spec => LongerLivesScoreMore
  <1>1. Init => GameInv /\ GainInv
    BY InitHolds, GainsStart
  <1>2. (GameInv /\ GainInv) /\ [Next]_vars => (GameInv /\ GainInv)'
    BY NextKeeps, GainsKept
  <1>3. (GameInv /\ GainInv) /\ [Next]_vars => [LongerIsMore]_vars
    BY EndsAreFair
  <1> QED
    BY <1>1, <1>2, <1>3, PTL DEF Spec, LongerLivesScoreMore, LongerIsMore
=============================================================================
