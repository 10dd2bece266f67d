---------------------- MODULE TrainingCandidatesProofs -----------------------
(***************************************************************************)
(* Proofs about the way from ratings to trainers: pointers resolve,        *)
(* whichever calls overlap or die, and trainers move forward unless two    *)
(* refreshes race for the pointers.                                        *)
(***************************************************************************)
EXTENDS TrainingCandidates, FiniteSetTheorems, WellFoundedInduction, TLAPS

(***************************************************************************)
(* Types.                                                                  *)
(***************************************************************************)
Ids   == [kind : {"seed", "auto", "manual", "publish"}, rating : Nat, gen : Nat]
Snaps == [id : Ids, rating : 0..MaxRating, gen : Nat, by : 0..(MaxTicks + MaxByHand)]
Files == [pointer : Pointers, id : Ids, rating : Nat, gen : Nat]
Calling == [kind : {"none", "tick", "manual", "publish", "repair"}, by : 0..(MaxTicks + MaxByHand),
            id : Ids, gen : Nat, snap : Snaps,
            previous : [Pointers -> Files] \cup {<<>>}, seen : [Pointers -> Files] \cup {<<>>}]
Steps == {"idle", "load", "prepare", "board", "assign", "point", "put", "publish", "repair"}

CountTypes ==
    /\ rating \in 0..MaxRating /\ faults \in 0..MaxFaults
    /\ ticks \in 0..MaxTicks /\ byHand \in 0..MaxByHand

FileTypes ==
    /\ board \subseteq Snaps /\ boardLatest \in Snaps /\ live \in Snaps
    /\ assignments \subseteq Files
    /\ pointers \in [Pointers -> [names : Files, gen : Nat, source : Snaps]]

TrainerTypes ==
    /\ applied \in [Pointers -> Files] /\ \A p \in Pointers : applied[p].pointer = p
    /\ up \in [Pointers -> BOOLEAN] /\ raced \in BOOLEAN

CallTypes == pc \in [Calls -> Steps] /\ call \in [Calls -> Calling]

Types == CountTypes /\ FileTypes /\ TrainerTypes /\ CallTypes

(***************************************************************************)
(* Who runs: one tick at a time, and each call at steps of its own.        *)
(***************************************************************************)
IsTick(c)    == call[c].kind = "tick"
Refreshes(c) == call[c].kind \in {"tick", "manual"}

StepsOf(c) == /\ pc[c] = "load" => IsTick(c)
              /\ pc[c] \in {"prepare", "board", "assign", "point"} => Refreshes(c)

CallInv ==
    /\ \A c, d \in Calls : IsTick(c) /\ IsTick(d) => c = d
    /\ \A c \in Calls : StepsOf(c)

(***************************************************************************)
(* The content of a file.  A refresh by hand draws what its id says.  A    *)
(* tick's id is of the ratings it loaded, and what it draws is of those it *)
(* found later: it must not use an id again that a pointer names.          *)
(***************************************************************************)
FileOf(f) ==
    /\ f.id.kind = "auto" => f.id.gen = f.gen
    /\ f.id.kind = "manual" => f.rating = f.id.rating /\ f.gen = f.id.rating /\ f.id.gen = f.gen

PointerInv ==
    \A p \in Pointers : LET f == pointers[p].names
                        IN  /\ f \in assignments /\ f.pointer = p /\ f.gen = pointers[p].gen
                            /\ FileOf(f)

Drawing(c) == pc[c] \in {"board", "assign", "point"}

DrawOf(c) ==
    Drawing(c) => /\ call[c].snap.gen = call[c].gen
                  /\ IsTick(c) => call[c].snap.id = call[c].id
                  /\ ~ IsTick(c) => /\ call[c].snap.id = [kind |-> "manual", rating |-> call[c].gen,
                                                          gen |-> call[c].gen]
                                    /\ call[c].snap.rating = call[c].gen
                  /\ call[c].previous \in [Pointers -> Files]
                  /\ \A p \in Pointers : call[c].previous[p].gen < call[c].gen

NewIdOf(c) ==
    (pc[c] = "prepare" \/ Drawing(c)) /\ IsTick(c) =>
       /\ call[c].id.kind = "auto" /\ call[c].id.gen = call[c].gen
       /\ \A p \in Pointers : pointers[p].names.id # call[c].id

WrittenOf(c) == pc[c] = "point" => /\ \A p \in Pointers : NewAssignment(c, p) \in assignments
                                   /\ call[c].seen \in [Pointers -> Files]

DrawInv == \A c \in Calls : DrawOf(c) /\ NewIdOf(c) /\ WrittenOf(c)

(***************************************************************************)
(* Generations: a tick adds one, a refresh by hand takes the round's.      *)
(***************************************************************************)
GenerationOf(c) ==
    /\ pc[c] = "load" => \A p \in Pointers : pointers[p].gen <= ticks - 1 + rating
    /\ IsTick(c) => call[c].gen <= ticks + rating /\ ticks > 0
    /\ Drawing(c) /\ ~ IsTick(c) => call[c].gen <= rating

GenerationInv ==
    /\ \A p \in Pointers : pointers[p].gen <= ticks + rating
    /\ \A c \in Calls : GenerationOf(c)
    /\ ~ raced => \A p \in Pointers : applied[p].gen <= pointers[p].gen

CandidatesInv == Types /\ CallInv /\ PointerInv /\ DrawInv /\ GenerationInv

(***************************************************************************)
(* The largest of a set of natural numbers.                                *)
(***************************************************************************)
\* A set of natural numbers has a least element.
LEMMA Least == ASSUME NEW T \in SUBSET Nat, T # {} PROVE \E x \in T : \A y \in T : x <= y
<1> DEFINE Upto == {0..x : x \in T}
<1>1. \A x \in T : 0..x \in FiniteSubsetsOf(Nat)
  BY FS_Interval DEF FiniteSubsetsOf
<1>2. Upto \subseteq FiniteSubsetsOf(Nat) /\ Upto # {} BY <1>1
<1>3. PICK I \in Upto : \A J \in Upto : ~ (<<J, I>> \in StrictSubsetOrdering(Nat))
  <2> HIDE DEF Upto
  <2> QED BY <1>2, WFMin, FS_StrictSubsetOrderingWellFounded
<1>4. PICK x \in T : I = 0..x OBVIOUS
<1>5. ASSUME NEW y \in T, y < x PROVE FALSE
  <2>1. 0..y \subseteq I /\ 0..y # I BY <1>4, <1>5
  <2>2. <<0..y, I>> \in StrictSubsetOrdering(Nat)
    BY <2>1, <1>4 DEF StrictSubsetOrdering
  <2> QED BY <1>3, <2>2
<1> QED BY <1>5

\* Max is the greatest element of a set of natural numbers that has a bound.
LEMMA Greatest ==
    ASSUME NEW S \in SUBSET Nat, S # {}, NEW k \in Nat, \A x \in S : x <= k
    PROVE  Max(S) \in S /\ \A x \in S : x <= Max(S)
<1> DEFINE T == {u \in Nat : \A x \in S : x <= u}
<1>1. PICK u \in T : \A y \in T : u <= y
  <2>1. k \in T OBVIOUS
  <2> QED BY <2>1, Least
<1>2. u \in S
  <2>1. SUFFICES ASSUME u \notin S PROVE FALSE OBVIOUS
  <2>2. PICK x \in S : TRUE OBVIOUS
  <2>3. u - 1 \in T BY <2>1, <2>2
  <2> QED BY <1>1, <2>3
<1>3. \E x \in S : \A y \in S : x >= y BY <1>1, <1>2
<1> QED BY <1>3 DEF Max

\* The generation a tick picks follows that of every pointer.
LEMMA NextGeneration ==
    ASSUME Types, NEW k \in Nat, \A p \in Pointers : pointers[p].gen <= k
    PROVE  LET gen == Max({pointers[p].gen : p \in Pointers}) + 1
           IN  gen \in Nat /\ gen <= k + 1 /\ \A p \in Pointers : pointers[p].gen < gen
<1> DEFINE S == {pointers[p].gen : p \in Pointers}
           top == Max(S)
<1>1. \A p \in Pointers : pointers[p].gen \in Nat BY DEF Types, FileTypes
<1>2. S \in SUBSET Nat /\ S # {} BY <1>1, CandidatesAssumption
<1>3. \A x \in S : x <= k OBVIOUS
<1>4. top \in S /\ \A x \in S : x <= top
  <2> HIDE DEF S
  <2> QED BY <1>2, <1>3, Greatest
<1>5. top \in Nat /\ top <= k
  <2> HIDE DEF S, top
  <2> QED BY <1>2, <1>3, <1>4
<1>6. \A p \in Pointers : pointers[p].gen <= top
  <2> HIDE DEF top
  <2> QED BY <1>4
<1> HIDE DEF top
<1>7. top + 1 \in Nat /\ top + 1 <= k + 1 /\ \A p \in Pointers : pointers[p].gen < top + 1
  BY <1>1, <1>5, <1>6
<1> QED BY <1>7 DEF top

(***************************************************************************)
(* Frames.                                                                 *)
(***************************************************************************)
\* A call that is where it was, with the pointers as they were and its files still
\* there, has kept what it had.
LEMMA StaysAsItWas ==
    ASSUME NEW c \in Calls, pc'[c] = pc[c], call'[c] = call[c],
           UNCHANGED pointers, assignments \subseteq assignments',
           DrawOf(c), NewIdOf(c), WrittenOf(c)
    PROVE  DrawOf(c)' /\ NewIdOf(c)' /\ WrittenOf(c)'
<1>1. DrawOf(c)' BY DEF DrawOf, Drawing, IsTick
<1>2. NewIdOf(c)' BY DEF NewIdOf, Drawing, IsTick
<1>3. WrittenOf(c)' BY DEF WrittenOf, NewAssignment, Assignment
<1> QED BY <1>1, <1>2, <1>3

LEMMA StaysInGeneration ==
    ASSUME NEW c \in Calls, pc'[c] = pc[c], call'[c] = call[c],
           UNCHANGED <<pointers, ticks, rating>>, GenerationOf(c)
    PROVE  GenerationOf(c)'
BY DEF GenerationOf, Drawing, IsTick

\* What a call does to itself says nothing about the pointers.
LEMMA PointersStay ==
    ASSUME PointerInv, UNCHANGED pointers, assignments \subseteq assignments'
    PROVE  PointerInv'
BY DEF PointerInv, FileOf

\* A step of one call that moves no pointer and drops no file.
LEMMA StepOfOne ==
    ASSUME CallInv, PointerInv, DrawInv, GenerationInv, NEW c \in Calls,
           \A d \in Calls \ {c} : pc'[d] = pc[d] /\ call'[d] = call[d],
           UNCHANGED <<pointers, ticks, rating, applied, raced>>,
           assignments \subseteq assignments',
           IsTick(c)' => IsTick(c), StepsOf(c)',
           DrawOf(c)' /\ NewIdOf(c)' /\ WrittenOf(c)' /\ GenerationOf(c)'
    PROVE  CallInv' /\ PointerInv' /\ DrawInv' /\ GenerationInv'
<1>1. CallInv'
  <2>1. \A d \in Calls : IsTick(d)' => IsTick(d) BY DEF IsTick
  <2>2. \A d \in Calls : StepsOf(d)'
    <3> SUFFICES ASSUME NEW d \in Calls PROVE StepsOf(d)' OBVIOUS
    <3>1. CASE d = c BY <3>1
    <3>2. CASE d # c BY <3>2 DEF CallInv, StepsOf, IsTick, Refreshes
    <3> QED BY <3>1, <3>2
  <2> QED BY <2>1, <2>2 DEF CallInv
<1>2. PointerInv' BY PointersStay
<1>3. DrawInv'
  <2> SUFFICES ASSUME NEW d \in Calls PROVE DrawOf(d)' /\ NewIdOf(d)' /\ WrittenOf(d)'
    BY DEF DrawInv
  <2>1. CASE d = c BY <2>1
  <2>2. CASE d # c BY <2>2, StaysAsItWas DEF DrawInv
  <2> QED BY <2>1, <2>2
<1>4. GenerationInv'
  <2>1. ASSUME NEW d \in Calls PROVE GenerationOf(d)'
    <3>1. CASE d = c BY <3>1
    <3>2. CASE d # c BY <3>2, StaysInGeneration DEF GenerationInv
    <3> QED BY <3>1, <3>2
  <2> QED BY <2>1 DEF GenerationInv
<1> QED BY <1>1, <1>2, <1>3, <1>4

\* What End and Goto do to their call and to the others.
LEMMA EndsIdle ==
    ASSUME CallTypes, NEW c \in Calls, End(c)
    PROVE  /\ pc'[c] = "idle" /\ call'[c] = NoCall
           /\ \A d \in Calls \ {c} : pc'[d] = pc[d] /\ call'[d] = call[d]
BY DEF CallTypes, End, Goto

LEMMA NoCallTypes == NoCall \in Calling /\ NoSnap \in Snaps /\ NoId \in Ids
<1>1. NoId \in Ids BY DEF NoId, Ids
<1>2. NoSnap \in Snaps BY <1>1, CandidatesAssumption DEF NoSnap, Snaps
<1> QED BY <1>1, <1>2, CandidatesAssumption DEF NoCall, Calling

LEMMA EndTypes == ASSUME CallTypes, NEW c \in Calls, End(c) PROVE CallTypes'
BY NoCallTypes DEF CallTypes, End, Goto, Steps

LEMMA NotTick == ASSUME NEW c \in Calls, call[c] = NoCall PROVE ~ IsTick(c)
BY DEF IsTick, NoCall

\* A call that ends, at any step.
LEMMA EndKeeps ==
    ASSUME Types, CallInv, PointerInv, DrawInv, GenerationInv, NEW c \in Calls, End(c),
           UNCHANGED <<pointers, assignments, ticks, rating, applied, raced>>
    PROVE  CallInv' /\ PointerInv' /\ DrawInv' /\ GenerationInv'
<1>1. /\ pc'[c] = "idle" /\ call'[c] = NoCall
      /\ \A d \in Calls \ {c} : pc'[d] = pc[d] /\ call'[d] = call[d]
  BY EndsIdle DEF Types
<1>2. ~ IsTick(c)' BY <1>1 DEF IsTick, NoCall
<1>3. StepsOf(c)' BY <1>1 DEF StepsOf
<1>4. DrawOf(c)' /\ NewIdOf(c)' /\ WrittenOf(c)' BY <1>1 DEF DrawOf, NewIdOf, WrittenOf, Drawing
<1>5. GenerationOf(c)' BY <1>1, <1>2 DEF GenerationOf, Drawing
<1> QED BY <1>1, <1>2, <1>3, <1>4, <1>5, StepOfOne

(***************************************************************************)
(* Ratings and the start of calls.                                         *)
(***************************************************************************)
LEMMA InitHolds == Init => CandidatesInv
<1> SUFFICES ASSUME Init PROVE CandidatesInv OBVIOUS
<1>1. \A p \in Pointers : Seed(p) \in Files /\ Seed(p).pointer = p /\ Seed(p).gen = 0
                          /\ Seed(p).id = NoId
  BY NoCallTypes DEF Seed, Assignment, Files, Ids
<1>2. CountTypes BY CandidatesAssumption DEF Init, CountTypes
<1>3. FileTypes
  <2>1. pointers \in [Pointers -> [names : Files, gen : Nat, source : Snaps]]
    BY <1>1, NoCallTypes DEF Init
  <2> QED BY <1>1, <2>1, NoCallTypes DEF Init, FileTypes
<1>4. TrainerTypes BY <1>1 DEF Init, TrainerTypes
<1>5. CallTypes BY NoCallTypes DEF Init, CallTypes, Steps
<1>6. CallInv BY NotTick DEF Init, CallInv, StepsOf
<1>7. PointerInv BY <1>1 DEF Init, PointerInv, FileOf, NoId
<1>8. DrawInv BY DEF Init, DrawInv, DrawOf, NewIdOf, WrittenOf, Drawing
<1>9. GenerationInv
  <2>1. \A c \in Calls : GenerationOf(c) BY NotTick DEF Init, GenerationOf, Drawing
  <2> QED BY <1>1, <2>1 DEF Init, GenerationInv
<1> QED BY <1>2, <1>3, <1>4, <1>5, <1>6, <1>7, <1>8, <1>9 DEF CandidatesInv, Types

LEMMA RateKeeps == ASSUME CandidatesInv, Rate PROVE CandidatesInv'
<1> USE DEF CandidatesInv, Types
<1>1. Types'
  <2>1. CountTypes' BY CandidatesAssumption DEF Rate, CountTypes, callVars, countVars
  <2>2. FileTypes' /\ TrainerTypes' /\ CallTypes'
    BY DEF Rate, FileTypes, TrainerTypes, CallTypes, fileVars, callVars, trainerVars
  <2> QED BY <2>1, <2>2
<1>2. UNCHANGED <<pointers, assignments, pc, call, ticks, applied, raced>>
  BY DEF Rate, fileVars, callVars, countVars, trainerVars
<1>3. CallInv' BY <1>2 DEF CallInv, StepsOf, IsTick, Refreshes
<1>4. PointerInv' BY <1>2, PointersStay
<1>5. DrawInv' BY <1>2, StaysAsItWas DEF DrawInv
<1>6. GenerationInv'
  <2>1. rating' = rating + 1 /\ rating \in Nat /\ ticks \in Nat
    BY CandidatesAssumption DEF Rate, CountTypes
  <2>2. \A p \in Pointers : pointers[p].gen \in Nat BY DEF FileTypes
  <2>3. \A c \in Calls : call[c].gen \in Nat BY DEF CallTypes, Calling
  <2>4. \A c \in Calls : GenerationOf(c)'
    BY <1>2, <2>1, <2>2, <2>3 DEF GenerationInv, GenerationOf, Drawing, IsTick
  <2> QED BY <1>2, <2>1, <2>2, <2>4 DEF GenerationInv
<1> QED BY <1>1, <1>3, <1>4, <1>5, <1>6

\* What StartCall says of the call it starts.
LEMMA Started ==
    ASSUME CandidatesInv, NEW c \in Calls, NEW kind \in {"tick", "manual", "publish", "repair"},
           NEW step \in Steps \ {"idle"}, StartCall(c, kind, step),
           ticks' \in 0..MaxTicks, byHand' \in 0..MaxByHand,
           ticks + byHand < MaxTicks + MaxByHand
    PROVE  /\ Types'
           /\ pc'[c] = step /\ call'[c].kind = kind /\ call'[c].gen = 0
           /\ \A d \in Calls \ {c} : pc'[d] = pc[d] /\ call'[d] = call[d]
           /\ UNCHANGED <<rating, assignments, pointers, applied, raced>>
<1> DEFINE new == [NoCall EXCEPT !.kind = kind, !.by = ticks + byHand + 1]
<1>1. ticks + byHand + 1 \in 0..(MaxTicks + MaxByHand)
  <2>1. MaxTicks \in Nat /\ MaxByHand \in Nat /\ ticks \in Nat /\ byHand \in Nat
    BY CandidatesAssumption DEF CandidatesInv, Types, CountTypes
  <2> QED BY <2>1
<1> USE DEF CandidatesInv, Types
<1>2. new \in Calling /\ new.kind = kind /\ new.gen = 0
  BY <1>1, NoCallTypes DEF Calling, NoCall
<1>3. /\ pc' = [pc EXCEPT ![c] = step] /\ call' = [call EXCEPT ![c] = new]
      /\ UNCHANGED <<rating, fileVars, trainerVars, raced, faults>>
  BY DEF StartCall, Goto
<1> HIDE DEF new
<1>4. CallTypes' BY <1>2, <1>3 DEF CallTypes
<1>5. CountTypes' /\ FileTypes' /\ TrainerTypes'
  BY <1>3 DEF CountTypes, FileTypes, TrainerTypes, fileVars, trainerVars
<1>6. /\ pc'[c] = step /\ call'[c] = new
      /\ \A d \in Calls \ {c} : pc'[d] = pc[d] /\ call'[d] = call[d]
  BY <1>3 DEF CallTypes
<1> QED BY <1>2, <1>3, <1>4, <1>5, <1>6 DEF fileVars, trainerVars

LEMMA StartTickKeeps == ASSUME CandidatesInv, NEW c \in Calls, StartTick(c) PROVE CandidatesInv'
<1>1. /\ Types' /\ ticks' = ticks + 1
      /\ pc'[c] = "load" /\ call'[c].kind = "tick" /\ call'[c].gen = 0
      /\ \A d \in Calls \ {c} : pc'[d] = pc[d] /\ call'[d] = call[d]
      /\ UNCHANGED <<rating, assignments, pointers, applied, raced>>
  <2>1. /\ ticks' = ticks + 1 /\ byHand' = byHand /\ StartCall(c, "tick", "load")
        /\ ticks \in 0..MaxTicks /\ ticks < MaxTicks /\ byHand \in 0..MaxByHand
    BY DEF StartTick, CandidatesInv, Types, CountTypes
  <2>2. /\ ticks' \in 0..MaxTicks /\ byHand' \in 0..MaxByHand
        /\ ticks + byHand < MaxTicks + MaxByHand
    BY <2>1, CandidatesAssumption
  <2>3. "load" \in Steps \ {"idle"} BY DEF Steps
  <2> QED BY <2>1, <2>2, <2>3, Started
<1>2. \A d \in Calls : ~ IsTick(d) BY DEF StartTick, IsTick
<1>3. CallInv'
  <2>1. \A d \in Calls : IsTick(d)' => d = c BY <1>1, <1>2 DEF IsTick
  <2>2. \A d \in Calls : StepsOf(d)'
    BY <1>1 DEF CandidatesInv, CallInv, StepsOf, IsTick, Refreshes
  <2> QED BY <2>1, <2>2 DEF CallInv
<1>4. PointerInv' BY <1>1, PointersStay DEF CandidatesInv
<1>5. DrawInv'
  <2> SUFFICES ASSUME NEW d \in Calls PROVE DrawOf(d)' /\ NewIdOf(d)' /\ WrittenOf(d)'
    BY DEF DrawInv
  <2>1. CASE d = c BY <1>1, <2>1 DEF DrawOf, NewIdOf, WrittenOf, Drawing
  <2>2. CASE d # c BY <1>1, <2>2, StaysAsItWas DEF CandidatesInv, DrawInv
  <2> QED BY <2>1, <2>2
<1>6. GenerationInv'
  <2>1. rating \in Nat /\ ticks \in Nat
    BY CandidatesAssumption DEF CandidatesInv, Types, CountTypes
  <2>2. \A p \in Pointers : pointers[p].gen \in Nat BY DEF CandidatesInv, Types, FileTypes
  <2>3. GenerationOf(c)' BY <1>1, <2>1, <2>2 DEF CandidatesInv, GenerationInv, GenerationOf, Drawing
  <2>4. \A d \in Calls \ {c} : GenerationOf(d)'
    <3> SUFFICES ASSUME NEW d \in Calls \ {c} PROVE GenerationOf(d)' OBVIOUS
    <3>1. ~ IsTick(d)' /\ pc'[d] # "load"
      BY <1>1, <1>2 DEF IsTick, CandidatesInv, CallInv, StepsOf
    <3>2. Drawing(d)' => call'[d].gen <= rating'
      BY <1>1, <1>2 DEF CandidatesInv, GenerationInv, GenerationOf, Drawing
    <3> QED BY <3>1, <3>2 DEF GenerationOf
  <2> QED BY <1>1, <2>1, <2>2, <2>3, <2>4 DEF CandidatesInv, GenerationInv
<1> QED BY <1>1, <1>3, <1>4, <1>5, <1>6 DEF CandidatesInv

LEMMA StartByHandKeeps ==
    ASSUME CandidatesInv, NEW c \in Calls,
           NEW kind \in {"manual", "publish", "repair"},
           NEW step \in {"prepare", "publish", "repair"},
           step = "prepare" => kind = "manual",
           StartByHand(c, kind, step)
    PROVE  CandidatesInv'
<1>1. /\ Types' /\ UNCHANGED ticks
      /\ pc'[c] = step /\ call'[c].kind = kind /\ call'[c].gen = 0
      /\ \A d \in Calls \ {c} : pc'[d] = pc[d] /\ call'[d] = call[d]
      /\ UNCHANGED <<rating, assignments, pointers, applied, raced>>
  <2>1. /\ ticks' = ticks /\ byHand' = byHand + 1 /\ StartCall(c, kind, step)
        /\ ticks \in 0..MaxTicks /\ byHand < MaxByHand /\ byHand \in 0..MaxByHand
    BY DEF StartByHand, CandidatesInv, Types, CountTypes
  <2>2. /\ ticks' \in 0..MaxTicks /\ byHand' \in 0..MaxByHand
        /\ ticks + byHand < MaxTicks + MaxByHand
    BY <2>1, CandidatesAssumption
  <2>3. step \in Steps \ {"idle"} BY DEF Steps
  <2> QED BY <2>1, <2>2, <2>3, Started
<1>2. ~ IsTick(c)' BY <1>1 DEF IsTick
<1>3. StepsOf(c)' BY <1>1 DEF StepsOf, Refreshes
<1>4. DrawOf(c)' /\ NewIdOf(c)' /\ WrittenOf(c)'
  BY <1>1, <1>2 DEF DrawOf, NewIdOf, WrittenOf, Drawing
<1>5. GenerationOf(c)' BY <1>1, <1>2 DEF GenerationOf, Drawing
<1>6. CallInv' /\ PointerInv' /\ DrawInv' /\ GenerationInv'
  BY <1>1, <1>2, <1>3, <1>4, <1>5, StepOfOne DEF CandidatesInv
<1> QED BY <1>1, <1>6 DEF CandidatesInv

(***************************************************************************)
(* The steps of calls.                                                     *)
(***************************************************************************)
\* A call that ends, writing nothing that matters here.
LEMMA EndingKeeps ==
    ASSUME CandidatesInv, NEW c \in Calls, End(c), CountTypes', FileTypes', TrainerTypes',
           UNCHANGED <<pointers, assignments, ticks, rating, applied, raced>>
    PROVE  CandidatesInv'
<1>1. CallTypes' BY EndTypes DEF CandidatesInv, Types
<1>2. CallInv' /\ PointerInv' /\ DrawInv' /\ GenerationInv' BY EndKeeps DEF CandidatesInv
<1> QED BY <1>1, <1>2 DEF CandidatesInv, Types

LEMMA LoadKeeps == ASSUME CandidatesInv, NEW c \in Calls, Load(c) PROVE CandidatesInv'
<1> DEFINE gen == Max({pointers[p].gen : p \in Pointers}) + 1
           new == [call[c] EXCEPT !.gen = gen, !.id =
                      [kind |-> "auto", rating |-> rating, gen |-> gen]]
<1>1. /\ pc[c] = "load" /\ IsTick(c)
      /\ UNCHANGED <<rating, fileVars, countVars, trainerVars, raced, faults>>
  BY DEF Load, CandidatesInv, CallInv, StepsOf
<1>2. CountTypes' /\ FileTypes' /\ TrainerTypes'
  BY <1>1 DEF CandidatesInv, Types, CountTypes, FileTypes, TrainerTypes, fileVars, countVars,
              trainerVars
<1>3. UNCHANGED <<pointers, assignments, ticks, rating, applied, raced>>
  BY <1>1 DEF fileVars, countVars, trainerVars
<1>4. CASE End(c) BY <1>2, <1>3, <1>4, EndingKeeps
<1>5. CASE Goto(c, "prepare") /\ call' = [call EXCEPT ![c] = new]
  <2>1. /\ ticks - 1 + rating \in Nat /\ ticks > 0 /\ ticks \in Nat /\ rating \in Nat
        /\ \A p \in Pointers : pointers[p].gen <= ticks - 1 + rating
    BY <1>1, CandidatesAssumption
    DEF CandidatesInv, GenerationInv, GenerationOf, Types, CountTypes
  <2>2. gen \in Nat /\ gen <= ticks - 1 + rating + 1 /\ \A p \in Pointers : pointers[p].gen < gen
    BY <2>1, NextGeneration DEF CandidatesInv
  <2> HIDE DEF gen
  <2>3. call[c] \in Calling /\ pc \in [Calls -> Steps] /\ call \in [Calls -> Calling]
    BY DEF CandidatesInv, Types, CallTypes
  <2>4. [kind |-> "auto", rating |-> rating, gen |-> gen] \in Ids
    BY <2>1, <2>2 DEF Ids
  <2>5. /\ new \in Calling /\ new.kind = call[c].kind /\ new.gen = gen
        /\ new.id.kind = "auto" /\ new.id.gen = gen
    BY <2>3, <2>4, <2>2 DEF Calling
  <2> HIDE DEF new
  <2>6. /\ pc'[c] = "prepare" /\ call'[c] = new
        /\ \A d \in Calls \ {c} : pc'[d] = pc[d] /\ call'[d] = call[d]
    BY <1>5, <2>3 DEF Goto
  <2>7. CallTypes'
    BY <1>5, <2>3, <2>5 DEF Goto, CallTypes, Steps
  <2>8. IsTick(c)' BY <1>1, <2>5, <2>6 DEF IsTick
  <2>9. StepsOf(c)' BY <2>6, <2>8 DEF StepsOf, IsTick, Refreshes
  <2>10. DrawOf(c)' /\ WrittenOf(c)' BY <2>6 DEF DrawOf, WrittenOf, Drawing
  <2>11. NewIdOf(c)'
    <3>1. \A p \in Pointers : pointers[p].names.id # new.id
      BY <2>2, <2>5 DEF CandidatesInv, PointerInv, FileOf, Types, FileTypes
    <3> QED BY <1>3, <2>5, <2>6, <3>1 DEF NewIdOf
  <2>12. GenerationOf(c)' BY <1>3, <2>1, <2>2, <2>5, <2>6, <2>8 DEF GenerationOf, Drawing
  <2>13. CallInv' /\ PointerInv' /\ DrawInv' /\ GenerationInv'
    BY <1>1, <1>3, <2>6, <2>9, <2>10, <2>11, <2>12, StepOfOne DEF CandidatesInv
  <2> QED BY <1>2, <2>7, <2>13 DEF CandidatesInv, Types
<1> QED BY <1>4, <1>5 DEF Load

LEMMA PrepareKeeps == ASSUME CandidatesInv, NEW c \in Calls, Prepare(c) PROVE CandidatesInv'
<1> DEFINE previous == [p \in Pointers |-> pointers[p].names]
           new == [call[c] EXCEPT !.snap = Built(c), !.gen = Generation(c), !.previous = previous]
<1>1. /\ pc[c] = "prepare" /\ Refreshes(c)
      /\ UNCHANGED <<rating, fileVars, countVars, trainerVars, raced, faults>>
  BY DEF Prepare, CandidatesInv, CallInv, StepsOf
<1>2. CountTypes' /\ FileTypes' /\ TrainerTypes'
  BY <1>1 DEF CandidatesInv, Types, CountTypes, FileTypes, TrainerTypes, fileVars, countVars,
              trainerVars
<1>3. UNCHANGED <<pointers, assignments, ticks, rating, applied, raced>>
  BY <1>1 DEF fileVars, countVars, trainerVars
<1>4. CASE End(c) BY <1>2, <1>3, <1>4, EndingKeeps
<1>5. CASE /\ \A p \in Pointers : pointers[p].gen < Generation(c)
           /\ Goto(c, "board") /\ call' = [call EXCEPT ![c] = new]
  <2>1. call[c] \in Calling /\ pc \in [Calls -> Steps] /\ call \in [Calls -> Calling]
    BY DEF CandidatesInv, Types, CallTypes
  <2>2. rating \in Nat /\ rating \in 0..MaxRating
    BY CandidatesAssumption DEF CandidatesInv, Types, CountTypes
  <2>3. Generation(c) \in Nat /\ SnapshotId(c) \in Ids
    BY <2>1, <2>2 DEF Generation, SnapshotId, Calling, Ids
  <2>4. Built(c) \in Snaps /\ Built(c).id = SnapshotId(c) /\ Built(c).gen = Generation(c)
        /\ Built(c).rating = rating
    BY <2>1, <2>2, <2>3 DEF Built, Snaps, Calling
  <2>5. previous \in [Pointers -> Files]
    BY DEF CandidatesInv, Types, FileTypes
  <2>6. /\ new \in Calling /\ new.kind = call[c].kind /\ new.id = call[c].id
        /\ new.snap = Built(c) /\ new.gen = Generation(c) /\ new.previous = previous
    <3> HIDE DEF previous
    <3> QED BY <2>1, <2>3, <2>4, <2>5 DEF Calling
  <2>7. \A p \in Pointers : previous[p].gen < Generation(c)
    BY <1>5 DEF CandidatesInv, PointerInv
  <2> HIDE DEF new, previous
  <2>8. /\ pc'[c] = "board" /\ call'[c] = new
        /\ \A d \in Calls \ {c} : pc'[d] = pc[d] /\ call'[d] = call[d]
    BY <1>5, <2>1 DEF Goto
  <2>9. CallTypes' BY <1>5, <2>1, <2>6 DEF Goto, CallTypes, Steps
  <2>10. IsTick(c)' <=> IsTick(c) BY <2>6, <2>8 DEF IsTick
  <2>11. StepsOf(c)' BY <1>1, <2>6, <2>8 DEF StepsOf, IsTick, Refreshes
  <2>12. IsTick(c) => /\ Generation(c) = call[c].gen /\ SnapshotId(c) = call[c].id
    BY DEF IsTick, Generation, SnapshotId
  <2>13. ~ IsTick(c) => /\ Generation(c) = rating
                        /\ SnapshotId(c) = [kind |-> "manual", rating |-> rating, gen |-> rating]
    BY DEF IsTick, Generation, SnapshotId
  <2>14. DrawOf(c)'
    BY <2>4, <2>5, <2>6, <2>7, <2>8, <2>10, <2>12, <2>13 DEF DrawOf
  <2>15. NewIdOf(c)'
    <3>1. IsTick(c) => /\ call[c].id.kind = "auto" /\ call[c].id.gen = call[c].gen
                       /\ \A p \in Pointers : pointers[p].names.id # call[c].id
      BY <1>1 DEF CandidatesInv, DrawInv, NewIdOf
    <3> QED BY <1>3, <2>6, <2>8, <2>10, <2>12, <3>1 DEF NewIdOf
  <2>16. WrittenOf(c)' BY <2>8 DEF WrittenOf
  <2>17. GenerationOf(c)'
    <3>1. IsTick(c) => call[c].gen <= ticks + rating /\ ticks > 0
      BY DEF CandidatesInv, GenerationInv, GenerationOf
    <3> QED BY <1>3, <2>2, <2>6, <2>8, <2>10, <2>12, <2>13, <3>1 DEF GenerationOf
  <2>18. CallInv' /\ PointerInv' /\ DrawInv' /\ GenerationInv'
    BY <1>3, <2>8, <2>10, <2>11, <2>14, <2>15, <2>16, <2>17, StepOfOne DEF CandidatesInv
  <2> QED BY <1>2, <2>9, <2>18 DEF CandidatesInv, Types
<1> QED BY <1>4, <1>5 DEF Prepare

LEMMA WriteBoardKeeps == ASSUME CandidatesInv, NEW c \in Calls, WriteBoard(c) PROVE CandidatesInv'
<1>1. /\ pc[c] = "board" /\ pc' = [pc EXCEPT ![c] = "assign"] /\ UNCHANGED call
      /\ board' = Write(board, call[c].snap) /\ boardLatest' = call[c].snap
      /\ UNCHANGED <<rating, assignments, pointers, live, ticks, byHand, applied, up, raced,
                     faults>>
  BY DEF WriteBoard, Goto, countVars, trainerVars
<1>2. call[c].snap \in Snaps /\ pc \in [Calls -> Steps]
  BY DEF CandidatesInv, Types, CallTypes, Calling
<1>3. FileTypes' BY <1>1, <1>2 DEF CandidatesInv, Types, FileTypes, Write
<1>4. Types'
  BY <1>1, <1>2, <1>3 DEF CandidatesInv, Types, CountTypes, TrainerTypes, CallTypes, Steps
<1>5. /\ pc'[c] = "assign" /\ call'[c] = call[c]
      /\ \A d \in Calls \ {c} : pc'[d] = pc[d] /\ call'[d] = call[d]
  BY <1>1, <1>2
<1>6. IsTick(c)' <=> IsTick(c) BY <1>5 DEF IsTick
<1>7. StepsOf(c)' BY <1>1, <1>5 DEF CandidatesInv, CallInv, StepsOf, Refreshes
<1>8. DrawOf(c)' BY <1>1, <1>5, <1>6 DEF CandidatesInv, DrawInv, DrawOf, Drawing
<1>9. NewIdOf(c)' BY <1>1, <1>5, <1>6 DEF CandidatesInv, DrawInv, NewIdOf, Drawing
<1>10. WrittenOf(c)' BY <1>5 DEF WrittenOf
<1>11. GenerationOf(c)'
  BY <1>1, <1>5, <1>6 DEF CandidatesInv, GenerationInv, GenerationOf, Drawing
<1>12. CallInv' /\ PointerInv' /\ DrawInv' /\ GenerationInv'
  BY <1>1, <1>5, <1>6, <1>7, <1>8, <1>9, <1>10, <1>11, StepOfOne DEF CandidatesInv
<1> QED BY <1>4, <1>12 DEF CandidatesInv

\* What calls draw from differs in its id, or is the same.
LEMMA DrawsDiffer ==
    ASSUME CandidatesInv, NEW c \in Calls, NEW d \in Calls, c # d, Drawing(c), Drawing(d),
           call[c].snap.id = call[d].snap.id
    PROVE  \A p \in Pointers : NewAssignment(c, p) = NewAssignment(d, p)
<1>1. DrawOf(c) /\ DrawOf(d) /\ NewIdOf(c) /\ NewIdOf(d) BY DEF CandidatesInv, DrawInv
<1>2. ~ (IsTick(c) /\ IsTick(d)) BY DEF CandidatesInv, CallInv
<1>3. ~ IsTick(c) /\ ~ IsTick(d) BY <1>1, <1>2 DEF DrawOf, NewIdOf
<1>4. call[c].gen = call[d].gen BY <1>1, <1>3 DEF DrawOf
<1> QED BY <1>1, <1>3, <1>4 DEF DrawOf, NewAssignment, Assignment

\* A file a pointer names is never overwritten by another of the same id.
LEMMA NamedIsNotOverwritten ==
    ASSUME CandidatesInv, NEW c \in Calls, Drawing(c), NEW p \in Pointers,
           pointers[p].names.id = call[c].snap.id
    PROVE  pointers[p].names = NewAssignment(c, p)
<1> DEFINE f == pointers[p].names
           snap == call[c].snap
<1>1. DrawOf(c) /\ NewIdOf(c) BY DEF CandidatesInv, DrawInv
<1>2. ~ IsTick(c) BY <1>1 DEF DrawOf, NewIdOf
<1>3. /\ snap.id = [kind |-> "manual", rating |-> call[c].gen, gen |-> call[c].gen]
      /\ snap.rating = call[c].gen /\ snap.gen = call[c].gen
  BY <1>1, <1>2 DEF DrawOf
<1>4. f.id.kind = "manual" /\ f.id.rating = call[c].gen BY <1>3
<1>5. f.rating = call[c].gen /\ f.gen = call[c].gen /\ f.pointer = p
  BY <1>4 DEF CandidatesInv, PointerInv, FileOf
<1>6. f \in Files BY DEF CandidatesInv, Types, FileTypes
<1>7. f = [pointer |-> f.pointer, id |-> f.id, rating |-> f.rating, gen |-> f.gen]
  BY <1>6 DEF Files
<1> QED BY <1>3, <1>5, <1>7 DEF NewAssignment, Assignment

LEMMA AssignKeeps == ASSUME CandidatesInv, NEW c \in Calls, Assign(c) PROVE CandidatesInv'
<1> DEFINE new  == {NewAssignment(c, p) : p \in Pointers}
           seen == [p \in Pointers |-> pointers[p].names]
           next == [call[c] EXCEPT !.seen = seen]
<1>1. /\ pc[c] = "assign" /\ pc' = [pc EXCEPT ![c] = "point"] /\ call' = [call EXCEPT ![c] = next]
      /\ assignments' = WriteAssignments(new)
      /\ UNCHANGED <<rating, board, boardLatest, pointers, live, ticks, byHand, applied, up,
                     raced, faults>>
  BY DEF Assign, Goto, countVars, trainerVars
<1>2. call[c] \in Calling /\ pc \in [Calls -> Steps] /\ call \in [Calls -> Calling]
  BY DEF CandidatesInv, Types, CallTypes
<1>3. seen \in [Pointers -> Files] BY DEF CandidatesInv, Types, FileTypes
<1>4. next \in Calling /\ next.seen = seen /\ next = [call[c] EXCEPT !.seen = next.seen]
  <2> HIDE DEF seen
  <2> QED BY <1>2, <1>3 DEF Calling
<1>5. /\ next.kind = call[c].kind /\ next.id = call[c].id /\ next.gen = call[c].gen
      /\ next.snap = call[c].snap /\ next.previous = call[c].previous
  BY <1>2 DEF Calling
<1> HIDE DEF next, seen
<1>6. /\ pc'[c] = "point" /\ call'[c] = next
      /\ \A d \in Calls \ {c} : pc'[d] = pc[d] /\ call'[d] = call[d]
  BY <1>1, <1>2
<1>7. \A d \in Calls : IsTick(d)' <=> IsTick(d) BY <1>5, <1>6 DEF IsTick
<1>8. \A d \in Calls : call'[d].snap = call[d].snap BY <1>5, <1>6
<1>9. Drawing(c) BY <1>1 DEF Drawing
\* the files
<1>10. new \subseteq Files
  <2>1. call[c].snap \in Snaps BY <1>2 DEF Calling
  <2>2. call[c].snap.id \in Ids /\ call[c].snap.rating \in Nat /\ call[c].snap.gen \in Nat
    BY <2>1, CandidatesAssumption DEF Snaps
  <2> QED BY <2>2 DEF NewAssignment, Assignment, Files
<1>11. new \subseteq assignments' BY <1>1 DEF WriteAssignments
<1>12. ASSUME NEW f \in assignments, f.id # call[c].snap.id PROVE f \in assignments'
  <2>1. \A b \in new : b.id = call[c].snap.id BY DEF NewAssignment, Assignment
  <2> HIDE DEF new
  <2> QED BY <1>1, <1>12, <2>1 DEF WriteAssignments
<1>13. \A p \in Pointers : pointers[p].names \in assignments'
  <2> SUFFICES ASSUME NEW p \in Pointers PROVE pointers[p].names \in assignments' OBVIOUS
  <2>1. CASE pointers[p].names.id # call[c].snap.id
    BY <1>12, <2>1 DEF CandidatesInv, PointerInv
  <2>2. CASE pointers[p].names.id = call[c].snap.id
    BY <1>9, <1>11, <2>2, NamedIsNotOverwritten
  <2> QED BY <2>1, <2>2
<1>14. \A d \in Calls, p \in Pointers : pc'[d] = "point" => NewAssignment(d, p) \in assignments'
  <2> SUFFICES ASSUME NEW d \in Calls, NEW p \in Pointers, pc'[d] = "point"
               PROVE  NewAssignment(d, p) \in assignments'
    OBVIOUS
  <2>1. CASE d = c BY <1>11, <2>1
  <2>2. CASE d # c
    <3>1. pc[d] = "point" /\ Drawing(d) BY <1>6, <2>2 DEF Drawing
    <3>2. NewAssignment(d, p) \in assignments BY <3>1 DEF CandidatesInv, DrawInv, WrittenOf
    <3>3. NewAssignment(d, p).id = call[d].snap.id BY DEF NewAssignment, Assignment
    <3>4. CASE call[d].snap.id # call[c].snap.id BY <1>12, <3>2, <3>3, <3>4
    <3>5. CASE call[d].snap.id = call[c].snap.id
      <4>1. NewAssignment(c, p) = NewAssignment(d, p) BY <1>9, <2>2, <3>1, <3>5, DrawsDiffer
      <4> QED BY <1>11, <4>1
    <3> QED BY <3>4, <3>5
  <2> QED BY <2>1, <2>2
\* the invariant
<1>15. Types'
  <2>1. FileTypes'
    BY <1>1, <1>10 DEF CandidatesInv, Types, FileTypes, WriteAssignments
  <2>2. CallTypes' BY <1>1, <1>2, <1>4 DEF CallTypes, Steps
  <2>3. CountTypes' /\ TrainerTypes' BY <1>1 DEF CandidatesInv, Types, CountTypes, TrainerTypes
  <2> QED BY <2>1, <2>2, <2>3 DEF Types
<1>16. CallInv'
  <2>1. \A d \in Calls : Refreshes(d)' <=> Refreshes(d) BY <1>5, <1>6 DEF Refreshes
  <2>2. \A d \in Calls : StepsOf(d)'
    BY <1>1, <1>6, <1>7, <2>1 DEF CandidatesInv, CallInv, StepsOf
  <2> QED BY <1>7, <2>2 DEF CandidatesInv, CallInv
<1>17. PointerInv' BY <1>1, <1>13 DEF CandidatesInv, PointerInv, FileOf
<1>18. DrawInv'
  <2> SUFFICES ASSUME NEW d \in Calls PROVE DrawOf(d)' /\ NewIdOf(d)' /\ WrittenOf(d)'
    BY DEF DrawInv
  <2>1. Drawing(d)' <=> Drawing(d) BY <1>1, <1>6 DEF Drawing
  <2>2. /\ call'[d].snap = call[d].snap /\ call'[d].gen = call[d].gen /\ call'[d].id = call[d].id
        /\ call'[d].previous = call[d].previous
    BY <1>5, <1>6
  <2>3. DrawOf(d) /\ NewIdOf(d) /\ WrittenOf(d) BY DEF CandidatesInv, DrawInv
  <2>4. DrawOf(d)' BY <1>7, <2>1, <2>2, <2>3 DEF DrawOf
  <2>5. NewIdOf(d)'
    <3>1. pc'[d] = "prepare" => pc[d] = "prepare" BY <1>6
    <3> QED BY <1>1, <1>7, <2>1, <2>2, <2>3, <3>1 DEF NewIdOf
  <2>6. \A p \in Pointers : NewAssignment(d, p)' = NewAssignment(d, p)
    BY <2>2 DEF NewAssignment, Assignment
  <2>7. pc'[d] = "point" => call'[d].seen \in [Pointers -> Files]
    BY <1>3, <1>4, <1>6, <2>3 DEF WrittenOf
  <2>8. WrittenOf(d)' BY <1>14, <2>6, <2>7 DEF WrittenOf
  <2> QED BY <2>4, <2>5, <2>8
<1>19. GenerationInv'
  <2>1. \A d \in Calls : GenerationOf(d)'
    <3> SUFFICES ASSUME NEW d \in Calls PROVE GenerationOf(d)' OBVIOUS
    <3>1. Drawing(d)' <=> Drawing(d) BY <1>1, <1>6 DEF Drawing
    <3>2. call'[d].gen = call[d].gen /\ (pc'[d] = "load" => pc[d] = "load") BY <1>5, <1>6
    <3> QED BY <1>1, <1>7, <3>1, <3>2 DEF CandidatesInv, GenerationInv, GenerationOf
  <2> QED BY <1>1, <2>1 DEF CandidatesInv, GenerationInv
<1> QED BY <1>15, <1>16, <1>17, <1>18, <1>19 DEF CandidatesInv

LEMMA PointKeeps == ASSUME CandidatesInv, NEW c \in Calls, Point(c) PROVE CandidatesInv'
<1>1. /\ pc[c] = "point" /\ Drawing(c)
      /\ UNCHANGED <<rating, board, boardLatest, assignments, live, ticks, byHand, applied, up,
                     faults>>
  BY DEF Point, countVars, trainerVars, Drawing
<1>2. CASE End(c) /\ UNCHANGED <<pointers, raced>>
  <2>1. CountTypes' /\ FileTypes' /\ TrainerTypes'
    BY <1>1, <1>2 DEF CandidatesInv, Types, CountTypes, FileTypes, TrainerTypes
  <2> QED BY <1>1, <1>2, <2>1, EndingKeeps
<1>3. CASE /\ call[c].seen = call[c].previous
           /\ pointers' = [p \in Pointers |-> [names |-> NewAssignment(c, p),
                                                gen |-> call[c].gen, source |-> call[c].snap]]
           /\ raced' = (raced \/ \E p \in Pointers : pointers[p].names # call[c].seen[p])
           /\ Goto(c, "put") /\ UNCHANGED call
  <2>1. call[c] \in Calling /\ pc \in [Calls -> Steps] /\ call \in [Calls -> Calling]
    BY DEF CandidatesInv, Types, CallTypes
  <2>2. pc'[c] = "put" /\ \A d \in Calls \ {c} : pc'[d] = pc[d] BY <1>3, <2>1 DEF Goto
  <2>3. DrawOf(c) /\ NewIdOf(c) /\ WrittenOf(c) BY DEF CandidatesInv, DrawInv
  <2>4. \A p \in Pointers : /\ pointers'[p].names = NewAssignment(c, p)
                            /\ pointers'[p].gen = call[c].gen
    BY <1>3
  <2>5. \A p \in Pointers : /\ NewAssignment(c, p).pointer = p
                            /\ NewAssignment(c, p).id = call[c].snap.id
                            /\ NewAssignment(c, p).rating = call[c].snap.rating
                            /\ NewAssignment(c, p).gen = call[c].snap.gen
    BY DEF NewAssignment, Assignment
  <2>6. \A p \in Pointers : NewAssignment(c, p) \in assignments
    BY <1>1, <2>3 DEF WrittenOf
  <2>7. Types'
    <3>1. FileTypes'
      <4>1. \A p \in Pointers : [names |-> NewAssignment(c, p), gen |-> call[c].gen,
                                 source |-> call[c].snap]
                                    \in [names : Files, gen : Nat, source : Snaps]
        BY <2>1, <2>6 DEF CandidatesInv, Types, FileTypes, Calling
      <4>2. pointers' \in [Pointers -> [names : Files, gen : Nat, source : Snaps]] BY <1>3, <4>1
      <4> QED BY <1>1, <4>2 DEF CandidatesInv, Types, FileTypes
    <3>2. CallTypes' BY <1>3, <2>1 DEF CallTypes, Goto, Steps
    <3>3. TrainerTypes'
      <4>1. raced' \in BOOLEAN BY <1>3
      <4> QED BY <1>1, <4>1 DEF CandidatesInv, Types, TrainerTypes
    <3>4. CountTypes' BY <1>1 DEF CandidatesInv, Types, CountTypes
    <3> QED BY <3>1, <3>2, <3>3, <3>4 DEF Types
  <2>8. CallInv' BY <1>3, <2>2 DEF CandidatesInv, CallInv, StepsOf, IsTick, Refreshes
  <2>9. PointerInv'
    <3> SUFFICES ASSUME NEW p \in Pointers
                 PROVE  LET f == pointers'[p].names
                        IN  /\ f \in assignments' /\ f.pointer = p /\ f.gen = pointers'[p].gen
                            /\ FileOf(f)
      BY DEF PointerInv, FileOf
    <3>1. IsTick(c) => call[c].snap.id.kind = "auto" /\ call[c].snap.id.gen = call[c].snap.gen
      BY <1>1, <2>3 DEF DrawOf, NewIdOf
    <3>2. ~ IsTick(c) => /\ call[c].snap.id.kind = "manual" /\ call[c].snap.id.rating = call[c].gen
                         /\ call[c].snap.id.gen = call[c].gen /\ call[c].snap.rating = call[c].gen
      BY <1>1, <2>3 DEF DrawOf
    <3>3. call[c].snap.gen = call[c].gen BY <1>1, <2>3 DEF DrawOf
    <3>4. FileOf(NewAssignment(c, p)) BY <2>5, <3>1, <3>2, <3>3 DEF FileOf
    <3> QED BY <1>1, <2>4, <2>5, <2>6, <3>3, <3>4
  <2>10. DrawInv'
    <3> SUFFICES ASSUME NEW d \in Calls PROVE DrawOf(d)' /\ NewIdOf(d)' /\ WrittenOf(d)'
      BY DEF DrawInv
    <3>1. CASE d = c BY <2>2, <3>1 DEF DrawOf, NewIdOf, WrittenOf, Drawing
    <3>2. CASE d # c
      <4>1. DrawOf(d) /\ NewIdOf(d) /\ WrittenOf(d) BY DEF CandidatesInv, DrawInv
      <4>2. pc'[d] = pc[d] /\ call' = call BY <1>3, <2>2, <3>2
      <4>3. DrawOf(d)' BY <4>1, <4>2 DEF DrawOf, Drawing, IsTick
      <4>4. WrittenOf(d)' BY <1>1, <4>1, <4>2 DEF WrittenOf, NewAssignment, Assignment
      <4>5. NewIdOf(d)'
        <5> SUFFICES ASSUME pc[d] = "prepare" \/ Drawing(d), IsTick(d)
                     PROVE  /\ call[d].id.kind = "auto" /\ call[d].id.gen = call[d].gen
                            /\ \A p \in Pointers : pointers'[p].names.id # call[d].id
          BY <4>2 DEF NewIdOf, Drawing, IsTick
        <5>1. ~ IsTick(c) BY <3>2 DEF CandidatesInv, CallInv
        <5>2. call[c].snap.id.kind = "manual" BY <1>1, <2>3, <5>1 DEF DrawOf
        <5>3. call[d].id.kind = "auto" /\ call[d].id.gen = call[d].gen BY <4>1 DEF NewIdOf
        <5> QED BY <2>4, <2>5, <5>2, <5>3
      <4> QED BY <4>3, <4>4, <4>5
    <3> QED BY <3>1, <3>2
  <2>11. GenerationInv'
    <3>1. GenerationOf(c) BY DEF CandidatesInv, GenerationInv
    <3>2. call[c].gen \in Nat /\ rating \in Nat /\ ticks \in Nat
      BY <2>1, CandidatesAssumption DEF CandidatesInv, Types, CountTypes, Calling
    <3>3. call[c].gen <= ticks + rating BY <1>1, <3>1, <3>2 DEF GenerationOf
    <3>4. \A d \in Calls : GenerationOf(d)'
      <4> SUFFICES ASSUME NEW d \in Calls PROVE GenerationOf(d)' OBVIOUS
      <4>1. CASE d = c BY <1>1, <1>3, <2>2, <3>1, <4>1 DEF GenerationOf, Drawing, IsTick
      <4>2. CASE d # c
        <5>1. GenerationOf(d) /\ pc'[d] = pc[d] /\ call' = call
          BY <1>3, <2>2, <4>2 DEF CandidatesInv, GenerationInv
        <5>2. pc[d] = "load" => call[c].gen <= ticks - 1 + rating
          <6> SUFFICES ASSUME pc[d] = "load" PROVE call[c].gen <= ticks - 1 + rating OBVIOUS
          <6>1. IsTick(d) BY DEF CandidatesInv, CallInv, StepsOf
          <6>2. ~ IsTick(c) BY <4>2, <6>1 DEF CandidatesInv, CallInv
          <6>3. ticks > 0 BY <5>1, <6>1 DEF GenerationOf
          <6>4. call[c].gen <= rating BY <1>1, <3>1, <6>2 DEF GenerationOf
          <6> QED BY <3>2, <6>3, <6>4
        <5> QED BY <1>1, <2>4, <5>1, <5>2 DEF GenerationOf, Drawing, IsTick
      <4> QED BY <4>1, <4>2
    <3>5. ~ raced' => \A p \in Pointers : applied'[p].gen <= pointers'[p].gen
      <4> SUFFICES ASSUME ~ raced', NEW p \in Pointers PROVE applied'[p].gen <= pointers'[p].gen
        OBVIOUS
      <4>1. ~ raced /\ pointers[p].names = call[c].previous[p] BY <1>3
      <4>2. applied[p].gen <= pointers[p].gen BY <4>1 DEF CandidatesInv, GenerationInv
      <4>3. pointers[p].gen < call[c].gen
        BY <1>1, <2>3, <4>1 DEF CandidatesInv, PointerInv, DrawOf
      <4>4. applied[p].gen \in Nat /\ pointers[p].gen \in Nat
        BY DEF CandidatesInv, Types, FileTypes, TrainerTypes, Files
      <4> QED BY <1>1, <2>4, <3>2, <4>2, <4>3, <4>4
    <3> QED BY <1>1, <2>4, <3>3, <3>4, <3>5 DEF GenerationInv
  <2> QED BY <2>7, <2>8, <2>9, <2>10, <2>11 DEF CandidatesInv
<1> QED BY <1>2, <1>3 DEF Point

LEMMA PutKeeps == ASSUME CandidatesInv, NEW c \in Calls, Put(c) PROVE CandidatesInv'
<1>1. /\ live' = call[c].snap /\ End(c)
      /\ UNCHANGED <<rating, board, boardLatest, assignments, pointers, ticks, byHand, applied, up,
                     raced, faults>>
  BY DEF Put, countVars, trainerVars
<1>2. call[c].snap \in Snaps BY DEF CandidatesInv, Types, CallTypes, Calling
<1>3. CountTypes' /\ FileTypes' /\ TrainerTypes'
  BY <1>1, <1>2 DEF CandidatesInv, Types, CountTypes, FileTypes, TrainerTypes
<1> QED BY <1>1, <1>3, EndingKeeps

\* A call that is about to put a snapshot has none of its own to keep.
LEMMA GoesToPut ==
    ASSUME CandidatesInv, NEW c \in Calls, NEW snap \in Snaps, Goto(c, "put"),
           call' = [call EXCEPT ![c].snap = snap], CountTypes', FileTypes', TrainerTypes',
           UNCHANGED <<pointers, assignments, ticks, rating, applied, raced>>
    PROVE  CandidatesInv'
<1> DEFINE new == [call[c] EXCEPT !.snap = snap]
<1>1. call[c] \in Calling /\ pc \in [Calls -> Steps] /\ call \in [Calls -> Calling]
  BY DEF CandidatesInv, Types, CallTypes
<1>2. new \in Calling /\ new.kind = call[c].kind /\ new.gen = call[c].gen
  BY <1>1 DEF Calling
<1>3. call' = [call EXCEPT ![c] = new] OBVIOUS
<1> HIDE DEF new
<1>4. /\ pc'[c] = "put" /\ call'[c] = new
      /\ \A d \in Calls \ {c} : pc'[d] = pc[d] /\ call'[d] = call[d]
  BY <1>1, <1>3 DEF Goto
<1>5. CallTypes' BY <1>1, <1>2, <1>3 DEF CallTypes, Goto, Steps
<1>6. IsTick(c)' <=> IsTick(c) BY <1>2, <1>4 DEF IsTick
<1>7. StepsOf(c)' BY <1>4 DEF StepsOf
<1>8. DrawOf(c)' /\ NewIdOf(c)' /\ WrittenOf(c)' BY <1>4 DEF DrawOf, NewIdOf, WrittenOf, Drawing
<1>9. GenerationOf(c)'
  BY <1>2, <1>4, <1>6 DEF CandidatesInv, GenerationInv, GenerationOf, Drawing
<1>10. CallInv' /\ PointerInv' /\ DrawInv' /\ GenerationInv'
  BY <1>4, <1>6, <1>7, <1>8, <1>9, StepOfOne DEF CandidatesInv
<1> QED BY <1>5, <1>10 DEF CandidatesInv, Types

LEMMA PublishKeeps == ASSUME CandidatesInv, NEW c \in Calls, Publish(c) PROVE CandidatesInv'
<1> DEFINE snap == [id |-> [kind |-> "publish", rating |-> rating, gen |-> call[c].by],
                    rating |-> rating, gen |-> rating, by |-> call[c].by]
<1>1. UNCHANGED <<rating, assignments, pointers, live, ticks, byHand, applied, up, raced, faults>>
  BY DEF Publish, countVars, trainerVars
<1>2. snap \in Snaps
  <2>1. call[c].by \in 0..(MaxTicks + MaxByHand) /\ call[c].by \in Nat
    BY CandidatesAssumption DEF CandidatesInv, Types, CallTypes, Calling
  <2>2. rating \in 0..MaxRating /\ rating \in Nat
    BY CandidatesAssumption DEF CandidatesInv, Types, CountTypes
  <2> QED BY <2>1, <2>2 DEF Snaps, Ids
<1>3. CountTypes' /\ TrainerTypes' BY <1>1 DEF CandidatesInv, Types, CountTypes, TrainerTypes
<1>4. CASE End(c) /\ UNCHANGED <<board, boardLatest>>
  <2>1. FileTypes' BY <1>1, <1>4 DEF CandidatesInv, Types, FileTypes
  <2> QED BY <1>1, <1>3, <1>4, <2>1, EndingKeeps
<1>5. CASE /\ board' = Write(board, snap) /\ boardLatest' = snap
           /\ Goto(c, "put") /\ call' = [call EXCEPT ![c].snap = snap]
  <2> HIDE DEF snap
  <2>1. FileTypes' BY <1>1, <1>2, <1>5 DEF CandidatesInv, Types, FileTypes, Write
  <2> QED BY <1>1, <1>2, <1>3, <1>5, <2>1, GoesToPut
<1> QED BY <1>4, <1>5 DEF Publish

LEMMA RepairKeeps == ASSUME CandidatesInv, NEW c \in Calls, Repair(c) PROVE CandidatesInv'
<1>1. UNCHANGED <<rating, board, boardLatest, assignments, pointers, live, ticks, byHand,
                  applied, up, raced, faults>>
  BY DEF Repair, fileVars, countVars, trainerVars
<1>2. CountTypes' /\ FileTypes' /\ TrainerTypes'
  BY <1>1 DEF CandidatesInv, Types, CountTypes, FileTypes, TrainerTypes
<1>3. CASE End(c) BY <1>1, <1>2, <1>3, EndingKeeps
<1>4. CASE Goto(c, "put") /\ call' = [call EXCEPT ![c] = [@ EXCEPT !.snap = boardLatest]]
  <2>1. boardLatest \in Snaps BY DEF CandidatesInv, Types, FileTypes
  <2>2. call' = [call EXCEPT ![c].snap = boardLatest] BY <1>4
  <2> QED BY <1>1, <1>2, <1>4, <2>1, <2>2, GoesToPut
<1> QED BY <1>3, <1>4 DEF Repair

LEMMA FaultTypes == ASSUME CountTypes, NEW kind, Fault(kind), UNCHANGED <<rating, ticks, byHand>>
                    PROVE  CountTypes'
<1>1. MaxFaults \in Nat /\ faults \in 0..MaxFaults /\ faults < MaxFaults /\ faults' = faults + 1
  BY CandidatesAssumption DEF CountTypes, Fault
<1>2. faults' \in 0..MaxFaults BY <1>1
<1> QED BY <1>2 DEF CountTypes

LEMMA CrashKeeps == ASSUME CandidatesInv, NEW c \in Calls, Crash(c) PROVE CandidatesInv'
<1>1. /\ Fault("crash") /\ End(c)
      /\ UNCHANGED <<rating, board, boardLatest, assignments, pointers, live, ticks, byHand,
                     applied, up, raced>>
  BY DEF Crash, fileVars, countVars, trainerVars
<1>2. CountTypes' BY <1>1, FaultTypes DEF CandidatesInv, Types
<1>3. FileTypes' /\ TrainerTypes' BY <1>1 DEF CandidatesInv, Types, FileTypes, TrainerTypes
<1> QED BY <1>1, <1>2, <1>3, EndingKeeps

(***************************************************************************)
(* Trainers.                                                               *)
(***************************************************************************)
\* What calls and files have is not touched by a trainer.
LEMMA TrainerFrame ==
    ASSUME CandidatesInv, UNCHANGED <<rating, pointers, assignments, pc, call, ticks, raced>>,
           ~ raced => \A p \in Pointers : applied'[p].gen <= pointers[p].gen
    PROVE  CallInv' /\ PointerInv' /\ DrawInv' /\ GenerationInv'
<1>1. CallInv' BY DEF CandidatesInv, CallInv, StepsOf, IsTick, Refreshes
<1>2. PointerInv' BY PointersStay DEF CandidatesInv
<1>3. DrawInv' BY StaysAsItWas DEF CandidatesInv, DrawInv
<1>4. \A c \in Calls : GenerationOf(c)'
  BY StaysInGeneration DEF CandidatesInv, GenerationInv
<1>5. GenerationInv' BY <1>4 DEF CandidatesInv, GenerationInv
<1> QED BY <1>1, <1>2, <1>3, <1>5

LEMMA CollectKeeps ==
    ASSUME CandidatesInv, NEW p \in Pointers, Collect(p)
    PROVE  /\ CandidatesInv'
           /\ raced' \/ \A q \in Pointers : applied'[q].gen >= applied[q].gen
<1>1. /\ applied' = [applied EXCEPT ![p] = pointers[p].names]
      /\ UNCHANGED <<rating, board, boardLatest, assignments, pointers, live, pc, call, ticks,
                     byHand, up, raced, faults>>
  BY DEF Collect, fileVars, callVars, countVars
<1>2. /\ pointers[p].names \in Files /\ pointers[p].names.pointer = p
      /\ pointers[p].names.gen = pointers[p].gen /\ applied \in [Pointers -> Files]
  BY DEF CandidatesInv, PointerInv, Types, FileTypes, TrainerTypes
<1>3. \A q \in Pointers : applied'[q] = IF q = p THEN pointers[p].names ELSE applied[q]
  BY <1>1, <1>2
<1>4. TrainerTypes' BY <1>1, <1>2, <1>3 DEF CandidatesInv, Types, TrainerTypes
<1>5. CountTypes' /\ FileTypes' /\ CallTypes'
  BY <1>1 DEF CandidatesInv, Types, CountTypes, FileTypes, CallTypes
<1>6. \A q \in Pointers : pointers[q].gen \in Nat /\ applied[q].gen \in Nat
  BY DEF CandidatesInv, Types, FileTypes, TrainerTypes, Files
<1>7. ~ raced => \A q \in Pointers : applied[q].gen <= pointers[q].gen
  BY DEF CandidatesInv, GenerationInv
<1>8. ~ raced => \A q \in Pointers : applied'[q].gen <= pointers[q].gen
  BY <1>2, <1>3, <1>6, <1>7
<1>9. CallInv' /\ PointerInv' /\ DrawInv' /\ GenerationInv' BY <1>1, <1>8, TrainerFrame
<1>10. raced' \/ \A q \in Pointers : applied'[q].gen >= applied[q].gen
  BY <1>1, <1>2, <1>3, <1>6, <1>7
<1> QED BY <1>4, <1>5, <1>9, <1>10 DEF CandidatesInv, Types

LEMMA ResetFailsKeeps ==
    ASSUME CandidatesInv, NEW p \in Pointers, ResetFails(p) PROVE CandidatesInv'
<1>1. /\ Fault("reset") /\ up' = [up EXCEPT ![p] = FALSE]
      /\ UNCHANGED <<rating, board, boardLatest, assignments, pointers, live, pc, call, ticks,
                     byHand, applied, raced>>
  BY DEF ResetFails, fileVars, callVars, countVars
<1>2. CountTypes' BY <1>1, FaultTypes DEF CandidatesInv, Types
<1>3. FileTypes' /\ TrainerTypes' /\ CallTypes'
  BY <1>1 DEF CandidatesInv, Types, FileTypes, TrainerTypes, CallTypes
<1>4. CallInv' /\ PointerInv' /\ DrawInv' /\ GenerationInv'
  BY <1>1, TrainerFrame DEF CandidatesInv, GenerationInv
<1> QED BY <1>2, <1>3, <1>4 DEF CandidatesInv, Types

(***************************************************************************)
(* The theorems.                                                           *)
(***************************************************************************)
LEMMA StutterKeeps == ASSUME CandidatesInv, UNCHANGED vars PROVE CandidatesInv'
<1>1. UNCHANGED <<rating, board, boardLatest, assignments, pointers, live, pc, call, ticks, byHand,
                  applied, up, raced, faults>>
  BY DEF vars, fileVars, callVars, countVars, trainerVars
<1>2. Types' BY <1>1 DEF CandidatesInv, Types, CountTypes, FileTypes, TrainerTypes, CallTypes
<1>3. CallInv' /\ PointerInv' /\ DrawInv' /\ GenerationInv'
  BY <1>1, TrainerFrame DEF CandidatesInv, GenerationInv
<1> QED BY <1>2, <1>3 DEF CandidatesInv

\* What a step keeps, and what it does to the trainers.
LEMMA NextKeeps ==
    ASSUME CandidatesInv, Next
    PROVE  /\ CandidatesInv'
           /\ applied' # applied =>
                 raced' \/ \A p \in Pointers : applied'[p].gen >= applied[p].gen
<1>1. CASE Rate BY <1>1, RateKeeps DEF Rate, trainerVars
<1>2. ASSUME NEW c \in Calls, StartTick(c) PROVE CandidatesInv' /\ UNCHANGED applied
  BY <1>2, StartTickKeeps DEF StartTick, StartCall, trainerVars
<1>3. ASSUME NEW c \in Calls, StartRefresh(c) \/ StartPublish(c) \/ StartRepair(c)
      PROVE  CandidatesInv' /\ UNCHANGED applied
  <2>1. CandidatesInv' BY <1>3, StartByHandKeeps DEF StartRefresh, StartPublish, StartRepair
  <2>2. UNCHANGED applied
    BY <1>3 DEF StartRefresh, StartPublish, StartRepair, StartByHand, StartCall, trainerVars
  <2> QED BY <2>1, <2>2
<1>4. ASSUME NEW c \in Calls, CallStep(c) PROVE CandidatesInv' /\ UNCHANGED applied
  <2>1. CandidatesInv'
    BY <1>4, LoadKeeps, PrepareKeeps, WriteBoardKeeps, AssignKeeps, PointKeeps, PutKeeps,
       PublishKeeps, RepairKeeps
    DEF CallStep
  <2>2. UNCHANGED applied
    BY <1>4 DEF CallStep, Load, Prepare, WriteBoard, Assign, Point, Put, Publish, Repair,
                trainerVars
  <2> QED BY <2>1, <2>2
<1>5. ASSUME NEW c \in Calls, Crash(c) PROVE CandidatesInv' /\ UNCHANGED applied
  BY <1>5, CrashKeeps DEF Crash, trainerVars
<1>6. ASSUME NEW p \in Pointers, Collect(p)
      PROVE  /\ CandidatesInv'
             /\ raced' \/ \A q \in Pointers : applied'[q].gen >= applied[q].gen
  BY <1>6, CollectKeeps
<1>7. ASSUME NEW p \in Pointers, ResetFails(p) PROVE CandidatesInv' /\ UNCHANGED applied
  BY <1>7, ResetFailsKeeps DEF ResetFails
<1> QED BY <1>1, <1>2, <1>3, <1>4, <1>5, <1>6, <1>7 DEF Next

\* The invariant the theorems rest on: what a refresh has drawn or written agrees
\* with its id, and no pointer names a file that a running refresh will overwrite.
THEOREM CandidatesInvariant == Spec => []CandidatesInv
<1>1. CandidatesInv /\ [Next]_vars => CandidatesInv' BY NextKeeps, StutterKeeps
<1> QED BY InitHolds, <1>1, PTL DEF Spec

\* A refresh pointer always names an assignment that is on the volume with the
\* content it had, whichever refreshes overlap, die, or draw the same id again.
THEOREM PointersAlwaysResolve == Spec => []PointersResolve
<1>1. CandidatesInv => PointersResolve
  BY DEF CandidatesInv, PointerInv, PointersResolve, Resolves
<1> QED BY CandidatesInvariant, <1>1, PTL

\* No trainer goes back to an earlier generation, unless a refresh wrote over a
\* pointer that another had moved since its last look.
THEOREM TrainersNeverGoBack == Spec => TrainersMoveForward
<1>1. CandidatesInv /\ [Next]_vars =>
         [raced' \/ \A p \in Pointers : applied'[p].gen >= applied[p].gen]_applied
  BY NextKeeps DEF vars, trainerVars
<1> QED BY CandidatesInvariant, <1>1, PTL DEF Spec, TrainersMoveForward

\* The types, and the bound on generations: ticks and rounds so far.
THEOREM CandidatesTypeCorrect == Spec => []TypeOK
<1>1. CandidatesInv => TypeOK
  <2> SUFFICES ASSUME CandidatesInv PROVE TypeOK OBVIOUS
  <2>1. /\ rating \in 0..MaxRating /\ faults \in 0..MaxFaults
        /\ ticks \in 0..MaxTicks /\ byHand \in 0..MaxByHand
    BY DEF CandidatesInv, Types, CountTypes
  <2>2. pc \in [Calls -> {"idle", "load", "prepare", "board", "assign", "point", "put",
                          "publish", "repair"}]
    BY DEF CandidatesInv, Types, CallTypes, Steps
  <2>3. \A s \in board \cup {boardLatest, live} :
           s.rating <= MaxRating /\ s.by <= MaxTicks + MaxByHand
    <3>1. board \cup {boardLatest, live} \subseteq Snaps BY DEF CandidatesInv, Types, FileTypes
    <3>2. \A s \in Snaps : s.rating <= MaxRating /\ s.by <= MaxTicks + MaxByHand
      BY CandidatesAssumption DEF Snaps
    <3> QED BY <3>1, <3>2
  <2>4. \A p \in Pointers : /\ pointers[p].names.pointer = p /\ applied[p].pointer = p
                            /\ pointers[p].gen \in 0..(MaxTicks + MaxRating)
    <3>1. \A p \in Pointers : pointers[p].gen \in Nat /\ pointers[p].gen <= ticks + rating
      BY DEF CandidatesInv, GenerationInv, Types, FileTypes
    <3>2. ticks + rating <= MaxTicks + MaxRating /\ ticks + rating \in Nat
      BY <2>1, CandidatesAssumption
    <3>3. \A p \in Pointers : pointers[p].gen \in 0..(MaxTicks + MaxRating)
      BY <3>1, <3>2, CandidatesAssumption
    <3> QED BY <3>3 DEF CandidatesInv, PointerInv, Types, TrainerTypes
  <2>5. up \in [Pointers -> BOOLEAN] BY DEF CandidatesInv, Types, TrainerTypes
  <2> QED BY <2>1, <2>2, <2>3, <2>4, <2>5 DEF TypeOK
<1> QED BY CandidatesInvariant, <1>1, PTL
=============================================================================
