-------------------------- MODULE OwnerRootsProofs ---------------------------
(***************************************************************************)
(* Proofs about the owner of search, replay and model: the roots that work *)
(* needs are kept, although the cache is bounded, and so are the queues.   *)
(***************************************************************************)
EXTENDS OwnerSearchProofs, FiniteSetTheorems

(***************************************************************************)
(* A batch ends with the transition to the newest action, and the cache    *)
(* has the roots of the actions before it.  An action that is out and not  *)
(* staged has yet to add its own.                                          *)
(***************************************************************************)
Window(last) == \A k \in 0..last : last - CacheMax < k => k \in roots

RootsInv ==
    /\ RootsAreKept
    /\ staged # <<>> => Len(staged) = Batch /\ submitted + Batch = steps - 1
    /\ \A k \in roots : k < steps
    /\ alive /\ (Asked \/ main.pc = "stage") => Window(steps - 2)
    /\ alive /\ (actor \in {"ready", "draining"} \/ Taken) => Window(steps - 1)

(***************************************************************************)
(* One drain is out and one command to close, each at one place.           *)
(***************************************************************************)
Has(s, kind)  == \E i \in 1..Len(s) : s[i].kind = kind
Queued(kind)  == Has(commands, kind)
Replied(kind) == Has(results, kind)

DrainInv ==
    /\ Queued("drain") => drains = <<>> /\ maint.pc = "idle" /\ ~ Replied("drain")
                          /\ ~ Answered("drain")
    /\ drains # <<>> => maint.pc = "idle" /\ ~ Replied("drain") /\ ~ Answered("drain")
    /\ maint.pc # "idle" => ~ Replied("drain") /\ ~ Answered("drain")
    /\ Replied("drain") => ~ Answered("drain")
    /\ Queued("drain") \/ drains # <<>> \/ maint.pc # "idle" \/ Replied("drain")
          \/ Answered("drain") => inflight
    /\ Len(drains) <= 1

CloseInv ==
    /\ Queued("close") \/ main.pc = "close" => actor \in {"closing", "closed"}
    /\ Queued("close") => main.pc # "close" /\ ~ Asked
    /\ Queued("close") => ~ Replied("close")
    /\ Replied("close") => ~ alive

\* What is asked and answered at most once.
Once(s) == \A i, j \in 1..Len(s) : s[i].kind = s[j].kind => i = j

BoundInv ==
    /\ DrainInv /\ CloseInv /\ Once(commands) /\ Once(results)
    /\ steps <= MaxSteps /\ faults <= MaxFaults /\ Len(jobs) <= MaxPending

(***************************************************************************)
(* The newest roots are kept.                                              *)
(***************************************************************************)
LEMMA Trimmed ==
    ASSUME NEW s \in Nat, NEW S \in SUBSET Nat, \A q \in S : q <= s,
           NEW k \in S, s - CacheMax < k
    PROVE  k \in Newest(S)
  <1> DEFINE T == {q \in S : q > k}
  <1>0. k \in Nat /\ k <= s /\ CacheMax \in Nat
    BY OwnerAssumption
  <1>1. T \in SUBSET ((k + 1) .. s) /\ k \in Nat /\ k <= s /\ CacheMax \in Nat
    <2> SUFFICES ASSUME NEW q \in S, q > k PROVE q \in (k + 1) .. s
      BY <1>0
    <2>1. q \in Nat /\ q <= s
      OBVIOUS
    <2> QED
      BY <1>0, <2>1
  <1>2. IsFiniteSet((k + 1) .. s) /\ Cardinality((k + 1) .. s) = IF k + 1 > s THEN 0 ELSE s - k
    BY <1>1, FS_Interval
  <1>3. IsFiniteSet(T) /\ Cardinality(T) <= Cardinality((k + 1) .. s)
    BY <1>1, <1>2, FS_Subset
  <1>4. Cardinality(T) \in Nat
    BY <1>3, FS_CardinalityType
  <1> HIDE DEF T
  <1>5. Cardinality((k + 1) .. s) <= s - k /\ Cardinality((k + 1) .. s) \in Int
    BY <1>1, <1>2
  <1>6. Cardinality(T) < CacheMax
    BY <1>1, <1>3, <1>4, <1>5
  <1> QED
    BY <1>6 DEF Newest, T

\* Steps that take an action no further and add no work.
LEMMA RootsFrame ==
    ASSUME RootsInv, UNCHANGED <<staged, submitted, steps, roots, work>>, alive' => alive,
           alive' /\ (Asked' \/ main'.pc = "stage") => Asked \/ main.pc = "stage",
           alive' /\ (actor' \in {"ready", "draining"} \/ Taken')
              => actor \in {"ready", "draining"} \/ Taken
    PROVE  RootsInv'
  BY DEF RootsInv, RootsAreKept, Window

\* Steps of the game loop that neither ask nor resolve.
LEMMA RootsActor ==
    ASSUME RootsInv, OwnerInv', UNCHANGED <<ownerVars, steps, staged, submitted, results>>,
           alive' => alive, answers'["action"] = answers["action"],
           actor' # "waiting", actor' \in {"ready", "draining"} => actor \in {"ready", "draining"}
    PROVE  RootsInv'
  <1>1. Taken' = Taken
    BY DEF Taken, ownerVars
  <1>2. alive' => ~ (Asked' \/ main'.pc = "stage")
    BY DEF OwnerInv, ActionInv, Held
  <1> QED
    BY <1>1, <1>2, RootsFrame DEF ownerVars, storeVars

LEMMA RootsLoop ==
    ASSUME OwnerInv, OwnerInv', RootsInv,
           Finish \/ FinalDrain \/ Closed \/ CloseAnyway \/ (Submit /\ Fail) \/ (Resolve /\ Fail)
    PROVE  RootsInv'
  <1>1. QueueTypes
    BY DEF OwnerInv, Types
  <1>2. Polled => answers'["action"] = answers["action"]
    BY <1>1, Polling
  <1>3. CASE Finish
    BY <1>3, RootsActor DEF Finish, queueVars
  <1>4. CASE FinalDrain
    <2>1. answers'["action"] = answers["action"]
      BY <1>2, <1>4 DEF FinalDrain, Fail, queueVars
    <2>2. /\ UNCHANGED <<ownerVars, steps, staged, submitted, results, alive>>
          /\ actor' \in {"failed", "draining", "closing"} /\ actor = "draining"
      BY <1>4 DEF FinalDrain, Fail
    <2> QED
      BY <2>1, <2>2, RootsActor
  <1>5. CASE Closed
    BY <1>5, RootsActor DEF Closed, queueVars
  <1>6. CASE CloseAnyway
    BY <1>6, RootsActor DEF CloseAnyway
  <1>7. CASE (Submit /\ Fail) \/ (Resolve /\ Fail)
    <2>1. /\ UNCHANGED <<ownerVars, steps, staged, submitted, results, alive, answers>>
          /\ actor' = "failed"
      BY <1>7 DEF Submit, Resolve, Fail, queueVars
    <2> QED
      BY <2>1, RootsActor
  <1> QED
    BY <1>3, <1>4, <1>5, <1>6, <1>7

LEMMA RootsSubmit == ASSUME OwnerInv, OwnerInv', RootsInv, Submit, ~ Fail PROVE RootsInv'
  <1> DEFINE r == [step |-> steps, entries |-> Staged, train |-> Train(Len(Staged)),
                   refresh |-> Train(Len(Staged)) > 0 => RefreshDue(requested + 1)]
  <1>1. /\ actor = "ready" /\ staged' = Staged /\ steps' = steps + 1 /\ actor' = "waiting"
        /\ UNCHANGED <<submitted, alive, ownerVars>>
        /\ commands' = Append(commands, Command("action", r))
    BY DEF Submit
  <1> HIDE DEF r
  <1>2. /\ submitted \in Nat /\ steps \in Nat /\ commands \in Seq(Commands) /\ roots \in SUBSET Nat
    BY DEF OwnerInv, Types, ActorTypes, QueueTypes, OwnerTypes
  <1>3. /\ submitted + Len(Staged) + Len(Left) = steps /\ Len(Staged) \in Nat
        /\ Staged # <<>> => Len(Staged) = Batch /\ Len(Left) = 0
    BY <1>1, Split
  <1>4. Asked'
    <2>1. Command("action", r).kind = "action"
      BY DEF Command
    <2> DEFINE c == Command("action", r)
    <2> HIDE DEF c
    <2>2. /\ Len(commands') = Len(commands) + 1 /\ Len(commands) \in Nat
          /\ commands'[Len(commands) + 1] = c
      BY <1>1, <1>2 DEF c
    <2> QED
      BY <2>1, <2>2 DEF Asked, c
  <1>5. ~ Taken'
    <2>1. ~ Held' /\ ~ Reported' /\ ~ Got'
      BY <1>4 DEF OwnerInv, ActionInv
    <2> QED
      BY <2>1 DEF Held, Reported, Got, Taken, NoAnswer
  <1>6. staged' # <<>> => Len(staged') = Batch /\ submitted' + Batch = steps' - 1
    <2> SUFFICES ASSUME staged' # <<>> PROVE Len(staged') = Batch /\ submitted' + Batch = steps' - 1
      OBVIOUS
    <2>1. Len(staged') = Batch /\ Len(Left) = 0 /\ Batch \in Nat
      BY <1>1, <1>3, OwnerAssumption
    <2> QED
      BY <1>1, <1>2, <1>3, <2>1
  <1>7. alive' => Window(steps - 2)'
    <2>1. (alive => Window(steps - 1)) /\ UNCHANGED <<alive, roots>> /\ steps' - 2 = steps - 1
      BY <1>1, <1>2 DEF RootsInv, ownerVars, storeVars
    <2>2. alive' => \A k \in 0..(steps - 1) : steps - 1 - CacheMax < k => k \in roots
      BY <2>1 DEF Window
    <2> QED
      BY <2>1, <2>2 DEF Window
  <1>8. \A k \in roots' : k < steps'
    BY <1>1, <1>2 DEF RootsInv, ownerVars, storeVars
  <1>9. RootsAreKept'
    BY <1>1 DEF RootsInv, RootsAreKept, ownerVars, storeVars
  <1> QED
    BY <1>1, <1>5, <1>6, <1>7, <1>8, <1>9 DEF RootsInv

LEMMA RootsResolve == ASSUME OwnerInv, OwnerInv', RootsInv, Resolve, ~ Fail PROVE RootsInv'
  <1>1. /\ actor' = "ready" /\ staged' = SubSeq(staged, Len(dispatch.entries) + 1, Len(staged))
        /\ UNCHANGED <<steps, alive, ownerVars>> /\ Answered("action") /\ answers["action"].ok
    BY DEF Resolve
  <1>2. Taken
    <2>1. answers["action"].kind = "action"
      BY <1>1, Polling DEF OwnerInv, Types, Answered
    <2> QED
      BY <1>1, <2>1 DEF Taken
  <1>3. staged' = <<>>
    BY <1>1 DEF OwnerInv, LoopInv
  <1>4. ~ (Asked' \/ main'.pc = "stage")
    BY <1>1 DEF OwnerInv, ActionInv, Held
  <1>5. alive' => Window(steps - 1)'
    BY <1>1, <1>2 DEF RootsInv, Window, ownerVars, storeVars
  <1> QED
    BY <1>1, <1>3, <1>4, <1>5 DEF RootsInv, RootsAreKept, ownerVars, storeVars

LEMMA RootsStage == ASSUME OwnerInv, OwnerInv', RootsInv, StageWork PROVE RootsInv'
  <1> DEFINE r == main.request
             all == roots \cup {r.step}
  <1>1. /\ alive /\ main.pc = "stage" /\ roots' = Newest(all)
        /\ work' = IF HasWork(r)
                   THEN Append(work, [request |-> r,
                                      roots |-> all \cap (Needed(r.entries) \cup {r.step})])
                   ELSE work
        /\ main' = [main EXCEPT !.pc = "report", !.pending = Len(work')]
        /\ UNCHANGED <<actor, steps, submitted, staged, commands, alive>>
    BY DEF StageWork, actorVars, queueVars
  <1>2. r = dispatch /\ ~ Asked /\ actor = "waiting"
    BY <1>1 DEF OwnerInv, ActionInv, Held
  <1>3. /\ steps \in Nat /\ steps > 0 /\ r.step = steps - 1 /\ r.entries = staged
        /\ submitted \in Nat /\ staged \in Seq(Nat) /\ Consecutive(staged, submitted)
        /\ roots \in SUBSET Nat /\ work \in Seq(Works)
    BY <1>2 DEF OwnerInv, LoopInv, Types, ActorTypes, OwnerTypes
  <1> HIDE DEF r
  <1>4. /\ all \in SUBSET Nat /\ \A q \in all : q <= steps - 1
        /\ \A k \in 0..(steps - 1) : steps - 1 - CacheMax <= k => k \in all
    <2>1. all \in SUBSET Nat /\ \A q \in all : q <= steps - 1
      BY <1>3 DEF RootsInv
    <2>2. ASSUME NEW k \in 0..(steps - 1), steps - 1 - CacheMax <= k PROVE k \in all
      <3>1. CASE k = steps - 1
        BY <1>3, <3>1
      <3>2. CASE k # steps - 1
        <4>1. k \in 0..(steps - 2) /\ steps - 2 - CacheMax < k
          BY <1>3, <2>2, <3>2, OwnerAssumption
        <4> QED
          BY <1>1, <4>1 DEF RootsInv, Window
      <3> QED
        BY <3>1, <3>2
    <2> QED
      BY <2>1, <2>2
  <1> HIDE DEF all
  <1>5. Window(steps - 1)'
    <2>1. steps - 1 \in Nat
      BY <1>3
    <2>2. \A k \in 0..(steps - 1) : steps - 1 - CacheMax < k => k \in roots'
      <3> SUFFICES ASSUME NEW k \in 0..(steps - 1), steps - 1 - CacheMax < k PROVE k \in roots'
        OBVIOUS
      <3>1. k \in all
        BY <1>3, <1>4, OwnerAssumption
      <3> QED
        BY <1>1, <1>4, <2>1, <3>1, Trimmed
    <2> QED
      BY <1>1, <2>2 DEF Window
  <1>6. \A k \in roots' : k < steps'
    BY <1>1, <1>3, <1>4 DEF Newest
  <1>7. Needed(r.entries) \subseteq all
    <2> SUFFICES ASSUME NEW i \in 1..Len(staged) PROVE {staged[i], staged[i] + 1} \subseteq all
      BY <1>3 DEF Needed
    <2>1. Len(staged) = Batch /\ submitted + Batch = steps - 1 /\ Batch \in Nat /\ Batch <= CacheMax
      <3>1. staged # <<>>
        BY <1>3
      <3> QED
        BY <3>1, OwnerAssumption DEF RootsInv
    <2>2. staged[i] = submitted + i - 1 /\ i \in Nat /\ i >= 1 /\ i <= Batch
      BY <1>3, <2>1 DEF Consecutive
    <2>3. /\ staged[i] \in 0..(steps - 1) /\ staged[i] + 1 \in 0..(steps - 1)
          /\ steps - 1 - CacheMax <= staged[i] /\ steps - 1 - CacheMax <= staged[i] + 1
      <3>1. /\ CacheMax \in Nat /\ Batch \in Nat /\ Batch <= CacheMax /\ steps \in Nat
            /\ submitted \in Nat /\ submitted + Batch = steps - 1
        BY <1>3, <2>1, OwnerAssumption
      <3> DEFINE e == staged[i]
      <3>2. e = submitted + i - 1 /\ i \in Nat /\ i >= 1 /\ i <= Batch
        BY <2>2
      <3> HIDE DEF e
      <3>3. e \in Nat /\ e + 1 <= steps - 1 /\ steps - 1 - CacheMax <= e
        BY <3>1, <3>2
      <3>4. e \in 0..(steps - 1) /\ e + 1 \in 0..(steps - 1) /\ steps - 1 - CacheMax <= e + 1
        BY <3>1, <3>3
      <3> QED
        BY <3>3, <3>4 DEF e
    <2> QED
      BY <1>4, <2>3
  <1>8. RootsAreKept'
    <2>1. \A i \in 1..Len(work) : Needed(work[i].request.entries) \subseteq work[i].roots
      BY DEF RootsInv, RootsAreKept
    <2>2. CASE work' = work
      BY <2>1, <2>2 DEF RootsAreKept
    <2>3. CASE work' # work
      <3> DEFINE w == [request |-> r, roots |-> all \cap (Needed(r.entries) \cup {r.step})]
      <3>1. work' = Append(work, w)
        BY <1>1, <2>3
      <3>2. Needed(w.request.entries) \subseteq w.roots
        BY <1>7
      <3> HIDE DEF w
      <3>3. /\ Len(work') = Len(work) + 1 /\ \A i \in 1..Len(work) : work'[i] = work[i]
            /\ work'[Len(work) + 1] = w
            /\ 1..(Len(work) + 1) = 1..Len(work) \cup {Len(work) + 1}
        BY <1>3, <3>1
      <3> QED
        BY <2>1, <3>2, <3>3 DEF RootsAreKept
    <2> QED
      BY <2>2, <2>3
  <1>9. ~ (Asked' \/ main'.pc = "stage")
    <2>1. main'.pc = "report"
      BY <1>1 DEF OwnerInv, Types, OwnerTypes, Thread
    <2> QED
      BY <1>1, <1>2, <2>1 DEF Asked
  <1>10. staged' # <<>> => Len(staged') = Batch /\ submitted' + Batch = steps' - 1
    BY <1>1 DEF RootsInv
  <1> QED
    BY <1>5, <1>6, <1>8, <1>9, <1>10 DEF RootsInv

\* The main thread's other steps, and those of the thread that completes the futures.
LEMMA RootsMain ==
    ASSUME OwnerInv, RootsInv, UNCHANGED async,
           \/ TakeCommand \/ ReportAction \/ CloseService \/ CloseJobs
           \/ Collect \/ RunJob \/ ProcessDies
    PROVE  RootsInv'
  <1>1. CASE TakeCommand
    <2>1. /\ main.pc = "idle" /\ commands # <<>> /\ commands' = Tail(commands)
          /\ UNCHANGED <<actorVars, alive, storeVars>>
      BY <1>1 DEF TakeCommand
    <2>2. /\ Head(commands).kind = "action" => Asked /\ ~ Asked'
          /\ Head(commands).kind # "action" => Asked' = Asked
      BY <2>1, Fetched DEF actorVars
    <2>3. main \in Thread
      BY DEF OwnerInv, Types, OwnerTypes
    <2>4. main'.pc = "stage" => Head(commands).kind = "action"
      <3>1. \/ Head(commands).kind = "action"
            \/ main' = main \/ main' = [main EXCEPT !.pc = "close"]
        BY <1>1 DEF TakeCommand
      <3> QED
        BY <2>1, <2>3, <3>1 DEF Thread
    <2>5. Taken' = Taken
      BY <1>1, TakeCommandKeeps
    <2> QED
      BY <2>1, <2>2, <2>4, <2>5, RootsFrame DEF actorVars, storeVars
  <1>2. CASE ReportAction
    <2>1. main.pc = "report" /\ main' = Idle /\ UNCHANGED <<actorVars, commands, alive, storeVars>>
      BY <1>2 DEF ReportAction
    <2>2. Taken /\ Asked' = Asked /\ main'.pc = "idle"
      BY <2>1 DEF Taken, Asked, Idle
    <2> QED
      BY <2>1, <2>2, RootsFrame DEF actorVars, storeVars
  <1>3. CASE CloseService \/ ProcessDies
    <2>1. ~ alive' /\ UNCHANGED <<staged, submitted, steps, roots, work>>
      BY <1>3 DEF CloseService, ProcessDies, actorVars, ownerVars, storeVars
    <2> QED
      BY <2>1, RootsFrame
  <1>4. CASE CloseJobs \/ RunJob
    <2>1. UNCHANGED <<actorVars, queueVars, main, work, roots>> /\ (alive' => alive)
      BY <1>4 DEF CloseJobs, RunJob, storeVars
    <2>2. Taken' = Taken /\ Asked' = Asked
      BY <2>1 DEF Taken, Asked, queueVars
    <2> QED
      BY <2>1, <2>2, RootsFrame DEF actorVars
  <1>5. CASE Collect
    <2>1. UNCHANGED <<actorVars, commands, alive, ownerVars>>
      BY <1>5 DEF Collect
    <2>2. Taken' = Taken /\ Asked' = Asked
      BY <1>5, <2>1, CollectKeeps DEF Asked
    <2> QED
      BY <2>1, <2>2, RootsFrame DEF actorVars, ownerVars, storeVars
  <1> QED
    BY <1>1, <1>2, <1>3, <1>4, <1>5

LEMMA RootsMaint == ASSUME OwnerInv, RootsInv, MaintStep PROVE RootsInv'
  <1>1. Others
    BY DEF MaintStep, TakeDrain, Poll, SetTarget, AppendReplay, TrainItem, RefreshSearch, ItemsDone,
           CountPending, ReportDrain
  <1>2. UNCHANGED results \/ \E ok \in BOOLEAN, n \in Nat : Post(Answer("drain", ok, n, FALSE))
    <2>1. maint.pending \in Nat
      BY DEF OwnerInv, Types, OwnerTypes, Thread
    <2> QED
      BY <2>1 DEF MaintStep, TakeDrain, Poll, SetTarget, AppendReplay, TrainItem, RefreshSearch,
                  ItemsDone, CountPending, ReportDrain, Break
  <1>3. Taken' = Taken
    <2>1. CASE UNCHANGED results
      BY <1>1, <2>1 DEF Taken, Others
    <2>2. ASSUME NEW ok \in BOOLEAN, NEW n \in Nat, Post(Answer("drain", ok, n, FALSE))
          PROVE  Taken' = Taken
      <3>1. Answer("drain", ok, n, FALSE) \in Answers
        BY ConstantTypes
      <3> QED
        BY <1>1, <2>2, <3>1, PostFrame DEF OwnerInv, Types, Others, actorVars, Answer
    <2> QED
      BY <1>2, <2>1, <2>2
  <1>4. Asked' = Asked
    BY <1>1 DEF Others, Asked
  <1>5. CASE UNCHANGED work
    BY <1>1, <1>3, <1>4, <1>5, RootsFrame DEF Others, actorVars
  <1>6. CASE work # <<>> /\ work' = Tail(work)
    <2>1. work \in Seq(Works)
      BY DEF OwnerInv, Types, OwnerTypes
    <2>2. /\ Len(work') = Len(work) - 1
          /\ \A i \in 1..(Len(work) - 1) : work'[i] = work[i + 1] /\ i + 1 \in 1..Len(work)
      BY <1>6, <2>1, HeadAndTail
    <2>3. RootsAreKept'
      BY <2>2 DEF RootsInv, RootsAreKept
    <2> QED
      BY <1>1, <1>3, <1>4, <2>3 DEF RootsInv, Window, Others, actorVars
  <1> QED
    BY <1>5, <1>6 DEF MaintStep, TakeDrain, Poll, SetTarget, AppendReplay, TrainItem, RefreshSearch,
                      ItemsDone, CountPending, ReportDrain, Break

LEMMA RootsNext == ASSUME OwnerInv, OwnerInv', RootsInv, [Next]_vars PROVE RootsInv'
  <1>1. CASE UNCHANGED vars
    BY <1>1, RootsFrame DEF vars, actorVars, queueVars, ownerVars, storeVars, Asked, Taken
  <1>2. CASE Next
    <2>1. UNCHANGED async
      BY <1>2 DEF Next
    <2> QED
      BY <1>2, <2>1, RootsLoop, RootsSubmit, RootsResolve, RootsStage, RootsMain, RootsMaint
         DEF Next, ActorStep, MainStep
  <1> QED
    BY <1>1, <1>2

\* Work has the roots its transitions need, for every size of the batches and of the
\* cache: the roots of a batch are at hand when it is staged, although the cache was
\* trimmed at every action since, and trimming it later takes none from the work.
THEOREM RootsCorrect == Spec => []RootsAreKept
  <1>1. ASSUME Init PROVE RootsInv
    <2>1. /\ work = <<>> /\ staged = <<>> /\ roots = {} /\ steps = 0 /\ main.pc = "idle"
          /\ commands = <<>> /\ Len(work) = 0 /\ Len(commands) = 0
      BY <1>1 DEF Init, Idle
    <2>2. ~ Asked
      BY <2>1 DEF Asked
    <2> QED
      BY <2>1, <2>2 DEF RootsInv, RootsAreKept, Window
  <1>2. OwnerInv /\ OwnerInv' /\ RootsInv /\ [Next]_vars => RootsInv'
    BY RootsNext
  <1>3. RootsInv => RootsAreKept
    BY DEF RootsInv
  <1> QED
    BY <1>1, <1>2, <1>3, OwnerInvariant, PTL DEF Spec

(***************************************************************************)
(* The queues are bounded.                                                 *)
(***************************************************************************)
LEMMA OnceAppended ==
    ASSUME NEW S, NEW s \in Seq(S), NEW x \in S, Once(s), ~ Has(s, x.kind)
    PROVE  /\ Once(Append(s, x))
           /\ \A k : Has(Append(s, x), k) <=> Has(s, k) \/ k = x.kind
  <1> DEFINE t == Append(s, x)
  <1>1. /\ t \in Seq(S) /\ Len(t) = Len(s) + 1 /\ Len(s) \in Nat
        /\ \A i \in 1..Len(s) : t[i] = s[i]
        /\ t[Len(s) + 1] = x /\ 1..(Len(s) + 1) = 1..Len(s) \cup {Len(s) + 1}
    BY Appended
  <1> HIDE DEF t
  <1>2. Once(t)
    BY <1>1 DEF Once, Has
  <1>3. \A k : Has(t, k) <=> Has(s, k) \/ k = x.kind
    BY <1>1 DEF Has
  <1> QED
    BY <1>2, <1>3 DEF t

LEMMA OnceTail ==
    ASSUME NEW S, NEW s \in Seq(S), s # <<>>, Once(s)
    PROVE  /\ Once(Tail(s)) /\ Has(s, Head(s).kind)
           /\ \A k : Has(Tail(s), k) <=> Has(s, k) /\ k # Head(s).kind
  <1> DEFINE t == Tail(s)
             l == Len(s)
  <1>1. /\ Head(s) = s[1] /\ l \in Nat /\ l > 0 /\ Len(t) = l - 1
        /\ \A i \in 1..(l - 1) : t[i] = s[i + 1] /\ i + 1 \in 1..l
        /\ 1 \in 1..l
    BY HeadAndTail
  <1>2. \A i, j \in 1..l : s[i].kind = s[j].kind => i = j
    BY DEF Once
  <1>3. \A k : Has(s, k) <=> \E i \in 1..l : s[i].kind = k
    BY DEF Has
  <1> HIDE DEF t, l
  <1>4. Once(t)
    <2> SUFFICES ASSUME NEW i \in 1..(l - 1), NEW j \in 1..(l - 1), t[i].kind = t[j].kind
                 PROVE  i = j
      BY <1>1 DEF Once
    <2>1. t[i] = s[i + 1] /\ i + 1 \in 1..l /\ t[j] = s[j + 1] /\ j + 1 \in 1..l
      BY <1>1
    <2>2. s[i + 1].kind = s[j + 1].kind
      BY <2>1
    <2>3. i + 1 = j + 1
      BY <1>2, <2>1, <2>2
    <2> QED
      BY <1>1, <2>3
  <1>5. Has(s, Head(s).kind)
    BY <1>1, <1>3
  <1>6. ASSUME NEW k, Has(t, k) PROVE Has(s, k) /\ k # Head(s).kind
    <2>1. PICK i \in 1..(l - 1) : t[i].kind = k
      BY <1>1, <1>6 DEF Has
    <2>2. s[i + 1].kind = k /\ i + 1 \in 1..l /\ i + 1 # 1
      BY <1>1, <2>1
    <2> QED
      BY <1>1, <1>2, <1>3, <2>2
  <1>7. ASSUME NEW k, Has(s, k), k # Head(s).kind PROVE Has(t, k)
    <2>1. PICK i \in 1..l : s[i].kind = k
      BY <1>3, <1>7
    <2>2. i - 1 \in 1..(l - 1) /\ i - 1 + 1 = i
      BY <1>1, <1>7, <2>1
    <2>3. t[i - 1].kind = k
      BY <1>1, <2>1, <2>2
    <2> QED
      BY <1>1, <2>2, <2>3 DEF Has
  <1> QED
    BY <1>4, <1>5, <1>6, <1>7 DEF t

\* An answer, and a command, that comes to the end of its queue.
LEMMA PostOnce ==
    ASSUME OwnerInv, BoundInv, NEW k \in {"action", "drain", "close"}, NEW ok \in BOOLEAN,
           NEW n \in Nat, NEW t \in BOOLEAN, Post(Answer(k, ok, n, t)), ~ Replied(k)
    PROVE  /\ Once(results') /\ \A kind : Replied(kind)' <=> Replied(kind) \/ kind = k
  <1> DEFINE a == Answer(k, ok, n, t)
  <1>1. a \in Answers /\ a.kind = k
    BY ConstantTypes DEF Answer
  <1>2. results \in Seq(Answers) /\ Once(results) /\ results' = Append(results, a)
    BY DEF OwnerInv, Types, QueueTypes, BoundInv, Post
  <1> HIDE DEF a
  <1> QED
    BY <1>1, <1>2, OnceAppended DEF Replied

LEMMA OrderOnce ==
    ASSUME OwnerInv, BoundInv, NEW k \in {"action", "drain", "close"}, NEW r \in Request,
           commands' = Append(commands, Command(k, r)), ~ Queued(k)
    PROVE  /\ Once(commands') /\ \A kind : Queued(kind)' <=> Queued(kind) \/ kind = k
  <1> DEFINE c == Command(k, r)
  <1>1. c \in Commands /\ c.kind = k
    BY ConstantTypes DEF Command
  <1>2. commands \in Seq(Commands) /\ Once(commands) /\ commands' = Append(commands, c)
    BY DEF OwnerInv, Types, QueueTypes, BoundInv
  <1> HIDE DEF c
  <1> QED
    BY <1>1, <1>2, OnceAppended DEF Queued

LEMMA AskedIsQueued == (Asked <=> Queued("action")) /\ (Reported <=> Replied("action"))
  BY DEF Asked, Reported, Queued, Replied, Has

\* Steps that leave the queues and what bounds them alone.
LEMMA BoundFrame ==
    ASSUME BoundInv, UNCHANGED <<commands, results, drains, answers, inflight, steps>>,
           maint'.pc = maint.pc, main'.pc # "close" \/ main'.pc = main.pc, alive' => alive,
           actor \in {"closing", "closed"} => actor' \in {"closing", "closed"},
           faults' <= MaxFaults, Len(jobs') <= MaxPending
    PROVE  BoundInv'
  <1>1. DrainInv'
    BY DEF BoundInv, DrainInv, Queued, Replied, Has, Answered
  <1>2. CloseInv'
    BY DEF BoundInv, CloseInv, Queued, Replied, Has, Asked
  <1>3. Once(commands') /\ Once(results') /\ steps' <= MaxSteps
    BY DEF BoundInv
  <1> QED
    BY <1>1, <1>2, <1>3 DEF BoundInv

\* A look at the drain that is out: when it is done, nothing of it is left.
LEMMA DrainPolled ==
    ASSUME DrainInv, UNCHANGED <<drains, results>>, maint'.pc = maint.pc,
           inflight' <=> (inflight /\ ~ DrainDone),
           answers'["drain"] = IF DrainDone THEN NoAnswer ELSE answers["drain"],
           Queued("drain")' => Queued("drain")
    PROVE  DrainInv'
  <1>1. CASE DrainDone
    <2>1. ~ inflight' /\ answers'["drain"] = NoAnswer
      BY <1>1
    <2>2. /\ drains = <<>> /\ maint.pc = "idle" /\ ~ Replied("drain") /\ ~ Queued("drain")
          /\ Len(drains) <= 1
      BY <1>1 DEF DrainDone, DrainInv
    <2> QED
      BY <2>1, <2>2 DEF DrainInv, Replied, Has, Answered
  <1>2. CASE ~ DrainDone
    <2>1. (inflight' <=> inflight) /\ answers'["drain"] = answers["drain"]
      BY <1>2
    <2> QED
      BY <2>1 DEF DrainInv, Replied, Has, Answered
  <1> QED
    BY <1>1, <1>2

\* A drain is asked for when none is out.
LEMMA DrainOrdered ==
    ASSUME DrainInv, UNCHANGED <<drains, results>>, maint'.pc = maint.pc, inflight',
           ~ inflight \/ DrainDone,
           answers'["drain"] = IF DrainDone THEN NoAnswer ELSE answers["drain"]
    PROVE  ~ Queued("drain") /\ DrainInv'
  <1>1. /\ drains = <<>> /\ maint.pc = "idle" /\ ~ Replied("drain") /\ ~ Queued("drain")
        /\ Len(drains) <= 1
    BY DEF DrainDone, DrainInv
  <1>2. answers'["drain"] = NoAnswer
    BY DEF DrainInv, Answered
  <1> QED
    BY <1>1, <1>2 DEF DrainInv, Replied, Has, Answered

\* Only the game loop acts, and it asks for an action or a drain.
LEMMA CloseFrame ==
    ASSUME CloseInv, actor \notin {"closing", "closed"}, UNCHANGED <<main, results, alive>>,
           Queued("close")' => Queued("close")
    PROVE  CloseInv'
  BY DEF CloseInv, Replied, Has

\* A command to close is sent once, and only while no action is out.
LEMMA CloseOrdered ==
    ASSUME OwnerInv, BoundInv, alive, ~ Asked, actor \notin {"closing", "closed"},
           actor' \in {"closing", "closed"},
           commands' = Append(commands, Command("close", NoRequest)),
           UNCHANGED <<results, drains, answers, inflight, steps, maint, main, jobs, alive, faults>>
    PROVE  BoundInv'
  <1>1. ~ Queued("close") /\ main.pc # "close" /\ ~ Replied("close")
    BY DEF BoundInv, CloseInv
  <1>2. Once(commands') /\ \A kind : Queued(kind)' <=> Queued(kind) \/ kind = "close"
    BY <1>1, OrderOnce, ConstantTypes
  <1>3. Replied("close")' <=> Replied("close")
    BY DEF Replied, Has
  <1>4. ~ Asked'
    <2>1. ~ Queued("action")'
      BY <1>2, AskedIsQueued
    <2> QED
      BY <2>1 DEF Asked, Queued, Has
  <1>5. CloseInv'
    BY <1>1, <1>3, <1>4 DEF CloseInv
  <1>6. DrainInv'
    <2>1. (Queued("drain")' <=> Queued("drain")) /\ (Replied("drain")' <=> Replied("drain"))
      BY <1>2 DEF Replied, Has
    <2> QED
      BY <2>1 DEF BoundInv, DrainInv, Answered
  <1> QED
    BY <1>2, <1>5, <1>6 DEF BoundInv

LEMMA BoundFail ==
    ASSUME BoundInv, Fail, actor \notin {"closing", "closed"},
           UNCHANGED <<alive, ownerVars, faults>>
    PROVE  BoundInv'
  <1>1. /\ UNCHANGED <<commands, results, answers, inflight, steps, drains, maint, main, jobs>>
        /\ faults' <= MaxFaults /\ Len(jobs') <= MaxPending
    BY DEF Fail, queueVars, ownerVars, storeVars, BoundInv
  <1> QED
    BY <1>1, BoundFrame

LEMMA BoundSubmit == ASSUME OwnerInv, OwnerInv', BoundInv, Submit PROVE BoundInv'
  <1>1. actor = "ready" /\ steps < MaxSteps /\ UNCHANGED <<alive, ownerVars, faults>>
    BY DEF Submit
  <1>2. CASE Fail
    BY <1>1, <1>2, BoundFail
  <1>3. CASE ~ Fail
    <2>1. /\ Polled /\ commands' = Append(commands, Command("action", dispatch'))
          /\ steps' = steps + 1 /\ UNCHANGED results
      BY <1>3 DEF Submit
    <2>2. /\ dispatch' \in Request /\ steps \in Nat /\ MaxSteps \in Nat
          /\ answers \in [{"action", "drain", "close"} -> Answers]
      BY OwnerAssumption DEF OwnerInv, Types, ActorTypes, QueueTypes
    <2>3. ~ Queued("action")
      BY <1>1, AskedIsQueued DEF OwnerInv, ActionInv
    <2>4. Once(commands') /\ \A kind : Queued(kind)' <=> Queued(kind) \/ kind = "action"
      BY <2>1, <2>2, <2>3, OrderOnce
    <2>5. (Queued("drain")' <=> Queued("drain")) /\ (Queued("close")' <=> Queued("close"))
      BY <2>4
    <2>6. DrainInv'
      <3>1. /\ DrainInv /\ UNCHANGED <<drains, results, maint>>
            /\ (inflight' <=> (inflight /\ ~ DrainDone))
            /\ answers'["drain"] = IF DrainDone THEN NoAnswer ELSE answers["drain"]
        BY <1>1, <2>1, <2>2 DEF BoundInv, Polled, ownerVars
      <3> QED
        BY <2>5, <3>1, DrainPolled
    <2>7. CloseInv'
      BY <1>1, <2>1, <2>5, CloseFrame DEF BoundInv, ownerVars
    <2>8. steps' <= MaxSteps
      BY <1>1, <2>1, <2>2
    <2> QED
      BY <1>1, <2>1, <2>4, <2>6, <2>7, <2>8 DEF BoundInv, ownerVars, storeVars
  <1> QED
    BY <1>2, <1>3

LEMMA BoundResolve == ASSUME OwnerInv, BoundInv, Resolve PROVE BoundInv'
  <1>1. actor = "waiting" /\ UNCHANGED <<alive, ownerVars, faults>>
    BY DEF Resolve
  <1>2. CASE Fail
    BY <1>1, <1>2, BoundFail
  <1>3. CASE ~ Fail
    <2> DEFINE due == /\ answers["action"].staged /\ ~ (inflight /\ ~ DrainDone)
                      /\ dispatch.train > 0
    <2>1. /\ (inflight' <=> (due \/ (inflight /\ ~ DrainDone)))
          /\ answers' = [answers EXCEPT !["action"] = NoAnswer,
                            !["drain"] = IF DrainDone THEN NoAnswer ELSE @]
          /\ commands' = IF due THEN Append(commands, Command("drain", NoRequest)) ELSE commands
          /\ UNCHANGED <<steps, results>>
      BY <1>3 DEF Resolve
    <2>2. due => ~ inflight \/ DrainDone
      OBVIOUS
    <2> HIDE DEF due
    <2>3. answers \in [{"action", "drain", "close"} -> Answers] /\ inflight \in BOOLEAN
      BY DEF OwnerInv, Types, QueueTypes, ActorTypes
    <2>4. answers'["drain"] = IF DrainDone THEN NoAnswer ELSE answers["drain"]
      BY <2>1, <2>3
    <2>5. DrainInv /\ CloseInv /\ UNCHANGED <<drains, results, maint, main, alive, jobs>>
      BY <1>1, <2>1 DEF BoundInv, ownerVars, storeVars
    <2>6. CASE due
      <3>1. inflight' /\ commands' = Append(commands, Command("drain", NoRequest))
        BY <2>1, <2>6
      <3>2. ~ Queued("drain") /\ DrainInv'
        BY <2>2, <2>4, <2>5, <2>6, <3>1, DrainOrdered
      <3>3. Once(commands') /\ \A kind : Queued(kind)' <=> Queued(kind) \/ kind = "drain"
        BY <3>1, <3>2, OrderOnce, ConstantTypes
      <3>4. Queued("close")' <=> Queued("close")
        BY <3>3
      <3>5. CloseInv'
        BY <1>1, <2>5, <3>4, CloseFrame
      <3> QED
        BY <1>1, <2>1, <2>5, <3>2, <3>3, <3>5 DEF BoundInv
    <2>7. CASE ~ due
      <3>1. (inflight' <=> (inflight /\ ~ DrainDone)) /\ commands' = commands
        BY <2>1, <2>7
      <3>2. (Queued("drain")' <=> Queued("drain")) /\ (Queued("close")' <=> Queued("close"))
        BY <3>1 DEF Queued, Has
      <3>3. DrainInv'
        BY <2>4, <2>5, <3>1, <3>2, DrainPolled
      <3>4. CloseInv'
        BY <1>1, <2>5, <3>2, CloseFrame
      <3>5. Once(commands')
        BY <3>1 DEF BoundInv
      <3> QED
        BY <1>1, <2>1, <2>5, <3>3, <3>4, <3>5 DEF BoundInv
    <2> QED
      BY <2>6, <2>7
  <1> QED
    BY <1>2, <1>3

LEMMA BoundFinalDrain == ASSUME OwnerInv, BoundInv, FinalDrain PROVE BoundInv'
  <1>1. /\ actor = "draining" /\ UNCHANGED <<steps, results, alive, ownerVars, faults>>
        /\ DrainInv /\ CloseInv /\ UNCHANGED <<drains, maint, main, jobs>>
        /\ Once(commands) /\ Once(results)
        /\ steps <= MaxSteps /\ faults <= MaxFaults /\ Len(jobs) <= MaxPending
    BY DEF FinalDrain, BoundInv, ownerVars, storeVars
  <1>2. ~ Asked
    BY <1>1 DEF OwnerInv, ActionInv
  <1>3. CASE Fail
    BY <1>1, <1>3, BoundFail
  <1>4. CASE DrainDone /\ Polled /\ UNCHANGED commands
    <2>1. answers \in [{"action", "drain", "close"} -> Answers]
      BY DEF OwnerInv, Types, QueueTypes
    <2>2. /\ (inflight' <=> (inflight /\ ~ DrainDone))
          /\ answers'["drain"] = IF DrainDone THEN NoAnswer ELSE answers["drain"]
      BY <1>4, <2>1 DEF Polled
    <2>3. /\ (Queued("drain")' <=> Queued("drain")) /\ (Queued("close")' <=> Queued("close"))
          /\ Once(commands')
      BY <1>1, <1>4 DEF Queued, Has, Once
    <2>4. DrainInv'
      BY <1>1, <2>2, <2>3, DrainPolled
    <2>5. CloseInv'
      BY <1>1, <2>3, CloseFrame
    <2> QED
      BY <1>1, <2>3, <2>4, <2>5 DEF BoundInv
  <1>5. CASE /\ ~ inflight /\ inflight' /\ UNCHANGED <<actor, answers>>
             /\ commands' = Append(commands, Command("drain", NoRequest))
    <2>1. ~ DrainDone
      BY <1>5 DEF DrainDone
    <2>2. ~ Queued("drain") /\ DrainInv'
      BY <1>1, <1>5, <2>1, DrainOrdered
    <2>3. Once(commands') /\ \A kind : Queued(kind)' <=> Queued(kind) \/ kind = "drain"
      BY <1>5, <2>2, OrderOnce, ConstantTypes
    <2>4. Queued("close")' <=> Queued("close")
      BY <2>3
    <2>5. CloseInv'
      BY <1>1, <2>4, CloseFrame
    <2> QED
      BY <1>1, <2>2, <2>3, <2>5 DEF BoundInv
  <1>6. CASE /\ actor' = "closing" /\ UNCHANGED <<inflight, answers>>
             /\ commands' = IF alive THEN Append(commands, Command("close", NoRequest))
                            ELSE commands
    <2>1. CASE alive
      <3>1. commands' = Append(commands, Command("close", NoRequest))
        BY <1>6, <2>1
      <3> QED
        BY <1>1, <1>2, <1>6, <2>1, <3>1, CloseOrdered
    <2>2. CASE ~ alive
      BY <1>1, <1>6, <2>2, BoundFrame
    <2> QED
      BY <2>1, <2>2
  <1> QED
    BY <1>3, <1>4, <1>5, <1>6 DEF FinalDrain

LEMMA BoundClosing ==
    ASSUME OwnerInv, BoundInv, Finish \/ CloseAnyway \/ Closed \/ ProcessDies
    PROVE  BoundInv'
  <1>1. faults \in Nat /\ faults <= MaxFaults /\ MaxFaults \in Nat /\ Len(jobs) <= MaxPending
    BY OwnerAssumption DEF OwnerInv, Types, OwnerTypes, BoundInv
  <1>2. CASE Finish
    <2>1. UNCHANGED <<commands, results, drains, answers, inflight, steps, maint, main, jobs,
                      alive, faults>> /\ actor = "ready"
      BY <1>2 DEF Finish, queueVars, ownerVars, storeVars
    <2> QED
      BY <1>1, <2>1, BoundFrame
  <1>3. CASE CloseAnyway
    <2>1. /\ actor = "failed" /\ alive /\ actor' = "closing"
          /\ commands' = Append(commands, Command("close", NoRequest))
          /\ UNCHANGED <<results, drains, answers, inflight, steps, maint, main, jobs, alive,
                         faults>>
      BY <1>3 DEF CloseAnyway, ownerVars, storeVars
    <2>2. ~ Asked
      BY <2>1 DEF OwnerInv, ActionInv
    <2> QED
      BY <2>1, <2>2, CloseOrdered
  <1>4. CASE Closed \/ ProcessDies
    <2>1. /\ ~ alive' /\ faults' \in {faults, faults + 1}
          /\ faults' # faults => faults < MaxFaults
          /\ UNCHANGED <<commands, results, drains, answers, inflight, steps, maint, main, jobs>>
          /\ actor' = actor \/ (actor = "closing" /\ actor' = "closed")
      BY <1>4 DEF Closed, ProcessDies, Fault, actorVars, queueVars, ownerVars, storeVars
    <2>2. faults' <= MaxFaults
      BY <1>1, <2>1
    <2> QED
      BY <1>1, <2>1, <2>2, BoundFrame
  <1> QED
    BY <1>2, <1>3, <1>4

\* The thread that completes the futures moves an answer on.
LEMMA BoundCollect == ASSUME OwnerInv, BoundInv, Collect PROVE BoundInv'
  <1> DEFINE a == Head(results)
  <1>1. /\ results # <<>> /\ results' = Tail(results) /\ answers' = [answers EXCEPT ![a.kind] = a]
        /\ UNCHANGED <<actor, steps, inflight, commands, alive, main, maint, drains, jobs, faults>>
    BY DEF Collect, actorVars, ownerVars, storeVars
  <1>2. /\ results \in Seq(Answers) /\ answers \in [{"action", "drain", "close"} -> Answers]
        /\ \A i \in 1..Len(results) : results[i].kind # "none"
    BY DEF OwnerInv, Types, QueueTypes
  <1>3. a.kind \in {"action", "drain", "close"}
    <2>1. a \in Answers /\ a = results[1] /\ 1 \in 1..Len(results)
      BY <1>1, <1>2, HeadAndTail
    <2> QED
      BY <1>2, <2>1 DEF Answers
  <1>4. Once(results') /\ Replied(a.kind) /\ \A k : Replied(k)' <=> Replied(k) /\ k # a.kind
    BY <1>1, <1>2, OnceTail DEF BoundInv, Replied
  <1>5. \A k \in {"action", "drain", "close"} : answers'[k] = IF k = a.kind THEN a ELSE answers[k]
    BY <1>1, <1>2, <1>3
  <1> HIDE DEF a
  <1>6. \A k : Queued(k)' <=> Queued(k)
    BY <1>1 DEF Queued, Has
  <1>7. (Replied("drain")' => Replied("drain")) /\ (Replied("close")' => Replied("close"))
    BY <1>4
  <1>8. DrainInv'
    <2>1. (Queued("drain")' <=> Queued("drain")) /\ DrainInv
      BY <1>6 DEF BoundInv
    <2>2. CASE a.kind = "drain"
      <3>1. Replied("drain") /\ ~ Replied("drain")'
        BY <1>4, <2>2
      <3> QED
        BY <1>1, <2>1, <3>1 DEF DrainInv
    <2>3. CASE a.kind # "drain"
      <3>1. answers'["drain"] = answers["drain"] /\ (Replied("drain")' <=> Replied("drain"))
        BY <1>4, <1>5, <2>3
      <3> QED
        BY <1>1, <2>1, <3>1 DEF DrainInv, Answered
    <2> QED
      BY <2>2, <2>3
  <1>9. CloseInv'
    <2>1. (Queued("close")' <=> Queued("close")) /\ (Asked' <=> Asked) /\ CloseInv
      BY <1>1, <1>6 DEF BoundInv, Asked
    <2> QED
      BY <1>1, <1>7, <2>1 DEF CloseInv
  <1>10. Once(commands')
    BY <1>1 DEF BoundInv
  <1> QED
    BY <1>1, <1>4, <1>8, <1>9, <1>10 DEF BoundInv

\* What the bounds say of the steps that inject a fault.
LEMMA FaultsBounded ==
    ASSUME OwnerInv, BoundInv, UNCHANGED faults \/ \E kind : Fault(kind)
    PROVE  faults' <= MaxFaults
  BY OwnerAssumption DEF OwnerInv, Types, OwnerTypes, BoundInv, Fault

LEMMA BoundTakeCommand == ASSUME OwnerInv, BoundInv, TakeCommand PROVE BoundInv'
  <1> DEFINE c == Head(commands)
  <1>1. /\ main.pc = "idle" /\ alive /\ commands # <<>> /\ commands' = Tail(commands)
        /\ UNCHANGED <<actor, steps, inflight, answers, alive, maint, jobs>>
        /\ DrainInv /\ CloseInv /\ Once(commands) /\ Once(results)
        /\ steps <= MaxSteps /\ Len(jobs) <= MaxPending
    BY DEF TakeCommand, actorVars, storeVars, BoundInv
  <1>2. commands \in Seq(Commands) /\ main \in Thread
    BY DEF OwnerInv, Types, QueueTypes, OwnerTypes
  <1>3. Once(commands') /\ Queued(c.kind) /\ \A k : Queued(k)' <=> Queued(k) /\ k # c.kind
    BY <1>1, <1>2, OnceTail DEF Queued
  <1>4. faults' <= MaxFaults
    BY FaultsBounded DEF TakeCommand
  <1>5. Asked' => Asked
    BY <1>3, AskedIsQueued DEF Asked, Queued, Has
  <1>6. /\ Queued("drain")' => Queued("drain") /\ c.kind # "drain"
        /\ Queued("close")' => Queued("close") /\ c.kind # "close"
    BY <1>3
  <1>7. CASE c.kind = "action" /\ main' = [main EXCEPT !.pc = "stage", !.request = c.request]
             /\ UNCHANGED <<results, drains>>
    <2>1. main'.pc = "stage" /\ Once(results')
      BY <1>1, <1>2, <1>7 DEF Thread
    <2>2. CloseInv' /\ DrainInv'
      BY <1>1, <1>5, <1>6, <1>7, <2>1 DEF CloseInv, DrainInv, Replied, Has, Answered
    <2> QED
      BY <1>1, <1>3, <1>4, <2>1, <2>2 DEF BoundInv
  <1>8. CASE c.kind = "action" /\ Post(Answer("action", FALSE, 0, FALSE))
             /\ UNCHANGED <<main, drains>>
    <2>1. ~ Replied("action")
      BY <1>3, <1>8, AskedIsQueued DEF OwnerInv, ActionInv
    <2>2. Once(results') /\ \A k : Replied(k)' <=> Replied(k) \/ k = "action"
      BY <1>8, <2>1, PostOnce
    <2>3. (Replied("drain")' <=> Replied("drain")) /\ (Replied("close")' <=> Replied("close"))
      BY <2>2
    <2>4. CloseInv' /\ DrainInv'
      BY <1>1, <1>5, <1>6, <1>8, <2>3 DEF CloseInv, DrainInv, Answered
    <2> QED
      BY <1>1, <1>3, <1>4, <2>2, <2>4 DEF BoundInv
  <1>9. CASE c.kind = "drain" /\ drains' = Append(drains, "drain") /\ UNCHANGED <<main, results>>
    <2>1. /\ Queued("drain") /\ ~ Queued("drain")' /\ drains = <<>> /\ inflight
          /\ maint.pc = "idle" /\ ~ Replied("drain") /\ ~ Answered("drain")
      BY <1>1, <1>3, <1>6, <1>9 DEF DrainInv
    <2>2. Len(drains') = 1
      BY <1>9, <2>1
    <2>3. CloseInv'
      BY <1>1, <1>5, <1>6, <1>9 DEF CloseInv, Replied, Has
    <2>4. DrainInv'
      BY <1>1, <1>9, <2>1, <2>2 DEF DrainInv, Replied, Has, Answered
    <2>5. Once(results')
      BY <1>1, <1>9
    <2> QED
      BY <1>1, <1>3, <1>4, <2>3, <2>4, <2>5 DEF BoundInv
  <1>10. CASE c.kind = "close" /\ main' = [main EXCEPT !.pc = "close"]
              /\ UNCHANGED <<results, drains>>
    <2>1. ~ Queued("close")' /\ actor \in {"closing", "closed"} /\ Once(results')
      BY <1>1, <1>3, <1>6, <1>10 DEF CloseInv
    <2>2. CloseInv' /\ DrainInv'
      BY <1>1, <1>6, <1>10, <2>1 DEF CloseInv, DrainInv, Replied, Has, Answered
    <2> QED
      BY <1>1, <1>3, <1>4, <2>1, <2>2 DEF BoundInv
  <1> QED
    BY <1>7, <1>8, <1>9, <1>10 DEF TakeCommand

\* An action is answered when none has been.
LEMMA BoundReport == ASSUME OwnerInv, BoundInv, ReportAction PROVE BoundInv'
  <1>1. /\ main.pc = "report" /\ main'.pc = "idle"
        /\ Post(Answer("action", TRUE, main.pending, HasWork(main.request)))
        /\ UNCHANGED <<actor, steps, inflight, commands, answers, alive, maint, drains, jobs,
                       faults>>
    BY DEF ReportAction, actorVars, storeVars, Idle
  <1>2. main.pending \in Nat /\ HasWork(main.request) \in BOOLEAN
    BY DEF OwnerInv, Types, OwnerTypes, Thread, HasWork
  <1>3. ~ Replied("action")
    BY <1>1, AskedIsQueued DEF OwnerInv, ActionInv, Held
  <1>4. Once(results') /\ \A k : Replied(k)' <=> Replied(k) \/ k = "action"
    BY <1>1, <1>2, <1>3, PostOnce
  <1>5. /\ (Replied("drain")' <=> Replied("drain")) /\ (Replied("close")' <=> Replied("close"))
        /\ (Queued("drain")' <=> Queued("drain")) /\ (Queued("close")' <=> Queued("close"))
        /\ (Asked' <=> Asked) /\ Once(commands')
    BY <1>1, <1>4 DEF Queued, Has, Asked, BoundInv
  <1>6. CloseInv' /\ DrainInv'
    BY <1>1, <1>5 DEF BoundInv, CloseInv, DrainInv, Answered
  <1> QED
    BY <1>1, <1>4, <1>5, <1>6 DEF BoundInv

LEMMA BoundClose == ASSUME OwnerInv, BoundInv, CloseService PROVE BoundInv'
  <1>1. /\ main.pc = "close" /\ alive /\ ~ alive' /\ Post(Answer("close", TRUE, 0, FALSE))
        /\ UNCHANGED <<actor, steps, inflight, commands, answers, main, maint, drains, jobs,
                       faults>>
    BY DEF CloseService, actorVars, ownerVars, storeVars
  <1>2. ~ Replied("close") /\ ~ Queued("close")
    BY <1>1 DEF BoundInv, CloseInv
  <1>3. Once(results') /\ \A k : Replied(k)' <=> Replied(k) \/ k = "close"
    BY <1>1, <1>2, PostOnce
  <1>4. /\ (Replied("drain")' <=> Replied("drain"))
        /\ (Queued("drain")' <=> Queued("drain")) /\ (Queued("close")' <=> Queued("close"))
        /\ Once(commands')
    BY <1>1, <1>3 DEF Queued, Has, BoundInv
  <1>5. CloseInv' /\ DrainInv'
    BY <1>1, <1>2, <1>4 DEF BoundInv, CloseInv, DrainInv, Answered
  <1> QED
    BY <1>1, <1>3, <1>4, <1>5 DEF BoundInv

LEMMA BoundMain ==
    ASSUME OwnerInv, OwnerInv', BoundInv, StageWork \/ CloseJobs \/ RunJob
    PROVE  BoundInv'
  <1>1. jobs \in Seq(Jobs) /\ MaxPending \in Nat /\ Len(jobs) <= MaxPending /\ main \in Thread
    BY OwnerAssumption DEF OwnerInv, Types, OwnerTypes, BoundInv
  <1>2. /\ UNCHANGED <<actor, steps, inflight, commands, results, answers, drains, maint>>
        /\ alive' => alive
    BY DEF StageWork, CloseJobs, RunJob, actorVars, queueVars, storeVars
  <1>3. main'.pc # "close" \/ main'.pc = main.pc
    BY <1>1 DEF StageWork, CloseJobs, RunJob, Thread
  <1>4. faults' <= MaxFaults
    <2>1. UNCHANGED faults \/ \E kind : Fault(kind)
      BY DEF StageWork, CloseJobs, RunJob, PollFails
    <2> QED
      BY <2>1, FaultsBounded
  <1>5. Len(jobs') <= MaxPending
    <2>1. CASE StageWork
      BY <1>1, <2>1 DEF StageWork
    <2>2. CASE CloseJobs
      <3>1. jobs' = jobs \/ (jobs # <<>> /\ jobs' = Tail(jobs))
        BY <2>2 DEF CloseJobs, JobDone, ApplyJob, storeVars
      <3> QED
        BY <1>1, <3>1, HeadAndTail
    <2>3. CASE RunJob
      <3>1. Len(jobs') = Len(jobs)
        BY <1>1, <2>3 DEF RunJob
      <3> QED
        BY <1>1, <3>1
    <2> QED
      BY <2>1, <2>2, <2>3
  <1> QED
    BY <1>2, <1>3, <1>4, <1>5, BoundFrame

\* The maintenance thread goes on with a drain, ...
LEMMA MaintGoesOn ==
    ASSUME OwnerInv, BoundInv, Others, inflight, maint.pc # "idle" \/ drains # <<>>,
           ~ Queued("drain"), drains' = <<>>, faults' <= MaxFaults, Len(jobs') <= MaxPending,
           UNCHANGED results, maint'.pc # "idle"
    PROVE  BoundInv'
  <1>1. /\ UNCHANGED <<actor, steps, inflight, commands, answers, alive, main>>
        /\ ~ Replied("drain") /\ ~ Answered("drain")
    BY DEF Others, actorVars, BoundInv, DrainInv
  <1>2. /\ ~ Queued("drain")' /\ (Queued("close")' <=> Queued("close")) /\ (Asked' <=> Asked)
        /\ (Replied("drain")' <=> Replied("drain")) /\ (Replied("close")' <=> Replied("close"))
        /\ Once(commands') /\ Once(results') /\ Len(drains') <= 1
    BY <1>1 DEF Queued, Replied, Has, Asked, BoundInv
  <1>3. CloseInv' /\ DrainInv'
    BY <1>1, <1>2 DEF BoundInv, CloseInv, DrainInv, Answered
  <1> QED
    BY <1>1, <1>2, <1>3 DEF BoundInv

\* ... or answers it.
LEMMA MaintAnswers ==
    ASSUME OwnerInv, BoundInv, Others, inflight, maint.pc # "idle" \/ drains # <<>>,
           ~ Queued("drain"), drains' = <<>>, faults' <= MaxFaults, Len(jobs') <= MaxPending,
           maint'.pc = "idle", NEW ok \in BOOLEAN, NEW n \in Nat,
           Post(Answer("drain", ok, n, FALSE))
    PROVE  BoundInv'
  <1>1. /\ UNCHANGED <<actor, steps, inflight, commands, answers, alive, main>>
        /\ ~ Replied("drain") /\ ~ Answered("drain")
    BY DEF Others, actorVars, BoundInv, DrainInv
  <1>2. /\ ~ Queued("drain")' /\ (Queued("close")' <=> Queued("close")) /\ (Asked' <=> Asked)
        /\ Once(commands') /\ Len(drains') <= 1
    BY <1>1 DEF Queued, Has, Asked, BoundInv
  <1>3. Once(results') /\ \A k : Replied(k)' <=> Replied(k) \/ k = "drain"
    BY <1>1, PostOnce
  <1>4. Replied("close")' <=> Replied("close")
    BY <1>3
  <1>5. CloseInv' /\ DrainInv'
    BY <1>1, <1>2, <1>4 DEF BoundInv, CloseInv, DrainInv, Answered
  <1> QED
    BY <1>1, <1>2, <1>3, <1>5 DEF BoundInv

LEMMA BoundTakeDrain == ASSUME OwnerInv, BoundInv, TakeDrain PROVE BoundInv'
  <1>1. Others /\ maint.pc = "idle" /\ drains # <<>> /\ drains' = Tail(drains)
        /\ UNCHANGED <<jobs, faults>>
    BY DEF TakeDrain, At
  <1>2. inflight /\ ~ Queued("drain") /\ Len(drains) <= 1 /\ drains \in Seq({"drain"})
        /\ faults <= MaxFaults /\ Len(jobs) <= MaxPending /\ maint \in Thread
    BY <1>1 DEF OwnerInv, Types, OwnerTypes, BoundInv, DrainInv
  <1>3. drains' = <<>>
    BY <1>1, <1>2
  <1>4. faults' <= MaxFaults /\ Len(jobs') <= MaxPending
    BY <1>1, <1>2
  <1>5. CASE Goto("poll") /\ UNCHANGED results
    <2>1. maint'.pc # "idle"
      BY <1>2, <1>5 DEF Goto, Thread
    <2> QED
      BY <1>1, <1>2, <1>3, <1>4, <1>5, <2>1, MaintGoesOn
  <1>6. CASE UNCHANGED maint /\ Post(Answer("drain", FALSE, 0, FALSE))
    BY <1>1, <1>2, <1>3, <1>4, <1>6, MaintAnswers
  <1> QED
    BY <1>5, <1>6 DEF TakeDrain

LEMMA BoundMaint ==
    ASSUME OwnerInv, BoundInv,
           \/ Poll \/ SetTarget \/ AppendReplay \/ TrainItem \/ RefreshSearch
           \/ ItemsDone \/ CountPending \/ ReportDrain
    PROVE  BoundInv'
  <1>1. Others /\ maint.pc # "idle" /\ UNCHANGED drains
    BY DEF Poll, SetTarget, AppendReplay, TrainItem, RefreshSearch, ItemsDone, CountPending,
           ReportDrain, At
  <1>2. inflight /\ ~ Queued("drain") /\ drains = <<>>
    BY <1>1 DEF BoundInv, DrainInv
  <1>3. /\ maint \in Thread /\ maint.pending \in Nat /\ jobs \in Seq(Jobs)
        /\ MaxPending \in Nat /\ Len(jobs) <= MaxPending
    BY OwnerAssumption DEF OwnerInv, Types, OwnerTypes, Thread, BoundInv
  <1>4. faults' <= MaxFaults
    <2>1. UNCHANGED faults \/ \E kind : Fault(kind)
      BY DEF Poll, SetTarget, AppendReplay, TrainItem, RefreshSearch, ItemsDone, CountPending,
             ReportDrain, PollFails
    <2> QED
      BY <2>1, FaultsBounded
  <1>5. Len(jobs') <= MaxPending
    <2>1. CASE UNCHANGED jobs
      BY <1>3, <2>1
    <2>2. CASE jobs # <<>> /\ jobs' = Tail(jobs)
      BY <1>3, <2>2, HeadAndTail
    <2>3. ASSUME NEW j, Room, jobs' = Append(jobs, j) PROVE Len(jobs') <= MaxPending
      BY <1>3, <2>3 DEF Room
    <2>4. \/ UNCHANGED jobs \/ (jobs # <<>> /\ jobs' = Tail(jobs))
          \/ Room /\ \E j : jobs' = Append(jobs, j)
      BY DEF Poll, SetTarget, AppendReplay, TrainItem, RefreshSearch, ItemsDone, CountPending,
             ReportDrain, Break, ApplyJob, JobDone
    <2> QED
      BY <2>1, <2>2, <2>3, <2>4
  <1>6. \/ UNCHANGED results /\ maint'.pc # "idle"
        \/ maint'.pc = "idle" /\ \E ok \in BOOLEAN, n \in Nat : Post(Answer("drain", ok, n, FALSE))
    <2>1. Idle.pc = "idle"
      BY DEF Idle
    <2>2. CASE Poll \/ SetTarget \/ ItemsDone \/ CountPending
      BY <1>1, <1>3, <2>1, <2>2 DEF Poll, SetTarget, ItemsDone, CountPending, Break, Goto, Thread
    <2>3. CASE AppendReplay \/ TrainItem \/ RefreshSearch \/ ReportDrain
      BY <1>3, <2>1, <2>3 DEF AppendReplay, TrainItem, RefreshSearch, ReportDrain, Break, Goto,
                              Thread
    <2> QED
      BY <2>2, <2>3
  <1>7. CASE UNCHANGED results /\ maint'.pc # "idle"
    BY <1>1, <1>2, <1>4, <1>5, <1>7, MaintGoesOn
  <1>8. ASSUME maint'.pc = "idle", NEW ok \in BOOLEAN, NEW n \in Nat,
               Post(Answer("drain", ok, n, FALSE))
        PROVE  BoundInv'
    BY <1>1, <1>2, <1>4, <1>5, <1>8, MaintAnswers
  <1> QED
    BY <1>6, <1>7, <1>8

LEMMA BoundNext == ASSUME OwnerInv, OwnerInv', BoundInv, [Next]_vars PROVE BoundInv'
  <1>1. CASE UNCHANGED vars
    <2>1. /\ UNCHANGED <<commands, results, drains, answers, inflight, steps, maint, main, alive,
                         actor, jobs>>
          /\ faults' <= MaxFaults /\ Len(jobs') <= MaxPending
      BY <1>1 DEF vars, actorVars, queueVars, ownerVars, storeVars, BoundInv
    <2> QED
      BY <2>1, BoundFrame
  <1>2. CASE ActorStep \/ CloseAnyway \/ Collect \/ ProcessDies
    BY <1>2, BoundSubmit, BoundResolve, BoundClosing, BoundFinalDrain, BoundCollect DEF ActorStep
  <1>3. CASE MainStep \/ RunJob
    BY <1>3, BoundTakeCommand, BoundReport, BoundClose, BoundMain DEF MainStep
  <1>4. CASE MaintStep
    BY <1>4, BoundTakeDrain, BoundMaint DEF MaintStep
  <1> QED
    BY <1>1, <1>2, <1>3, <1>4 DEF Next

LEMMA BoundInit == Init => BoundInv
  <1> SUFFICES ASSUME Init PROVE BoundInv
    OBVIOUS
  <1>1. /\ commands = <<>> /\ results = <<>> /\ drains = <<>> /\ jobs = <<>> /\ steps = 0
        /\ faults = 0 /\ inflight = FALSE /\ main.pc = "idle" /\ maint.pc = "idle"
        /\ answers["drain"] = NoAnswer
    BY DEF Init, Idle
  <1>2. /\ Once(commands) /\ Once(results) /\ \A k : ~ Queued(k) /\ ~ Replied(k)
        /\ Len(drains) = 0 /\ Len(jobs) = 0
    BY <1>1 DEF Once, Queued, Replied, Has
  <1>3. DrainInv /\ CloseInv
    BY <1>1, <1>2 DEF DrainInv, CloseInv, Answered
  <1> QED
    BY <1>1, <1>2, <1>3, OwnerAssumption DEF BoundInv

THEOREM QueuesInvariant == Spec => []BoundInv
  <1>1. OwnerInv /\ OwnerInv' /\ BoundInv /\ [Next]_vars => BoundInv'
    BY BoundNext
  <1> QED
    BY <1>1, BoundInit, OwnerInvariant, PTL DEF Spec

\* What is asked and answered once is bounded by the kinds there are.
LEMMA OnceBounds ==
    ASSUME NEW S, NEW s \in Seq(S), Once(s),
           \A i \in 1..Len(s) : s[i].kind \in {"action", "drain", "close"}
    PROVE  /\ Len(s) <= 3
           /\ ~ (Has(s, "action") /\ Has(s, "close")) => Len(s) <= 2
  <1> DEFINE l == Len(s)
             kind(i) == s[i].kind
  <1>1. /\ l \in Nat /\ \A i, j \in 1..l : kind(i) = kind(j) => i = j
        /\ \A i \in 1..l : kind(i) \in {"action", "drain", "close"}
        /\ \A k : Has(s, k) <=> \E i \in 1..l : kind(i) = k
    BY DEF Once, Has
  <1> HIDE DEF l, kind
  <1>2. ASSUME l > 2 PROVE Has(s, "action") /\ Has(s, "close")
    <2>1. 1 \in 1..l /\ 2 \in 1..l /\ 3 \in 1..l
      BY <1>1, <1>2
    <2> QED
      BY <1>1, <2>1
  <1>3. ~ (l > 3)
    <2> SUFFICES ASSUME l > 3 PROVE FALSE
      OBVIOUS
    <2>1. 1 \in 1..l /\ 2 \in 1..l /\ 3 \in 1..l /\ 4 \in 1..l
      BY <1>1
    <2> QED
      BY <1>1, <2>1
  <1> QED
    BY <1>1, <1>2, <1>3 DEF l

\* The owner's variables have their types and its queues their bounds, for runs of
\* any length: at most two commands and three answers are on their way, as one
\* action, one drain and one close are out at a time, and the model is never ahead
\* of the game.
THEOREM OwnerTypeCorrect == Spec => []TypeOK
  <1>1. ASSUME OwnerInv, BoundInv PROVE TypeOK
    <2>1. ActorTypes /\ QueueTypes /\ OwnerTypes
      BY <1>1 DEF OwnerInv, Types
    <2>2. /\ steps \in Nat /\ submitted \in Nat /\ faults \in Nat /\ model \in Nat
          /\ updates \in Nat /\ searched \in Nat /\ staged \in Seq(Nat) /\ facts \in Seq(Nat)
          /\ replay \in Seq(Nat) /\ commands \in Seq(Commands) /\ results \in Seq(Answers)
      BY <2>1 DEF ActorTypes, QueueTypes, OwnerTypes
    <2>3. /\ Len(staged) \in Nat /\ Len(facts) \in Nat /\ Len(replay) \in Nat
          /\ MaxSteps \in Nat /\ MaxFaults \in Nat /\ steps <= MaxSteps /\ faults <= MaxFaults
      BY <1>1, <2>2, OwnerAssumption DEF BoundInv
    <2>4. submitted + Len(staged) <= MaxSteps /\ Len(facts) < Batch
      <3>1. submitted + Len(staged) + Len(facts) = Played /\ Len(facts) < Batch
        BY <1>1 DEF OwnerInv, LoopInv
      <3> QED
        BY <2>2, <2>3, <3>1 DEF Played
    <2>5. Len(replay) <= submitted + Len(staged)
      BY <1>1 DEF OwnerInv, WorkInv
    <2>6. model <= Len(replay) /\ updates <= model /\ searched <= model
      <3>1. model <= Len(replay) \div Interval /\ updates <= model /\ searched <= updates
        BY <1>1 DEF OwnerInv, ModelInv, TrainInv
      <3>2. Len(replay) \div Interval \in Nat /\ Len(replay) \div Interval <= Len(replay)
        BY <2>3, UpdatesDue
      <3> QED
        BY <2>2, <2>3, <3>1, <3>2
    <2>7. /\ steps \in 0..MaxSteps /\ submitted \in 0..MaxSteps /\ faults \in 0..MaxFaults
          /\ model \in 0..MaxSteps /\ updates \in 0..model /\ searched \in 0..model
      BY <2>2, <2>3, <2>4, <2>5, <2>6
    <2>8. Len(commands) <= 2
      <3>1. \A i \in 1..Len(commands) : commands[i].kind \in {"action", "drain", "close"}
        <4>1. \A i \in 1..Len(commands) : commands[i] \in Commands
          BY <2>2
        <4> QED
          BY <4>1 DEF Commands
      <3>2. Once(commands) /\ ~ (Has(commands, "action") /\ Has(commands, "close"))
        BY <1>1, AskedIsQueued DEF BoundInv, CloseInv, Queued
      <3> QED
        BY <2>2, <3>1, <3>2, OnceBounds
    <2>9. Len(results) <= 3
      <3>1. \A i \in 1..Len(results) : results[i].kind \in {"action", "drain", "close"}
        <4>1. \A i \in 1..Len(results) : results[i] \in Answers /\ results[i].kind # "none"
          BY <2>1, <2>2 DEF QueueTypes
        <4> QED
          BY <4>1 DEF Answers
      <3> QED
        BY <1>1, <2>2, <3>1, OnceBounds DEF BoundInv
    <2>10. Len(jobs) <= MaxPending /\ Len(drains) <= 1
      BY <1>1 DEF BoundInv, DrainInv
    <2> QED
      BY <2>1, <2>4, <2>7, <2>8, <2>9, <2>10 DEF TypeOK, ActorTypes, OwnerTypes
  <1> QED
    BY <1>1, OwnerInvariant, QueuesInvariant, PTL

==============================================================================
