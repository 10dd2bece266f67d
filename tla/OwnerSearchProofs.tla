-------------------------- MODULE OwnerSearchProofs --------------------------
(***************************************************************************)
(* Proofs about the owner of search, replay and model, for runs and faults *)
(* of any number: it keeps its contract.                                   *)
(***************************************************************************)
EXTENDS OwnerSearch, SequenceTheorems, TLAPS

(***************************************************************************)
(* Types.                                                                  *)
(***************************************************************************)
Request  == [step : Nat, entries : Seq(Nat), train : Nat, refresh : BOOLEAN]
Points   == {"idle", "stage", "close", "poll", "items", "train", "refresh", "tail", "report"}
Thread   == [pc : Points, left : Nat, request : Request, pending : Nat]
Commands == [kind : {"action", "drain", "close"}, request : Request]
Answers  == [kind : {"none", "action", "drain", "close"}, ok : BOOLEAN, pending : Nat,
             staged : BOOLEAN]
Works    == [request : Request, roots : SUBSET Nat]
Jobs     == [request : Request, done : BOOLEAN, ok : BOOLEAN]

ActorTypes ==
    /\ actor \in {"ready", "waiting", "draining", "closing", "closed", "failed"}
    /\ steps \in Nat /\ submitted \in Nat /\ requested \in Nat /\ pendingWork \in Nat
    /\ facts \in Seq(Nat) /\ staged \in Seq(Nat)
    /\ dispatch \in Request /\ inflight \in BOOLEAN

QueueTypes ==
    /\ commands \in Seq(Commands) /\ results \in Seq(Answers)
    /\ answers \in [{"action", "drain", "close"} -> Answers]
    /\ \A k \in {"action", "drain", "close"} : answers[k] # NoAnswer => answers[k].kind = k
    /\ \A i \in 1..Len(results) : results[i].kind # "none"

OwnerTypes ==
    /\ async \in BOOLEAN /\ alive \in BOOLEAN /\ broken \in BOOLEAN
    /\ main \in Thread /\ main.pc \in {"idle", "stage", "report", "close"}
    /\ maint \in Thread
    /\ maint.pc \in {"idle", "poll", "items", "train", "refresh", "tail", "report"}
    /\ drains \in Seq({"drain"}) /\ work \in Seq(Works) /\ jobs \in Seq(Jobs)
    /\ roots \in SUBSET Nat /\ replay \in Seq(Nat)
    /\ model \in Nat /\ updates \in Nat /\ searched \in Nat /\ faults \in Nat

Types == ActorTypes /\ QueueTypes /\ OwnerTypes

(***************************************************************************)
(* The loop hands the transitions over in the order of the game.           *)
(***************************************************************************)
Consecutive(e, from) == \A j \in 1..Len(e) : e[j] = from + j - 1

Played == IF steps = 0 THEN 0 ELSE steps - 1

LoopInv ==
    /\ submitted + Len(staged) + Len(facts) = Played
    /\ Consecutive(staged, submitted) /\ Consecutive(facts, submitted + Len(staged))
    /\ Len(facts) < Batch
    /\ dispatch.entries = staged /\ dispatch.train = Train(Len(staged))
    /\ actor \in {"ready", "draining"} => staged = <<>>
    /\ actor = "waiting" => steps > 0 /\ dispatch.step = steps - 1

(***************************************************************************)
(* One action is out, at one place.                                        *)
(***************************************************************************)
Asked    == \E i \in 1..Len(commands) : commands[i].kind = "action"
Held     == main.pc \in {"stage", "report"}
Reported == \E i \in 1..Len(results) : results[i].kind = "action"
Got      == answers["action"] # NoAnswer

\* Was the action that is out staged?
Taken ==
    \/ main.pc = "report"
    \/ \E i \in 1..Len(results) : results[i].kind = "action" /\ results[i].ok
    \/ answers["action"].kind = "action" /\ answers["action"].ok

ActionInv ==
    /\ \A i, j \in 1..Len(commands) :
          commands[i].kind = "action" /\ commands[j].kind = "action" => i = j
    /\ \A i, j \in 1..Len(results) :
          results[i].kind = "action" /\ results[j].kind = "action" => i = j
    /\ Asked => ~ Held /\ ~ Reported /\ ~ Got
    /\ Held => ~ Reported /\ ~ Got
    /\ Reported => ~ Got
    /\ Asked \/ Held \/ Reported \/ Got => actor \notin {"ready", "draining"}
    /\ alive /\ (Asked \/ Held \/ Reported) => actor = "waiting"
    /\ \A i \in 1..Len(commands) : commands[i].kind = "action" => commands[i].request = dispatch
    /\ Held => main.request = dispatch

(***************************************************************************)
(* Work carries on where the replay ends.                                  *)
(***************************************************************************)
First(r) == r.entries[1]
After(r) == r.entries[1] + Len(r.entries)
Before(r) == First(r) \div Interval     \* updates due before it
Behind(r) == After(r) \div Interval     \* and after it

Good(r) ==
    /\ r.entries # <<>> /\ Consecutive(r.entries, First(r))
    /\ r.train = Behind(r) - Before(r)

WorkEnd == IF work = <<>> THEN Len(replay) ELSE After(work[Len(work)].request)

WorkInv ==
    /\ \A i \in 1..Len(work) : Good(work[i].request)
    /\ alive /\ ~ broken =>
          /\ work # <<>> => First(work[1].request) = Len(replay)
          /\ \A i \in 1..Len(work) - 1 : First(work[i + 1].request) = After(work[i].request)
          /\ \A i \in 1..Len(work) : After(work[i].request) <= WorkEnd
          /\ WorkEnd = IF Taken THEN submitted + Len(staged) ELSE submitted
    /\ Consecutive(replay, 0)
    /\ Len(replay) <= submitted + Len(staged)
    /\ broken => maint.pc = "idle"

(***************************************************************************)
(* Updates are those of the transitions in replay.                         *)
(***************************************************************************)
Position == IF maint.pc \in {"train", "refresh"} THEN First(maint.request) ELSE Len(replay)
NextUpdate == IF jobs = <<>> THEN updates ELSE Behind(jobs[Len(jobs)].request)

TrainInv ==
    /\ maint.pc \in {"train", "refresh"} =>
          Good(maint.request) /\ After(maint.request) = Len(replay)
    /\ maint.pc = "refresh" => ~ async
    /\ ~ broken => NextUpdate = Position \div Interval
    /\ updates <= model /\ searched <= updates /\ model <= Len(replay) \div Interval

SyncInv ==
    ~ async => /\ jobs = <<>>
               /\ ~ broken => model = IF maint.pc = "refresh" THEN Behind(maint.request)
                                      ELSE updates

JobsInv ==
    /\ \A i \in 1..Len(jobs) : Good(jobs[i].request) /\ After(jobs[i].request) <= Len(replay)
    /\ \A i \in 1..Len(jobs) - 1 : Before(jobs[i + 1].request) = Behind(jobs[i].request)
    /\ \A i, j \in 1..Len(jobs) : i < j => Behind(jobs[i].request) <= Before(jobs[j].request)
    /\ jobs # <<>> => updates = Before(jobs[1].request)

LearnerInv ==
    /\ \A i, j \in 1..Len(jobs) : i < j /\ jobs[j].done => jobs[i].done
    /\ \A i \in 1..Len(jobs) : ~ jobs[i].done => model <= Before(jobs[i].request)
    /\ jobs # <<>> => model <= Behind(jobs[Len(jobs)].request)
    /\ \A i \in 1..Len(jobs) : (\A k \in 1..i : jobs[k].done /\ jobs[k].ok)
                                  => Behind(jobs[i].request) <= model
    /\ async /\ jobs = <<>> => model = updates

ModelInv == TrainInv /\ SyncInv /\ JobsInv /\ LearnerInv

OwnerInv == Types /\ LoopInv /\ ActionInv /\ WorkInv /\ ModelInv

(***************************************************************************)
(* Arithmetic and sequences.                                               *)
(***************************************************************************)
LEMMA UpdatesDue ==
    ASSUME NEW n \in Nat, NEW m \in Nat, n <= m
    PROVE  /\ n \div Interval \in Nat /\ m \div Interval \in Nat
           /\ n \div Interval <= m \div Interval /\ n \div Interval <= n
  BY OwnerAssumption

LEMMA NoUpdates == \A n \in Nat : (n + 0) \div Interval - n \div Interval = 0
  <1> SUFFICES ASSUME NEW n \in Nat PROVE (n + 0) \div Interval - n \div Interval = 0
    OBVIOUS
  <1>1. n + 0 = n /\ n \div Interval \in Nat
    BY UpdatesDue
  <1> QED
    BY <1>1

LEMMA TrainType == ASSUME NEW n \in Nat, submitted \in Nat PROVE Train(n) \in Nat
  <1>1. submitted + n \in Nat /\ submitted <= submitted + n
    OBVIOUS
  <1> QED
    BY <1>1, UpdatesDue DEF Train

LEMMA ConstantTypes ==
    /\ NoRequest \in Request /\ NoAnswer \in Answers /\ Idle \in Thread
    /\ \A k \in {"action", "drain", "close"}, r \in Request : Command(k, r) \in Commands
    /\ \A k \in {"action", "drain", "close"}, ok \in BOOLEAN, n \in Nat, t \in BOOLEAN :
          Answer(k, ok, n, t) \in Answers
  BY DEF NoRequest, Request, NoAnswer, Answers, Idle, Thread, Points, Command, Commands, Answer

LEMMA BatchTypes ==
    ASSUME ActorTypes
    PROVE  Facts \in Seq(Nat) /\ Staged \in Seq(Nat) /\ Left \in Seq(Nat)
  <1>1. facts \in Seq(Nat) /\ steps \in Nat
    BY DEF ActorTypes
  <1>a. Facts \in Seq(Nat)
    BY <1>1 DEF Facts
  <1>2. Batch \in Nat \ {0}
    BY OwnerAssumption
  <1> QED
    BY <1>a, <1>2 DEF Staged, Left, ActorTypes

LEMMA Appended ==
    ASSUME NEW S, NEW s \in Seq(S), NEW x \in S
    PROVE  /\ Append(s, x) \in Seq(S) /\ Len(Append(s, x)) = Len(s) + 1
           /\ \A i \in 1..Len(s) : Append(s, x)[i] = s[i]
           /\ Append(s, x)[Len(s) + 1] = x
           /\ 1..(Len(s) + 1) = 1..Len(s) \cup {Len(s) + 1}
  OBVIOUS

LEMMA Joined ==
    ASSUME NEW S, NEW s \in Seq(S), NEW t \in Seq(S)
    PROVE  /\ s \o t \in Seq(S) /\ Len(s \o t) = Len(s) + Len(t)
           /\ \A i \in 1..Len(s) : (s \o t)[i] = s[i]
           /\ \A i \in 1..Len(t) : (s \o t)[Len(s) + i] = t[i]
           /\ \A i \in 1..Len(s \o t) : i \in 1..Len(s) \/ i - Len(s) \in 1..Len(t)
  <1>1. s \o t \in Seq(S) /\ Len(s \o t) = Len(s) + Len(t) /\ Len(s) \in Nat /\ Len(t) \in Nat
    OBVIOUS
  <1>2. \A i \in 1..Len(s) : (s \o t)[i] = s[i]
    OBVIOUS
  <1>3. \A i \in 1..Len(t) : (s \o t)[Len(s) + i] = t[i]
    OBVIOUS
  <1>4. \A i \in 1..Len(s \o t) : i \in 1..Len(s) \/ i - Len(s) \in 1..Len(t)
    BY <1>1
  <1> QED
    BY <1>1, <1>2, <1>3, <1>4

LEMMA HeadAndTail ==
    ASSUME NEW S, NEW s \in Seq(S), s # <<>>
    PROVE  /\ Head(s) \in S /\ Head(s) = s[1] /\ Len(s) \in Nat /\ Len(s) > 0
           /\ Tail(s) \in Seq(S) /\ Len(Tail(s)) = Len(s) - 1
           /\ \A i \in 1..(Len(s) - 1) : Tail(s)[i] = s[i + 1] /\ i + 1 \in 1..Len(s)
  OBVIOUS

(***************************************************************************)
(* What steps leave alone.                                                 *)
(***************************************************************************)
LEMMA ActorFrame == ASSUME ActorTypes, UNCHANGED actorVars PROVE ActorTypes'
  BY DEF ActorTypes, actorVars

LEMMA QueueFrame == ASSUME QueueTypes, UNCHANGED queueVars PROVE QueueTypes'
  BY DEF QueueTypes, queueVars

LEMMA OwnerFrame ==
    ASSUME OwnerTypes, UNCHANGED <<ownerVars, async>>, alive' \in BOOLEAN, faults' \in Nat
    PROVE  OwnerTypes'
  BY DEF OwnerTypes, ownerVars, storeVars

LEMMA LoopFrame == ASSUME LoopInv, UNCHANGED actorVars PROVE LoopInv'
  BY DEF LoopInv, Consecutive, Played, Train, actorVars

LEMMA ActionFrame ==
    ASSUME ActionInv, UNCHANGED <<commands, results, answers, main, dispatch, actor>>,
           alive' => alive
    PROVE  ActionInv' /\ Taken' = Taken
  BY DEF ActionInv, Asked, Held, Reported, Got, Taken

LEMMA WorkFrame ==
    ASSUME WorkInv, UNCHANGED <<work, replay, submitted, staged, broken>>, Taken' = Taken,
           alive' => alive, broken => maint' = maint
    PROVE  WorkInv'
  BY DEF WorkInv, WorkEnd, Consecutive, Good, First, After, Before, Behind

LEMMA ModelFrame ==
    ASSUME ModelInv, UNCHANGED <<async, maint, replay, jobs, model, updates, searched, broken>>
    PROVE  ModelInv'
  BY DEF ModelInv, TrainInv, SyncInv, JobsInv, LearnerInv, NextUpdate, Position, Consecutive,
         Good, First, After, Before, Behind

LEMMA PostFrame ==
    ASSUME QueueTypes, ActionInv, NEW a \in Answers, a.kind \in {"drain", "close"}, Post(a),
           UNCHANGED <<commands, answers, main, dispatch, actor>>, alive' => alive
    PROVE  QueueTypes' /\ ActionInv' /\ Taken' = Taken
  <1>1. results \in Seq(Answers) /\ results' = Append(results, a)
    BY DEF QueueTypes, Post
  <1>2. /\ results' \in Seq(Answers) /\ Len(results') = Len(results) + 1
        /\ \A i \in 1..Len(results) : results'[i] = results[i]
        /\ results'[Len(results) + 1] = a
        /\ 1..(Len(results) + 1) = 1..Len(results) \cup {Len(results) + 1}
    BY <1>1, Appended
  <1>3. QueueTypes'
    BY <1>2 DEF QueueTypes
  <1>4. /\ \A i \in 1..Len(results') : results'[i].kind = "action" =>
                i \in 1..Len(results) /\ results'[i] = results[i]
        /\ \A i \in 1..Len(results) : i \in 1..Len(results') /\ results'[i] = results[i]
    BY <1>2
  <1>5. Taken' = Taken /\ Reported' = Reported
    BY <1>4 DEF Taken, Reported
  <1>6. ActionInv'
    BY <1>4, <1>5 DEF ActionInv, Asked, Held, Got
  <1> QED
    BY <1>3, <1>5, <1>6

LEMMA MaintMoves ==
    ASSUME ModelInv, maint.pc \notin {"train", "refresh"}, maint'.pc \notin {"train", "refresh"},
           UNCHANGED <<async, replay, jobs, model, updates, searched, broken>>
    PROVE  ModelInv'
  BY DEF ModelInv, TrainInv, SyncInv, JobsInv, LearnerInv, NextUpdate, Position, Consecutive,
         Good, First, After, Before, Behind

(***************************************************************************)
(* Steps of the maintenance thread.                                        *)
(***************************************************************************)
LEMMA MaintTypes ==
    ASSUME OwnerTypes, UNCHANGED <<async, alive, main, faults, work, roots, replay, jobs, model,
                                   updates, searched, broken>>,
           drains' \in Seq({"drain"}), maint' \in Thread,
           maint'.pc \in {"idle", "poll", "items", "train", "refresh", "tail", "report"}
    PROVE  OwnerTypes'
  BY DEF OwnerTypes

\* Steps that only move on, from and to points where no item is at hand.
LEMMA MaintKeeps ==
    ASSUME OwnerInv, Others, UNCHANGED <<async, results, work, replay, jobs, model, updates,
                                         searched, broken, faults>>,
           drains' \in Seq({"drain"}), maint' \in Thread, broken => maint'.pc = "idle",
           maint.pc \notin {"train", "refresh"},
           maint'.pc \in {"idle", "poll", "items", "tail", "report"}
    PROVE  OwnerInv'
  <1>1. ActorTypes' /\ QueueTypes' /\ LoopInv'
    BY ActorFrame, QueueFrame, LoopFrame DEF OwnerInv, Types, Others, actorVars, queueVars
  <1>2. OwnerTypes'
    BY MaintTypes DEF OwnerInv, Types, Others
  <1>3. ActionInv' /\ Taken' = Taken
    BY ActionFrame DEF OwnerInv, Others, actorVars
  <1>4. WorkInv'
    BY <1>3 DEF OwnerInv, Others, actorVars, WorkInv, WorkEnd, Consecutive, Good, First, After,
                Before, Behind
  <1>5. ModelInv'
    BY MaintMoves DEF OwnerInv
  <1> QED
    BY <1>1, <1>2, <1>3, <1>4, <1>5 DEF OwnerInv, Types

LEMMA SetTargetKeeps == ASSUME OwnerInv, SetTarget, UNCHANGED async PROVE OwnerInv'
  <1>1. maint \in Thread /\ Len(work) \in Nat /\ drains \in Seq({"drain"}) /\ ~ broken
    BY DEF OwnerInv, Types, OwnerTypes, WorkInv, SetTarget, At
  <1>2. maint' \in Thread /\ maint'.pc = "items"
    BY <1>1 DEF SetTarget, At, Thread, Points
  <1> QED
    BY <1>1, <1>2, MaintKeeps DEF SetTarget, At

LEMMA ItemsDoneKeeps == ASSUME OwnerInv, ItemsDone, UNCHANGED async PROVE OwnerInv'
  <1>1. maint \in Thread /\ drains \in Seq({"drain"}) /\ ~ broken
    BY DEF OwnerInv, Types, OwnerTypes, WorkInv, ItemsDone, At
  <1>2. maint' \in Thread /\ maint'.pc = "tail"
    BY <1>1 DEF ItemsDone, At, Goto, Thread, Points
  <1> QED
    BY <1>1, <1>2, MaintKeeps DEF ItemsDone, At

LEMMA CountPendingKeeps == ASSUME OwnerInv, CountPending, UNCHANGED async PROVE OwnerInv'
  <1>1. maint \in Thread /\ drains \in Seq({"drain"}) /\ ~ broken /\ Len(work) + Len(jobs) \in Nat
    BY DEF OwnerInv, Types, OwnerTypes, WorkInv, CountPending, At
  <1>2. maint' \in Thread /\ maint'.pc = "report"
    BY <1>1 DEF CountPending, At, Thread, Points
  <1> QED
    BY <1>1, <1>2, MaintKeeps DEF CountPending, At

\* The same, with an answer to the drain.
LEMMA MaintReports ==
    ASSUME OwnerInv, Others, NEW ok \in BOOLEAN, NEW n \in Nat, Post(Answer("drain", ok, n, FALSE)),
           UNCHANGED <<async, work, replay, jobs, model, updates, searched, broken, faults>>,
           drains' \in Seq({"drain"}), maint' \in Thread, maint'.pc = "idle",
           maint.pc \notin {"train", "refresh"}
    PROVE  OwnerInv'
  <1>1. ActorTypes' /\ LoopInv'
    BY ActorFrame, LoopFrame DEF OwnerInv, Types, Others
  <1>2. OwnerTypes'
    BY MaintTypes DEF OwnerInv, Types, Others
  <1>3. Answer("drain", ok, n, FALSE) \in Answers
    BY ConstantTypes
  <1>4. QueueTypes' /\ ActionInv' /\ Taken' = Taken
    BY <1>3, PostFrame DEF OwnerInv, Types, Others, actorVars, Answer
  <1>5. WorkInv'
    BY <1>4 DEF OwnerInv, Others, actorVars, WorkInv, WorkEnd, Consecutive, Good, First, After,
                Before, Behind
  <1>6. ModelInv'
    BY MaintMoves DEF OwnerInv
  <1> QED
    BY <1>1, <1>2, <1>4, <1>5, <1>6 DEF OwnerInv, Types

LEMMA ReportDrainKeeps == ASSUME OwnerInv, ReportDrain, UNCHANGED async PROVE OwnerInv'
  <1>1. maint.pending \in Nat /\ drains \in Seq({"drain"})
    BY DEF OwnerInv, Types, OwnerTypes, Thread
  <1>2. maint' \in Thread /\ maint'.pc = "idle"
    BY ConstantTypes DEF ReportDrain, Idle
  <1> QED
    BY <1>1, <1>2, MaintReports DEF ReportDrain, At

LEMMA TakeDrainKeeps == ASSUME OwnerInv, TakeDrain, UNCHANGED async PROVE OwnerInv'
  <1>1. drains \in Seq({"drain"}) /\ maint \in Thread
    BY DEF OwnerInv, Types, OwnerTypes
  <1>2. drains' \in Seq({"drain"})
    BY <1>1 DEF TakeDrain
  <1>3. CASE broken /\ Post(Answer("drain", FALSE, 0, FALSE)) /\ UNCHANGED maint
    BY <1>1, <1>2, <1>3, MaintReports DEF TakeDrain, At
  <1>4. CASE ~ broken /\ Goto("poll") /\ UNCHANGED results
    <2>1. maint' \in Thread /\ maint'.pc = "poll"
      BY <1>1, <1>4 DEF Goto, Thread, Points
    <2> QED
      BY <1>1, <1>2, <1>4, <2>1, MaintKeeps DEF TakeDrain, At
  <1> QED
    BY <1>3, <1>4 DEF TakeDrain

\* What a request that has transitions is made of.
LEMMA GoodFacts ==
    ASSUME NEW r \in Request, Good(r)
    PROVE  /\ First(r) \in Nat /\ After(r) \in Nat /\ First(r) < After(r)
           /\ Before(r) \in Nat /\ Behind(r) \in Nat /\ Before(r) <= Behind(r)
           /\ r.train \in Nat /\ Behind(r) = Before(r) + r.train
  <1>1. r.entries \in Seq(Nat) /\ r.train \in Nat /\ r.entries # <<>>
    BY DEF Request, Good
  <1>2. First(r) \in Nat /\ Len(r.entries) \in Nat /\ Len(r.entries) > 0
    BY <1>1 DEF First
  <1>3. After(r) \in Nat /\ First(r) < After(r)
    BY <1>2 DEF First, After
  <1>4. Before(r) \in Nat /\ Behind(r) \in Nat /\ Before(r) <= Behind(r)
    BY <1>2, <1>3, UpdatesDue DEF Before, Behind
  <1> QED
    BY <1>1, <1>2, <1>3, <1>4 DEF Good

LEMMA JobFacts ==
    ASSUME OwnerTypes, JobsInv, NEW i \in 1..Len(jobs)
    PROVE  /\ jobs[i] \in Jobs /\ jobs[i].request \in Request /\ Good(jobs[i].request)
           /\ jobs[i].done \in BOOLEAN /\ jobs[i].ok \in BOOLEAN
           /\ After(jobs[i].request) \in Nat /\ After(jobs[i].request) <= Len(replay)
           /\ Before(jobs[i].request) \in Nat /\ Behind(jobs[i].request) \in Nat
           /\ Before(jobs[i].request) <= Behind(jobs[i].request)
           /\ Behind(jobs[i].request) = Before(jobs[i].request) + jobs[i].request.train
           /\ Behind(jobs[i].request) <= Len(replay) \div Interval
  <1>1. jobs \in Seq(Jobs) /\ Len(replay) \in Nat
    BY DEF OwnerTypes
  <1>2. jobs[i] \in Jobs
    BY <1>1
  <1>3. jobs[i].request \in Request /\ jobs[i].done \in BOOLEAN /\ jobs[i].ok \in BOOLEAN
    BY <1>2 DEF Jobs
  <1>4. Good(jobs[i].request) /\ After(jobs[i].request) <= Len(replay)
    BY DEF JobsInv
  <1>5. Behind(jobs[i].request) <= Len(replay) \div Interval
    BY <1>1, <1>3, <1>4, GoodFacts, UpdatesDue DEF Behind
  <1> QED
    BY <1>2, <1>3, <1>4, <1>5, GoodFacts

\* A drain that fails is answered, and maintenance stays failed.
LEMMA MaintBreaks ==
    ASSUME OwnerInv, Others, Post(Answer("drain", FALSE, 0, FALSE)),
           UNCHANGED <<async, drains, replay, jobs, model, updates, searched>>,
           work' \in Seq(Works), \A i \in 1..Len(work') : Good(work'[i].request),
           maint' = Idle, broken' = TRUE, faults' \in Nat
    PROVE  OwnerInv'
  <1>1. ActorTypes' /\ LoopInv'
    BY ActorFrame, LoopFrame DEF OwnerInv, Types, Others
  <1>2. maint' \in Thread /\ maint'.pc = "idle"
    BY ConstantTypes DEF Idle
  <1>3. OwnerTypes'
    BY <1>2 DEF OwnerInv, Types, OwnerTypes, Others
  <1>4. Answer("drain", FALSE, 0, FALSE) \in Answers
    BY ConstantTypes
  <1>5. QueueTypes' /\ ActionInv' /\ Taken' = Taken
    BY <1>4, PostFrame DEF OwnerInv, Types, Others, actorVars, Answer
  <1>6. WorkInv'
    BY <1>2 DEF OwnerInv, Others, actorVars, WorkInv
  <1>7. ModelInv'
    BY <1>2 DEF OwnerInv, ModelInv, TrainInv, SyncInv, JobsInv, LearnerInv, Good, First, After,
                Before, Behind
  <1> QED
    BY <1>1, <1>3, <1>5, <1>6, <1>7 DEF OwnerInv, Types

\* Without a change of work and replay, while maintenance goes on.
LEMMA MaintTrains ==
    ASSUME OwnerInv, Others, UNCHANGED <<results, drains, work, replay, broken>>,
           ~ broken, OwnerTypes'
    PROVE  /\ ActorTypes' /\ QueueTypes' /\ LoopInv' /\ ActionInv' /\ WorkInv'
  <1>1. ActorTypes' /\ QueueTypes' /\ LoopInv'
    BY ActorFrame, QueueFrame, LoopFrame DEF OwnerInv, Types, Others, actorVars, queueVars
  <1>2. ActionInv' /\ Taken' = Taken
    BY ActionFrame DEF OwnerInv, Others, actorVars
  <1>3. WorkInv'
    BY <1>2, WorkFrame DEF OwnerInv, Others, actorVars
  <1> QED
    BY <1>1, <1>2, <1>3

LEMMA AppendReplayKeeps == ASSUME OwnerInv, AppendReplay, UNCHANGED async PROVE OwnerInv'
  <1> DEFINE r == Head(work).request
  <1>1. /\ work \in Seq(Works) /\ work # <<>> /\ alive /\ ~ broken /\ maint.pc = "items"
        /\ maint \in Thread /\ maint.left > 0 /\ work' = Tail(work) /\ Others
        /\ UNCHANGED <<drains, jobs, model, updates, searched>>
    BY DEF OwnerInv, Types, OwnerTypes, WorkInv, AppendReplay, At
  <1>2. /\ Head(work) \in Works /\ Head(work) = work[1] /\ Len(work) \in Nat /\ Len(work) > 0
        /\ work' \in Seq(Works) /\ Len(work') = Len(work) - 1
        /\ \A i \in 1..(Len(work) - 1) : work'[i] = work[i + 1] /\ i + 1 \in 1..Len(work)
    BY <1>1, HeadAndTail
  <1>3. \A i \in 1..Len(work) : Good(work[i].request)
    BY DEF OwnerInv, WorkInv
  <1>4. \A i \in 1..Len(work') : Good(work'[i].request)
    BY <1>2, <1>3
  <1>5. r \in Request /\ Good(r)
    BY <1>2, <1>3 DEF Works
  <1>6. CASE broken'
    <2>1. /\ Fault("append") /\ maint' = Idle /\ Post(Answer("drain", FALSE, 0, FALSE))
          /\ UNCHANGED replay /\ broken' = TRUE
      BY <1>1, <1>6 DEF AppendReplay
    <2>2. faults' \in Nat
      BY <2>1 DEF OwnerInv, Types, OwnerTypes, Fault
    <2> QED
      BY <1>1, <1>2, <1>4, <2>1, <2>2, MaintBreaks
  <1>7. CASE ~ broken'
    <2>1. /\ replay' = replay \o r.entries
          /\ maint' = [maint EXCEPT !.pc = "train", !.left = @ - 1, !.request = r]
          /\ UNCHANGED <<results, broken, faults>>
      BY <1>1, <1>7 DEF AppendReplay
    <2> HIDE DEF r
    <2>2. r.entries \in Seq(Nat) /\ replay \in Seq(Nat)
      BY <1>5 DEF Request, OwnerInv, Types, OwnerTypes
    <2>3. /\ replay' \in Seq(Nat) /\ Len(replay') = Len(replay) + Len(r.entries)
          /\ \A i \in 1..Len(replay) : replay'[i] = replay[i]
          /\ \A i \in 1..Len(r.entries) : replay'[Len(replay) + i] = r.entries[i]
          /\ \A i \in 1..Len(replay') : i \in 1..Len(replay)
                                        \/ i - Len(replay) \in 1..Len(r.entries)
      <3> DEFINE e == r.entries
                 all == replay \o e
      <3>1. e \in Seq(Nat) /\ replay' = all
        BY <2>1, <2>2
      <3> HIDE DEF e
      <3>2. /\ all \in Seq(Nat) /\ Len(all) = Len(replay) + Len(e)
            /\ \A i \in 1..Len(replay) : all[i] = replay[i]
            /\ \A i \in 1..Len(e) : all[Len(replay) + i] = e[i]
            /\ \A i \in 1..Len(all) : i \in 1..Len(replay) \/ i - Len(replay) \in 1..Len(e)
        BY <2>2, <3>1, Joined
      <3> HIDE DEF all
      <3> QED
        BY <3>1, <3>2 DEF e
    <2>4. maint' \in Thread /\ maint'.pc = "train" /\ maint'.request = r
      <3>1. maint \in Thread /\ maint.left - 1 \in Nat
        BY <1>1 DEF Thread
      <3> QED
        BY <1>5, <2>1, <3>1 DEF Thread, Points
    <2>5. OwnerTypes'
      BY <1>1, <1>2, <2>1, <2>3, <2>4 DEF OwnerInv, Types, OwnerTypes, Others
    <2>6. ActorTypes' /\ QueueTypes' /\ LoopInv'
      BY <1>1, <2>1, ActorFrame, QueueFrame, LoopFrame DEF OwnerInv, Types, Others, actorVars, queueVars
    <2>7. ActionInv' /\ Taken' = Taken
      BY <1>1, <2>1, ActionFrame DEF OwnerInv, Others, actorVars
    <2>8. /\ First(r) = Len(replay) /\ After(r) = Len(replay')
          /\ Consecutive(r.entries, Len(replay)) /\ After(r) <= WorkEnd
      <3>1. First(r) = Len(replay) /\ After(r) <= WorkEnd
        BY <1>1, <1>2 DEF OwnerInv, WorkInv, r
      <3> QED
        BY <1>5, <2>3, <3>1 DEF Good, First, After
    <2>9. Consecutive(replay', 0)
      <3>1. Consecutive(replay, 0)
        BY DEF OwnerInv, WorkInv
      <3> SUFFICES ASSUME NEW i \in 1..Len(replay') PROVE replay'[i] = i - 1
        BY DEF Consecutive
      <3>2. CASE i \in 1..Len(replay)
        BY <2>2, <2>3, <3>1, <3>2 DEF Consecutive
      <3>3. CASE i - Len(replay) \in 1..Len(r.entries)
        <4>1. replay'[Len(replay) + (i - Len(replay))] = r.entries[i - Len(replay)]
          BY <2>3, <3>3
        <4>2. r.entries[i - Len(replay)] = Len(replay) + (i - Len(replay)) - 1
          BY <2>8, <3>3 DEF Consecutive
        <4> QED
          BY <2>2, <2>3, <4>1, <4>2
      <3> QED
        BY <2>3, <3>2, <3>3
    <2>10. WorkEnd' = WorkEnd /\ WorkEnd = IF Taken THEN submitted + Len(staged) ELSE submitted
      <3>1. WorkEnd = IF Taken THEN submitted + Len(staged) ELSE submitted
        BY <1>1 DEF OwnerInv, WorkInv
      <3>2. CASE work' = <<>>
        <4>a. Len(work') = 0
          BY <3>2
        <4>b. Len(work') = Len(work) - 1 /\ Len(work) \in Nat
          BY <1>2
        <4>c. Len(work) = 1
          BY <4>a, <4>b
        <4>1. Len(work) = 1 /\ work[Len(work)] = Head(work)
          BY <1>2, <4>c
        <4> QED
          BY <1>1, <2>8, <3>1, <3>2, <4>1 DEF WorkEnd, r
      <3>3. CASE work' # <<>>
        <4>1. work'[Len(work')] = work[Len(work)]
          <5>1. Len(work') \in Nat /\ Len(work') > 0
            BY <1>2, <3>3
          <5> QED
            BY <1>2, <5>1
        <4> QED
          BY <1>1, <3>1, <3>3, <4>1 DEF WorkEnd, After
      <3> QED
        BY <3>2, <3>3
    <2>11. WorkInv'
      <3>1. submitted \in Nat /\ staged \in Seq(Nat) /\ UNCHANGED <<submitted, staged>>
        BY <1>1 DEF OwnerInv, Types, ActorTypes, Others, actorVars
      <3>2. Len(replay') <= (submitted + Len(staged))'
        BY <2>2, <2>3, <2>8, <2>10, <3>1 DEF After
      <3>3. \A i \in 1..Len(work) - 1 : First(work[i + 1].request) = After(work[i].request)
        BY <1>1 DEF OwnerInv, WorkInv
      <3>4. \A i \in 1..Len(work) : After(work[i].request) <= WorkEnd
        BY <1>1 DEF OwnerInv, WorkInv
      <3>5. \A i \in 1..Len(work') : After(work'[i].request) <= WorkEnd'
        BY <1>2, <2>10, <3>4
      <3>6. \A i \in 1..Len(work') - 1 : First(work'[i + 1].request) = After(work'[i].request)
        <4> SUFFICES ASSUME NEW i \in 1..Len(work') - 1
                     PROVE  First(work'[i + 1].request) = After(work'[i].request)
          OBVIOUS
        <4>1. /\ i \in 1..(Len(work) - 1) /\ i + 1 \in 1..(Len(work) - 1)
          BY <1>2
        <4> QED
          BY <1>2, <3>3, <4>1
      <3>7. work' # <<>> => First(work'[1].request) = Len(replay')
        <4> SUFFICES ASSUME work' # <<>> PROVE First(work'[1].request) = Len(replay')
          OBVIOUS
        <4>1. 1 \in 1..Len(work) - 1
          BY <1>2
        <4>2. First(work[1 + 1].request) = After(work[1].request)
          BY <3>3, <4>1
        <4> QED
          BY <1>2, <2>8, <4>1, <4>2 DEF r
      <3> QED
        BY <1>1, <1>4, <2>1, <2>4, <2>7, <2>9, <2>10, <3>1, <3>2, <3>5, <3>6, <3>7
           DEF WorkInv, Good, First, After, Before, Behind, Consecutive
    <2>12. ModelInv'
      <3>1. NextUpdate = Len(replay) \div Interval /\ NextUpdate' = NextUpdate
        BY <1>1 DEF OwnerInv, ModelInv, TrainInv, Position, NextUpdate, Behind, After
      <3>2. /\ Len(replay) \div Interval <= Len(replay') \div Interval
            /\ Len(replay) \div Interval \in Nat /\ Len(replay') \div Interval \in Nat
            /\ Len(replay) <= Len(replay') /\ Len(replay) \in Nat /\ Len(replay') \in Nat
        <4>1. Len(replay) \in Nat /\ Len(replay') \in Nat /\ Len(replay) <= Len(replay')
          BY <2>2, <2>3
        <4> QED
          BY <4>1, UpdatesDue
      <3>3. TrainInv'
        <4>1. Good(maint'.request) /\ After(maint'.request) = Len(replay')
              /\ First(maint'.request) = Len(replay)
          BY <1>5, <2>4, <2>8
        <4>2. model \in Nat /\ model <= Len(replay) \div Interval
          BY DEF OwnerInv, Types, OwnerTypes, ModelInv, TrainInv
        <4>3. Position' = Len(replay)
          BY <2>4, <4>1 DEF Position
        <4>4. updates <= model /\ searched <= updates /\ UNCHANGED <<model, updates, searched>>
          BY <1>1, <2>1 DEF OwnerInv, ModelInv, TrainInv
        <4> QED
          BY <1>1, <2>1, <2>4, <3>1, <3>2, <4>1, <4>2, <4>3, <4>4 DEF TrainInv
      <3>4. SyncInv'
        BY <1>1, <2>1, <2>4 DEF OwnerInv, ModelInv, SyncInv
      <3>5. JobsInv'
        <4>1. \A i \in 1..Len(jobs) : Good(jobs[i].request)
          BY JobFacts DEF OwnerInv, Types, ModelInv
        <4>4. \A i \in 1..Len(jobs) : After(jobs[i].request) <= Len(replay')
          BY <3>2, JobFacts DEF OwnerInv, Types, ModelInv
        <4> QED
          BY <1>1, <4>1, <4>4 DEF OwnerInv, ModelInv, JobsInv, Good, First, After, Before, Behind,
                                  Consecutive
      <3>6. LearnerInv'
        BY <1>1 DEF OwnerInv, ModelInv, LearnerInv, First, After, Before, Behind
      <3> QED
        BY <3>3, <3>4, <3>5, <3>6 DEF ModelInv
    <2> QED
      BY <2>5, <2>6, <2>7, <2>11, <2>12 DEF OwnerInv, Types
  <1> QED
    BY <1>6, <1>7

\* Where updates, model and position are numbers.
LEMMA ModelTypes ==
    ASSUME OwnerTypes, ModelInv
    PROVE  /\ updates \in Nat /\ model \in Nat /\ searched \in Nat /\ faults \in Nat
           /\ jobs \in Seq(Jobs) /\ Len(jobs) \in Nat /\ Len(replay) \in Nat
           /\ Len(replay) \div Interval \in Nat
           /\ updates <= model /\ searched <= updates /\ model <= Len(replay) \div Interval
           /\ maint \in Thread /\ maint.request \in Request
           /\ NextUpdate \in Nat
  <1>1. /\ updates \in Nat /\ model \in Nat /\ searched \in Nat /\ faults \in Nat
        /\ jobs \in Seq(Jobs) /\ replay \in Seq(Nat) /\ maint \in Thread
    BY DEF OwnerTypes
  <1>2. updates <= model /\ searched <= updates /\ model <= Len(replay) \div Interval
    BY DEF ModelInv, TrainInv
  <1>3. Len(replay) \in Nat /\ Len(jobs) \in Nat
    BY <1>1
  <1>4. Len(replay) \div Interval \in Nat
    BY <1>3, UpdatesDue
  <1>5. maint.request \in Request
    BY <1>1 DEF Thread
  <1>6. NextUpdate \in Nat
    <2>1. CASE jobs = <<>>
      BY <1>1, <2>1 DEF NextUpdate
    <2>2. CASE jobs # <<>>
      <3>1. Len(jobs) \in 1..Len(jobs)
        BY <1>1, <2>2
      <3> QED
        BY <2>2, <3>1, JobFacts DEF NextUpdate, ModelInv
    <2> QED
      BY <2>1, <2>2
  <1> QED
    BY <1>1, <1>2, <1>3, <1>4, <1>5, <1>6

LEMMA TrainItemModel == ASSUME OwnerTypes, ModelInv, ~ broken, TrainItem, UNCHANGED <<async, broken>>
                        PROVE  ModelInv' /\ OwnerTypes'
  <1> DEFINE r == maint.request
             n == Len(replay) \div Interval
  <1>1. /\ maint.pc = "train" /\ Good(r) /\ After(r) = Len(replay) /\ n = Behind(r)
        /\ NextUpdate = Before(r) /\ maint \in Thread /\ r \in Request
    BY ModelTypes DEF TrainItem, At, ModelInv, TrainInv, Position, Before, Behind
  <1>2. /\ Before(r) \in Nat /\ Behind(r) \in Nat /\ Before(r) <= Behind(r)
        /\ r.train \in Nat /\ Behind(r) = Before(r) + r.train
    BY <1>1, GoodFacts
  <1>3. UNCHANGED <<async, alive, main, drains, work, roots, replay, updates, searched, broken>>
    BY DEF TrainItem, Others
  <1>0. broken = FALSE /\ broken' = FALSE
    BY DEF OwnerTypes
  <1>4. maint'.request = r /\ maint' \in Thread /\ maint'.pc \in {"items", "refresh"}
    <2>1. maint' = [maint EXCEPT !.pc = "items"] \/ maint' = [maint EXCEPT !.pc = "refresh"]
      BY <1>0 DEF TrainItem, Goto
    <2> QED
      BY <1>1, <2>1 DEF Thread, Points
  <1>5. faults' = faults
    BY <1>0 DEF TrainItem
  <1> HIDE DEF r, n
  <1>6. CASE r.train = 0
    <2>1. UNCHANGED <<jobs, model>> /\ maint'.pc = "items"
      BY <1>1, <1>2, <1>6 DEF TrainItem, Goto, r, Thread
    <2>2. TrainInv'
      BY <1>1, <1>2, <1>3, <1>6, <2>1 DEF TrainInv, ModelInv, Position, NextUpdate, Behind, After, n
    <2>3. SyncInv'
      BY <1>1, <1>3, <2>1 DEF ModelInv, SyncInv, Behind
    <2>4. JobsInv'
      BY <1>3, <2>1 DEF ModelInv, JobsInv, Good, First, After, Before, Behind, Consecutive
    <2>5. LearnerInv'
      BY <1>3, <2>1 DEF ModelInv, LearnerInv, Before, Behind, First, After
    <2> QED
      BY <1>3, <1>4, <1>5, <2>1, <2>2, <2>3, <2>4, <2>5 DEF ModelInv, OwnerTypes
  <1>7. CASE r.train > 0 /\ async
    <2> DEFINE j == [request |-> r, done |-> FALSE, ok |-> TRUE]
               l == Len(jobs)
    <2>1. jobs' = Append(jobs, j) /\ UNCHANGED model /\ maint'.pc = "items"
      BY <1>1, <1>2, <1>3, <1>7 DEF TrainItem, Goto, r, Thread
    <2>2. j \in Jobs /\ j.request = r /\ ~ j.done
      BY <1>1 DEF Jobs
    <2> HIDE DEF j
    <2>3. /\ jobs' \in Seq(Jobs) /\ Len(jobs') = l + 1 /\ l \in Nat
          /\ \A i \in 1..l : jobs'[i] = jobs[i] /\ i \in 1..Len(jobs)
          /\ jobs'[l + 1] = j /\ 1..(l + 1) = 1..l \cup {l + 1} /\ l + 1 \notin 1..l
          /\ jobs' # <<>> /\ (l = 0 <=> jobs = <<>>)
      <3>1. jobs \in Seq(Jobs) /\ l \in Nat
        BY ModelTypes
      <3> QED
        BY <2>1, <2>2, <3>1, Appended
    <2> HIDE DEF l
    <2>4. CASE jobs = <<>>
      <3>1. l = 0 /\ Len(jobs') = 1 /\ jobs'[1] = j /\ \A i \in 1..Len(jobs') : i = 1
        BY <2>3, <2>4
      <3>2. updates = Before(r) /\ model = Before(r)
        BY <1>1, <1>7, <2>4 DEF NextUpdate, ModelInv, LearnerInv
      <3>3. TrainInv'
        BY <1>1, <1>2, <1>3, <2>1, <2>2, <2>3, <3>1 DEF TrainInv, ModelInv, Position, NextUpdate, n,
            Behind, After
      <3>4. SyncInv' /\ JobsInv' /\ LearnerInv'
        <4>1. /\ Good(jobs'[1].request) /\ After(jobs'[1].request) <= Len(replay')
              /\ Before(jobs'[1].request) = updates'
              /\ ~ jobs'[1].done /\ model' = Before(jobs'[1].request)
              /\ model' <= Behind(jobs'[1].request) /\ async'
          BY <1>1, <1>2, <1>3, <1>7, <2>1, <2>2, <3>1, <3>2, ModelTypes
        <4>2. JobsInv'
          BY <3>1, <4>1 DEF JobsInv, Good, First, After, Before, Behind, Consecutive
        <4>3. LearnerInv'
          BY <2>3, <3>1, <4>1, <1>2, <2>2 DEF LearnerInv, Before, Behind, After, First
        <4> QED
          BY <4>1, <4>2, <4>3 DEF SyncInv
      <3> QED
        BY <1>3, <1>4, <1>5, <2>1, <2>3, <3>3, <3>4 DEF ModelInv, OwnerTypes
    <2>5. CASE jobs # <<>>
      <3>1. l \in 1..l /\ Behind(jobs[l].request) = Before(r) /\ l > 0
        BY <1>1, <2>3, <2>5 DEF NextUpdate, l
      <3>2. TrainInv'
        BY <1>1, <1>2, <1>3, <2>1, <2>2, <2>3 DEF TrainInv, ModelInv, Position, NextUpdate, n,
            Behind, After
      <3>3. \A i \in 1..l : /\ Good(jobs[i].request) /\ After(jobs[i].request) <= Len(replay)
                            /\ Before(jobs[i].request) \in Nat /\ Behind(jobs[i].request) \in Nat
                            /\ Before(jobs[i].request) <= Behind(jobs[i].request)
        BY JobFacts DEF ModelInv, l
      <3>4. \A i \in 1..l : Behind(jobs[i].request) <= Before(r)
        <4> SUFFICES ASSUME NEW i \in 1..l PROVE Behind(jobs[i].request) <= Before(r)
          OBVIOUS
        <4>1. CASE i = l
          BY <1>2, <3>1, <4>1
        <4>2. CASE i # l
          <5>1. i < l
            BY <2>3, <4>2
          <5>2. Behind(jobs[i].request) <= Before(jobs[l].request)
            BY <3>1, <5>1 DEF ModelInv, JobsInv, l
          <5> QED
            BY <1>2, <3>1, <3>3, <5>2
        <4> QED
          BY <4>1, <4>2
      <3>5. \A i \in 1..Len(jobs') : Good(jobs'[i].request) /\ After(jobs'[i].request) <= Len(replay')
        <4>1. Good(j.request) /\ After(j.request) <= Len(replay')
          BY <1>1, <1>3, <2>2, ModelTypes
        <4>2. \A i \in 1..l : Good(jobs'[i].request) /\ After(jobs'[i].request) <= Len(replay')
          BY <1>3, <2>3, <3>3
        <4> QED
          BY <2>3, <4>1, <4>2
      <3>6. \A i \in 1..Len(jobs') - 1 : Before(jobs'[i + 1].request) = Behind(jobs'[i].request)
        <4> SUFFICES ASSUME NEW i \in 1..Len(jobs') - 1
                     PROVE  Before(jobs'[i + 1].request) = Behind(jobs'[i].request)
          OBVIOUS
        <4>1. CASE i = l
          BY <2>2, <2>3, <3>1, <4>1
        <4>2. CASE i # l
          <5>1. i \in 1..(l - 1) /\ i \in 1..l /\ i + 1 \in 1..l
            BY <2>3, <4>2
          <5> QED
            BY <2>3, <5>1 DEF ModelInv, JobsInv, l
        <4> QED
          BY <4>1, <4>2
      <3>7. \A i, k \in 1..Len(jobs') : i < k => Behind(jobs'[i].request) <= Before(jobs'[k].request)
        <4> SUFFICES ASSUME NEW i \in 1..Len(jobs'), NEW k \in 1..Len(jobs'), i < k
                     PROVE  Behind(jobs'[i].request) <= Before(jobs'[k].request)
          OBVIOUS
        <4>1. i \in 1..l
          BY <2>3
        <4>2. CASE k \in 1..l
          BY <2>3, <4>1, <4>2 DEF ModelInv, JobsInv, l
        <4>3. CASE k = l + 1
          BY <2>2, <2>3, <3>4, <4>1, <4>3
        <4> QED
          BY <2>3, <4>2, <4>3
      <3>8. JobsInv'
        <4>1. updates' = Before(jobs'[1].request)
          BY <1>3, <2>3, <2>5, <3>1 DEF ModelInv, JobsInv
        <4> QED
          BY <3>5, <3>6, <3>7, <4>1 DEF JobsInv, Good, First, After, Before, Behind, Consecutive
      <3>9. LearnerInv'
        <4>1. LearnerInv /\ model \in Nat
          BY ModelTypes DEF ModelInv
        <4>2. \A i, k \in 1..Len(jobs') : i < k /\ jobs'[k].done => jobs'[i].done
          <5> SUFFICES ASSUME NEW i \in 1..Len(jobs'), NEW k \in 1..Len(jobs'), i < k, jobs'[k].done
                       PROVE  jobs'[i].done
            OBVIOUS
          <5>1. k \in 1..l /\ i \in 1..l
            BY <2>2, <2>3
          <5> QED
            BY <2>3, <4>1, <5>1 DEF LearnerInv, l
        <4>3. model <= Before(r)
          BY <2>5, <3>1, <4>1 DEF LearnerInv, l
        <4>4. \A i \in 1..Len(jobs') : ~ jobs'[i].done => model' <= Before(jobs'[i].request)
          BY <2>1, <2>2, <2>3, <4>1, <4>3 DEF LearnerInv, l
        <4>5. model' <= Behind(jobs'[Len(jobs')].request)
          BY <1>2, <2>1, <2>2, <2>3, <4>1, <4>3
        <4>6. \A i \in 1..Len(jobs') : (\A k \in 1..i : jobs'[k].done /\ jobs'[k].ok)
                                          => Behind(jobs'[i].request) <= model'
          <5> SUFFICES ASSUME NEW i \in 1..Len(jobs'), \A k \in 1..i : jobs'[k].done /\ jobs'[k].ok
                       PROVE  Behind(jobs'[i].request) <= model'
            OBVIOUS
          <5>1. i \in 1..l
            BY <2>2, <2>3
          <5>2. \A k \in 1..i : k \in 1..l
            BY <2>3, <5>1
          <5>3. \A k \in 1..i : jobs[k].done /\ jobs[k].ok
            BY <2>3, <5>2
          <5> QED
            BY <2>1, <2>3, <4>1, <5>1, <5>3 DEF LearnerInv, l
        <4> QED
          BY <2>3, <4>2, <4>4, <4>5, <4>6 DEF LearnerInv, First, After, Before, Behind
      <3> QED
        BY <1>3, <1>4, <1>5, <1>7, <2>1, <2>3, <3>2, <3>8, <3>9 DEF ModelInv, OwnerTypes, SyncInv
    <2> QED
      BY <2>4, <2>5
  <1>8. CASE r.train > 0 /\ ~ async
    <2>1. model' = model + r.train /\ UNCHANGED jobs /\ maint'.pc = "refresh" /\ jobs = <<>>
      <3>1. model' = model + r.train /\ UNCHANGED jobs /\ Goto("refresh")
        <4>1. async = FALSE /\ r.train # 0 /\ r.train > 0
          BY <1>2, <1>8 DEF OwnerTypes
        <4> QED
          BY <1>0, <4>1 DEF TrainItem, r
      <3>2. maint'.pc = "refresh"
        BY <1>1, <3>1 DEF Goto, Thread
      <3> QED
        BY <1>8, <3>1, <3>2 DEF ModelInv, SyncInv
    <2>2. model = Before(r) /\ updates = Before(r)
      BY <1>1, <1>8, <2>1 DEF ModelInv, SyncInv, NextUpdate
    <2>3. model' = Behind(r)
      BY <1>2, <2>1, <2>2
    <2>4. TrainInv'
      <3>1. /\ Good(maint'.request) /\ After(maint'.request) = Len(replay')
            /\ NextUpdate' = Before(maint'.request)
        BY <1>1, <1>3, <1>4, <2>1, <2>2 DEF NextUpdate
      <3> QED
        BY <1>1, <1>2, <1>3, <1>8, <2>1, <2>2, <2>3, <3>1, ModelTypes
           DEF TrainInv, Position, Good, First, After, Before, Behind, Consecutive, n
    <2>5. SyncInv'
      BY <1>3, <1>4, <2>1, <2>3 DEF SyncInv, Behind, After
    <2>6. JobsInv' /\ LearnerInv'
      BY <1>3, <1>8, <2>1 DEF JobsInv, LearnerInv
    <2> QED
      BY <1>2, <1>3, <1>4, <1>5, <2>1, <2>3, <2>4, <2>5, <2>6 DEF ModelInv, OwnerTypes
  <1> QED
    BY <1>2, <1>6, <1>7, <1>8

LEMMA TrainItemKeeps == ASSUME OwnerInv, TrainItem, UNCHANGED async PROVE OwnerInv'
  <1>1. ~ broken /\ Others /\ UNCHANGED <<drains, work, replay, updates, searched>>
        /\ maint.pc = "train"
    BY DEF OwnerInv, WorkInv, TrainItem, At
  <1>2. CASE broken'
    <2>1. /\ Fault("train") /\ broken' = TRUE /\ maint' = Idle
          /\ Post(Answer("drain", FALSE, 0, FALSE)) /\ UNCHANGED <<jobs, model>>
      BY <1>1, <1>2 DEF TrainItem
    <2>2. faults' \in Nat
      BY <2>1 DEF OwnerInv, Types, OwnerTypes, Fault
    <2>3. work' \in Seq(Works) /\ \A i \in 1..Len(work') : Good(work'[i].request)
      BY <1>1 DEF OwnerInv, Types, OwnerTypes, WorkInv
    <2> QED
      BY <1>1, <2>1, <2>2, <2>3, MaintBreaks
  <1>3. CASE ~ broken'
    <2>1. UNCHANGED <<broken, results>>
      BY <1>1, <1>3 DEF TrainItem
    <2>2. ModelInv' /\ OwnerTypes'
      BY <1>1, <2>1, TrainItemModel DEF OwnerInv, Types
    <2> QED
      BY <1>1, <2>1, <2>2, MaintTrains DEF OwnerInv, Types
  <1> QED
    BY <1>2, <1>3

LEMMA RefreshSearchKeeps == ASSUME OwnerInv, RefreshSearch, UNCHANGED async PROVE OwnerInv'
  <1> DEFINE r == maint.request
  <1>1. ~ broken /\ Others /\ UNCHANGED drains /\ maint.pc = "refresh" /\ OwnerTypes /\ ModelInv
        /\ broken \in BOOLEAN
    BY DEF OwnerInv, Types, OwnerTypes, WorkInv, RefreshSearch, At
  <1>2. CASE Break /\ Fault("refresh")
    <2>1. faults' \in Nat
      BY <1>1, <1>2, ModelTypes DEF Fault
    <2>2. work' \in Seq(Works) /\ \A i \in 1..Len(work') : Good(work'[i].request)
      BY <1>2 DEF OwnerInv, Types, OwnerTypes, WorkInv, Break
    <2> QED
      BY <1>1, <1>2, <2>1, <2>2, MaintBreaks DEF Break
  <1>3. CASE /\ updates' = updates + r.train
             /\ searched' = IF r.refresh THEN updates' ELSE searched
             /\ Goto("items") /\ UNCHANGED <<results, work, replay, jobs, model, broken, faults>>
    <2>1. /\ Good(r) /\ After(r) = Len(replay) /\ NextUpdate = Before(r) /\ ~ async
          /\ jobs = <<>> /\ model = Behind(r) /\ updates = Before(r)
          /\ Behind(r) = Len(replay) \div Interval
      BY <1>1 DEF ModelInv, TrainInv, SyncInv, Position, NextUpdate, Before, Behind
    <2>2. maint \in Thread /\ r \in Request
      BY <1>1, ModelTypes
    <2>3. updates' = Behind(r) /\ updates' \in Nat /\ updates <= updates'
      BY <1>3, <2>1, <2>2, GoodFacts
    <2>4. maint' \in Thread /\ maint'.pc = "items"
      BY <1>3, <2>2 DEF Goto, Thread, Points
    <2>5. searched' \in Nat /\ searched' <= updates'
      BY <1>1, <1>3, <2>3, ModelTypes
    <2>6. ModelInv'
      <3>1. UNCHANGED <<async, jobs, model, replay, broken>>
        BY <1>3
      <3> QED
        BY <2>1, <2>3, <2>4, <2>5, <3>1, <1>1, ModelTypes
           DEF ModelInv, TrainInv, SyncInv, JobsInv, LearnerInv, Position, NextUpdate
    <2>7. OwnerTypes'
      BY <1>1, <1>3, <2>3, <2>4, <2>5 DEF OwnerTypes, Others
    <2> QED
      BY <1>1, <1>3, <2>6, <2>7, MaintTrains DEF OwnerInv, Types
  <1> QED
    BY <1>2, <1>3 DEF RefreshSearch

(***************************************************************************)
(* The learner's jobs.                                                     *)
(***************************************************************************)
LEMMA ApplyJobModel ==
    ASSUME OwnerTypes, ModelInv, JobDone, Head(jobs).ok, ApplyJob,
           maint.pc # "refresh",
           UNCHANGED <<async, maint, replay, model, broken>>
    PROVE  /\ ModelInv' /\ jobs' \in Seq(Jobs) /\ updates' \in Nat /\ searched' \in Nat
  <1> DEFINE j == jobs[1].request
             l == Len(jobs)
  <1>1. jobs \in Seq(Jobs) /\ jobs # <<>> /\ jobs' = Tail(jobs) /\ Head(jobs).done
    BY ModelTypes DEF JobDone, ApplyJob
  <1>2. /\ Head(jobs) = jobs[1] /\ l \in Nat /\ l > 0 /\ jobs' \in Seq(Jobs) /\ Len(jobs') = l - 1
        /\ \A i \in 1..(l - 1) : jobs'[i] = jobs[i + 1] /\ i + 1 \in 1..l
        /\ 1 \in 1..Len(jobs) /\ l \in 1..Len(jobs)
    BY <1>1, HeadAndTail
  <1>3. updates' = updates + j.train /\ searched' = IF j.refresh THEN updates' ELSE searched
    BY <1>2 DEF ApplyJob
  <1>4. /\ Before(j) \in Nat /\ Behind(j) \in Nat /\ Before(j) <= Behind(j)
        /\ Behind(j) = Before(j) + j.train /\ updates = Before(j) /\ j.train \in Nat
    BY <1>1, <1>2, JobFacts, GoodFacts DEF ModelInv, JobsInv
  <1>5. updates' = Behind(j) /\ updates' \in Nat /\ updates <= updates'
    BY <1>3, <1>4
  <1>6. searched' \in Nat /\ searched' <= updates'
    BY <1>3, <1>5, ModelTypes
  <1>7. Behind(j) <= model
    <2>1. \A k \in 1..1 : jobs[k].done /\ jobs[k].ok
      BY <1>1, <1>2
    <2> QED
      BY <1>2, <2>1 DEF ModelInv, LearnerInv
  <1>8. LearnerInv /\ JobsInv /\ model \in Nat
    BY ModelTypes DEF ModelInv
  <1> HIDE DEF j, l
  <1>9. NextUpdate' = NextUpdate
    <2>1. CASE l = 1
      <3>1. jobs' = <<>> /\ jobs[Len(jobs)] = jobs[1]
        BY <1>2, <2>1 DEF l
      <3> QED
        BY <1>1, <1>5, <3>1 DEF NextUpdate, j
    <2>2. CASE l # 1
      <3>1. l - 1 \in 1..(l - 1) /\ l - 1 + 1 = l
        BY <1>2, <2>2
      <3>2. jobs'[Len(jobs')] = jobs[Len(jobs)] /\ jobs' # <<>>
        BY <1>2, <3>1 DEF l
      <3> QED
        BY <1>1, <3>2 DEF NextUpdate, Behind, After
    <2> QED
      BY <2>1, <2>2
  <1>10. TrainInv'
    BY <1>5, <1>6, <1>7, <1>8, <1>9, ModelTypes
       DEF ModelInv, TrainInv, Position, Good, First, After, Before, Behind, Consecutive
  <1>11. async
    BY <1>1 DEF ModelInv, SyncInv
  <1>12. JobsInv'
    <2>1. \A i \in 1..Len(jobs') : Good(jobs'[i].request) /\ After(jobs'[i].request) <= Len(replay')
      BY <1>2, <1>8 DEF JobsInv, l
    <2>2. \A i \in 1..Len(jobs') - 1 : Before(jobs'[i + 1].request) = Behind(jobs'[i].request)
      <3> SUFFICES ASSUME NEW i \in 1..Len(jobs') - 1
                   PROVE  Before(jobs'[i + 1].request) = Behind(jobs'[i].request)
        OBVIOUS
      <3>1. i \in 1..(l - 1) /\ i + 1 \in 1..(l - 1) /\ i + 1 \in 1..Len(jobs) - 1
        BY <1>2 DEF l
      <3>2. jobs'[i] = jobs[i + 1] /\ jobs'[i + 1] = jobs[i + 1 + 1]
        BY <1>2, <3>1
      <3> QED
        BY <1>8, <3>1, <3>2 DEF JobsInv
    <2>3. \A i, k \in 1..Len(jobs') : i < k => Behind(jobs'[i].request) <= Before(jobs'[k].request)
      <3> SUFFICES ASSUME NEW i \in 1..Len(jobs'), NEW k \in 1..Len(jobs'), i < k
                   PROVE  Behind(jobs'[i].request) <= Before(jobs'[k].request)
        OBVIOUS
      <3>1. /\ i + 1 \in 1..Len(jobs) /\ k + 1 \in 1..Len(jobs) /\ i + 1 < k + 1
            /\ jobs'[i] = jobs[i + 1] /\ jobs'[k] = jobs[k + 1]
        BY <1>2 DEF l
      <3> QED
        BY <1>8, <3>1 DEF JobsInv
    <2>4. jobs' # <<>> => updates' = Before(jobs'[1].request)
      <3> SUFFICES ASSUME jobs' # <<>> PROVE updates' = Before(jobs'[1].request)
        OBVIOUS
      <3>1. 1 \in 1..(l - 1) /\ 1 \in 1..Len(jobs) - 1
        BY <1>2 DEF l
      <3>2. jobs'[1] = jobs[1 + 1]
        BY <1>2, <3>1
      <3> QED
        BY <1>5, <1>8, <3>1, <3>2 DEF JobsInv, j
    <2> QED
      BY <2>1, <2>2, <2>3, <2>4 DEF JobsInv, Good, First, After, Before, Behind, Consecutive
  <1>13. LearnerInv'
    <2>1. \A i, k \in 1..Len(jobs') : i < k /\ jobs'[k].done => jobs'[i].done
      <3> SUFFICES ASSUME NEW i \in 1..Len(jobs'), NEW k \in 1..Len(jobs'), i < k, jobs'[k].done
                   PROVE  jobs'[i].done
        OBVIOUS
      <3>1. /\ i + 1 \in 1..Len(jobs) /\ k + 1 \in 1..Len(jobs) /\ i + 1 < k + 1
            /\ jobs'[i] = jobs[i + 1] /\ jobs'[k] = jobs[k + 1]
        BY <1>2 DEF l
      <3> QED
        BY <1>8, <3>1 DEF LearnerInv
    <2>2. \A i \in 1..Len(jobs') : ~ jobs'[i].done => model' <= Before(jobs'[i].request)
      BY <1>2, <1>8 DEF LearnerInv, l
    <2>3. jobs' # <<>> => jobs'[Len(jobs')] = jobs[Len(jobs)]
      <3> SUFFICES ASSUME jobs' # <<>> PROVE jobs'[Len(jobs')] = jobs[Len(jobs)]
        OBVIOUS
      <3>1. l - 1 \in 1..(l - 1) /\ l - 1 + 1 = l
        BY <1>2
      <3> QED
        BY <1>2, <3>1 DEF l
    <2>4. \A i \in 1..Len(jobs') : (\A k \in 1..i : jobs'[k].done /\ jobs'[k].ok)
                                     => Behind(jobs'[i].request) <= model'
      <3> SUFFICES ASSUME NEW i \in 1..Len(jobs'), \A k \in 1..i : jobs'[k].done /\ jobs'[k].ok
                   PROVE  Behind(jobs'[i].request) <= model'
        OBVIOUS
      <3>1. i \in 1..(l - 1) /\ jobs'[i] = jobs[i + 1] /\ i + 1 \in 1..Len(jobs)
        BY <1>2 DEF l
      <3>2. \A k \in 1..(i + 1) : jobs[k].done /\ jobs[k].ok
        <4> SUFFICES ASSUME NEW k \in 1..(i + 1) PROVE jobs[k].done /\ jobs[k].ok
          OBVIOUS
        <4>1. CASE k = 1
          BY <1>1, <1>2, <4>1
        <4>2. CASE k # 1
          <5>1. k - 1 \in 1..i /\ k - 1 \in 1..(l - 1) /\ k - 1 + 1 = k
            BY <3>1, <4>2, <1>2
          <5>2. jobs'[k - 1] = jobs[k]
            BY <1>2, <5>1
          <5> QED
            BY <5>1, <5>2
        <4> QED
          BY <4>1, <4>2
      <3> QED
        BY <1>8, <3>1, <3>2 DEF LearnerInv
    <2>5. model = updates' \/ jobs' # <<>>
      <3> SUFFICES ASSUME jobs' = <<>> PROVE model = updates'
        OBVIOUS
      <3>0. Len(jobs') = 0
        OBVIOUS
      <3>1. l = 1
        BY <1>2, <3>0
      <3>2. model <= Behind(j)
        BY <1>1, <1>8, <3>1 DEF LearnerInv, j, l
      <3> QED
        BY <1>4, <1>5, <1>7, <1>8, <3>2
    <2>6. jobs' # <<>> => model' <= Behind(jobs'[Len(jobs')].request)
      BY <1>1, <1>8, <2>3 DEF LearnerInv
    <2> QED
      BY <2>1, <2>2, <2>4, <2>5, <2>6 DEF LearnerInv, First, After, Before, Behind
  <1> QED
    BY <1>2, <1>5, <1>6, <1>10, <1>11, <1>12, <1>13 DEF ModelInv, SyncInv

LEMMA PollKeeps == ASSUME OwnerInv, Poll, UNCHANGED async PROVE OwnerInv'
  <1>1. /\ ~ broken /\ broken \in BOOLEAN /\ Others /\ UNCHANGED drains
        /\ maint.pc \in {"poll", "tail", "train"} /\ JobDone /\ OwnerTypes /\ ModelInv
    BY DEF OwnerInv, Types, OwnerTypes, WorkInv, Poll
  <1>2. CASE PollFails /\ Break
    <2>1. faults' \in Nat
      BY <1>1, <1>2, ModelTypes DEF PollFails, Fault
    <2>2. work' \in Seq(Works) /\ \A i \in 1..Len(work') : Good(work'[i].request)
      BY <1>2 DEF OwnerInv, Types, OwnerTypes, WorkInv, Break
    <2> QED
      BY <1>1, <1>2, <2>1, <2>2, MaintBreaks DEF Break
  <1>3. CASE Head(jobs).ok /\ ApplyJob
             /\ UNCHANGED <<maint, results, work, replay, model, broken, faults>>
    <2>1. ModelInv' /\ jobs' \in Seq(Jobs) /\ updates' \in Nat /\ searched' \in Nat
      BY <1>1, <1>3, ApplyJobModel
    <2>2. OwnerTypes'
      BY <1>1, <1>3, <2>1 DEF OwnerTypes, Others
    <2> QED
      BY <1>1, <1>3, <2>1, <2>2, MaintTrains DEF OwnerInv, Types
  <1> QED
    BY <1>2, <1>3 DEF Poll

LEMMA RunJobModel == ASSUME OwnerTypes, ModelInv, RunJob, UNCHANGED async
                     PROVE  ModelInv' /\ OwnerTypes'
  <1>0. JobsInv /\ LearnerInv /\ TrainInv /\ SyncInv /\ jobs \in Seq(Jobs)
    BY ModelTypes DEF ModelInv
  <1>1. PICK i \in 1..Len(jobs) :
           /\ ~ jobs[i].done /\ \A k \in 1..(i - 1) : jobs[k].done
           /\ \/ /\ model' = model + jobs[i].request.train
                 /\ jobs' = [jobs EXCEPT ![i].done = TRUE] /\ UNCHANGED faults
              \/ /\ Fault("train")
                 /\ jobs' = [jobs EXCEPT ![i].done = TRUE, ![i].ok = FALSE] /\ UNCHANGED model
    BY DEF RunJob
  <1>2. /\ UNCHANGED <<alive, main, maint, drains, work, roots, replay, updates, searched, broken>>
    BY DEF RunJob
  <1> DEFINE r == jobs[i].request
  <1>3. /\ jobs[i] \in Jobs /\ Before(r) \in Nat /\ Behind(r) \in Nat /\ Before(r) <= Behind(r)
        /\ Behind(r) = Before(r) + r.train /\ Behind(r) <= Len(replay) \div Interval
    BY <1>0, JobFacts
  <1>4. /\ Len(jobs') = Len(jobs) /\ Len(jobs) \in Nat /\ jobs # <<>> /\ jobs' # <<>>
        /\ jobs' \in Seq(Jobs)
        /\ \A k \in 1..Len(jobs) : /\ jobs'[k].request = jobs[k].request
                                   /\ k # i => jobs'[k] = jobs[k]
        /\ jobs'[i].done = TRUE /\ jobs'[i].ok \in BOOLEAN
    <2>1. \E j \in Jobs : /\ j.request = jobs[i].request /\ j.done = TRUE
                          /\ jobs' = [jobs EXCEPT ![i] = j]
      <3>1. CASE jobs' = [jobs EXCEPT ![i].done = TRUE]
        <4> DEFINE j == [jobs[i] EXCEPT !.done = TRUE]
        <4>1. j \in Jobs /\ j.request = jobs[i].request /\ j.done = TRUE
          BY <1>3 DEF Jobs
        <4>2. jobs' = [jobs EXCEPT ![i] = j]
          BY <1>0, <3>1
        <4> QED
          BY <4>1, <4>2
      <3>2. CASE jobs' = [jobs EXCEPT ![i].done = TRUE, ![i].ok = FALSE]
        <4> DEFINE j == [jobs[i] EXCEPT !.done = TRUE, !.ok = FALSE]
        <4>1. j \in Jobs /\ j.request = jobs[i].request /\ j.done = TRUE
          BY <1>3 DEF Jobs
        <4>2. jobs' = [jobs EXCEPT ![i] = j]
          BY <1>0, <3>2
        <4> QED
          BY <4>1, <4>2
      <3> QED
        BY <1>1, <3>1, <3>2
    <2>2. PICK j \in Jobs : /\ j.request = jobs[i].request /\ j.done = TRUE
                           /\ jobs' = [jobs EXCEPT ![i] = j]
      BY <2>1
    <2>3. j.ok \in BOOLEAN
      BY DEF Jobs
    <2>4. jobs # <<>> /\ Len(jobs) \in Nat
      BY <1>0
    <2>5. /\ jobs' \in Seq(Jobs) /\ Len(jobs') = Len(jobs) /\ jobs'[i] = j
          /\ \A k \in 1..Len(jobs) : k # i => jobs'[k] = jobs[k]
      BY <1>0, <2>2
    <2> QED
      BY <2>2, <2>3, <2>4, <2>5
  <1>5. model <= Before(r) /\ model \in Nat /\ updates \in Nat /\ updates <= model
        /\ searched \in Nat
    BY <1>0, <1>1, ModelTypes DEF LearnerInv
  <1>6. \/ model' = model /\ ~ jobs'[i].ok /\ faults' \in Nat
        \/ model' \in Nat /\ model <= model' /\ model' <= Behind(r) /\ jobs'[i].ok = jobs[i].ok
           /\ model' = model + r.train /\ UNCHANGED faults
    <2>1. CASE Fault("train") /\ jobs' = [jobs EXCEPT ![i].done = TRUE, ![i].ok = FALSE]
               /\ UNCHANGED model
      <3>1. ~ jobs'[i].ok
        BY <1>0, <1>3, <2>1 DEF Jobs
      <3>2. faults' \in Nat
        BY <2>1, ModelTypes DEF Fault
      <3> QED
        BY <2>1, <3>1, <3>2
    <2>2. CASE model' = model + r.train /\ jobs' = [jobs EXCEPT ![i].done = TRUE]
               /\ UNCHANGED faults
      <3>1. jobs'[i].ok = jobs[i].ok
        BY <1>0, <1>3, <2>2 DEF Jobs
      <3>2. r.train \in Nat
        <4>1. r \in Request
          BY <1>3 DEF Jobs
        <4> QED
          BY <4>1 DEF Request
      <3> QED
        <4>1. model \in Nat /\ model + r.train <= Behind(r)
          BY <1>3, <1>5, <3>2
        <4> QED
          BY <2>2, <3>1, <3>2, <4>1
    <2> QED
      BY <1>1, <2>1, <2>2
  <1>7. model' \in Nat /\ model <= model' /\ model' <= Behind(r) /\ faults' \in Nat
    BY <1>3, <1>5, <1>6, ModelTypes
  <1>8. async
    BY <1>0, <1>4 DEF SyncInv
  <1>9. (\A k \in 1..(i - 1) : jobs[k].ok) => Before(r) <= model
    <2> SUFFICES ASSUME \A k \in 1..(i - 1) : jobs[k].ok PROVE Before(r) <= model
      OBVIOUS
    <2>1. CASE i = 1
      BY <1>0, <1>4, <1>5, <2>1 DEF JobsInv
    <2>2. CASE i # 1
      <3>1. i - 1 \in 1..Len(jobs) /\ i - 1 \in 1..Len(jobs) - 1 /\ i - 1 + 1 = i
        BY <1>4, <2>2
      <3>2. Behind(jobs[i - 1].request) <= model
        BY <1>0, <1>1, <3>1 DEF LearnerInv
      <3>3. Before(jobs[i - 1 + 1].request) = Behind(jobs[i - 1].request)
        BY <1>0, <3>1 DEF JobsInv
      <3> QED
        BY <3>1, <3>2, <3>3
    <2> QED
      BY <2>1, <2>2
  <1>10. jobs'[i].ok /\ (\A k \in 1..(i - 1) : jobs'[k].ok) => Behind(r) <= model'
    <2> SUFFICES ASSUME jobs'[i].ok, \A k \in 1..(i - 1) : jobs'[k].ok PROVE Behind(r) <= model'
      OBVIOUS
    <2>1. \A k \in 1..(i - 1) : jobs[k].ok
      BY <1>4
    <2>2. CASE model' = model + r.train
      BY <1>3, <1>5, <1>9, <2>1, <2>2
    <2> QED
      BY <1>3, <1>6, <2>2
  <1> HIDE DEF r
  <1>11. TrainInv'
    <2>1. NextUpdate' = NextUpdate
      BY <1>4, <1>2 DEF NextUpdate, Behind, After
    <2>2. model' <= Len(replay) \div Interval
      BY <1>3, <1>7, ModelTypes
    <2> QED
      BY <1>0, <1>2, <1>5, <1>7, <1>8, <2>1, <2>2
         DEF TrainInv, Position, Good, First, After, Before, Behind, Consecutive
  <1>12. JobsInv'
    <2>1. \A k \in 1..Len(jobs') : Good(jobs'[k].request) /\ After(jobs'[k].request) <= Len(replay')
      BY <1>0, <1>2, <1>4 DEF JobsInv
    <2>2. \A k \in 1..Len(jobs') - 1 : Before(jobs'[k + 1].request) = Behind(jobs'[k].request)
      BY <1>0, <1>4 DEF JobsInv
    <2>3. \A k, m \in 1..Len(jobs') : k < m => Behind(jobs'[k].request) <= Before(jobs'[m].request)
      BY <1>0, <1>4 DEF JobsInv
    <2>4. updates' = Before(jobs'[1].request)
      BY <1>0, <1>2, <1>4 DEF JobsInv
    <2> QED
      BY <2>1, <2>2, <2>3, <2>4 DEF JobsInv, Good, First, After, Before, Behind, Consecutive
  <1>13. LearnerInv'
    <2>1. \A k, m \in 1..Len(jobs') : k < m /\ jobs'[m].done => jobs'[k].done
      <3> SUFFICES ASSUME NEW k \in 1..Len(jobs'), NEW m \in 1..Len(jobs'), k < m, jobs'[m].done
                   PROVE  jobs'[k].done
        OBVIOUS
      <3>1. k \in 1..Len(jobs) /\ m \in 1..Len(jobs)
        BY <1>4
      <3>2. CASE k = i
        BY <1>4, <3>2
      <3>3. CASE k # i /\ m = i
        <4>1. k \in 1..(i - 1)
          BY <3>1, <3>3
        <4> QED
          BY <1>1, <1>4, <3>1, <3>3, <4>1
      <3>4. CASE k # i /\ m # i
        BY <1>0, <1>4, <3>1, <3>4 DEF LearnerInv
      <3> QED
        BY <3>2, <3>3, <3>4
    <2>2. \A k \in 1..Len(jobs') : ~ jobs'[k].done => model' <= Before(jobs'[k].request)
      <3> SUFFICES ASSUME NEW k \in 1..Len(jobs'), ~ jobs'[k].done
                   PROVE  model' <= Before(jobs'[k].request)
        OBVIOUS
      <3>1. k \in 1..Len(jobs) /\ k # i /\ ~ jobs[k].done
        BY <1>4
      <3>2. i < k
        <4>1. k \notin 1..(i - 1)
          BY <1>1, <3>1
        <4> QED
          BY <3>1, <4>1
      <3>3. Behind(r) <= Before(jobs[k].request) /\ Before(jobs[k].request) \in Nat
        BY <1>0, <3>1, <3>2, JobFacts DEF JobsInv, r
      <3> QED
        BY <1>3, <1>4, <1>7, <3>1, <3>3
    <2>3. model' <= Behind(jobs'[Len(jobs')].request)
      <3>0. Len(jobs) \in 1..Len(jobs)
        BY <1>4
      <3>1. CASE i = Len(jobs)
        BY <1>4, <1>7, <3>0, <3>1 DEF r
      <3>2. CASE i # Len(jobs)
        <4>1. i < Len(jobs)
          BY <1>4, <3>2
        <4>2. /\ Behind(r) <= Before(jobs[Len(jobs)].request)
              /\ Before(jobs[Len(jobs)].request) \in Nat
              /\ Behind(jobs[Len(jobs)].request) \in Nat
              /\ Before(jobs[Len(jobs)].request) <= Behind(jobs[Len(jobs)].request)
          BY <1>0, <3>0, <4>1, JobFacts DEF JobsInv, r
        <4> QED
          BY <1>3, <1>4, <1>7, <3>0, <4>2
      <3> QED
        BY <3>1, <3>2
    <2>4. \A m \in 1..Len(jobs') : (\A k \in 1..m : jobs'[k].done /\ jobs'[k].ok)
                                     => Behind(jobs'[m].request) <= model'
      <3> SUFFICES ASSUME NEW m \in 1..Len(jobs'), \A k \in 1..m : jobs'[k].done /\ jobs'[k].ok
                   PROVE  Behind(jobs'[m].request) <= model'
        OBVIOUS
      <3>1. m \in 1..Len(jobs) /\ Behind(jobs[m].request) \in Nat /\ Before(jobs[m].request) \in Nat
        BY <1>0, <1>4, JobFacts
      <3>2. CASE m < i
        <4>1. \A k \in 1..m : k \in 1..Len(jobs) /\ k # i
          BY <3>1, <3>2
        <4>2. \A k \in 1..m : jobs[k].done /\ jobs[k].ok
          BY <1>4, <4>1
        <4>3. Behind(jobs[m].request) <= model
          BY <1>0, <3>1, <4>2 DEF LearnerInv
        <4> QED
          BY <1>4, <1>5, <1>7, <3>1, <4>3
      <3>3. CASE m = i
        <4>1. jobs'[i].ok /\ \A k \in 1..(i - 1) : jobs'[k].ok
          BY <3>1, <3>3
        <4> QED
          BY <1>4, <1>10, <3>1, <3>3, <4>1 DEF r
      <3>4. CASE m > i
        <4>1. jobs'[m].done /\ jobs'[m] = jobs[m]
          BY <1>4, <3>1, <3>4
        <4> QED
          BY <1>0, <1>1, <3>1, <3>4, <4>1 DEF LearnerInv
      <3> QED
        BY <3>1, <3>2, <3>3, <3>4
    <2> QED
      BY <1>4, <2>1, <2>2, <2>3, <2>4 DEF LearnerInv, First, After, Before, Behind
  <1>14. SyncInv'
    BY <1>8 DEF SyncInv
  <1>15. OwnerTypes'
    BY <1>2, <1>4, <1>7 DEF OwnerTypes
  <1> QED
    BY <1>11, <1>12, <1>13, <1>14, <1>15 DEF ModelInv

LEMMA RunJobKeeps == ASSUME OwnerInv, RunJob, UNCHANGED async PROVE OwnerInv'
  <1>1. UNCHANGED <<actorVars, queueVars, alive, main, maint, work, replay, broken>>
    BY DEF RunJob
  <1>2. ModelInv' /\ OwnerTypes'
    BY RunJobModel DEF OwnerInv, Types
  <1>3. ActorTypes' /\ QueueTypes' /\ LoopInv'
    BY <1>1, ActorFrame, QueueFrame, LoopFrame DEF OwnerInv, Types
  <1>4. ActionInv' /\ Taken' = Taken
    BY <1>1, ActionFrame DEF OwnerInv, actorVars, queueVars
  <1>5. WorkInv'
    BY <1>1, <1>4, WorkFrame DEF OwnerInv, actorVars
  <1> QED
    BY <1>2, <1>3, <1>4, <1>5 DEF OwnerInv, Types

LEMMA CloseJobsKeeps == ASSUME OwnerInv, CloseJobs, UNCHANGED async PROVE OwnerInv'
  <1>1. UNCHANGED <<actorVars, queueVars, main, maint, drains>> /\ maint.pc = "idle" /\ JobDone
    BY DEF CloseJobs
  <1>2. CASE Head(jobs).ok /\ ApplyJob
             /\ UNCHANGED <<alive, faults, work, roots, replay, model, broken>>
    <2>1. ModelInv' /\ jobs' \in Seq(Jobs) /\ updates' \in Nat /\ searched' \in Nat
      BY <1>1, <1>2, ApplyJobModel DEF OwnerInv, Types
    <2>2. OwnerTypes'
      BY <1>1, <1>2, <2>1 DEF OwnerInv, Types, OwnerTypes
    <2>3. ActorTypes' /\ QueueTypes' /\ LoopInv'
      BY <1>1, ActorFrame, QueueFrame, LoopFrame DEF OwnerInv, Types
    <2>4. ActionInv' /\ Taken' = Taken
      BY <1>1, <1>2, ActionFrame DEF OwnerInv, actorVars, queueVars
    <2>5. WorkInv'
      BY <1>1, <1>2, <2>4, WorkFrame DEF OwnerInv, actorVars
    <2> QED
      BY <2>1, <2>2, <2>3, <2>4, <2>5 DEF OwnerInv, Types
  <1>3. CASE PollFails /\ alive' = FALSE /\ UNCHANGED storeVars
    <2>1. faults' \in Nat
      BY <1>3 DEF PollFails, Fault, OwnerInv, Types, OwnerTypes
    <2>2. OwnerTypes' /\ ActorTypes' /\ QueueTypes' /\ LoopInv'
      BY <1>1, <1>3, <2>1, ActorFrame, QueueFrame, LoopFrame, OwnerFrame DEF OwnerInv, Types, ownerVars
    <2>3. ActionInv' /\ Taken' = Taken
      BY <1>1, <1>3, ActionFrame DEF OwnerInv, actorVars, queueVars
    <2>4. WorkInv' /\ ModelInv'
      BY <1>1, <1>3, <2>3, WorkFrame, ModelFrame DEF OwnerInv, actorVars, storeVars
    <2> QED
      BY <2>2, <2>3, <2>4 DEF OwnerInv, Types
  <1> QED
    BY <1>2, <1>3 DEF CloseJobs

(***************************************************************************)
(* Steps of the main thread.                                               *)
(***************************************************************************)
LEMMA CloseServiceKeeps == ASSUME OwnerInv, CloseService, UNCHANGED async PROVE OwnerInv'
  <1>1. UNCHANGED <<actorVars, commands, answers, ownerVars, faults>> /\ alive' = FALSE
        /\ Post(Answer("close", TRUE, 0, FALSE))
    BY DEF CloseService
  <1>2. Answer("close", TRUE, 0, FALSE) \in Answers
    BY ConstantTypes
  <1>3. QueueTypes' /\ ActionInv' /\ Taken' = Taken
    BY <1>1, <1>2, PostFrame DEF OwnerInv, Types, actorVars, ownerVars, Answer
  <1>4. faults' \in Nat
    BY <1>1 DEF OwnerInv, Types, OwnerTypes
  <1>5. OwnerTypes' /\ ActorTypes' /\ LoopInv'
    BY <1>1, <1>4, ActorFrame, LoopFrame, OwnerFrame DEF OwnerInv, Types
  <1>6. WorkInv' /\ ModelInv'
    BY <1>1, <1>3, WorkFrame, ModelFrame DEF OwnerInv, actorVars, storeVars, ownerVars
  <1> QED
    BY <1>3, <1>5, <1>6 DEF OwnerInv, Types

LEMMA ProcessDiesKeeps == ASSUME OwnerInv, ProcessDies, UNCHANGED async PROVE OwnerInv'
  <1>1. UNCHANGED <<actorVars, queueVars, ownerVars>> /\ alive' = FALSE
    BY DEF ProcessDies
  <1>2. faults' \in Nat
    BY DEF ProcessDies, Fault, OwnerInv, Types, OwnerTypes
  <1>3. OwnerTypes' /\ ActorTypes' /\ QueueTypes' /\ LoopInv'
    BY <1>1, <1>2, ActorFrame, QueueFrame, LoopFrame, OwnerFrame DEF OwnerInv, Types
  <1>4. ActionInv' /\ Taken' = Taken
    BY <1>1, ActionFrame DEF OwnerInv, actorVars, queueVars, ownerVars
  <1>5. WorkInv' /\ ModelInv'
    BY <1>1, <1>4, WorkFrame, ModelFrame DEF OwnerInv, actorVars, storeVars, ownerVars
  <1> QED
    BY <1>3, <1>4, <1>5 DEF OwnerInv, Types

\* A command that is not an action goes to the end of the queue.
LEMMA Ordered ==
    ASSUME commands \in Seq(Commands), NEW k \in {"drain", "close"},
           commands' = Append(commands, Command(k, NoRequest))
    PROVE  /\ commands' \in Seq(Commands)
           /\ \A i \in 1..Len(commands) : i \in 1..Len(commands') /\ commands'[i] = commands[i]
           /\ \A i \in 1..Len(commands') : commands'[i].kind = "action" =>
                  i \in 1..Len(commands) /\ commands'[i] = commands[i]
  <1>1. Command(k, NoRequest) \in Commands /\ Command(k, NoRequest).kind # "action"
    BY ConstantTypes DEF Command
  <1> DEFINE c == Command(k, NoRequest)
  <1> HIDE DEF c
  <1>2. /\ commands' \in Seq(Commands) /\ Len(commands') = Len(commands) + 1
        /\ \A i \in 1..Len(commands) : commands'[i] = commands[i]
        /\ commands'[Len(commands) + 1] = c
        /\ 1..(Len(commands) + 1) = 1..Len(commands) \cup {Len(commands) + 1}
    BY <1>1, Appended DEF c
  <1> QED
    BY <1>1, <1>2 DEF c

\* The first command is taken.
LEMMA Fetched ==
    ASSUME OwnerInv, commands # <<>>, commands' = Tail(commands), UNCHANGED dispatch
    PROVE  /\ commands' \in Seq(Commands) /\ Head(commands) \in Commands
           /\ Head(commands).kind = "action" =>
                  /\ Asked /\ ~ Asked' /\ Head(commands).request = dispatch
                  /\ \A i \in 1..Len(commands') : commands'[i].kind # "action"
           /\ Head(commands).kind # "action" => Asked' = Asked
           /\ \A i, j \in 1..Len(commands') :
                  commands'[i].kind = "action" /\ commands'[j].kind = "action" => i = j
           /\ \A i \in 1..Len(commands') : commands'[i].kind = "action" =>
                  commands'[i].request = dispatch'
  <1> DEFINE l == Len(commands)
  <1>1. commands \in Seq(Commands)
    BY DEF OwnerInv, Types, QueueTypes
  <1>2. /\ Head(commands) \in Commands /\ Head(commands) = commands[1] /\ l \in Nat /\ l > 0
        /\ commands' \in Seq(Commands) /\ Len(commands') = l - 1
        /\ \A i \in 1..(l - 1) : commands'[i] = commands[i + 1] /\ i + 1 \in 1..l
        /\ 1 \in 1..Len(commands)
    BY <1>1, HeadAndTail
  <1>3. /\ \A i, j \in 1..l : commands[i].kind = "action" /\ commands[j].kind = "action" => i = j
        /\ \A i \in 1..l : commands[i].kind = "action" => commands[i].request = dispatch
    BY DEF OwnerInv, ActionInv
  <1>4. Asked <=> \E i \in 1..l : commands[i].kind = "action"
    BY DEF Asked
  <1>5. Asked' <=> \E i \in 1..(l - 1) : commands'[i].kind = "action"
    BY <1>2 DEF Asked
  <1> HIDE DEF l
  <1>6. \A i, j \in 1..(l - 1) :
           commands'[i].kind = "action" /\ commands'[j].kind = "action" => i = j
    <2> SUFFICES ASSUME NEW i \in 1..(l - 1), NEW j \in 1..(l - 1),
                        commands'[i].kind = "action", commands'[j].kind = "action"
                 PROVE  i = j
      OBVIOUS
    <2>1. i + 1 = j + 1
      BY <1>2, <1>3
    <2> QED
      BY <1>2, <2>1
  <1>7. \A i \in 1..(l - 1) : commands'[i].kind = "action" => commands'[i].request = dispatch'
    BY <1>2, <1>3
  <1>8. ASSUME Head(commands).kind = "action"
        PROVE  \A i \in 1..(l - 1) : commands'[i].kind # "action"
    <2> SUFFICES ASSUME NEW i \in 1..(l - 1), commands'[i].kind = "action" PROVE FALSE
      OBVIOUS
    <2>1. i + 1 = 1 /\ i \in Nat /\ i > 0
      BY <1>2, <1>3, <1>8 DEF l
    <2> QED
      BY <2>1
  <1>9. ASSUME Head(commands).kind = "action" PROVE Asked /\ Head(commands).request = dispatch
    BY <1>2, <1>3, <1>4, <1>9 DEF l
  <1>10. ASSUME Head(commands).kind # "action" PROVE Asked' = Asked
    <2>1. ASSUME Asked PROVE Asked'
      <3>1. PICK i \in 1..l : commands[i].kind = "action"
        BY <1>4, <2>1
      <3>2. i - 1 \in 1..(l - 1) /\ i - 1 + 1 = i
        BY <1>2, <1>10, <3>1
      <3> QED
        BY <1>2, <1>5, <3>1, <3>2
    <2>2. ASSUME Asked' PROVE Asked
      BY <1>2, <1>4, <1>5, <2>2
    <2> QED
      BY <2>1, <2>2 DEF Asked
  <1> QED
    BY <1>2, <1>5, <1>6, <1>7, <1>8, <1>9, <1>10

LEMMA TakeCommandKeeps == ASSUME OwnerInv, TakeCommand, UNCHANGED async
                          PROVE  OwnerInv' /\ Taken' = Taken
  <1> DEFINE c == Head(commands)
  <1>1. /\ alive /\ main.pc = "idle" /\ commands # <<>> /\ commands' = Tail(commands)
        /\ UNCHANGED <<actorVars, answers, alive, maint, storeVars>>
    BY DEF TakeCommand
  <1>2. /\ commands' \in Seq(Commands) /\ c \in Commands
        /\ c.kind = "action" =>
              /\ Asked /\ ~ Asked' /\ c.request = dispatch
              /\ \A i \in 1..Len(commands') : commands'[i].kind # "action"
        /\ c.kind # "action" => Asked' = Asked
        /\ \A i, j \in 1..Len(commands') :
              commands'[i].kind = "action" /\ commands'[j].kind = "action" => i = j
        /\ \A i \in 1..Len(commands') : commands'[i].kind = "action" =>
              commands'[i].request = dispatch'
    BY <1>1, Fetched DEF actorVars
  <1> HIDE DEF c
  <1>3. ActorTypes' /\ LoopInv'
    BY <1>1, ActorFrame, LoopFrame DEF OwnerInv, Types
  <1>4. ModelInv'
    BY <1>1, ModelFrame DEF OwnerInv, storeVars
  <1>5. c.request \in Request /\ main \in Thread /\ drains \in Seq({"drain"}) /\ faults \in Nat
        /\ ~ Held /\ Got' = Got
    BY <1>1, <1>2 DEF Commands, OwnerInv, Types, OwnerTypes, Held, Got
  <1>6. ActionInv
    BY DEF OwnerInv
  <1>7. ASSUME main' \in Thread, main'.pc \in {"idle", "stage", "close"},
               drains' \in Seq({"drain"}), faults' \in Nat
        PROVE  OwnerTypes'
    BY <1>1, <1>7 DEF OwnerInv, Types, OwnerTypes, storeVars
  <1>8. ASSUME UNCHANGED results
        PROVE  QueueTypes' /\ Reported' = Reported
    BY <1>1, <1>2, <1>8 DEF OwnerInv, Types, QueueTypes, Reported
  <1>9. ASSUME Taken' = Taken PROVE WorkInv'
    BY <1>1, <1>9, WorkFrame DEF OwnerInv, actorVars, storeVars
  <1>10. CASE /\ c.kind = "action"
              /\ main' = [main EXCEPT !.pc = "stage", !.request = c.request]
              /\ UNCHANGED <<results, drains, faults>>
    <2>1. main' \in Thread /\ main'.pc = "stage" /\ main'.request = dispatch
      BY <1>2, <1>5, <1>10 DEF Thread, Points
    <2>2. Taken' = Taken
      BY <1>1, <1>10, <2>1 DEF Taken
    <2>3. ~ Asked' /\ Held' /\ ~ Reported' /\ ~ Got' /\ actor' = "waiting"
      BY <1>1, <1>2, <1>5, <1>6, <1>8, <1>10, <2>1 DEF ActionInv, Held, actorVars
    <2>4. ActionInv'
      <3>1. results' = results /\ dispatch' = dispatch
        BY <1>1, <1>10 DEF actorVars
      <3> QED
        BY <1>2, <1>6, <1>10, <2>1, <2>3, <3>1 DEF ActionInv
    <2> QED
      BY <1>3, <1>4, <1>5, <1>7, <1>8, <1>9, <1>10, <2>1, <2>2, <2>4 DEF OwnerInv, Types
  <1>11. CASE /\ c.kind = "action" /\ faults' \in Nat
              /\ Post(Answer("action", FALSE, 0, FALSE)) /\ UNCHANGED <<main, drains>>
    <2> DEFINE a == Answer("action", FALSE, 0, FALSE)
               l == Len(results)
    <2>1. a \in Answers /\ a.kind = "action" /\ ~ a.ok
      BY ConstantTypes DEF Answer
    <2>2. results \in Seq(Answers) /\ results' = Append(results, a)
      BY <1>11 DEF OwnerInv, Types, QueueTypes, Post
    <2> HIDE DEF a
    <2>3. /\ results' \in Seq(Answers) /\ Len(results') = l + 1 /\ l \in Nat
          /\ \A i \in 1..l : results'[i] = results[i]
          /\ results'[l + 1] = a /\ 1..(l + 1) = 1..l \cup {l + 1}
      BY <2>1, <2>2, Appended
    <2>4. ~ Asked' /\ ~ Held' /\ ~ Reported /\ ~ Got' /\ actor' = "waiting"
      BY <1>1, <1>2, <1>5, <1>6, <1>11 DEF ActionInv, Held, actorVars
    <2>5. \A i \in 1..l : results[i].kind # "action"
      BY <2>4 DEF Reported
    <2> HIDE DEF l
    <2>6. QueueTypes'
      BY <1>1, <1>2, <2>1, <2>3 DEF OwnerInv, Types, QueueTypes, l
    <2>7. Taken' = Taken
      <3>1. ~ \E i \in 1..l : results[i].kind = "action" /\ results[i].ok
        BY <2>5
      <3>2. ~ \E i \in 1..Len(results') : results'[i].kind = "action" /\ results'[i].ok
        BY <2>1, <2>3, <2>5
      <3> QED
        BY <1>1, <1>11, <3>1, <3>2 DEF Taken, l
    <2>8. ActionInv'
      <3>1. \A i, j \in 1..Len(results') :
               results'[i].kind = "action" /\ results'[j].kind = "action" => i = j
        BY <2>3, <2>5
      <3> QED
        BY <1>2, <2>4, <3>1 DEF ActionInv
    <2> QED
      BY <1>3, <1>4, <1>5, <1>7, <1>9, <1>1, <1>11, <2>6, <2>7, <2>8 DEF OwnerInv, Types
  <1>12. CASE /\ c.kind = "drain" /\ drains' = Append(drains, "drain")
              /\ UNCHANGED <<main, results, faults>>
    <2>1. drains' \in Seq({"drain"})
      BY <1>5, <1>12
    <2>2. Taken' = Taken
      BY <1>1, <1>12 DEF Taken
    <2>3. ActionInv'
      BY <1>1, <1>2, <1>5, <1>6, <1>8, <1>12 DEF ActionInv, Held, actorVars
    <2> QED
      BY <1>1, <1>3, <1>4, <1>5, <1>7, <1>8, <1>9, <1>12, <2>1, <2>2, <2>3 DEF OwnerInv, Types
  <1>13. CASE /\ c.kind = "close" /\ main' = [main EXCEPT !.pc = "close"]
              /\ UNCHANGED <<results, drains, faults>>
    <2>1. main' \in Thread /\ main'.pc = "close"
      BY <1>5, <1>13 DEF Thread, Points
    <2>2. Taken' = Taken
      BY <1>1, <1>13, <2>1 DEF Taken
    <2>3. ActionInv'
      BY <1>1, <1>2, <1>5, <1>6, <1>8, <1>13, <2>1 DEF ActionInv, Held, actorVars
    <2> QED
      BY <1>3, <1>4, <1>5, <1>7, <1>8, <1>9, <1>13, <2>1, <2>2, <2>3 DEF OwnerInv, Types
  <1>14. ASSUME IF broken THEN UNCHANGED faults ELSE Fault("search") PROVE faults' \in Nat
    BY <1>5, <1>14 DEF Fault
  <1> QED
    BY <1>10, <1>11, <1>12, <1>13, <1>14 DEF TakeCommand, c

LEMMA StageWorkKeeps == ASSUME OwnerInv, StageWork, UNCHANGED async PROVE OwnerInv'
  <1> DEFINE r == main.request
             n == Len(work)
  <1>1. /\ alive /\ main.pc = "stage" /\ roots' \subseteq roots \cup {r.step}
        /\ UNCHANGED <<actorVars, queueVars, alive, maint, drains, replay, jobs, model, updates,
                       searched, broken, faults>>
        /\ main' = [main EXCEPT !.pc = "report", !.pending = Len(work')]
    BY DEF StageWork, Newest
  <1>2. /\ r = dispatch /\ ~ Asked /\ ~ Reported /\ ~ Got /\ Held /\ actor = "waiting"
    BY <1>1 DEF OwnerInv, ActionInv, Held
  <1>3. /\ r \in Request /\ main \in Thread /\ work \in Seq(Works) /\ roots \in SUBSET Nat
        /\ submitted \in Nat /\ staged \in Seq(Nat) /\ replay \in Seq(Nat)
    BY DEF OwnerInv, Types, ActorTypes, OwnerTypes, Thread
  <1>4. r.entries = staged /\ r.train = Train(Len(staged)) /\ Consecutive(staged, submitted)
    BY <1>2 DEF OwnerInv, LoopInv
  <1>5. r.step \in Nat /\ r.entries \in Seq(Nat) /\ r.train \in Nat
    BY <1>3 DEF Request
  <1>6. ~ Taken
    <2>1. answers["action"].kind = "none"
      BY <1>2 DEF Got, NoAnswer
    <2> QED
      BY <1>1, <1>2, <2>1 DEF Taken, Reported
  <1>7. ActorTypes' /\ QueueTypes' /\ LoopInv' /\ ModelInv'
    BY <1>1, ActorFrame, QueueFrame, LoopFrame, ModelFrame DEF OwnerInv, Types
  <1>8. (\A i \in 1..n : Good(work[i].request)) /\ Len(replay) <= submitted + Len(staged)
        /\ Consecutive(replay, 0)
    BY DEF OwnerInv, WorkInv
  <1>9. ASSUME ~ broken
        PROVE  /\ work # <<>> => First(work[1].request) = Len(replay)
               /\ \A i \in 1..n - 1 : First(work[i + 1].request) = After(work[i].request)
               /\ \A i \in 1..n : After(work[i].request) <= WorkEnd
               /\ WorkEnd = submitted
    BY <1>1, <1>6, <1>9 DEF OwnerInv, WorkInv
  <1>10. broken => maint.pc = "idle"
    BY DEF OwnerInv, WorkInv
  <1>11. ASSUME work' \in Seq(Works)
         PROVE  /\ main' \in Thread /\ main'.pc = "report" /\ main'.request = dispatch
                /\ OwnerTypes' /\ ActionInv' /\ Taken'
    <2>1. Len(work') \in Nat
      BY <1>11
    <2>2. main' \in Thread /\ main'.pc = "report" /\ main'.request = dispatch
      BY <1>1, <1>2, <1>3, <2>1 DEF Thread, Points
    <2>3. roots' \in SUBSET Nat
      BY <1>1, <1>3, <1>5
    <2>4. OwnerTypes'
      BY <1>1, <1>11, <2>2, <2>3 DEF OwnerInv, Types, OwnerTypes
    <2>5. ActionInv'
      BY <1>1, <1>2, <2>2 DEF OwnerInv, ActionInv, Asked, Held, Reported, Got, actorVars, queueVars
    <2>6. Taken'
      BY <2>2 DEF Taken
    <2> QED
      BY <2>2, <2>4, <2>5, <2>6
  <1> HIDE DEF r, n
  <1>12. CASE staged = <<>>
    <2>1. Len(staged) = 0 /\ r.train = 0
      <3>1. Len(staged) = 0
        BY <1>12
      <3>2. Train(0) = 0
        BY <1>3, NoUpdates DEF Train
      <3> QED
        BY <1>4, <3>1, <3>2
    <2>2. work' = work
      BY <1>4, <1>12, <2>1 DEF StageWork, HasWork, r
    <2>3. WorkInv'
      BY <1>1, <1>3, <1>8, <1>9, <1>10, <1>11, <2>1, <2>2
         DEF WorkInv, WorkEnd, Good, First, After, Before, Behind, Consecutive, actorVars, n
    <2> QED
      BY <1>3, <1>7, <1>11, <2>2, <2>3 DEF OwnerInv, Types
  <1>13. CASE staged # <<>>
    <2> DEFINE w == [request |-> r, roots |-> (roots \cup {r.step}) \cap (Needed(r.entries) \cup {r.step})]
    <2>1. work' = Append(work, w)
      BY <1>4, <1>13 DEF StageWork, HasWork, r
    <2>2. w.request = r /\ w \in Works
      BY <1>3, <1>5 DEF Works, r
    <2> HIDE DEF w
    <2>3. /\ work' \in Seq(Works) /\ Len(work') = n + 1 /\ n \in Nat /\ work' # <<>>
          /\ \A i \in 1..n : work'[i] = work[i]
          /\ work'[n + 1] = w /\ 1..(n + 1) = 1..n \cup {n + 1} /\ (work = <<>> <=> n = 0)
      BY <1>3, <2>1, <2>2, Appended DEF n
    <2>4. First(r) = submitted /\ After(r) = submitted + Len(staged) /\ Good(r)
      <3>1. 1 \in 1..Len(staged) /\ Len(staged) \in Nat
        BY <1>3, <1>13
      <3>2. First(r) = submitted
        BY <1>3, <1>4, <3>1 DEF First, Consecutive
      <3>3. After(r) = submitted + Len(staged)
        BY <1>4, <3>2 DEF After, First
      <3>4. r.train = Behind(r) - Before(r)
        BY <1>4, <3>2, <3>3 DEF Train, Before, Behind
      <3> QED
        BY <1>4, <1>13, <3>2, <3>3, <3>4 DEF Good
    <2>5. \A i \in 1..Len(work') : Good(work'[i].request)
      BY <1>8, <2>2, <2>3, <2>4
    <2>6. WorkEnd' = submitted + Len(staged)
      BY <2>2, <2>3, <2>4 DEF WorkEnd, After
    <2>7. ASSUME ~ broken
          PROVE  /\ work' # <<>> => First(work'[1].request) = Len(replay')
                 /\ \A i \in 1..Len(work') - 1 : First(work'[i + 1].request) = After(work'[i].request)
                 /\ \A i \in 1..Len(work') : After(work'[i].request) <= WorkEnd'
      <3>1. First(work'[1].request) = Len(replay')
        <4>1. CASE n = 0
          BY <1>1, <1>9, <2>2, <2>3, <2>4, <2>7, <4>1 DEF WorkEnd
        <4>2. CASE n # 0
          <5>1. 1 \in 1..n
            BY <2>3, <4>2
          <5> QED
            BY <1>1, <1>9, <2>3, <2>7, <4>2, <5>1
        <4> QED
          BY <4>1, <4>2
      <3>2. ASSUME NEW i \in 1..Len(work') - 1
            PROVE  First(work'[i + 1].request) = After(work'[i].request)
        <4>1. CASE i = n
          <5>1. work # <<>> /\ n \in 1..n
            BY <2>3, <4>1
          <5>2. After(work[n].request) = submitted
            BY <1>9, <2>7, <5>1 DEF WorkEnd, n
          <5> QED
            BY <2>2, <2>3, <2>4, <4>1, <5>1, <5>2
        <4>2. CASE i # n
          <5>1. i \in 1..n - 1 /\ i \in 1..n /\ i + 1 \in 1..n
            BY <2>3, <4>2
          <5> QED
            BY <1>9, <2>3, <2>7, <5>1
        <4> QED
          BY <4>1, <4>2
      <3>3. ASSUME NEW i \in 1..Len(work') PROVE After(work'[i].request) <= WorkEnd'
        <4>1. Len(staged) \in Nat
          BY <1>3
        <4>2. CASE i = n + 1
          BY <1>3, <2>2, <2>3, <2>4, <2>6, <4>1, <4>2
        <4>3. CASE i \in 1..n
          <5>1. After(work[i].request) \in Nat
            <6>1. work[i] \in Works
              BY <1>3, <4>3 DEF n
            <6> QED
              BY <1>8, <4>3, <6>1, GoodFacts DEF Works
          <5>2. After(work[i].request) <= submitted
            BY <1>9, <2>7, <4>3
          <5> QED
            BY <1>3, <2>3, <2>6, <4>1, <4>3, <5>1, <5>2
        <4> QED
          BY <2>3, <4>2, <4>3
      <3> QED
        BY <3>1, <3>2, <3>3
    <2>8. WorkInv'
      <3>1. UNCHANGED <<submitted, staged, replay, broken, maint>>
        BY <1>1 DEF actorVars
      <3> QED
        BY <1>8, <1>10, <1>11, <2>3, <2>5, <2>6, <2>7, <3>1
           DEF WorkInv, Good, First, After, Before, Behind, Consecutive
    <2> QED
      BY <1>7, <1>11, <2>3, <2>8 DEF OwnerInv, Types
  <1> QED
    BY <1>12, <1>13

LEMMA ReportActionKeeps == ASSUME OwnerInv, ReportAction, UNCHANGED async PROVE OwnerInv'
  <1> DEFINE a == Answer("action", TRUE, main.pending, HasWork(main.request))
             l == Len(results)
  <1>1. /\ alive /\ main.pc = "report" /\ main' = Idle /\ results' = Append(results, a)
        /\ UNCHANGED <<actorVars, commands, answers, alive, maint, drains, storeVars, faults>>
    BY DEF ReportAction, Post
  <1>2. /\ results \in Seq(Answers) /\ main.pending \in Nat /\ HasWork(main.request) \in BOOLEAN
    BY DEF OwnerInv, Types, QueueTypes, OwnerTypes, Thread, HasWork
  <1>3. a \in Answers /\ a.kind = "action" /\ a.ok
    BY <1>2, ConstantTypes DEF Answer
  <1> HIDE DEF a
  <1>4. /\ results' \in Seq(Answers) /\ Len(results') = l + 1 /\ l \in Nat
        /\ \A i \in 1..l : results'[i] = results[i]
        /\ results'[l + 1] = a /\ 1..(l + 1) = 1..l \cup {l + 1}
    BY <1>1, <1>2, <1>3, Appended
  <1>5. ~ Asked /\ ~ Reported /\ ~ Got /\ Held /\ actor = "waiting" /\ Taken
    BY <1>1 DEF OwnerInv, ActionInv, Held, Taken
  <1>6. \A i \in 1..l : results[i].kind # "action"
    BY <1>5 DEF Reported
  <1>7. main' \in Thread /\ main'.pc = "idle"
    BY <1>1, ConstantTypes DEF Idle
  <1>8. Taken' /\ Reported'
    BY <1>3, <1>4 DEF Taken, Reported
  <1> HIDE DEF l
  <1>9. OwnerTypes' /\ QueueTypes'
    <2>1. OwnerTypes'
      BY <1>1, <1>7 DEF OwnerInv, Types, OwnerTypes, storeVars
    <2>2. \A i \in 1..Len(results') : results'[i].kind # "none"
      BY <1>3, <1>4 DEF OwnerInv, Types, QueueTypes, l
    <2> QED
      BY <1>1, <1>4, <2>1, <2>2 DEF OwnerInv, Types, QueueTypes
  <1>10. ActorTypes' /\ LoopInv' /\ ModelInv'
    BY <1>1, ActorFrame, LoopFrame, ModelFrame DEF OwnerInv, Types, storeVars
  <1>11. ActionInv'
    <2>1. \A i, j \in 1..Len(results') :
             results'[i].kind = "action" /\ results'[j].kind = "action" => i = j
      BY <1>4, <1>6
    <2>2. ~ Asked' /\ ~ Held' /\ ~ Got' /\ actor' = "waiting"
      BY <1>1, <1>5, <1>7 DEF Asked, Held, Got, actorVars
    <2>3. \A i \in 1..Len(commands') : commands'[i].kind # "action"
      BY <2>2 DEF Asked
    <2> QED
      BY <2>1, <2>2, <2>3 DEF ActionInv
  <1>12. WorkInv'
    BY <1>1, <1>5, <1>8, WorkFrame DEF OwnerInv, actorVars, storeVars
  <1> QED
    BY <1>9, <1>10, <1>11, <1>12 DEF OwnerInv, Types

LEMMA CollectKeeps == ASSUME OwnerInv, Collect, UNCHANGED async
                      PROVE  OwnerInv' /\ Taken' = Taken
  <1> DEFINE a == Head(results)
             l == Len(results)
  <1>1. /\ results # <<>> /\ results' = Tail(results)
        /\ answers' = [answers EXCEPT ![a.kind] = a]
        /\ UNCHANGED <<actorVars, commands, alive, ownerVars, faults>>
    BY DEF Collect
  <1>2. /\ results \in Seq(Answers) /\ answers \in [{"action", "drain", "close"} -> Answers]
        /\ \A i \in 1..l : results[i].kind # "none"
    BY DEF OwnerInv, Types, QueueTypes
  <1>3. /\ a \in Answers /\ a = results[1] /\ l \in Nat /\ l > 0
        /\ results' \in Seq(Answers) /\ Len(results') = l - 1
        /\ \A i \in 1..(l - 1) : results'[i] = results[i + 1] /\ i + 1 \in 1..l
        /\ 1 \in 1..l
    BY <1>1, <1>2, HeadAndTail
  <1>4. a.kind \in {"action", "drain", "close"} /\ a # NoAnswer
    BY <1>2, <1>3 DEF Answers, NoAnswer
  <1>5. /\ \A i, j \in 1..l : results[i].kind = "action" /\ results[j].kind = "action" => i = j
        /\ Reported <=> \E i \in 1..l : results[i].kind = "action"
        /\ Reported' <=> \E i \in 1..(l - 1) : results'[i].kind = "action"
    BY <1>3 DEF OwnerInv, ActionInv, Reported
  <1> HIDE DEF a, l
  <1>6. \A i \in 1..Len(results') : results'[i].kind # "none"
    BY <1>2, <1>3
  <1>7. QueueTypes'
    <2>1. answers' \in [{"action", "drain", "close"} -> Answers]
      BY <1>1, <1>2, <1>3, <1>4
    <2>2. \A k \in {"action", "drain", "close"} : answers'[k] # NoAnswer => answers'[k].kind = k
      BY <1>1, <1>2, <1>4 DEF OwnerInv, Types, QueueTypes
    <2> QED
      BY <1>1, <1>3, <1>6, <2>1, <2>2 DEF OwnerInv, Types, QueueTypes
  <1>8. \A i, j \in 1..Len(results') :
           results'[i].kind = "action" /\ results'[j].kind = "action" => i = j
    <2> SUFFICES ASSUME NEW i \in 1..(l - 1), NEW j \in 1..(l - 1),
                        results'[i].kind = "action", results'[j].kind = "action"
                 PROVE  i = j
      BY <1>3
    <2>1. /\ results'[i] = results[i + 1] /\ i + 1 \in 1..l
          /\ results'[j] = results[j + 1] /\ j + 1 \in 1..l
      BY <1>3
    <2>2. results[i + 1].kind = "action" /\ results[j + 1].kind = "action"
      BY <2>1
    <2>3. i + 1 = j + 1
      BY <1>5, <2>1, <2>2
    <2> QED
      BY <1>3, <2>3
  <1>9. CASE a.kind = "action"
    <2>1. Reported /\ Got' /\ ~ Reported'
      <3>1. Reported /\ Got'
        BY <1>1, <1>2, <1>3, <1>4, <1>5, <1>9 DEF Got
      <3>2. ASSUME NEW i \in 1..(l - 1), results'[i].kind = "action" PROVE FALSE
        <4>1. i + 1 = 1 /\ i > 0 /\ i \in Nat
          BY <1>3, <1>5, <1>9, <3>2
        <4> QED
          BY <4>1
      <3> QED
        BY <1>5, <3>1, <3>2
    <2>2. ~ Asked /\ ~ Held /\ ~ Got
      BY <2>1 DEF OwnerInv, ActionInv
    <2>3. ~ Asked' /\ ~ Held' /\ UNCHANGED <<actor, dispatch, alive>>
      BY <1>1, <2>2 DEF Asked, Held, actorVars, ownerVars
    <2>4. ActionInv'
      BY <1>1, <1>8, <2>1, <2>2, <2>3 DEF OwnerInv, ActionInv, Asked
    <2>5. Taken' = Taken
      <3>1. Taken <=> a.ok
        <4>1. answers["action"].kind = "none"
          BY <2>2 DEF Got, NoAnswer
        <4>2. (\E i \in 1..l : results[i].kind = "action" /\ results[i].ok) <=> a.ok
          BY <1>3, <1>5, <1>9
        <4> QED
          BY <2>2, <4>1, <4>2 DEF Taken, Held, l
      <3>2. Taken' <=> a.ok
        <4>1. answers'["action"] = a
          BY <1>1, <1>2, <1>9
        <4>2. ~ \E i \in 1..Len(results') : results'[i].kind = "action" /\ results'[i].ok
          BY <2>1 DEF Reported
        <4> QED
          BY <1>9, <2>3, <4>1, <4>2 DEF Taken, Held
      <3> QED
        BY <3>1, <3>2 DEF Taken
    <2> QED
      BY <1>1, <1>7, <2>4, <2>5, ActorFrame, LoopFrame, ModelFrame, WorkFrame, OwnerFrame
         DEF OwnerInv, Types, OwnerTypes, ownerVars, storeVars, actorVars
  <1>10. CASE a.kind # "action"
    <2>1. answers'["action"] = answers["action"]
      BY <1>1, <1>2, <1>4, <1>10
    <2>2. ASSUME NEW i \in 1..l, results[i].kind = "action"
          PROVE  i - 1 \in 1..(l - 1) /\ results'[i - 1] = results[i]
      <3>1. i # 1
        BY <1>3, <1>10, <2>2
      <3>2. i - 1 \in 1..(l - 1) /\ i - 1 + 1 = i
        BY <1>3, <3>1
      <3> QED
        BY <1>3, <3>2
    <2>3. Reported' <=> Reported
      BY <1>3, <1>5, <2>2
    <2>4. (\E i \in 1..Len(results') : results'[i].kind = "action" /\ results'[i].ok)
          <=> (\E i \in 1..l : results[i].kind = "action" /\ results[i].ok)
      BY <1>3, <2>2
    <2>5. Taken' = Taken
      BY <1>1, <2>1, <2>4 DEF Taken, ownerVars, l
    <2>6. ActionInv'
      BY <1>1, <1>8, <2>1, <2>3 DEF OwnerInv, ActionInv, Asked, Held, Got, actorVars, ownerVars
    <2> QED
      BY <1>1, <1>7, <2>5, <2>6, ActorFrame, LoopFrame, ModelFrame, WorkFrame, OwnerFrame
         DEF OwnerInv, Types, OwnerTypes, ownerVars, storeVars, actorVars
  <1> QED
    BY <1>9, <1>10

(***************************************************************************)
(* Steps of the game loop.                                                 *)
(***************************************************************************)
\* Steps that hand nothing over and ask for no action.
LEMMA ActorMoves ==
    ASSUME OwnerInv, UNCHANGED <<async, ownerVars, steps, facts, staged, dispatch, submitted, results>>,
           alive' \in BOOLEAN, alive' => alive, faults' \in Nat, ActorTypes',
           answers' \in [{"action", "drain", "close"} -> Answers],
           answers'["action"] = answers["action"],
           \A k \in {"action", "drain", "close"} : answers'[k] # NoAnswer => answers'[k].kind = k,
           \/ UNCHANGED commands
           \/ \E k \in {"drain", "close"} : commands' = Append(commands, Command(k, NoRequest)),
           alive' => ~ Asked /\ ~ Held /\ ~ Reported,
           actor' # "waiting", actor' \in {"ready", "draining"} => actor \in {"ready", "draining"}
    PROVE  OwnerInv'
  <1>1. commands \in Seq(Commands)
    BY DEF OwnerInv, Types, QueueTypes
  <1>2. /\ commands' \in Seq(Commands)
        /\ \A i \in 1..Len(commands) : i \in 1..Len(commands') /\ commands'[i] = commands[i]
        /\ \A i \in 1..Len(commands') : commands'[i].kind = "action" =>
               i \in 1..Len(commands) /\ commands'[i] = commands[i]
    <2>1. CASE UNCHANGED commands
      BY <1>1, <2>1
    <2>2. CASE \E k \in {"drain", "close"} : commands' = Append(commands, Command(k, NoRequest))
      BY <1>1, <2>2, Ordered
    <2> QED
      BY <2>1, <2>2
  <1>3. Asked' <=> Asked
    BY <1>2 DEF Asked
  <1>4. Held' = Held /\ Reported' = Reported /\ Got' = Got /\ Taken' = Taken
    BY DEF Held, Reported, Got, Taken, ownerVars
  <1>5. ActionInv'
    <2>1. ActionInv
      BY DEF OwnerInv
    <2>2. \A i, j \in 1..Len(commands') :
             commands'[i].kind = "action" /\ commands'[j].kind = "action" => i = j
      BY <1>2, <2>1 DEF ActionInv
    <2>3. \A i \in 1..Len(commands') : commands'[i].kind = "action" =>
             commands'[i].request = dispatch'
      BY <1>2, <2>1 DEF ActionInv
    <2>4. UNCHANGED <<main, results, dispatch>>
      BY DEF ownerVars
    <2>5. \A i, j \in 1..Len(results') :
             results'[i].kind = "action" /\ results'[j].kind = "action" => i = j
      BY <2>1, <2>4 DEF ActionInv
    <2> QED
      BY <1>3, <1>4, <2>1, <2>2, <2>3, <2>4, <2>5 DEF ActionInv
  <1>6. LoopInv'
    BY DEF OwnerInv, LoopInv, Consecutive, Played, Train
  <1>7. QueueTypes'
    BY <1>2 DEF OwnerInv, Types, QueueTypes
  <1>8. OwnerTypes' /\ ModelInv' /\ WorkInv'
    BY <1>4, OwnerFrame, ModelFrame, WorkFrame DEF OwnerInv, Types, ownerVars, storeVars
  <1> QED
    BY <1>5, <1>6, <1>7, <1>8 DEF OwnerInv, Types

\* What is known of the answers, and what a poll makes of them.
LEMMA Polling ==
    ASSUME QueueTypes
    PROVE  /\ answers \in [{"action", "drain", "close"} -> Answers]
           /\ answers["drain"].pending \in Nat /\ answers["action"].pending \in Nat
           /\ \A k \in {"action", "drain", "close"} : answers[k] # NoAnswer => answers[k].kind = k
           /\ Polled => /\ answers' \in [{"action", "drain", "close"} -> Answers]
                        /\ answers'["action"] = answers["action"]
                        /\ \A k \in {"action", "drain", "close"} :
                              answers'[k] # NoAnswer => answers'[k].kind = k
                        /\ inflight' \in BOOLEAN
  <1>1. /\ answers \in [{"action", "drain", "close"} -> Answers]
        /\ \A k \in {"action", "drain", "close"} : answers[k] # NoAnswer => answers[k].kind = k
    BY DEF QueueTypes
  <1>2. answers["drain"].pending \in Nat /\ answers["action"].pending \in Nat
    BY <1>1 DEF Answers
  <1>3. ASSUME Polled
        PROVE  /\ answers' \in [{"action", "drain", "close"} -> Answers]
               /\ answers'["action"] = answers["action"]
               /\ \A k \in {"action", "drain", "close"} : answers'[k] # NoAnswer => answers'[k].kind = k
    <2>1. CASE answers' = answers
      BY <1>1, <2>1
    <2>2. CASE answers' = [answers EXCEPT !["drain"] = NoAnswer]
      BY <1>1, <2>2, ConstantTypes
    <2> QED
      BY <1>3, <2>1, <2>2 DEF Polled
  <1>4. Polled => inflight' \in BOOLEAN
    BY DEF Polled
  <1> QED
    BY <1>1, <1>2, <1>3, <1>4

\* A failure where nothing that lives can still answer.
LEMMA FailKeeps ==
    ASSUME OwnerInv, Fail, UNCHANGED <<async, alive, ownerVars, faults>>,
           alive => ~ Asked /\ ~ Held /\ ~ Reported
    PROVE  OwnerInv'
  <1>1. actor' = "failed"
        /\ UNCHANGED <<steps, facts, staged, dispatch, submitted, requested, inflight, pendingWork,
                       commands, results, answers>>
    BY DEF Fail, queueVars
  <1>2. ActorTypes' /\ alive' \in BOOLEAN /\ faults' \in Nat
    BY <1>1 DEF OwnerInv, Types, ActorTypes, OwnerTypes
  <1>3. /\ answers' \in [{"action", "drain", "close"} -> Answers]
        /\ \A k \in {"action", "drain", "close"} : answers'[k] # NoAnswer => answers'[k].kind = k
    BY <1>1, Polling DEF OwnerInv, Types
  <1> QED
    BY <1>1, <1>2, <1>3, ActorMoves

\* Between actions nothing is out.
LEMMA Quiet ==
    ASSUME OwnerInv, actor # "waiting"
    PROVE  /\ alive => ~ Asked /\ ~ Held /\ ~ Reported
           /\ actor \in {"ready", "draining"} =>
                 ~ Asked /\ ~ Held /\ ~ Reported /\ ~ Got /\ ~ Taken /\ staged = <<>>
  <1>1. alive => ~ Asked /\ ~ Held /\ ~ Reported
    BY DEF OwnerInv, ActionInv
  <1>2. ASSUME actor \in {"ready", "draining"}
        PROVE  ~ Asked /\ ~ Held /\ ~ Reported /\ ~ Got /\ ~ Taken /\ staged = <<>>
    <2>1. ~ Asked /\ ~ Held /\ ~ Reported /\ ~ Got
      BY <1>2 DEF OwnerInv, ActionInv
    <2>2. answers["action"].kind = "none"
      BY <2>1 DEF Got, NoAnswer
    <2>3. ~ Taken
      BY <2>1, <2>2 DEF Held, Reported, Taken
    <2>4. staged = <<>>
      BY <1>2 DEF OwnerInv, LoopInv
    <2> QED
      BY <2>1, <2>3, <2>4
  <1> QED
    BY <1>1, <1>2

LEMMA FinishKeeps == ASSUME OwnerInv, Finish, UNCHANGED async PROVE OwnerInv'
  <1>1. actor = "ready" /\ actor' = "draining"
        /\ UNCHANGED <<steps, facts, staged, dispatch, submitted, requested, inflight, pendingWork,
                       commands, results, answers, alive, ownerVars, faults>>
    BY DEF Finish, queueVars
  <1>2. ActorTypes' /\ alive' \in BOOLEAN /\ faults' \in Nat
    BY <1>1 DEF OwnerInv, Types, ActorTypes, OwnerTypes
  <1>3. /\ answers' \in [{"action", "drain", "close"} -> Answers]
        /\ \A k \in {"action", "drain", "close"} : answers'[k] # NoAnswer => answers'[k].kind = k
    BY <1>1, Polling DEF OwnerInv, Types
  <1> QED
    BY <1>1, <1>2, <1>3, Quiet, ActorMoves

LEMMA FinalDrainKeeps == ASSUME OwnerInv, FinalDrain, UNCHANGED async PROVE OwnerInv'
  <1>1. actor = "draining"
        /\ UNCHANGED <<steps, facts, staged, dispatch, submitted, requested, results,
                       alive, ownerVars, faults>>
    BY DEF FinalDrain
  <1>2. ActorTypes /\ QueueTypes /\ alive' \in BOOLEAN /\ faults' \in Nat
    BY <1>1 DEF OwnerInv, Types, OwnerTypes
  <1>3. alive => ~ Asked /\ ~ Held /\ ~ Reported
    BY <1>1, Quiet
  <1>4. CASE Fail
    BY <1>1, <1>3, <1>4, FailKeeps
  <1>5. CASE DrainDone /\ Polled /\ pendingWork' = answers["drain"].pending
             /\ UNCHANGED <<actor, commands>>
    <2>1. ActorTypes'
      BY <1>1, <1>2, <1>5, Polling DEF ActorTypes
    <2> QED
      BY <1>1, <1>2, <1>3, <1>5, <2>1, Polling, ActorMoves
  <1>6. CASE /\ inflight' = TRUE /\ commands' = Append(commands, Command("drain", NoRequest))
             /\ UNCHANGED <<actor, pendingWork, answers>>
    <2>1. ActorTypes'
      BY <1>1, <1>2, <1>6 DEF ActorTypes
    <2> QED
      BY <1>1, <1>2, <1>3, <1>6, <2>1, Polling, ActorMoves
  <1>7. CASE /\ actor' = "closing" /\ UNCHANGED <<inflight, pendingWork, answers>>
             /\ commands' = IF alive THEN Append(commands, Command("close", NoRequest)) ELSE commands
    <2>1. ActorTypes'
      BY <1>1, <1>2, <1>7 DEF ActorTypes
    <2> QED
      BY <1>1, <1>2, <1>3, <1>7, <2>1, Polling, ActorMoves
  <1> QED
    BY <1>4, <1>5, <1>6, <1>7 DEF FinalDrain

LEMMA CloseAnywayKeeps == ASSUME OwnerInv, CloseAnyway, UNCHANGED async PROVE OwnerInv'
  <1>1. /\ actor = "failed" /\ actor' = "closing"
        /\ commands' = Append(commands, Command("close", NoRequest))
        /\ UNCHANGED <<steps, facts, staged, dispatch, submitted, requested, inflight, pendingWork,
                       results, answers, alive, ownerVars, faults>>
    BY DEF CloseAnyway
  <1>2. ActorTypes' /\ QueueTypes /\ alive' \in BOOLEAN /\ faults' \in Nat
    BY <1>1 DEF OwnerInv, Types, ActorTypes, OwnerTypes
  <1>3. alive => ~ Asked /\ ~ Held /\ ~ Reported
    BY <1>1, Quiet
  <1> QED
    BY <1>1, <1>2, <1>3, Polling, ActorMoves

LEMMA ClosedKeeps == ASSUME OwnerInv, Closed, UNCHANGED async PROVE OwnerInv'
  <1>1. /\ actor' = "closed" /\ alive' = FALSE
        /\ UNCHANGED <<steps, facts, staged, dispatch, submitted, requested, inflight, pendingWork,
                       commands, results, answers, ownerVars>>
    BY DEF Closed, queueVars
  <1>2. ActorTypes' /\ QueueTypes /\ faults' \in Nat
    BY <1>1 DEF OwnerInv, Types, ActorTypes, OwnerTypes, Closed, Fault
  <1> QED
    BY <1>1, <1>2, Polling, ActorMoves

\* The transitions that are handed over and those that are kept follow each other.
LEMMA Split ==
    ASSUME OwnerInv, actor = "ready"
    PROVE  /\ Staged \in Seq(Nat) /\ Left \in Seq(Nat) /\ Len(Staged) \in Nat
           /\ Consecutive(Staged, submitted) /\ Consecutive(Left, submitted + Len(Staged))
           /\ submitted + Len(Staged) + Len(Left) = steps /\ Len(Left) < Batch
           /\ Staged # <<>> => Len(Staged) = Batch /\ Len(Left) = 0
  <1>1. /\ staged = <<>> /\ facts \in Seq(Nat) /\ steps \in Nat /\ submitted \in Nat
        /\ Len(facts) \in Nat /\ Batch \in Nat \ {0} /\ ActorTypes
    BY OwnerAssumption DEF OwnerInv, LoopInv, Types, ActorTypes
  <1>2. /\ submitted + Len(facts) = Played /\ Consecutive(facts, submitted) /\ Len(facts) < Batch
    <2>1. Len(staged) = 0
      BY <1>1
    <2> QED
      BY <1>1, <2>1 DEF OwnerInv, LoopInv
  <1>3. /\ Facts \in Seq(Nat) /\ Len(Facts) \in Nat /\ submitted + Len(Facts) = steps
        /\ Consecutive(Facts, submitted) /\ Len(Facts) <= Batch
    <2>1. CASE steps = 0
      BY <1>1, <1>2, <2>1 DEF Facts, Played
    <2>2. CASE steps # 0
      <3>1. steps - 1 \in Nat /\ Facts = Append(facts, steps - 1) /\ Played = steps - 1
        BY <1>1, <2>2 DEF Facts, Played
      <3>2. /\ Facts \in Seq(Nat) /\ Len(Facts) = Len(facts) + 1
            /\ \A i \in 1..Len(facts) : Facts[i] = facts[i]
            /\ Facts[Len(facts) + 1] = steps - 1
            /\ 1..(Len(facts) + 1) = 1..Len(facts) \cup {Len(facts) + 1}
        BY <1>1, <3>1, Appended
      <3>3. Consecutive(Facts, submitted)
        <4> SUFFICES ASSUME NEW i \in 1..Len(Facts) PROVE Facts[i] = submitted + i - 1
          BY DEF Consecutive
        <4>1. CASE i \in 1..Len(facts)
          BY <1>2, <3>2, <4>1 DEF Consecutive
        <4>2. CASE i = Len(facts) + 1
          <5>1. Facts[i] = steps - 1 /\ submitted + Len(facts) = steps - 1
            BY <1>2, <3>1, <3>2, <4>2
          <5> QED
            BY <1>1, <4>2, <5>1
        <4> QED
          BY <3>2, <4>1, <4>2
      <3> QED
        BY <1>1, <1>2, <3>1, <3>2, <3>3
    <2> QED
      BY <2>1, <2>2
  <1>4. Staged \in Seq(Nat) /\ Left \in Seq(Nat)
    BY <1>1, BatchTypes
  <1>5. CASE Len(Facts) >= Batch
    <2>1. Staged = <<>> \o SubSeq(Facts, 1, Batch) /\ Left = SubSeq(Facts, Batch + 1, Len(Facts))
          /\ Len(Facts) = Batch
      BY <1>1, <1>3, <1>5 DEF Staged, Left
    <2>2. Staged = Facts
      BY <1>1, <1>3, <2>1
    <2>3. Left = <<>> /\ Len(Left) = 0
      BY <1>1, <1>3, <2>1
    <2>4. Consecutive(Left, submitted + Len(Staged))
      BY <2>3 DEF Consecutive
    <2>5. Len(Staged) = Len(Facts) /\ Consecutive(Staged, submitted)
      BY <1>3, <2>2
    <2>6. submitted + Len(Staged) + 0 = steps /\ Len(Staged) \in Nat
      BY <1>1, <1>3, <2>5
    <2> QED
      BY <1>1, <1>4, <2>1, <2>3, <2>4, <2>5, <2>6
  <1>6. CASE Len(Facts) < Batch
    <2>1. Staged = <<>> /\ Left = Facts /\ Len(Staged) = 0
      BY <1>1, <1>3, <1>6 DEF Staged, Left
    <2>2. Consecutive(Staged, submitted)
      BY <2>1 DEF Consecutive
    <2> QED
      BY <1>1, <1>3, <1>4, <1>6, <2>1, <2>2
  <1> QED
    BY <1>1, <1>3, <1>5, <1>6

LEMMA SubmitKeeps == ASSUME OwnerInv, Submit, UNCHANGED async PROVE OwnerInv'
  <1>1. actor = "ready" /\ UNCHANGED <<alive, ownerVars, faults>>
    BY DEF Submit
  <1>2. ~ Asked /\ ~ Held /\ ~ Reported /\ ~ Got /\ ~ Taken /\ staged = <<>>
    BY <1>1, Quiet
  <1>3. CASE Fail
    BY <1>1, <1>2, <1>3, FailKeeps
  <1>4. CASE ~ Fail
    <2> DEFINE r == [step |-> steps, entries |-> Staged, train |-> Train(Len(Staged)),
                     refresh |-> Train(Len(Staged)) > 0 => RefreshDue(requested + 1)]
               c == Command("action", r)
               l == Len(commands)
    <2>1. /\ facts' = Left /\ staged' = Staged /\ dispatch' = r /\ commands' = Append(commands, c)
          /\ steps' = steps + 1 /\ actor' = "waiting" /\ Polled
          /\ pendingWork' \in {pendingWork, answers["drain"].pending}
          /\ UNCHANGED <<submitted, requested, results>>
      BY <1>4 DEF Submit
    <2>2. /\ Staged \in Seq(Nat) /\ Left \in Seq(Nat) /\ Len(Staged) \in Nat
          /\ Consecutive(Staged, submitted) /\ Consecutive(Left, submitted + Len(Staged))
          /\ submitted + Len(Staged) + Len(Left) = steps /\ Len(Left) < Batch
      BY <1>1, Split
    <2>3. ActorTypes /\ QueueTypes /\ OwnerTypes /\ WorkInv /\ ModelInv
      BY DEF OwnerInv, Types
    <2>4. Train(Len(Staged)) \in Nat
      BY <2>2, <2>3, TrainType DEF ActorTypes
    <2>5. r \in Request /\ r.entries = Staged /\ r.train = Train(Len(Staged)) /\ r.step = steps
      BY <2>2, <2>3, <2>4 DEF Request, ActorTypes
    <2> HIDE DEF r
    <2>6. c \in Commands /\ c.kind = "action" /\ c.request = r
      BY <2>5, ConstantTypes DEF Command
    <2> HIDE DEF c
    <2>7. /\ answers' \in [{"action", "drain", "close"} -> Answers]
          /\ answers'["action"] = answers["action"]
          /\ \A k \in {"action", "drain", "close"} : answers'[k] # NoAnswer => answers'[k].kind = k
          /\ inflight' \in BOOLEAN /\ answers["drain"].pending \in Nat
      BY <2>1, <2>3, Polling
    <2>8. ActorTypes'
      <3>1. /\ steps \in Nat /\ submitted \in Nat /\ requested \in Nat /\ pendingWork \in Nat
        BY <2>3 DEF ActorTypes
      <3>2. steps' \in Nat /\ submitted' \in Nat /\ requested' \in Nat /\ pendingWork' \in Nat
        BY <2>1, <2>7, <3>1
      <3>3. facts' \in Seq(Nat) /\ staged' \in Seq(Nat) /\ dispatch' \in Request
        BY <2>1, <2>2, <2>5
      <3> QED
        BY <2>1, <2>7, <3>2, <3>3 DEF ActorTypes
    <2>9. /\ commands' \in Seq(Commands) /\ Len(commands') = l + 1 /\ l \in Nat
          /\ \A i \in 1..l : commands'[i] = commands[i]
          /\ commands'[l + 1] = c /\ 1..(l + 1) = 1..l \cup {l + 1}
      <3>1. commands \in Seq(Commands)
        BY <2>3 DEF QueueTypes
      <3> QED
        BY <2>1, <2>6, <3>1, Appended
    <2>10. \A i \in 1..l : commands[i].kind # "action"
      BY <1>2 DEF Asked
    <2> HIDE DEF l
    <2>11. QueueTypes'
      BY <2>1, <2>3, <2>7, <2>9 DEF QueueTypes
    <2>12. LoopInv'
      <3>1. Played' = steps /\ steps \in Nat /\ submitted \in Nat
        BY <2>1, <2>3 DEF Played, ActorTypes
      <3> QED
        BY <2>1, <2>2, <2>5, <3>1 DEF LoopInv, Consecutive, Train
    <2>13. Held' = Held /\ Reported' = Reported /\ Got' = Got /\ ~ Taken'
      BY <1>1, <1>2, <2>1, <2>7 DEF Held, Reported, Got, Taken, ownerVars
    <2>14. ActionInv'
      <3>1. \A i, j \in 1..Len(commands') :
               commands'[i].kind = "action" /\ commands'[j].kind = "action" => i = j
        BY <2>9, <2>10
      <3>2. \A i \in 1..Len(commands') : commands'[i].kind = "action" =>
               commands'[i].request = dispatch'
        BY <2>1, <2>6, <2>9, <2>10
      <3>3. \A i, j \in 1..Len(results') :
               results'[i].kind = "action" /\ results'[j].kind = "action" => i = j
        BY <2>1 DEF OwnerInv, ActionInv
      <3> QED
        BY <1>2, <2>1, <2>13, <3>1, <3>2, <3>3 DEF ActionInv
    <2>15. WorkInv'
      <3>1. UNCHANGED <<work, replay, broken, maint, alive, submitted>>
        BY <1>1, <2>1 DEF ownerVars, storeVars
      <3>2. Len(replay') <= (submitted + Len(staged))'
        <4>1. Len(replay) <= submitted + 0 /\ submitted \in Nat /\ Len(replay) \in Nat
          <5>1. Len(staged) = 0
            BY <1>2
          <5> QED
            BY <2>3, <5>1 DEF WorkInv, ActorTypes, OwnerTypes
        <4> QED
          BY <2>1, <2>2, <3>1, <4>1
      <3> QED
        BY <1>2, <2>3, <2>13, <3>1, <3>2 DEF WorkInv, WorkEnd, Good, First, After, Before, Behind,
                                             Consecutive
    <2>16. OwnerTypes' /\ ModelInv'
      BY <1>1, <2>3, OwnerFrame, ModelFrame DEF ownerVars, storeVars, OwnerTypes
    <2> QED
      BY <2>8, <2>11, <2>12, <2>14, <2>15, <2>16 DEF OwnerInv, Types
  <1> QED
    BY <1>3, <1>4

LEMMA ResolveKeeps == ASSUME OwnerInv, Resolve, UNCHANGED async PROVE OwnerInv'
  <1> DEFINE a == answers["action"]
  <1>1. actor = "waiting" /\ (Answered("action") \/ Dead("action"))
        /\ UNCHANGED <<alive, ownerVars, faults>>
    BY DEF Resolve
  <1>2. Got <=> Answered("action")
    BY DEF Got, Answered
  <1>3. alive => Got
    BY <1>1, <1>2 DEF Dead
  <1>4. Got => ~ Asked /\ ~ Held /\ ~ Reported
    BY DEF OwnerInv, ActionInv
  <1>5. CASE Fail
    BY <1>1, <1>3, <1>4, <1>5, FailKeeps
  <1>6. CASE ~ Fail
    <2> DEFINE n == Len(dispatch.entries)
    <2>1. /\ Got /\ a.ok /\ staged' = SubSeq(staged, n + 1, Len(staged)) /\ submitted' = submitted + n
          /\ requested' = requested + (IF dispatch.train > 0 THEN 1 ELSE 0)
          /\ pendingWork' \in {a.pending, answers["drain"].pending, pendingWork}
          /\ inflight' \in BOOLEAN
          /\ answers' = [answers EXCEPT !["action"] = NoAnswer,
                             !["drain"] = IF DrainDone THEN NoAnswer ELSE @]
          /\ \/ commands' = Append(commands, Command("drain", NoRequest))
             \/ UNCHANGED commands
          /\ dispatch' = NoRequest /\ actor' = "ready"
          /\ UNCHANGED <<steps, facts, results>>
      BY <1>2, <1>6 DEF Resolve
    <2>2. ActorTypes /\ QueueTypes /\ OwnerTypes /\ WorkInv /\ ModelInv /\ LoopInv /\ ActionInv
      BY DEF OwnerInv, Types
    <2>3. /\ dispatch.entries = staged /\ staged \in Seq(Nat) /\ submitted \in Nat
          /\ n = Len(staged) /\ n \in Nat /\ requested \in Nat
      BY <2>2 DEF LoopInv, ActorTypes
    <2> HIDE DEF n
    <2>4. staged' = <<>> /\ Len(staged') = 0 /\ submitted' \in Nat /\ requested' \in Nat
      BY <2>1, <2>3
    <2>5. /\ answers' \in [{"action", "drain", "close"} -> Answers]
          /\ answers'["action"] = NoAnswer
          /\ \A k \in {"action", "drain", "close"} : answers'[k] # NoAnswer => answers'[k].kind = k
      <3>1. /\ answers \in [{"action", "drain", "close"} -> Answers] /\ NoAnswer \in Answers
            /\ \A k \in {"action", "drain", "close"} : answers[k] # NoAnswer => answers[k].kind = k
        BY <2>2, Polling, ConstantTypes
      <3>2. \/ answers' = [answers EXCEPT !["action"] = NoAnswer, !["drain"] = NoAnswer]
            \/ answers' = [answers EXCEPT !["action"] = NoAnswer]
        BY <2>1, <3>1
      <3> QED
        BY <3>1, <3>2
    <2>6. ActorTypes'
      <3>1. a.pending \in Nat /\ answers["drain"].pending \in Nat
        BY <2>2, Polling
      <3>2. pendingWork' \in Nat /\ dispatch' \in Request
        BY <2>1, <2>2, <3>1, ConstantTypes DEF ActorTypes
      <3> QED
        <4>1. inflight' \in BOOLEAN /\ actor' = "ready" /\ UNCHANGED <<steps, facts>>
          BY <2>1
        <4>2. staged' \in Seq(Nat)
          BY <2>4
        <4> QED
          BY <2>2, <2>4, <3>2, <4>1, <4>2 DEF ActorTypes
    <2>7. commands \in Seq(Commands)
      BY <2>2 DEF QueueTypes
    <2>8. /\ commands' \in Seq(Commands)
          /\ \A i \in 1..Len(commands') : commands'[i].kind = "action" =>
                 i \in 1..Len(commands) /\ commands'[i] = commands[i]
      <3>1. CASE UNCHANGED commands
        BY <2>7, <3>1
      <3>2. CASE commands' = Append(commands, Command("drain", NoRequest))
        BY <2>7, <3>2, Ordered
      <3> QED
        BY <2>1, <3>1, <3>2
    <2>9. QueueTypes'
      BY <2>1, <2>2, <2>5, <2>8 DEF QueueTypes
    <2>10. \A i \in 1..Len(commands') : commands'[i].kind # "action"
      BY <1>4, <2>1, <2>8 DEF Asked
    <2>11. ~ Asked' /\ ~ Held' /\ ~ Reported' /\ ~ Got' /\ ~ Taken'
      <3>1. ~ Held' /\ ~ Reported' /\ UNCHANGED <<main, results>>
        BY <1>1, <1>4, <2>1 DEF Held, Reported, ownerVars
      <3>2. answers'["action"].kind # "action" /\ ~ Got'
        BY <2>5 DEF Got, NoAnswer
      <3> QED
        BY <2>10, <3>1, <3>2 DEF Asked, Taken, Held, Reported
    <2>12. ActionInv'
      BY <2>1, <2>2, <2>10, <2>11 DEF ActionInv
    <2>13. Taken
      BY <2>1, <2>2, Polling DEF Got, Taken
    <2>14. WorkInv'
      <3>1. UNCHANGED <<work, replay, broken, maint, alive>>
        BY <1>1 DEF ownerVars, storeVars
      <3>2. (submitted + Len(staged))' = submitted + Len(staged) /\ submitted' = submitted + Len(staged)
        BY <2>1, <2>3, <2>4
      <3> QED
        BY <2>2, <2>11, <2>13, <3>1, <3>2 DEF WorkInv, WorkEnd, Good, First, After, Before, Behind,
                                              Consecutive
    <2>15. LoopInv'
      <3>1. Played' = Played /\ facts' = facts /\ Len(facts) \in Nat
        BY <2>1, <2>2 DEF Played, ActorTypes
      <3>2. submitted' + Len(staged') = submitted + Len(staged)
        BY <2>1, <2>3, <2>4
      <3>3. Consecutive(staged', submitted')
        BY <2>4 DEF Consecutive
      <3>4. dispatch'.entries = staged' /\ dispatch'.train = 0
        BY <2>1, <2>4 DEF NoRequest
      <3>5. Train(Len(staged))' = 0
        <4>1. submitted' \in Nat
          BY <2>4
        <4> QED
          BY <2>4, <4>1, NoUpdates DEF Train
      <3> QED
        BY <2>1, <2>2, <2>4, <3>1, <3>2, <3>3, <3>4, <3>5 DEF LoopInv, Consecutive
    <2>16. OwnerTypes' /\ ModelInv'
      BY <1>1, <2>2, OwnerFrame, ModelFrame DEF ownerVars, storeVars, OwnerTypes
    <2> QED
      BY <2>6, <2>9, <2>12, <2>14, <2>15, <2>16 DEF OwnerInv, Types
  <1> QED
    BY <1>5, <1>6

(***************************************************************************)
(* The invariant.                                                          *)
(***************************************************************************)
LEMMA StutterKeeps == ASSUME OwnerInv, UNCHANGED vars PROVE OwnerInv'
  <1>1. ActorTypes' /\ QueueTypes' /\ LoopInv'
    BY ActorFrame, QueueFrame, LoopFrame DEF OwnerInv, Types, vars
  <1>2. OwnerTypes'
    BY DEF OwnerInv, Types, OwnerTypes, vars, ownerVars, storeVars
  <1>3. ActionInv' /\ Taken' = Taken
    BY ActionFrame DEF OwnerInv, vars, actorVars, queueVars, ownerVars
  <1>4. WorkInv' /\ ModelInv'
    BY <1>3, WorkFrame, ModelFrame DEF OwnerInv, vars, actorVars, ownerVars, storeVars
  <1> QED
    BY <1>1, <1>2, <1>3, <1>4 DEF OwnerInv, Types

LEMMA NextKeeps == ASSUME OwnerInv, Next PROVE OwnerInv'
  <1>1. UNCHANGED async
    BY DEF Next
  <1>2. CASE ActorStep
    BY <1>1, <1>2, SubmitKeeps, ResolveKeeps, FinishKeeps, FinalDrainKeeps, ClosedKeeps DEF ActorStep
  <1>3. CASE CloseAnyway \/ Collect \/ RunJob \/ ProcessDies
    BY <1>1, <1>3, CloseAnywayKeeps, CollectKeeps, RunJobKeeps, ProcessDiesKeeps
  <1>4. CASE MainStep
    BY <1>1, <1>4, TakeCommandKeeps, StageWorkKeeps, ReportActionKeeps, CloseServiceKeeps,
       CloseJobsKeeps DEF MainStep
  <1>5. CASE MaintStep
    BY <1>1, <1>5, TakeDrainKeeps, PollKeeps, SetTargetKeeps, AppendReplayKeeps, TrainItemKeeps,
       RefreshSearchKeeps, ItemsDoneKeeps, CountPendingKeeps, ReportDrainKeeps DEF MaintStep
  <1> QED
    BY <1>2, <1>3, <1>4, <1>5 DEF Next

LEMMA InitHolds == ASSUME Init PROVE OwnerInv
  <1>1. /\ commands = <<>> /\ results = <<>> /\ work = <<>> /\ jobs = <<>> /\ replay = <<>>
        /\ facts = <<>> /\ staged = <<>> /\ drains = <<>>
        /\ Len(commands) = 0 /\ Len(results) = 0 /\ Len(work) = 0 /\ Len(jobs) = 0
        /\ Len(replay) = 0 /\ Len(facts) = 0 /\ Len(staged) = 0
        /\ steps = 0 /\ submitted = 0 /\ model = 0 /\ updates = 0 /\ searched = 0
        /\ main = Idle /\ maint = Idle /\ main.pc = "idle" /\ maint.pc = "idle"
        /\ answers = [k \in {"action", "drain", "close"} |-> NoAnswer]
        /\ actor = "ready" /\ dispatch = NoRequest
    BY DEF Init, Idle
  <1>2. Train(0) = 0 /\ 0 \div Interval = 0
    BY <1>1, UpdatesDue DEF Train
  <1>3. Types
    <2>1. ActorTypes
      <3>1. /\ requested = 0 /\ pendingWork = 0 /\ inflight = FALSE
        BY DEF Init
      <3> QED
        <4>1. NoRequest \in Request /\ <<>> \in Seq(Nat)
          BY ConstantTypes
        <4>2. /\ actor = "ready" /\ steps = 0 /\ submitted = 0 /\ facts = <<>> /\ staged = <<>>
              /\ dispatch = NoRequest
          BY <1>1
        <4> QED
          BY <3>1, <4>1, <4>2 DEF ActorTypes
    <2>2. QueueTypes
      BY <1>1, ConstantTypes DEF QueueTypes
    <2>3. OwnerTypes
      <3>1. async \in BOOLEAN /\ alive = TRUE /\ broken = FALSE /\ roots = {} /\ faults = 0
        BY OwnerAssumption DEF Init
      <3> QED
        <4>1. Idle \in Thread /\ <<>> \in Seq({"drain"}) /\ <<>> \in Seq(Works)
              /\ <<>> \in Seq(Jobs) /\ <<>> \in Seq(Nat)
          BY ConstantTypes
        <4>2. /\ drains = <<>> /\ work = <<>> /\ jobs = <<>> /\ replay = <<>>
              /\ main = Idle /\ maint = Idle /\ main.pc = "idle" /\ maint.pc = "idle"
              /\ model = 0 /\ updates = 0 /\ searched = 0
          BY <1>1
        <4> QED
          BY <3>1, <4>1, <4>2 DEF OwnerTypes
    <2> QED
      BY <2>1, <2>2, <2>3 DEF Types
  <1>4. LoopInv
    BY <1>1, <1>2, OwnerAssumption DEF LoopInv, Consecutive, Played, NoRequest
  <1>5. ActionInv
    BY <1>1 DEF ActionInv, Asked, Held, Reported, Got
  <1>6. WorkInv
    <2>1. ~ Taken
      BY <1>1 DEF Taken, NoAnswer
    <2> QED
      BY <1>1, <2>1 DEF WorkInv, WorkEnd, Consecutive, Init
  <1>7. ModelInv
    BY <1>1, <1>2 DEF ModelInv, TrainInv, SyncInv, JobsInv, LearnerInv, Position, NextUpdate
  <1> QED
    BY <1>3, <1>4, <1>5, <1>6, <1>7 DEF OwnerInv

\* Every step of the loop, of the owner's threads and of the learner keeps the order of
\* transitions and updates: a transition is in one place between the loop and the replay
\* store, and an update is due for those behind it, at whichever point a thread fails.
THEOREM OwnerInvariant == Spec => []OwnerInv
  <1>1. Init => OwnerInv
    BY InitHolds
  <1>2. OwnerInv /\ [Next]_vars => OwnerInv'
    BY NextKeeps, StutterKeeps
  <1> QED
    BY <1>1, <1>2, PTL DEF Spec

(***************************************************************************)
(* What it means.                                                          *)
(***************************************************************************)
\* The replay store holds the game, for every instance: whatever fails, the transitions
\* that are replayed are those of the game, in order and without gaps.
THEOREM ReplayCorrect == Spec => []ReplayIsTheGame
  <1>1. ASSUME OwnerInv PROVE ReplayIsTheGame
    <2>1. Consecutive(replay, 0) /\ Len(replay) \in Nat
      BY <1>1 DEF OwnerInv, Types, OwnerTypes, WorkInv
    <2> QED
      BY <2>1 DEF ReplayIsTheGame, Consecutive
  <1> QED
    BY <1>1, OwnerInvariant, PTL

\* Between drains the owner's count of the updates is the learner's, with the jobs of a
\* learner and without.
THEOREM UpdatesCorrect == Spec => []UpdatesAreCounted
  <1>1. ASSUME OwnerInv PROVE UpdatesAreCounted
    <2>1. SyncInv /\ LearnerInv /\ async \in BOOLEAN
      BY <1>1 DEF OwnerInv, ModelInv, Types, OwnerTypes
    <2> QED
      BY <2>1 DEF UpdatesAreCounted, SyncInv, LearnerInv
  <1> QED
    BY <1>1, OwnerInvariant, PTL

\* What the contract speaks of, and what bounds it.
LEMMA ContractBounds ==
    ASSUME OwnerInv
    PROVE  /\ submitted \in Nat /\ staged \in Seq(Nat) /\ Len(staged) \in Nat
           /\ Len(dispatch.entries) = Len(staged)
           /\ Len(replay) \in Nat /\ Len(replay) <= submitted + Len(staged)
           /\ model \in Nat /\ model <= Len(replay) \div Interval
           /\ searched \in Nat /\ updates \in Nat /\ searched <= updates /\ updates <= model
           /\ broken \in BOOLEAN /\ async \in BOOLEAN
  <1>1. Types /\ LoopInv /\ WorkInv /\ ModelInv
    BY DEF OwnerInv
  <1>2. submitted \in Nat /\ staged \in Seq(Nat) /\ broken \in BOOLEAN /\ async \in BOOLEAN
    BY <1>1 DEF Types, ActorTypes, OwnerTypes
  <1>3. Len(dispatch.entries) = Len(staged) /\ Len(staged) \in Nat
    BY <1>1, <1>2 DEF LoopInv
  <1>4. Len(replay) <= submitted + Len(staged)
    BY <1>1 DEF WorkInv
  <1> QED
    BY <1>1, <1>2, <1>3, <1>4, ModelTypes DEF Types

LEMMA NextContractBounds ==
    ASSUME OwnerInv, Next
    PROVE  /\ submitted' \in Nat /\ Len(staged') \in Nat
           /\ Len(dispatch'.entries) = Len(staged')
           /\ Len(replay') \in Nat /\ Len(replay') <= submitted' + Len(staged')
           /\ model' \in Nat /\ model' <= Len(replay') \div Interval
           /\ searched' \in Nat /\ searched' <= model'
  <1>1. Types' /\ LoopInv' /\ WorkInv' /\ ModelInv'
    BY NextKeeps DEF OwnerInv
  <1>2. /\ submitted' \in Nat /\ staged' \in Seq(Nat) /\ replay' \in Seq(Nat)
        /\ model' \in Nat /\ searched' \in Nat /\ updates' \in Nat
    BY <1>1 DEF Types, ActorTypes, OwnerTypes
  <1>3. Len(dispatch'.entries) = Len(staged') /\ Len(staged') \in Nat /\ Len(replay') \in Nat
    BY <1>1, <1>2 DEF LoopInv
  <1>4. Len(replay') <= submitted' + Len(staged')
    BY <1>1 DEF WorkInv
  <1>5. model' <= Len(replay') \div Interval /\ searched' <= updates' /\ updates' <= model'
    BY <1>1 DEF ModelInv, TrainInv
  <1>6. searched' <= model'
    BY <1>2, <1>5
  <1> QED
    BY <1>2, <1>3, <1>4, <1>5, <1>6

\* Every step is a step of the contract or changes nothing it speaks of.
LEMMA ContractStep == ASSUME OwnerInv, Next PROVE Contract!Next \/ UNCHANGED Contract!vars
  <1>0. /\ submitted \in Nat /\ staged \in Seq(Nat) /\ Len(staged) \in Nat
        /\ Len(dispatch.entries) = Len(staged)
        /\ Len(replay) \in Nat /\ Len(replay) <= submitted + Len(staged)
        /\ model \in Nat /\ model <= Len(replay) \div Interval
        /\ searched \in Nat /\ updates \in Nat /\ searched <= updates /\ updates <= model
        /\ broken \in BOOLEAN /\ async \in BOOLEAN
    BY ContractBounds
  <1>1. /\ submitted' \in Nat /\ Len(staged') \in Nat /\ Len(dispatch'.entries) = Len(staged')
        /\ Len(replay') \in Nat /\ Len(replay') <= submitted' + Len(staged')
        /\ model' \in Nat /\ model' <= Len(replay') \div Interval
        /\ searched' \in Nat /\ searched' <= model'
    BY NextContractBounds
  <1>2. ASSUME UNCHANGED <<submitted, staged>>
        PROVE  submitted' + Len(dispatch'.entries) = submitted + Len(dispatch.entries)
    BY <1>0, <1>1, <1>2
  \* The four steps of the contract.
  <1>3. ASSUME submitted' + Len(staged') >= submitted + Len(staged),
               UNCHANGED <<replay, model, searched>>
        PROVE  Contract!Next \/ UNCHANGED Contract!vars
    <2>1. CASE submitted' + Len(staged') = submitted + Len(staged)
      BY <1>0, <1>1, <1>3, <2>1 DEF Contract!vars
    <2>2. CASE submitted' + Len(staged') # submitted + Len(staged)
      <3>1. /\ submitted' + Len(dispatch'.entries) \in Nat
            /\ submitted' + Len(dispatch'.entries) > submitted + Len(dispatch.entries)
        <4>1. /\ Len(dispatch.entries) = Len(staged) /\ Len(dispatch'.entries) = Len(staged')
              /\ submitted \in Nat /\ submitted' \in Nat
              /\ Len(staged) \in Nat /\ Len(staged') \in Nat
          BY <1>0, <1>1
        <4> QED
          BY <1>3, <2>2, <4>1
      <3> QED
        BY <1>3, <3>1 DEF Contract!Next, Contract!Hand
    <2> QED
      BY <2>1, <2>2
  <1>4. ASSUME Len(replay') > Len(replay), UNCHANGED <<submitted, staged, model, searched>>
        PROVE  Contract!Next
    <2>1. Len(replay') \in Len(replay) + 1 .. submitted + Len(dispatch.entries)
      BY <1>0, <1>1, <1>4
    <2> QED
      BY <1>2, <1>4, <2>1 DEF Contract!Next, Contract!Replay
  <1>5. ASSUME model' >= model, UNCHANGED <<submitted, staged, replay, searched>>
        PROVE  Contract!Next \/ UNCHANGED Contract!vars
    <2>1. CASE model' = model
      BY <1>2, <1>5, <2>1 DEF Contract!vars
    <2>2. CASE model' # model
      <3>1. Len(replay) \div Interval \in Nat
        BY <1>0, UpdatesDue
      <3>2. model' \in model + 1 .. Len(replay) \div Interval
        BY <1>0, <1>1, <1>5, <2>2, <3>1
      <3> QED
        BY <1>2, <1>5, <3>2 DEF Contract!Next, Contract!Learn
    <2> QED
      BY <2>1, <2>2
  <1>6. ASSUME searched' >= searched, UNCHANGED <<submitted, staged, replay, model>>
        PROVE  Contract!Next \/ UNCHANGED Contract!vars
    <2>1. CASE searched' = searched
      BY <1>2, <1>6, <2>1 DEF Contract!vars
    <2>2. CASE searched' # searched
      <3>1. searched' \in searched + 1 .. model
        BY <1>0, <1>1, <1>6, <2>2
      <3> QED
        BY <1>2, <1>6, <3>1 DEF Contract!Next, Contract!Serve
    <2> QED
      BY <2>1, <2>2
  \* Which of them each action is.
  <1>7. CASE Submit
    <2>1. UNCHANGED <<replay, model, searched>> /\ actor = "ready"
      BY <1>7 DEF Submit, ownerVars, storeVars
    <2>2. submitted' + Len(staged') >= submitted + Len(staged)
      <3>1. CASE Fail
        BY <1>0, <3>1 DEF Fail
      <3>2. CASE ~ Fail
        <4>1. submitted' = submitted
          BY <1>7, <3>2 DEF Submit
        <4>2. Len(staged) = 0
          BY <2>1 DEF OwnerInv, LoopInv
        <4> QED
          BY <1>0, <1>1, <4>1, <4>2
      <3> QED
        BY <3>1, <3>2
    <2> QED
      BY <1>3, <2>1, <2>2
  <1>8. CASE Resolve
    <2>1. UNCHANGED <<replay, model, searched>>
      BY <1>8 DEF Resolve, ownerVars, storeVars
    <2>2. submitted' + Len(staged') >= submitted + Len(staged)
      <3>1. CASE Fail
        BY <1>0, <3>1 DEF Fail
      <3>2. CASE ~ Fail
        <4>1. submitted' = submitted + Len(dispatch.entries)
          BY <1>8, <3>2 DEF Resolve
        <4> QED
          BY <1>0, <1>1, <4>1
      <3> QED
        BY <3>1, <3>2
    <2> QED
      BY <1>3, <2>1, <2>2
  <1>9. CASE Finish \/ FinalDrain \/ Closed \/ CloseAnyway \/ Collect \/ ProcessDies
    <2>1. UNCHANGED <<submitted, staged, replay, model, searched>>
      BY <1>9 DEF Finish, FinalDrain, Closed, CloseAnyway, Collect, ProcessDies, ownerVars, storeVars,
                  actorVars
    <2> QED
      BY <1>0, <1>3, <2>1
  <1>10. CASE TakeCommand \/ StageWork \/ ReportAction \/ CloseService
    <2>1. UNCHANGED <<submitted, staged, replay, model, searched>>
      BY <1>10 DEF TakeCommand, StageWork, ReportAction, CloseService, ownerVars, storeVars, actorVars
    <2> QED
      BY <1>0, <1>3, <2>1
  <1>11. CASE TakeDrain \/ SetTarget \/ ItemsDone \/ CountPending \/ ReportDrain
    <2>1. UNCHANGED <<submitted, staged, replay, model, searched>>
      BY <1>11 DEF TakeDrain, SetTarget, ItemsDone, CountPending, ReportDrain, Others, actorVars
    <2> QED
      BY <1>0, <1>3, <2>1
  <1>12. CASE AppendReplay
    <2>1. UNCHANGED <<submitted, staged, model, searched>> /\ work # <<>>
      BY <1>12 DEF AppendReplay, Others, actorVars
    <2>2. CASE replay' = replay
      BY <1>0, <1>3, <2>1, <2>2
    <2>3. CASE replay' = replay \o Head(work).request.entries
      <3>1. work \in Seq(Works) /\ \A i \in 1..Len(work) : Good(work[i].request)
        BY DEF OwnerInv, Types, OwnerTypes, WorkInv
      <3>2. Head(work) \in Works /\ Good(Head(work).request)
        BY <2>1, <3>1, HeadAndTail
      <3>3. Head(work).request.entries \in Seq(Nat) /\ Head(work).request.entries # <<>>
        BY <3>2 DEF Works, Request, Good
      <3>4. replay \in Seq(Nat)
        BY DEF OwnerInv, Types, OwnerTypes
      <3>5. Len(replay') > Len(replay)
        BY <2>3, <3>3, <3>4
      <3> QED
        BY <1>4, <2>1, <3>5
    <2> QED
      BY <1>12, <2>2, <2>3 DEF AppendReplay
  <1>13. CASE TrainItem
    <2>1. UNCHANGED <<submitted, staged, replay, searched>> /\ maint.request.train \in Nat
      <3>1. maint.request \in Request
        BY ModelTypes DEF OwnerInv, Types
      <3> QED
        BY <1>13, <3>1 DEF TrainItem, Others, actorVars, Request
    <2>2. model' = model \/ model' = model + maint.request.train
      BY <1>13 DEF TrainItem
    <2> QED
      BY <1>0, <1>5, <2>1, <2>2
  <1>14. CASE RunJob
    <2>1. UNCHANGED <<submitted, staged, replay, searched>>
      BY <1>14 DEF RunJob, actorVars
    <2>2. model' >= model
      <3>1. PICK i \in 1..Len(jobs) : model' = model \/ model' = model + jobs[i].request.train
        BY <1>14 DEF RunJob
      <3>2. jobs[i].request \in Request
        BY JobFacts DEF OwnerInv, Types, ModelInv
      <3>3. jobs[i].request.train \in Nat
        BY <3>2 DEF Request
      <3> QED
        BY <1>0, <3>1, <3>3
    <2> QED
      BY <1>5, <2>1, <2>2
  <1>15. ASSUME JobDone, ApplyJob
         PROVE  searched' >= searched
    <2>1. jobs # <<>> /\ jobs \in Seq(Jobs) /\ searched' \in {searched, updates + Head(jobs).request.train}
      BY <1>15, ModelTypes DEF JobDone, ApplyJob, OwnerInv, Types
    <2>2. Head(jobs).request.train \in Nat
      <3>1. Head(jobs) \in Jobs
        BY <2>1
      <3> QED
        BY <3>1 DEF Jobs, Request
    <2> QED
      BY <1>0, <2>1, <2>2
  <1>16. CASE Poll \/ CloseJobs
    <2>1. UNCHANGED <<submitted, staged, replay, model>> /\ JobDone
      BY <1>16 DEF Poll, CloseJobs, Others, Break, storeVars, actorVars
    <2>2. ApplyJob \/ searched' = searched
      BY <1>16 DEF Poll, CloseJobs, Break, storeVars
    <2> QED
      BY <1>0, <1>6, <1>15, <2>1, <2>2
  <1>17. CASE RefreshSearch
    <2>1. UNCHANGED <<submitted, staged, replay, model>>
      BY <1>17 DEF RefreshSearch, Others, Break, actorVars
    <2>2. searched' \in {searched, updates + maint.request.train}
      BY <1>17 DEF RefreshSearch, Break
    <2>3. maint.request.train \in Nat
      <3>1. maint.request \in Request
        BY ModelTypes DEF OwnerInv, Types
      <3> QED
        BY <3>1 DEF Request
    <2> QED
      BY <1>0, <1>6, <2>1, <2>2, <2>3
  <1> QED
    BY <1>7, <1>8, <1>9, <1>10, <1>11, <1>12, <1>13, <1>14, <1>16, <1>17
       DEF Next, ActorStep, MainStep, MaintStep

LEMMA ContractInit == Init => Contract!Init
  <1> SUFFICES ASSUME Init PROVE Contract!Init
    OBVIOUS
  <1>1. submitted = 0 /\ dispatch.entries = <<>> /\ replay = <<>> /\ model = 0 /\ searched = 0
    BY DEF Init, NoRequest
  <1>2. Len(dispatch.entries) = 0 /\ Len(replay) = 0
    BY <1>1
  <1> QED
    BY <1>1, <1>2 DEF Contract!Init

LEMMA ContractStutter == UNCHANGED vars => UNCHANGED Contract!vars
  BY DEF vars, actorVars, ownerVars, storeVars, Contract!vars

\* The owner does what its contract says, whatever fails and however its threads are
\* scheduled: only what was handed over is replayed, updates are made for what is in
\* replay and when they are due, and the search gets no update the learner did not make.
THEOREM ContractKept == Spec => KeepsContract
  <1>1. Init => Contract!Init
    BY ContractInit
  <1>2. OwnerInv /\ [Next]_vars => [Contract!Next]_(Contract!vars)
    BY ContractStep, ContractStutter
  <1> QED
    BY <1>1, <1>2, OwnerInvariant, PTL DEF Spec, KeepsContract, Contract!Spec
==============================================================================
