----------------------------- MODULE OwnerSearch -----------------------------
(***************************************************************************)
(* A game loop and the process that owns search, replay and model for it.  *)
(* The loop asks for an action and hands over the transitions since the    *)
(* last training boundary with it; the owner answers actions first and     *)
(* leaves replay, training and the refresh of the search to a maintenance  *)
(* thread, which the loop starts with a drain.  At most one action and one *)
(* drain are out.  Training is done by the maintenance thread or, async,   *)
(* by a learner.                                                           *)
(*                                                                         *)
(* Every critical section, every use of a queue and every call of the      *)
(* search, the replay store or the learner is a step.  Transition n leads  *)
(* from action n to action n + 1 and needs the roots of both.              *)
(***************************************************************************)
EXTENDS Integers, SequencesExt

CONSTANTS
    Interval,               \* transitions for an update of the model
    RefreshInterval,        \* trainings for a refresh of the search
    Expected,               \* trainings in the run, 0 when that is not known
    Batch,                  \* transitions that are handed over at a time
    CacheMax,               \* roots the owner keeps
    Modes,                  \* with a learner (TRUE), without (FALSE)
    MaxPending,             \* the learner's jobs
    MaxSteps,
    MaxFaults, FaultKinds   \* search, append, train, refresh, process, slow

\* Batches that need more roots than are kept cannot be replayed.
ASSUME OwnerAssumption ==
    /\ Interval \in Nat \ {0} /\ RefreshInterval \in Nat \ {0} /\ Expected \in Nat
    /\ Batch \in Nat \ {0}
    /\ CacheMax \in Nat /\ Batch <= CacheMax
    /\ Modes \subseteq BOOLEAN /\ MaxPending \in Nat \ {0}
    /\ MaxSteps \in Nat /\ MaxFaults \in Nat

VARIABLES
    \* the game loop
    actor,          \* ready, waiting, draining, closing, closed, failed
    steps,          \* actions asked for
    facts,          \* transitions not yet in a batch
    staged,         \* transitions to hand over
    dispatch,       \* the action that is out
    submitted,      \* transitions handed over
    requested,      \* trainings asked for
    inflight,       \* is a drain out?
    pendingWork,    \* what the loop knows of the work the owner has
    \* between them
    commands, results,
    answers,        \* futures that are done
    \* the owner
    async,          \* is there a learner?
    alive,
    main,           \* the thread that answers
    maint,          \* the maintenance thread
    drains,         \* and its queue
    work,           \* what there is to replay and to train for
    roots,          \* the roots kept
    replay,
    jobs,           \* of the learner
    model,          \* updates made
    updates,        \* updates the owner knows of
    searched,       \* updates the search has
    broken,         \* maintenance failed
    faults

actorVars == <<actor, steps, facts, staged, dispatch, submitted, requested, inflight, pendingWork>>
queueVars == <<commands, results, answers>>
storeVars == <<work, roots, replay, jobs, model, updates, searched, broken>>
ownerVars == <<main, maint, drains, storeVars>>
vars == <<actorVars, queueVars, alive, async, ownerVars, faults>>

NoRequest == [step |-> 0, entries |-> <<>>, train |-> 0, refresh |-> FALSE]
NoAnswer  == [kind |-> "none", ok |-> TRUE, pending |-> 0, staged |-> FALSE]
Command(kind, r)     == [kind |-> kind, request |-> r]
Answer(kind, ok, n, s) == [kind |-> kind, ok |-> ok, pending |-> n, staged |-> s]
Idle == [pc |-> "idle", left |-> 0, request |-> NoRequest, pending |-> 0]

Init ==
    /\ actor = "ready" /\ steps = 0 /\ facts = <<>> /\ staged = <<>> /\ dispatch = NoRequest
    /\ submitted = 0 /\ requested = 0 /\ inflight = FALSE /\ pendingWork = 0
    /\ commands = <<>> /\ results = <<>>
    /\ answers = [k \in {"action", "drain", "close"} |-> NoAnswer]
    /\ async \in Modes
    /\ alive = TRUE /\ main = Idle /\ maint = Idle /\ drains = <<>>
    /\ work = <<>> /\ roots = {} /\ replay = <<>> /\ jobs = <<>>
    /\ model = 0 /\ updates = 0 /\ searched = 0 /\ broken = FALSE
    /\ faults = 0

Fault(kind) == kind \in FaultKinds /\ faults < MaxFaults /\ faults' = faults + 1

(***************************************************************************)
(* The game loop.  A future is done when its answer was collected, or fails*)
(* when the process is found dead.                                         *)
(***************************************************************************)
Answered(kind) == answers[kind] # NoAnswer
Dead(kind)     == ~ alive /\ ~ Answered(kind)

\* What a poll makes of the drain that is out.
DrainDone   == inflight /\ Answered("drain") /\ answers["drain"].ok
DrainFailed == inflight /\ (Dead("drain") \/ (Answered("drain") /\ ~ answers["drain"].ok))
Polled ==
    /\ inflight' = (inflight /\ ~ DrainDone)
    /\ answers' = IF DrainDone THEN [answers EXCEPT !["drain"] = NoAnswer] ELSE answers

Fail ==
    /\ actor' = "failed"
    /\ UNCHANGED <<steps, facts, staged, dispatch, submitted, requested, inflight, pendingWork,
                   queueVars>>

\* The transition to this step, and with it a batch when there are enough.
Facts  == IF steps = 0 THEN facts ELSE Append(facts, steps - 1)
Staged == IF Len(Facts) >= Batch THEN staged \o SubSeq(Facts, 1, Batch) ELSE staged
\* Mutant: a batch leaves its transitions behind.
LeftAll == Facts
Left   == IF Len(Facts) >= Batch THEN SubSeq(Facts, Batch + 1, Len(Facts)) ELSE Facts

Train(n) == (submitted + n) \div Interval - submitted \div Interval

\* The last training refreshes too, when it is known to be the last.
RefreshDue(request) ==
    \/ RefreshInterval <= 1 \/ request % RefreshInterval = 0
    \/ Expected > 0 /\ request >= Expected

Submit ==
    LET n == Len(Staged)
        r == [step |-> steps, entries |-> Staged, train |-> Train(n),
              refresh |-> Train(n) > 0 => RefreshDue(requested + 1)]
    IN  /\ actor = "ready" /\ steps < MaxSteps
        /\ \/ DrainFailed /\ Fail
           \/ /\ ~ DrainFailed /\ Polled
              /\ pendingWork' = IF DrainDone THEN answers["drain"].pending ELSE pendingWork
              /\ facts' = Left /\ staged' = Staged
              /\ dispatch' = r /\ commands' = Append(commands, Command("action", r))
              /\ steps' = steps + 1 /\ actor' = "waiting"
              /\ UNCHANGED <<submitted, requested, results>>
        /\ UNCHANGED <<alive, ownerVars, faults>>

\* Take the action, look for the drain, forget what was handed over, and start a
\* drain when there is training to do and none is out.
Resolve ==
    LET a == answers["action"]
        n == Len(dispatch.entries)
        due == a.staged /\ ~ (inflight /\ ~ DrainDone) /\ dispatch.train > 0
    IN  /\ actor = "waiting" /\ (Answered("action") \/ Dead("action"))
        /\ \/ (~ Answered("action") \/ ~ a.ok \/ DrainFailed) /\ Fail
           \/ /\ Answered("action") /\ a.ok /\ ~ DrainFailed
              /\ staged' = SubSeq(staged, n + 1, Len(staged))
              /\ submitted' = submitted + n
              /\ requested' = requested + (IF dispatch.train > 0 THEN 1 ELSE 0)
              /\ pendingWork' = IF a.pending > 0 THEN a.pending
                                ELSE IF DrainDone THEN answers["drain"].pending ELSE pendingWork
              /\ inflight' = (due \/ (inflight /\ ~ DrainDone))
              /\ answers' = [answers EXCEPT !["action"] = NoAnswer,
                                !["drain"] = IF DrainDone THEN NoAnswer ELSE @]
              /\ commands' = IF due THEN Append(commands, Command("drain", NoRequest))
                             ELSE commands
              /\ dispatch' = NoRequest /\ actor' = "ready"
              /\ UNCHANGED <<steps, facts, results>>
        /\ UNCHANGED <<alive, ownerVars, faults>>

\* The run is over.
Finish ==
    /\ actor = "ready" /\ actor' = "draining"
    /\ UNCHANGED <<steps, facts, staged, dispatch, submitted, requested, inflight, pendingWork,
                   queueVars, alive, ownerVars, faults>>

\* Drain, as long as the loop knows of work, then close.
FinalDrain ==
    /\ actor = "draining"
    /\ \/ DrainFailed /\ Fail
       \/ /\ DrainDone /\ Polled /\ pendingWork' = answers["drain"].pending
          /\ UNCHANGED <<actor, commands>>
       \/ /\ ~ inflight /\ pendingWork > 0
          /\ inflight' = TRUE /\ commands' = Append(commands, Command("drain", NoRequest))
          /\ UNCHANGED <<actor, pendingWork, answers>>
       \/ /\ ~ inflight /\ pendingWork <= 0
          /\ actor' = "closing"
          /\ commands' = IF alive THEN Append(commands, Command("close", NoRequest)) ELSE commands
          /\ UNCHANGED <<inflight, pendingWork, answers>>
    /\ UNCHANGED <<steps, facts, staged, dispatch, submitted, requested, results,
                   alive, ownerVars, faults>>

\* A caller that cleans up closes after a failure too.
CloseAnyway ==
    /\ actor = "failed" /\ alive
    /\ actor' = "closing" /\ commands' = Append(commands, Command("close", NoRequest))
    /\ UNCHANGED <<steps, facts, staged, dispatch, submitted, requested, inflight, pendingWork,
                   results, answers, alive, ownerVars, faults>>

\* Closing ends with the process; one that takes too long is terminated.
Closed ==
    /\ actor = "closing" /\ actor' = "closed"
    /\ \/ ~ alive /\ UNCHANGED faults
       \/ alive /\ Fault("slow")
    /\ alive' = FALSE
    /\ UNCHANGED <<steps, facts, staged, dispatch, submitted, requested, inflight, pendingWork,
                   queueVars, ownerVars>>

\* The thread that completes the futures.
Collect ==
    /\ results # <<>>
    /\ results' = Tail(results)
    /\ answers' = [answers EXCEPT ![Head(results).kind] = Head(results)]
    /\ UNCHANGED <<actorVars, commands, alive, ownerVars, faults>>

(***************************************************************************)
(* The owner's main thread.                                                *)
(***************************************************************************)
Post(answer) == results' = Append(results, answer)

\* Actions are searched for; maintenance is left to the other thread.
TakeCommand ==
    /\ alive /\ main.pc = "idle" /\ commands # <<>>
    /\ commands' = Tail(commands)
    /\ LET c == Head(commands)
       IN  \/ /\ c.kind = "action" /\ ~ broken
              /\ main' = [main EXCEPT !.pc = "stage", !.request = c.request]
              /\ UNCHANGED <<results, drains, faults>>
           \/ /\ c.kind = "action" /\ IF broken THEN UNCHANGED faults ELSE Fault("search")
              /\ Post(Answer("action", FALSE, 0, FALSE)) /\ UNCHANGED <<main, drains>>
           \/ /\ c.kind = "drain"
              /\ drains' = Append(drains, "drain")
              /\ UNCHANGED <<main, results, faults>>
           \/ /\ c.kind = "close"
              /\ main' = [main EXCEPT !.pc = "close"]
              /\ UNCHANGED <<results, drains, faults>>
    /\ UNCHANGED <<actorVars, answers, alive, maint, storeVars>>

Needed(entries) == UNION {{entries[i], entries[i] + 1} : i \in 1..Len(entries)}
Newest(S) == {r \in S : Cardinality({q \in S : q > r}) < CacheMax}
HasWork(r) == r.entries # <<>> \/ r.train > 0

\* Mutant: the roots are trimmed before the work takes what it needs.
StageWorkTrimmed ==
    LET r == main.request
        kept == Newest(roots \cup {r.step})
    IN  /\ alive /\ main.pc = "stage"
        /\ roots' = kept
        /\ work' = IF HasWork(r)
                   THEN Append(work, [request |-> r,
                                      roots |-> kept \cap (Needed(r.entries) \cup {r.step})])
                   ELSE work
        /\ main' = [main EXCEPT !.pc = "report", !.pending = Len(work')]
        /\ UNCHANGED <<actorVars, queueVars, alive, maint, drains, replay, jobs, model, updates,
                       searched, broken, faults>>

\* Under the state lock: keep the roots the work needs, and stage it.
StageWork ==
    LET r == main.request
        all == roots \cup {r.step}
    IN  /\ alive /\ main.pc = "stage"
        /\ roots' = Newest(all)
        /\ work' = IF HasWork(r)
                   THEN Append(work, [request |-> r,
                                      roots |-> all \cap (Needed(r.entries) \cup {r.step})])
                   ELSE work
        /\ main' = [main EXCEPT !.pc = "report", !.pending = Len(work')]
        /\ UNCHANGED <<actorVars, queueVars, alive, maint, drains, replay, jobs, model, updates,
                       searched, broken, faults>>

ReportAction ==
    /\ alive /\ main.pc = "report"
    /\ Post(Answer("action", TRUE, main.pending, HasWork(main.request)))
    /\ main' = Idle
    /\ UNCHANGED <<actorVars, commands, answers, alive, maint, drains, storeVars, faults>>

\* Once maintenance has ended the jobs that are left are waited for.
CloseService ==
    /\ alive /\ main.pc = "close" /\ drains = <<>> /\ maint.pc = "idle" /\ jobs = <<>>
    /\ Post(Answer("close", TRUE, 0, FALSE))
    /\ alive' = FALSE
    /\ UNCHANGED <<actorVars, commands, answers, ownerVars, faults>>

(***************************************************************************)
(* The learner's jobs.  The oldest is polled; a thread that waits for one  *)
(* is not enabled before it is done.                                       *)
(***************************************************************************)
Room == Len(jobs) < MaxPending

JobDone == jobs # <<>> /\ Head(jobs).done

\* Take the result of a job and refresh the search from it.
ApplyJob ==
    LET j == Head(jobs).request
    IN  /\ jobs' = Tail(jobs)
        /\ updates' = updates + j.train
        /\ searched' = IF j.refresh THEN updates' ELSE searched

\* Mutant: a drain that fails is not answered.
BreakSilently ==
    /\ broken' = TRUE /\ maint' = Idle
    /\ UNCHANGED <<results, work, roots, replay, jobs, model, updates, searched>>

\* A drain that fails is answered, and maintenance stays failed.
Break ==
    /\ broken' = TRUE /\ maint' = Idle
    /\ Post(Answer("drain", FALSE, 0, FALSE))
    /\ UNCHANGED <<work, roots, replay, jobs, model, updates, searched>>

PollFails ==
    \/ ~ Head(jobs).ok /\ UNCHANGED faults
    \/ Head(jobs).ok /\ Fault("refresh")

CloseJobs ==
    /\ alive /\ main.pc = "close" /\ drains = <<>> /\ maint.pc = "idle" /\ JobDone
    /\ \/ /\ Head(jobs).ok /\ ApplyJob
          /\ UNCHANGED <<alive, faults, work, roots, replay, model, broken>>
       \/ PollFails /\ alive' = FALSE /\ UNCHANGED storeVars
    /\ UNCHANGED <<actorVars, queueVars, main, maint, drains>>

\* The learner works on the oldest job that is not done.
RunJob ==
    /\ alive
    /\ \E i \in 1..Len(jobs) :
          /\ ~ jobs[i].done /\ \A k \in 1..(i - 1) : jobs[k].done
          /\ \/ /\ model' = model + jobs[i].request.train
                /\ jobs' = [jobs EXCEPT ![i].done = TRUE] /\ UNCHANGED faults
             \/ /\ Fault("train")
                /\ jobs' = [jobs EXCEPT ![i].done = TRUE, ![i].ok = FALSE] /\ UNCHANGED model
    /\ UNCHANGED <<actorVars, queueVars, alive, main, maint, drains, work, roots, replay,
                   updates, searched, broken>>

(***************************************************************************)
(* The maintenance thread.                                                 *)
(***************************************************************************)
At(step) == alive /\ maint.pc = step
Goto(step) == maint' = [maint EXCEPT !.pc = step]
\* What the maintenance thread's steps leave alone.
Others == UNCHANGED <<actorVars, commands, answers, alive, main, roots>>

TakeDrain ==
    /\ At("idle") /\ drains # <<>>
    /\ drains' = Tail(drains)
    /\ \/ broken /\ Post(Answer("drain", FALSE, 0, FALSE)) /\ UNCHANGED maint
       \/ ~ broken /\ Goto("poll") /\ UNCHANGED results
    /\ Others /\ UNCHANGED <<work, replay, jobs, model, updates, searched, broken, faults>>

\* Before the work, for room in the learner's queue, and after the work.
Poll ==
    /\ alive /\ JobDone
    /\ \/ maint.pc \in {"poll", "tail"}
       \/ maint.pc = "train" /\ async /\ ~ Room
    /\ \/ /\ Head(jobs).ok /\ ApplyJob
          /\ UNCHANGED <<maint, results, work, replay, model, broken, faults>>
       \/ PollFails /\ Break
    /\ Others /\ UNCHANGED drains

\* All jobs are waited for; then the work there is is what this drain does.
SetTarget ==
    /\ At("poll") /\ jobs = <<>>
    /\ maint' = [maint EXCEPT !.pc = "items", !.left = Len(work)]
    /\ Others /\ UNCHANGED <<results, drains, work, replay, jobs, model, updates, searched,
                             broken, faults>>

\* Mutant: the last transition of a batch is not replayed.
AppendReplayShort ==
    /\ At("items") /\ maint.left > 0 /\ work # <<>>
    /\ work' = Tail(work)
    /\ replay' = replay \o Front(Head(work).request.entries)
    /\ maint' = [maint EXCEPT !.pc = "train", !.left = @ - 1, !.request = Head(work).request]
    /\ Others /\ UNCHANGED <<results, broken, faults, drains, jobs, model, updates, searched>>

\* Mutant: the newest work is replayed first.
AppendReplayNewest ==
    /\ At("items") /\ maint.left > 0 /\ work # <<>>
    /\ work' = Front(work)
    /\ replay' = replay \o Last(work).request.entries
    /\ maint' = [maint EXCEPT !.pc = "train", !.left = @ - 1, !.request = Last(work).request]
    /\ Others /\ UNCHANGED <<results, broken, faults, drains, jobs, model, updates, searched>>

\* The next item's transitions are replayed.
AppendReplay ==
    /\ At("items") /\ maint.left > 0 /\ work # <<>>
    /\ work' = Tail(work)
    /\ \/ /\ replay' = replay \o Head(work).request.entries
          /\ maint' = [maint EXCEPT !.pc = "train", !.left = @ - 1, !.request = Head(work).request]
          /\ UNCHANGED <<results, broken, faults>>
       \/ /\ Fault("append")
          /\ broken' = TRUE /\ maint' = Idle /\ Post(Answer("drain", FALSE, 0, FALSE))
          /\ UNCHANGED replay
    /\ Others /\ UNCHANGED <<drains, jobs, model, updates, searched>>

\* Train, or give the learner a job.
TrainItem ==
    LET r == maint.request
    IN  /\ At("train")
        /\ \/ r.train = 0 /\ Goto("items") /\ UNCHANGED <<results, jobs, model, broken, faults>>
           \/ /\ r.train > 0 /\ async /\ Room
              /\ jobs' = Append(jobs, [request |-> r, done |-> FALSE, ok |-> TRUE])
              /\ Goto("items") /\ UNCHANGED <<results, model, broken, faults>>
           \/ /\ r.train > 0 /\ ~ async
              /\ model' = model + r.train
              /\ Goto("refresh") /\ UNCHANGED <<results, jobs, broken, faults>>
           \/ /\ r.train > 0 /\ ~ async /\ Fault("train")
              /\ broken' = TRUE /\ maint' = Idle /\ Post(Answer("drain", FALSE, 0, FALSE))
              /\ UNCHANGED <<jobs, model>>
        /\ Others /\ UNCHANGED <<drains, work, replay, updates, searched>>

\* Mutant: a training that does not refresh is not counted.
RefreshSearchUncounted ==
    LET r == maint.request
    IN  /\ At("refresh")
        /\ \/ /\ updates' = IF r.refresh THEN updates + r.train ELSE updates
              /\ searched' = IF r.refresh THEN updates' ELSE searched
              /\ Goto("items") /\ UNCHANGED <<results, work, replay, jobs, model, broken, faults>>
           \/ r.refresh /\ Fault("refresh") /\ Break
        /\ Others /\ UNCHANGED drains

\* The search gets the model, and the update is counted.
RefreshSearch ==
    LET r == maint.request
    IN  /\ At("refresh")
        /\ \/ /\ updates' = updates + r.train
              /\ searched' = IF r.refresh THEN updates' ELSE searched
              /\ Goto("items") /\ UNCHANGED <<results, work, replay, jobs, model, broken, faults>>
           \/ r.refresh /\ Fault("refresh") /\ Break
        /\ Others /\ UNCHANGED drains

ItemsDone ==
    /\ At("items") /\ (maint.left = 0 \/ work = <<>>)
    /\ Goto("tail")
    /\ Others /\ UNCHANGED <<results, drains, work, replay, jobs, model, updates, searched,
                             broken, faults>>

\* Count what is left, under the state lock ...
CountPending ==
    /\ At("tail") /\ ~ JobDone
    /\ maint' = [maint EXCEPT !.pc = "report", !.pending = Len(work) + Len(jobs)]
    /\ Others /\ UNCHANGED <<results, drains, work, replay, jobs, model, updates, searched,
                             broken, faults>>

\* ... and answer.
ReportDrain ==
    /\ At("report")
    /\ Post(Answer("drain", TRUE, maint.pending, FALSE))
    /\ maint' = Idle
    /\ Others /\ UNCHANGED <<drains, work, replay, jobs, model, updates, searched, broken, faults>>

ProcessDies ==
    /\ alive /\ Fault("process") /\ alive' = FALSE
    /\ UNCHANGED <<actorVars, queueVars, ownerVars>>

ActorStep == Submit \/ Resolve \/ Finish \/ FinalDrain \/ Closed
MainStep  == TakeCommand \/ StageWork \/ ReportAction \/ CloseService \/ CloseJobs
MaintStep ==
    \/ TakeDrain \/ Poll \/ SetTarget \/ AppendReplay \/ TrainItem \/ RefreshSearch
    \/ ItemsDone \/ CountPending \/ ReportDrain

Next ==
    /\ ActorStep \/ CloseAnyway \/ Collect \/ MainStep \/ MaintStep \/ RunJob \/ ProcessDies
    /\ UNCHANGED async

Spec == Init /\ [][Next]_vars

\* Every thread is scheduled, and the run is finished at some time.
Fairness ==
    /\ WF_vars(ActorStep /\ UNCHANGED async) /\ WF_vars(Collect /\ UNCHANGED async)
    /\ WF_vars(MainStep /\ UNCHANGED async) /\ WF_vars(MaintStep /\ UNCHANGED async)
    /\ WF_vars(RunJob /\ UNCHANGED async)

FairSpec == Spec /\ Fairness
------------------------------------------------------------------------------
TypeOK ==
    /\ actor \in {"ready", "waiting", "draining", "closing", "closed", "failed"}
    /\ steps \in 0..MaxSteps /\ submitted \in 0..MaxSteps /\ faults \in 0..MaxFaults
    /\ Len(facts) < Batch /\ Len(jobs) <= MaxPending
    /\ Len(commands) <= 2 /\ Len(results) <= 3 /\ Len(drains) <= 1
    /\ main.pc \in {"idle", "stage", "report", "close"}
    /\ maint.pc \in {"idle", "poll", "items", "train", "refresh", "tail", "report"}
    /\ inflight \in BOOLEAN /\ alive \in BOOLEAN /\ broken \in BOOLEAN
    /\ model \in 0..MaxSteps /\ updates \in 0..model /\ searched \in 0..model

\* The replay store holds the game: every transition once, in the order they were
\* played and without gaps, although the loop hands them over in batches, an answer
\* may come late and the maintenance thread works beside the actions.
ReplayIsTheGame == \A i \in 1..Len(replay) : replay[i] = i - 1

\* Work has the roots of both ends of every transition it replays, however long ago
\* they were searched for: the cache is trimmed only behind it.
RootsAreKept == \A i \in 1..Len(work) : Needed(work[i].request.entries) \subseteq work[i].roots

\* Between drains the owner's count of updates is the learner's: none is lost
\* when its refresh is skipped, and none is counted twice.
UpdatesAreCounted == maint.pc = "idle" /\ jobs = <<>> /\ ~ broken => updates = model

\* Every run ends: no answer is waited for in vain, whichever thread failed and
\* even when the process dies or is killed.
RunEnds == <>[](actor \in {"closed", "failed"})

\* The owner does what its contract says.
Contract == INSTANCE OwnerContract WITH
    handed <- submitted + Len(dispatch.entries), replayed <- Len(replay),
    learned <- model, served <- searched
KeepsContract == Contract!Spec

==============================================================================
