----------------------------- MODULE IntakeDrain -----------------------------
(***************************************************************************)
(* Drains beside the intake service.  A drain reads the manifest and the   *)
(* published ratings, claims the rating run in the Dict, takes the queued  *)
(* events and spawns a rating loop over the manifest's pool.               *)
(*                                                                         *)
(* Events are wake-ups: what is rated is decided by the manifest as the    *)
(* drain loaded it.  The rating loop is reduced to what a drain sees of    *)
(* it: whether the run has output, whether a round is unfinished, and the  *)
(* references of the latest ratings.  A drain that finds an unfinished     *)
(* round spawns nothing here; its recovery of that round is not part of    *)
(* this module.                                                            *)
(***************************************************************************)
EXTENDS IntakeService

CONSTANTS
    DrainPayloads,      \* drain requests: [spawn, cont, force]
    MaxEvents           \* max_events: events one drain takes at most

ASSUME DrainAssumption ==
    /\ DrainPayloads \subseteq [spawn : BOOLEAN, cont : BOOLEAN, force : BOOLEAN]
    /\ MaxEvents \in Nat \ {0}

VARIABLES
    claims,     \* rating claims in the Dict
    dpc,        \* next operation of each drain
    drain,      \* locals of each drain
    existing,   \* has the rating run any output?
    round,      \* references of the unfinished round ({}: none)
    latest      \* references rated in latest.json

ratingVars == <<existing, round, latest>>
drainVars  == <<claims, dpc, drain, ratingVars>>
vars       == <<serviceVars, drainVars>>

ClaimKey == [cont : BOOLEAN, pool : SUBSET Refs]
Claim    == [key : ClaimKey, pool : SUBSET Refs, aged : BOOLEAN]
DrainSteps == {"idle", "load", "decide", "claim", "requeue", "take", "confirm", "spawn"}

Drain ==
    [spawn : BOOLEAN, cont : BOOLEAN, force : BOOLEAN,
     pool     : SUBSET Refs,     \* references the drain would rate
     repair   : SUBSET Refs,     \* queued references it may put back
     existed  : BOOLEAN,         \* the run had output when loaded
     busy     : BOOLEAN,         \* a round was unfinished when loaded
     pending  : BOOLEAN,         \* the queue was not empty when loaded
     takeover : BOOLEAN,         \* the claim replaces a stale one
     events   : BOOLEAN]         \* events were taken

NoDrain == [spawn |-> FALSE, cont |-> FALSE, force |-> FALSE, pool |-> {}, repair |-> {},
            existed |-> FALSE, busy |-> FALSE, pending |-> FALSE,
            takeover |-> FALSE, events |-> FALSE]

DrainTypeOK ==
    /\ claims \subseteq Claim
    /\ dpc \in [Drains -> DrainSteps] /\ drain \in [Drains -> Drain]
    /\ existing \in BOOLEAN
    /\ round \subseteq Refs /\ latest \subseteq Refs

DrainInit ==
    /\ claims = {}
    /\ dpc = [d \in Drains |-> "idle"] /\ drain = [d \in Drains |-> NoDrain]
    /\ existing = FALSE /\ round = {} /\ latest = {}

\* Continuation has one claim per run, a fresh rating one per pool.
KeyOf(d) == [cont |-> drain[d].cont, pool |-> IF drain[d].cont THEN {} ELSE drain[d].pool]
ClaimsAt(key) == {c \in claims : c.key = key}
PutClaim(d) ==
    claims' = (claims \ ClaimsAt(KeyOf(d)))
                \cup {[key |-> KeyOf(d), pool |-> drain[d].pool, aged |-> FALSE]}

Goto(d, step) == dpc' = [dpc EXCEPT ![d] = step]
Finish(d) == Goto(d, "idle") /\ drain' = [drain EXCEPT ![d] = NoDrain]

\* A drain is spawned; what it finds when it runs may be something else.
Order(d, p) ==
    /\ dpc[d] = "idle"
    /\ Goto(d, "load")
    /\ drain' = [drain EXCEPT ![d] = [NoDrain EXCEPT !.spawn = p.spawn, !.cont = p.cont,
                                                     !.force = p.force]]
    /\ UNCHANGED <<trained, storeVars, pc, call, faults, historyVars, claims, ratingVars>>

\* Load the manifest and the ratings, and look at the queue.
Load(d) ==
    LET cont == drain[d].cont \/ Loaded.cont \/ IsLiveWatch(Loaded)
        pool == RatingRefs(Loaded, cont)
        gone == IF cont /\ latest # {} THEN latest ELSE {}
    IN  /\ dpc[d] = "load"
        /\ IF Loaded.exists
           THEN /\ drain' = [drain EXCEPT ![d] =
                     [@ EXCEPT !.cont = cont, !.pool = pool,
                               !.repair = QueueRepairRefs(Loaded) \ gone,
                               !.existed = existing, !.busy = round # {},
                               !.pending = queue # {}]]
                /\ Goto(d, IF drain[d].spawn THEN "decide" ELSE "take")
           ELSE Finish(d)
        /\ Restore
        /\ UNCHANGED <<trained, artifact, queue, loops, pc, call, boundVars, historyVars,
                       claims, ratingVars>>

\* Reasons to spawn nothing, in the order the code tests them.
TooSmall(d)   == Cardinality(drain[d].pool) < 2
RunExists(d)  == drain[d].existed /\ ~ drain[d].cont
Unfinished(d) == drain[d].existed /\ drain[d].cont /\ drain[d].busy

\* Something to do: events, lost events, or an explicit request.
Wake(d) == drain[d].force \/ drain[d].pending \/ drain[d].repair # {}

Stale(d) ==
    \E c \in ClaimsAt(KeyOf(d)) :
        \/ c.aged
        \/ drain[d].cont /\ (c.pool # drain[d].pool \/ Wake(d))

Refused(d) ==
    \/ TooSmall(d) \/ RunExists(d) \/ Unfinished(d)
    \/ ClaimsAt(KeyOf(d)) # {} /\ ~ Stale(d)
    \/ ~ Wake(d)

Decide(d) ==
    /\ dpc[d] = "decide"
    /\ IF Refused(d)
       THEN Finish(d)
       ELSE Goto(d, "claim") /\ drain' = [drain EXCEPT ![d].takeover = Stale(d)]
    /\ UNCHANGED <<serviceVars, claims, ratingVars>>

\* A stale claim is overwritten; otherwise the first drain to put wins.
TakeClaim(d) ==
    /\ dpc[d] = "claim"
    /\ IF drain[d].takeover \/ ClaimsAt(KeyOf(d)) = {}
       THEN PutClaim(d) /\ Goto(d, "requeue") /\ UNCHANGED drain
       ELSE Finish(d) /\ UNCHANGED claims
    /\ UNCHANGED <<serviceVars, ratingVars>>

\* Mutant: lost events are not put back.
RequeueNothing(d) ==
    /\ dpc[d] = "requeue"
    /\ Goto(d, "take")
    /\ UNCHANGED <<serviceVars, claims, drain, ratingVars>>

\* With nothing queued, put the events that were lost back.
Requeue(d) ==
    LET lost == IF drain[d].pending \/ drain[d].force THEN {} ELSE drain[d].repair
    IN  /\ dpc[d] = "requeue"
        /\ queue' = queue \cup lost
        /\ announced' = announced \cup lost
        /\ Goto(d, "take")
        /\ UNCHANGED <<trained, manifest, listed, artifact, loops, pc, call, boundVars,
                       quiet, accepted, claims, drain, ratingVars>>

\* Take what is queued, up to MaxEvents events.
Take(d) ==
    /\ dpc[d] = "take"
    /\ \E left \in SUBSET queue :
          /\ left = {} \/ Cardinality(queue \ left) = MaxEvents
          /\ Cardinality(queue \ left) <= MaxEvents
          /\ queue' = left
    /\ IF drain[d].spawn
       THEN Goto(d, "confirm") /\ drain' = [drain EXCEPT ![d].events = queue # {}]
       ELSE Finish(d)
    /\ UNCHANGED <<trained, manifest, listed, artifact, loops, pc, call, boundVars,
                   historyVars, claims, ratingVars>>

\* The claim is written again with what was taken, its age reset.
Confirm(d) ==
    /\ dpc[d] = "confirm"
    /\ PutClaim(d)
    /\ IF drain[d].events \/ drain[d].force
       THEN Goto(d, "spawn") /\ UNCHANGED drain
       ELSE Finish(d)
    /\ UNCHANGED <<serviceVars, ratingVars>>

Spawn(d) ==
    /\ dpc[d] = "spawn"
    /\ loops' = loops \cup {[by |-> d, refs |-> drain[d].pool, cont |-> drain[d].cont]}
    /\ Finish(d)
    /\ UNCHANGED <<trained, manifest, listed, artifact, queue, pc, call, boundVars,
                   historyVars, claims, ratingVars>>

CrashDrain(d) ==
    /\ dpc[d] # "idle"
    /\ Fault("crash")
    /\ Finish(d)
    /\ UNCHANGED <<trained, storeVars, pc, call, historyVars, claims, ratingVars>>

\* A day passes over a claim.
AgeClaim(c) ==
    /\ ~ c.aged
    /\ Fault("age")
    /\ claims' = (claims \ {c}) \cup {[c EXCEPT !.aged = TRUE]}
    /\ UNCHANGED <<trained, storeVars, pc, call, historyVars, dpc, drain, ratingVars>>

(***************************************************************************)
(* The rating loop as a drain sees it.                                     *)
(***************************************************************************)
\* A loop ends at once behind an unfinished round, and a fresh loop behind the
\* round of an earlier loop.
StartLoop(l) ==
    /\ l \in loops
    /\ loops' = loops \ {l}
    /\ existing' = TRUE
    /\ round' = IF round = {} /\ (l.cont \/ ~ existing) THEN l.refs ELSE round
    /\ UNCHANGED <<trained, manifest, listed, artifact, queue, pc, call, boundVars,
                   historyVars, claims, dpc, drain, latest>>

\* Mutant: whatever was rated last is published.
PublishAnyRound ==
    /\ round # {}
    /\ latest' = round
    /\ round' = {}
    /\ UNCHANGED <<serviceVars, claims, dpc, drain, existing>>

\* Ratings of fewer checkpoints than the latest are not published.
PublishRound ==
    /\ round # {}
    /\ latest' = IF Cardinality(round) < Cardinality(latest) THEN latest ELSE round
    /\ round' = {}
    /\ UNCHANGED <<serviceVars, claims, dpc, drain, existing>>

\* The round's games died and it was skipped.
LoseRound ==
    /\ round # {}
    /\ Fault("round")
    /\ round' = {}
    /\ UNCHANGED <<trained, storeVars, pc, call, historyVars, claims, dpc, drain,
                   existing, latest>>

(***************************************************************************)
(* The scheduled drain tick reads the index and the manifest, compares the *)
(* sizes of pool and latest roster, and leaves an unfinished round alone.  *)
(***************************************************************************)
TickReady ==
    /\ listed /\ manifest.exists /\ manifest.active
    /\ round = {}
    /\ Cardinality(manifest.refs) > Cardinality(latest)

ScheduledDrain(d) ==
    /\ TickReady
    /\ Order(d, [spawn |-> TRUE, cont |-> manifest.cont \/ IsLiveWatch(manifest),
                 force |-> FALSE])
    /\ UNCHANGED requests

RequestedDrain(d) == Requested /\ \E p \in DrainPayloads : Order(d, p)

DrainStep(d) ==
    \/ Load(d) \/ Decide(d) \/ TakeClaim(d) \/ Requeue(d)
    \/ Take(d) \/ Confirm(d) \/ Spawn(d)

RatingNext == (\E l \in loops : StartLoop(l)) \/ PublishRound \/ LoseRound

DrainNext ==
    \/ \E d \in Drains : ScheduledDrain(d) \/ RequestedDrain(d) \/ DrainStep(d) \/ CrashDrain(d)
    \/ \E c \in claims : AgeClaim(c)
    \/ RatingNext

Init == ServiceInit /\ DrainInit
Next == (ServiceNext /\ UNCHANGED drainVars) \/ DrainNext
Spec == Init /\ [][Next]_vars

\* The subscriber tick scans the manifests in the index.
ScheduledTick(w) == listed /\ Tick(w)

\* Scheduled calls keep coming, calls that run make progress, and rounds that
\* are not lost get rated.
Fairness ==
    /\ \A w \in Writers : /\ WF_vars(WriterStep(w) /\ UNCHANGED drainVars)
                           /\ WF_vars(ScheduledTick(w) /\ UNCHANGED drainVars)
    /\ \A d \in Drains : WF_vars(ScheduledDrain(d)) /\ WF_vars(DrainStep(d))
    /\ WF_vars(\E l \in loops : StartLoop(l))
    /\ WF_vars(PublishRound)

FairSpec == Spec /\ Fairness
------------------------------------------------------------------------------
TypeOK == ServiceTypeOK /\ DrainTypeOK

\* What has been rated, or is being rated, stays in the intake's memory, so
\* that a continuation never drops a checkpoint already rated.
RatedStaysKnown ==
    manifest.exists => /\ latest \cup round \subseteq manifest.seen
                       /\ \A l \in loops : l.refs \subseteq manifest.seen

\* Publishing a later rating never drops a checkpoint already rated, whichever
\* loop was spawned first.
RatedNeverDropped == [][latest \subseteq latest']_latest

\* The events of one manifest lead to one rating of its pool: a round is only
\* started over a pool with something that is not rated yet.
RoundsRateSomethingNew == round # {} => ~ (round \subseteq latest)

\* A reference queued on an active, continuing intake is eventually rated.
Ratable(ref) ==
    /\ manifest.exists /\ manifest.active /\ manifest.cont /\ listed
    /\ ref \in manifest.queued
    /\ Cardinality(manifest.refs) >= 2

QueuedAreRated ==
    \A ref \in Refs :
        Ratable(ref) ~> (ref \in latest \/ ~ (manifest.active /\ manifest.cont))

\* The whole way: the newest checkpoint of a watched run is seen, queued and
\* eventually rated, unless a newer one takes its place.  (What a seed took in
\* without events waits for the next event.)
Watched(ref) ==
    /\ manifest.exists /\ manifest.active /\ listed
    /\ ref[1] \in manifest.watch /\ ref[2] = trained[ref[1]]
    /\ ref \notin quiet
    /\ Cardinality(manifest.refs) >= 2

CheckpointsAreRated ==
    \A ref \in Refs :
        Watched(ref) ~> (ref \in latest \/ ref[2] # trained[ref[1]] \/ ~ manifest.active)
==============================================================================
