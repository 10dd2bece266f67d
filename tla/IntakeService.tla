---------------------------- MODULE IntakeService ----------------------------
(***************************************************************************)
(* The calls that write the intake manifest of one rating run: seed,       *)
(* submit and tick.  Each is a container of its own; they share the Dict   *)
(* (the manifest and the index of active keys), the checkpoint-event queue *)
(* and the manifest artifact on the tournament volume.                     *)
(*                                                                         *)
(* One call is a sequence of shared-store operations, and any number of    *)
(* calls interleave between them.  A single Dict get or put, and a single  *)
(* queue put, is atomic; the read-merge-write of the manifest is not.      *)
(***************************************************************************)
EXTENDS IntakeManifest, FiniteSets

CONSTANTS
    Writers,            \* containers that may run an intake call
    Drains,             \* containers that may run a drain (module IntakeDrain)
    SeedPayloads,       \* seed requests: [pinned, watch, cont, active, enqueue, spawn]
    SubmitPayloads,     \* submit requests: [refs, watch]
    MaxRequests,        \* bound: seed and submit requests in a behaviour
    FaultKinds,         \* the kinds of fault considered
    MaxFaults           \* bound: crashes, evictions and expiries in a behaviour

ASSUME PayloadAssumption ==
    /\ SeedPayloads \subseteq
         [pinned : SUBSET Refs, watch : SUBSET Runs, cont : BOOLEAN,
          active : BOOLEAN, enqueue : BOOLEAN, spawn : BOOLEAN]
    /\ SubmitPayloads \subseteq [refs : SUBSET Refs, watch : SUBSET Runs]
    /\ FaultKinds \subseteq {"crash", "expire", "evict", "age", "round"}
    /\ MaxRequests \in Nat /\ MaxFaults \in Nat

VARIABLES
    trained,    \* newest iteration of each run on the checkpoint volume
    manifest,   \* the Dict's manifest
    listed,     \* is the key in active_manifest_keys?
    artifact,   \* the manifest artifact on the tournament volume
    queue,      \* references with an event in the queue
    loops,      \* rating loops spawned and not yet started
    pc,         \* next operation of each writer
    call,       \* locals of the call each writer runs
    requests,   \* seed and submit requests made so far
    faults,     \* crashes, evictions and expiries so far
    quiet,      \* history: references seeded without an event
    announced,  \* history: references an event was ever put for
    accepted    \* history: references of acknowledged submissions

storeVars   == <<manifest, listed, artifact, queue, loops>>
historyVars == <<quiet, announced, accepted>>
boundVars   == <<requests, faults>>
serviceVars == <<trained, storeVars, pc, call, boundVars, historyVars>>

Steps == {"idle", "enqueue", "merge", "index", "artifact", "spawn"}

Call ==
    [kind : {"seed", "submit", "tick"},
     cand : Manifest,        \* the manifest this call wants to store
     base : Manifest,        \* the Dict's manifest as last read
     todo : SUBSET Refs,     \* events still to put
     new  : SUBSET Refs,     \* references to mark as queued
     asked : SUBSET Refs,    \* the references a submission names
     spawn : BOOLEAN]        \* a seed that is to spawn a rating loop

NoCall == [kind |-> "tick", cand |-> NoManifest, base |-> NoManifest,
           todo |-> {}, new |-> {}, asked |-> {}, spawn |-> FALSE]

\* The rating a loop was asked for, and by whom.
Loop == [by : Writers \cup Drains, refs : SUBSET Refs, cont : BOOLEAN]

ServiceTypeOK ==
    /\ trained \in [Runs -> 0..MaxIter]
    /\ manifest \in Manifest /\ artifact \in Manifest
    /\ listed \in BOOLEAN
    /\ queue \subseteq Refs /\ loops \subseteq Loop
    /\ pc \in [Writers -> Steps] /\ call \in [Writers -> Call]
    /\ requests \in 0..MaxRequests /\ faults \in 0..MaxFaults
    /\ quiet \subseteq Refs /\ announced \subseteq Refs /\ accepted \subseteq Refs

ServiceInit ==
    /\ trained = [r \in Runs |-> 0]
    /\ manifest = NoManifest /\ artifact = NoManifest
    /\ listed = FALSE
    /\ queue = {} /\ loops = {}
    /\ pc = [w \in Writers |-> "idle"] /\ call = [w \in Writers |-> NoCall]
    /\ requests = 0 /\ faults = 0
    /\ quiet = {} /\ announced = {} /\ accepted = {}

(***************************************************************************)
(* Loading.  The Dict is read first; an entry it has lost is restored from *)
(* the artifact, which puts it (and its place in the index) back.          *)
(***************************************************************************)
\* Mutant: the Dict alone, without the artifact.
LoadedFromDict == manifest

Loaded == IF manifest.exists THEN manifest ELSE RepairDefaults(artifact)

Restore ==
    IF manifest.exists \/ ~ artifact.exists
    THEN UNCHANGED <<manifest, listed>>
    ELSE manifest' = Loaded /\ listed' = Loaded.active

(***************************************************************************)
(* The calls.  Each loads the manifest, discovers, and computes what it    *)
(* will enqueue and store; the stores themselves are later steps.          *)
(***************************************************************************)
Begin(w, kind, cand, new, asked, spawn) ==
    /\ pc[w] = "idle"
    /\ pc' = [pc EXCEPT ![w] = "enqueue"]
    /\ call' = [call EXCEPT ![w] =
          [kind |-> kind, cand |-> cand, base |-> NoManifest,
           todo |-> new, new |-> new, asked |-> asked, spawn |-> spawn]]
    /\ Restore
    /\ UNCHANGED <<trained, artifact, queue, loops, faults, announced, accepted>>

\* Seeds and submissions are requests of an operator; ticks are scheduled.
Requested == requests < MaxRequests /\ requests' = requests + 1

Seed(w, p) ==
    LET spec  == [pinned |-> p.pinned, watch |-> p.watch]
        found == Discover(spec, trained)
        cand  == FromDiscovery(spec, p.cont \/ IsLiveWatch(spec), found, Loaded, p.active)
    IN  /\ Requested
        /\ Begin(w, "seed", cand, IF p.enqueue THEN found ELSE {}, {}, p.spawn)
        /\ quiet' = IF p.enqueue THEN quiet ELSE quiet \cup (found \ Loaded.seen)

Published(refs) == \A ref \in refs : ref[2] <= trained[ref[1]]

\* Exact references are pinned beside whatever is watched; otherwise the
\* submitted runs join the watch and the scan decides what is submitted.
SubmitSpec(p) ==
    IF p.refs # {} THEN PinRefs(Loaded.refs \cup p.refs, Loaded, Loaded)
    ELSE [pinned |-> Loaded.pinned, watch |-> Loaded.watch \cup p.watch]

Asked(p) == IF p.refs # {} THEN p.refs ELSE Discover(SubmitSpec(p), trained)

Accepts(p) ==
    /\ Loaded.exists /\ Loaded.active
    /\ p.refs # {} => Published(p.refs)
    /\ Asked(p) # {}

Submit(w, p) ==
    LET asked == Asked(p)
        cand  == FromDiscovery(SubmitSpec(p), Loaded.cont, Loaded.refs \cup asked, Loaded, TRUE)
    IN  /\ Accepts(p)
        /\ Requested
        /\ Begin(w, "submit", cand, asked \ Loaded.seen, asked, FALSE)
        /\ UNCHANGED quiet

\* A refusal comes after the load, which may have restored the manifest.
RejectSubmit(w, p) ==
    /\ pc[w] = "idle"
    /\ ~ Accepts(p)
    /\ Restore
    /\ UNCHANGED <<trained, artifact, queue, loops, pc, call, boundVars, historyVars>>

\* Mutant: a tick turns a deactivated intake on again, as a submission does.
TickActivates(w) ==
    LET spec  == [pinned |-> Loaded.pinned, watch |-> Loaded.watch]
        found == Discover(spec, trained)
        cand  == FromDiscovery(spec, Loaded.cont, found, Loaded, TRUE)
    IN  /\ Loaded.exists
        /\ Begin(w, "tick", cand, found \ Loaded.seen, {}, FALSE)
        /\ UNCHANGED <<requests, quiet>>

Tick(w) ==
    LET spec  == [pinned |-> Loaded.pinned, watch |-> Loaded.watch]
        found == Discover(spec, trained)
        cand  == FromDiscovery(spec, Loaded.cont, found, Loaded, Loaded.active)
    IN  /\ Loaded.exists
        /\ Begin(w, "tick", cand, found \ Loaded.seen, {}, FALSE)
        /\ UNCHANGED <<requests, quiet>>

EnqueueEvent(w) ==
    /\ pc[w] = "enqueue"
    /\ \E ref \in call[w].todo :
          /\ queue' = queue \cup {ref}
          /\ announced' = announced \cup {ref}
          /\ call' = [call EXCEPT ![w].todo = @ \ {ref}]
    /\ UNCHANGED <<trained, manifest, listed, artifact, loops, pc, boundVars, quiet, accepted>>

\* All events are out: mark them and read the manifest to merge with.
ReadCurrent(w) ==
    /\ pc[w] = "enqueue"
    /\ call[w].todo = {}
    /\ call' = [call EXCEPT ![w].cand = RepairDefaults(MarkQueued(@, call[w].new)),
                            ![w].base = manifest, ![w].new = {}]
    /\ pc' = [pc EXCEPT ![w] = "merge"]
    /\ UNCHANGED <<trained, storeVars, boundVars, historyVars>>

PutManifest(w) ==
    LET merged == RepairDefaults(MergePool(call[w].cand, call[w].base))
    IN  /\ pc[w] = "merge"
        /\ manifest' = merged
        /\ call' = [call EXCEPT ![w].cand = merged, ![w].base = NoManifest]
        /\ pc' = [pc EXCEPT ![w] = "index"]
        /\ UNCHANGED <<trained, listed, artifact, queue, loops, boundVars, historyVars>>

PutActiveKeys(w) ==
    /\ pc[w] = "index"
    /\ listed' = call[w].cand.active
    /\ pc' = [pc EXCEPT ![w] = "artifact"]
    /\ UNCHANGED <<trained, manifest, artifact, queue, loops, call, boundVars, historyVars>>

Return(w) ==
    /\ pc' = [pc EXCEPT ![w] = "idle"]
    /\ call' = [call EXCEPT ![w] = NoCall]

\* The call answers whether or not the volume commit succeeded; a submission
\* counts as acknowledged when its answer carries no commit error.
WriteArtifact(w) ==
    /\ pc[w] = "artifact"
    /\ \/ artifact' = call[w].cand /\ accepted' = accepted \cup call[w].asked
       \/ UNCHANGED <<artifact, accepted>>
    /\ IF call[w].spawn /\ Cardinality(call[w].cand.refs) >= 2
       THEN pc' = [pc EXCEPT ![w] = "spawn"] /\ UNCHANGED call
       ELSE Return(w)
    /\ UNCHANGED <<trained, manifest, listed, queue, loops, boundVars, quiet, announced>>

\* A seed may start the rating itself, without a claim.
SpawnRating(w) ==
    LET m == call[w].cand
    IN  /\ pc[w] = "spawn"
        /\ loops' = loops \cup {[by |-> w, refs |-> RatingRefs(m, m.cont), cont |-> m.cont]}
        /\ Return(w)
        /\ UNCHANGED <<trained, manifest, listed, artifact, queue, boundVars, historyVars>>

Fault(kind) ==
    /\ kind \in FaultKinds
    /\ faults < MaxFaults
    /\ faults' = faults + 1
    /\ UNCHANGED requests

\* A container is preempted or times out: its locals are gone.
Crash(w) ==
    /\ pc[w] # "idle"
    /\ Fault("crash")
    /\ Return(w)
    /\ UNCHANGED <<trained, storeVars, historyVars>>

(***************************************************************************)
(* The surroundings: trainers write checkpoints, queue partitions expire,  *)
(* and the Dict may lose an entry nobody touched for long.                 *)
(***************************************************************************)
Train(r) ==
    /\ trained[r] < MaxIter
    /\ trained' = [trained EXCEPT ![r] = @ + 1]
    /\ UNCHANGED <<storeVars, pc, call, boundVars, historyVars>>

ExpireQueue ==
    /\ queue # {}
    /\ Fault("expire")
    /\ queue' = {}
    /\ UNCHANGED <<trained, manifest, listed, artifact, loops, pc, call, historyVars>>

\* The manifest and the index are entries of their own.
EvictDict ==
    /\ manifest.exists
    /\ Fault("evict")
    /\ manifest' \in {manifest, NoManifest} /\ listed' \in {listed, FALSE}
    /\ UNCHANGED <<trained, artifact, queue, loops, pc, call, historyVars>>

WriterStep(w) ==
    \/ EnqueueEvent(w) \/ ReadCurrent(w) \/ PutManifest(w)
    \/ PutActiveKeys(w) \/ WriteArtifact(w) \/ SpawnRating(w)

WriterNext(w) ==
    \/ \E p \in SeedPayloads : Seed(w, p)
    \/ \E p \in SubmitPayloads : Submit(w, p) \/ RejectSubmit(w, p)
    \/ Tick(w) \/ WriterStep(w) \/ Crash(w)

ServiceNext ==
    \/ \E w \in Writers : WriterNext(w)
    \/ \E r \in Runs : Train(r)
    \/ ExpireQueue \/ EvictDict

ServiceSpec == ServiceInit /\ [][ServiceNext]_serviceVars
------------------------------------------------------------------------------
(***************************************************************************)
(* Properties.                                                             *)
(***************************************************************************)

Recoverable(m, exempt, put) ==
    /\ m.refs \subseteq m.seen
    /\ m.seen \ exempt \subseteq m.queued
    /\ m.queued \subseteq put \cap m.seen

\* Enqueue durability: whatever the manifest (in the Dict or on the volume)
\* has in its pool or marked as seen had an event put for it, and is marked as queued so
\* that a drain can put a lost event back - whichever calls interleaved or
\* died.  Only what a seed took in without events is exempt.
SeenIsRecoverable ==
    \A m \in {manifest, artifact} : Recoverable(m, quiet, announced)

\* Exact submissions are append-only: once acknowledged, a reference stays
\* in the pool, and a later scan cannot drop it.
SubmissionsAppendOnly == manifest.exists => accepted \subseteq manifest.refs
==============================================================================
