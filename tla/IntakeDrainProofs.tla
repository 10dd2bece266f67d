-------------------------- MODULE IntakeDrainProofs --------------------------
(***************************************************************************)
(* Proofs about drains beside the intake service: types, and that nothing  *)
(* rated is ever forgotten or dropped, as long as one intake call runs at  *)
(* a time and the Dict keeps its entry.                                    *)
(***************************************************************************)
EXTENDS IntakeDrain, IntakeServiceProofs, FiniteSetTheorems

(***************************************************************************)
(* One intake call at a time, and no eviction; drains and loops may be     *)
(* any number.  Two overlapping calls can lose what the other has seen     *)
(* (run service_lost_update), and an artifact that could not be committed   *)
(* restores less than a lost entry had.                                    *)
(***************************************************************************)
OneIntake ==
    /\ \A v, w \in Writers : v = w
    /\ "evict" \notin FaultKinds
    /\ IsFiniteSet(Runs)

\* The pool is all that was ever seen: a call means to store what it found
\* beside what the manifest had seen, and the merge puts that in the pool.
MemoryInv ==
    /\ ~ manifest.exists => manifest = NoManifest /\ artifact = NoManifest
    /\ manifest.refs = manifest.seen
    /\ \A w \in Writers :
          /\ pc[w] \in {"enqueue", "merge"} => /\ call[w].cand.seen = call[w].cand.refs \cup manifest.seen
                                               /\ call[w].cand.exists
          /\ pc[w] = "merge" => call[w].base = manifest
          /\ pc[w] \in {"index", "artifact", "spawn"} => call[w].cand = manifest /\ manifest.exists

\* Whatever is rated, is being rated or may be, was the memory at some time: one
\* of two such sets includes the other, and the memory now includes both.
Rosters == {latest, round} \cup {l.refs : l \in loops} \cup {drain[d].pool : d \in Drains}

ChainInv ==
    /\ \A X \in Rosters : X \subseteq manifest.seen
    /\ \A X, Y \in Rosters : X \subseteq Y \/ Y \subseteq X

DrainInv == TypeOK /\ MemoryInv /\ ChainInv

(***************************************************************************)
(* Types.                                                                  *)
(***************************************************************************)
\* What a drain may do to the service's variables.
LEMMA ServiceFrame ==
    ASSUME ServiceTypeOK, UNCHANGED <<trained, artifact, pc, call, quiet, accepted>>,
           manifest' \in Manifest, listed' \in BOOLEAN, queue' \subseteq Refs, loops' \subseteq Loop,
           requests' \in 0..MaxRequests, faults' \in 0..MaxFaults, announced' \subseteq Refs
    PROVE  ServiceTypeOK'
BY DEF ServiceTypeOK

LEMMA NoDrainType == NoDrain \in Drain BY DEF NoDrain, Drain

LEMMA GotoTypes ==
    ASSUME DrainTypeOK, NEW d \in Drains, NEW step \in DrainSteps, Goto(d, step)
    PROVE  dpc' \in [Drains -> DrainSteps]
BY DEF DrainTypeOK, Goto

LEMMA FinishTypes ==
    ASSUME DrainTypeOK, NEW d \in Drains, Finish(d)
    PROVE  dpc' \in [Drains -> DrainSteps] /\ drain' \in [Drains -> Drain]
BY NoDrainType DEF DrainTypeOK, Finish, Goto, DrainSteps

LEMMA KeyType ==
    ASSUME DrainTypeOK, NEW d \in Drains PROVE KeyOf(d) \in ClaimKey
<1>1. drain[d].cont \in BOOLEAN /\ drain[d].pool \in SUBSET Refs BY DEF DrainTypeOK, Drain
<1> QED BY <1>1 DEF KeyOf, ClaimKey

LEMMA PutClaimTypes ==
    ASSUME DrainTypeOK, NEW d \in Drains, PutClaim(d) PROVE claims' \subseteq Claim
<1>1. drain[d].pool \in SUBSET Refs /\ KeyOf(d) \in ClaimKey
  BY KeyType DEF DrainTypeOK, Drain
<1>2. [key |-> KeyOf(d), pool |-> drain[d].pool, aged |-> FALSE] \in Claim BY <1>1 DEF Claim
<1> QED BY <1>2 DEF PutClaim, DrainTypeOK

LEMMA QueueRepairType ==
    ASSUME NEW m \in Manifest PROVE QueueRepairRefs(m) \in SUBSET Refs
BY DEF QueueRepairRefs, Manifest

LEMMA OrderTypes ==
    ASSUME TypeOK, NEW d \in Drains, NEW p \in [spawn : BOOLEAN, cont : BOOLEAN, force : BOOLEAN],
           Order(d, p), requests' \in 0..MaxRequests
    PROVE  TypeOK'
<1> DEFINE new == [NoDrain EXCEPT !.spawn = p.spawn, !.cont = p.cont, !.force = p.force]
<1>1. new \in Drain BY DEF NoDrain, Drain
<1>2. /\ Goto(d, "load") /\ drain' = [drain EXCEPT ![d] = new]
      /\ UNCHANGED <<trained, manifest, listed, artifact, queue, loops, pc, call, faults, quiet,
                     announced, accepted, claims, existing, round, latest>>
  BY DEF Order, storeVars, historyVars, ratingVars
<1> HIDE DEF new
<1>3. dpc' \in [Drains -> DrainSteps] BY <1>2, GotoTypes DEF TypeOK, DrainSteps
<1>4. DrainTypeOK' BY <1>1, <1>2, <1>3 DEF TypeOK, DrainTypeOK
<1>5. ServiceTypeOK' BY <1>2 DEF TypeOK, ServiceTypeOK
<1> QED BY <1>4, <1>5 DEF TypeOK

LEMMA LoadTypes == ASSUME TypeOK, NEW d \in Drains, Load(d) PROVE TypeOK'
<1> DEFINE cont == drain[d].cont \/ Loaded.cont \/ IsLiveWatch(Loaded)
           pool == RatingRefs(Loaded, cont)
           gone == IF cont /\ latest # {} THEN latest ELSE {}
           repair == QueueRepairRefs(Loaded) \ gone
           busy == round # {}
           pending == queue # {}
           new  == [drain[d] EXCEPT !.cont = cont, !.pool = pool, !.repair = repair,
                        !.existed = existing, !.busy = busy, !.pending = pending]
<1>1. /\ drain[d] \in Drain /\ drain[d].cont \in BOOLEAN /\ existing \in BOOLEAN
      /\ Loaded \in Manifest /\ Loaded.cont \in BOOLEAN
  BY LoadedType DEF TypeOK, DrainTypeOK, Drain, Manifest
<1>2. cont \in BOOLEAN BY <1>1 DEF IsLiveWatch
<1> HIDE DEF cont
<1>3. pool \in SUBSET Refs BY <1>1, <1>2, RatingRefsType
<1>4. repair \in SUBSET Refs BY <1>1, QueueRepairType
<1>11. busy \in BOOLEAN /\ pending \in BOOLEAN OBVIOUS
<1> HIDE DEF pool, gone, repair, busy, pending
<1>5. new \in Drain BY <1>1, <1>2, <1>3, <1>4, <1>11 DEF Drain
<1>6. /\ \/ drain' = [drain EXCEPT ![d] = new] /\ (Goto(d, "decide") \/ Goto(d, "take"))
         \/ Finish(d)
      /\ Restore
      /\ UNCHANGED <<trained, artifact, queue, loops, pc, call, requests, faults, quiet, announced,
                     accepted, claims, existing, round, latest>>
  BY DEF Load, boundVars, historyVars, ratingVars, cont, pool, gone, repair, busy, pending
<1> HIDE DEF new
<1>7. dpc' \in [Drains -> DrainSteps] /\ drain' \in [Drains -> Drain]
  <2>1. CASE drain' = [drain EXCEPT ![d] = new] /\ (Goto(d, "decide") \/ Goto(d, "take"))
    BY <1>5, <2>1, GotoTypes DEF TypeOK, DrainTypeOK, DrainSteps
  <2>2. CASE Finish(d) BY <2>2, FinishTypes DEF TypeOK
  <2> QED BY <1>6, <2>1, <2>2
<1>8. DrainTypeOK' BY <1>6, <1>7 DEF TypeOK, DrainTypeOK
<1>9. manifest' \in Manifest /\ listed' \in BOOLEAN BY <1>6, RestoreType DEF TypeOK
<1>10. ServiceTypeOK' BY <1>6, <1>9 DEF TypeOK, ServiceTypeOK
<1> QED BY <1>8, <1>10 DEF TypeOK

LEMMA DecideTypes == ASSUME TypeOK, NEW d \in Drains, Decide(d) PROVE TypeOK'
<1> DEFINE new == [drain[d] EXCEPT !.takeover = Stale(d)]
<1>1. UNCHANGED <<serviceVars, claims, existing, round, latest>> BY DEF Decide, ratingVars
<1>2. Stale(d) \in BOOLEAN BY DEF Stale
<1>3. new \in Drain BY <1>2 DEF TypeOK, DrainTypeOK, Drain
<1>4. Finish(d) \/ (Goto(d, "claim") /\ drain' = [drain EXCEPT ![d] = new])
  BY DEF Decide
<1> HIDE DEF new
<1>5. dpc' \in [Drains -> DrainSteps] /\ drain' \in [Drains -> Drain]
  BY <1>3, <1>4, FinishTypes, GotoTypes DEF TypeOK, DrainTypeOK, DrainSteps
<1>6. DrainTypeOK' BY <1>1, <1>5 DEF TypeOK, DrainTypeOK
<1>7. ServiceTypeOK' BY <1>1, TypeStep DEF TypeOK
<1> QED BY <1>6, <1>7 DEF TypeOK

LEMMA TakeClaimTypes == ASSUME TypeOK, NEW d \in Drains, TakeClaim(d) PROVE TypeOK'
<1>1. UNCHANGED <<serviceVars, existing, round, latest>> BY DEF TakeClaim, ratingVars
<1>2. \/ PutClaim(d) /\ Goto(d, "requeue") /\ UNCHANGED drain
      \/ Finish(d) /\ UNCHANGED claims
  BY DEF TakeClaim
<1>3. dpc' \in [Drains -> DrainSteps] /\ drain' \in [Drains -> Drain] /\ claims' \subseteq Claim
  <2>1. CASE PutClaim(d) /\ Goto(d, "requeue") /\ UNCHANGED drain
    BY <2>1, PutClaimTypes, GotoTypes DEF TypeOK, DrainTypeOK, DrainSteps
  <2>2. CASE Finish(d) /\ UNCHANGED claims
    BY <2>2, FinishTypes DEF TypeOK, DrainTypeOK
  <2> QED BY <1>2, <2>1, <2>2
<1>4. DrainTypeOK' BY <1>1, <1>3 DEF TypeOK, DrainTypeOK
<1>5. ServiceTypeOK' BY <1>1, TypeStep DEF TypeOK
<1> QED BY <1>4, <1>5 DEF TypeOK

LEMMA RequeueTypes == ASSUME TypeOK, NEW d \in Drains, Requeue(d) PROVE TypeOK'
<1> DEFINE lost == IF drain[d].pending \/ drain[d].force THEN {} ELSE drain[d].repair
<1>1. /\ queue' = queue \cup lost /\ announced' = announced \cup lost /\ Goto(d, "take")
      /\ UNCHANGED <<trained, manifest, listed, artifact, loops, pc, call, requests, faults, quiet,
                     accepted, claims, drain, existing, round, latest>>
  BY DEF Requeue, boundVars, ratingVars
<1>2. lost \subseteq Refs BY DEF TypeOK, DrainTypeOK, Drain
<1> HIDE DEF lost
<1>3. DrainTypeOK' BY <1>1, GotoTypes DEF TypeOK, DrainTypeOK, DrainSteps
<1>4. ServiceTypeOK' BY <1>1, <1>2 DEF TypeOK, ServiceTypeOK
<1> QED BY <1>3, <1>4 DEF TypeOK

LEMMA TakeTypes == ASSUME TypeOK, NEW d \in Drains, Take(d) PROVE TypeOK'
<1> DEFINE new == [drain[d] EXCEPT !.events = queue # {}]
<1>1. /\ queue' \subseteq queue
      /\ UNCHANGED <<trained, manifest, listed, artifact, loops, pc, call, requests, faults, quiet,
                     announced, accepted, claims, existing, round, latest>>
      /\ Finish(d) \/ (Goto(d, "confirm") /\ drain' = [drain EXCEPT ![d] = new])
  BY DEF Take, boundVars, historyVars, ratingVars
<1>2. new \in Drain BY DEF TypeOK, DrainTypeOK, Drain
<1> HIDE DEF new
<1>3. dpc' \in [Drains -> DrainSteps] /\ drain' \in [Drains -> Drain]
  BY <1>1, <1>2, FinishTypes, GotoTypes DEF TypeOK, DrainTypeOK, DrainSteps
<1>4. DrainTypeOK' BY <1>1, <1>3 DEF TypeOK, DrainTypeOK
<1>5. ServiceTypeOK' BY <1>1 DEF TypeOK, ServiceTypeOK
<1> QED BY <1>4, <1>5 DEF TypeOK

LEMMA ConfirmTypes == ASSUME TypeOK, NEW d \in Drains, Confirm(d) PROVE TypeOK'
<1>1. /\ UNCHANGED <<serviceVars, existing, round, latest>> /\ PutClaim(d)
      /\ (Goto(d, "spawn") /\ UNCHANGED drain) \/ Finish(d)
  BY DEF Confirm, ratingVars
<1>2. dpc' \in [Drains -> DrainSteps] /\ drain' \in [Drains -> Drain]
  BY <1>1, FinishTypes, GotoTypes DEF TypeOK, DrainTypeOK, DrainSteps
<1>3. claims' \subseteq Claim BY <1>1, PutClaimTypes DEF TypeOK
<1>4. DrainTypeOK' BY <1>1, <1>2, <1>3 DEF TypeOK, DrainTypeOK
<1>5. ServiceTypeOK' BY <1>1, TypeStep DEF TypeOK
<1> QED BY <1>4, <1>5 DEF TypeOK

LEMMA SpawnTypes == ASSUME TypeOK, NEW d \in Drains, Spawn(d) PROVE TypeOK'
<1> DEFINE loop == [by |-> d, refs |-> drain[d].pool, cont |-> drain[d].cont]
<1>1. /\ loops' = loops \cup {loop} /\ Finish(d)
      /\ UNCHANGED <<trained, manifest, listed, artifact, queue, pc, call, requests, faults, quiet,
                     announced, accepted, claims, existing, round, latest>>
  BY DEF Spawn, boundVars, historyVars, ratingVars
<1>2. loop \in Loop BY DEF TypeOK, DrainTypeOK, Drain, Loop
<1> HIDE DEF loop
<1>3. dpc' \in [Drains -> DrainSteps] /\ drain' \in [Drains -> Drain]
  BY <1>1, FinishTypes DEF TypeOK
<1>4. DrainTypeOK' BY <1>1, <1>3 DEF TypeOK, DrainTypeOK
<1>5. ServiceTypeOK' BY <1>1, <1>2 DEF TypeOK, ServiceTypeOK
<1> QED BY <1>4, <1>5 DEF TypeOK

LEMMA CrashDrainTypes == ASSUME TypeOK, NEW d \in Drains, CrashDrain(d) PROVE TypeOK'
<1>1. /\ Fault("crash") /\ Finish(d)
      /\ UNCHANGED <<trained, manifest, listed, artifact, queue, loops, pc, call, quiet,
                     announced, accepted, claims, existing, round, latest>>
  BY DEF CrashDrain, storeVars, historyVars, ratingVars
<1>2. faults' \in 0..MaxFaults /\ requests' = requests BY <1>1, FaultType DEF TypeOK
<1>3. dpc' \in [Drains -> DrainSteps] /\ drain' \in [Drains -> Drain]
  BY <1>1, FinishTypes DEF TypeOK
<1>4. DrainTypeOK' BY <1>1, <1>3 DEF TypeOK, DrainTypeOK
<1>5. ServiceTypeOK' BY <1>1, <1>2 DEF TypeOK, ServiceTypeOK
<1> QED BY <1>4, <1>5 DEF TypeOK

LEMMA AgeClaimTypes == ASSUME TypeOK, NEW c \in claims, AgeClaim(c) PROVE TypeOK'
<1>1. /\ Fault("age") /\ claims' = (claims \ {c}) \cup {[c EXCEPT !.aged = TRUE]}
      /\ UNCHANGED <<trained, manifest, listed, artifact, queue, loops, pc, call, quiet,
                     announced, accepted, dpc, drain, existing, round, latest>>
  BY DEF AgeClaim, storeVars, historyVars, ratingVars
<1>2. faults' \in 0..MaxFaults /\ requests' = requests BY <1>1, FaultType DEF TypeOK
<1>3. [c EXCEPT !.aged = TRUE] \in Claim BY DEF TypeOK, DrainTypeOK, Claim
<1>4. DrainTypeOK' BY <1>1, <1>3 DEF TypeOK, DrainTypeOK
<1>5. ServiceTypeOK' BY <1>1, <1>2 DEF TypeOK, ServiceTypeOK
<1> QED BY <1>4, <1>5 DEF TypeOK

LEMMA RatingTypes == ASSUME TypeOK, RatingNext PROVE TypeOK'
<1>1. ASSUME NEW l \in loops, StartLoop(l) PROVE TypeOK'
  <2>1. /\ loops' = loops \ {l} /\ existing' = TRUE /\ round' \in {round, l.refs}
        /\ UNCHANGED <<trained, manifest, listed, artifact, queue, pc, call, requests, faults, quiet,
                       announced, accepted, claims, dpc, drain, latest>>
    BY <1>1 DEF StartLoop, boundVars, historyVars
  <2>2. l.refs \subseteq Refs BY DEF TypeOK, ServiceTypeOK, Loop
  <2>3. DrainTypeOK' BY <2>1, <2>2 DEF TypeOK, DrainTypeOK
  <2>4. ServiceTypeOK' BY <2>1 DEF TypeOK, ServiceTypeOK
  <2> QED BY <2>3, <2>4 DEF TypeOK
<1>2. CASE PublishRound
  <2>1. /\ latest' \in {latest, round} /\ round' = {}
        /\ UNCHANGED <<serviceVars, claims, dpc, drain, existing>>
    BY <1>2 DEF PublishRound
  <2>2. DrainTypeOK' BY <2>1 DEF TypeOK, DrainTypeOK
  <2>3. ServiceTypeOK' BY <2>1, TypeStep DEF TypeOK
  <2> QED BY <2>2, <2>3 DEF TypeOK
<1>3. CASE LoseRound
  <2>1. /\ Fault("round") /\ round' = {}
        /\ UNCHANGED <<trained, manifest, listed, artifact, queue, loops, pc, call, quiet,
                       announced, accepted, claims, dpc, drain, existing, latest>>
    BY <1>3 DEF LoseRound, storeVars, historyVars
  <2>2. faults' \in 0..MaxFaults /\ requests' = requests BY <2>1, FaultType DEF TypeOK
  <2>3. DrainTypeOK' BY <2>1 DEF TypeOK, DrainTypeOK
  <2>4. ServiceTypeOK' BY <2>1, <2>2 DEF TypeOK, ServiceTypeOK
  <2> QED BY <2>3, <2>4 DEF TypeOK
<1> QED BY <1>1, <1>2, <1>3 DEF RatingNext

LEMMA ScheduledTypes == ASSUME TypeOK, NEW d \in Drains, ScheduledDrain(d) PROVE TypeOK'
<1> DEFINE p == [spawn |-> TRUE, cont |-> manifest.cont \/ IsLiveWatch(manifest), force |-> FALSE]
<1>1. p \in [spawn : BOOLEAN, cont : BOOLEAN, force : BOOLEAN]
  BY DEF TypeOK, ServiceTypeOK, Manifest, IsLiveWatch
<1>2. Order(d, p) /\ requests' = requests BY DEF ScheduledDrain
<1> HIDE DEF p
<1> QED BY <1>1, <1>2, OrderTypes DEF TypeOK, ServiceTypeOK

LEMMA RequestedTypes == ASSUME TypeOK, NEW d \in Drains, RequestedDrain(d) PROVE TypeOK'
<1>1. requests' \in 0..MaxRequests BY RequestedType DEF TypeOK, RequestedDrain
<1>2. PICK p \in DrainPayloads : Order(d, p) BY DEF RequestedDrain
<1> QED BY <1>1, <1>2, OrderTypes, DrainAssumption

LEMMA DrainTypesKept == TypeOK /\ [Next]_vars => TypeOK'
<1> SUFFICES ASSUME TypeOK, [Next]_vars PROVE TypeOK' OBVIOUS
<1>1. CASE ServiceNext /\ UNCHANGED drainVars
  <2>1. ServiceTypeOK' BY <1>1, TypeStep DEF TypeOK
  <2> QED BY <1>1, <2>1 DEF TypeOK, DrainTypeOK, drainVars, ratingVars
<1>2. ASSUME NEW d \in Drains,
             ScheduledDrain(d) \/ RequestedDrain(d) \/ DrainStep(d) \/ CrashDrain(d)
      PROVE  TypeOK'
  BY <1>2, ScheduledTypes, RequestedTypes, LoadTypes, DecideTypes, TakeClaimTypes, RequeueTypes,
     TakeTypes, ConfirmTypes, SpawnTypes, CrashDrainTypes DEF DrainStep
<1>3. CASE \E c \in claims : AgeClaim(c) BY <1>3, AgeClaimTypes
<1>4. CASE RatingNext BY <1>4, RatingTypes
<1>5. CASE UNCHANGED vars
  <2>1. UNCHANGED serviceVars /\ UNCHANGED drainVars BY <1>5 DEF vars
  <2>2. ServiceTypeOK' BY <2>1, TypeStep DEF TypeOK
  <2> QED BY <2>1, <2>2 DEF TypeOK, DrainTypeOK, drainVars, ratingVars
<1> QED BY <1>1, <1>2, <1>3, <1>4, <1>5 DEF Next, DrainNext

LEMMA DrainTypesBegin == Init => TypeOK
BY TypeInit, NoDrainType DEF Init, DrainInit, TypeOK, DrainTypeOK, DrainSteps

\* The types, however many calls, drains and rating loops overlap.
THEOREM DrainTypeCorrect == Spec => []TypeOK
BY DrainTypesBegin, DrainTypesKept, PTL DEF Spec

(***************************************************************************)
(* The memory of the intake, one call at a time.                           *)
(***************************************************************************)
LEMMA NothingIsSeen == /\ ~ NoManifest.exists /\ NoManifest.refs = {} /\ NoManifest.seen = {}
                       /\ ~ RepairDefaults(NoManifest).exists
                       /\ RepairDefaults(NoManifest).refs = {}
                       /\ RepairDefaults(NoManifest).seen = {}
<1>1. ~ NoManifest.exists /\ NoManifest.refs = {} /\ NoManifest.seen = {} BY DEF NoManifest
<1> QED BY <1>1, NoManifestType, RepairDefaultsType

\* Without evictions there is nothing to restore.
LEMMA LoadedIsManifest ==
    ASSUME MemoryInv
    PROVE  /\ Restore => UNCHANGED <<manifest, listed>>
           /\ manifest.exists => Loaded = manifest
           /\ Loaded.exists = manifest.exists
           /\ Loaded.seen = manifest.seen /\ Loaded.refs = manifest.refs
<1>1. CASE manifest.exists BY <1>1 DEF Restore, Loaded
<1>2. CASE ~ manifest.exists
  <2>1. manifest = NoManifest /\ artifact = NoManifest BY <1>2 DEF MemoryInv
  <2>2. Loaded = RepairDefaults(NoManifest) BY <1>2, <2>1 DEF Loaded
  <2>3. Restore => UNCHANGED <<manifest, listed>> BY <1>2, <2>1, NothingIsSeen DEF Restore
  <2>4. ~ Loaded.exists /\ Loaded.seen = {} /\ Loaded.refs = {} BY <2>2, NothingIsSeen
  <2>5. ~ manifest.exists /\ manifest.seen = {} /\ manifest.refs = {} BY <2>1, NothingIsSeen
  <2>7. Loaded.exists = manifest.exists BY <2>1, <2>2, NoManifestType, RepairDefaultsType
  <2> QED BY <1>2, <2>3, <2>4, <2>5, <2>7
<1>3. manifest.exists \/ ~ manifest.exists OBVIOUS
<1> QED BY <1>1, <1>2, <1>3

\* What a service step keeps; the chain needs no more of it.
Remembers ==
    /\ MemoryInv'
    /\ manifest.seen \subseteq manifest'.seen
    /\ \/ loops' = loops
       \/ \E l : loops' = loops \cup {l} /\ l.refs = manifest.seen

LEMMA StepRemembers ==
    ASSUME TypeOK, OneIntake, MemoryInv, NEW w \in Writers, NEW step, NEW c,
           pc' = [pc EXCEPT ![w] = step], call' = [call EXCEPT ![w] = c],
           ~ manifest'.exists => manifest' = NoManifest /\ artifact' = NoManifest,
           manifest'.refs = manifest'.seen,
           step \in {"enqueue", "merge"} => /\ c.cand.seen = c.cand.refs \cup manifest'.seen
                                            /\ c.cand.exists,
           step = "merge" => c.base = manifest',
           step \in {"index", "artifact", "spawn"} => c.cand = manifest' /\ manifest'.exists
    PROVE  MemoryInv'
<1>1. pc'[w] = step /\ call'[w] = c BY DEF TypeOK, ServiceTypeOK
<1>2. \A v \in Writers : v = w BY DEF OneIntake
<1>3. \A v \in Writers : pc'[v] = step /\ call'[v] = c BY <1>1, <1>2
<1> QED BY <1>3 DEF MemoryInv

LEMMA BeginRemembers ==
    ASSUME TypeOK, OneIntake, MemoryInv, NEW w \in Writers, NEW kind, NEW cand, NEW new, NEW asked,
           NEW spawn, Begin(w, kind, cand, new, asked, spawn),
           cand.exists, cand.seen = cand.refs \cup Loaded.seen
    PROVE  Remembers
<1> DEFINE c == [kind |-> kind, cand |-> cand, base |-> NoManifest,
                 todo |-> new, new |-> new, asked |-> asked, spawn |-> spawn]
<1>1. /\ pc' = [pc EXCEPT ![w] = "enqueue"] /\ call' = [call EXCEPT ![w] = c]
      /\ UNCHANGED <<manifest, artifact, loops>>
  BY LoadedIsManifest DEF Begin
<1>2. c.cand = cand OBVIOUS
<1> HIDE DEF c
<1>3. cand.seen = cand.refs \cup manifest'.seen BY <1>1, LoadedIsManifest
<1>4. MemoryInv' BY <1>1, <1>2, <1>3, StepRemembers DEF MemoryInv
<1> QED BY <1>1, <1>4 DEF Remembers

LEMMA DiscoveryRemembers ==
    ASSUME NEW spec, NEW cont, NEW found, NEW existed, NEW active
    PROVE  LET cand == FromDiscovery(spec, cont, found, existed, active) IN
           cand.exists /\ cand.seen = cand.refs \cup existed.seen
BY DEF FromDiscovery

LEMMA CallsRemember ==
    ASSUME TypeOK, OneIntake, MemoryInv, NEW w \in Writers,
           \/ \E p \in SeedPayloads : Seed(w, p)
           \/ \E p \in SubmitPayloads : Submit(w, p)
           \/ Tick(w)
    PROVE  Remembers
<1>1. ASSUME NEW p \in SeedPayloads, Seed(w, p) PROVE Remembers
  <2> DEFINE spec  == [pinned |-> p.pinned, watch |-> p.watch]
             found == Discover(spec, trained)
             cand  == FromDiscovery(spec, p.cont \/ IsLiveWatch(spec), found, Loaded, p.active)
  <2>1. Begin(w, "seed", cand, IF p.enqueue THEN found ELSE {}, {}, p.spawn) BY <1>1 DEF Seed
  <2>2. cand.exists /\ cand.seen = cand.refs \cup Loaded.seen BY DiscoveryRemembers
  <2> HIDE DEF cand
  <2> QED BY <2>1, <2>2, BeginRemembers
<1>2. ASSUME NEW p \in SubmitPayloads, Submit(w, p) PROVE Remembers
  <2> DEFINE asked == Asked(p)
             found == Loaded.refs \cup asked
             cand  == FromDiscovery(SubmitSpec(p), Loaded.cont, found, Loaded, TRUE)
  <2>1. Begin(w, "submit", cand, asked \ Loaded.seen, asked, FALSE) BY <1>2 DEF Submit
  <2> HIDE DEF found, asked
  <2>2. cand.exists /\ cand.seen = cand.refs \cup Loaded.seen BY DEF FromDiscovery
  <2> HIDE DEF cand
  <2> QED BY <2>1, <2>2, BeginRemembers
<1>3. ASSUME Tick(w) PROVE Remembers
  <2> DEFINE spec  == [pinned |-> Loaded.pinned, watch |-> Loaded.watch]
             found == Discover(spec, trained)
             cand  == FromDiscovery(spec, Loaded.cont, found, Loaded, Loaded.active)
  <2>1. Begin(w, "tick", cand, found \ Loaded.seen, {}, FALSE) BY <1>3 DEF Tick
  <2>2. cand.exists /\ cand.seen = cand.refs \cup Loaded.seen BY DiscoveryRemembers
  <2> HIDE DEF cand
  <2> QED BY <2>1, <2>2, BeginRemembers
<1> QED BY <1>1, <1>2, <1>3

LEMMA EnqueueRemembers ==
    ASSUME TypeOK, OneIntake, MemoryInv, NEW w \in Writers, EnqueueEvent(w) PROVE Remembers
<1>1. PICK ref \in call[w].todo : call' = [call EXCEPT ![w].todo = @ \ {ref}]
  BY DEF EnqueueEvent
<1> DEFINE c == [call[w] EXCEPT !.todo = @ \ {ref}]
<1>2. /\ pc[w] = "enqueue" /\ UNCHANGED <<pc, manifest, artifact, loops>>
      /\ call' = [call EXCEPT ![w] = c]
  BY <1>1 DEF EnqueueEvent
<1>3. c.cand = call[w].cand BY CallType DEF Call, TypeOK
<1> HIDE DEF c
<1>4. pc' = [pc EXCEPT ![w] = "enqueue"] BY <1>2 DEF TypeOK, ServiceTypeOK
<1>5. MemoryInv' BY <1>2, <1>3, <1>4, StepRemembers DEF MemoryInv
<1> QED BY <1>2, <1>5 DEF Remembers

LEMMA ReadRemembers ==
    ASSUME TypeOK, OneIntake, MemoryInv, NEW w \in Writers, ReadCurrent(w) PROVE Remembers
<1> DEFINE marked == MarkQueued(call[w].cand, call[w].new)
           cand   == RepairDefaults(marked)
           c      == [call[w] EXCEPT !.cand = cand, !.base = manifest, !.new = {}]
<1>1. /\ pc[w] = "enqueue" /\ UNCHANGED <<manifest, artifact, loops>>
      /\ pc' = [pc EXCEPT ![w] = "merge"] /\ call' = [call EXCEPT ![w] = c]
  BY DEF ReadCurrent, storeVars
<1>2. call[w] \in Call /\ call[w].cand \in Manifest /\ call[w].new \in SUBSET Refs
  BY CallType DEF TypeOK
<1>3. /\ marked \in Manifest /\ marked.seen = call[w].cand.seen
      /\ marked.exists = call[w].cand.exists /\ marked.refs = call[w].cand.refs
  BY <1>2, MarkQueuedType DEF MarkQueued, Manifest
<1> HIDE DEF marked
<1>4. /\ cand.seen = call[w].cand.seen /\ cand.exists = call[w].cand.exists
      /\ cand.refs = call[w].cand.refs
  BY <1>3, RepairDefaultsType
<1> HIDE DEF cand
<1>5. c.cand = cand /\ c.base = manifest BY <1>2 DEF Call
<1> HIDE DEF c
<1>6. MemoryInv' BY <1>1, <1>4, <1>5, StepRemembers DEF MemoryInv
<1> QED BY <1>1, <1>6 DEF Remembers

LEMMA PutRemembers ==
    ASSUME TypeOK, OneIntake, MemoryInv, NEW w \in Writers, PutManifest(w) PROVE Remembers
<1> DEFINE old    == call[w].cand
           merged == MergePool(old, manifest)
           cand   == RepairDefaults(merged)
           c      == [call[w] EXCEPT !.cand = cand, !.base = NoManifest]
<1>1. call[w].base = manifest BY DEF PutManifest, MemoryInv
<1>2. /\ pc[w] = "merge" /\ manifest' = cand /\ UNCHANGED <<artifact, loops>>
      /\ pc' = [pc EXCEPT ![w] = "index"] /\ call' = [call EXCEPT ![w] = c]
  BY <1>1 DEF PutManifest
<1>3. /\ call[w] \in Call /\ old \in Manifest /\ manifest \in Manifest /\ old.exists
      /\ old.seen = old.refs \cup manifest.seen /\ manifest.refs = manifest.seen
  BY <1>2, CallType DEF TypeOK, ServiceTypeOK, MemoryInv
<1> HIDE DEF old
<1>4. /\ merged \in Manifest /\ merged.exists /\ merged.refs = merged.seen
      /\ manifest.seen \subseteq merged.seen
  <2>1. ASSUME manifest.exists
        PROVE  /\ merged \in Manifest /\ merged.exists /\ merged.refs = merged.seen
               /\ manifest.seen \subseteq merged.seen
    <3>1. /\ merged \in Manifest /\ merged.exists
          /\ merged.refs = old.refs \cup manifest.refs
          /\ merged.seen = old.seen \cup manifest.seen \cup merged.refs
      BY <1>3, <2>1, MergePoolKeeps
    <3> HIDE DEF merged
    <3> QED BY <1>3, <3>1
  <2>2. CASE ~ manifest.exists
    <3>1. manifest.seen = {} BY <2>2, NothingIsSeen DEF MemoryInv
    <3> QED BY <1>3, <2>2, <3>1 DEF MergePool
  <2> QED BY <2>1, <2>2
<1> HIDE DEF merged
<1>5. cand.exists /\ cand.refs = cand.seen /\ manifest.seen \subseteq cand.seen
  BY <1>4, RepairDefaultsType
<1> HIDE DEF cand
<1>6. c.cand = cand BY <1>3 DEF Call
<1> HIDE DEF c
<1>7. MemoryInv' BY <1>2, <1>5, <1>6, StepRemembers
<1> QED BY <1>2, <1>5, <1>7 DEF Remembers

LEMMA IndexRemembers ==
    ASSUME TypeOK, OneIntake, MemoryInv, NEW w \in Writers, PutActiveKeys(w) PROVE Remembers
<1> DEFINE c == call[w]
<1>1. /\ pc[w] = "index" /\ pc' = [pc EXCEPT ![w] = "artifact"]
      /\ UNCHANGED <<manifest, artifact, call, loops>>
  BY DEF PutActiveKeys
<1>2. call' = [call EXCEPT ![w] = c] BY <1>1 DEF TypeOK, ServiceTypeOK
<1>3. c.cand = manifest /\ manifest.exists BY <1>1 DEF MemoryInv
<1> HIDE DEF c
<1>4. MemoryInv' BY <1>1, <1>2, <1>3, StepRemembers DEF MemoryInv
<1> QED BY <1>1, <1>4 DEF Remembers

LEMMA WriteRemembers ==
    ASSUME TypeOK, OneIntake, MemoryInv, NEW w \in Writers, WriteArtifact(w) PROVE Remembers
<1>1. pc[w] = "artifact" /\ UNCHANGED <<manifest, loops>> BY DEF WriteArtifact
<1>2. call[w].cand = manifest /\ manifest.exists BY <1>1 DEF MemoryInv
<1>3. PICK step \in {"spawn", "idle"}, c \in {call[w], NoCall} :
         /\ pc' = [pc EXCEPT ![w] = step] /\ call' = [call EXCEPT ![w] = c]
         /\ step = "spawn" => c = call[w]
  <2>1. CASE pc' = [pc EXCEPT ![w] = "spawn"] /\ UNCHANGED call
    BY <2>1 DEF TypeOK, ServiceTypeOK
  <2>2. CASE Return(w) BY <2>2 DEF Return
  <2> QED BY <2>1, <2>2 DEF WriteArtifact
<1>4. MemoryInv' BY <1>1, <1>2, <1>3, StepRemembers DEF MemoryInv
<1> QED BY <1>1, <1>4 DEF Remembers

\* A call that is over leaves the memory as it is.
LEMMA ReturnRemembers ==
    ASSUME TypeOK, OneIntake, MemoryInv, NEW w \in Writers, Return(w), UNCHANGED <<manifest, artifact>>
    PROVE  MemoryInv'
<1>1. pc' = [pc EXCEPT ![w] = "idle"] /\ call' = [call EXCEPT ![w] = NoCall] BY DEF Return
<1> QED BY <1>1, StepRemembers DEF MemoryInv

LEMMA SpawnRatingRemembers ==
    ASSUME TypeOK, OneIntake, MemoryInv, NEW w \in Writers, SpawnRating(w) PROVE Remembers
<1> DEFINE m == call[w].cand
           l == [by |-> w, refs |-> RatingRefs(m, m.cont), cont |-> m.cont]
<1>1. /\ pc[w] = "spawn" /\ Return(w) /\ UNCHANGED <<manifest, artifact>>
      /\ loops' = loops \cup {l}
  BY DEF SpawnRating
<1>2. m = manifest /\ manifest.refs = manifest.seen BY <1>1 DEF MemoryInv
<1>3. RatingRefs(m, m.cont) = manifest.seen BY <1>2 DEF RatingRefs
<1>4. l.refs = manifest.seen BY <1>3
<1> HIDE DEF l
<1>5. MemoryInv' BY <1>1, ReturnRemembers
<1> QED BY <1>1, <1>4, <1>5 DEF Remembers

LEMMA MemoryStays ==
    ASSUME MemoryInv, UNCHANGED <<manifest, artifact, pc, call>> PROVE MemoryInv'
BY DEF MemoryInv

LEMMA ServiceRemembers ==
    ASSUME TypeOK, OneIntake, MemoryInv, ServiceNext PROVE Remembers
<1>1. ASSUME NEW w \in Writers, WriterNext(w) PROVE Remembers
  <2>1. CASE \/ \E p \in SeedPayloads : Seed(w, p)
             \/ \E p \in SubmitPayloads : Submit(w, p)
             \/ Tick(w)
    BY <2>1, CallsRemember
  <2>2. CASE \E p \in SubmitPayloads : RejectSubmit(w, p)
    <3>1. UNCHANGED <<manifest, artifact, pc, call, loops>>
      BY <2>2, LoadedIsManifest DEF RejectSubmit
    <3> QED BY <3>1, MemoryStays DEF Remembers
  <2>3. CASE EnqueueEvent(w) BY <2>3, EnqueueRemembers
  <2>4. CASE ReadCurrent(w) BY <2>4, ReadRemembers
  <2>5. CASE PutManifest(w) BY <2>5, PutRemembers
  <2>6. CASE PutActiveKeys(w) BY <2>6, IndexRemembers
  <2>7. CASE WriteArtifact(w) BY <2>7, WriteRemembers
  <2>8. CASE SpawnRating(w) BY <2>8, SpawnRatingRemembers
  <2>9. CASE Crash(w)
    <3>1. Return(w) /\ UNCHANGED <<manifest, artifact, loops>> BY <2>9 DEF Crash, storeVars
    <3>2. MemoryInv' BY <3>1, ReturnRemembers
    <3> QED BY <3>1, <3>2 DEF Remembers
  <2> QED BY <1>1, <2>1, <2>2, <2>3, <2>4, <2>5, <2>6, <2>7, <2>8, <2>9 DEF WriterNext, WriterStep
<1>2. ASSUME (\E r \in Runs : Train(r)) \/ ExpireQueue PROVE Remembers
  <2>1. UNCHANGED <<manifest, artifact, pc, call, loops>>
    BY <1>2 DEF Train, ExpireQueue, storeVars
  <2> QED BY <2>1, MemoryStays DEF Remembers
<1>3. ~ EvictDict BY DEF EvictDict, Fault, OneIntake
<1> QED BY <1>1, <1>2, <1>3 DEF ServiceNext


(***************************************************************************)
(* The chain of rosters.                                                   *)
(***************************************************************************)
\* A step may drop rosters, and add the empty one and the memory it finds.
NewRosters == Rosters' \subseteq Rosters \cup {{}, manifest.seen}

LEMMA ChainGrows ==
    ASSUME ChainInv, NewRosters, manifest.seen \subseteq manifest'.seen
    PROVE  ChainInv'
<1>1. ASSUME NEW X \in Rosters' PROVE X \subseteq manifest.seen
  BY DEF NewRosters, ChainInv
<1>2. ASSUME NEW X \in Rosters', NEW Y \in Rosters' PROVE X \subseteq Y \/ Y \subseteq X
  <2>1. CASE X \in Rosters /\ Y \in Rosters BY <2>1 DEF ChainInv
  <2>2. CASE X \in {{}, manifest.seen} BY <1>1, <2>2
  <2>3. CASE Y \in {{}, manifest.seen} BY <1>1, <2>3
  <2> QED BY <2>1, <2>2, <2>3 DEF NewRosters
<1> QED BY <1>1, <1>2 DEF ChainInv

LEMMA ServiceRosters ==
    ASSUME Remembers, UNCHANGED drainVars PROVE NewRosters
<1>1. UNCHANGED <<latest, round, drain>> BY DEF drainVars, ratingVars
<1>2. CASE loops' = loops BY <1>1, <1>2 DEF NewRosters, Rosters
<1>3. CASE \E l : loops' = loops \cup {l} /\ l.refs = manifest.seen
  BY <1>1, <1>3 DEF NewRosters, Rosters
<1> QED BY <1>2, <1>3 DEF Remembers

\* A drain's new pool is the only roster a step of the drain can add.
LEMMA DrainRosters ==
    ASSUME TypeOK, NEW d \in Drains, NEW x, drain' = [drain EXCEPT ![d] = x],
           x.pool \in {{}, manifest.seen, drain[d].pool},
           UNCHANGED <<latest, round>>,
           loops' \subseteq loops \cup {l \in loops' : l.refs = drain[d].pool}
    PROVE  NewRosters
<1>1. \A e \in Drains : drain'[e].pool \in {drain[e].pool, {}, manifest.seen}
  BY DEF TypeOK, DrainTypeOK
<1>2. \A l \in loops' : l.refs \in {k.refs : k \in loops} \cup {drain[e].pool : e \in Drains} OBVIOUS
<1> QED BY <1>1, <1>2 DEF NewRosters, Rosters

LEMMA FinishRosters ==
    ASSUME TypeOK, NEW d \in Drains, Finish(d), UNCHANGED <<latest, round>>,
           loops' \subseteq loops \cup {l \in loops' : l.refs = drain[d].pool}
    PROVE  NewRosters
<1>1. NoDrain.pool = {} BY DEF NoDrain
<1> QED BY <1>1, DrainRosters DEF Finish

LEMMA SameRosters ==
    ASSUME UNCHANGED <<latest, round, loops, drain>> PROVE NewRosters
BY DEF NewRosters, Rosters

LEMMA OrderRosters ==
    ASSUME TypeOK, NEW d \in Drains, NEW p, Order(d, p) PROVE NewRosters
<1> DEFINE x == [NoDrain EXCEPT !.spawn = p.spawn, !.cont = p.cont, !.force = p.force]
<1>1. x.pool = {} BY DEF NoDrain
<1>2. drain' = [drain EXCEPT ![d] = x] /\ UNCHANGED <<latest, round, loops>>
  BY DEF Order, storeVars, ratingVars
<1> HIDE DEF x
<1> QED BY <1>1, <1>2, DrainRosters

LEMMA LoadRosters ==
    ASSUME TypeOK, MemoryInv, NEW d \in Drains, Load(d) PROVE NewRosters
<1> DEFINE cont == drain[d].cont \/ Loaded.cont \/ IsLiveWatch(Loaded)
           pool == RatingRefs(Loaded, cont)
           gone == IF cont /\ latest # {} THEN latest ELSE {}
           x    == [drain[d] EXCEPT !.cont = cont, !.pool = pool,
                        !.repair = QueueRepairRefs(Loaded) \ gone,
                        !.existed = existing, !.busy = round # {}, !.pending = queue # {}]
<1>1. pool = manifest.seen BY LoadedIsManifest DEF RatingRefs, MemoryInv
<1> HIDE DEF pool
<1>2. drain[d] \in Drain BY DEF TypeOK, DrainTypeOK
<1>3. x.pool = manifest.seen BY <1>1, <1>2 DEF Drain
<1>4. drain' = [drain EXCEPT ![d] = x] \/ Finish(d) BY DEF Load, pool
<1>5. UNCHANGED <<latest, round, loops>> BY DEF Load, ratingVars
<1> HIDE DEF x
<1> QED BY <1>3, <1>4, <1>5, DrainRosters, FinishRosters

LEMMA DecideRosters == ASSUME TypeOK, NEW d \in Drains, Decide(d) PROVE NewRosters
<1> DEFINE x == [drain[d] EXCEPT !.takeover = Stale(d)]
<1>1. x.pool = drain[d].pool BY DEF TypeOK, DrainTypeOK, Drain
<1>2. /\ drain' = [drain EXCEPT ![d] = x] \/ Finish(d)
      /\ UNCHANGED <<latest, round, loops>>
  BY DEF Decide, serviceVars, storeVars, ratingVars
<1> HIDE DEF x
<1> QED BY <1>1, <1>2, DrainRosters, FinishRosters

LEMMA TakeRosters == ASSUME TypeOK, NEW d \in Drains, Take(d) PROVE NewRosters
<1> DEFINE x == [drain[d] EXCEPT !.events = queue # {}]
<1>1. x.pool = drain[d].pool BY DEF TypeOK, DrainTypeOK, Drain
<1>2. /\ drain' = [drain EXCEPT ![d] = x] \/ Finish(d)
      /\ UNCHANGED <<latest, round, loops>>
  BY DEF Take, ratingVars
<1> HIDE DEF x
<1> QED BY <1>1, <1>2, DrainRosters, FinishRosters

LEMMA ClaimRosters ==
    ASSUME TypeOK, NEW d \in Drains, TakeClaim(d) \/ Requeue(d) \/ Confirm(d) PROVE NewRosters
<1>1. UNCHANGED <<latest, round, loops>> /\ (UNCHANGED drain \/ Finish(d))
  BY DEF TakeClaim, Requeue, Confirm, serviceVars, storeVars, ratingVars
<1> QED BY <1>1, SameRosters, FinishRosters

LEMMA SpawnRosters == ASSUME TypeOK, NEW d \in Drains, Spawn(d) PROVE NewRosters
<1> DEFINE l == [by |-> d, refs |-> drain[d].pool, cont |-> drain[d].cont]
<1>1. l.refs = drain[d].pool OBVIOUS
<1>2. Finish(d) /\ loops' = loops \cup {l} /\ UNCHANGED <<latest, round>> BY DEF Spawn, ratingVars
<1> HIDE DEF l
<1> QED BY <1>1, <1>2, FinishRosters

LEMMA RatingRosters == ASSUME TypeOK, RatingNext PROVE NewRosters
<1>1. ASSUME NEW l \in loops, StartLoop(l) PROVE NewRosters
  <2>1. loops' \subseteq loops /\ round' \in {round, l.refs} /\ UNCHANGED <<latest, drain>>
    BY <1>1 DEF StartLoop
  <2> QED BY <2>1 DEF NewRosters, Rosters
<1>2. ASSUME PublishRound \/ LoseRound PROVE NewRosters
  <2>1. round' = {} /\ latest' \in {latest, round} /\ UNCHANGED <<loops, drain>>
    BY <1>2 DEF PublishRound, LoseRound, serviceVars, storeVars
  <2> QED BY <2>1 DEF NewRosters, Rosters
<1> QED BY <1>1, <1>2 DEF RatingNext

LEMMA DrainMoves ==
    ASSUME TypeOK, MemoryInv, DrainNext
    PROVE  NewRosters /\ UNCHANGED <<manifest, artifact, pc, call>>
<1>1. ASSUME NEW d \in Drains, ScheduledDrain(d) \/ RequestedDrain(d)
      PROVE  NewRosters /\ UNCHANGED <<manifest, artifact, pc, call>>
  <2>1. PICK p : Order(d, p) BY <1>1 DEF ScheduledDrain, RequestedDrain
  <2> QED BY <2>1, OrderRosters DEF Order, storeVars
<1>2. ASSUME NEW d \in Drains, DrainStep(d)
      PROVE  NewRosters /\ UNCHANGED <<manifest, artifact, pc, call>>
  <2>1. NewRosters
    BY <1>2, LoadRosters, DecideRosters, ClaimRosters, TakeRosters, SpawnRosters DEF DrainStep
  <2>2. CASE Load(d) BY <2>1, <2>2, LoadedIsManifest DEF Load
  <2>3. CASE Decide(d) \/ TakeClaim(d) \/ Confirm(d)
    BY <2>1, <2>3 DEF Decide, TakeClaim, Confirm, serviceVars, storeVars
  <2>4. CASE Requeue(d) \/ Take(d) \/ Spawn(d) BY <2>1, <2>4 DEF Requeue, Take, Spawn
  <2> QED BY <1>2, <2>2, <2>3, <2>4 DEF DrainStep
<1>3. ASSUME NEW d \in Drains, CrashDrain(d)
      PROVE  NewRosters /\ UNCHANGED <<manifest, artifact, pc, call>>
  <2>1. Finish(d) /\ UNCHANGED <<manifest, artifact, pc, call, loops, latest, round>>
    BY <1>3 DEF CrashDrain, storeVars, ratingVars
  <2> QED BY <2>1, FinishRosters
<1>4. ASSUME NEW c \in claims, AgeClaim(c)
      PROVE  NewRosters /\ UNCHANGED <<manifest, artifact, pc, call>>
  <2>1. UNCHANGED <<manifest, artifact, pc, call, loops, latest, round, drain>>
    BY <1>4 DEF AgeClaim, storeVars, ratingVars
  <2> QED BY <2>1, SameRosters
<1>5. ASSUME RatingNext PROVE UNCHANGED <<manifest, artifact, pc, call>>
  BY <1>5 DEF RatingNext, StartLoop, PublishRound, LoseRound, serviceVars, storeVars
<1> QED BY <1>1, <1>2, <1>3, <1>4, <1>5, RatingRosters DEF DrainNext

LEMMA DrainInvKept == OneIntake /\ DrainInv /\ [Next]_vars => DrainInv'
<1> SUFFICES ASSUME OneIntake, DrainInv, [Next]_vars PROVE DrainInv' OBVIOUS
<1>1. TypeOK' BY DrainTypesKept DEF DrainInv
<1>2. ASSUME ServiceNext, UNCHANGED drainVars PROVE MemoryInv' /\ ChainInv'
  <2>1. Remembers BY <1>2, ServiceRemembers DEF DrainInv
  <2> QED BY <1>2, <2>1, ServiceRosters, ChainGrows DEF DrainInv, Remembers
<1>3. ASSUME DrainNext PROVE MemoryInv' /\ ChainInv'
  <2>1. NewRosters /\ UNCHANGED <<manifest, artifact, pc, call>> BY <1>3, DrainMoves DEF DrainInv
  <2> QED BY <2>1, MemoryStays, ChainGrows DEF DrainInv
<1>4. ASSUME UNCHANGED vars PROVE MemoryInv' /\ ChainInv'
  <2>1. UNCHANGED <<manifest, artifact, pc, call, loops, latest, round, drain>>
    BY <1>4 DEF vars, serviceVars, storeVars, drainVars, ratingVars
  <2> QED BY <2>1, MemoryStays, SameRosters, ChainGrows DEF DrainInv
<1> QED BY <1>1, <1>2, <1>3, <1>4 DEF DrainInv, Next

LEMMA DrainInvBegins == Init => DrainInv
<1> SUFFICES ASSUME Init PROVE DrainInv OBVIOUS
<1>1. MemoryInv BY NothingIsSeen DEF Init, ServiceInit, MemoryInv
<1>2. \A d \in Drains : drain[d].pool = {} BY DEF Init, DrainInit, NoDrain
<1>3. ChainInv BY <1>2 DEF Init, ServiceInit, DrainInit, ChainInv, Rosters
<1> QED BY <1>1, <1>3, DrainTypesBegin DEF DrainInv

\* The memory is the pool, and the rosters form a chain below it.
THEOREM DrainInvariant == ASSUME OneIntake PROVE Spec => []DrainInv
BY DrainInvBegins, DrainInvKept, PTL DEF Spec

\* What has been rated, or is being rated, stays in the intake's memory.
THEOREM RatedIsRemembered == ASSUME OneIntake PROVE Spec => []RatedStaysKnown
<1>1. DrainInv => RatedStaysKnown BY DEF DrainInv, ChainInv, Rosters, RatedStaysKnown
<1> QED BY <1>1, DrainInvariant, PTL

(***************************************************************************)
(* Publishing.                                                             *)
(***************************************************************************)
LEMMA RefsAreFinite == ASSUME OneIntake PROVE IsFiniteSet(Refs)
<1>1. 1 \in Int /\ MaxIter \in Int BY MaxIterAssumption
<1>2. IsFiniteSet(1..MaxIter) BY <1>1, FS_Interval
<1>3. IsFiniteSet(Runs) BY DEF OneIntake
<1> QED BY <1>2, <1>3, FS_Product DEF Refs

\* Of two finite sets in a chain the larger includes the other.
LEMMA LargerIncludes ==
    ASSUME NEW X, NEW Y, IsFiniteSet(X), IsFiniteSet(Y), X \subseteq Y \/ Y \subseteq X,
           ~ (Cardinality(Y) < Cardinality(X))
    PROVE  X \subseteq Y
<1>1. CASE Y \subseteq X
  <2>1. Cardinality(Y) <= Cardinality(X) /\ (Cardinality(Y) = Cardinality(X) => Y = X)
    BY <1>1, FS_Subset
  <2>2. Cardinality(X) \in Nat /\ Cardinality(Y) \in Nat BY FS_CardinalityType
  <2> QED BY <2>1, <2>2
<1> QED BY <1>1

LEMMA PublishingAdds ==
    ASSUME OneIntake, DrainInv, [Next]_vars PROVE latest \subseteq latest'
<1>1. ASSUME PublishRound PROVE latest \subseteq latest'
  <2>1. latest \subseteq Refs /\ round \subseteq Refs BY DEF DrainInv, TypeOK, DrainTypeOK
  <2>2. IsFiniteSet(latest) /\ IsFiniteSet(round) BY <2>1, RefsAreFinite, FS_Subset
  <2>3. latest \subseteq round \/ round \subseteq latest BY DEF DrainInv, ChainInv, Rosters
  <2> QED BY <1>1, <2>2, <2>3, LargerIncludes DEF PublishRound
<1>2. ASSUME ~ PublishRound PROVE latest' = latest
  <2>1. ASSUME NEW d \in Drains,
               ScheduledDrain(d) \/ RequestedDrain(d) \/ DrainStep(d) \/ CrashDrain(d)
        PROVE  latest' = latest
    BY <2>1 DEF ScheduledDrain, RequestedDrain, Order, DrainStep, Load, Decide, TakeClaim, Requeue,
                Take, Confirm, Spawn, CrashDrain, ratingVars
  <2>2. CASE (\E c \in claims : AgeClaim(c)) \/ RatingNext
    BY <1>2, <2>2 DEF AgeClaim, RatingNext, StartLoop, LoseRound, ratingVars
  <2>3. CASE UNCHANGED drainVars BY <2>3 DEF drainVars, ratingVars
  <2> QED BY <2>1, <2>2, <2>3 DEF Next, DrainNext, vars
<1> QED BY <1>1, <1>2

\* Publishing a later rating never drops a checkpoint already rated.
THEOREM NothingRatedIsDropped == ASSUME OneIntake PROVE Spec => RatedNeverDropped
<1>1. DrainInv /\ [Next]_vars => [latest \subseteq latest']_latest BY PublishingAdds
<1> QED BY <1>1, DrainInvariant, PTL DEF Spec, RatedNeverDropped
=============================================================================
