------------------------- MODULE IntakeServiceProofs -------------------------
(***************************************************************************)
(* Proofs about the intake service, for every set of writers, requests and *)
(* faults: its types, and that what it has seen stays recoverable.         *)
(***************************************************************************)
EXTENDS IntakeService, TLAPS

(***************************************************************************)
(* The operators on manifests.                                             *)
(***************************************************************************)
LEMMA NoManifestType == NoManifest \in Manifest
  BY DEF NoManifest, Manifest

LEMMA LatestOfType ==
    ASSUME NEW t \in [Runs -> 0..MaxIter], NEW r \in Runs
    PROVE  LatestOf(r, t) \subseteq Refs
  BY MaxIterAssumption DEF LatestOf, Refs

LEMMA DiscoverType ==
    ASSUME NEW t \in [Runs -> 0..MaxIter],
           NEW p \in SUBSET Refs, NEW ws \in SUBSET Runs
    PROVE  Discover([pinned |-> p, watch |-> ws], t) \in SUBSET Refs
  <1>1. ASSUME NEW r \in ws PROVE LatestOf(r, t) \subseteq Refs
    BY <1>1, LatestOfType
  <1> QED
    BY <1>1 DEF Discover

LEMMA FromDiscoveryType ==
    ASSUME NEW spec \in ScanSpec, NEW cont \in BOOLEAN, NEW found \in SUBSET Refs,
           NEW existing \in Manifest, NEW active \in BOOLEAN
    PROVE  FromDiscovery(spec, cont, found, existing, active) \in Manifest
  BY DEF FromDiscovery, Manifest, ScanSpec

LEMMA RepairDefaultsType ==
    ASSUME NEW m \in Manifest
    PROVE  /\ RepairDefaults(m) \in Manifest
           /\ RepairDefaults(m).seen = m.seen
           /\ RepairDefaults(m).queued = m.queued
           /\ RepairDefaults(m).refs = m.refs
           /\ RepairDefaults(m).active = m.active
           /\ RepairDefaults(m).exists = m.exists
  BY DEF RepairDefaults, IsLiveWatch, Manifest

LEMMA MarkQueuedType ==
    ASSUME NEW m \in Manifest, NEW events \in SUBSET Refs
    PROVE  MarkQueued(m, events) \in Manifest
  BY DEF MarkQueued, Manifest

LEMMA PinRefsType ==
    ASSUME NEW pool \in SUBSET Refs, NEW spec \in Manifest, NEW fallback \in Manifest
    PROVE  PinRefs(pool, spec, fallback) \in ScanSpec
  BY DEF PinRefs, ScanSpec, Manifest, IsLiveWatch

\* What the merge of two manifests keeps of each: the pool, what was seen,
\* and every mark of a queued event.
LEMMA MergePoolKeeps ==
    ASSUME NEW cand \in Manifest, NEW cur \in Manifest, cur.exists
    PROVE  LET m == MergePool(cand, cur) IN
           /\ m \in Manifest
           /\ m.exists
           /\ m.active = cand.active
           /\ m.refs = cand.refs \cup cur.refs
           /\ m.seen = cand.seen \cup cur.seen \cup m.refs
           /\ m.queued = (cand.queued \cup cur.queued) \cap m.seen
  <1> DEFINE pool  == cand.refs \cup cur.refs
             wider == ~ (cur.refs \subseteq cand.refs)
             repin == wider \/ IsLiveWatch(cand) \/ IsLiveWatch(cur)
             spec  == IF repin THEN PinRefs(pool, cand, cur)
                               ELSE [pinned |-> cand.pinned, watch |-> cand.watch]
  <1>1. pool \in SUBSET Refs
    BY DEF Manifest
  <1>2. PinRefs(pool, cand, cur) \in ScanSpec
    BY <1>1, PinRefsType
  <1>3. [pinned |-> cand.pinned, watch |-> cand.watch] \in ScanSpec
    BY DEF Manifest, ScanSpec
  <1>4. spec \in ScanSpec
    BY <1>2, <1>3
  <1>5. spec.pinned \in SUBSET Refs /\ spec.watch \in SUBSET Runs
    BY <1>4 DEF ScanSpec
  <1> HIDE DEF spec
  <1>6. MergePool(cand, cur) =
          [exists |-> TRUE, active |-> cand.active,
           refs   |-> pool,
           seen   |-> cand.seen \cup cur.seen \cup pool,
           queued |-> (cand.queued \cup cur.queued) \cap (cand.seen \cup cur.seen \cup pool),
           pinned |-> spec.pinned, watch |-> spec.watch,
           cont   |-> IF wider THEN cur.cont ELSE cand.cont]
    BY Zenon DEF MergePool, spec
  <1> QED
    BY <1>5, <1>6 DEF Manifest

LEMMA MergePoolType ==
    ASSUME NEW cand \in Manifest, NEW cur \in Manifest
    PROVE  MergePool(cand, cur) \in Manifest
  <1>1. CASE cur.exists
    BY <1>1, MergePoolKeeps
  <1>2. CASE ~ cur.exists
    BY <1>2 DEF MergePool
  <1> QED
    BY <1>1, <1>2

(***************************************************************************)
(* The types.                                                              *)
(***************************************************************************)
LEMMA NoCallType == NoCall \in Call
  BY NoManifestType DEF NoCall, Call

LEMMA LoadedType ==
    ASSUME ServiceTypeOK
    PROVE  Loaded \in Manifest
  BY RepairDefaultsType DEF Loaded, ServiceTypeOK

LEMMA RestoreType ==
    ASSUME ServiceTypeOK, Restore
    PROVE  manifest' \in Manifest /\ listed' \in BOOLEAN
  <1>1. Loaded \in Manifest
    BY LoadedType
  <1>2. Loaded.active \in BOOLEAN
    BY <1>1 DEF Manifest
  <1> QED
    BY <1>1, <1>2 DEF Restore, ServiceTypeOK

\* Beginning a call with a well-typed manifest to store.
LEMMA BeginType ==
    ASSUME ServiceTypeOK, NEW w \in Writers,
           NEW kind \in {"seed", "submit", "tick"}, NEW cand \in Manifest,
           NEW new \in SUBSET Refs, NEW asked \in SUBSET Refs, NEW spawn \in BOOLEAN,
           Begin(w, kind, cand, new, asked, spawn),
           requests' \in 0..MaxRequests, quiet' \subseteq Refs
    PROVE  ServiceTypeOK'
  <1>1. [kind |-> kind, cand |-> cand, base |-> NoManifest, todo |-> new,
         new |-> new, asked |-> asked, spawn |-> spawn] \in Call
    BY NoManifestType DEF Call
  <1>2. manifest' \in Manifest /\ listed' \in BOOLEAN
    BY RestoreType DEF Begin
  <1>3. pc' \in [Writers -> Steps] /\ call' \in [Writers -> Call]
    BY <1>1 DEF Begin, ServiceTypeOK, Steps
  <1> QED
    BY <1>2, <1>3 DEF Begin, ServiceTypeOK

LEMMA RequestedType ==
    ASSUME ServiceTypeOK, Requested
    PROVE  requests' \in 0..MaxRequests
  BY PayloadAssumption DEF ServiceTypeOK, Requested

LEMMA FaultType ==
    ASSUME ServiceTypeOK, NEW kind, Fault(kind)
    PROVE  faults' \in 0..MaxFaults /\ requests' = requests
  BY PayloadAssumption DEF ServiceTypeOK, Fault

LEMMA SeedType ==
    ASSUME ServiceTypeOK, NEW w \in Writers, NEW p \in SeedPayloads, Seed(w, p)
    PROVE  ServiceTypeOK'
  <1> DEFINE spec  == [pinned |-> p.pinned, watch |-> p.watch]
             found == Discover(spec, trained)
             cand  == FromDiscovery(spec, p.cont \/ IsLiveWatch(spec), found, Loaded, p.active)
  <1>1. /\ p.pinned \in SUBSET Refs /\ p.watch \in SUBSET Runs
        /\ p.cont \in BOOLEAN /\ p.active \in BOOLEAN /\ p.spawn \in BOOLEAN
    BY PayloadAssumption
  <1>2. spec \in ScanSpec
    BY <1>1 DEF ScanSpec
  <1>3. found \in SUBSET Refs
    BY <1>1, DiscoverType DEF ServiceTypeOK
  <1>4. cand \in Manifest
    <2>1. (p.cont \/ IsLiveWatch(spec)) \in BOOLEAN
      BY <1>1 DEF IsLiveWatch
    <2> HIDE DEF spec, found
    <2> QED
      BY <1>1, <1>2, <1>3, <2>1, LoadedType, FromDiscoveryType
  <1>5. /\ Begin(w, "seed", cand, IF p.enqueue THEN found ELSE {}, {}, p.spawn)
        /\ quiet' = IF p.enqueue THEN quiet ELSE quiet \cup (found \ Loaded.seen)
    BY DEF Seed
  <1>6. quiet' \subseteq Refs
    BY <1>3, <1>5 DEF ServiceTypeOK
  <1>7. requests' \in 0..MaxRequests
    BY RequestedType DEF Seed
  <1>8. (IF p.enqueue THEN found ELSE {}) \in SUBSET Refs
    BY <1>3
  <1> HIDE DEF cand, found
  <1> QED
    BY <1>1, <1>4, <1>5, <1>6, <1>7, <1>8, BeginType

LEMMA SubmitType ==
    ASSUME ServiceTypeOK, NEW w \in Writers, NEW p \in SubmitPayloads, Submit(w, p)
    PROVE  ServiceTypeOK'
  <1> DEFINE spec  == SubmitSpec(p)
             asked == Asked(p)
             cand  == FromDiscovery(spec, Loaded.cont, Loaded.refs \cup asked, Loaded, TRUE)
  <1>1. p.refs \in SUBSET Refs /\ p.watch \in SUBSET Runs
    BY PayloadAssumption
  <1>2. /\ Loaded \in Manifest
        /\ Loaded.refs \in SUBSET Refs /\ Loaded.seen \in SUBSET Refs
        /\ Loaded.pinned \in SUBSET Refs /\ Loaded.watch \in SUBSET Runs
        /\ Loaded.cont \in BOOLEAN
    BY LoadedType DEF Manifest
  <1>3. spec \in ScanSpec
    <2>1. PinRefs(Loaded.refs \cup p.refs, Loaded, Loaded) \in ScanSpec
      BY <1>1, <1>2, PinRefsType
    <2>2. [pinned |-> Loaded.pinned, watch |-> Loaded.watch \cup p.watch] \in ScanSpec
      BY <1>1, <1>2 DEF ScanSpec
    <2> QED
      BY <2>1, <2>2 DEF SubmitSpec
  <1>4. asked \in SUBSET Refs
    <2>1. CASE p.refs # {}
      BY <2>1, <1>1 DEF Asked
    <2>2. CASE p.refs = {}
      <3>1. Discover(SubmitSpec(p), trained) \in SUBSET Refs
        BY <2>2, <1>1, <1>2, DiscoverType DEF ServiceTypeOK, SubmitSpec
      <3> QED
        BY <2>2, <3>1 DEF Asked
    <2> QED
      BY <2>1, <2>2
  <1>5. /\ Begin(w, "submit", cand, asked \ Loaded.seen, asked, FALSE)
        /\ quiet' = quiet
    BY DEF Submit
  <1>6. requests' \in 0..MaxRequests
    BY RequestedType DEF Submit
  <1> HIDE DEF asked, spec
  <1>7. cand \in Manifest
    BY <1>2, <1>3, <1>4, FromDiscoveryType
  <1> HIDE DEF cand
  <1> QED
    BY <1>4, <1>5, <1>6, <1>7, BeginType DEF ServiceTypeOK

LEMMA RejectSubmitType ==
    ASSUME ServiceTypeOK, NEW w \in Writers, NEW p \in SubmitPayloads, RejectSubmit(w, p)
    PROVE  ServiceTypeOK'
  BY RestoreType DEF RejectSubmit, ServiceTypeOK, boundVars, historyVars

LEMMA TickType ==
    ASSUME ServiceTypeOK, NEW w \in Writers, Tick(w)
    PROVE  ServiceTypeOK'
  <1> DEFINE spec  == [pinned |-> Loaded.pinned, watch |-> Loaded.watch]
             found == Discover(spec, trained)
             cand  == FromDiscovery(spec, Loaded.cont, found, Loaded, Loaded.active)
  <1>1. /\ Loaded \in Manifest
        /\ Loaded.pinned \in SUBSET Refs /\ Loaded.watch \in SUBSET Runs
        /\ Loaded.cont \in BOOLEAN /\ Loaded.active \in BOOLEAN
    BY LoadedType DEF Manifest
  <1>2. spec \in ScanSpec
    BY <1>1 DEF ScanSpec
  <1>3. found \in SUBSET Refs
    BY <1>1, DiscoverType DEF ServiceTypeOK
  <1>4. /\ Begin(w, "tick", cand, found \ Loaded.seen, {}, FALSE)
        /\ quiet' = quiet /\ requests' = requests
    BY DEF Tick
  <1> HIDE DEF spec, found
  <1>5. cand \in Manifest
    BY <1>1, <1>2, <1>3, FromDiscoveryType
  <1> HIDE DEF cand
  <1> QED
    BY <1>3, <1>4, <1>5, BeginType DEF ServiceTypeOK

LEMMA CallType ==
    ASSUME ServiceTypeOK, NEW w \in Writers
    PROVE  /\ call[w] \in Call
           /\ call[w].cand \in Manifest /\ call[w].base \in Manifest
           /\ call[w].todo \in SUBSET Refs /\ call[w].new \in SUBSET Refs
           /\ call[w].asked \in SUBSET Refs
  BY DEF ServiceTypeOK, Call

\* The locals after the events are out, and after the put.
LEMMA MarkedType ==
    ASSUME NEW m \in Manifest, NEW new \in SUBSET Refs
    PROVE  RepairDefaults(MarkQueued(m, new)) \in Manifest
  BY MarkQueuedType, RepairDefaultsType

LEMMA MergedType ==
    ASSUME NEW cand \in Manifest, NEW cur \in Manifest
    PROVE  RepairDefaults(MergePool(cand, cur)) \in Manifest
  BY MergePoolType, RepairDefaultsType

LEMMA RatingRefsType ==
    ASSUME NEW m \in Manifest, NEW cont \in BOOLEAN
    PROVE  RatingRefs(m, cont) \in SUBSET Refs
  BY DEF RatingRefs, Manifest

LEMMA WriterStepType ==
    ASSUME ServiceTypeOK, NEW w \in Writers, WriterStep(w)
    PROVE  ServiceTypeOK'
  <1> USE DEF ServiceTypeOK, storeVars, boundVars, historyVars
  <1>1. CASE EnqueueEvent(w)
    <2>1. PICK ref \in call[w].todo :
             /\ queue' = queue \cup {ref}
             /\ announced' = announced \cup {ref}
             /\ call' = [call EXCEPT ![w].todo = @ \ {ref}]
      BY <1>1 DEF EnqueueEvent
    <2>2. ref \in Refs
      BY CallType
    <2>3. call' \in [Writers -> Call]
      BY <2>1, CallType DEF Call
    <2> QED
      BY <1>1, <2>1, <2>2, <2>3 DEF EnqueueEvent
  <1>2. CASE ReadCurrent(w)
    <2> DEFINE marked == RepairDefaults(MarkQueued(call[w].cand, call[w].new))
    <2>1. marked \in Manifest
      BY CallType, MarkedType
    <2>2. call' = [call EXCEPT ![w] = [@ EXCEPT !.cand = marked, !.base = manifest, !.new = {}]]
      BY <1>2 DEF ReadCurrent
    <2> HIDE DEF marked
    <2>3. call' \in [Writers -> Call]
      BY <2>1, <2>2, CallType DEF Call
    <2> QED
      BY <1>2, <2>3 DEF ReadCurrent, Steps
  <1>3. CASE PutManifest(w)
    <2> DEFINE merged == RepairDefaults(MergePool(call[w].cand, call[w].base))
    <2>1. merged \in Manifest
      BY CallType, MergedType
    <2>2. /\ manifest' = merged
          /\ call' = [call EXCEPT ![w] = [@ EXCEPT !.cand = merged, !.base = NoManifest]]
          /\ pc' = [pc EXCEPT ![w] = "index"]
          /\ UNCHANGED <<trained, listed, artifact, queue, loops, boundVars, historyVars>>
      BY <1>3 DEF PutManifest
    <2> HIDE DEF merged
    <2>3. call' \in [Writers -> Call]
      BY <2>1, <2>2, CallType, NoManifestType DEF Call
    <2> QED
      BY <2>1, <2>2, <2>3 DEF Steps
  <1>4. CASE PutActiveKeys(w)
    <2>1. call[w].cand.active \in BOOLEAN
      BY CallType DEF Manifest
    <2> QED
      BY <1>4, <2>1 DEF PutActiveKeys, Steps
  <1>5. CASE WriteArtifact(w)
    <2>1. artifact' \in Manifest /\ accepted' \subseteq Refs
      BY <1>5, CallType DEF WriteArtifact
    <2>2. pc' \in [Writers -> Steps] /\ call' \in [Writers -> Call]
      BY <1>5, NoCallType DEF WriteArtifact, Return, Steps
    <2> QED
      BY <1>5, <2>1, <2>2 DEF WriteArtifact
  <1>6. CASE SpawnRating(w)
    <2> DEFINE m == call[w].cand
    <2>1. m \in Manifest /\ m.cont \in BOOLEAN
      BY CallType DEF Manifest
    <2>2. RatingRefs(m, m.cont) \in SUBSET Refs
      BY <2>1, RatingRefsType
    <2>3. [by |-> w, refs |-> RatingRefs(m, m.cont), cont |-> m.cont] \in Loop
      BY <2>1, <2>2 DEF Loop
    <2>4. loops' \subseteq Loop
      BY <1>6, <2>3 DEF SpawnRating
    <2>5. pc' \in [Writers -> Steps] /\ call' \in [Writers -> Call]
      BY <1>6, NoCallType DEF SpawnRating, Return, Steps
    <2> QED
      BY <1>6, <2>4, <2>5 DEF SpawnRating
  <1> QED
    BY <1>1, <1>2, <1>3, <1>4, <1>5, <1>6 DEF WriterStep

LEMMA SurroundingsType ==
    ASSUME ServiceTypeOK,
           (\E w \in Writers : Crash(w)) \/ (\E r \in Runs : Train(r)) \/ ExpireQueue \/ EvictDict
    PROVE  ServiceTypeOK'
  <1> USE DEF ServiceTypeOK, storeVars, boundVars, historyVars
  <1>1. ASSUME NEW w \in Writers, Crash(w) PROVE ServiceTypeOK'
    <2>1. pc' \in [Writers -> Steps] /\ call' \in [Writers -> Call]
      BY <1>1, NoCallType DEF Crash, Return, Steps
    <2>2. faults' \in 0..MaxFaults /\ requests' = requests
      BY <1>1, FaultType DEF Crash
    <2> QED
      BY <1>1, <2>1, <2>2 DEF Crash
  <1>2. ASSUME NEW r \in Runs, Train(r) PROVE ServiceTypeOK'
    <2>1. trained' \in [Runs -> 0..MaxIter]
      BY <1>2, MaxIterAssumption DEF Train
    <2> QED
      BY <1>2, <2>1 DEF Train
  <1>3. CASE ExpireQueue
    BY <1>3, FaultType DEF ExpireQueue
  <1>4. CASE EvictDict
    BY <1>4, FaultType, NoManifestType DEF EvictDict
  <1> QED
    BY <1>1, <1>2, <1>3, <1>4

LEMMA TypeStep == ServiceTypeOK /\ [ServiceNext]_serviceVars => ServiceTypeOK'
  <1> SUFFICES ASSUME ServiceTypeOK, [ServiceNext]_serviceVars
               PROVE  ServiceTypeOK'
    OBVIOUS
  <1>1. ASSUME NEW w \in Writers, WriterNext(w) PROVE ServiceTypeOK'
    BY <1>1, SeedType, SubmitType, RejectSubmitType, TickType, WriterStepType,
       SurroundingsType DEF WriterNext
  <1>2. CASE UNCHANGED serviceVars
    BY <1>2 DEF ServiceTypeOK, serviceVars, storeVars, boundVars, historyVars
  <1> QED
    BY <1>1, <1>2, SurroundingsType DEF ServiceNext

LEMMA TypeInit == ServiceInit => ServiceTypeOK
  <1> SUFFICES ASSUME ServiceInit PROVE ServiceTypeOK
    OBVIOUS
  <1>1. trained \in [Runs -> 0..MaxIter]
    BY MaxIterAssumption DEF ServiceInit
  <1>2. manifest \in Manifest /\ artifact \in Manifest
    BY NoManifestType DEF ServiceInit
  <1>3. pc \in [Writers -> Steps] /\ call \in [Writers -> Call]
    BY NoCallType DEF ServiceInit, Steps
  <1>4. requests \in 0..MaxRequests /\ faults \in 0..MaxFaults
    BY PayloadAssumption DEF ServiceInit
  <1> QED
    BY <1>1, <1>2, <1>3, <1>4 DEF ServiceInit, ServiceTypeOK

\* The variables of the service keep their types: in particular every manifest
\* that is merged, restored or written names known checkpoints only.
THEOREM ServiceTypeCorrect == ServiceSpec => []ServiceTypeOK
  BY TypeInit, TypeStep, PTL DEF ServiceSpec

(***************************************************************************)
(* Recoverability.  The manifests in the stores are recoverable because    *)
(* every manifest a call carries already is: a reference is seen only if   *)
(* it is exempt, marked as queued, or about to be marked by this call; and *)
(* what the call will mark has had its event put, or is still to get it    *)
(* before the marking.                                                     *)
(***************************************************************************)
InFlight(c, exempt, put) ==
    /\ Recoverable(c.base, exempt, put)
    /\ c.cand.refs \subseteq c.cand.seen
    /\ c.cand.queued \subseteq put \cap c.cand.seen
    /\ c.cand.seen \ exempt \subseteq c.cand.queued \cup c.new
    /\ c.new \subseteq c.cand.seen
    /\ c.new \subseteq put \cup c.todo

IntakeInv ==
    /\ ServiceTypeOK
    /\ SeenIsRecoverable
    /\ \A w \in Writers :
          /\ InFlight(call[w], quiet, announced)
          /\ pc[w] # "enqueue" => call[w].new = {}

\* Putting more events and exempting more references only weakens the claims.
LEMMA RecoverableGrows ==
    ASSUME NEW m, NEW q1, NEW q2, NEW a1, NEW a2,
           q1 \subseteq q2, a1 \subseteq a2, Recoverable(m, q1, a1)
    PROVE  Recoverable(m, q2, a2)
  BY DEF Recoverable

LEMMA InFlightGrows ==
    ASSUME NEW c, NEW q1, NEW q2, NEW a1, NEW a2,
           q1 \subseteq q2, a1 \subseteq a2, InFlight(c, q1, a1)
    PROVE  InFlight(c, q2, a2)
  BY DEF InFlight, Recoverable

LEMMA NothingRecoverable ==
    ASSUME NEW q, NEW a
    PROVE  Recoverable(NoManifest, q, a)
  BY DEF Recoverable, NoManifest

LEMMA RepairedRecoverable ==
    ASSUME NEW m \in Manifest, NEW q, NEW a, Recoverable(m, q, a)
    PROVE  Recoverable(RepairDefaults(m), q, a)
  BY RepairDefaultsType DEF Recoverable

\* Merging recoverable manifests gives a recoverable manifest.
LEMMA MergedRecoverable ==
    ASSUME NEW cand \in Manifest, NEW cur \in Manifest, NEW q, NEW a,
           Recoverable(cand, q, a), Recoverable(cur, q, a)
    PROVE  Recoverable(MergePool(cand, cur), q, a)
  <1>1. CASE cur.exists
    BY <1>1, MergePoolKeeps DEF Recoverable
  <1>2. CASE ~ cur.exists
    BY <1>2 DEF MergePool
  <1> QED
    BY <1>1, <1>2

LEMMA LoadedRecoverable ==
    ASSUME ServiceTypeOK, SeenIsRecoverable
    PROVE  Recoverable(Loaded, quiet, announced)
  BY RepairedRecoverable DEF Loaded, SeenIsRecoverable, ServiceTypeOK

LEMMA RestoreRecoverable ==
    ASSUME ServiceTypeOK, SeenIsRecoverable, Restore, artifact' = artifact
    PROVE  \A m \in {manifest', artifact'} : Recoverable(m, quiet, announced)
  BY LoadedRecoverable DEF Restore, SeenIsRecoverable

\* The marking of a call makes what it carries recoverable.
LEMMA MarkedRecoverable ==
    ASSUME NEW c \in Call, NEW q, NEW a, InFlight(c, q, a), c.todo = {}
    PROVE  Recoverable(RepairDefaults(MarkQueued(c.cand, c.new)), q, a)
  <1>1. c.cand \in Manifest /\ c.new \in SUBSET Refs
    BY DEF Call
  <1>2. MarkQueued(c.cand, c.new) \in Manifest
    BY <1>1, MarkQueuedType
  <1>3. /\ MarkQueued(c.cand, c.new).refs = c.cand.refs
        /\ MarkQueued(c.cand, c.new).seen = c.cand.seen
        /\ MarkQueued(c.cand, c.new).queued =
             IF c.cand.seen = {} THEN c.cand.queued \cup c.new
                                 ELSE (c.cand.queued \cup c.new) \cap c.cand.seen
    BY <1>1 DEF MarkQueued, Manifest
  <1>4. Recoverable(MarkQueued(c.cand, c.new), q, a)
    BY <1>3 DEF Recoverable, InFlight
  <1> QED
    BY <1>2, <1>4, RepairedRecoverable

\* A call that begins with all it newly saw either to be put or exempt.
LEMMA BeginRecoverable ==
    ASSUME IntakeInv, NEW w \in Writers, NEW kind, NEW cand, NEW new, NEW asked, NEW spawn,
           Begin(w, kind, cand, new, asked, spawn),
           quiet \subseteq quiet',
           cand.refs \subseteq cand.seen,
           cand.queued \subseteq announced \cap cand.seen,
           cand.seen \ quiet' \subseteq cand.queued \cup new,
           new \subseteq cand.seen,
           ServiceTypeOK'
    PROVE  IntakeInv'
  <1> DEFINE c == [kind |-> kind, cand |-> cand, base |-> NoManifest, todo |-> new,
                   new |-> new, asked |-> asked, spawn |-> spawn]
  <1>1. /\ call' = [call EXCEPT ![w] = c] /\ pc' = [pc EXCEPT ![w] = "enqueue"]
        /\ announced' = announced /\ artifact' = artifact /\ Restore
    BY DEF Begin
  <1>2. InFlight(c, quiet', announced')
    BY <1>1, NothingRecoverable DEF InFlight
  <1> HIDE DEF c
  <1>3. SeenIsRecoverable'
    <2>1. \A m \in {manifest', artifact'} : Recoverable(m, quiet, announced)
      BY <1>1, RestoreRecoverable DEF IntakeInv
    <2> QED
      BY <1>1, <2>1, RecoverableGrows DEF SeenIsRecoverable
  <1>4. ASSUME NEW v \in Writers
        PROVE  /\ InFlight(call'[v], quiet', announced')
               /\ pc'[v] # "enqueue" => call'[v].new = {}
    <2>1. CASE v = w
      BY <1>1, <1>2, <2>1 DEF IntakeInv, ServiceTypeOK
    <2>2. CASE v # w
      <3>1. call'[v] = call[v] /\ pc'[v] = pc[v]
        BY <1>1, <2>2 DEF IntakeInv, ServiceTypeOK
      <3> QED
        BY <1>1, <3>1, InFlightGrows DEF IntakeInv
    <2> QED
      BY <2>1, <2>2
  <1> QED
    BY <1>3, <1>4 DEF IntakeInv

\* What a discovery over a recoverable manifest carries.
LEMMA DiscoveryRecoverable ==
    ASSUME NEW spec, NEW cont, NEW found, NEW existing, NEW active, NEW q, NEW a,
           Recoverable(existing, q, a)
    PROVE  LET cand == FromDiscovery(spec, cont, found, existing, active) IN
           /\ cand.refs = found
           /\ cand.seen = existing.seen \cup found
           /\ cand.queued = existing.queued
           /\ cand.queued \subseteq a \cap cand.seen
           /\ cand.seen \ q \subseteq cand.queued \cup found
  BY DEF FromDiscovery, Recoverable

LEMMA SeedRecoverable ==
    ASSUME IntakeInv, NEW w \in Writers, NEW p \in SeedPayloads, Seed(w, p), ServiceTypeOK'
    PROVE  IntakeInv'
  <1> DEFINE spec  == [pinned |-> p.pinned, watch |-> p.watch]
             found == Discover(spec, trained)
             cand  == FromDiscovery(spec, p.cont \/ IsLiveWatch(spec), found, Loaded, p.active)
  <1>1. /\ Begin(w, "seed", cand, IF p.enqueue THEN found ELSE {}, {}, p.spawn)
        /\ quiet' = IF p.enqueue THEN quiet ELSE quiet \cup (found \ Loaded.seen)
    BY DEF Seed
  <1>2. Recoverable(Loaded, quiet, announced)
    BY LoadedRecoverable DEF IntakeInv
  <1> HIDE DEF spec, found
  <1>3. /\ cand.refs = found
        /\ cand.seen = Loaded.seen \cup found
        /\ cand.queued = Loaded.queued
        /\ cand.queued \subseteq announced \cap cand.seen
    BY <1>2, DiscoveryRecoverable
  <1>4. Loaded.seen \ quiet \subseteq Loaded.queued
    BY <1>2 DEF Recoverable
  <1> HIDE DEF cand
  <1>5. /\ quiet \subseteq quiet'
        /\ cand.seen \ quiet' \subseteq cand.queued \cup (IF p.enqueue THEN found ELSE {})
        /\ (IF p.enqueue THEN found ELSE {}) \subseteq cand.seen
    BY <1>1, <1>3, <1>4
  <1> QED
    BY <1>1, <1>3, <1>5, BeginRecoverable

LEMMA SubmitRecoverable ==
    ASSUME IntakeInv, NEW w \in Writers, NEW p \in SubmitPayloads, Submit(w, p), ServiceTypeOK'
    PROVE  IntakeInv'
  <1> DEFINE spec  == SubmitSpec(p)
             asked == Asked(p)
             found == Loaded.refs \cup asked
             cand  == FromDiscovery(spec, Loaded.cont, found, Loaded, TRUE)
  <1>1. /\ Begin(w, "submit", cand, asked \ Loaded.seen, asked, FALSE)
        /\ quiet' = quiet
    BY DEF Submit
  <1>2. Recoverable(Loaded, quiet, announced)
    BY LoadedRecoverable DEF IntakeInv
  <1> HIDE DEF spec, asked, found
  <1>3. /\ cand.refs = found
        /\ cand.seen = Loaded.seen \cup found
        /\ cand.queued = Loaded.queued
        /\ cand.queued \subseteq announced \cap cand.seen
    BY <1>2 DEF FromDiscovery, Recoverable
  <1>4. Loaded.refs \subseteq Loaded.seen /\ Loaded.seen \ quiet \subseteq Loaded.queued
    BY <1>2 DEF Recoverable
  <1> HIDE DEF cand
  <1>5. /\ cand.seen \ quiet' \subseteq cand.queued \cup (asked \ Loaded.seen)
        /\ asked \ Loaded.seen \subseteq cand.seen
    BY <1>1, <1>3, <1>4 DEF found
  <1> QED
    BY <1>1, <1>3, <1>5, BeginRecoverable

LEMMA RejectSubmitRecoverable ==
    ASSUME IntakeInv, NEW w \in Writers, NEW p \in SubmitPayloads, RejectSubmit(w, p),
           ServiceTypeOK'
    PROVE  IntakeInv'
  <1>1. UNCHANGED <<pc, call, artifact, quiet, announced>> /\ Restore
    BY DEF RejectSubmit, historyVars
  <1>2. SeenIsRecoverable'
    BY <1>1, RestoreRecoverable DEF IntakeInv, SeenIsRecoverable
  <1> QED
    BY <1>1, <1>2 DEF IntakeInv

LEMMA TickRecoverable ==
    ASSUME IntakeInv, NEW w \in Writers, Tick(w), ServiceTypeOK'
    PROVE  IntakeInv'
  <1> DEFINE spec  == [pinned |-> Loaded.pinned, watch |-> Loaded.watch]
             found == Discover(spec, trained)
             cand  == FromDiscovery(spec, Loaded.cont, found, Loaded, Loaded.active)
  <1>1. /\ Begin(w, "tick", cand, found \ Loaded.seen, {}, FALSE)
        /\ quiet' = quiet
    BY DEF Tick
  <1>2. Recoverable(Loaded, quiet, announced)
    BY LoadedRecoverable DEF IntakeInv
  <1> HIDE DEF spec, found
  <1>3. /\ cand.refs = found
        /\ cand.seen = Loaded.seen \cup found
        /\ cand.queued = Loaded.queued
        /\ cand.queued \subseteq announced \cap cand.seen
    BY <1>2, DiscoveryRecoverable
  <1>4. Loaded.seen \ quiet \subseteq Loaded.queued
    BY <1>2 DEF Recoverable
  <1> HIDE DEF cand
  <1>5. /\ cand.seen \ quiet' \subseteq cand.queued \cup (found \ Loaded.seen)
        /\ found \ Loaded.seen \subseteq cand.seen
    BY <1>1, <1>3, <1>4
  <1> QED
    BY <1>1, <1>3, <1>5, BeginRecoverable

\* A step of one call that carries on with locals c, and puts into the stores
\* only what is recoverable.
LEMMA StepRecoverable ==
    ASSUME IntakeInv, ServiceTypeOK', NEW w \in Writers, NEW c, NEW step,
           call' = [call EXCEPT ![w] = c],
           pc' = [pc EXCEPT ![w] = step],
           quiet' = quiet, announced \subseteq announced',
           InFlight(c, quiet, announced'),
           step # "enqueue" => c.new = {},
           Recoverable(manifest', quiet, announced'),
           Recoverable(artifact', quiet, announced')
    PROVE  IntakeInv'
  <1>1. ASSUME NEW v \in Writers
        PROVE  /\ InFlight(call'[v], quiet', announced')
               /\ pc'[v] # "enqueue" => call'[v].new = {}
    <2>1. CASE v = w
      BY <2>1 DEF IntakeInv, ServiceTypeOK
    <2>2. CASE v # w
      <3>1. call'[v] = call[v] /\ pc'[v] = pc[v]
        BY <2>2 DEF IntakeInv, ServiceTypeOK
      <3> QED
        BY <3>1, InFlightGrows DEF IntakeInv
    <2> QED
      BY <2>1, <2>2
  <1>2. SeenIsRecoverable'
    BY DEF SeenIsRecoverable
  <1> QED
    BY <1>1, <1>2 DEF IntakeInv

LEMMA WriterStepRecoverable ==
    ASSUME IntakeInv, NEW w \in Writers, WriterStep(w), ServiceTypeOK'
    PROVE  IntakeInv'
  <1> DEFINE c == call[w]
  <1>1. /\ c \in Call /\ InFlight(c, quiet, announced)
        /\ pc[w] # "enqueue" => c.new = {}
    BY CallType DEF IntakeInv
  <1>2. /\ Recoverable(manifest, quiet, announced)
        /\ Recoverable(artifact, quiet, announced)
    BY DEF IntakeInv, SeenIsRecoverable
  <1>3. InFlight(NoCall, quiet, announced) /\ NoCall.new = {}
    BY NothingRecoverable DEF InFlight, NoCall, NoManifest
  <1>4. CASE EnqueueEvent(w)
    <2>1. PICK ref \in c.todo :
             /\ announced' = announced \cup {ref}
             /\ call' = [call EXCEPT ![w].todo = @ \ {ref}]
      BY <1>4 DEF EnqueueEvent
    <2> DEFINE d == [c EXCEPT !.todo = @ \ {ref}]
    <2>2. /\ d.base = c.base /\ d.cand = c.cand /\ d.new = c.new
          /\ d.todo = c.todo \ {ref}
      BY <1>1 DEF Call
    <2>3. InFlight(d, quiet, announced')
      <3>1. InFlight(c, quiet, announced')
        BY <1>1, <2>1, InFlightGrows
      <3> QED
        BY <2>1, <2>2, <3>1 DEF InFlight
    <2>4. call' = [call EXCEPT ![w] = d] /\ pc' = [pc EXCEPT ![w] = "enqueue"]
      BY <1>4, <2>1 DEF EnqueueEvent, IntakeInv, ServiceTypeOK
    <2>5. UNCHANGED <<manifest, artifact, quiet>>
      BY <1>4 DEF EnqueueEvent
    <2>6. /\ Recoverable(manifest', quiet, announced')
          /\ Recoverable(artifact', quiet, announced')
      BY <1>2, <2>1, <2>5, RecoverableGrows
    <2> HIDE DEF d
    <2> QED
      BY <2>1, <2>3, <2>4, <2>5, <2>6, StepRecoverable
  <1>5. CASE ReadCurrent(w)
    <2> DEFINE marked == RepairDefaults(MarkQueued(c.cand, c.new))
               d      == [c EXCEPT !.cand = marked, !.base = manifest, !.new = {}]
    <2>1. Recoverable(marked, quiet, announced)
      BY <1>1, <1>5, MarkedRecoverable DEF ReadCurrent
    <2>2. /\ call' = [call EXCEPT ![w] = d]
          /\ pc' = [pc EXCEPT ![w] = "merge"]
          /\ UNCHANGED <<manifest, artifact, quiet, announced>>
      BY <1>5 DEF ReadCurrent, storeVars, historyVars
    <2> HIDE DEF marked
    <2>3. d.base = manifest /\ d.cand = marked /\ d.new = {}
      BY <1>1 DEF Call
    <2> HIDE DEF d
    <2>4. InFlight(d, quiet, announced)
      BY <1>2, <2>1, <2>3 DEF InFlight, Recoverable
    <2> QED
      BY <1>2, <2>2, <2>3, <2>4, StepRecoverable
  <1>6. CASE PutManifest(w)
    <2> DEFINE merged == RepairDefaults(MergePool(c.cand, c.base))
               d      == [c EXCEPT !.cand = merged, !.base = NoManifest]
    <2>1. /\ manifest' = merged
          /\ call' = [call EXCEPT ![w] = d]
          /\ pc' = [pc EXCEPT ![w] = "index"]
          /\ UNCHANGED <<artifact, quiet, announced>>
      BY <1>6 DEF PutManifest, historyVars
    <2>2. Recoverable(c.cand, quiet, announced) /\ Recoverable(c.base, quiet, announced)
      BY <1>1, <1>6 DEF PutManifest, InFlight, Recoverable
    <2>3. Recoverable(merged, quiet, announced)
      BY <2>2, CallType, MergePoolType, MergedRecoverable, RepairedRecoverable DEF IntakeInv
    <2> HIDE DEF merged
    <2>4. d.base = NoManifest /\ d.cand = merged /\ d.new = {}
      BY <1>1, <1>6 DEF Call, PutManifest
    <2> HIDE DEF d
    <2>5. InFlight(d, quiet, announced)
      BY <2>3, <2>4, NothingRecoverable DEF InFlight, Recoverable
    <2> QED
      BY <1>2, <2>1, <2>3, <2>4, <2>5, StepRecoverable
  <1>7. CASE PutActiveKeys(w)
    <2>1. /\ call' = [call EXCEPT ![w] = c] /\ pc' = [pc EXCEPT ![w] = "artifact"]
          /\ UNCHANGED <<manifest, artifact, quiet, announced>>
      BY <1>7 DEF PutActiveKeys, historyVars, IntakeInv, ServiceTypeOK
    <2>2. c.new = {}
      BY <1>1, <1>7 DEF PutActiveKeys
    <2> QED
      BY <1>1, <1>2, <2>1, <2>2, StepRecoverable
  <1>8. CASE WriteArtifact(w)
    <2>1. c.new = {}
      BY <1>1, <1>8 DEF WriteArtifact
    <2>2. Recoverable(c.cand, quiet, announced)
      BY <1>1, <2>1 DEF InFlight, Recoverable
    <2>3. /\ artifact' \in {artifact, c.cand}
          /\ UNCHANGED <<manifest, quiet, announced>>
      BY <1>8 DEF WriteArtifact
    <2>4. /\ Recoverable(manifest', quiet, announced')
          /\ Recoverable(artifact', quiet, announced')
      BY <1>2, <2>2, <2>3
    <2>5. CASE pc' = [pc EXCEPT ![w] = "spawn"] /\ call' = call
      <3>1. call' = [call EXCEPT ![w] = c]
        BY <2>5 DEF IntakeInv, ServiceTypeOK
      <3> QED
        BY <1>1, <2>1, <2>3, <2>4, <2>5, <3>1, StepRecoverable
    <2>6. CASE Return(w)
      BY <1>3, <2>3, <2>4, <2>6, StepRecoverable DEF Return
    <2> QED
      BY <1>8, <2>5, <2>6 DEF WriteArtifact
  <1>9. CASE SpawnRating(w)
    <2>1. Return(w) /\ UNCHANGED <<manifest, artifact, quiet, announced>>
      BY <1>9 DEF SpawnRating, historyVars
    <2> QED
      BY <1>2, <1>3, <2>1, StepRecoverable DEF Return
  <1> QED
    BY <1>4, <1>5, <1>6, <1>7, <1>8, <1>9 DEF WriterStep

LEMMA SurroundingsRecoverable ==
    ASSUME IntakeInv, ServiceTypeOK',
           (\E w \in Writers : Crash(w)) \/ (\E r \in Runs : Train(r)) \/ ExpireQueue \/ EvictDict
    PROVE  IntakeInv'
  <1>1. /\ Recoverable(manifest, quiet, announced)
        /\ Recoverable(artifact, quiet, announced)
    BY DEF IntakeInv, SeenIsRecoverable
  <1>2. ASSUME NEW w \in Writers, Crash(w) PROVE IntakeInv'
    <2>1. InFlight(NoCall, quiet, announced) /\ NoCall.new = {}
      BY NothingRecoverable DEF InFlight, NoCall, NoManifest
    <2>2. Return(w) /\ UNCHANGED <<manifest, artifact, quiet, announced>>
      BY <1>2 DEF Crash, storeVars, historyVars
    <2> QED
      BY <1>1, <2>1, <2>2, StepRecoverable DEF Return
  <1>3. ASSUME UNCHANGED <<pc, call, quiet, announced, artifact>>,
               manifest' \in {manifest, NoManifest}
        PROVE  IntakeInv'
    <2>1. SeenIsRecoverable'
      BY <1>1, <1>3, NothingRecoverable DEF SeenIsRecoverable
    <2> QED
      BY <1>3, <2>1 DEF IntakeInv
  <1>4. ASSUME NEW r \in Runs, Train(r) PROVE IntakeInv'
    BY <1>3, <1>4 DEF Train, storeVars, historyVars
  <1>5. CASE ExpireQueue
    BY <1>3, <1>5 DEF ExpireQueue, historyVars
  <1>6. CASE EvictDict
    BY <1>3, <1>6 DEF EvictDict, historyVars
  <1> QED
    BY <1>2, <1>4, <1>5, <1>6

LEMMA IntakeInvStep == IntakeInv /\ [ServiceNext]_serviceVars => IntakeInv'
  <1> SUFFICES ASSUME IntakeInv, [ServiceNext]_serviceVars
               PROVE  IntakeInv'
    OBVIOUS
  <1>1. ServiceTypeOK'
    BY TypeStep DEF IntakeInv
  <1>2. ASSUME NEW w \in Writers, WriterNext(w) PROVE IntakeInv'
    BY <1>1, <1>2, SeedRecoverable, SubmitRecoverable, RejectSubmitRecoverable,
       TickRecoverable, WriterStepRecoverable, SurroundingsRecoverable DEF WriterNext
  <1>3. CASE UNCHANGED serviceVars
    <2>1. UNCHANGED <<manifest, artifact, pc, call, quiet, announced>>
      BY <1>3 DEF serviceVars, storeVars, historyVars
    <2>2. SeenIsRecoverable'
      BY <2>1 DEF IntakeInv, SeenIsRecoverable
    <2> QED
      BY <1>1, <2>1, <2>2 DEF IntakeInv
  <1> QED
    BY <1>1, <1>2, <1>3, SurroundingsRecoverable DEF ServiceNext

LEMMA IntakeInvInit == ServiceInit => IntakeInv
  <1> SUFFICES ASSUME ServiceInit PROVE IntakeInv
    OBVIOUS
  <1>1. SeenIsRecoverable
    BY NothingRecoverable DEF ServiceInit, SeenIsRecoverable
  <1>2. InFlight(NoCall, quiet, announced) /\ NoCall.new = {}
    BY NothingRecoverable DEF InFlight, NoCall, NoManifest
  <1> QED
    BY <1>1, <1>2, TypeInit DEF ServiceInit, IntakeInv

\* Enqueue durability, for any number of concurrent seeds, submissions and
\* ticks, any interleaving of their store operations, and any crashes, queue
\* expiries and Dict evictions.
THEOREM SeenStaysRecoverable == ServiceSpec => []SeenIsRecoverable
  <1>1. IntakeInv => SeenIsRecoverable
    BY DEF IntakeInv
  <1> QED
    BY <1>1, IntakeInvInit, IntakeInvStep, PTL DEF ServiceSpec
==============================================================================
