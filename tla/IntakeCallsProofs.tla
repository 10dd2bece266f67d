-------------------------- MODULE IntakeCallsProofs --------------------------
(***************************************************************************)
(* Proofs about intake calls that run one at a time, whatever crashes,     *)
(* expires or is evicted between their steps: what a call has read is      *)
(* still so when it stores, or is gone from the Dict.                      *)
(***************************************************************************)
EXTENDS IntakeCalls, IntakeServiceProofs, FiniteSetTheorems

(***************************************************************************)
(* What a store without an entry holds, and what a call means to store:    *)
(* however calls overlap.                                                  *)
(***************************************************************************)
StoresInv ==
    /\ ~ manifest.exists => manifest = NoManifest
    /\ ~ artifact.exists => artifact = NoManifest
    /\ \A w \in Writers : pc[w] # "idle" => call[w].cand.exists

(***************************************************************************)
(* One call at a time.  Until it stores its manifest, what it means to     *)
(* store covers the artifact, and the manifest it read is the one in the   *)
(* Dict; from then on what it stored is, unless the entry has been lost.   *)
(***************************************************************************)
OneBusy == \A w, v \in Busy : w = v

ArtifactBehind == manifest.exists => artifact.seen \subseteq manifest.seen

ToStore(w) ==
    pc[w] \in {"enqueue", "merge"} =>
       /\ artifact.seen \subseteq call[w].cand.seen
       /\ manifest.exists =>
             /\ call[w].kind # "seed" /\ call[w].cand.active => manifest.active
             /\ pc[w] = "merge" => call[w].base = manifest

Stored(w) == pc[w] \in {"index", "artifact"} /\ manifest.exists => call[w].cand = manifest

OneCallInv == OneBusy /\ ArtifactBehind /\ \A w \in Writers : ToStore(w) /\ Stored(w)

CallsInv == ServiceTypeOK /\ StoresInv /\ (alone => OneCallInv)

\* What a step does to the manifest when calls run one at a time.
Grows == manifest'.exists => manifest.refs \subseteq manifest'.refs
                             /\ manifest.seen \subseteq manifest'.seen
Sticks == manifest.exists /\ ~ manifest.active /\ manifest'.active
             => \E w \in Writers : pc[w] = "merge" /\ call[w].kind = "seed"

Result == StoresInv' /\ (alone => OneCallInv' /\ Grows /\ Sticks)

(***************************************************************************)
(* Who is busy.                                                            *)
(***************************************************************************)
\* The guard of CallsNext keeps all but one call idle.
LEMMA OneIsBusy == ASSUME alone, CallsNext PROVE OneBusy'
<1>1. Cardinality(Busy') <= 1 BY DEF CallsNext
<1>2. IsFiniteSet(Busy')
  <2>1. Busy' \subseteq Writers BY DEF Busy
  <2> QED BY <2>1, CallsAssumption, FS_Subset
<1>3. Busy' = {} \/ \E w : Busy' = {w}
  <2> DEFINE B == Busy'
  <2>1. IsFiniteSet(B) /\ Cardinality(B) <= 1 BY <1>1, <1>2
  <2> HIDE DEF B
  <2>2. Cardinality(B) \in Nat BY <2>1, FS_CardinalityType
  <2>3. Cardinality(B) = 0 \/ Cardinality(B) = 1 BY <2>1, <2>2
  <2>4. B = {} \/ \E w : B = {w} BY <2>1, <2>3, FS_EmptySet, FS_Singleton
  <2> QED BY <2>4 DEF B
<1> QED BY <1>3 DEF OneBusy

\* A call that is busy is the only one, and what it has is all there is to keep.
LEMMA BusyAlone ==
    ASSUME OneCallInv, NEW w \in Writers, pc[w] # "idle",
           \A v \in Writers \ {w} : pc'[v] = pc[v],
           ArtifactBehind', ToStore(w)', Stored(w)'
    PROVE  OneCallInv'
<1>1. \A v \in Writers \ {w} : pc'[v] = "idle" BY DEF OneCallInv, OneBusy, Busy
<1>2. OneBusy' BY <1>1 DEF OneBusy, Busy
<1>3. \A v \in Writers : ToStore(v)' /\ Stored(v)'
  <2>1. \A v \in Writers \ {w} : ToStore(v)' /\ Stored(v)' BY <1>1 DEF ToStore, Stored
  <2> QED BY <2>1
<1> QED BY <1>2, <1>3 DEF OneCallInv

(***************************************************************************)
(* Loading.                                                                *)
(***************************************************************************)
LEMMA RestoreFacts ==
    ASSUME ServiceTypeOK, StoresInv, Restore
    PROVE  /\ manifest.exists => manifest' = manifest
           /\ manifest'.exists => manifest' = Loaded
           /\ ~ manifest'.exists => manifest' = NoManifest
           /\ ArtifactBehind => artifact.seen \subseteq Loaded.seen
           /\ Grows
<1>1. manifest \in Manifest /\ artifact \in Manifest BY DEF ServiceTypeOK
<1>2. CASE manifest.exists
  BY <1>2 DEF Restore, Loaded, ArtifactBehind, Grows
<1>3. CASE ~ manifest.exists
  <2>1. manifest = NoManifest /\ manifest.refs = {} /\ manifest.seen = {}
    BY <1>3 DEF StoresInv, NoManifest
  <2>2. /\ Loaded = RepairDefaults(artifact) /\ Loaded.seen = artifact.seen
        /\ Loaded.exists = artifact.exists
    BY <1>1, <1>3, RepairDefaultsType DEF Loaded
  <2>3. CASE artifact.exists
    BY <1>3, <2>1, <2>2, <2>3 DEF Restore, Grows
  <2>4. CASE ~ artifact.exists
    BY <1>3, <2>1, <2>2, <2>4 DEF Restore, Grows
  <2> QED BY <2>3, <2>4
<1> QED BY <1>2, <1>3

(***************************************************************************)
(* The calls begin.                                                        *)
(***************************************************************************)
LEMMA BeginKeeps ==
    ASSUME CallsInv, NEW w \in Writers, NEW kind, NEW cand, NEW new, NEW asked, NEW spawn,
           Begin(w, kind, cand, new, asked, spawn), alone => OneBusy',
           cand.exists, Loaded.seen \subseteq cand.seen,
           kind # "seed" /\ cand.active => Loaded.active
    PROVE  Result
<1> DEFINE c == [kind |-> kind, cand |-> cand, base |-> NoManifest,
                 todo |-> new, new |-> new, asked |-> asked, spawn |-> spawn]
<1>1. /\ pc' = [pc EXCEPT ![w] = "enqueue"] /\ call' = [call EXCEPT ![w] = c]
      /\ artifact' = artifact /\ Restore
  BY DEF Begin
<1>2. c.kind = kind /\ c.cand = cand OBVIOUS
<1> HIDE DEF c
<1>3. /\ pc'[w] = "enqueue" /\ call'[w] = c
      /\ \A v \in Writers \ {w} : pc'[v] = pc[v] /\ call'[v] = call[v]
  BY <1>1 DEF CallsInv, ServiceTypeOK
<1>4. /\ manifest.exists => manifest' = manifest
      /\ manifest'.exists => manifest' = Loaded
      /\ ~ manifest'.exists => manifest' = NoManifest
      /\ ArtifactBehind => artifact.seen \subseteq Loaded.seen
      /\ Grows
  BY <1>1, RestoreFacts DEF CallsInv
<1>5. StoresInv' BY <1>1, <1>2, <1>3, <1>4 DEF CallsInv, StoresInv
<1>6. ASSUME alone PROVE OneCallInv' /\ Sticks
  <2>1. ArtifactBehind' BY <1>1, <1>4, <1>6 DEF CallsInv, OneCallInv, ArtifactBehind
  <2>2. \A v \in Writers : ToStore(v)' /\ Stored(v)'
    <3>1. \A v \in Writers \ {w} : pc'[v] = "idle" BY <1>3, <1>6 DEF OneBusy, Busy
    <3>2. \A v \in Writers \ {w} : ToStore(v)' /\ Stored(v)' BY <3>1 DEF ToStore, Stored
    <3>3. ToStore(w)' /\ Stored(w)'
      BY <1>1, <1>2, <1>3, <1>4, <1>6 DEF ToStore, Stored, CallsInv, OneCallInv
    <3> QED BY <3>2, <3>3
  <2>3. Sticks BY <1>4 DEF Sticks
  <2> QED BY <1>6, <2>1, <2>2, <2>3 DEF OneCallInv
<1> QED BY <1>4, <1>5, <1>6 DEF Result

LEMMA DiscoveryKeeps ==
    ASSUME NEW spec, NEW cont, NEW found, NEW existing, NEW active
    PROVE  LET cand == FromDiscovery(spec, cont, found, existing, active) IN
           cand.exists /\ existing.seen \subseteq cand.seen /\ cand.active = active
  BY DEF FromDiscovery

LEMMA SeedKeeps ==
    ASSUME CallsInv, NEW w \in Writers, NEW p \in SeedPayloads, Seed(w, p), alone => OneBusy'
    PROVE  Result
<1> DEFINE spec  == [pinned |-> p.pinned, watch |-> p.watch]
           found == Discover(spec, trained)
           cand  == FromDiscovery(spec, p.cont \/ IsLiveWatch(spec), found, Loaded, p.active)
<1>1. Begin(w, "seed", cand, IF p.enqueue THEN found ELSE {}, {}, p.spawn) BY DEF Seed
<1>2. cand.exists /\ Loaded.seen \subseteq cand.seen BY DiscoveryKeeps
<1> HIDE DEF cand
<1> QED BY <1>1, <1>2, BeginKeeps

LEMMA SubmitKeeps ==
    ASSUME CallsInv, NEW w \in Writers, NEW p \in SubmitPayloads, Submit(w, p), alone => OneBusy'
    PROVE  Result
<1> DEFINE asked == Asked(p)
           cand  == FromDiscovery(SubmitSpec(p), Loaded.cont, Loaded.refs \cup asked, Loaded, TRUE)
<1>1. Begin(w, "submit", cand, asked \ Loaded.seen, asked, FALSE) /\ Loaded.active
  BY DEF Submit, Accepts
<1>2. cand.exists /\ Loaded.seen \subseteq cand.seen BY DiscoveryKeeps
<1> HIDE DEF cand, asked
<1> QED BY <1>1, <1>2, BeginKeeps

LEMMA TickKeeps ==
    ASSUME CallsInv, NEW w \in Writers, Tick(w), alone => OneBusy'
    PROVE  Result
<1> DEFINE spec  == [pinned |-> Loaded.pinned, watch |-> Loaded.watch]
           found == Discover(spec, trained)
           cand  == FromDiscovery(spec, Loaded.cont, found, Loaded, Loaded.active)
<1>1. Begin(w, "tick", cand, found \ Loaded.seen, {}, FALSE) BY DEF Tick
<1>2. cand.exists /\ Loaded.seen \subseteq cand.seen /\ cand.active = Loaded.active
  BY DiscoveryKeeps
<1> HIDE DEF cand
<1> QED BY <1>1, <1>2, BeginKeeps

\* A refusal may restore the manifest, but not beside a call that is busy.
LEMMA RejectKeeps ==
    ASSUME CallsInv, NEW w \in Writers, NEW p \in SubmitPayloads, RejectSubmit(w, p),
           alone => \A v \in Busy : ~ Undercut(v)
    PROVE  Result
<1>1. Restore /\ UNCHANGED <<artifact, pc, call>> BY DEF RejectSubmit
<1>2. /\ manifest.exists => manifest' = manifest
      /\ manifest'.exists => manifest' = Loaded
      /\ ~ manifest'.exists => manifest' = NoManifest
      /\ ArtifactBehind => artifact.seen \subseteq Loaded.seen
      /\ Grows
  BY <1>1, RestoreFacts DEF CallsInv
<1>3. StoresInv' BY <1>1, <1>2 DEF CallsInv, StoresInv
<1>4. ASSUME alone PROVE OneCallInv' /\ Sticks
  <2>1. ArtifactBehind' BY <1>1, <1>2, <1>4 DEF CallsInv, OneCallInv, ArtifactBehind
  <2>2. \A v \in Busy : manifest' = manifest \/ ~ manifest'.exists
    BY <1>1, <1>4 DEF Undercut
  <2>3. \A v \in Writers : ToStore(v)' /\ Stored(v)'
    BY <1>1, <1>4, <2>2 DEF CallsInv, OneCallInv, ToStore, Stored, Busy
  <2>4. OneBusy' BY <1>1, <1>4 DEF CallsInv, OneCallInv, OneBusy, Busy
  <2>5. Sticks BY <1>2 DEF Sticks
  <2> QED BY <2>1, <2>3, <2>4, <2>5 DEF OneCallInv
<1> QED BY <1>2, <1>3, <1>4 DEF Result

(***************************************************************************)
(* The steps of a call.                                                    *)
(***************************************************************************)
\* A call goes on; the stores are as they were, or its own to write.
LEMMA StepKeeps ==
    ASSUME CallsInv, NEW w \in Writers, pc[w] # "idle", NEW step, NEW c,
           pc' = [pc EXCEPT ![w] = step], call' = [call EXCEPT ![w] = c],
           step # "idle" => c.cand.exists,
           ~ manifest'.exists => manifest' = NoManifest,
           ~ artifact'.exists => artifact' = NoManifest,
           alone => /\ ArtifactBehind' /\ Grows /\ Sticks
                    /\ step \in {"enqueue", "merge"} =>
                          /\ artifact'.seen \subseteq c.cand.seen
                          /\ manifest'.exists =>
                                /\ c.kind # "seed" /\ c.cand.active => manifest'.active
                                /\ step = "merge" => c.base = manifest'
                    /\ step \in {"index", "artifact"} /\ manifest'.exists => c.cand = manifest'
    PROVE  Result
<1>1. /\ pc'[w] = step /\ call'[w] = c
      /\ \A v \in Writers \ {w} : pc'[v] = pc[v] /\ call'[v] = call[v]
  BY DEF CallsInv, ServiceTypeOK
<1>2. StoresInv' BY <1>1 DEF CallsInv, StoresInv
<1>3. ASSUME alone PROVE OneCallInv'
  <2>1. ToStore(w)' BY <1>1, <1>3 DEF ToStore
  <2>2. Stored(w)' BY <1>1, <1>3 DEF Stored
  <2> QED BY <1>1, <1>3, <2>1, <2>2, BusyAlone DEF CallsInv
<1> QED BY <1>2, <1>3 DEF Result

\* What CallsInv says of a call that is busy.
LEMMA BusyCall ==
    ASSUME CallsInv, NEW w \in Writers, pc[w] # "idle"
    PROVE  /\ call[w].cand.exists /\ call[w].cand \in Manifest /\ call[w].base \in Manifest
           /\ call[w] \in Call
           /\ manifest \in Manifest /\ artifact \in Manifest
           /\ ~ manifest.exists => manifest = NoManifest
           /\ ~ artifact.exists => artifact = NoManifest
           /\ alone => ArtifactBehind /\ ToStore(w) /\ Stored(w)
BY CallType DEF CallsInv, StoresInv, OneCallInv, ServiceTypeOK

LEMMA SameManifest == ASSUME manifest' = manifest PROVE Grows /\ Sticks
BY DEF Grows, Sticks

LEMMA EnqueueKeeps == ASSUME CallsInv, NEW w \in Writers, EnqueueEvent(w) PROVE Result
<1>1. PICK ref \in call[w].todo : call' = [call EXCEPT ![w].todo = @ \ {ref}]
  BY DEF EnqueueEvent
<1> DEFINE c == [call[w] EXCEPT !.todo = @ \ {ref}]
<1>2. /\ pc[w] = "enqueue" /\ UNCHANGED <<pc, manifest, artifact>>
      /\ call' = [call EXCEPT ![w] = c]
  BY <1>1 DEF EnqueueEvent
<1>3. call[w] \in Call BY <1>2, BusyCall
<1>4. c.cand = call[w].cand /\ c.kind = call[w].kind BY <1>3 DEF Call
<1> HIDE DEF c
<1>5. pc' = [pc EXCEPT ![w] = "enqueue"] BY <1>2 DEF CallsInv, ServiceTypeOK
<1>6. alone => ArtifactBehind' /\ Grows /\ Sticks
  BY <1>2, BusyCall, SameManifest DEF ArtifactBehind
<1>7. alone => /\ artifact'.seen \subseteq c.cand.seen
               /\ manifest'.exists /\ c.kind # "seed" /\ c.cand.active => manifest'.active
  BY <1>2, <1>4, BusyCall DEF ToStore
<1>8. /\ c.cand.exists /\ pc[w] # "idle"
      /\ ~ manifest'.exists => manifest' = NoManifest
      /\ ~ artifact'.exists => artifact' = NoManifest
  BY <1>2, <1>4, BusyCall
<1> QED BY <1>2, <1>5, <1>6, <1>7, <1>8, StepKeeps

LEMMA ReadKeeps == ASSUME CallsInv, NEW w \in Writers, ReadCurrent(w) PROVE Result
<1> DEFINE marked == MarkQueued(call[w].cand, call[w].new)
           cand   == RepairDefaults(marked)
           c      == [call[w] EXCEPT !.cand = cand, !.base = manifest, !.new = {}]
<1>1. /\ pc[w] = "enqueue" /\ UNCHANGED <<manifest, artifact>>
      /\ pc' = [pc EXCEPT ![w] = "merge"] /\ call' = [call EXCEPT ![w] = c]
  BY DEF ReadCurrent, storeVars
<1>2. call[w] \in Call /\ call[w].cand \in Manifest /\ call[w].new \in SUBSET Refs
  BY CallType DEF CallsInv
<1>3. /\ marked \in Manifest /\ marked.seen = call[w].cand.seen
      /\ marked.exists = call[w].cand.exists /\ marked.active = call[w].cand.active
  BY <1>2, MarkQueuedType DEF MarkQueued, Manifest
<1> HIDE DEF marked
<1>4. /\ cand.seen = call[w].cand.seen /\ cand.exists = call[w].cand.exists
      /\ cand.active = call[w].cand.active
  BY <1>3, RepairDefaultsType
<1> HIDE DEF cand
<1>5. c.cand = cand /\ c.base = manifest /\ c.kind = call[w].kind BY <1>2 DEF Call
<1> HIDE DEF c
<1>6. alone => ArtifactBehind' /\ Grows /\ Sticks
  BY <1>1, BusyCall, SameManifest DEF ArtifactBehind
<1>7. alone => /\ artifact'.seen \subseteq c.cand.seen
               /\ manifest'.exists /\ c.kind # "seed" /\ c.cand.active => manifest'.active
  BY <1>1, <1>4, <1>5, BusyCall DEF ToStore
<1>8. /\ c.cand.exists /\ pc[w] # "idle" /\ c.base = manifest'
      /\ ~ manifest'.exists => manifest' = NoManifest
      /\ ~ artifact'.exists => artifact' = NoManifest
  BY <1>1, <1>4, <1>5, BusyCall
<1> QED BY <1>1, <1>6, <1>7, <1>8, StepKeeps

LEMMA PutKeeps == ASSUME CallsInv, NEW w \in Writers, PutManifest(w) PROVE Result
<1> DEFINE base   == call[w].base
           merged == MergePool(call[w].cand, base)
           cand   == RepairDefaults(merged)
           c      == [call[w] EXCEPT !.cand = cand, !.base = NoManifest]
<1>1. /\ pc[w] = "merge" /\ manifest' = cand /\ UNCHANGED artifact
      /\ pc' = [pc EXCEPT ![w] = "index"] /\ call' = [call EXCEPT ![w] = c]
  BY DEF PutManifest
<1>2. /\ call[w] \in Call /\ call[w].cand \in Manifest /\ base \in Manifest
      /\ call[w].cand.exists
  BY <1>1, BusyCall
<1>3. /\ merged \in Manifest /\ merged.exists /\ merged.active = call[w].cand.active
      /\ call[w].cand.seen \subseteq merged.seen
      /\ base.exists => base.refs \subseteq merged.refs /\ base.seen \subseteq merged.seen
  <2>1. CASE base.exists BY <1>2, <2>1, MergePoolKeeps
  <2>2. CASE ~ base.exists BY <1>2, <2>2 DEF MergePool
  <2> QED BY <2>1, <2>2
<1> HIDE DEF merged
<1>4. /\ cand.exists /\ cand.active = call[w].cand.active
      /\ call[w].cand.seen \subseteq cand.seen
      /\ base.exists => base.refs \subseteq cand.refs /\ base.seen \subseteq cand.seen
  BY <1>3, RepairDefaultsType
<1> HIDE DEF cand
<1>5. c.cand = cand /\ c.kind = call[w].kind BY <1>2 DEF Call
<1> HIDE DEF c
<1>6. ASSUME alone PROVE ArtifactBehind' /\ Grows /\ Sticks
  <2>1. ToStore(w) /\ (~ manifest.exists => manifest = NoManifest) BY <1>1, <1>6, BusyCall
  <2>2. ArtifactBehind' BY <1>1, <1>4, <2>1 DEF ToStore, ArtifactBehind
  <2>3. Grows BY <1>1, <1>4, <2>1 DEF ToStore, Grows, NoManifest
  <2>4. Sticks BY <1>1, <1>4, <2>1 DEF ToStore, Sticks
  <2> QED BY <2>2, <2>3, <2>4
<1>7. /\ c.cand.exists /\ pc[w] # "idle" /\ c.cand = manifest' /\ manifest'.exists
      /\ ~ artifact'.exists => artifact' = NoManifest
  BY <1>1, <1>4, <1>5, BusyCall
<1> QED BY <1>1, <1>6, <1>7, StepKeeps

LEMMA IndexKeeps == ASSUME CallsInv, NEW w \in Writers, PutActiveKeys(w) PROVE Result
<1> DEFINE c == call[w]
<1>1. /\ pc[w] = "index" /\ pc' = [pc EXCEPT ![w] = "artifact"]
      /\ UNCHANGED <<manifest, artifact, call>>
  BY DEF PutActiveKeys
<1>2. call' = [call EXCEPT ![w] = c] BY <1>1 DEF CallsInv, ServiceTypeOK
<1>3. alone => ArtifactBehind' /\ Grows /\ Sticks
  BY <1>1, BusyCall, SameManifest DEF ArtifactBehind
<1>4. alone => (manifest'.exists => c.cand = manifest')
  BY <1>1, BusyCall DEF Stored
<1>5. /\ c.cand.exists /\ pc[w] # "idle"
      /\ ~ manifest'.exists => manifest' = NoManifest
      /\ ~ artifact'.exists => artifact' = NoManifest
  BY <1>1, BusyCall
<1> HIDE DEF c
<1> QED BY <1>1, <1>2, <1>3, <1>4, <1>5, StepKeeps

LEMMA WriteKeeps == ASSUME CallsInv, NEW w \in Writers, WriteArtifact(w) PROVE Result
<1>1. /\ pc[w] = "artifact" /\ UNCHANGED manifest
      /\ artifact' = call[w].cand \/ artifact' = artifact
  BY DEF WriteArtifact
<1>2. PICK step \in {"spawn", "idle"}, c \in {call[w], NoCall} :
         /\ pc' = [pc EXCEPT ![w] = step] /\ call' = [call EXCEPT ![w] = c]
         /\ step = "spawn" => c = call[w]
  <2>1. CASE pc' = [pc EXCEPT ![w] = "spawn"] /\ UNCHANGED call
    BY <2>1 DEF CallsInv, ServiceTypeOK
  <2>2. CASE Return(w) BY <2>2 DEF Return
  <2> QED BY <2>1, <2>2 DEF WriteArtifact
<1>3. ~ artifact'.exists => artifact' = NoManifest BY <1>1, BusyCall
<1>4. alone => ArtifactBehind' /\ Grows /\ Sticks
  BY <1>1, BusyCall, SameManifest DEF ArtifactBehind, Stored
<1>5. /\ step # "idle" => c.cand.exists
      /\ pc[w] # "idle" /\ (~ manifest'.exists => manifest' = NoManifest)
      /\ step \notin {"enqueue", "merge", "index", "artifact"}
  BY <1>1, <1>2, BusyCall
<1> QED BY <1>2, <1>3, <1>4, <1>5, StepKeeps

\* The call is over, or its container is.
LEMMA ReturnKeeps ==
    ASSUME CallsInv, NEW w \in Writers, pc[w] # "idle", Return(w), UNCHANGED <<manifest, artifact>>
    PROVE  Result
<1>1. pc' = [pc EXCEPT ![w] = "idle"] /\ call' = [call EXCEPT ![w] = NoCall] BY DEF Return
<1>2. alone => ArtifactBehind' /\ Grows /\ Sticks
  BY BusyCall, SameManifest DEF ArtifactBehind
<1>3. /\ ~ manifest'.exists => manifest' = NoManifest
      /\ ~ artifact'.exists => artifact' = NoManifest
  BY BusyCall
<1> QED BY <1>1, <1>2, <1>3, StepKeeps

(***************************************************************************)
(* The surroundings.                                                       *)
(***************************************************************************)
\* The entry is as it was, or lost.
LEMMA StoresStay ==
    ASSUME CallsInv, UNCHANGED <<artifact, pc, call>>, manifest' \in {manifest, NoManifest}
    PROVE  Result
<1>1. manifest' = manifest \/ (manifest' = NoManifest /\ ~ manifest'.exists)
  BY DEF NoManifest
<1>2. StoresInv' BY <1>1 DEF CallsInv, StoresInv
<1>3. ASSUME alone PROVE OneCallInv' /\ Grows /\ Sticks
  <2>1. OneBusy' /\ ArtifactBehind'
    BY <1>1, <1>3 DEF CallsInv, OneCallInv, OneBusy, Busy, ArtifactBehind
  <2>2. \A v \in Writers : ToStore(v)' /\ Stored(v)'
    BY <1>1, <1>3 DEF CallsInv, OneCallInv, ToStore, Stored
  <2>3. Grows BY <1>1 DEF Grows
  <2>4. manifest' = NoManifest => ~ manifest'.active BY DEF NoManifest
  <2>5. Sticks BY <1>1, <2>4 DEF Sticks
  <2> QED BY <2>1, <2>2, <2>3, <2>5 DEF OneCallInv
<1> QED BY <1>2, <1>3 DEF Result

(***************************************************************************)
(* The theorems.                                                           *)
(***************************************************************************)
LEMMA NextKeeps == ASSUME CallsInv, CallsNext PROVE CallsInv' /\ Result
<1>1. /\ ServiceNext /\ alone' = alone
      /\ alone => \A v \in Busy : ~ Undercut(v)
  BY DEF CallsNext
<1>2. alone => OneBusy' BY OneIsBusy
<1>3. ServiceTypeOK' BY <1>1, TypeStep DEF CallsInv
<1>4. ASSUME NEW w \in Writers, WriterNext(w) PROVE Result
  <2>1. CASE \E p \in SeedPayloads : Seed(w, p) BY <1>2, <2>1, SeedKeeps
  <2>2. CASE \E p \in SubmitPayloads : Submit(w, p) BY <1>2, <2>2, SubmitKeeps
  <2>3. CASE \E p \in SubmitPayloads : RejectSubmit(w, p) BY <1>1, <2>3, RejectKeeps
  <2>4. CASE Tick(w) BY <1>2, <2>4, TickKeeps
  <2>5. CASE SpawnRating(w) BY <2>5, ReturnKeeps DEF SpawnRating
  <2>6. CASE Crash(w) BY <2>6, ReturnKeeps DEF Crash, storeVars
  <2>7. CASE EnqueueEvent(w) BY <2>7, EnqueueKeeps
  <2>8. CASE ReadCurrent(w) BY <2>8, ReadKeeps
  <2>9. CASE PutManifest(w) BY <2>9, PutKeeps
  <2>10. CASE PutActiveKeys(w) BY <2>10, IndexKeeps
  <2>11. CASE WriteArtifact(w) BY <2>11, WriteKeeps
  <2> QED BY <1>4, <2>1, <2>2, <2>3, <2>4, <2>5, <2>6, <2>7, <2>8, <2>9, <2>10, <2>11
          DEF WriterNext, WriterStep
<1>5. ASSUME \E r \in Runs : Train(r) PROVE Result
  <2>1. UNCHANGED <<manifest, artifact, pc, call>> BY <1>5 DEF Train, storeVars
  <2>2. manifest' \in {manifest, NoManifest} BY <2>1
  <2> QED BY <2>1, <2>2, StoresStay
<1>6. ASSUME ExpireQueue PROVE Result
  <2>1. UNCHANGED <<manifest, artifact, pc, call>> BY <1>6 DEF ExpireQueue
  <2>2. manifest' \in {manifest, NoManifest} BY <2>1
  <2> QED BY <2>1, <2>2, StoresStay
<1>7. ASSUME EvictDict PROVE Result
  <2>1. UNCHANGED <<artifact, pc, call>> /\ manifest' \in {manifest, NoManifest}
    BY <1>7 DEF EvictDict
  <2> QED BY <2>1, StoresStay
<1>8. Result BY <1>1, <1>4, <1>5, <1>6, <1>7 DEF ServiceNext
<1>9. CallsInv' BY <1>1, <1>3, <1>8 DEF Result, CallsInv
<1> QED BY <1>8, <1>9

LEMMA CallsStep ==
    ASSUME CallsInv, [CallsNext]_callsVars PROVE CallsInv' /\ (alone => Grows /\ Sticks)
<1>1. CASE CallsNext BY <1>1, NextKeeps DEF Result
<1>2. CASE UNCHANGED callsVars
  <2>1. UNCHANGED <<manifest, artifact, pc, call, alone>> /\ UNCHANGED serviceVars
    BY <1>2 DEF callsVars, serviceVars, storeVars
  <2>2. ServiceTypeOK' BY <2>1, TypeStep DEF CallsInv
  <2>3. Result BY <2>1, StoresStay
  <2> QED BY <2>1, <2>2, <2>3 DEF Result, CallsInv
<1> QED BY <1>1, <1>2

LEMMA CallsBegin == CallsInit => CallsInv
<1> SUFFICES ASSUME CallsInit PROVE CallsInv OBVIOUS
<1>1. ServiceTypeOK BY TypeInit DEF CallsInit
<1>2. /\ manifest = NoManifest /\ artifact = NoManifest
      /\ \A w \in Writers : pc[w] = "idle"
  BY DEF CallsInit, ServiceInit
<1>3. OneCallInv
  BY <1>2 DEF OneCallInv, OneBusy, Busy, ArtifactBehind, ToStore, Stored
<1> QED BY <1>1, <1>2, <1>3 DEF CallsInv, StoresInv

\* The invariant the theorems about one call at a time rest on.
THEOREM CallsInvariant == CallsSpec => []CallsInv
BY CallsBegin, CallsStep, PTL DEF CallsSpec

\* What is proved of calls that interleave freely holds of these behaviours, too.
THEOREM CallsAreService == CallsSpec => ServiceSpec
<1>1. CallsInit => ServiceInit BY DEF CallsInit
<1>2. [CallsNext]_callsVars => [ServiceNext]_serviceVars BY DEF CallsNext, callsVars
<1> QED BY <1>1, <1>2, PTL DEF CallsSpec, ServiceSpec

\* With one call at a time the artifact never has references marked as seen that
\* the Dict's entry has not: restoring a lost entry from it brings nothing back.
THEOREM ArtifactStaysBehind == CallsSpec => []ArtifactNeverAhead
<1>1. CallsInv => ArtifactNeverAhead
  BY DEF CallsInv, OneCallInv, ArtifactBehind, ArtifactNeverAhead
<1> QED BY CallsInvariant, <1>1, PTL

\* With one call at a time no step shrinks the pool or what was seen, although
\* what a call means to store holds only what its own scan found.
THEOREM PoolOnlyGrows == CallsSpec => PoolNeverShrinks
<1>1. CallsInv /\ [CallsNext]_callsVars =>
         [(alone /\ manifest'.exists) => /\ manifest.refs \subseteq manifest'.refs
                                         /\ manifest.seen \subseteq manifest'.seen]_manifest
  BY CallsStep DEF Grows
<1> QED BY CallsInvariant, <1>1, PTL DEF CallsSpec, PoolNeverShrinks

\* With one call at a time only a seed turns a deactivated intake on again: not a
\* tick that was on its way, nor the restoring of an entry.
THEOREM DeactivationHolds == CallsSpec => DeactivationSticks
<1>1. CallsInv /\ [CallsNext]_callsVars =>
         [(alone /\ manifest.exists /\ ~ manifest.active /\ manifest'.active)
            => \E w \in Writers : pc[w] = "merge" /\ call[w].kind = "seed"]_manifest
  BY CallsStep DEF Sticks
<1> QED BY CallsInvariant, <1>1, PTL DEF CallsSpec, DeactivationSticks
=============================================================================
