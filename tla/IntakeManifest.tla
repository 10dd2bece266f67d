--------------------------- MODULE IntakeManifest ---------------------------
(***************************************************************************)
(* The intake manifest of a tournament's rating run and the pure functions *)
(* the intake service computes on it: what a scan discovers, the manifest  *)
(* built from a discovery, and the merge that every write to the shared    *)
(* Dict goes through.                                                      *)
(*                                                                         *)
(* A checkpoint reference is a pair <<run, iteration>>.  A manifest holds   *)
(* sets of references; the counts and hashes the code stores beside them   *)
(* are functions of these sets.  Of the scan specification only the pinned *)
(* references and the watched runs are kept (selection "latest"), and of   *)
(* the rating defaults only continue_from_latest.                          *)
(***************************************************************************)
EXTENDS Naturals

CONSTANTS
    Runs,       \* the training runs
    MaxIter     \* bound: checkpoints a run produces

ASSUME MaxIterAssumption == MaxIter \in Nat \ {0}

Refs == Runs \X (1..MaxIter)

Manifest ==
    [exists : BOOLEAN,           \* FALSE: no manifest under the key
     active : BOOLEAN,
     refs   : SUBSET Refs,       \* checkpoint_refs: the pool
     seen   : SUBSET Refs,       \* seen_checkpoint_refs
     queued : SUBSET Refs,       \* queued_checkpoint_refs
     pinned : SUBSET Refs,       \* scan_spec.checkpoint_refs
     watch  : SUBSET Runs,       \* scan_spec.run_ids and run_id_prefix
     cont   : BOOLEAN]           \* rating_defaults.continue_from_latest

NoManifest ==
    [exists |-> FALSE, active |-> FALSE, refs |-> {}, seen |-> {}, queued |-> {},
     pinned |-> {}, watch |-> {}, cont |-> FALSE]

ScanSpec == [pinned : SUBSET Refs, watch : SUBSET Runs]

IsLiveWatch(spec) == spec.watch # {}

\* Mutant: off by one, the checkpoint after the newest.
LatestOfNext(r, trained) == {<<r, trained[r] + 1>>}

\* The newest checkpoint of a run on the checkpoint volume (0: none yet).
LatestOf(r, trained) == IF trained[r] = 0 THEN {} ELSE {<<r, trained[r]>>}

\* Pinned references are taken as they are; a watch adds the latest
\* checkpoint of each watched run.
Discover(spec, trained) ==
    spec.pinned \cup UNION {LatestOf(r, trained) : r \in spec.watch}

\* The manifest a discovery yields.  The pool is what was discovered; what
\* an existing manifest had seen, and had queued, stays so.
FromDiscovery(spec, cont, found, existing, active) ==
    [exists |-> TRUE, active |-> active,
     refs   |-> found,
     seen   |-> existing.seen \cup found,
     queued |-> existing.queued \cap (existing.seen \cup found),
     pinned |-> spec.pinned, watch |-> spec.watch, cont |-> cont]

\* Mutants: marking replaces what was marked before; marking is forgotten.
MarkQueuedReplaces(m, events) == [m EXCEPT !.queued = events \cap m.seen]
MarkQueuedForgets(m, events) == m

MarkQueued(m, events) ==
    [m EXCEPT !.queued = IF m.seen = {} THEN @ \cup events
                                        ELSE (@ \cup events) \cap m.seen]

\* A live watch always continues from the latest ratings.
RepairDefaults(m) == [m EXCEPT !.cont = @ \/ IsLiveWatch(m)]

PinRefs(pool, spec, fallback) ==
    [pinned |-> pool,
     watch  |-> IF IsLiveWatch(spec) THEN spec.watch ELSE fallback.watch]

\* Mutant: the last scan wins.
MergeLastScanWins(cand, cur) ==
    [cand EXCEPT !.seen = cand.refs, !.queued = @ \cap cand.refs]

\* Merge a possibly stale write with the manifest now in the Dict.
MergePool(cand, cur) ==
    LET pool  == cand.refs \cup cur.refs
        seen  == cand.seen \cup cur.seen \cup pool
        wider == ~ (cur.refs \subseteq cand.refs)
        repin == wider \/ IsLiveWatch(cand) \/ IsLiveWatch(cur)
        spec  == IF repin THEN PinRefs(pool, cand, cur)
                          ELSE [pinned |-> cand.pinned, watch |-> cand.watch]
    IN  IF ~ cur.exists
        THEN cand
        ELSE [exists |-> TRUE, active |-> cand.active,
              refs   |-> pool,
              seen   |-> seen,
              queued |-> (cand.queued \cup cur.queued) \cap seen,
              pinned |-> spec.pinned, watch |-> spec.watch,
              cont   |-> IF wider THEN cur.cont ELSE cand.cont]

\* The references a drain rates: the pool, and with continuation everything seen.
RatingRefs(m, cont) == IF cont THEN m.refs \cup m.seen ELSE m.refs

\* The references a drain may put back into the queue.
QueueRepairRefs(m) ==
    LET known == IF m.seen = {} THEN m.refs ELSE m.seen
    IN  IF known = {} THEN m.queued ELSE m.queued \cap known
=============================================================================
