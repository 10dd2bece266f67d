---------------------------- MODULE IntakeCalls ----------------------------
(***************************************************************************)
(* The intake calls of IntakeService, either free to overlap or one at a   *)
(* time: some of what the intake relies on holds only of the latter, and   *)
(* nothing in the code keeps the scheduled tick and the operator's calls   *)
(* apart.                                                                  *)
(***************************************************************************)
EXTENDS IntakeService

CONSTANTS
    Modes,            \* may calls be alone, may they overlap
    OverlapRequests,  \* bound: requests when calls overlap
    OverlapIter       \* bound: checkpoints of a run when calls overlap

ASSUME CallsAssumption ==
    /\ IsFiniteSet(Writers)
    /\ Modes \subseteq BOOLEAN /\ OverlapRequests \in Nat /\ OverlapIter \in Nat

VARIABLE alone        \* is this a behaviour of one call at a time

callsVars == <<serviceVars, alone>>

Busy == {w \in Writers : pc[w] # "idle"}

\* Another call stores a manifest while w is in the middle of its own.
Undercut(w) ==
    pc'[w] = pc[w] /\ call'[w] = call[w] /\ manifest'.exists /\ manifest' # manifest

CallsInit == ServiceInit /\ alone \in Modes

CallsNext ==
    /\ ServiceNext /\ UNCHANGED alone
    /\ alone => Cardinality(Busy') <= 1 /\ \A w \in Busy : ~ Undercut(w)
    /\ ~ alone => requests' <= OverlapRequests /\ \A r \in Runs : trained'[r] <= OverlapIter

CallsSpec == CallsInit /\ [][CallsNext]_callsVars
------------------------------------------------------------------------------
(***************************************************************************)
(* Properties of one call at a time, whatever crashes, expires or is       *)
(* evicted between its steps.                                              *)
(***************************************************************************)

\* Merging a stale candidate never shrinks the durable pool or what was seen.
PoolNeverShrinks ==
    [][(alone /\ manifest'.exists) => /\ manifest.refs \subseteq manifest'.refs
                                      /\ manifest.seen \subseteq manifest'.seen]_manifest

\* Only a seed can turn a deactivated intake on again.
DeactivationSticks ==
    [][(alone /\ manifest.exists /\ ~ manifest.active /\ manifest'.active)
         => \E w \in Writers : pc[w] = "merge" /\ call[w].kind = "seed"]_manifest

\* The artifact a lost Dict entry is restored from never runs ahead of it.
ArtifactNeverAhead ==
    (alone /\ manifest.exists) => artifact.seen \subseteq manifest.seen
==============================================================================
